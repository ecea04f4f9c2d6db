SPECIFICATION Spec
CONSTANTS
    ListHead = ListHead
    Entries <- FourEntries
INVARIANTS
    LinksFollowOrder
