----------------------------- MODULE MCEfiLink -----------------------------
(* EfiLink with four entries: every case of SwapListEntries, with entries  *)
(* before, between and behind the two that change places.                  *)
EXTENDS EfiLink, TLC

FourEntries == 1 .. 4
=============================================================================
