--------------------------- MODULE MCCloseDelivery ---------------------------
(***************************************************************************)
(* CloseDelivery for TLC: two packets, with any number of events, and an   *)
(* unrelated asynchronous function.                                        *)
(***************************************************************************)
EXTENDS CloseDelivery

CONSTANTS d1, d2

ThePackets == <<d1, d2>>
TheMinEvents == -1
=============================================================================
