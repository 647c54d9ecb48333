--------------------------- MODULE MCWaListener ---------------------------
(***************************************************************************)
(* Two listeners that contend for the lock, a 1:1 send, a pull and a group *)
(* send.                                                                   *)
(***************************************************************************)
EXTENDS WaListener, TLC
CONSTANTS l1, l2, s1, p1, g1
Commands == l1 :> "listen" @@ l2 :> "listen" @@ s1 :> "send" @@ p1 :> "pull" @@ g1 :> "group"
=============================================================================
