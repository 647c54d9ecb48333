-------------------------- MODULE ReliableChannel ---------------------------
(***************************************************************************)
(* What a connection promises the code above it: what the server has sent  *)
(* is taken in order, each item once, as Image says, until the connection  *)
(* ends; nothing sent is left behind while it lasts.                       *)
(***************************************************************************)
EXTENDS Naturals, Sequences

CONSTANTS Items, Image(_), MaxItems

VARIABLES sent, got, ended
vars == <<sent, got, ended>>

Init == sent = <<>> /\ got = <<>> /\ ended = FALSE

Send(n) ==
  /\ ~ended /\ Len(sent) < MaxItems
  /\ sent' = Append(sent, n) /\ UNCHANGED <<got, ended>>

Take ==
  /\ Len(got) < Len(sent)
  /\ got' = Append(got, Image(sent[Len(got) + 1])) /\ UNCHANGED <<sent, ended>>

End == ~ended /\ ended' = TRUE /\ UNCHANGED <<sent, got>>

Next == (\E n \in Items : Send(n)) \/ Take \/ End

Spec == Init /\ [][Next]_vars

Everything == \A i \in 1 .. MaxItems : Len(sent) >= i ~> Len(got) >= i \/ ended
=============================================================================
