-------------------------- MODULE MCSignalAccount --------------------------
(***************************************************************************)
(* A phone that knows one peer by uuid and number and another by number    *)
(* only, with a disappearing timer in both conversations; the second       *)
(* device linked gets the number of the first, which was unlinked.         *)
(***************************************************************************)
EXTENDS SignalAccount

CONSTANTS p, q

Frame(peer, u, n, t) == [peer |-> peer, uuid |-> u, number |-> n, timer |-> t]

MCArchive == << Frame(p, TRUE, TRUE, "on"), Frame(q, FALSE, TRUE, "on") >>

MCNumber == <<1, 1, 2>>
=============================================================================
