---------------------------- MODULE MCWaHistory ----------------------------
(* A chat read with --since, which asks for as much as the phone gives, or  *)
(* with a --limit of three; the phone knows it by the second form tried.    *)
EXTENDS WaHistory

MCForms == <<"pn", "lid">>
MCAsks  == {[limit |-> 5, since |-> 2], [limit |-> 3, since |-> 0]}
=============================================================================
