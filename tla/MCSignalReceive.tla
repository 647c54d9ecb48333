-------------------------- MODULE MCSignalReceive --------------------------
(***************************************************************************)
(* A small instance of SignalReceive: the distribution of a sender key, a  *)
(* text that needs it and carries no server GUID, the deletion of that     *)
(* text, and a message refused after it was decrypted.                     *)
(***************************************************************************)
EXTENDS SignalReceive

CONSTANTS key, text, remove, bad

MCKind == [e \in Envelopes |->
  CASE e = key -> "silent" [] e = text -> "text" [] e = remove -> "delete" [] e = bad -> "rejected"]
MCNeeds  == [e \in Envelopes |-> IF e = text THEN {key} ELSE {}]
MCTarget == [e \in Envelopes |-> IF e = remove THEN {text} ELSE {}]
MCGuid   == Envelopes \ {text}
=============================================================================
