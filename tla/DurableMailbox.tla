--------------------------- MODULE DurableMailbox ---------------------------
(***************************************************************************)
(* What the Signal receive path promises, with no processes, crashes,      *)
(* transactions or row identifiers in sight: an envelope the service holds *)
(* becomes an encrypted copy of ours, the service may forget it only from  *)
(* then on, a copy is kept until it has been consumed, and consuming it is *)
(* one step with what it does to the inbox.  README.md: "Signal's receive  *)
(* queue commits an encrypted copy before acknowledging delivery.  Failed  *)
(* decryption remains queued for retry."                                   *)
(***************************************************************************)
CONSTANTS Envelopes, Texts, Target

VARIABLES
  held,      \* envelopes the service would deliver again
  stored,    \* envelopes with an encrypted copy here
  consumed,  \* envelopes whose effect has been applied
  shown      \* texts in the inbox

vars == <<held, stored, consumed, shown>>

Init == held = Envelopes /\ stored = {} /\ consumed = {} /\ shown = {}

Store(e) ==
  /\ e \in held /\ stored' = stored \cup {e}
  /\ UNCHANGED <<held, consumed, shown>>

Forget(e) ==
  /\ e \in stored \cup consumed /\ held' = held \ {e}
  /\ UNCHANGED <<stored, consumed, shown>>

\* The copy may outlive the step when the service delivered it twice.
Consume(e) ==
  /\ e \in stored \ consumed
  /\ consumed' = consumed \cup {e}
  /\ stored' \in {stored, stored \ {e}}
  /\ shown' = (shown \ Target[e]) \cup ({e} \cap Texts)
  /\ UNCHANGED held

\* A further copy of what was already applied has no effect of its own.
Discharge(e) ==
  /\ e \in stored \cap consumed
  /\ stored' = stored \ {e}
  /\ UNCHANGED <<held, consumed, shown>>

Next == \E e \in Envelopes : Store(e) \/ Forget(e) \/ Consume(e) \/ Discharge(e)

Spec == Init /\ [][Next]_vars
=============================================================================
