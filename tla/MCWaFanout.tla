---------------------------- MODULE MCWaFanout -----------------------------
\* Two sends to one peer, relayed by a listener, the second a large one, and
\* two to a group; the peer's second device is not linked yet.
EXTENDS WaFanout, TLC

CONSTANTS d1, d2, g1, g2, peer, own, phone, a1, a2

Chats  == [t \in Sends |-> IF t \in {d1, d2} THEN peer ELSE Group]
Mixes  == {{d1, d2}, {d1, g1}, {g1, g2}}
Owners == [d \in Devices |-> IF d \in {own, phone} THEN Me ELSE peer]
=============================================================================
