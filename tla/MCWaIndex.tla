----------------------------- MODULE MCWaIndex -----------------------------
\* A peer with an old polluted row and one under its number, and a group;
\* then a message that tells the peer's names, one under its number, one in
\* the group.
EXTENDS WaIndex

CONSTANTS peer, group

MCChat == <<peer, peer, group, peer, peer>>
MCForm == <<"polluted", "pn", "group", "lid", "pn">>
=============================================================================
