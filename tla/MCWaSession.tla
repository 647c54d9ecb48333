---------------------------- MODULE MCWaSession ----------------------------
\* A group message with its sender key, one that needs it, a history
\* notification and a message no key opens.
EXTENDS WaSession

MailKind == <<"skdm", "group", "history", "bad">>
MailSkdm == <<1, 1, 1, 1>>
=============================================================================
