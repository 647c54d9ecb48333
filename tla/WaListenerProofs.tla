-------------------------- MODULE WaListenerProofs --------------------------
(***************************************************************************)
(* Theorems about WaListener for any set of processes, any commands and    *)
(* any number of faults: one connection at a time, a message posted at     *)
(* most once, and reports that say no more than what happened to it.       *)
(***************************************************************************)
EXTENDS WaListener, TLAPS

\* What a process does follows from its command.
Roles == \A p \in Processes :
  /\ pc[p] = "serving" => p \in Listeners
  /\ pc[p] \in {"alive", "relayed"} => Command[p] = "send"
  /\ pc[p] = "connected" => p \notin Listeners
  /\ job[p] # "none" => p \in Senders

\* A send that has no connection yet has put nothing on its way; one that has
\* begun has not either; the server has taken an acknowledged one.
PostedOnce == \A s \in Processes :
  /\ s \notin Senders \/ pc[s] \in {"new", "blocked", "alive", "connecting"} =>
       job[s] = "none" /\ s \notin wire /\ copies[s] = 0
  /\ job[s] = "begun" => s \notin wire /\ copies[s] = 0
  /\ job[s] \in {"acked", "unrecorded"} => s \notin wire /\ (copies[s] = 1 \/ s \in rejected)
  /\ s \in wire => copies[s] = 0
  /\ copies[s] <= 1

\* A request sits with a listener, and a running job has a connection to run
\* on; a request without a job has lost it to the end of its host.
Hosted == \A s \in Processes :
  /\ pc[s] = "relayed" => host[s] \in Listeners
  /\ pc[s] = "relayed" /\ job[s] = "none" => s \in troubled
  /\ job[s] \in {"begun", "posted", "acked"} =>
       host[s] \in Processes /\ (pc[host[s]] = "serving" \/ (host[s] = s /\ pc[s] = "connected"))

\* A send that failed, or was refused, put nothing on its way, or its user
\* was cut off from a job in a listener, or only the cache lacks it.
Unsent(s)    == s \notin wire /\ copies[s] = 0
LostTouch(s) == s \in troubled /\ host[s] \in Listeners
Accounted == \A s \in Processes :
  /\ report[s] # "none" => pc[s] = "ended"
  /\ report[s] = "sent" => copies[s] = 1 \/ s \in rejected
  /\ job[s] = "unacked" => s \in troubled
  /\ job[s] = "failed" => Unsent(s) \/ LostTouch(s)
  /\ job[s] = "unrecorded" => s \in unrecorded
  /\ report[s] = "refused" =>
       (job[s] \in {"none", "failed"} /\ Unsent(s)) \/ LostTouch(s) \/ s \in unrecorded

IInv == TypeOK /\ Roles /\ PostedOnce /\ Hosted /\ Accounted

\* The invariant holds before any process has started.
LEMMA InitInv == Init => IInv
  BY ListenerAssumption DEF Init, IInv, TypeOK, Roles, PostedOnce, Hosted, Accounted

\* Every step of a process, and of the server, keeps it.
LEMMA StepInv == IInv /\ [Next]_vars => IInv'
<1> SUFFICES ASSUME IInv, [Next]_vars PROVE IInv'
  OBVIOUS
<1> USE ListenerAssumption DEF IInv, TypeOK, Senders, Listeners, vars, lockVars, jobVars,
    history, Goto
<1>1. ASSUME NEW p \in Processes, Start(p) PROVE IInv'
  <2>1. TypeOK'
    BY <1>1 DEF Start, Tell, Fault, Roles, PostedOnce
  <2>2. Roles'
    BY <1>1 DEF Start, Tell, Fault, Roles
  <2>3. PostedOnce'
    BY <1>1 DEF Start, Tell, Fault, Roles, PostedOnce
  <2>4. Hosted'
    BY <1>1 DEF Start, Tell, Fault, Roles, Hosted
  <2>5. Accounted'
    BY <1>1 DEF Start, Tell, Accounted, Unsent, LostTouch
  <2> QED
    BY <2>1, <2>2, <2>3, <2>4, <2>5
<1>2. ASSUME NEW p \in Processes, Request(p) PROVE IInv'
  <2>1. TypeOK'
    BY <1>2 DEF Request, Begin, Refuse, Tell, Roles, PostedOnce
  <2>2. Roles'
    BY <1>2 DEF Request, Begin, Refuse, Tell, Roles
  <2>3. PostedOnce'
    BY <1>2 DEF Request, Begin, Refuse, Tell, Roles, PostedOnce
  <2>4. Hosted'
    BY <1>2 DEF Request, Begin, Refuse, Tell, Roles, Hosted
  <2>5. Accounted'
    BY <1>2 DEF Request, Begin, Refuse, Tell, PostedOnce, Accounted, Unsent, LostTouch
  <2> QED
    BY <2>1, <2>2, <2>3, <2>4, <2>5
<1>3. ASSUME NEW p \in Processes, TakeLock(p) PROVE IInv'
  <2>1. TypeOK'
    BY <1>3 DEF TakeLock, Roles, PostedOnce
  <2>2. Roles'
    BY <1>3 DEF TakeLock, Roles
  <2>3. PostedOnce'
    BY <1>3 DEF TakeLock, Roles, PostedOnce
  <2>4. Hosted'
    BY <1>3 DEF TakeLock, Roles, Hosted
  <2>5. Accounted'
    BY <1>3 DEF TakeLock, Roles, PostedOnce, Hosted, Accounted, Unsent, LostTouch
  <2> QED
    BY <2>1, <2>2, <2>3, <2>4, <2>5
<1>4. ASSUME NEW p \in Processes, Serve(p) PROVE IInv'
  <2>1. TypeOK'
    BY <1>4 DEF Serve, Roles, PostedOnce
  <2>2. Roles'
    BY <1>4 DEF Serve, Roles
  <2>3. PostedOnce'
    BY <1>4 DEF Serve, Roles, PostedOnce
  <2>4. Hosted'
    BY <1>4 DEF Serve, Roles, Hosted
  <2>5. Accounted'
    BY <1>4 DEF Serve, Roles, PostedOnce, Hosted, Accounted, Unsent, LostTouch
  <2> QED
    BY <2>1, <2>2, <2>3, <2>4, <2>5
<1>5. ASSUME NEW p \in Processes, Connect(p) PROVE IInv'
  <2>1. TypeOK'
    BY <1>5 DEF Connect, Begin, Roles, PostedOnce
  <2>2. Roles'
    BY <1>5 DEF Connect, Begin, Roles
  <2>3. PostedOnce'
    BY <1>5 DEF Connect, Begin, Roles, PostedOnce
  <2>4. Hosted'
    BY <1>5 DEF Connect, Begin, Roles, Hosted
  <2>5. Accounted'
    BY <1>5 DEF Connect, Begin, Accounted, Unsent, LostTouch
  <2> QED
    BY <2>1, <2>2, <2>3, <2>4, <2>5
<1>6. ASSUME NEW p \in Processes, ConnectFails(p) PROVE IInv'
  <2>1. TypeOK'
    BY <1>6 DEF ConnectFails, Refuse, Tell, Unlock, Roles, PostedOnce
  <2>2. Roles'
    BY <1>6 DEF ConnectFails, Refuse, Tell, Unlock, Roles
  <2>3. PostedOnce'
    BY <1>6 DEF ConnectFails, Refuse, Tell, Unlock, Roles, PostedOnce
  <2>4. Hosted'
    BY <1>6 DEF ConnectFails, Refuse, Tell, Unlock, Roles, Hosted
  <2>5. Accounted'
    BY <1>6 DEF ConnectFails, Refuse, Tell, PostedOnce, Accounted, Unsent, LostTouch
  <2> QED
    BY <2>1, <2>2, <2>3, <2>4, <2>5
<1>7. ASSUME NEW p \in Processes, PullOver(p) PROVE IInv'
  <2>1. TypeOK'
    BY <1>7 DEF PullOver, Tell, Unlock, Roles, PostedOnce
  <2>2. Roles'
    BY <1>7 DEF PullOver, Tell, Unlock, Roles
  <2>3. PostedOnce'
    BY <1>7 DEF PullOver, Tell, Unlock, Roles, PostedOnce
  <2>4. Hosted'
    BY <1>7 DEF PullOver, Tell, Unlock, Roles, Hosted
  <2>5. Accounted'
    BY <1>7 DEF PullOver, Tell, Accounted, Unsent, LostTouch
  <2> QED
    BY <2>1, <2>2, <2>3, <2>4, <2>5
<1>8. ASSUME NEW p \in Processes, Post(p) PROVE IInv'
  <2>1. TypeOK'
    BY <1>8 DEF Post, JobAt, Roles, PostedOnce
  <2>2. Roles'
    BY <1>8 DEF Post, JobAt, Roles
  <2>3. PostedOnce'
    BY <1>8 DEF Post, JobAt, Roles, PostedOnce
  <2>4. Hosted'
    BY <1>8 DEF Post, JobAt, Roles, Hosted
  <2>5. Accounted'
    BY <1>8 DEF Post, JobAt, Accounted, Unsent, LostTouch
  <2> QED
    BY <2>1, <2>2, <2>3, <2>4, <2>5
<1>9. ASSUME NEW p \in Processes, SendFails(p) PROVE IInv'
  <2>1. TypeOK'
    BY <1>9 DEF SendFails, MayFail, Roles, PostedOnce
  <2>2. Roles'
    BY <1>9 DEF SendFails, MayFail, Roles
  <2>3. PostedOnce'
    BY <1>9 DEF SendFails, MayFail, Roles, PostedOnce
  <2>4. Hosted'
    BY <1>9 DEF SendFails, MayFail, Roles, Hosted
  <2>5. Accounted'
    BY <1>9 DEF SendFails, MayFail, PostedOnce, Accounted, Unsent, LostTouch
  <2> QED
    BY <2>1, <2>2, <2>3, <2>4, <2>5
<1>10. ASSUME NEW p \in Processes, Accept(p) PROVE IInv'
  <2>1. TypeOK'
    BY <1>10 DEF Accept, Roles, PostedOnce
  <2>2. Roles'
    BY <1>10 DEF Accept, Roles
  <2>3. PostedOnce'
    BY <1>10 DEF Accept, Roles, PostedOnce
  <2>4. Hosted'
    BY <1>10 DEF Accept, Roles, Hosted
  <2>5. Accounted'
    BY <1>10 DEF Accept, Roles, PostedOnce, Hosted, Accounted, Unsent, LostTouch
  <2> QED
    BY <2>1, <2>2, <2>3, <2>4, <2>5
<1>11. ASSUME NEW p \in Processes, AckTimeout(p) PROVE IInv'
  <2>1. TypeOK'
    BY <1>11 DEF AckTimeout, Roles, PostedOnce
  <2>2. Roles'
    BY <1>11 DEF AckTimeout, Roles
  <2>3. PostedOnce'
    BY <1>11 DEF AckTimeout, Roles, PostedOnce
  <2>4. Hosted'
    BY <1>11 DEF AckTimeout, Roles, Hosted
  <2>5. Accounted'
    BY <1>11 DEF AckTimeout, Roles, PostedOnce, Hosted, Accounted, Unsent, LostTouch
  <2> QED
    BY <2>1, <2>2, <2>3, <2>4, <2>5
<1>12. ASSUME NEW p \in Processes, Answer(p) PROVE IInv'
  <2>1. TypeOK'
    BY <1>12 DEF Answer, Tell, Refuse, Unlock
  <2>2. Roles'
    BY <1>12 DEF Answer, Tell, Refuse, Roles
  <2>3. PostedOnce'
    BY <1>12 DEF Answer, Tell, Refuse, PostedOnce
  <2>4. Hosted'
    BY <1>12 DEF Answer, Tell, Refuse, Hosted
  <2>5. Accounted'
    BY <1>12 DEF Answer, Successful, Failed, Tell, Refuse, PostedOnce, Hosted, Accounted, Unsent,
       LostTouch
  <2> QED
    BY <2>1, <2>2, <2>3, <2>4, <2>5
<1>13. ASSUME NEW p \in Processes, NoAnswer(p) PROVE IInv'
  <2>1. TypeOK'
    BY <1>13 DEF NoAnswer, Gone, Refuse, Tell, Roles, PostedOnce
  <2>2. Roles'
    BY <1>13 DEF NoAnswer, Gone, Refuse, Tell, Roles
  <2>3. PostedOnce'
    BY <1>13 DEF NoAnswer, Gone, Refuse, Tell, Roles, PostedOnce
  <2>4. Hosted'
    BY <1>13 DEF NoAnswer, Gone, Refuse, Tell, Roles, Hosted
  <2>5. Accounted'
    BY <1>13 DEF NoAnswer, Gone, Refuse, Tell, Hosted, Accounted, Unsent, LostTouch
  <2> QED
    BY <2>1, <2>2, <2>3, <2>4, <2>5
<1>14. ASSUME NEW p \in Processes, GiveUp(p) PROVE IInv'
  <2>1. TypeOK'
    BY <1>14 DEF GiveUp, Refuse, Tell, Roles, PostedOnce
  <2>2. Roles'
    BY <1>14 DEF GiveUp, Refuse, Tell, Roles
  <2>3. PostedOnce'
    BY <1>14 DEF GiveUp, Refuse, Tell, Roles, PostedOnce
  <2>4. Hosted'
    BY <1>14 DEF GiveUp, Refuse, Tell, Roles, Hosted
  <2>5. Accounted'
    BY <1>14 DEF GiveUp, Refuse, Tell, Hosted, Accounted, Unsent, LostTouch
  <2> QED
    BY <2>1, <2>2, <2>3, <2>4, <2>5
<1>15. ASSUME NEW p \in Processes, Stop(p) PROVE IInv'
  <2>1. TypeOK'
    BY <1>15 DEF Stop, Fault, Unlock, Riding
  <2>2. Roles'
    BY <1>15 DEF Stop, Fault, Unlock, Riding, Roles
  <2>3. PostedOnce'
    BY <1>15 DEF Stop, PostedOnce
  <2>4. Hosted'
    BY <1>15 DEF Stop, Riding, Roles, Hosted
  <2>5. Accounted'
    BY <1>15 DEF Stop, Accounted, Unsent, LostTouch
  <2> QED
    BY <2>1, <2>2, <2>3, <2>4, <2>5
<1>16. ASSUME NEW p \in Processes, RecordFails(p) PROVE IInv'
  <2>1. TypeOK'
    BY <1>16 DEF RecordFails, JobAt, Roles, PostedOnce
  <2>2. Roles'
    BY <1>16 DEF RecordFails, JobAt, Roles
  <2>3. PostedOnce'
    BY <1>16 DEF RecordFails, JobAt, Roles, PostedOnce
  <2>4. Hosted'
    BY <1>16 DEF RecordFails, JobAt, Roles, Hosted
  <2>5. Accounted'
    BY <1>16 DEF RecordFails, JobAt, PostedOnce, Accounted, Unsent, LostTouch
  <2> QED
    BY <2>1, <2>2, <2>3, <2>4, <2>5
<1>17. CASE UNCHANGED vars
  BY <1>17 DEF Roles, PostedOnce, Hosted, Accounted, Unsent, LostTouch
<1> QED
  BY <1>1, <1>2, <1>3, <1>4, <1>5, <1>6, <1>7, <1>8, <1>9, <1>10,
     <1>11, <1>12, <1>13, <1>14, <1>15, <1>16, <1>17 DEF Next, Work

\* The strengthened invariant holds in every reachable state.
THEOREM Invariance == Spec => []IInv
<1>1. Init => IInv
  BY InitInv
<1>2. IInv /\ [Next]_vars => IInv'
  BY StepInv
<1> QED
  BY <1>1, <1>2, PTL DEF Spec

\* Every variable keeps its type, at most one process has a connection, and
\* it is the one that answers on the socket file (connection_lock,
\* _listen_once).
THEOREM TypeCorrect == Spec => []TypeOK
<1>1. IInv => TypeOK
  BY DEF IInv
<1> QED
  BY <1>1, Invariance, PTL

\* No number of listeners, dropped connections, slow answers and killed
\* processes makes one `wa send` put its message on the server twice.
THEOREM NeverTwice == Spec => []AtMostOnce
<1>1. IInv => AtMostOnce
  BY DEF IInv, PostedOnce, AtMostOnce, Senders
<1> QED
  BY <1>1, Invariance, PTL

\* "sent" means that the server has answered the message, and "refused" that it has
\* not, unless the sender was cut off from a listener that was sending it or
\* the message is acknowledged and only the cache could not be written.
THEOREM HonestReports == Spec => []ReportsAreHonest
<1>1. IInv => ReportsAreHonest
  BY DEF IInv, Accounted, ReportsAreHonest, Senders, Unsent, LostTouch
<1> QED
  BY <1>1, Invariance, PTL
=============================================================================
