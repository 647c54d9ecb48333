----------------------------- MODULE WaListener -----------------------------
(***************************************************************************)
(* `wa listen`, `wa pull` and `wa send` in processes of their own: the     *)
(* connection lock that one of them holds, the socket file over which a    *)
(* listener serves the 1:1 sends of the others, and what a sender reports. *)
(*                                                                         *)
(* Each process runs one command.  A job is one run of _send_async, in the *)
(* process that has the connection (its host).                             *)
(***************************************************************************)
EXTENDS Naturals, FiniteSets

CONSTANTS
  Processes,
  Command,  \* what each runs: listen, pull, send (1:1) or group
  Nobody,
  MaxFaults \* bound: slow pings, lost connections and killed processes

ASSUME ListenerAssumption ==
  /\ Nobody \notin Processes /\ MaxFaults \in Nat
  /\ Command \in [Processes -> {"listen", "pull", "send", "group"}]

VARIABLES
  pc,       \* each process's step
  lock,     \* the holder of connection_lock
  sock,     \* the process that answers on LISTEN_SOCK
  job,      \* per sender: the step of its send
  host,     \* per sender: the process that runs it
  wire,     \* messages on their way to the server
  report,   \* what each process told its user
  copies,   \* history: copies of each message the server accepted
  troubled, \* history: senders cut off from the outcome of their send
  rejected, \* history: senders whose message the server answered with an error
  unrecorded, \* history: senders whose message is sent but not in the cache
  faults

lockVars == <<lock, sock>>
jobVars  == <<job, host, wire>>
history  == <<copies, rejected, troubled, unrecorded>>
vars == <<pc, lockVars, jobVars, report, history, faults>>

Senders   == {p \in Processes : Command[p] \in {"send", "group"}}
Listeners == {p \in Processes : Command[p] = "listen"}

Init ==
  /\ pc = [p \in Processes |-> "new"] /\ lock = Nobody /\ sock = Nobody
  /\ job = [p \in Processes |-> "none"] /\ host = [p \in Processes |-> Nobody] /\ wire = {}
  /\ report = [p \in Processes |-> "none"] /\ copies = [p \in Processes |-> 0]
  /\ troubled = {} /\ rejected = {} /\ unrecorded = {} /\ faults = 0

Goto(p, label) == pc' = [pc EXCEPT ![p] = label]
Fault == faults < MaxFaults /\ faults' = faults + 1
Tell(p, what) == Goto(p, "ended") /\ report' = [report EXCEPT ![p] = what]

\* Mutant: a refused send falls back to a connection of its own.
FallBack(p) == IF pc[p] = "relayed" THEN Goto(p, "blocked") /\ UNCHANGED report ELSE Tell(p, "refused")

\* A send that ends without "sent".
Refuse(p) == Tell(p, "refused")

(***************************************************************************)
(* Starting: ask a listener, or wait for the lock.                         *)
(***************************************************************************)

Start(p) ==
  /\ pc[p] = "new"
  /\ \/ /\ Command[p] \in {"listen", "group"} \/ sock = Nobody
        /\ Goto(p, "blocked") /\ UNCHANGED <<report, faults>>
     \/ /\ Command[p] = "pull" /\ sock # Nobody
        /\ Tell(p, "nothing") /\ UNCHANGED faults
     \/ /\ Command[p] = "send" /\ sock # Nobody
        /\ Goto(p, "alive") /\ UNCHANGED <<report, faults>>
     \* no answer to the ping within 3 s
     \/ /\ Command[p] \in {"pull", "send"} /\ sock # Nobody /\ Fault
        /\ Goto(p, "blocked") /\ UNCHANGED report
  /\ UNCHANGED <<lockVars, jobVars, history>>

Begin(p, h) == job' = [job EXCEPT ![p] = "begun"] /\ host' = [host EXCEPT ![p] = h]

\* The request is a second connection to the socket file.
Request(p) ==
  /\ pc[p] = "alive"
  /\ IF sock # Nobody
     THEN Goto(p, "relayed") /\ Begin(p, sock) /\ UNCHANGED report
     ELSE Refuse(p) /\ UNCHANGED <<job, host>>
  /\ UNCHANGED <<lockVars, wire, history, faults>>

TakeLock(p) ==
  /\ pc[p] = "blocked" /\ lock = Nobody
  /\ lock' = p /\ Goto(p, "connecting")
  /\ UNCHANGED <<sock, jobVars, report, history, faults>>

(***************************************************************************)
(* The listener (_listen_once, _listen_async).                             *)
(***************************************************************************)

Serve(p) ==
  /\ pc[p] = "connecting" /\ p \in Listeners
  /\ sock' = p /\ Goto(p, "serving")
  /\ UNCHANGED <<lock, jobVars, report, history, faults>>

(***************************************************************************)
(* A connection of one's own (pull, send, group send).                     *)
(***************************************************************************)

Connect(p) ==
  /\ pc[p] = "connecting" /\ p \notin Listeners
  /\ Goto(p, "connected")
  /\ IF p \in Senders THEN Begin(p, p) ELSE UNCHANGED <<job, host>>
  /\ UNCHANGED <<lockVars, wire, report, history, faults>>

Unlock(p) == lock' = IF lock = p THEN Nobody ELSE lock

\* The handshake fails or is rejected.
ConnectFails(p) ==
  /\ pc[p] = "connecting" /\ p \notin Listeners
  /\ Refuse(p) /\ Unlock(p)
  /\ UNCHANGED <<sock, jobVars, history, faults>>

PullOver(p) ==
  /\ pc[p] = "connected" /\ Command[p] = "pull"
  /\ Tell(p, "pulled") /\ Unlock(p)
  /\ UNCHANGED <<sock, jobVars, history, faults>>

(***************************************************************************)
(* A job (_send_async): post, wait for the ack, answer.                    *)
(***************************************************************************)

JobAt(s, from, to) == job[s] = from /\ job' = [job EXCEPT ![s] = to]

Post(s) ==
  /\ JobAt(s, "begun", "posted")
  /\ wire' = wire \cup {s}
  /\ UNCHANGED <<pc, lockVars, host, report, history, faults>>

\* Mutant: an error on the way out of a send that is already posted.
FailsLate(s) == job[s] \in {"begun", "posted"}

\* The send path gives up before anything is sent.
MayFail(s) == job[s] = "begun"
SendFails(s) ==
  /\ MayFail(s) /\ job' = [job EXCEPT ![s] = "failed"]
  /\ UNCHANGED <<pc, lockVars, host, wire, report, history, faults>>

\* The server takes the message, or answers it with an error; its ack finds
\* the sender if still there, and wait_ack does not tell which one it is.
Accept(s) ==
  /\ s \in wire /\ wire' = wire \ {s}
  /\ \/ copies' = [copies EXCEPT ![s] = @ + 1] /\ UNCHANGED rejected
     \/ rejected' = rejected \cup {s} /\ UNCHANGED copies
  /\ job' = IF job[s] = "posted" THEN [job EXCEPT ![s] = "acked"] ELSE job
  /\ UNCHANGED <<pc, lockVars, host, report, troubled, unrecorded, faults>>

\* No ack within 15 s, or it came too late.
AckTimeout(s) ==
  /\ job[s] \in {"posted", "acked"}
  /\ job' = [job EXCEPT ![s] = "unacked"] /\ troubled' = troubled \cup {s}
  /\ UNCHANGED <<pc, lockVars, host, wire, report, copies, rejected, unrecorded, faults>>

\* The message is acknowledged, but it or its chat row cannot be written.
RecordFails(s) ==
  /\ JobAt(s, "acked", "unrecorded")
  /\ unrecorded' = unrecorded \cup {s}
  /\ UNCHANGED <<pc, lockVars, host, wire, report, copies, rejected, troubled, faults>>

Successful(s) == job[s] = "acked"
Failed(s)     == job[s] \in {"failed", "unrecorded"} \/ (job[s] = "unacked" /\ pc[s] = "relayed")
Waits(s)      == pc[s] \in {"relayed", "connected"}

Answer(s) ==
  /\ s \in Senders /\ Waits(s)
  /\ \/ Successful(s) /\ Tell(s, "sent")
     \/ Failed(s) /\ Refuse(s)
     \* "may or may not have been queued"
     \/ job[s] = "unacked" /\ pc[s] = "connected" /\ Tell(s, "unknown")
  /\ job' = [job EXCEPT ![s] = "none"]
  /\ Unlock(s)
  /\ UNCHANGED <<sock, host, wire, history, faults>>

\* Mutant: a closed connection is not noticed.
Unnoticed(p) == FALSE

\* The listener died with the request: recv returns nothing.
Gone(p) == pc[p] = "ended"
NoAnswer(s) ==
  /\ pc[s] = "relayed" /\ Gone(host[s])
  /\ Refuse(s)
  /\ UNCHANGED <<lockVars, jobVars, history, faults>>

\* 90 s without an answer; the listener goes on with the send.
GiveUp(s) ==
  /\ pc[s] = "relayed" /\ job[s] # "none"
  /\ Refuse(s) /\ troubled' = troubled \cup {s}
  /\ UNCHANGED <<lockVars, jobVars, copies, rejected, unrecorded, faults>>

\* Sends that ride on the connection of p.
Riding(p) == {s \in Senders : host[s] = p /\ job[s] \in {"begun", "posted", "acked"}}

\* Ctrl-C or kill, or a listener loses its connection, after which nothing
\* reconnects: the flock, the socket and the jobs go with the process.
Stop(p) ==
  /\ pc[p] \notin {"new", "ended"} /\ Fault
  /\ Goto(p, "ended") /\ Unlock(p)
  /\ sock' = IF sock = p THEN Nobody ELSE sock
  /\ job' = [s \in Processes |-> IF s \in Riding(p) THEN "none" ELSE job[s]]
  /\ troubled' = troubled \cup Riding(p)
  /\ UNCHANGED <<host, wire, report, copies, rejected, unrecorded>>

Work(p) ==
  \/ Request(p) \/ TakeLock(p) \/ Connect(p) \/ ConnectFails(p) \/ PullOver(p)
  \/ Post(p) \/ SendFails(p) \/ AckTimeout(p) \/ RecordFails(p)
  \/ Answer(p) \/ NoAnswer(p) \/ GiveUp(p)

Next == \E p \in Processes : Start(p) \/ Work(p) \/ Serve(p) \/ Accept(p) \/ Stop(p)

Spec == Init /\ [][Next]_vars

\* A wait of a send or a pull on the network has a timeout; one for the lock
\* has none, and TakeLock is enabled only when the holder has let it go.
FairSpec == Spec /\ \A p \in Processes : WF_vars(Work(p))

(***************************************************************************)
(* Properties.                                                             *)
(***************************************************************************)

\* Types; one process at a time has a connection, and who answers on the
\* socket file has it (connection_lock, the finally of _listen_once).
TypeOK ==
  /\ pc \in [Processes -> {"new", "blocked", "alive", "relayed", "connecting", "serving", "connected", "ended"}]
  /\ \A p \in Processes : pc[p] \in {"connecting", "serving", "connected"} <=> lock = p
  /\ \A p \in Processes : sock = p <=> pc[p] = "serving"
  /\ lock \in Processes \cup {Nobody} /\ sock \in Listeners \cup {Nobody}
  /\ job \in [Processes -> {"none", "begun", "posted", "acked", "unacked", "failed", "unrecorded"}]
  /\ host \in [Processes -> Processes \cup {Nobody}] /\ wire \subseteq Senders
  /\ report \in [Processes -> {"none", "sent", "refused", "unknown", "nothing", "pulled"}]
  /\ copies \in [Processes -> 0 .. 2] /\ troubled \subseteq Processes /\ rejected \cup unrecorded \subseteq Processes /\ faults \in 0 .. MaxFaults

\* One `wa send` never puts its message on the server twice, although it tries
\* a listener first and has a connection of its own to fall back on.
AtMostOnce == \A s \in Senders : copies[s] <= 1

\* "sent" is reported only for a message the server has accepted or answered
\* with an error, whichever process sent it (cli.send, _listen_once.handle).
\* A refused message is not on the server, unless its ack came and only the
\* cache could not be written (handle answers ok: False to that too), or a
\* listener had it and an answer or the ack was overdue or the listener ended;
\* a send on a connection of its own then says that it does not know.
ReportsAreHonest ==
  \A s \in Senders :
    /\ report[s] = "sent" => copies[s] = 1 \/ s \in rejected
    /\ report[s] = "refused" /\ copies[s] > 0 =>
         s \in unrecorded \/ (s \in troubled /\ host[s] \in Listeners)

\* A send or a pull ends unless a listener holds the connection: no relayed
\* request is left hanging by a listener that has died.
WaitsEnd ==
  \A p \in Processes \ Listeners : pc[p] \notin {"new", "ended"} ~> (pc[p] = "ended" \/ (pc[p] = "blocked" /\ lock \in Listeners))
=============================================================================
