------------------------------ MODULE LineGate ------------------------------
(***************************************************************************)
(* The lines of one AI session: aiLineGate with the requests its lines     *)
(* are filed as, the transport that carries them, and the close procedure. *)
(* send_line, approvals, the sweeper and the closer are goroutines that    *)
(* meet at the gate's mutex and at the compare-and-swap of                 *)
(* transitionRequest; every call is cut where it holds neither.  A request *)
(* is one status here: RequestLifecycle shows that memory follows the      *)
(* table as long as SQLite accepts the write.                              *)
(***************************************************************************)
EXTENDS Naturals, FiniteSets

CONSTANTS Lines,       \* request ids drafted by send_line calls
          Workers,     \* goroutines serving send_line and approve
          Effects,     \* classifySessionLine's effects that occur
          Scenarios    \* bounds of a behaviour: the mode of the session, the
                       \* lines sent, storage failures, crashes with a start

None == "none"
Sweeper == "sweeper"
Procs == Workers \cup {Sweeper}

ASSUME GateAssumption ==
    /\ Effects \subseteq {"none", "cd", "env", "state"}
    /\ Scenarios \subseteq [mode : {"exec", "shell"}, lines : SUBSET Lines,
                             faults : Nat, restarts : Nat]
    /\ None \notin Lines
    /\ Sweeper \notin Workers

Running == {"running", "auto_running"}
Unapproved == {None, "pending", "rejected", "expired", "withdrawn"}
(* How a line ends, approved or not (the code marks the latter auto_).     *)
Answers == {"succeeded", "failed"}
Outcomes == Answers \cup {"interrupted"}

VARIABLES
    scene,      \* the scenario
    status,     \* status[l]: command_requests.status, or None
    lineSeq,    \* lineSeq[l]: seq of the ai_session_lines row, 0 without one
    links,      \* links[l]: "gate" or "gone" (aiLineLink), or None
    overdue,    \* lines whose ExpiresAt has passed
    effect,     \* effect[l]: the class the line was reserved with
    snap,       \* snap[l]: the session context the line was reserved with
    gateState,  \* "open" (idle, busy, pending_approval), "closing", "closed"
    seq,        \* g.seq
    inflight,   \* g.inflight.RequestID, or None
    phase,      \* g.inflight.Phase, or None
    applied,    \* lines whose effect is in g.cwd, g.env or g.tainted
    sess,       \* aiSession.state: "open", "closing", "closed"; "gone" after a restart
    sessRow,    \* whether the ai_sessions row is open
    closer,     \* where close() is
    caught,     \* the line beginClose returned, with its phase
    transport,  \* "ready", "busy" (a line holds it), "closed"
    pc,         \* pc[p]: where goroutine p is
    job,        \* job[p]: its line, the slot it reconciles, its outcome
    faults,     \* storage failures so far
    restarts,   \* restarts so far
    sent        \* history: how often the line was written to the remote side

requestVars == <<status, overdue>>
lineVars == <<lineSeq, links, effect, snap>>
slotVars == <<seq, inflight, phase>>
gateVars == <<gateState, slotVars, applied>>
closeVars == <<sess, sessRow, closer, caught>>
procVars == <<pc, job>>
boundVars == <<faults, restarts>>
vars == <<scene, requestVars, lineVars, gateVars, closeVars, transport, procVars,
          boundVars, sent>>

NoJob == [line |-> None, slot |-> None, outcome |-> None]

Init ==
    /\ scene \in Scenarios
    /\ status = [l \in Lines |-> None]
    /\ lineSeq = [l \in Lines |-> 0]
    /\ links = [l \in Lines |-> None]
    /\ overdue = {}
    /\ effect = [l \in Lines |-> None]
    /\ snap = [l \in Lines |-> {}]
    /\ gateState = "open"
    /\ seq = 0
    /\ inflight = None
    /\ phase = None
    /\ applied = {}
    /\ sess = "open"
    /\ sessRow = TRUE
    /\ closer = "no"
    /\ caught = [line |-> None, phase |-> None]
    /\ transport = "ready"
    /\ pc = [p \in Procs |-> "idle"]
    /\ job = [p \in Procs |-> NoJob]
    /\ faults = 0
    /\ restarts = 0
    /\ sent = [l \in Lines |-> 0]

-----------------------------------------------------------------------------
(* Helpers.                                                                *)

(* The context of the session was changed by an approved state change.     *)
TaintedBy(context) == scene.mode = "shell" /\ \E l \in context : effect[l] = "state"

Stored(ok) ==
    \/ ok /\ UNCHANGED faults
    \/ ~ok /\ faults < scene.faults /\ faults' = faults + 1

Goto(p, where) == pc' = [pc EXCEPT ![p] = where]
Return(p) == Goto(p, "idle") /\ job' = [job EXCEPT ![p] = NoJob]

(* Mutant: the status is not compared.                                     *)
Transition_NoCas(l, from, to) ==
    \E ok \in BOOLEAN :
        /\ Stored(ok)
        /\ status' = IF ok THEN [status EXCEPT ![l] = to] ELSE status

(* transitionRequest: with a row of another status or a failed write the   *)
(* request keeps its status.                                               *)
Transition(l, from, to) ==
    \E ok \in BOOLEAN :
        /\ IF status[l] \in from THEN Stored(ok) ELSE ok /\ UNCHANGED faults
        /\ status' = IF status[l] \in from /\ ok THEN [status EXCEPT ![l] = to] ELSE status

FreeSlot == inflight' = None /\ phase' = None

(* dropPendingOnClose.                                                     *)
DropOnClose(l) ==
    IF inflight = l /\ phase # "running" THEN FreeSlot ELSE UNCHANGED <<inflight, phase>>

(* release: the reserved line gives its sequence number back.              *)
Release(l) ==
    IF inflight = l /\ phase = "reserved"
    THEN FreeSlot /\ seq' = seq - 1
    ELSE UNCHANGED slotVars

-----------------------------------------------------------------------------
(* reconcileAISessionLine: before a send, after a lost approval, and from  *)
(* the sweeper.                                                            *)

Continue(p) ==
    IF job[p].line = None
    THEN Return(p)
    ELSE Goto(p, "sending") /\ job' = [job EXCEPT ![p].slot = None]

ReconcileView(p) ==
    /\ pc[p] = "reconcile"
    /\ IF inflight # None /\ phase = "pending"
       THEN Goto(p, "saw") /\ job' = [job EXCEPT ![p].slot = inflight]
       ELSE Continue(p)
    /\ UNCHANGED <<requestVars, lineVars, gateVars, closeVars, transport, boundVars, sent>>

ReconcileRead(p) ==
    /\ pc[p] = "saw"
    /\ LET now == status[job[p].slot] IN
       CASE now = "pending" /\ job[p].slot \in overdue -> Goto(p, "expire") /\ UNCHANGED job
         [] now \notin {"pending", "running"} -> Goto(p, "drop") /\ UNCHANGED job
         [] OTHER -> Continue(p)
    /\ UNCHANGED <<requestVars, lineVars, gateVars, closeVars, transport, boundVars, sent>>

ReconcileExpire(p) ==
    /\ pc[p] = "expire"
    /\ Transition(job[p].slot, {"pending"}, "expired")
    /\ Goto(p, "latest")
    /\ UNCHANGED <<overdue, lineVars, gateVars, closeVars, transport, job, restarts, sent>>

ReconcileLatest(p) ==
    /\ pc[p] = "latest"
    /\ IF status[job[p].slot] # "pending"
       THEN Goto(p, "drop") /\ UNCHANGED job
       ELSE Continue(p)
    /\ UNCHANGED <<requestVars, lineVars, gateVars, closeVars, transport, boundVars, sent>>

(* dropPending, then back to the caller.                                   *)
ReconcileDrop(p) ==
    /\ pc[p] = "drop"
    /\ IF inflight = job[p].slot /\ phase = "pending"
       THEN FreeSlot
       ELSE UNCHANGED <<inflight, phase>>
    /\ Continue(p)
    /\ UNCHANGED <<requestVars, lineVars, gateState, seq, applied, closeVars, transport,
                   boundVars, sent>>

(* The sweeper reconciles every live session (a pass that finds nothing    *)
(* pending changes nothing).                                               *)
Sweep ==
    /\ sess \in {"open", "closing"}
    /\ pc[Sweeper] = "idle"
    /\ inflight # None /\ phase = "pending"
    /\ Goto(Sweeper, "saw")
    /\ job' = [job EXCEPT ![Sweeper].slot = inflight]
    /\ UNCHANGED <<requestVars, lineVars, gateVars, closeVars, transport, boundVars, sent>>

-----------------------------------------------------------------------------
(* sendSessionLine.                                                        *)

(* Lookup and idempotency: each line has its own client_request_id.        *)
SendLine(p, l) ==
    /\ pc[p] = "idle"
    /\ sess = "open"
    /\ status[l] = None /\ lineSeq[l] = 0 /\ links[l] = None
    /\ \A q \in Procs : job[q].line # l
    /\ Goto(p, "reconcile")
    /\ job' = [job EXCEPT ![p].line = l]
    /\ UNCHANGED <<requestVars, lineVars, gateVars, closeVars, transport, boundVars, sent>>

(* reserve: one line in flight; the line keeps the context it was          *)
(* classified in.  Otherwise session_busy or session_closed.               *)
SendReserve(p) ==
    /\ pc[p] = "sending"
    /\ LET l == job[p].line IN
       IF gateState = "open" /\ inflight = None
       THEN /\ seq' = seq + 1
            /\ inflight' = l
            /\ phase' = "reserved"
            /\ snap' = [snap EXCEPT ![l] = applied]
            /\ \E e \in Effects : effect' = [effect EXCEPT ![l] = e]
            /\ Goto(p, "reserved")
            /\ UNCHANGED job
       ELSE Return(p) /\ UNCHANGED <<slotVars, snap, effect>>
    /\ UNCHANGED <<requestVars, lineSeq, links, gateState, applied, closeVars, transport,
                   boundVars, sent>>

(* needsHumanApproval \/ sessionNeedsApproval: the policies of the agent   *)
(* are a free choice here, the session's own conditions are not.           *)
MayBypass(l) == effect[l] # "state" /\ ~TaintedBy(snap[l])

SeqFree(n) == \A l \in Lines : lineSeq[l] # n

(* The LineQueued hook: insertAISessionLine needs an open session row and  *)
(* an unused (session_id, seq).                                            *)
SendQueueLine(p) ==
    /\ pc[p] = "reserved"
    /\ \E ok \in BOOLEAN :
          /\ Stored(ok)
          /\ IF ok /\ sessRow /\ SeqFree(seq)
             THEN /\ lineSeq' = [lineSeq EXCEPT ![job[p].line] = seq]
                  /\ \/ Goto(p, "queue")
                     \/ MayBypass(job[p].line) /\ Goto(p, "auto")
                  /\ UNCHANGED <<job, slotVars>>
             ELSE /\ Release(job[p].line)
                  /\ Return(p)
                  /\ UNCHANGED lineSeq
    /\ UNCHANGED <<requestVars, links, effect, snap, gateState, applied, closeVars,
                   transport, restarts, sent>>

(* putAILineLink and recordCommandRequest, as pending.                     *)
SendRecord(p) ==
    /\ pc[p] = "queue"
    /\ links' = [links EXCEPT ![job[p].line] = "gate"]
    /\ \E ok \in BOOLEAN :
          /\ Stored(ok)
          /\ IF ok
             THEN /\ status' = [status EXCEPT ![job[p].line] = "pending"]
                  /\ Goto(p, "filed")
                  /\ UNCHANGED <<job, slotVars>>
             ELSE /\ Release(job[p].line)
                  /\ Return(p)
                  /\ UNCHANGED status
    /\ UNCHANGED <<overdue, lineSeq, effect, snap, gateState, applied, closeVars,
                   transport, restarts, sent>>

(* markPending.                                                            *)
SendMarkPending(p) ==
    /\ pc[p] = "filed"
    /\ IF inflight = job[p].line /\ phase = "reserved" /\ gateState = "open"
       THEN phase' = "pending" /\ Return(p)
       ELSE Goto(p, "refused") /\ UNCHANGED <<phase, job>>
    /\ UNCHANGED <<requestVars, lineVars, gateState, seq, inflight, applied, closeVars,
                   transport, boundVars, sent>>

(* The line cannot wait any more: withdraw it, and answer session_closed.  *)
SendWithdraw(p) ==
    /\ pc[p] = "refused"
    /\ Transition(job[p].line, {"pending"}, "withdrawn")
    /\ Goto(p, "dropping")
    /\ UNCHANGED <<overdue, lineVars, gateVars, closeVars, transport, job, restarts, sent>>

SendDrop(p) ==
    /\ pc[p] = "dropping"
    /\ DropOnClose(job[p].line)
    /\ Return(p)
    /\ UNCHANGED <<requestVars, lineVars, gateState, seq, applied, closeVars, transport,
                   boundVars, sent>>

(* server_busy or shutting_down: no execution slot.                        *)
SendBusy(p) ==
    /\ pc[p] = "auto"
    /\ Release(job[p].line)
    /\ Return(p)
    /\ UNCHANGED <<requestVars, lineVars, gateState, applied, closeVars, transport,
                   boundVars, sent>>

(* A slot was free: recorded as auto_running, then startLine.              *)
SendAuto(p) ==
    /\ pc[p] = "auto"
    /\ links' = [links EXCEPT ![job[p].line] = "gate"]
    /\ \E ok \in BOOLEAN :
          /\ Stored(ok)
          /\ IF ok
             THEN /\ status' = [status EXCEPT ![job[p].line] = "auto_running"]
                  /\ Goto(p, "decided")
                  /\ UNCHANGED <<job, slotVars>>
             ELSE /\ Release(job[p].line)
                  /\ Return(p)
                  /\ UNCHANGED status
    /\ UNCHANGED <<overdue, lineSeq, effect, snap, gateState, applied, closeVars,
                   transport, restarts, sent>>

-----------------------------------------------------------------------------
(* approveAISessionLine, and the other decisions on a pending line.        *)

Approve(p, l) ==
    /\ pc[p] = "idle"
    /\ links[l] = "gate"
    /\ status[l] = "pending"
    /\ l \notin overdue
    /\ gateState = "open"
    /\ inflight = l /\ phase # "running"
    /\ Goto(p, "approving")
    /\ job' = [job EXCEPT ![p].line = l]
    /\ UNCHANGED <<requestVars, lineVars, gateVars, closeVars, transport, boundVars, sent>>

(* Past its deadline: expireRequest, then reconcile.                       *)
ApproveOverdue(p, l) ==
    /\ pc[p] = "idle"
    /\ links[l] = "gate"
    /\ status[l] = "pending"
    /\ l \in overdue
    /\ Transition(l, {"pending"}, "expired")
    /\ Goto(p, "reconcile")
    /\ UNCHANGED <<overdue, lineVars, gateVars, closeVars, transport, job, restarts, sent>>

(* Execution intake is closed, or a disconnect came first.                 *)
ApproveRefused(p) ==
    /\ pc[p] = "approving"
    /\ Return(p)
    /\ UNCHANGED <<requestVars, lineVars, gateVars, closeVars, transport, boundVars, sent>>

(* The compare-and-swap pending -> running; only the winner delivers.      *)
ApproveTransition(p) ==
    /\ pc[p] = "approving"
    /\ Transition(job[p].line, {"pending"}, "running")
    /\ IF status[job[p].line] # "pending"
       THEN Goto(p, "reconcile") /\ job' = [job EXCEPT ![p] = NoJob]
       ELSE IF status' = status
            THEN Return(p)
            ELSE Goto(p, "decided") /\ UNCHANGED job
    /\ UNCHANGED <<overdue, lineVars, gateVars, closeVars, transport, restarts, sent>>

RejectCommand(l) ==
    /\ status[l] = "pending"
    /\ status' = [status EXCEPT ![l] = "rejected"]
    /\ UNCHANGED <<overdue, lineVars, gateVars, closeVars, transport, procVars, boundVars, sent>>

(* The deadline of a pending line passes.                                  *)
Lapse(l) ==
    /\ status[l] = "pending"
    /\ l \notin overdue
    /\ overdue' = overdue \cup {l}
    /\ UNCHANGED <<status, lineVars, gateVars, closeVars, transport, procVars, boundVars, sent>>

(* expireRequest from the expiry loop.                                     *)
ExpireRequest(l) ==
    /\ status[l] = "pending"
    /\ l \in overdue
    /\ status' = [status EXCEPT ![l] = "expired"]
    /\ UNCHANGED <<overdue, lineVars, gateVars, closeVars, transport, procVars, boundVars, sent>>

(* approve() on a request no link says is a session line.                  *)
ApprovePlain(l) ==
    /\ links[l] = None
    /\ status[l] = "pending"
    /\ l \notin overdue
    /\ status' = [status EXCEPT ![l] = "running"]
    /\ UNCHANGED <<overdue, lineVars, gateVars, closeVars, transport, procVars, boundVars, sent>>

-----------------------------------------------------------------------------
(* startLine and aiSessionRunner.RunLine.                                  *)

(* beginDelivery: still the line in flight, not delivered, session open.   *)
Deliver(p) ==
    /\ pc[p] = "decided"
    /\ IF gateState = "open" /\ inflight = job[p].line /\ phase \in {"reserved", "pending"}
       THEN phase' = "running" /\ Goto(p, "running")
       ELSE Goto(p, "undelivered") /\ UNCHANGED phase
    /\ UNCHANGED <<requestVars, lineVars, gateState, seq, inflight, applied, closeVars,
                   transport, job, boundVars, sent>>

(* finishAISessionRequest of a line that was not delivered.                *)
RecordUndelivered(p) ==
    /\ pc[p] = "undelivered"
    /\ Transition(job[p].line, Running, "failed")
    /\ Goto(p, "settling")
    /\ UNCHANGED <<overdue, lineVars, gateVars, closeVars, transport, job, restarts, sent>>

FinishUndelivered(p) ==
    /\ pc[p] = "settling"
    /\ IF inflight = job[p].line THEN FreeSlot ELSE UNCHANGED <<inflight, phase>>
    /\ Return(p)
    /\ UNCHANGED <<requestVars, lineVars, gateState, seq, applied, closeVars, transport,
                   boundVars, sent>>

End(p, outcome) == Goto(p, "ended") /\ job' = [job EXCEPT ![p].outcome = outcome]

(* In exec mode the gateway keeps the environment: nothing runs remotely.  *)
RunOverlay(p) ==
    /\ pc[p] = "running"
    /\ scene.mode = "exec" /\ effect[job[p].line] = "env"
    /\ End(p, "succeeded")
    /\ UNCHANGED <<requestVars, lineVars, gateVars, closeVars, transport, boundVars, sent>>

(* RunLine refuses a session that is closing and a transport not ready.    *)
RunCheck(p) ==
    /\ pc[p] = "running"
    /\ ~(scene.mode = "exec" /\ effect[job[p].line] = "env")
    /\ IF sess = "open" /\ transport = "ready"
       THEN Goto(p, "checked") /\ UNCHANGED job
       ELSE End(p, "failed")
    /\ UNCHANGED <<requestVars, lineVars, gateVars, closeVars, transport, boundVars, sent>>

(* StartLine: the line goes out, unless the transport closed meanwhile.    *)
RunStart(p) ==
    /\ pc[p] = "checked"
    /\ IF transport = "ready"
       THEN /\ transport' = "busy"
            /\ sent' = [sent EXCEPT ![job[p].line] = @ + 1]
            /\ Goto(p, "sent")
            /\ UNCHANGED job
       ELSE End(p, "failed") /\ UNCHANGED <<transport, sent>>
    /\ UNCHANGED <<requestVars, lineVars, gateVars, closeVars, boundVars>>

(* The prompt or the exit status came back.                                *)
RunEnd(p) ==
    /\ pc[p] = "sent"
    /\ transport = "busy"
    /\ transport' = "ready"
    /\ \E outcome \in Answers : End(p, outcome)
    /\ UNCHANGED <<requestVars, lineVars, gateVars, closeVars, boundVars, sent>>

(* Timeout, close, disconnect or shutdown: interrupted, and given up on    *)
(* after the grace whether or not the transport let go of it.  A line the  *)
(* shutdown stopped is recorded as interrupted.                            *)
RunGiveUp(p) ==
    /\ pc[p] = "sent"
    /\ End(p, "failed") \/ (sess # "open" /\ End(p, "interrupted"))
    /\ UNCHANGED <<requestVars, lineVars, gateVars, closeVars, transport, boundVars, sent>>

(* The prompt of a line nobody waits for comes back late.                  *)
LatePrompt ==
    /\ transport = "busy"
    /\ \A p \in Procs : pc[p] # "sent"
    /\ transport' = "ready"
    /\ UNCHANGED <<requestVars, lineVars, gateVars, closeVars, procVars, boundVars, sent>>

(* The remote side or the network ends the transport.                      *)
TransportLost ==
    /\ transport \in {"ready", "busy"}
    /\ transport' = "closed"
    /\ UNCHANGED <<requestVars, lineVars, gateVars, closeVars, procVars, boundVars, sent>>

(* Mutant: the slot is given up before the effect is applied.              *)
RecordOutcome_FreesSlot(p) ==
    /\ pc[p] = "ended"
    /\ Transition(job[p].line, Running, job[p].outcome)
    /\ IF inflight = job[p].line THEN FreeSlot ELSE UNCHANGED <<inflight, phase>>
    /\ Goto(p, "recorded")
    /\ UNCHANGED <<overdue, lineVars, gateState, seq, applied, closeVars, transport, job,
                   restarts, sent>>

(* finishAISessionRequest: transitionRequest, the result of which is only  *)
(* logged.                                                                 *)
RecordOutcome(p) ==
    /\ pc[p] = "ended"
    /\ Transition(job[p].line, Running, job[p].outcome)
    /\ Goto(p, "recorded")
    /\ UNCHANGED <<overdue, lineVars, gateVars, closeVars, transport, job, restarts, sent>>

(* A directory or variable change counts when the line succeeded, a change *)
(* of the shell's own state whenever the line was delivered.               *)
TakesEffect(l, ok) ==
    CASE effect[l] = "cd" -> ok /\ scene.mode = "exec"
      [] effect[l] = "env" -> ok
      [] effect[l] = "state" -> scene.mode = "shell"
      [] OTHER -> FALSE

(* finishLine.                                                             *)
FinishLine(p) ==
    /\ pc[p] = "recorded"
    /\ LET l == job[p].line IN
       /\ applied' = IF TakesEffect(l, job[p].outcome = "succeeded")
                     THEN applied \cup {l} ELSE applied
       /\ IF inflight = l THEN FreeSlot ELSE UNCHANGED <<inflight, phase>>
    /\ Return(p)
    /\ UNCHANGED <<requestVars, lineVars, gateState, seq, closeVars, transport,
                   boundVars, sent>>

-----------------------------------------------------------------------------
(* aiSession.close, once: by a person, the agent, the sweeper (idle,       *)
(* lifetime, token, settings, target), a lost transport, send_line or      *)
(* approve finding another target, a disconnect, the shutdown.             *)

CloseBegin ==
    /\ sess = "open"
    /\ sess' = "closing"
    /\ closer' = "began"
    /\ UNCHANGED <<requestVars, lineVars, gateVars, sessRow, caught, transport, procVars,
                   boundVars, sent>>

(* settleAISessionLines: beginClose returns the line in flight.  A running *)
(* one is canceled (RunGiveUp), the others are withdrawn.                  *)
CloseGate ==
    /\ closer = "began"
    /\ gateState' = "closing"
    /\ caught' = [line |-> inflight, phase |-> phase]
    /\ closer' = IF phase \in {"reserved", "pending"} THEN "withdraw" ELSE "transport"
    /\ UNCHANGED <<requestVars, lineVars, slotVars, applied, sess, sessRow, transport,
                   procVars, boundVars, sent>>

CloseWithdraw ==
    /\ closer = "withdraw"
    /\ Transition(caught.line, {"pending"}, "withdrawn")
    /\ closer' = "drop"
    /\ UNCHANGED <<overdue, lineVars, gateVars, sess, sessRow, caught, transport, procVars,
                   restarts, sent>>

(* A line that just won the transition to running is left to startLine.    *)
CloseDrop ==
    /\ closer = "drop"
    /\ IF status[caught.line] \in Running
       THEN UNCHANGED <<inflight, phase>>
       ELSE DropOnClose(caught.line)
    /\ closer' = "transport"
    /\ UNCHANGED <<requestVars, lineVars, gateState, seq, applied, sess, sessRow, caught,
                   transport, procVars, boundVars, sent>>

CloseTransport ==
    /\ closer = "transport"
    /\ transport' = "closed"
    /\ closer' = "wait"
    /\ UNCHANGED <<requestVars, lineVars, gateVars, sess, sessRow, caught, procVars,
                   boundVars, sent>>

(* The running line recorded its outcome, or the grace is over.            *)
CloseFinish ==
    /\ closer = "wait"
    /\ gateState' = "closed"
    /\ sess' = "closed"
    /\ closer' = "done"
    /\ \E ok \in BOOLEAN : Stored(ok) /\ sessRow' = (sessRow /\ ~ok)
    /\ UNCHANGED <<requestVars, lineVars, slotVars, applied, caught, transport, procVars,
                   restarts, sent>>

-----------------------------------------------------------------------------
(* A crash at any point and the next start: recoverInterruptedRequests,    *)
(* recoverOpenAISessionRows and loadAISessionLinks, each of which logs its *)
(* error and goes on.                                                      *)

(* Mutant: a start keeps the pending lines of the sessions it closes.      *)
RecoveredStatus_Waiting(l, settled, withdrawn) ==
    IF status[l] \in Running /\ settled THEN "interrupted" ELSE status[l]

RecoveredStatus(l, settled, withdrawn) ==
    CASE status[l] \in Running /\ settled -> "interrupted"
      [] status[l] = "pending" /\ lineSeq[l] # 0 /\ withdrawn -> "withdrawn"
      [] OTHER -> status[l]

Restart ==
    /\ restarts < scene.restarts
    /\ restarts' = restarts + 1
    /\ \E settled, withdrawn, linked \in BOOLEAN :
          /\ faults' = faults + Cardinality({x \in {<<1, settled>>, <<2, withdrawn>>, <<3, linked>>} : ~x[2]})
          /\ status' = [l \in Lines |-> RecoveredStatus(l, settled, withdrawn)]
          /\ sessRow' = (sessRow /\ ~withdrawn)
          /\ links' = [l \in Lines |-> IF lineSeq[l] # 0 /\ linked THEN "gone" ELSE None]
    /\ faults' <= scene.faults
    /\ sess' = "gone"
    /\ gateState' = "closed"
    /\ FreeSlot
    /\ closer' = "done"
    /\ caught' = [line |-> None, phase |-> None]
    /\ transport' = "closed"
    /\ pc' = [p \in Procs |-> "idle"]
    /\ job' = [p \in Procs |-> NoJob]
    /\ UNCHANGED <<overdue, lineSeq, effect, snap, seq, applied, sent>>

-----------------------------------------------------------------------------
Step(p) ==
    \/ ReconcileView(p) \/ ReconcileRead(p) \/ ReconcileExpire(p)
    \/ ReconcileLatest(p) \/ ReconcileDrop(p)
    \/ SendReserve(p) \/ SendQueueLine(p) \/ SendRecord(p) \/ SendMarkPending(p)
    \/ SendWithdraw(p) \/ SendDrop(p) \/ SendBusy(p) \/ SendAuto(p)
    \/ ApproveRefused(p) \/ ApproveTransition(p)
    \/ Deliver(p) \/ RecordUndelivered(p) \/ FinishUndelivered(p)
    \/ RunOverlay(p) \/ RunCheck(p) \/ RunStart(p) \/ RunEnd(p) \/ RunGiveUp(p)
    \/ RecordOutcome(p) \/ FinishLine(p)

Close == CloseGate \/ CloseWithdraw \/ CloseDrop \/ CloseTransport \/ CloseFinish

Next ==
    /\ \/ \E p \in Procs : Step(p)
       \/ \E p \in Workers, l \in scene.lines :
             SendLine(p, l) \/ Approve(p, l) \/ ApproveOverdue(p, l)
       \/ \E l \in Lines : RejectCommand(l) \/ Lapse(l) \/ ExpireRequest(l) \/ ApprovePlain(l)
       \/ Sweep
       \/ LatePrompt
       \/ TransportLost
       \/ CloseBegin
       \/ Close
       \/ Restart
    /\ UNCHANGED scene

Spec == Init /\ [][Next]_vars

-----------------------------------------------------------------------------
(* Properties.                                                             *)

(* Not one byte of a pending, rejected, expired or withdrawn line reaches  *)
(* the remote side, and no line reaches it twice, however approvals,       *)
(* rejections, expiry, closes and restarts race.                           *)
UnapprovedNeverSent ==
    \A l \in Lines : /\ status[l] \in Unapproved => sent[l] = 0
                     /\ sent[l] <= 1

(* A line runs in the context it was classified and shown in: no other     *)
(* line changed cwd, environment or taint since reserve.                   *)
ContextIsCurrent ==
    [][\A l \in Lines : sent'[l] # sent[l] => snap[l] = applied]_vars

(* When close() is done and every call has returned, no line of the        *)
(* session is waiting or running, unless SQLite refused a write.           *)
CloseSettlesLines ==
    closer = "done" /\ faults = 0 /\ (\A p \in Procs : pc[p] = "idle") =>
        /\ \A l \in Lines : status[l] \notin {"pending"} \cup Running
        /\ inflight = None

=============================================================================
