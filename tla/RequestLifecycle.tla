-------------------------- MODULE RequestLifecycle --------------------------
(***************************************************************************)
(* The life of a command request: filed by an agent over MCP, decided in   *)
(* the GUI or by an approval-bypass grant, run over SSH, recorded.  The    *)
(* in-memory list a.requests and the SQLite table are separate variables,  *)
(* and every call is cut at the places where it gives up its locks, so     *)
(* that approvals, deletions, connection edits, disconnects, the shutdown  *)
(* drain, storage failures and crashes interleave as they do in the code.  *)
(***************************************************************************)
EXTENDS Naturals, FiniteSets

CONSTANTS Requests,    \* request ids
          Workers,     \* goroutines serving an approval or an execute_command
          Conns,       \* connection ids
          Targets,     \* user@host:port fingerprints
          MaxExec,     \* maxMCPExec
          MaxFaults,   \* bound: storage failures in a behaviour
          MaxCrashes   \* bound: crashes in a behaviour

Serial == "serial"     \* the fingerprint of a serial connection is empty
Gone == "gone"         \* no such connection
None == "none"

ASSUME ConstantsAssumption ==
    /\ IsFiniteSet(Workers)
    /\ MaxExec \in Nat \ {0}
    /\ MaxFaults \in Nat
    /\ MaxCrashes \in Nat
    /\ None \notin Requests
    /\ None \notin Conns
    /\ {Serial, Gone} \cap Targets = {}

RunningStates == {"running", "auto_running"}
FinalStates == {"succeeded", "failed", "rejected", "expired", "interrupted",
                "auto_succeeded", "auto_failed"}
Statuses == {"pending"} \cup RunningStates \cup FinalStates

VARIABLES
    memStatus,   \* memStatus[r]: status in a.requests, or "none"
    dbStatus,    \* dbStatus[r]: status of the row in command_requests, or "none"
    deleted,     \* rows with deleted_at # 0
    target,      \* target[r]: ConnectionID and TargetFP recorded with r
    overdue,     \* requests whose ExpiresAt has passed
    orphans,     \* running in memory at startup because recovery failed
    conns,       \* conns[c]: fingerprint of c in a.conns, Serial or Gone
    connRows,    \* connRows[c]: the same in the connections table
    deleting,    \* deleting[c]: progress of DeleteConnection
    pc,          \* pc[w]: where worker w is
    job,         \* job[w]: the local variables of w
    cause,       \* cause[w]: the cancel cause of w's execution context
    execs,       \* workers registered in a.execs (and counted by execWG)
    active,      \* registered workers counted as running commands
    slots,       \* mcpRuntime.execs
    attached,    \* bypassed runs whose agent still waits
    phase,       \* where the process is between start and exit
    faults,      \* storage failures so far
    crashes,     \* crashes so far
    starts,      \* history: how often the command of r was started
    ranAt        \* history: the targets it was started on

requestVars == <<memStatus, dbStatus, deleted, target, overdue, orphans>>
connVars == <<conns, connRows, deleting>>
workerVars == <<pc, job, cause, execs, active, slots, attached>>
historyVars == <<starts, ranAt>>
vars == <<requestVars, connVars, workerVars, phase, faults, crashes, historyVars>>

PCs == {"idle", "approving", "reserved", "queueing", "queued", "bypassing",
        "slot", "recording", "recorded", "decided", "ssh", "ended", "finished"}
Phases == {"up", "rtClosed", "execsClosed", "draining", "canceling", "drained",
           "gaveUp", "stopping", "closed", "down"}
Causes == {None, "disconnected", "shutdown", "clientGone"}
Jobs == [req : Requests \cup {None}, conn : Conns \cup {None},
         fp : Targets \cup {Gone}, auto : BOOLEAN, outcome : FinalStates \cup {None}]
NoJob == [req |-> None, conn |-> None, fp |-> Gone, auto |-> FALSE, outcome |-> None]

Init ==
    /\ memStatus = [r \in Requests |-> None]
    /\ dbStatus = [r \in Requests |-> None]
    /\ deleted = {}
    /\ target = [r \in Requests |-> [conn |-> None, fp |-> Gone]]
    /\ overdue = {}
    /\ orphans = {}
    /\ conns \in [Conns -> Targets]
    /\ connRows = conns
    /\ deleting = [c \in Conns |-> "no"]
    /\ pc = [w \in Workers |-> "idle"]
    /\ job = [w \in Workers |-> NoJob]
    /\ cause = [w \in Workers |-> None]
    /\ execs = {}
    /\ active = {}
    /\ slots = 0
    /\ attached = {}
    /\ phase = "up"
    /\ faults = 0
    /\ crashes = 0
    /\ starts = [r \in Requests |-> 0]
    /\ ranAt = [r \in Requests |-> {}]

-----------------------------------------------------------------------------
(* Storage and the two ways a status changes.                              *)

Live == phase # "down"

(* A SQLite write succeeds, or fails: always once the store is closed,     *)
(* otherwise (busy, disk full) at most MaxFaults times.                    *)
Stored(ok) ==
    \/ ok /\ phase # "closed" /\ UNCHANGED faults
    \/ ~ok /\ phase = "closed" /\ UNCHANGED faults
    \/ ~ok /\ phase # "closed" /\ faults < MaxFaults /\ faults' = faults + 1

(* transitionRequest under a.mu: the status in memory is `from`, and so is *)
(* the stored one (the compare-and-swap of updateCommandRequestFrom).      *)
Wins(r, from) == memStatus[r] = from /\ dbStatus[r] = from

SetStatus_StoreOnly(r, to) ==
    /\ dbStatus' = [dbStatus EXCEPT ![r] = to]
    /\ UNCHANGED memStatus

SetStatus(r, to) ==
    /\ memStatus' = [memStatus EXCEPT ![r] = to]
    /\ dbStatus' = [dbStatus EXCEPT ![r] = to]

(* Mutant: an outcome SQLite refuses is dropped (as before audit #37).     *)
finalizeRequest_DropUnsaved(r, from, to, ok) ==
    IF memStatus[r] # from \/ ~ok
    THEN UNCHANGED <<memStatus, dbStatus>>
    ELSE SetStatus(r, to)

(* finalizeRequest: the outcome reaches memory even when SQLite refuses    *)
(* it; a row that somebody else changed is adopted instead.                *)
finalizeRequest(r, from, to, ok) ==
    IF memStatus[r] # from
    THEN UNCHANGED <<memStatus, dbStatus>>
    ELSE IF ok /\ dbStatus[r] # from /\ r \notin deleted
         THEN /\ memStatus' = [memStatus EXCEPT ![r] = dbStatus[r]]
              /\ UNCHANGED dbStatus
         ELSE /\ memStatus' = [memStatus EXCEPT ![r] = to]
              /\ dbStatus' = [dbStatus EXCEPT ![r] = IF ok /\ @ = from THEN to ELSE @]

(* cancelExecs: the first cause of a context sticks.                       *)
cancelExecs(S, why) ==
    cause' = [w \in Workers |-> IF w \in S /\ cause[w] = None THEN why ELSE cause[w]]

ExecsOn(c) == {w \in execs : job[w].conn = c}

Goto(w, l) == pc' = [pc EXCEPT ![w] = l]
Return(w) == Goto(w, "idle") /\ job' = [job EXCEPT ![w] = NoJob]

-----------------------------------------------------------------------------
(* approve (GUI and web admin).                                            *)

(* The checks before the reservation: pending, not past its deadline, and  *)
(* the connection the request named is still the SSH target it named, or   *)
(* is gone.  conn is a copy: later edits do not reach it.                  *)
Approve(w, r) ==
    /\ Live
    /\ pc[w] = "idle"
    /\ memStatus[r] = "pending"
    /\ r \notin overdue
    /\ conns[target[r].conn] \in {target[r].fp, Gone}
    /\ LET found == conns[target[r].conn] # Gone IN
       job' = [job EXCEPT ![w] =
                 [req |-> r, conn |-> IF found THEN target[r].conn ELSE None,
                  fp |-> conns[target[r].conn], auto |-> FALSE, outcome |-> None]]
    /\ Goto(w, "approving")
    /\ UNCHANGED <<requestVars, connVars, cause, execs, active, slots, attached,
                   phase, faults, crashes, historyVars>>

(* reserveExec: refused once execution intake is closed.                   *)
ExecsOpen == phase \in {"up", "rtClosed"}

ApproveReserve(w) ==
    /\ pc[w] = "approving"
    /\ IF ExecsOpen
       THEN /\ execs' = execs \cup {w}
            /\ Goto(w, "reserved")
            /\ UNCHANGED job
       ELSE Return(w) /\ UNCHANGED execs
    /\ UNCHANGED <<requestVars, connVars, cause, active, slots, attached,
                   phase, faults, crashes, historyVars>>

(* Stopped before the transition: the request stays pending.               *)
ApproveStopped(w) ==
    /\ pc[w] = "reserved"
    /\ cause[w] # None
    /\ Goto(w, "finished")
    /\ UNCHANGED <<requestVars, connVars, job, cause, execs, active, slots, attached,
                   phase, faults, crashes, historyVars>>

(* pending -> running in memory and SQLite, then activate.                 *)
ApproveTransition(w) ==
    /\ pc[w] = "reserved"
    /\ cause[w] = None
    /\ Wins(job[w].req, "pending")
    /\ Stored(TRUE)
    /\ SetStatus(job[w].req, "running")
    /\ active' = active \cup {w}
    /\ Goto(w, "decided")
    /\ UNCHANGED <<deleted, target, overdue, orphans, connVars, job, cause, execs,
                   slots, attached, phase, crashes, historyVars>>

(* Another call decided it first, it was deleted, or SQLite refused.       *)
ApproveLost(w) ==
    /\ pc[w] = "reserved"
    /\ cause[w] = None
    /\ IF Wins(job[w].req, "pending") THEN Stored(FALSE) ELSE UNCHANGED faults
    /\ Goto(w, "finished")
    /\ UNCHANGED <<requestVars, connVars, job, cause, execs, active, slots, attached,
                   phase, crashes, historyVars>>

-----------------------------------------------------------------------------
(* execute_command, after authentication and the bypass decision.          *)

Serving == phase \in {"up", "rtClosed", "execsClosed"}

Fresh(r) == memStatus[r] = None /\ dbStatus[r] = None /\ \A v \in Workers : job[v].req # r

ExecuteCommand(w, r, c, bypass) ==
    /\ Serving
    /\ pc[w] = "idle"
    /\ Fresh(r)
    /\ conns[c] \in Targets
    /\ job' = [job EXCEPT ![w] = [req |-> r, conn |-> c, fp |-> conns[c],
                                  auto |-> bypass, outcome |-> None]]
    /\ Goto(w, IF bypass THEN "bypassing" ELSE "queueing")
    /\ UNCHANGED <<requestVars, connVars, cause, execs, active, slots, attached,
                   phase, faults, crashes, historyVars>>

Insert(w, status) ==
    /\ dbStatus' = [dbStatus EXCEPT ![job[w].req] = status]
    /\ target' = [target EXCEPT ![job[w].req] = [conn |-> job[w].conn, fp |-> job[w].fp]]

(* recordCommandRequest of a queued request: the row first ...             *)
QueueInsert(w, ok) ==
    /\ pc[w] = "queueing"
    /\ Stored(ok)
    /\ IF ok THEN Insert(w, "pending") /\ Goto(w, "queued") /\ UNCHANGED job
             ELSE Return(w) /\ UNCHANGED <<dbStatus, target>>
    /\ UNCHANGED <<memStatus, deleted, overdue, orphans, connVars, cause, execs, active,
                   slots, attached, phase, crashes, historyVars>>

(* ... then the list that the GUI and the approvals read.                  *)
QueuePublish(w) ==
    /\ pc[w] = "queued"
    /\ memStatus' = [memStatus EXCEPT ![job[w].req] = "pending"]
    /\ Return(w)
    /\ UNCHANGED <<dbStatus, deleted, target, overdue, orphans, connVars, cause, execs,
                   active, slots, attached, phase, faults, crashes, historyVars>>

(* runBypassedCommand: an execution slot, without waiting for one.         *)
AcquireExec(w) ==
    /\ pc[w] = "bypassing"
    /\ IF phase = "up" /\ slots < MaxExec
       THEN slots' = slots + 1 /\ Goto(w, "slot") /\ UNCHANGED job
       ELSE Return(w) /\ UNCHANGED slots
    /\ UNCHANGED <<requestVars, connVars, cause, execs, active, attached,
                   phase, faults, crashes, historyVars>>

BypassReserve(w) ==
    /\ pc[w] = "slot"
    /\ IF ExecsOpen
       THEN /\ execs' = execs \cup {w}
            /\ Goto(w, "recording")
            /\ UNCHANGED <<job, slots>>
       ELSE /\ slots' = slots - 1
            /\ Return(w)
            /\ UNCHANGED execs
    /\ UNCHANGED <<requestVars, connVars, cause, active, attached,
                   phase, faults, crashes, historyVars>>

BypassInsert(w, ok) ==
    /\ pc[w] = "recording"
    /\ Stored(ok)
    /\ IF ok THEN Insert(w, "auto_running") /\ Goto(w, "recorded")
             ELSE Goto(w, "finished") /\ UNCHANGED <<dbStatus, target>>
    /\ UNCHANGED <<memStatus, deleted, overdue, orphans, connVars, job, cause, execs,
                   active, slots, attached, phase, crashes, historyVars>>

(* Publish, activate, and watch the HTTP request unless the listener       *)
(* is already being stopped.                                               *)
BypassPublish(w) ==
    /\ pc[w] = "recorded"
    /\ memStatus' = [memStatus EXCEPT ![job[w].req] = "auto_running"]
    /\ active' = active \cup {w}
    /\ attached' = IF Serving THEN attached \cup {w} ELSE attached
    /\ Goto(w, "decided")
    /\ UNCHANGED <<dbStatus, deleted, target, overdue, orphans, connVars, job, cause,
                   execs, slots, phase, faults, crashes, historyVars>>

(* The agent hangs up while it waits: the run is cancelled.                *)
ClientGone(w) ==
    /\ w \in attached
    /\ attached' = attached \ {w}
    /\ cancelExecs({w}, "clientGone")
    /\ UNCHANGED <<requestVars, connVars, pc, job, execs, active, slots,
                   phase, faults, crashes, historyVars>>

(* RequestTimeout: the answer is state=running and the run goes on.        *)
Detach(w) ==
    /\ w \in attached
    /\ attached' = attached \ {w}
    /\ UNCHANGED <<requestVars, connVars, pc, job, cause, execs, active, slots,
                   phase, faults, crashes, historyVars>>

-----------------------------------------------------------------------------
(* The run itself, the same for approved and bypassed requests.            *)

AppDone == phase \in {"stopping", "closed"}

Succeeded(w) == IF job[w].auto THEN "auto_succeeded" ELSE "succeeded"
Failed(w) == IF job[w].auto THEN "auto_failed" ELSE "failed"

(* finishRequest and runBypassedCommand: what a stop is recorded as.       *)
StopOutcome(w, why) ==
    IF why = "shutdown" \/ (why = "clientGone" /\ job[w].auto)
    THEN "interrupted" ELSE Failed(w)

(* withStopCause: shutdown wins whatever cause the context carries.        *)
RunStopCause(w) == IF AppDone THEN "shutdown" ELSE cause[w]

EndWith(w, outcome) ==
    /\ job' = [job EXCEPT ![w].outcome = outcome]
    /\ Goto(w, "ended")

(* Stopped, or without a connection, before the SSH start.                 *)
NotStarted(w) ==
    /\ pc[w] = "decided"
    /\ \/ job[w].fp = Gone /\ EndWith(w, Failed(w))
       \/ job[w].fp # Gone /\ cause[w] # None /\ EndWith(w, StopOutcome(w, cause[w]))
    /\ UNCHANGED <<requestVars, connVars, cause, execs, active, slots, attached,
                   phase, faults, crashes, historyVars>>

StartSSH(w) ==
    /\ pc[w] = "decided"
    /\ job[w].fp # Gone
    /\ cause[w] = None
    /\ starts' = [starts EXCEPT ![job[w].req] = @ + 1]
    /\ ranAt' = [ranAt EXCEPT ![job[w].req] = @ \cup {job[w].fp}]
    /\ Goto(w, "ssh")
    /\ UNCHANGED <<requestVars, connVars, job, cause, execs, active, slots, attached,
                   phase, faults, crashes>>

(* executeSSH returns: exit status 0 or not, a connection, credential or   *)
(* timeout error, or, once the context was cancelled, its cause.           *)
EndSSH(w) ==
    /\ pc[w] = "ssh"
    /\ \/ \E out \in {Succeeded(w), Failed(w)} : EndWith(w, out)
       \/ cause[w] # None /\ EndWith(w, StopOutcome(w, RunStopCause(w)))
    /\ UNCHANGED <<requestVars, connVars, cause, execs, active, slots, attached,
                   phase, faults, crashes, historyVars>>

FromState(w) == IF job[w].auto THEN "auto_running" ELSE "running"

FinishRequest(w, ok) ==
    /\ pc[w] = "ended"
    /\ Stored(ok)
    /\ finalizeRequest(job[w].req, FromState(w), job[w].outcome, ok)
    /\ Goto(w, "finished")
    /\ UNCHANGED <<deleted, target, overdue, orphans, connVars, job, cause, execs,
                   active, slots, attached, phase, crashes, historyVars>>

(* Mutant: execWG.Done before the outcome is stored.                       *)
Release_BeforeFinish(w) ==
    /\ pc[w] \in {"ended", "finished"}
    /\ execs' = execs \ {w}
    /\ active' = active \ {w}
    /\ slots' = IF job[w].auto THEN slots - 1 ELSE slots
    /\ attached' = attached \ {w}
    /\ cause' = [cause EXCEPT ![w] = None]
    /\ Return(w)
    /\ UNCHANGED <<requestVars, connVars, phase, faults, crashes, historyVars>>

(* release: out of a.execs, uncounted, execWG.Done, the MCP slot back.     *)
Release(w) ==
    /\ pc[w] = "finished"
    /\ execs' = execs \ {w}
    /\ active' = active \ {w}
    /\ slots' = IF job[w].auto THEN slots - 1 ELSE slots
    /\ attached' = attached \ {w}
    /\ cause' = [cause EXCEPT ![w] = None]
    /\ Return(w)
    /\ UNCHANGED <<requestVars, connVars, phase, faults, crashes, historyVars>>

-----------------------------------------------------------------------------
(* Single-step decisions on a request.                                     *)

Reject(r) ==
    /\ Live
    /\ Wins(r, "pending")
    /\ phase # "closed"
    /\ SetStatus(r, "rejected")
    /\ UNCHANGED <<deleted, target, overdue, orphans, connVars, workerVars,
                   phase, faults, crashes, historyVars>>

PassDeadline(r) ==
    /\ dbStatus[r] = "pending"
    /\ r \notin overdue
    /\ overdue' = overdue \cup {r}
    /\ UNCHANGED <<memStatus, dbStatus, deleted, target, orphans, connVars, workerVars,
                   phase, faults, crashes, historyVars>>

(* Mutant: the deadline is enforced without the compare-and-swap.          *)
Expire_NoCas(r) ==
    /\ Live
    /\ r \in overdue
    /\ memStatus[r] \in {"pending", "running"}
    /\ phase # "closed"
    /\ SetStatus(r, "expired")
    /\ UNCHANGED <<deleted, target, overdue, orphans, connVars, workerVars,
                   phase, faults, crashes, historyVars>>

(* The sweeper's tick, or an approval that finds the deadline passed.      *)
Expire(r) ==
    /\ Live
    /\ r \in overdue
    /\ Wins(r, "pending")
    /\ phase # "closed"
    /\ SetStatus(r, "expired")
    /\ UNCHANGED <<deleted, target, overdue, orphans, connVars, workerVars,
                   phase, faults, crashes, historyVars>>

(* DeleteCommandRequest hides the row unless it is running in memory or    *)
(* in SQLite; a row already hidden is dropped from memory all the same.    *)
DeleteRequest(r) ==
    /\ Live
    /\ memStatus[r] \notin RunningStates \cup {None}
    /\ phase # "closed"
    /\ \/ r \in deleted
       \/ dbStatus[r] \notin RunningStates
    /\ deleted' = deleted \cup {r}
    /\ memStatus' = [memStatus EXCEPT ![r] = None]
    /\ UNCHANGED <<dbStatus, target, overdue, orphans, connVars, workerVars,
                   phase, faults, crashes, historyVars>>

-----------------------------------------------------------------------------
(* Connections.                                                            *)

(* saveConnection of an existing row; row and memory change under a.mu.    *)
SaveConnection(c, t) ==
    /\ Live
    /\ phase # "closed"
    /\ conns[c] # Gone
    /\ connRows[c] # Gone
    /\ t # conns[c]
    /\ conns' = [conns EXCEPT ![c] = t]
    /\ connRows' = [connRows EXCEPT ![c] = t]
    /\ UNCHANGED <<requestVars, deleting, workerVars, phase, faults, crashes, historyVars>>

DisconnectConnection(c) ==
    /\ Live
    /\ conns[c] # Gone
    /\ ExecsOn(c) # {}
    /\ cancelExecs(ExecsOn(c), "disconnected")
    /\ UNCHANGED <<requestVars, connVars, pc, job, execs, active, slots, attached,
                   phase, faults, crashes, historyVars>>

(* DeleteConnection in its three steps: the row, the running commands,     *)
(* the list in memory.                                                     *)
DeleteConnectionRow(c) ==
    /\ Live
    /\ phase # "closed"
    /\ conns[c] # Gone
    /\ connRows[c] # Gone
    /\ connRows' = [connRows EXCEPT ![c] = Gone]
    /\ deleting' = [deleting EXCEPT ![c] = "row"]
    /\ UNCHANGED <<requestVars, conns, workerVars, phase, faults, crashes, historyVars>>

DeleteConnectionCancel(c) ==
    /\ deleting[c] = "row"
    /\ cancelExecs(ExecsOn(c), "disconnected")
    /\ deleting' = [deleting EXCEPT ![c] = "canceled"]
    /\ UNCHANGED <<requestVars, conns, connRows, pc, job, execs, active, slots, attached,
                   phase, faults, crashes, historyVars>>

DeleteConnectionForget(c) ==
    /\ deleting[c] = "canceled"
    /\ conns' = [conns EXCEPT ![c] = Gone]
    /\ deleting' = [deleting EXCEPT ![c] = "no"]
    /\ UNCHANGED <<requestVars, connRows, workerVars, phase, faults, crashes, historyVars>>

-----------------------------------------------------------------------------
(* Shutdown, crash and the next start.                                     *)

StopOthers == <<requestVars, connVars, pc, job, execs, active, slots, faults, crashes, historyVars>>

(* closeExecIntake: first the MCP slots, then the registry.                *)
CloseRuntime ==
    /\ phase = "up"
    /\ phase' = "rtClosed"
    /\ UNCHANGED <<StopOthers, cause, attached>>

CloseExecs ==
    /\ phase = "rtClosed"
    /\ phase' = "execsClosed"
    /\ UNCHANGED <<StopOthers, cause, attached>>

(* stopMCPServer: waiting agents are answered, their runs detached.        *)
StopListener ==
    /\ phase = "execsClosed"
    /\ phase' = "draining"
    /\ attached' = {}
    /\ UNCHANGED <<StopOthers, cause>>

(* drainMCPCommands: execWG.Wait returned within the (first or second)     *)
(* grace.                                                                  *)
DrainDone ==
    /\ phase \in {"draining", "canceling"}
    /\ execs = {}
    /\ phase' = "drained"
    /\ UNCHANGED <<StopOthers, cause, attached>>

DrainCancel ==
    /\ phase = "draining"
    /\ execs # {}
    /\ phase' = "canceling"
    /\ cancelExecs(execs, "shutdown")
    /\ UNCHANGED <<StopOthers, attached>>

DrainGiveUp ==
    /\ phase = "canceling"
    /\ execs # {}
    /\ phase' = "gaveUp"
    /\ UNCHANGED <<StopOthers, cause, attached>>

AppCancel ==
    /\ phase \in {"drained", "gaveUp"}
    /\ phase' = "stopping"
    /\ cancelExecs(execs, "shutdown")
    /\ UNCHANGED <<StopOthers, attached>>

CloseStore ==
    /\ phase = "stopping"
    /\ phase' = "closed"
    /\ UNCHANGED <<StopOthers, cause, attached>>

(* Everything in memory is lost; the tables stay.                          *)
LoseMemory ==
    /\ phase' = "down"
    /\ memStatus' = [r \in Requests |-> None]
    /\ orphans' = {}
    /\ conns' = [c \in Conns |-> Gone]
    /\ deleting' = [c \in Conns |-> "no"]
    /\ pc' = [w \in Workers |-> "idle"]
    /\ job' = [w \in Workers |-> NoJob]
    /\ cause' = [w \in Workers |-> None]
    /\ execs' = {}
    /\ active' = {}
    /\ slots' = 0
    /\ attached' = {}
    /\ UNCHANGED <<dbStatus, deleted, target, overdue, connRows, faults, historyVars>>

Exit ==
    /\ phase = "closed"
    /\ LoseMemory
    /\ UNCHANGED crashes

Crash ==
    /\ Live
    /\ crashes < MaxCrashes
    /\ crashes' = crashes + 1
    /\ LoseMemory

(* Mutant: interrupted runs are queued for approval again.                 *)
Recovered_Requeue(recover, expired, r) ==
    IF dbStatus[r] \in RunningStates /\ recover THEN "pending"
    ELSE IF r \in expired THEN "expired" ELSE dbStatus[r]

(* NewApp: recoverInterruptedRequests, load the requests that are not      *)
(* deleted, and expire what lapsed meanwhile.  Each of the two writes may  *)
(* fail: it is logged and the start goes on.                               *)
Recovered(recover, expired, r) ==
    IF dbStatus[r] \in RunningStates /\ recover THEN "interrupted"
    ELSE IF r \in expired THEN "expired" ELSE dbStatus[r]

Lapsed == {r \in Requests \ deleted : dbStatus[r] = "pending" /\ r \in overdue}

NewApp(recover, expired) ==
    /\ phase = "down"
    /\ phase' = "up"
    /\ expired \subseteq Lapsed
    /\ \/ recover /\ expired = Lapsed /\ UNCHANGED faults
       \/ ~(recover /\ expired = Lapsed) /\ faults < MaxFaults /\ faults' = faults + 1
    /\ dbStatus' = [r \in Requests |-> Recovered(recover, expired, r)]
    /\ memStatus' = [r \in Requests |-> IF r \in deleted THEN None
                                        ELSE Recovered(recover, expired, r)]
    /\ orphans' = {r \in Requests \ deleted : ~recover /\ dbStatus[r] \in RunningStates}
    /\ conns' = connRows
    /\ UNCHANGED <<deleted, target, overdue, connRows, deleting, workerVars,
                   crashes, historyVars>>

-----------------------------------------------------------------------------
WorkerStep(w) ==
    \/ ApproveReserve(w)
    \/ ApproveStopped(w)
    \/ ApproveTransition(w)
    \/ ApproveLost(w)
    \/ \E ok \in BOOLEAN : QueueInsert(w, ok)
    \/ QueuePublish(w)
    \/ AcquireExec(w)
    \/ BypassReserve(w)
    \/ \E ok \in BOOLEAN : BypassInsert(w, ok)
    \/ BypassPublish(w)
    \/ NotStarted(w)
    \/ StartSSH(w)
    \/ EndSSH(w)
    \/ \E ok \in BOOLEAN : FinishRequest(w, ok)
    \/ Release(w)

ShutdownStep ==
    CloseExecs \/ StopListener \/ DrainDone \/ DrainCancel \/ DrainGiveUp
       \/ AppCancel \/ CloseStore \/ Exit

Next ==
    \/ \E w \in Workers, r \in Requests : Approve(w, r)
    \/ \E w \in Workers, r \in Requests, c \in Conns, bypass \in BOOLEAN :
          ExecuteCommand(w, r, c, bypass)
    \/ \E w \in Workers : WorkerStep(w) \/ ClientGone(w) \/ Detach(w)
    \/ \E r \in Requests : Reject(r) \/ PassDeadline(r) \/ Expire(r) \/ DeleteRequest(r)
    \/ \E c \in Conns, t \in Targets \cup {Serial} : SaveConnection(c, t)
    \/ \E c \in Conns : DisconnectConnection(c) \/ DeleteConnectionRow(c)
                           \/ DeleteConnectionCancel(c) \/ DeleteConnectionForget(c)
    \/ CloseRuntime
    \/ ShutdownStep
    \/ Crash
    \/ \E recover \in BOOLEAN, expired \in SUBSET Requests : NewApp(recover, expired)

Spec == Init /\ [][Next]_vars

(* Goroutines run, the sweeper ticks, the drain's timers fire and shutdown *)
(* goes on.  Nothing obliges a human, an agent or a crash to act, nor a    *)
(* remote command to end.                                                  *)
Fairness ==
    /\ \A w \in Workers : WF_vars(pc[w] # "ssh" /\ WorkerStep(w))
    /\ \A r \in Requests : WF_vars(Expire(r))
    /\ WF_vars(ShutdownStep)

FairSpec == Spec /\ Fairness

-----------------------------------------------------------------------------
(* Properties.                                                             *)

(* Every variable has its type: statuses of command_requests, the local    *)
(* variables of the calls, the registry of executions.                     *)
TypeOK ==
    /\ memStatus \in [Requests -> Statuses \cup {None}]
    /\ dbStatus \in [Requests -> Statuses \cup {None}]
    /\ deleted \subseteq Requests
    /\ target \in [Requests -> [conn : Conns \cup {None}, fp : Targets \cup {Gone}]]
    /\ overdue \subseteq Requests
    /\ orphans \subseteq Requests
    /\ conns \in [Conns -> Targets \cup {Serial, Gone}]
    /\ connRows \in [Conns -> Targets \cup {Serial, Gone}]
    /\ deleting \in [Conns -> {"no", "row", "canceled"}]
    /\ pc \in [Workers -> PCs]
    /\ job \in [Workers -> Jobs]
    /\ cause \in [Workers -> Causes]
    /\ execs \subseteq Workers
    /\ active \subseteq Workers
    /\ slots \in Nat
    /\ attached \subseteq Workers
    /\ phase \in Phases
    /\ faults \in Nat
    /\ crashes \in Nat
    /\ starts \in [Requests -> Nat]
    /\ ranAt \in [Requests -> SUBSET Targets]

(* The command of a request is started at most once, whatever approvals,   *)
(* retries, crashes and restarts do: transitionRequest lets one decision   *)
(* win, and recoverInterruptedRequests never makes a row approvable again. *)
StartedAtMostOnce == \A r \in Requests : starts[r] <= 1

(* A started command has a durable record that says so: its row left       *)
(* pending for running (or was filed auto_running) before the SSH start,   *)
(* and a rejected or expired request never ran.                            *)
AuditedStart ==
    \A r \in Requests :
        starts[r] > 0 => dbStatus[r] \notin {None, "pending", "rejected", "expired"}

(* A command runs on the user@host:port recorded with the request, even    *)
(* when the connection is edited while approve is under way.               *)
RanWhereRequested == \A r \in Requests : ranAt[r] \subseteq {target[r].fp}

(* DeleteCommandRequest never hides the row of a running command, nor one  *)
(* that some call is about to run.                                         *)
HiddenNeverRuns ==
    \A r \in deleted :
        /\ dbStatus[r] \notin RunningStates
        /\ memStatus[r] = None
        /\ \A w \in Workers : job[w].req = r => pc[w] \notin {"decided", "ssh", "ended"}

(* The list in memory says what the table says, except for an outcome that *)
(* SQLite refused (audit #37), and never shows a deleted request.          *)
MemoryFollowsStore ==
    \A r \in Requests :
        memStatus[r] # None =>
            /\ r \notin deleted
            /\ \/ memStatus[r] = dbStatus[r]
               \/ memStatus[r] \in FinalStates /\ dbStatus[r] \in RunningStates

(* drainMCPCommands: once execWG is done no request is left running,       *)
(* except one whose recovery failed at startup, which has no run at all.   *)
DrainedMeansSettled ==
    phase = "drained" =>
        /\ \A w \in Workers : pc[w] \notin {"reserved", "recording", "recorded", "decided", "ssh", "ended"}
        /\ \A r \in Requests : memStatus[r] \in RunningStates => r \in orphans

(* Every MCP execution slot taken is held by one bypassed call, and there  *)
(* are never more than maxMCPExec.                                         *)
SlotHolders ==
    {w \in Workers : job[w].auto /\ pc[w] \notin {"idle", "bypassing"}}

SlotsBalanced == slots = Cardinality(SlotHolders) /\ slots <= MaxExec

(* A refused or lost approval is never counted as a running command        *)
(* (merge audit #2): what runningCounts counts has left pending for good.  *)
CountsOnlyDecided ==
    /\ active \subseteq execs
    /\ \A w \in active :
          dbStatus[job[w].req] \notin {None, "pending", "rejected", "expired"}

(* A command that starts was decided: once, on the record, for the host    *)
(* that was shown, and by a request nobody has deleted.                    *)
SoundStart == StartedAtMostOnce /\ AuditedStart /\ RanWhereRequested /\ HiddenNeverRuns

(* What shutdown and runningCounts read from the registry is true: a drain *)
(* that ended left nothing running, no slot is lost or taken twice, and    *)
(* only decided requests are counted.                                      *)
HonestRegistry == DrainedMeansSettled /\ SlotsBalanced /\ CountsOnlyDecided

(* The table is an audit ledger.                                           *)
Ledger == INSTANCE AuditLedger WITH row <- dbStatus, hidden <- deleted, ran <- starts

(* Every step of the system is a step of the ledger, or leaves it alone.   *)
KeepsLedger == Ledger!LedgerSpec

(* A request shown as running in memory stops being shown so, unless its   *)
(* command hangs on the remote side: the outcome is published even if      *)
(* SQLite refuses it.                                                      *)
RunsSettle ==
    \A r \in Requests :
        memStatus[r] \in RunningStates /\ r \notin orphans
            ~> \/ memStatus[r] \notin RunningStates
               \/ \E w \in Workers : job[w].req = r /\ pc[w] = "ssh"

(* DeleteConnection cancels what still runs on the connection, because     *)
(* "once the row is gone it would no longer be counted or disconnectable": *)
(* a command that runs uncancelled has a connection that                   *)
(* DisconnectConnection can find.                                          *)
RunsAreDisconnectable ==
    \A w \in Workers : pc[w] = "ssh" /\ cause[w] = None => conns[job[w].conn] # Gone
=============================================================================
