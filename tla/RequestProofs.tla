--------------------------- MODULE RequestProofs ---------------------------
(***************************************************************************)
(* Proofs about RequestLifecycle, and about the filing of requests in      *)
(* ClientCalls, for every value of their constants.                        *)
(*                                                                         *)
(* OwnershipInv of RequestInvariant is inductive; the safety properties    *)
(* follow from it, and with it every step is a step of AuditLedger.  Each  *)
(* action has a lemma: its first two steps say what the action does to the *)
(* calls and to the requests, the others that the conjuncts survive it.    *)
(*                                                                         *)
(* FilingInv, of the last section, is the inductive invariant of the calls *)
(* with a client_request_id.                                               *)
(***************************************************************************)
EXTENDS RequestInvariant, ClientCalls, FiniteSetTheorems, TLAPS

(* The frames that the lemmas speak in: all calls but w, all requests but  *)
(* q, and all requests stay as they are.                                   *)
OthersStay(w) == \A v \in Workers : v # w => pc'[v] = pc[v] /\ job'[v] = job[v]

OthersSame(q) ==
    \A s \in Requests : s # q => memStatus'[s] = memStatus[s] /\ dbStatus'[s] = dbStatus[s]

RequestsStay == UNCHANGED <<memStatus, dbStatus, deleted, target, orphans, starts, ranAt>>

-----------------------------------------------------------------------------
(* Ownership, action by action.                                            *)

(* approve's checks tie the call to a pending request and its target.      *)
LEMMA ApproveKeeps ==
    ASSUME TypeOK, Ownership, NEW w \in Workers, NEW r \in Requests, Approve(w, r)
    PROVE  Ownership'
<1> USE DEF Ownership, None, Gone
<1>1. /\ OthersStay(w)
      /\ pc[w] = "idle" /\ pc'[w] = "approving"
      /\ job[w] = NoJob
      /\ job'[w].req = r /\ ~job'[w].auto
      /\ job'[w].fp \in {target[r].fp, Gone}
      /\ memStatus[r] = "pending"
      /\ phase # "down"
  BY ConstantsAssumption DEF TypeOK, JobsFit, Approve, Live, RequestsStay, requestVars,
     historyVars, Goto, OthersStay
<1>2. /\ RequestsStay
      /\ UNCHANGED <<execs, active, phase>>
      /\ execs \subseteq Workers /\ active \subseteq Workers
  BY ConstantsAssumption DEF TypeOK, JobsFit, Approve, Live, RequestsStay, requestVars,
     historyVars, Goto, OthersStay
<1>3. JobsFit'
  BY <1>1 DEF JobsFit, Outcomes, FromState, Deciding, OthersStay, NoJob
<1>4. FilersOwn'
  BY <1>1, <1>2, ConstantsAssumption DEF JobsFit, FilersOwn, Filing, OthersStay,
     RequestsStay, NoJob
<1>5. DecidersKnow'
  BY <1>1, <1>2 DEF JobsFit, DecidersKnow, Deciding, MemoryFollowsStore, RunningStates,
     OthersStay, RequestsStay, NoJob
<1>6. RunnersOwn'
  BY <1>1, <1>2 DEF JobsFit, RunnersOwn, RunnerPCs, FromState, OthersStay, RequestsStay,
     NoJob
<1>7. RowsHonest'
  BY <1>1, <1>2 DEF RowsHonest, Undecided, RunningStates, OthersStay, RequestsStay, NoJob
<1>8. MemoryFollowsStore'
  BY <1>1, <1>2 DEF MemoryFollowsStore, RunningStates, FinalStates, OthersStay,
     RequestsStay, NoJob
<1>9. RunningIsRun'
  BY <1>1, <1>2 DEF RunningIsRun, RunnerPCs, RunningStates, OthersStay, RequestsStay, NoJob
<1>10. RegistryExact'
  BY <1>1, <1>2 DEF JobsFit, RegistryExact, Registered, RunnerPCs, Undecided, OthersStay,
     RequestsStay, NoJob
<1>11. DownIsEmpty'
  BY <1>1, <1>2 DEF DownIsEmpty, OthersStay, RequestsStay, NoJob
<1> QED
  BY <1>3, <1>4, <1>5, <1>6, <1>7, <1>8, <1>9, <1>10, <1>11

(* reserveExec for an approval: the call enters the registry.              *)
LEMMA ReserveApprovalKeeps ==
    ASSUME TypeOK, Ownership, NEW w \in Workers, ApproveReserve(w), ExecsOpen
    PROVE  Ownership'
<1> USE DEF Ownership, None, Gone
<1>1. /\ OthersStay(w)
      /\ pc[w] = "approving" /\ pc'[w] = "reserved"
      /\ job'[w] = job[w]
  BY ConstantsAssumption DEF TypeOK, ApproveReserve, ExecsOpen, RequestsStay, requestVars,
     historyVars, Goto, OthersStay
<1>2. /\ RequestsStay
      /\ execs' = execs \cup {w}
      /\ phase \notin {"down", "drained"}
      /\ UNCHANGED <<active, phase>>
      /\ execs \subseteq Workers /\ active \subseteq Workers
  BY ConstantsAssumption DEF TypeOK, ApproveReserve, ExecsOpen, RequestsStay, requestVars,
     historyVars, Goto, OthersStay
<1>3. JobsFit'
  BY <1>1 DEF JobsFit, Outcomes, FromState, Deciding, OthersStay
<1>4. FilersOwn'
  BY <1>1, <1>2 DEF JobsFit, FilersOwn, Filing, OthersStay, RequestsStay
<1>5. DecidersKnow'
  BY <1>1, <1>2 DEF JobsFit, DecidersKnow, Deciding, OthersStay, RequestsStay
<1>6. RunnersOwn'
  BY <1>1, <1>2 DEF JobsFit, RunnersOwn, RunnerPCs, FromState, OthersStay, RequestsStay
<1>7. RowsHonest'
  BY <1>1, <1>2 DEF RowsHonest, Undecided, RunningStates, OthersStay, RequestsStay
<1>8. MemoryFollowsStore'
  BY <1>1, <1>2 DEF MemoryFollowsStore, RunningStates, FinalStates, OthersStay, RequestsStay
<1>9. RunningIsRun'
  BY <1>1, <1>2 DEF RunningIsRun, RunnerPCs, RunningStates, OthersStay, RequestsStay
<1>10. RegistryExact'
  BY <1>1, <1>2 DEF JobsFit, RegistryExact, Registered, RunnerPCs, Undecided, OthersStay,
     RequestsStay
<1>11. DownIsEmpty'
  BY <1>1, <1>2 DEF DownIsEmpty, OthersStay, RequestsStay
<1> QED
  BY <1>3, <1>4, <1>5, <1>6, <1>7, <1>8, <1>9, <1>10, <1>11

(* A call that was stopped, lost the request or could not record it        *)
(* changes nothing.                                                        *)
LEMMA StandDownKeeps ==
    ASSUME TypeOK, Ownership, NEW w \in Workers, ApproveStopped(w) \/ ApproveLost(w) \/
       BypassInsert(w, FALSE)
    PROVE  Ownership'
<1> USE DEF Ownership, None, Gone
<1>1. /\ OthersStay(w)
      /\ pc[w] \in {"reserved", "recording"} /\ pc'[w] = "finished"
      /\ job'[w] = job[w]
  BY ConstantsAssumption DEF TypeOK, ApproveStopped, ApproveLost, BypassInsert,
     RequestsStay, requestVars, historyVars, Goto, OthersStay
<1>2. /\ RequestsStay
      /\ UNCHANGED <<execs, active, phase>>
      /\ execs \subseteq Workers /\ active \subseteq Workers
  BY ConstantsAssumption DEF TypeOK, ApproveStopped, ApproveLost, BypassInsert,
     RequestsStay, requestVars, historyVars, Goto, OthersStay
<1>3. JobsFit'
  BY <1>1 DEF JobsFit, Outcomes, FromState, Deciding, OthersStay
<1>4. FilersOwn'
  BY <1>1, <1>2 DEF JobsFit, FilersOwn, Filing, OthersStay, RequestsStay
<1>5. DecidersKnow'
  BY <1>1, <1>2 DEF JobsFit, DecidersKnow, Deciding, OthersStay, RequestsStay
<1>6. RunnersOwn'
  BY <1>1, <1>2 DEF JobsFit, RunnersOwn, RunnerPCs, FromState, OthersStay, RequestsStay
<1>7. RowsHonest'
  BY <1>1, <1>2 DEF RowsHonest, Undecided, RunningStates, OthersStay, RequestsStay
<1>8. MemoryFollowsStore'
  BY <1>1, <1>2 DEF MemoryFollowsStore, RunningStates, FinalStates, OthersStay, RequestsStay
<1>9. RunningIsRun'
  BY <1>1, <1>2 DEF RunningIsRun, RunnerPCs, RunningStates, OthersStay, RequestsStay
<1>10. RegistryExact'
  BY <1>1, <1>2 DEF JobsFit, RegistryExact, Registered, RunnerPCs, Undecided, OthersStay,
     RequestsStay
<1>11. DownIsEmpty'
  BY <1>1, <1>2 DEF DownIsEmpty, OthersStay, RequestsStay
<1> QED
  BY <1>3, <1>4, <1>5, <1>6, <1>7, <1>8, <1>9, <1>10, <1>11

(* pending -> running: the call becomes the one runner of the request.     *)
LEMMA ApproveTransitionKeeps ==
    ASSUME TypeOK, Ownership, NEW w \in Workers, ApproveTransition(w)
    PROVE  Ownership'
<1> USE DEF Ownership, None, Gone
<1>1. /\ OthersStay(w)
      /\ pc[w] = "reserved" /\ pc'[w] = "decided"
      /\ job'[w] = job[w]
      /\ job[w].req \in Requests
      /\ ~job[w].auto
  BY ConstantsAssumption DEF TypeOK, JobsFit, RowsHonest, Undecided, ApproveTransition,
     Wins, SetStatus, Deciding, OthersSame, requestVars, historyVars, Goto, OthersStay
<1>2. /\ OthersSame(job[w].req)
      /\ memStatus[job[w].req] = "pending" /\ dbStatus[job[w].req] = "pending"
      /\ memStatus'[job[w].req] = "running" /\ dbStatus'[job[w].req] = "running"
      /\ starts[job[w].req] = 0
      /\ active' = active \cup {w}
      /\ UNCHANGED <<deleted, target, orphans, starts, ranAt, execs, phase>>
      /\ execs \subseteq Workers /\ active \subseteq Workers
  BY ConstantsAssumption DEF TypeOK, JobsFit, RowsHonest, Undecided, ApproveTransition,
     Wins, SetStatus, Deciding, OthersSame, requestVars, historyVars, Goto, OthersStay
<1>3. JobsFit'
  BY <1>1 DEF JobsFit, Outcomes, FromState, Deciding, OthersStay
<1>4. FilersOwn'
  BY <1>1, <1>2 DEF JobsFit, FilersOwn, Filing, OthersStay, OthersSame
<1>5. DecidersKnow'
  BY <1>1, <1>2 DEF JobsFit, DecidersKnow, Deciding, OthersStay, OthersSame
<1>6. RunnersOwn'
  BY <1>1, <1>2 DEF JobsFit, RunnersOwn, RunnerPCs, FromState, DecidersKnow, Deciding,
     OthersStay, OthersSame
<1>7. RowsHonest'
  BY <1>1, <1>2 DEF RowsHonest, Undecided, RunningStates, OthersStay, OthersSame
<1>8. MemoryFollowsStore'
  BY <1>1, <1>2 DEF MemoryFollowsStore, RunningStates, FinalStates, OthersStay, OthersSame
<1>9. RunningIsRun'
  BY <1>1, <1>2 DEF RunningIsRun, RunnerPCs, RunningStates, OthersStay, OthersSame
<1>10. RegistryExact'
  BY <1>1, <1>2 DEF JobsFit, RegistryExact, Registered, RunnerPCs, Undecided, OthersStay,
     OthersSame
<1>11. DownIsEmpty'
  BY <1>1, <1>2 DEF DownIsEmpty, OthersStay, OthersSame
<1> QED
  BY <1>3, <1>4, <1>5, <1>6, <1>7, <1>8, <1>9, <1>10, <1>11

(* A new request is known to the call that files it alone.                 *)
LEMMA ExecuteCommandKeeps ==
    ASSUME TypeOK, Ownership, NEW w \in Workers, NEW r \in Requests, NEW c \in Conns, NEW
       bypass \in BOOLEAN, ExecuteCommand(w, r, c, bypass)
    PROVE  Ownership'
<1> USE DEF Ownership, None, Gone
<1>1. /\ OthersStay(w)
      /\ pc[w] = "idle" /\ pc'[w] = IF bypass THEN "bypassing" ELSE "queueing"
      /\ job[w] = NoJob
      /\ job'[w].req = r /\ job'[w].auto = bypass
      /\ memStatus[r] = None /\ dbStatus[r] = None /\ starts[r] = 0 /\ r \notin deleted
      /\ \A v \in Workers : job[v].req # r
      /\ phase # "down"
  BY ConstantsAssumption DEF TypeOK, JobsFit, RowsHonest, Undecided, ExecuteCommand, Fresh,
     Serving, RequestsStay, requestVars, historyVars, Goto, OthersStay
<1>2. /\ RequestsStay
      /\ UNCHANGED <<execs, active, phase>>
      /\ execs \subseteq Workers /\ active \subseteq Workers
  BY ConstantsAssumption DEF TypeOK, JobsFit, RowsHonest, Undecided, ExecuteCommand, Fresh,
     Serving, RequestsStay, requestVars, historyVars, Goto, OthersStay
<1>3. JobsFit'
  BY <1>1 DEF JobsFit, Outcomes, FromState, Deciding, OthersStay, NoJob
<1>4. FilersOwn'
  BY <1>1, <1>2 DEF JobsFit, FilersOwn, Filing, OthersStay, RequestsStay, NoJob
<1>5. DecidersKnow'
  BY <1>1, <1>2 DEF JobsFit, DecidersKnow, Deciding, OthersStay, RequestsStay, NoJob
<1>6. RunnersOwn'
  BY <1>1, <1>2 DEF JobsFit, RunnersOwn, RunnerPCs, FromState, OthersStay, RequestsStay,
     NoJob
<1>7. RowsHonest'
  BY <1>1, <1>2 DEF RowsHonest, Undecided, RunningStates, OthersStay, RequestsStay, NoJob
<1>8. MemoryFollowsStore'
  BY <1>1, <1>2 DEF MemoryFollowsStore, RunningStates, FinalStates, OthersStay,
     RequestsStay, NoJob
<1>9. RunningIsRun'
  BY <1>1, <1>2 DEF RunningIsRun, RunnerPCs, RunningStates, OthersStay, RequestsStay, NoJob
<1>10. RegistryExact'
  BY <1>1, <1>2 DEF JobsFit, RegistryExact, Registered, RunnerPCs, Undecided, OthersStay,
     RequestsStay, NoJob
<1>11. DownIsEmpty'
  BY <1>1, <1>2 DEF DownIsEmpty, OthersStay, RequestsStay, NoJob
<1> QED
  BY <1>3, <1>4, <1>5, <1>6, <1>7, <1>8, <1>9, <1>10, <1>11

(* The row of a queued request is inserted, still unseen by others.        *)
LEMMA QueueRowKeeps ==
    ASSUME TypeOK, Ownership, NEW w \in Workers, QueueInsert(w, TRUE)
    PROVE  Ownership'
<1> USE DEF Ownership, None, Gone
<1>1. /\ OthersStay(w)
      /\ pc[w] = "queueing" /\ pc'[w] = "queued"
      /\ job'[w] = job[w]
      /\ job[w].req \in Requests
      /\ \A v \in Workers : v # w => job[v].req # job[w].req
  BY ConstantsAssumption DEF TypeOK, JobsFit, FilersOwn, Filing, QueueInsert, Insert,
     OthersSame, requestVars, historyVars, Goto, OthersStay
<1>2. /\ OthersSame(job[w].req)
      /\ memStatus' = memStatus
      /\ dbStatus[job[w].req] = None /\ dbStatus'[job[w].req] = "pending" /\ starts[job[w].req] = 0 /\ job[w].req \notin deleted
      /\ \A s \in Requests : s # job[w].req => target'[s] = target[s]
      /\ target'[job[w].req].fp = job[w].fp
      /\ UNCHANGED <<deleted, orphans, starts, ranAt, execs, active, phase>>
      /\ execs \subseteq Workers /\ active \subseteq Workers
  BY ConstantsAssumption DEF TypeOK, JobsFit, FilersOwn, Filing, QueueInsert, Insert,
     OthersSame, requestVars, historyVars, Goto, OthersStay
<1>3. JobsFit'
  BY <1>1 DEF JobsFit, Outcomes, FromState, Deciding, OthersStay
<1>4. FilersOwn'
  BY <1>1, <1>2 DEF JobsFit, FilersOwn, Filing, OthersStay, OthersSame
<1>5. DecidersKnow'
  BY <1>1, <1>2 DEF JobsFit, DecidersKnow, Deciding, OthersStay, OthersSame
<1>6. RunnersOwn'
  BY <1>1, <1>2 DEF JobsFit, RunnersOwn, RunnerPCs, FromState, OthersStay, OthersSame
<1>7. RowsHonest'
  BY <1>1, <1>2 DEF RowsHonest, Undecided, RunningStates, OthersStay, OthersSame
<1>8. MemoryFollowsStore'
  BY <1>1, <1>2 DEF MemoryFollowsStore, RunningStates, FinalStates, OthersStay, OthersSame
<1>9. RunningIsRun'
  BY <1>1, <1>2 DEF RunningIsRun, RunnerPCs, RunningStates, OthersStay, OthersSame
<1>10. RegistryExact'
  BY <1>1, <1>2 DEF JobsFit, RegistryExact, Registered, RunnerPCs, Undecided, OthersStay,
     OthersSame
<1>11. DownIsEmpty'
  BY <1>1, <1>2 DEF DownIsEmpty, OthersStay, OthersSame
<1> QED
  BY <1>3, <1>4, <1>5, <1>6, <1>7, <1>8, <1>9, <1>10, <1>11

(* The queued request is published and the call forgets it.                *)
LEMMA QueuePublishKeeps ==
    ASSUME TypeOK, Ownership, NEW w \in Workers, QueuePublish(w)
    PROVE  Ownership'
<1> USE DEF Ownership, None, Gone
<1>1. /\ OthersStay(w)
      /\ pc[w] = "queued" /\ pc'[w] = "idle"
      /\ job'[w] = NoJob
      /\ job[w].req \in Requests
      /\ \A v \in Workers : v # w => job[v].req # job[w].req
  BY ConstantsAssumption DEF TypeOK, JobsFit, FilersOwn, Filing, QueuePublish, Return,
     OthersSame, requestVars, historyVars, Goto, OthersStay
<1>2. /\ OthersSame(job[w].req)
      /\ memStatus[job[w].req] = None /\ memStatus'[job[w].req] = "pending" /\ dbStatus[job[w].req] = "pending" /\ job[w].req \notin deleted
      /\ UNCHANGED <<dbStatus, deleted, target, orphans, starts, ranAt, execs, active, phase>>
      /\ execs \subseteq Workers /\ active \subseteq Workers
  BY ConstantsAssumption DEF TypeOK, JobsFit, FilersOwn, Filing, QueuePublish, Return,
     OthersSame, requestVars, historyVars, Goto, OthersStay
<1>3. JobsFit'
  BY <1>1 DEF JobsFit, Outcomes, FromState, Deciding, OthersStay, NoJob
<1>4. FilersOwn'
  BY <1>1, <1>2, ConstantsAssumption DEF JobsFit, FilersOwn, Filing, OthersStay, OthersSame,
     NoJob
<1>5. DecidersKnow'
  BY <1>1, <1>2 DEF JobsFit, DecidersKnow, Deciding, OthersStay, OthersSame, NoJob
<1>6. RunnersOwn'
  BY <1>1, <1>2 DEF JobsFit, RunnersOwn, RunnerPCs, FromState, OthersStay, OthersSame, NoJob
<1>7. RowsHonest'
  BY <1>1, <1>2 DEF RowsHonest, Undecided, RunningStates, OthersStay, OthersSame, NoJob
<1>8. MemoryFollowsStore'
  BY <1>1, <1>2 DEF MemoryFollowsStore, RunningStates, FinalStates, OthersStay, OthersSame,
     NoJob
<1>9. RunningIsRun'
  BY <1>1, <1>2 DEF RunningIsRun, RunnerPCs, RunningStates, OthersStay, OthersSame, NoJob
<1>10. RegistryExact'
  BY <1>1, <1>2 DEF JobsFit, RegistryExact, Registered, RunnerPCs, Undecided, OthersStay,
     OthersSame, NoJob
<1>11. DownIsEmpty'
  BY <1>1, <1>2 DEF DownIsEmpty, OthersStay, OthersSame, NoJob
<1> QED
  BY <1>3, <1>4, <1>5, <1>6, <1>7, <1>8, <1>9, <1>10, <1>11

(* A bypassed call takes an execution slot.                                *)
LEMMA TakeSlotKeeps ==
    ASSUME TypeOK, Ownership, NEW w \in Workers, AcquireExec(w), slots < MaxExec, phase =
       "up"
    PROVE  Ownership'
<1> USE DEF Ownership, None, Gone
<1>1. /\ OthersStay(w)
      /\ pc[w] = "bypassing" /\ pc'[w] = "slot"
      /\ job'[w] = job[w]
  BY ConstantsAssumption DEF TypeOK, AcquireExec, RequestsStay, requestVars, historyVars,
     Goto, OthersStay
<1>2. /\ RequestsStay
      /\ UNCHANGED <<execs, active, phase>>
      /\ execs \subseteq Workers /\ active \subseteq Workers
  BY ConstantsAssumption DEF TypeOK, AcquireExec, RequestsStay, requestVars, historyVars,
     Goto, OthersStay
<1>3. JobsFit'
  BY <1>1 DEF JobsFit, Outcomes, FromState, Deciding, OthersStay
<1>4. FilersOwn'
  BY <1>1, <1>2 DEF JobsFit, FilersOwn, Filing, OthersStay, RequestsStay
<1>5. DecidersKnow'
  BY <1>1, <1>2 DEF JobsFit, DecidersKnow, Deciding, OthersStay, RequestsStay
<1>6. RunnersOwn'
  BY <1>1, <1>2 DEF JobsFit, RunnersOwn, RunnerPCs, FromState, OthersStay, RequestsStay
<1>7. RowsHonest'
  BY <1>1, <1>2 DEF RowsHonest, Undecided, RunningStates, OthersStay, RequestsStay
<1>8. MemoryFollowsStore'
  BY <1>1, <1>2 DEF MemoryFollowsStore, RunningStates, FinalStates, OthersStay, RequestsStay
<1>9. RunningIsRun'
  BY <1>1, <1>2 DEF RunningIsRun, RunnerPCs, RunningStates, OthersStay, RequestsStay
<1>10. RegistryExact'
  BY <1>1, <1>2 DEF JobsFit, RegistryExact, Registered, RunnerPCs, Undecided, OthersStay,
     RequestsStay
<1>11. DownIsEmpty'
  BY <1>1, <1>2 DEF DownIsEmpty, OthersStay, RequestsStay
<1> QED
  BY <1>3, <1>4, <1>5, <1>6, <1>7, <1>8, <1>9, <1>10, <1>11

(* reserveExec for a bypassed call.                                        *)
LEMMA ReserveBypassKeeps ==
    ASSUME TypeOK, Ownership, NEW w \in Workers, BypassReserve(w), ExecsOpen
    PROVE  Ownership'
<1> USE DEF Ownership, None, Gone
<1>1. /\ OthersStay(w)
      /\ pc[w] = "slot" /\ pc'[w] = "recording"
      /\ job'[w] = job[w]
  BY ConstantsAssumption DEF TypeOK, BypassReserve, ExecsOpen, RequestsStay, requestVars,
     historyVars, Goto, OthersStay
<1>2. /\ RequestsStay
      /\ execs' = execs \cup {w}
      /\ phase \notin {"down", "drained"}
      /\ UNCHANGED <<active, phase>>
      /\ execs \subseteq Workers /\ active \subseteq Workers
  BY ConstantsAssumption DEF TypeOK, BypassReserve, ExecsOpen, RequestsStay, requestVars,
     historyVars, Goto, OthersStay
<1>3. JobsFit'
  BY <1>1 DEF JobsFit, Outcomes, FromState, Deciding, OthersStay
<1>4. FilersOwn'
  BY <1>1, <1>2 DEF JobsFit, FilersOwn, Filing, OthersStay, RequestsStay
<1>5. DecidersKnow'
  BY <1>1, <1>2 DEF JobsFit, DecidersKnow, Deciding, OthersStay, RequestsStay
<1>6. RunnersOwn'
  BY <1>1, <1>2 DEF JobsFit, RunnersOwn, RunnerPCs, FromState, OthersStay, RequestsStay
<1>7. RowsHonest'
  BY <1>1, <1>2 DEF RowsHonest, Undecided, RunningStates, OthersStay, RequestsStay
<1>8. MemoryFollowsStore'
  BY <1>1, <1>2 DEF MemoryFollowsStore, RunningStates, FinalStates, OthersStay, RequestsStay
<1>9. RunningIsRun'
  BY <1>1, <1>2 DEF RunningIsRun, RunnerPCs, RunningStates, OthersStay, RequestsStay
<1>10. RegistryExact'
  BY <1>1, <1>2 DEF JobsFit, RegistryExact, Registered, RunnerPCs, Undecided, OthersStay,
     RequestsStay
<1>11. DownIsEmpty'
  BY <1>1, <1>2 DEF DownIsEmpty, OthersStay, RequestsStay
<1> QED
  BY <1>3, <1>4, <1>5, <1>6, <1>7, <1>8, <1>9, <1>10, <1>11

(* The auto_running row is inserted before anything runs.                  *)
LEMMA BypassRowKeeps ==
    ASSUME TypeOK, Ownership, NEW w \in Workers, BypassInsert(w, TRUE)
    PROVE  Ownership'
<1> USE DEF Ownership, None, Gone
<1>1. /\ OthersStay(w)
      /\ pc[w] = "recording" /\ pc'[w] = "recorded"
      /\ job'[w] = job[w]
      /\ job[w].req \in Requests
      /\ \A v \in Workers : v # w => job[v].req # job[w].req
  BY ConstantsAssumption DEF TypeOK, JobsFit, FilersOwn, Filing, BypassInsert, Insert,
     OthersSame, requestVars, historyVars, Goto, OthersStay
<1>2. /\ OthersSame(job[w].req)
      /\ memStatus' = memStatus
      /\ dbStatus[job[w].req] = None /\ dbStatus'[job[w].req] = "auto_running" /\ starts[job[w].req] = 0 /\ job[w].req \notin deleted
      /\ \A s \in Requests : s # job[w].req => target'[s] = target[s]
      /\ target'[job[w].req].fp = job[w].fp
      /\ UNCHANGED <<deleted, orphans, starts, ranAt, execs, active, phase>>
      /\ execs \subseteq Workers /\ active \subseteq Workers
  BY ConstantsAssumption DEF TypeOK, JobsFit, FilersOwn, Filing, BypassInsert, Insert,
     OthersSame, requestVars, historyVars, Goto, OthersStay
<1>3. JobsFit'
  BY <1>1 DEF JobsFit, Outcomes, FromState, Deciding, OthersStay
<1>4. FilersOwn'
  BY <1>1, <1>2 DEF JobsFit, FilersOwn, Filing, OthersStay, OthersSame
<1>5. DecidersKnow'
  BY <1>1, <1>2 DEF JobsFit, DecidersKnow, Deciding, OthersStay, OthersSame
<1>6. RunnersOwn'
  BY <1>1, <1>2 DEF JobsFit, RunnersOwn, RunnerPCs, FromState, OthersStay, OthersSame
<1>7. RowsHonest'
  BY <1>1, <1>2 DEF RowsHonest, Undecided, RunningStates, OthersStay, OthersSame
<1>8. MemoryFollowsStore'
  BY <1>1, <1>2 DEF MemoryFollowsStore, RunningStates, FinalStates, OthersStay, OthersSame
<1>9. RunningIsRun'
  BY <1>1, <1>2 DEF RunningIsRun, RunnerPCs, RunningStates, OthersStay, OthersSame
<1>10. RegistryExact'
  BY <1>1, <1>2 DEF JobsFit, RegistryExact, Registered, RunnerPCs, Undecided, OthersStay,
     OthersSame
<1>11. DownIsEmpty'
  BY <1>1, <1>2 DEF DownIsEmpty, OthersStay, OthersSame
<1> QED
  BY <1>3, <1>4, <1>5, <1>6, <1>7, <1>8, <1>9, <1>10, <1>11

(* The bypassed request is published and its call is its one runner.       *)
LEMMA BypassPublishKeeps ==
    ASSUME TypeOK, Ownership, NEW w \in Workers, BypassPublish(w)
    PROVE  Ownership'
<1> USE DEF Ownership, None, Gone
<1>1. /\ OthersStay(w)
      /\ pc[w] = "recorded" /\ pc'[w] = "decided"
      /\ job'[w] = job[w]
      /\ job[w].req \in Requests
      /\ \A v \in Workers : v # w => job[v].req # job[w].req
      /\ job[w].auto
  BY ConstantsAssumption DEF TypeOK, JobsFit, FilersOwn, Filing, BypassPublish, OthersSame,
     requestVars, historyVars, Goto, OthersStay
<1>2. /\ OthersSame(job[w].req)
      /\ memStatus[job[w].req] = None /\ memStatus'[job[w].req] = "auto_running" /\ dbStatus[job[w].req] = "auto_running"
      /\ starts[job[w].req] = 0 /\ job[w].req \notin deleted /\ target[job[w].req].fp = job[w].fp
      /\ active' = active \cup {w}
      /\ UNCHANGED <<dbStatus, deleted, target, orphans, starts, ranAt, execs, phase>>
      /\ execs \subseteq Workers /\ active \subseteq Workers
  BY ConstantsAssumption DEF TypeOK, JobsFit, FilersOwn, Filing, BypassPublish, OthersSame,
     requestVars, historyVars, Goto, OthersStay
<1>3. JobsFit'
  BY <1>1 DEF JobsFit, Outcomes, FromState, Deciding, OthersStay
<1>4. FilersOwn'
  BY <1>1, <1>2 DEF JobsFit, FilersOwn, Filing, OthersStay, OthersSame
<1>5. DecidersKnow'
  BY <1>1, <1>2 DEF JobsFit, DecidersKnow, Deciding, OthersStay, OthersSame
<1>6. RunnersOwn'
  BY <1>1, <1>2 DEF JobsFit, RunnersOwn, RunnerPCs, FromState, OthersStay, OthersSame
<1>7. RowsHonest'
  BY <1>1, <1>2 DEF RowsHonest, Undecided, RunningStates, OthersStay, OthersSame
<1>8. MemoryFollowsStore'
  BY <1>1, <1>2 DEF MemoryFollowsStore, RunningStates, FinalStates, OthersStay, OthersSame
<1>9. RunningIsRun'
  BY <1>1, <1>2 DEF RunningIsRun, RunnerPCs, RunningStates, OthersStay, OthersSame
<1>10. RegistryExact'
  BY <1>1, <1>2 DEF JobsFit, RegistryExact, Registered, RunnerPCs, Undecided, OthersStay,
     OthersSame
<1>11. DownIsEmpty'
  BY <1>1, <1>2 DEF DownIsEmpty, OthersStay, OthersSame
<1> QED
  BY <1>3, <1>4, <1>5, <1>6, <1>7, <1>8, <1>9, <1>10, <1>11

(* The only start of the command: its row is running and had no start.     *)
LEMMA StartSSHKeeps ==
    ASSUME TypeOK, Ownership, NEW w \in Workers, StartSSH(w)
    PROVE  Ownership'
<1> USE DEF Ownership, None, Gone
<1>1. /\ OthersStay(w)
      /\ pc[w] = "decided" /\ pc'[w] = "ssh"
      /\ job'[w] = job[w]
      /\ job[w].req \in Requests
  BY ConstantsAssumption DEF TypeOK, JobsFit, RunnersOwn, RunnerPCs, StartSSH, FromState,
     RunningStates, requestVars, historyVars, Goto, OthersStay
<1>2. /\ \A s \in Requests : s # job[w].req => starts'[s] = starts[s] /\ ranAt'[s] = ranAt[s]
      /\ starts'[job[w].req] = 1
      /\ ranAt'[job[w].req] = ranAt[job[w].req] \cup {target[job[w].req].fp}
      /\ dbStatus[job[w].req] \in RunningStates
      /\ UNCHANGED <<memStatus, dbStatus, deleted, target, orphans, execs, active, phase>>
      /\ execs \subseteq Workers /\ active \subseteq Workers
  BY ConstantsAssumption DEF TypeOK, JobsFit, RunnersOwn, RunnerPCs, StartSSH, FromState,
     RunningStates, requestVars, historyVars, Goto, OthersStay
<1>3. JobsFit'
  BY <1>1 DEF JobsFit, Outcomes, FromState, Deciding, OthersStay
<1>4. FilersOwn'
  BY <1>1, <1>2 DEF JobsFit, FilersOwn, Filing, OthersStay
<1>5. DecidersKnow'
  BY <1>1, <1>2 DEF JobsFit, DecidersKnow, Deciding, OthersStay
<1>6. RunnersOwn'
  BY <1>1, <1>2 DEF JobsFit, RunnersOwn, RunnerPCs, FromState, OthersStay
<1>7. RowsHonest'
  BY <1>1, <1>2 DEF RowsHonest, Undecided, RunningStates, OthersStay
<1>8. MemoryFollowsStore'
  BY <1>1, <1>2 DEF MemoryFollowsStore, RunningStates, FinalStates, OthersStay
<1>9. RunningIsRun'
  BY <1>1, <1>2 DEF RunningIsRun, RunnerPCs, RunningStates, OthersStay
<1>10. RegistryExact'
  BY <1>1, <1>2 DEF JobsFit, RegistryExact, Registered, RunnerPCs, Undecided, OthersStay
<1>11. DownIsEmpty'
  BY <1>1, <1>2 DEF DownIsEmpty, OthersStay
<1> QED
  BY <1>3, <1>4, <1>5, <1>6, <1>7, <1>8, <1>9, <1>10, <1>11

(* A run ends, started or not, with an outcome of its kind.                *)
LEMMA EndRunKeeps ==
    ASSUME TypeOK, Ownership, NEW w \in Workers, NotStarted(w) \/ EndSSH(w)
    PROVE  Ownership'
<1> USE DEF Ownership, None, Gone
<1>1. /\ OthersStay(w)
      /\ pc[w] \in {"decided", "ssh"} /\ pc'[w] = "ended"
      /\ job'[w].req = job[w].req /\ job'[w].auto = job[w].auto /\ job'[w].fp = job[w].fp
      /\ job'[w].outcome \in Outcomes(FromState(w))
  BY ConstantsAssumption DEF TypeOK, NotStarted, EndSSH, EndWith, StopOutcome, RunStopCause,
     Failed, Succeeded, Outcomes, FromState, Jobs, RequestsStay, requestVars, historyVars,
     Goto, OthersStay
<1>2. /\ RequestsStay
      /\ UNCHANGED <<execs, active, phase>>
      /\ execs \subseteq Workers /\ active \subseteq Workers
  BY ConstantsAssumption DEF TypeOK, NotStarted, EndSSH, EndWith, StopOutcome, RunStopCause,
     Failed, Succeeded, Outcomes, FromState, Jobs, RequestsStay, requestVars, historyVars,
     Goto, OthersStay
<1>3. JobsFit'
  BY <1>1 DEF JobsFit, Outcomes, FromState, Deciding, OthersStay
<1>4. FilersOwn'
  BY <1>1, <1>2 DEF JobsFit, FilersOwn, Filing, OthersStay, RequestsStay
<1>5. DecidersKnow'
  BY <1>1, <1>2 DEF JobsFit, DecidersKnow, Deciding, OthersStay, RequestsStay
<1>6. RunnersOwn'
  BY <1>1, <1>2 DEF JobsFit, RunnersOwn, RunnerPCs, FromState, OthersStay, RequestsStay
<1>7. RowsHonest'
  BY <1>1, <1>2 DEF RowsHonest, Undecided, RunningStates, OthersStay, RequestsStay
<1>8. MemoryFollowsStore'
  BY <1>1, <1>2 DEF MemoryFollowsStore, RunningStates, FinalStates, OthersStay, RequestsStay
<1>9. RunningIsRun'
  BY <1>1, <1>2 DEF RunningIsRun, RunnerPCs, RunningStates, OthersStay, RequestsStay
<1>10. RegistryExact'
  BY <1>1, <1>2 DEF JobsFit, RegistryExact, Registered, RunnerPCs, Undecided, OthersStay,
     RequestsStay
<1>11. DownIsEmpty'
  BY <1>1, <1>2 DEF DownIsEmpty, OthersStay, RequestsStay
<1> QED
  BY <1>3, <1>4, <1>5, <1>6, <1>7, <1>8, <1>9, <1>10, <1>11

(* The outcome goes to memory, and to the table unless SQLite refuses.     *)
LEMMA FinishRequestKeeps ==
    ASSUME TypeOK, Ownership, NEW w \in Workers, NEW ok \in BOOLEAN, FinishRequest(w, ok)
    PROVE  Ownership'
<1> USE DEF Ownership, None, Gone
<1>1. /\ OthersStay(w)
      /\ pc[w] = "ended" /\ pc'[w] = "finished"
      /\ job'[w] = job[w]
      /\ job[w].req \in Requests
  BY ConstantsAssumption DEF TypeOK, JobsFit, RunnersOwn, RunnerPCs, FinishRequest,
     finalizeRequest, OthersSame, Outcomes, FromState, RunningStates, requestVars,
     historyVars, Goto, OthersStay
<1>2. /\ OthersSame(job[w].req)
      /\ memStatus'[job[w].req] = job[w].outcome
      /\ dbStatus[job[w].req] \in RunningStates /\ memStatus[job[w].req] \in RunningStates
      /\ dbStatus'[job[w].req] \in {dbStatus[job[w].req], job[w].outcome}
      /\ job[w].outcome \in {"succeeded", "failed", "interrupted", "auto_succeeded", "auto_failed"}
      /\ UNCHANGED <<deleted, target, orphans, starts, ranAt, execs, active, phase>>
      /\ execs \subseteq Workers /\ active \subseteq Workers
  BY ConstantsAssumption DEF TypeOK, JobsFit, RunnersOwn, RunnerPCs, FinishRequest,
     finalizeRequest, OthersSame, Outcomes, FromState, RunningStates, requestVars,
     historyVars, Goto, OthersStay
<1>3. JobsFit'
  BY <1>1 DEF JobsFit, Outcomes, FromState, Deciding, OthersStay
<1>4. FilersOwn'
  BY <1>1, <1>2 DEF JobsFit, FilersOwn, Filing, OthersStay, OthersSame
<1>5. DecidersKnow'
  BY <1>1, <1>2 DEF JobsFit, DecidersKnow, Deciding, OthersStay, OthersSame
<1>6. RunnersOwn'
  BY <1>1, <1>2 DEF JobsFit, RunnersOwn, RunnerPCs, FromState, OthersStay, OthersSame
<1>7. RowsHonest'
  BY <1>1, <1>2 DEF RowsHonest, Undecided, RunningStates, OthersStay, OthersSame
<1>8. MemoryFollowsStore'
  BY <1>1, <1>2 DEF MemoryFollowsStore, RunningStates, FinalStates, OthersStay, OthersSame
<1>9. RunningIsRun'
  BY <1>1, <1>2 DEF RunningIsRun, RunnerPCs, RunningStates, OthersStay, OthersSame
<1>10. RegistryExact'
  BY <1>1, <1>2 DEF JobsFit, RegistryExact, Registered, RunnerPCs, Undecided, OthersStay,
     OthersSame
<1>11. DownIsEmpty'
  BY <1>1, <1>2 DEF DownIsEmpty, OthersStay, OthersSame
<1> QED
  BY <1>3, <1>4, <1>5, <1>6, <1>7, <1>8, <1>9, <1>10, <1>11

(* Only a pending request is rejected or expires.                          *)
LEMMA RefuseKeeps ==
    ASSUME TypeOK, Ownership, NEW r \in Requests, Reject(r) \/ Expire(r)
    PROVE  Ownership'
<1> USE DEF Ownership, None, Gone
<1>1. /\ UNCHANGED <<pc, job>>
  BY ConstantsAssumption DEF TypeOK, Reject, Expire, Wins, SetStatus, Live, OthersSame,
     workerVars, requestVars, historyVars, Goto, OthersStay
<1>2. /\ OthersSame(r)
      /\ memStatus[r] = "pending" /\ dbStatus[r] = "pending"
      /\ memStatus'[r] \in {"rejected", "expired"} /\ dbStatus'[r] = memStatus'[r]
      /\ phase # "down"
      /\ UNCHANGED <<deleted, target, orphans, starts, ranAt, execs, active, phase>>
      /\ execs \subseteq Workers /\ active \subseteq Workers
  BY ConstantsAssumption DEF TypeOK, Reject, Expire, Wins, SetStatus, Live, OthersSame,
     workerVars, requestVars, historyVars, Goto, OthersStay
<1>3. JobsFit'
  BY <1>1 DEF JobsFit, Outcomes, FromState, Deciding
<1>4. FilersOwn'
  BY <1>1, <1>2 DEF JobsFit, FilersOwn, Filing, OthersSame
<1>5. DecidersKnow'
  BY <1>1, <1>2 DEF JobsFit, DecidersKnow, Deciding, OthersSame
<1>6. RunnersOwn'
  BY <1>1, <1>2 DEF JobsFit, RunnersOwn, RunnerPCs, FromState, OthersSame
<1>7. RowsHonest'
  BY <1>1, <1>2 DEF RowsHonest, Undecided, RunningStates, OthersSame
<1>8. MemoryFollowsStore'
  BY <1>1, <1>2 DEF MemoryFollowsStore, RunningStates, FinalStates, OthersSame
<1>9. RunningIsRun'
  BY <1>1, <1>2 DEF RunningIsRun, RunnerPCs, RunningStates, OthersSame
<1>10. RegistryExact'
  BY <1>1, <1>2 DEF JobsFit, RegistryExact, Registered, RunnerPCs, Undecided, OthersSame
<1>11. DownIsEmpty'
  BY <1>1, <1>2 DEF DownIsEmpty, OthersSame
<1> QED
  BY <1>3, <1>4, <1>5, <1>6, <1>7, <1>8, <1>9, <1>10, <1>11

(* Only a request at rest is hidden.                                       *)
LEMMA DeleteRequestKeeps ==
    ASSUME TypeOK, Ownership, NEW r \in Requests, DeleteRequest(r)
    PROVE  Ownership'
<1> USE DEF Ownership, None, Gone
<1>1. /\ UNCHANGED <<pc, job>>
  BY ConstantsAssumption DEF TypeOK, DeleteRequest, Live, OthersSame, workerVars,
     MemoryFollowsStore, RunningStates, requestVars, historyVars, Goto, OthersStay
<1>2. /\ OthersSame(r)
      /\ memStatus[r] \notin RunningStates \cup {None} /\ memStatus'[r] = None
      /\ dbStatus[r] \notin RunningStates \cup {None}
      /\ deleted' = deleted \cup {r}
      /\ phase # "down"
      /\ UNCHANGED <<dbStatus, target, orphans, starts, ranAt, execs, active, phase>>
      /\ execs \subseteq Workers /\ active \subseteq Workers
  BY ConstantsAssumption DEF TypeOK, DeleteRequest, Live, OthersSame, workerVars,
     MemoryFollowsStore, RunningStates, requestVars, historyVars, Goto, OthersStay
<1>3. JobsFit'
  BY <1>1 DEF JobsFit, Outcomes, FromState, Deciding
<1>4. FilersOwn'
  BY <1>1, <1>2 DEF JobsFit, FilersOwn, Filing, OthersSame
<1>5. DecidersKnow'
  BY <1>1, <1>2 DEF JobsFit, DecidersKnow, Deciding, OthersSame
<1>6. RunnersOwn'
  BY <1>1, <1>2 DEF JobsFit, RunnersOwn, RunnerPCs, FromState, RunningStates, OthersSame
<1>7. RowsHonest'
  BY <1>1, <1>2 DEF RowsHonest, Undecided, RunningStates, OthersSame
<1>8. MemoryFollowsStore'
  BY <1>1, <1>2 DEF MemoryFollowsStore, RunningStates, FinalStates, OthersSame
<1>9. RunningIsRun'
  BY <1>1, <1>2 DEF RunningIsRun, RunnerPCs, RunningStates, OthersSame
<1>10. RegistryExact'
  BY <1>1, <1>2 DEF JobsFit, RegistryExact, Registered, RunnerPCs, Undecided, OthersSame
<1>11. DownIsEmpty'
  BY <1>1, <1>2 DEF DownIsEmpty, OthersSame
<1> QED
  BY <1>3, <1>4, <1>5, <1>6, <1>7, <1>8, <1>9, <1>10, <1>11

(* A call that gives up or is over: it forgets its request and leaves the  *)
(* registry, and no run of it is under way.                                *)
LEMMA ReturnKeeps ==
    ASSUME TypeOK, Ownership, NEW w \in Workers, Return(w),
           pc[w] \notin RunnerPCs \cup {"queued", "recorded"},
           execs' = execs \ {w}, active' = active \ {w}, RequestsStay, phase' = phase
    PROVE  Ownership'
<1> USE DEF Ownership, None, Gone
<1>1. /\ OthersStay(w)
      /\ pc'[w] = "idle" /\ job'[w] = NoJob
  BY DEF TypeOK, Return, Goto, OthersStay
<1>2. execs \subseteq Workers /\ active \subseteq Workers
  BY DEF TypeOK
<1>3. JobsFit'
  BY <1>1 DEF JobsFit, Outcomes, FromState, Deciding, OthersStay
<1>4. FilersOwn'
  BY <1>1, ConstantsAssumption DEF JobsFit, FilersOwn, Filing, OthersStay, RequestsStay, NoJob
<1>5. DecidersKnow'
  BY <1>1 DEF JobsFit, DecidersKnow, Deciding, OthersStay, RequestsStay
<1>6. RunnersOwn'
  BY <1>1 DEF JobsFit, RunnersOwn, RunnerPCs, FromState, OthersStay, RequestsStay
<1>7. RowsHonest'
  BY DEF RowsHonest, RequestsStay
<1>8. MemoryFollowsStore'
  BY DEF MemoryFollowsStore, RequestsStay
<1>9. RunningIsRun'
  BY <1>1 DEF RunningIsRun, RunnerPCs, OthersStay, RequestsStay
<1>10. RegistryExact'
  BY <1>1, <1>2 DEF RegistryExact, Registered, RunnerPCs, OthersStay, RequestsStay
<1>11. DownIsEmpty'
  BY <1>1 DEF DownIsEmpty, OthersStay, RequestsStay
<1> QED
  BY <1>3, <1>4, <1>5, <1>6, <1>7, <1>8, <1>9, <1>10, <1>11

(* Outside the registry execs and active do not mention the call.          *)
LEMMA NotRegistered ==
    ASSUME TypeOK, Ownership, NEW w \in Workers, pc[w] \notin Registered
    PROVE  execs = execs \ {w} /\ active = active \ {w}
BY DEF TypeOK, Ownership, RegistryExact, Registered

(* Ownership survives every step of a call.                                *)
LEMMA WorkerKeeps ==
    ASSUME TypeOK, Ownership, NEW w \in Workers, WorkerStep(w)
    PROVE  Ownership'
<1> USE DEF requestVars, historyVars, RequestsStay
<1>1. CASE ApproveReserve(w)
  <2>1. CASE ExecsOpen
    BY <1>1, <2>1, ReserveApprovalKeeps
  <2>2. CASE ~ExecsOpen
    BY <1>1, <2>2, ReturnKeeps, NotRegistered DEF ApproveReserve, RunnerPCs, Registered
  <2> QED BY <2>1, <2>2
<1>2. CASE ApproveStopped(w)
  BY <1>2, StandDownKeeps
<1>3. CASE ApproveTransition(w)
  BY <1>3, ApproveTransitionKeeps
<1>4. CASE ApproveLost(w)
  BY <1>4, StandDownKeeps
<1>5. ASSUME NEW ok \in BOOLEAN, QueueInsert(w, ok) PROVE Ownership'
  <2>1. CASE ok
    <3>1. QueueInsert(w, TRUE)
      BY <1>5, <2>1 DEF QueueInsert, Stored
    <3> QED BY <3>1, QueueRowKeeps
  <2>2. CASE ~ok
    BY <1>5, <2>2, ReturnKeeps, NotRegistered DEF QueueInsert, RunnerPCs, Registered
  <2> QED BY <2>1, <2>2
<1>6. CASE QueuePublish(w)
  BY <1>6, QueuePublishKeeps
<1>7. CASE AcquireExec(w)
  <2>1. CASE phase = "up" /\ slots < MaxExec
    BY <1>7, <2>1, TakeSlotKeeps
  <2>2. CASE ~(phase = "up" /\ slots < MaxExec)
    BY <1>7, <2>2, ReturnKeeps, NotRegistered DEF AcquireExec, RunnerPCs, Registered
  <2> QED BY <2>1, <2>2
<1>8. CASE BypassReserve(w)
  <2>1. CASE ExecsOpen
    BY <1>8, <2>1, ReserveBypassKeeps
  <2>2. CASE ~ExecsOpen
    BY <1>8, <2>2, ReturnKeeps, NotRegistered DEF BypassReserve, RunnerPCs, Registered
  <2> QED BY <2>1, <2>2
<1>9. ASSUME NEW ok \in BOOLEAN, BypassInsert(w, ok) PROVE Ownership'
  <2>1. CASE ok
    <3>1. BypassInsert(w, TRUE)
      BY <1>9, <2>1 DEF BypassInsert, Stored
    <3> QED BY <3>1, BypassRowKeeps
  <2>2. CASE ~ok
    <3>1. BypassInsert(w, FALSE)
      BY <1>9, <2>2 DEF BypassInsert, Stored
    <3> QED BY <3>1, StandDownKeeps
  <2> QED BY <2>1, <2>2
<1>10. CASE BypassPublish(w)
  BY <1>10, BypassPublishKeeps
<1>11. CASE NotStarted(w)
  BY <1>11, EndRunKeeps
<1>12. CASE StartSSH(w)
  BY <1>12, StartSSHKeeps
<1>13. CASE EndSSH(w)
  BY <1>13, EndRunKeeps
<1>14. ASSUME NEW ok \in BOOLEAN, FinishRequest(w, ok) PROVE Ownership'
  BY <1>14, FinishRequestKeeps
<1>15. CASE Release(w)
  BY <1>15, ReturnKeeps DEF Release, RunnerPCs
<1> QED
  BY <1>1, <1>2, <1>3, <1>4, <1>5, <1>6, <1>7, <1>8, <1>9, <1>10, <1>11, <1>12, <1>13,
     <1>14, <1>15 DEF WorkerStep

(* Crash and exit: the calls are gone, the table is as it was.             *)
LEMMA LoseMemoryKeeps ==
    ASSUME TypeOK, Ownership, LoseMemory
    PROVE  Ownership'
<1> USE DEF Ownership, None, Gone
<1>1. /\ \A w \in Workers : pc'[w] = "idle" /\ job'[w] = NoJob
      /\ \A r \in Requests : memStatus'[r] = None
      /\ execs' = {} /\ active' = {} /\ phase' = "down"
      /\ UNCHANGED <<dbStatus, deleted, target, starts, ranAt>>
  BY DEF LoseMemory, historyVars
<1>2. JobsFit' /\ FilersOwn' /\ DecidersKnow' /\ RunnersOwn'
  BY <1>1 DEF JobsFit, FilersOwn, DecidersKnow, RunnersOwn, Filing, Deciding, RunnerPCs
<1>3. RowsHonest'
  BY <1>1 DEF RowsHonest
<1>4. MemoryFollowsStore' /\ RunningIsRun'
  BY <1>1 DEF MemoryFollowsStore, RunningIsRun, RunningStates
<1>5. RegistryExact' /\ DownIsEmpty'
  BY <1>1 DEF RegistryExact, DownIsEmpty, Registered, RunnerPCs
<1> QED
  BY <1>2, <1>3, <1>4, <1>5

(* The next start: rows that were running are interrupted (or become       *)
(* orphans), pending ones past their deadline expire, and the list in      *)
(* memory is read from the table.                                          *)
LEMMA NewAppKeeps ==
    ASSUME TypeOK, Ownership, NEW recover \in BOOLEAN, NEW expired \in SUBSET Requests,
           NewApp(recover, expired)
    PROVE  Ownership'
<1> USE DEF Ownership, None, Gone
<1>1. /\ \A w \in Workers : pc'[w] = "idle" /\ job'[w] = job[w]
      /\ \A w \in Workers : pc[w] = "idle"
      /\ active' = {} /\ execs' = execs /\ phase' = "up"
      /\ UNCHANGED <<deleted, target, starts, ranAt>>
  BY DEF NewApp, DownIsEmpty, workerVars, historyVars
<1>2. \A r \in Requests :
          /\ memStatus'[r] = IF r \in deleted THEN None ELSE dbStatus'[r]
          /\ \/ /\ dbStatus'[r] = dbStatus[r]
                /\ dbStatus[r] \in RunningStates => r \in orphans' \/ r \in deleted
             \/ dbStatus[r] \in RunningStates /\ dbStatus'[r] = "interrupted"
             \/ dbStatus[r] = "pending" /\ r \notin deleted /\ dbStatus'[r] = "expired"
  BY DEF NewApp, Recovered, Lapsed
<1>3. JobsFit'
  BY <1>1 DEF JobsFit, Deciding
<1>4. FilersOwn' /\ DecidersKnow' /\ RunnersOwn'
  BY <1>1 DEF FilersOwn, DecidersKnow, RunnersOwn, Filing, Deciding, RunnerPCs
<1>5. RowsHonest'
  BY <1>1, <1>2 DEF RowsHonest, Undecided, RunningStates
<1>6. MemoryFollowsStore'
  BY <1>1, <1>2 DEF MemoryFollowsStore
<1>7. RunningIsRun'
  BY <1>1, <1>2 DEF RunningIsRun, RunningStates
<1>8. RegistryExact' /\ DownIsEmpty'
  BY <1>1 DEF RegistryExact, DownIsEmpty, Registered, RunnerPCs
<1> QED
  BY <1>3, <1>4, <1>5, <1>6, <1>7, <1>8

(* Steps of connections, deadlines, waiting agents and the shutdown touch  *)
(* nothing that Ownership speaks of but the phase.                         *)
LEMMA QuietKeeps ==
    ASSUME TypeOK, Ownership, RequestsStay, UNCHANGED <<pc, job, execs, active>>,
           \/ phase' = phase
           \/ phase' \notin {"drained", "down"}
           \/ phase' = "drained" /\ execs = {}
    PROVE  Ownership'
<1> USE DEF Ownership, RequestsStay
<1>1. JobsFit' /\ FilersOwn' /\ DecidersKnow' /\ RunnersOwn'
  BY DEF JobsFit, FilersOwn, DecidersKnow, RunnersOwn, FromState
<1>2. RowsHonest' /\ MemoryFollowsStore' /\ RunningIsRun'
  BY DEF RowsHonest, MemoryFollowsStore, RunningIsRun
<1>3. RegistryExact' /\ DownIsEmpty'
  BY DEF RegistryExact, DownIsEmpty
<1> QED
  BY <1>1, <1>2, <1>3

(* Ownership is inductive.                                                 *)
LEMMA OwnershipStep ==
    ASSUME TypeOK, Ownership, [Next]_vars
    PROVE  Ownership'
<1> USE DEF requestVars, connVars, workerVars, historyVars, StopOthers, RequestsStay
<1>1. ASSUME NEW w \in Workers, NEW r \in Requests, Approve(w, r) PROVE Ownership'
  BY <1>1, ApproveKeeps
<1>2. ASSUME NEW w \in Workers, NEW r \in Requests, NEW c \in Conns, NEW bypass \in BOOLEAN,
             ExecuteCommand(w, r, c, bypass)
      PROVE  Ownership'
  BY <1>2, ExecuteCommandKeeps
<1>3. ASSUME NEW w \in Workers, WorkerStep(w) PROVE Ownership'
  BY <1>3, WorkerKeeps
<1>4. ASSUME NEW w \in Workers, ClientGone(w) \/ Detach(w) PROVE Ownership'
  BY <1>4, QuietKeeps DEF ClientGone, Detach
<1>5. ASSUME NEW r \in Requests, Reject(r) \/ Expire(r) \/ DeleteRequest(r) PROVE Ownership'
  BY <1>5, RefuseKeeps, DeleteRequestKeeps
<1>6. ASSUME NEW r \in Requests, PassDeadline(r) PROVE Ownership'
  BY <1>6, QuietKeeps DEF PassDeadline
<1>7. ASSUME NEW c \in Conns, NEW t \in Targets \cup {Serial}, SaveConnection(c, t) PROVE Ownership'
  BY <1>7, QuietKeeps DEF SaveConnection
<1>8. ASSUME NEW c \in Conns,
             \/ DisconnectConnection(c) \/ DeleteConnectionRow(c)
             \/ DeleteConnectionCancel(c) \/ DeleteConnectionForget(c)
      PROVE  Ownership'
  BY <1>8, QuietKeeps
     DEF DisconnectConnection, DeleteConnectionRow, DeleteConnectionCancel, DeleteConnectionForget
<1>9. CASE CloseRuntime \/ CloseExecs \/ StopListener \/ CloseStore
  BY <1>9, QuietKeeps DEF CloseRuntime, CloseExecs, StopListener, CloseStore
<1>10. CASE DrainDone \/ DrainCancel \/ DrainGiveUp \/ AppCancel
  BY <1>10, QuietKeeps DEF DrainDone, DrainCancel, DrainGiveUp, AppCancel
<1>11. CASE Exit \/ Crash
  BY <1>11, LoseMemoryKeeps DEF Exit, Crash
<1>12. ASSUME NEW recover \in BOOLEAN, NEW expired \in SUBSET Requests, NewApp(recover, expired)
       PROVE  Ownership'
  BY <1>12, NewAppKeeps
<1>13. CASE UNCHANGED vars
  BY <1>13, QuietKeeps DEF vars
<1> QED
  BY <1>1, <1>2, <1>3, <1>4, <1>5, <1>6, <1>7, <1>8, <1>9, <1>10, <1>11, <1>12, <1>13
     DEF Next, ShutdownStep

-----------------------------------------------------------------------------
(* The MCP execution slots.                                                *)
(* Cardinalities of SlotHolders make sense.                                *)
LEMMA HoldersFinite == IsFiniteSet(SlotHolders) /\ SlotHolders \subseteq Workers
BY FS_Subset, ConstantsAssumption DEF SlotHolders

(* A balanced count is a natural number.                                   *)
LEMMA SlotsNat == SlotsBalanced => slots \in Nat
BY FS_CardinalityType, HoldersFinite DEF SlotsBalanced

(* A worker step leaves the other calls, so SlotHolders changes at w only. *)
LEMMA SlotsOfWorker ==
    ASSUME TypeOK, Ownership, SlotsBalanced, NEW w \in Workers, WorkerStep(w)
    PROVE  SlotsBalanced'
<1> DEFINE holds == job[w].auto /\ pc[w] \notin {"idle", "bypassing"}
           holdsNext == job'[w].auto /\ pc'[w] \notin {"idle", "bypassing"}
<1> USE DEF Ownership, Goto, Return, NoJob, EndWith
<1>1. OthersStay(w)
  BY DEF TypeOK, OthersStay, WorkerStep, ApproveReserve, ApproveStopped, ApproveTransition,
         ApproveLost, QueueInsert, QueuePublish, AcquireExec, BypassReserve, BypassInsert,
         BypassPublish, NotStarted, StartSSH, EndSSH, FinishRequest, Release
<1>2. SlotHolders' = IF holdsNext THEN SlotHolders \cup {w} ELSE SlotHolders \ {w}
  BY <1>1 DEF SlotHolders, OthersStay
<1>3. w \in SlotHolders <=> holds
  BY DEF SlotHolders
<1>4. slots \in Nat /\ MaxExec \in Nat
  BY SlotsNat, ConstantsAssumption
<1>5. CASE AcquireExec(w) /\ phase = "up" /\ slots < MaxExec
  <2>1. slots' = slots + 1 /\ ~holds /\ holdsNext
    BY <1>5 DEF TypeOK, AcquireExec, JobsFit
  <2>2. Cardinality(SlotHolders') = Cardinality(SlotHolders) + 1
    BY <1>2, <1>3, <2>1, HoldersFinite, FS_AddElement
  <2> QED BY <1>4, <1>5, <2>1, <2>2 DEF SlotsBalanced
<1>6. CASE (BypassReserve(w) /\ ~ExecsOpen) \/ (Release(w) /\ job[w].auto)
  <2>1. slots' = slots - 1 /\ holds /\ ~holdsNext
    BY <1>6 DEF TypeOK, BypassReserve, Release, JobsFit
  <2>2. Cardinality(SlotHolders') = Cardinality(SlotHolders) - 1
    BY <1>2, <1>3, <2>1, HoldersFinite, FS_RemoveElement
  <2> QED BY <1>4, <2>1, <2>2 DEF SlotsBalanced
<1>7. ASSUME slots' = slots, holds <=> holdsNext PROVE SlotsBalanced'
  <2>1. SlotHolders' = SlotHolders
    BY <1>2, <1>3, <1>7
  <2> QED BY <1>7, <2>1 DEF SlotsBalanced
<1>8. CASE AcquireExec(w) /\ ~(phase = "up" /\ slots < MaxExec)
  BY <1>7, <1>8 DEF TypeOK, AcquireExec
<1>9. CASE (BypassReserve(w) /\ ExecsOpen) \/ (Release(w) /\ ~job[w].auto)
  BY <1>7, <1>9 DEF TypeOK, BypassReserve, Release
<1>10. CASE ApproveReserve(w) \/ ApproveStopped(w) \/ ApproveLost(w) \/ ApproveTransition(w)
  BY <1>7, <1>10 DEF TypeOK, JobsFit, Deciding, ApproveReserve, ApproveStopped, ApproveLost, ApproveTransition
<1>11. ASSUME NEW ok \in BOOLEAN, QueueInsert(w, ok) \/ QueuePublish(w) PROVE SlotsBalanced'
  BY <1>7, <1>11 DEF TypeOK, JobsFit, QueueInsert, QueuePublish
<1>12. ASSUME NEW ok \in BOOLEAN, BypassInsert(w, ok) \/ BypassPublish(w) PROVE SlotsBalanced'
  BY <1>7, <1>12 DEF TypeOK, BypassInsert, BypassPublish
<1>13. CASE NotStarted(w) \/ StartSSH(w) \/ EndSSH(w)
  BY <1>7, <1>13 DEF TypeOK, Jobs, NotStarted, StartSSH, EndSSH
<1>14. ASSUME NEW ok \in BOOLEAN, FinishRequest(w, ok) PROVE SlotsBalanced'
  BY <1>7, <1>14 DEF TypeOK, FinishRequest
<1> QED
  BY <1>5, <1>6, <1>8, <1>9, <1>10, <1>11, <1>12, <1>13, <1>14 DEF WorkerStep

(* The slots stay balanced: only the steps of bypassed calls, a crash and  *)
(* an exit touch them.                                                     *)
LEMMA SlotsStep ==
    ASSUME TypeOK, Ownership, SlotsBalanced, [Next]_vars
    PROVE  SlotsBalanced'
<1> USE DEF requestVars, connVars, workerVars, historyVars, StopOthers
<1>1. ASSUME NEW w \in Workers, WorkerStep(w) PROVE SlotsBalanced'
  BY <1>1, SlotsOfWorker
<1>2. ASSUME SlotHolders' = SlotHolders, slots' = slots PROVE SlotsBalanced'
  BY <1>2 DEF SlotsBalanced
<1>3. ASSUME NEW w \in Workers, NEW r \in Requests, Approve(w, r) PROVE SlotsBalanced'
  BY <1>2, <1>3 DEF TypeOK, Ownership, JobsFit, NoJob, Approve, Goto, SlotHolders
<1>4. ASSUME NEW w \in Workers, NEW r \in Requests, NEW c \in Conns, NEW bypass \in BOOLEAN,
             ExecuteCommand(w, r, c, bypass)
      PROVE  SlotsBalanced'
  BY <1>2, <1>4 DEF TypeOK, Ownership, JobsFit, NoJob, ExecuteCommand, Goto, SlotHolders
<1>5. ASSUME UNCHANGED <<pc, job, slots>> PROVE SlotsBalanced'
  BY <1>2, <1>5 DEF SlotHolders
<1>6. ASSUME LoseMemory PROVE SlotsBalanced'
  <2>1. SlotHolders' = {} /\ slots' = 0
    BY <1>6 DEF LoseMemory, SlotHolders
  <2> QED BY <2>1, FS_EmptySet, ConstantsAssumption DEF SlotsBalanced
<1>7. ASSUME NEW w \in Workers, ClientGone(w) \/ Detach(w) PROVE SlotsBalanced'
  BY <1>5, <1>7 DEF ClientGone, Detach
<1>8. ASSUME NEW r \in Requests, Reject(r) \/ PassDeadline(r) \/ Expire(r) \/ DeleteRequest(r)
      PROVE  SlotsBalanced'
  BY <1>5, <1>8 DEF Reject, PassDeadline, Expire, DeleteRequest
<1>9. ASSUME NEW c \in Conns, NEW t \in Targets \cup {Serial}, SaveConnection(c, t) PROVE SlotsBalanced'
  BY <1>5, <1>9 DEF SaveConnection
<1>10. ASSUME NEW c \in Conns,
              \/ DisconnectConnection(c) \/ DeleteConnectionRow(c)
              \/ DeleteConnectionCancel(c) \/ DeleteConnectionForget(c)
       PROVE  SlotsBalanced'
  BY <1>5, <1>10
     DEF DisconnectConnection, DeleteConnectionRow, DeleteConnectionCancel, DeleteConnectionForget
<1>11. CASE CloseRuntime \/ CloseExecs \/ StopListener \/ CloseStore
  BY <1>5, <1>11 DEF CloseRuntime, CloseExecs, StopListener, CloseStore
<1>12. CASE DrainDone \/ DrainCancel \/ DrainGiveUp \/ AppCancel
  BY <1>5, <1>12 DEF DrainDone, DrainCancel, DrainGiveUp, AppCancel
<1>13. CASE Exit \/ Crash
  BY <1>6, <1>13 DEF Exit, Crash
<1>14. ASSUME NEW recover \in BOOLEAN, NEW expired \in SUBSET Requests, NewApp(recover, expired)
       PROVE  SlotsBalanced'
  BY <1>5, <1>14 DEF NewApp
<1>15. CASE UNCHANGED vars
  BY <1>5, <1>15 DEF vars
<1> QED
  BY <1>1, <1>3, <1>4, <1>7, <1>8, <1>9, <1>10, <1>11, <1>12, <1>13, <1>14, <1>15
     DEF Next, ShutdownStep

-----------------------------------------------------------------------------
(* Types.                                                                  *)
StatusType == [Requests -> Statuses \cup {None}]

(* finalizeRequest writes statuses only.                                   *)
LEMMA FinalizeType ==
    ASSUME NEW r, NEW from, NEW to \in Statuses \cup {None}, NEW ok,
           memStatus \in StatusType, dbStatus \in StatusType, finalizeRequest(r, from, to, ok)
    PROVE  memStatus' \in StatusType /\ dbStatus' \in StatusType
BY DEF finalizeRequest, StatusType

(* A call that returns has no local variables left.                        *)
LEMMA ReturnType ==
    ASSUME pc \in [Workers -> PCs], job \in [Workers -> Jobs], NEW w \in Workers, Return(w)
    PROVE  pc' \in [Workers -> PCs] /\ job' \in [Workers -> Jobs]
<1>1. NoJob \in Jobs
  BY DEF NoJob, Jobs
<1> QED
  BY <1>1 DEF Return, Goto, PCs

(* Recording an outcome keeps the shape of the local variables.            *)
LEMMA OutcomeType ==
    ASSUME job \in [Workers -> Jobs], NEW w \in Workers, NEW out \in FinalStates,
           job' = [job EXCEPT ![w].outcome = out]
    PROVE  job' \in [Workers -> Jobs]
<1>1. [job[w] EXCEPT !.outcome = out] \in Jobs
  <2>1. job[w] \in Jobs
    OBVIOUS
  <2> QED
    BY <2>1 DEF Jobs
<1> QED
  BY <1>1

(* An insert writes a status and the target of the call.                   *)
LEMMA InsertType ==
    ASSUME dbStatus \in StatusType, NEW status \in Statuses, NEW w \in Workers, Insert(w, status),
           target \in [Requests -> [conn : Conns \cup {None}, fp : Targets \cup {Gone}]],
           job \in [Workers -> Jobs]
    PROVE  /\ dbStatus' \in StatusType
           /\ target' \in [Requests -> [conn : Conns \cup {None}, fp : Targets \cup {Gone}]]
BY DEF Insert, StatusType, Jobs

(* Every step of a call keeps the types, given that slots is a natural     *)
(* number afterwards.                                                      *)
LEMMA TypesOfWorker ==
    ASSUME TypeOK, slots' \in Nat, NEW w \in Workers, WorkerStep(w)
    PROVE  TypeOK'
<1> USE DEF TypeOK, requestVars, connVars, historyVars, StatusType
<1>1. CASE ApproveReserve(w)
  BY <1>1, ReturnType DEF ApproveReserve, Goto, PCs
<1>2. CASE ApproveStopped(w)
  BY <1>2 DEF ApproveStopped, Goto, PCs
<1>3. CASE ApproveTransition(w)
  BY <1>3 DEF ApproveTransition, SetStatus, Stored, Goto, PCs, Statuses, RunningStates
<1>4. CASE ApproveLost(w)
  BY <1>4 DEF ApproveLost, Stored, Goto, PCs
<1>5. ASSUME NEW ok \in BOOLEAN, QueueInsert(w, ok) PROVE TypeOK'
  <2>1. faults' \in Nat /\ "pending" \in Statuses
    BY <1>5, ConstantsAssumption DEF QueueInsert, Stored, Statuses
  <2>2. CASE ok
    <3>1. Insert(w, "pending")
      BY <1>5, <2>2 DEF QueueInsert
    <3> QED
      BY <1>5, <2>1, <2>2, <3>1, InsertType DEF QueueInsert, Goto, PCs
  <2>3. CASE ~ok
    BY <1>5, <2>1, <2>3, ReturnType DEF QueueInsert
  <2> QED BY <2>2, <2>3
<1>6. CASE QueuePublish(w)
  BY <1>6, ReturnType DEF QueuePublish, Statuses
<1>7. CASE AcquireExec(w)
  BY <1>7, ReturnType DEF AcquireExec, Goto, PCs
<1>8. CASE BypassReserve(w)
  BY <1>8, ReturnType DEF BypassReserve, Goto, PCs
<1>9. ASSUME NEW ok \in BOOLEAN, BypassInsert(w, ok) PROVE TypeOK'
  <2>1. faults' \in Nat /\ "auto_running" \in Statuses
    BY <1>9, ConstantsAssumption DEF BypassInsert, Stored, Statuses, RunningStates
  <2>2. CASE ok
    <3>1. Insert(w, "auto_running")
      BY <1>9, <2>2 DEF BypassInsert
    <3> QED
      BY <1>9, <2>1, <2>2, <3>1, InsertType DEF BypassInsert, Goto, PCs
  <2>3. CASE ~ok
    BY <1>9, <2>1, <2>3 DEF BypassInsert, Goto, PCs
  <2> QED BY <2>2, <2>3
<1>10. CASE BypassPublish(w)
  BY <1>10 DEF BypassPublish, Goto, PCs, Statuses, RunningStates
<1>11. CASE NotStarted(w) \/ EndSSH(w)
  <2>1. PICK out \in FinalStates : EndWith(w, out)
    BY <1>11 DEF NotStarted, EndSSH, StopOutcome, Failed, Succeeded, FinalStates
  <2>2. job' \in [Workers -> Jobs]
    BY <2>1, OutcomeType DEF EndWith
  <2> QED
    BY <1>11, <2>1, <2>2 DEF NotStarted, EndSSH, EndWith, Goto, PCs
<1>12. CASE StartSSH(w)
  <2>1. job[w].fp \in Targets
    BY <1>12 DEF StartSSH, Jobs
  <2>2. ranAt' \in [Requests -> SUBSET Targets]
    BY <1>12, <2>1 DEF StartSSH
  <2>3. starts' \in [Requests -> Nat]
    <3>1. \A r \in Requests : starts[r] + 1 \in Nat
      OBVIOUS
    <3> QED
      BY <1>12, <3>1 DEF StartSSH
  <2> QED
    BY <1>12, <2>2, <2>3 DEF StartSSH, Goto, PCs
<1>13. ASSUME NEW ok \in BOOLEAN, FinishRequest(w, ok) PROVE TypeOK'
  <2>1. memStatus' \in StatusType /\ dbStatus' \in StatusType
    BY <1>13, FinalizeType DEF FinishRequest, Jobs, Statuses
  <2> QED
    BY <1>13, <2>1, ConstantsAssumption DEF FinishRequest, Goto, PCs, Stored
<1>14. CASE Release(w)
  BY <1>14, ReturnType DEF Release, Causes
<1> QED
  BY <1>1, <1>2, <1>3, <1>4, <1>5, <1>6, <1>7, <1>8, <1>9, <1>10, <1>11, <1>12, <1>13, <1>14
     DEF WorkerStep

(* Every step keeps the types, given that slots is a natural number        *)
(* afterwards.                                                             *)
LEMMA TypeStep ==
    ASSUME TypeOK, slots' \in Nat, [Next]_vars
    PROVE  TypeOK'
<1> USE DEF TypeOK, requestVars, connVars, workerVars, historyVars, StopOthers
<1>1. ASSUME NEW w \in Workers, NEW r \in Requests, Approve(w, r) PROVE TypeOK'
  BY <1>1 DEF Approve, Goto, PCs, Jobs, None, Gone
<1>2. ASSUME NEW w \in Workers, NEW r \in Requests, NEW c \in Conns, NEW bypass \in BOOLEAN,
             ExecuteCommand(w, r, c, bypass)
      PROVE  TypeOK'
  BY <1>2 DEF ExecuteCommand, Goto, PCs, Jobs, None, Gone
<1>3. ASSUME NEW w \in Workers, WorkerStep(w) PROVE TypeOK'
  BY <1>3, TypesOfWorker
<1>4. ASSUME NEW S, NEW why \in Causes, cancelExecs(S, why) PROVE cause' \in [Workers -> Causes]
  BY <1>4 DEF cancelExecs
<1>5. ASSUME NEW w \in Workers, ClientGone(w) \/ Detach(w) PROVE TypeOK'
  BY <1>4, <1>5 DEF ClientGone, Detach, Causes
<1>6. ASSUME NEW r \in Requests, Reject(r) \/ PassDeadline(r) \/ Expire(r) \/ DeleteRequest(r)
      PROVE  TypeOK'
  <2>1. {"rejected", "expired"} \subseteq Statuses
    BY DEF Statuses, FinalStates
  <2>2. CASE Reject(r) \/ Expire(r)
    BY <2>1, <2>2 DEF Reject, Expire, SetStatus
  <2>3. CASE PassDeadline(r)
    BY <2>3 DEF PassDeadline
  <2>4. CASE DeleteRequest(r)
    BY <2>4 DEF DeleteRequest
  <2> QED BY <1>6, <2>2, <2>3, <2>4
<1>7. ASSUME NEW c \in Conns, NEW t \in Targets \cup {Serial}, SaveConnection(c, t) PROVE TypeOK'
  BY <1>7 DEF SaveConnection
<1>8. ASSUME NEW c \in Conns,
             \/ DisconnectConnection(c) \/ DeleteConnectionRow(c)
             \/ DeleteConnectionCancel(c) \/ DeleteConnectionForget(c)
      PROVE  TypeOK'
  <2>1. CASE DisconnectConnection(c) \/ DeleteConnectionCancel(c)
    BY <1>4, <2>1 DEF DisconnectConnection, DeleteConnectionCancel, Causes
  <2>2. CASE DeleteConnectionRow(c) \/ DeleteConnectionForget(c)
    BY <2>2 DEF DeleteConnectionRow, DeleteConnectionForget
  <2> QED BY <1>8, <2>1, <2>2
<1>9. CASE CloseRuntime \/ CloseExecs \/ StopListener \/ CloseStore
  BY <1>9 DEF CloseRuntime, CloseExecs, StopListener, CloseStore, Phases
<1>10. CASE DrainDone \/ DrainCancel \/ DrainGiveUp \/ AppCancel
  BY <1>4, <1>10 DEF DrainDone, DrainCancel, DrainGiveUp, AppCancel, Phases, Causes
<1>11. CASE Exit \/ Crash
  <2>1. NoJob \in Jobs
    BY DEF NoJob, Jobs
  <2> QED
    BY <1>11, <2>1, ConstantsAssumption DEF Exit, Crash, LoseMemory, Phases, PCs, Causes
<1>12. ASSUME NEW recover \in BOOLEAN, NEW expired \in SUBSET Requests, NewApp(recover, expired)
       PROVE  TypeOK'
  <2>1. \A r \in Requests : Recovered(recover, expired, r) \in Statuses \cup {None}
    BY DEF Recovered, Statuses, FinalStates
  <2>2. memStatus' \in StatusType /\ dbStatus' \in StatusType
    BY <1>12, <2>1 DEF NewApp, StatusType
  <2> QED
    BY <1>12, <2>2, ConstantsAssumption DEF NewApp, StatusType, Phases
<1>13. CASE UNCHANGED vars
  BY <1>13 DEF vars
<1> QED
  BY <1>1, <1>2, <1>3, <1>5, <1>6, <1>7, <1>8, <1>9, <1>10, <1>11, <1>12, <1>13
     DEF Next, ShutdownStep

-----------------------------------------------------------------------------
(* The invariant, and what follows from it.                                *)

(* The invariant holds at the first start.                                 *)
LEMMA InvInit == Init => OwnershipInv
<1> SUFFICES ASSUME Init PROVE OwnershipInv
  OBVIOUS
<1> USE ConstantsAssumption DEF Init, None, Gone
<1>1. TypeOK
  BY DEF TypeOK, Statuses, PCs, Phases, Causes, Jobs, NoJob, Serial
<1>2. Ownership
  BY DEF Ownership, JobsFit, FilersOwn, DecidersKnow, RunnersOwn, RowsHonest, MemoryFollowsStore,
         RunningIsRun, RegistryExact, DownIsEmpty, Filing, Deciding, RunnerPCs, Registered,
         RunningStates
<1>3. SlotHolders = {}
  BY DEF SlotHolders
<1>4. SlotsBalanced
  BY <1>3, FS_EmptySet DEF SlotsBalanced
<1> QED
  BY <1>1, <1>2, <1>4 DEF OwnershipInv

(* Every step of the system preserves the invariant.                       *)
LEMMA InvStep == OwnershipInv /\ [Next]_vars => OwnershipInv'
<1> SUFFICES ASSUME OwnershipInv, [Next]_vars PROVE OwnershipInv'
  OBVIOUS
<1> USE DEF OwnershipInv
<1>1. Ownership'
  BY OwnershipStep
<1>2. SlotsBalanced'
  BY SlotsStep
<1>3. IsFiniteSet(SlotHolders')
  BY FS_Subset, ConstantsAssumption DEF SlotHolders
<1>4. slots' \in Nat
  BY <1>2, <1>3, FS_CardinalityType DEF SlotsBalanced
<1>5. TypeOK'
  BY <1>4, TypeStep
<1> QED
  BY <1>1, <1>2, <1>5

(* OwnershipInv holds in every reachable state, for any number of          *)
(* requests, calls, connections, storage failures and crashes.             *)
THEOREM OwnershipHolds == Spec => []OwnershipInv
BY InvInit, InvStep, PTL DEF Spec

(* Type correctness: in particular the count of MCP execution slots never  *)
(* becomes negative.                                                       *)
THEOREM TypeCorrect == Spec => []TypeOK
<1>1. OwnershipInv => TypeOK
  BY DEF OwnershipInv
<1> QED
  BY <1>1, OwnershipHolds, PTL

(* The command of a request is started at most once (transitionRequest,    *)
(* recoverInterruptedRequests).                                            *)
THEOREM AtMostOnce == Spec => []StartedAtMostOnce
<1>1. OwnershipInv => StartedAtMostOnce
  BY DEF OwnershipInv, Ownership, RowsHonest, StartedAtMostOnce
<1> QED
  BY <1>1, OwnershipHolds, PTL

(* A started command has a durable row that says it was decided to run.    *)
THEOREM StartsAreAudited == Spec => []AuditedStart
<1>1. OwnershipInv => AuditedStart
  BY DEF OwnershipInv, Ownership, RowsHonest, AuditedStart, Undecided
<1> QED
  BY <1>1, OwnershipHolds, PTL

(* A command runs only on the target recorded with its request (the copy   *)
(* that approve takes, and its target_changed check).                      *)
THEOREM RunsWhereRequested == Spec => []RanWhereRequested
<1>1. OwnershipInv => RanWhereRequested
  BY DEF OwnershipInv, Ownership, RowsHonest, RanWhereRequested
<1> QED
  BY <1>1, OwnershipHolds, PTL

(* DeleteCommandRequest never hides a request that runs or is about to.    *)
THEOREM HiddenRowsRest == Spec => []HiddenNeverRuns
<1>1. OwnershipInv => HiddenNeverRuns
  <2> SUFFICES ASSUME Ownership, TypeOK, NEW r \in deleted PROVE
                 /\ dbStatus[r] \notin RunningStates
                 /\ memStatus[r] = None
                 /\ \A w \in Workers : job[w].req = r => pc[w] \notin {"decided", "ssh", "ended"}
    BY DEF OwnershipInv, HiddenNeverRuns
  <2>1. r \in Requests
    BY DEF TypeOK
  <2> QED
    BY <2>1 DEF Ownership, RowsHonest, RunnersOwn, RunnerPCs, FromState, None
<1> QED
  BY <1>1, OwnershipHolds, PTL

(* The list in memory never contradicts the table, but for an outcome      *)
(* that SQLite refused.                                                    *)
THEOREM ListFollowsTable == Spec => []MemoryFollowsStore
<1>1. OwnershipInv => MemoryFollowsStore
  BY DEF OwnershipInv, Ownership
<1> QED
  BY <1>1, OwnershipHolds, PTL

(* When drainMCPCommands reports the commands done, none is running.       *)
THEOREM DrainIsComplete == Spec => []DrainedMeansSettled
<1>1. OwnershipInv => DrainedMeansSettled
  <2> SUFFICES ASSUME Ownership, phase = "drained"
               PROVE  /\ \A w \in Workers : pc[w] \notin Registered
                      /\ \A r \in Requests : memStatus[r] \in RunningStates => r \in orphans
    BY DEF OwnershipInv, DrainedMeansSettled, Registered, RunnerPCs
  <2>1. \A w \in Workers : pc[w] \notin Registered
    BY DEF Ownership, RegistryExact
  <2> QED
    BY <2>1 DEF Ownership, RunningIsRun, Registered
<1> QED
  BY <1>1, OwnershipHolds, PTL

(* MCP execution slots are neither lost nor given back twice.              *)
THEOREM SlotsNeverLeak == Spec => []SlotsBalanced
<1>1. OwnershipInv => SlotsBalanced
  BY DEF OwnershipInv
<1> QED
  BY <1>1, OwnershipHolds, PTL

(* Only decided requests are counted as running commands.                  *)
THEOREM CountedAreDecided == Spec => []CountsOnlyDecided
<1>1. OwnershipInv => CountsOnlyDecided
  BY DEF OwnershipInv, TypeOK, Ownership, RegistryExact, Registered, RunnerPCs, Undecided,
         CountsOnlyDecided
<1> QED
  BY <1>1, OwnershipHolds, PTL

(* Whatever approve, runBypassedCommand, edits, deletions, crashes and     *)
(* restarts do, a command that starts was decided, once, for that host.    *)
THEOREM StartsAreSound == Spec => []SoundStart
BY AtMostOnce, StartsAreAudited, RunsWhereRequested, HiddenRowsRest, PTL DEF SoundStart

(* The execution registry, its slots and its counts can be relied on by    *)
(* drainMCPCommands and runningCounts.                                     *)
THEOREM RegistryIsHonest == Spec => []HonestRegistry
BY DrainIsComplete, SlotsNeverLeak, CountedAreDecided, PTL DEF HonestRegistry

(* The system implements the audit ledger.                                 *)
LEMMA LedgerStart == Init => Ledger!LedgerInit
BY DEF Init, Ledger!LedgerInit, None

(* A change of one row that the ledger allows is a step of the ledger.     *)
LEMMA LedgerOfWorker ==
    ASSUME OwnershipInv, NEW w \in Workers, WorkerStep(w)
    PROVE  [Ledger!LedgerNext]_(Ledger!ledgerVars)
<1> DEFINE q == job[w].req
<1> USE DEF OwnershipInv, Ownership, requestVars, historyVars
<1>1. ASSUME UNCHANGED <<dbStatus, deleted, starts>> PROVE UNCHANGED Ledger!ledgerVars
  BY <1>1 DEF Ledger!ledgerVars
<1>2. CASE \/ ApproveReserve(w) \/ ApproveStopped(w) \/ ApproveLost(w)
           \/ QueuePublish(w) \/ AcquireExec(w) \/ BypassReserve(w)
  BY <1>1, <1>2 DEF ApproveReserve, ApproveStopped, ApproveLost, QueuePublish, AcquireExec, BypassReserve
<1>3. CASE BypassPublish(w) \/ NotStarted(w) \/ EndSSH(w) \/ Release(w)
  BY <1>1, <1>3 DEF BypassPublish, NotStarted, EndSSH, Release
<1>4. CASE ApproveTransition(w)
  <2>1. q \in Requests
    BY <1>4 DEF ApproveTransition, JobsFit
  <2>2. q \notin deleted
    BY <1>4, <2>1 DEF ApproveTransition, Wins, MemoryFollowsStore, None
  <2>3. Ledger!Decide(q)
    BY <1>4, <2>2 DEF ApproveTransition, Wins, SetStatus, Ledger!Decide
  <2> QED
    BY <2>1, <2>3 DEF Ledger!LedgerNext
<1>5. ASSUME NEW ok \in BOOLEAN, QueueInsert(w, ok) \/ BypassInsert(w, ok)
      PROVE  [Ledger!LedgerNext]_(Ledger!ledgerVars)
  <2>1. q \in Requests /\ dbStatus[q] = "none"
    BY <1>5 DEF QueueInsert, BypassInsert, JobsFit, FilersOwn, Filing, None
  <2>2. CASE ok
    <3>1. Ledger!File(q)
      BY <1>5, <2>1, <2>2 DEF QueueInsert, BypassInsert, Insert, Ledger!File
    <3> QED
      BY <2>1, <3>1 DEF Ledger!LedgerNext
  <2>3. CASE ~ok
    BY <1>1, <1>5, <2>3 DEF QueueInsert, BypassInsert
  <2> QED BY <2>2, <2>3
<1>6. CASE StartSSH(w)
  <2>1. q \in Requests /\ starts[q] = 0 /\ dbStatus[q] \in {"running", "auto_running"}
    BY <1>6 DEF StartSSH, JobsFit, RunnersOwn, RunnerPCs, FromState
  <2>2. starts' = [starts EXCEPT ![q] = 1]
    BY <1>6, <2>1 DEF StartSSH, TypeOK
  <2>3. Ledger!RunOnce(q)
    BY <1>6, <2>1, <2>2 DEF StartSSH, Ledger!RunOnce, Ledger!Open
  <2> QED
    BY <2>1, <2>3 DEF Ledger!LedgerNext
<1>7. ASSUME NEW ok \in BOOLEAN, FinishRequest(w, ok)
      PROVE  [Ledger!LedgerNext]_(Ledger!ledgerVars)
  <2>1. /\ q \in Requests
        /\ memStatus[q] = FromState(w) /\ dbStatus[q] = FromState(w)
        /\ job[w].outcome \in Outcomes(FromState(w))
    BY <1>7 DEF FinishRequest, JobsFit, RunnersOwn, RunnerPCs
  <2>2. CASE ok
    <3>1. dbStatus' = [dbStatus EXCEPT ![q] = job[w].outcome]
      BY <1>7, <2>1, <2>2 DEF FinishRequest, finalizeRequest, TypeOK
    <3>2. job[w].outcome \in Ledger!Closings(dbStatus[q])
      BY <2>1 DEF Outcomes, FromState, Ledger!Closings
    <3>3. Ledger!Close(q)
      BY <1>7, <3>1, <3>2 DEF FinishRequest, Ledger!Close
    <3> QED
      BY <2>1, <3>3 DEF Ledger!LedgerNext
  <2>3. CASE ~ok
    <3>1. dbStatus' = dbStatus
      BY <1>7, <2>1, <2>3 DEF FinishRequest, finalizeRequest, TypeOK
    <3> QED
      BY <1>1, <1>7, <3>1 DEF FinishRequest
  <2> QED BY <2>2, <2>3
<1> QED
  BY <1>2, <1>3, <1>4, <1>5, <1>6, <1>7 DEF WorkerStep

(* Every step of the system is a step of the ledger or leaves it alone.    *)
LEMMA LedgerStep ==
    ASSUME OwnershipInv, [Next]_vars
    PROVE  [Ledger!LedgerNext]_(Ledger!ledgerVars)
<1> USE DEF requestVars, connVars, workerVars, historyVars, StopOthers
<1>1. ASSUME UNCHANGED <<dbStatus, deleted, starts>> PROVE UNCHANGED Ledger!ledgerVars
  BY <1>1 DEF Ledger!ledgerVars
<1>2. ASSUME NEW w \in Workers, WorkerStep(w) PROVE [Ledger!LedgerNext]_(Ledger!ledgerVars)
  BY <1>2, LedgerOfWorker
<1>3. ASSUME NEW w \in Workers, NEW r \in Requests, Approve(w, r)
      PROVE  [Ledger!LedgerNext]_(Ledger!ledgerVars)
  BY <1>1, <1>3 DEF Approve
<1>4. ASSUME NEW w \in Workers, NEW r \in Requests, NEW c \in Conns, NEW bypass \in BOOLEAN,
             ExecuteCommand(w, r, c, bypass)
      PROVE  [Ledger!LedgerNext]_(Ledger!ledgerVars)
  BY <1>1, <1>4 DEF ExecuteCommand
<1>5. ASSUME NEW w \in Workers, ClientGone(w) \/ Detach(w) PROVE UNCHANGED Ledger!ledgerVars
  BY <1>1, <1>5 DEF ClientGone, Detach
<1>6. ASSUME NEW r \in Requests, Reject(r) \/ Expire(r) PROVE Ledger!LedgerNext
  <2>1. r \notin deleted
    BY <1>6 DEF Reject, Expire, Wins, OwnershipInv, Ownership, MemoryFollowsStore, None
  <2>2. Ledger!Decide(r)
    BY <1>6, <2>1 DEF Reject, Expire, Wins, SetStatus, Ledger!Decide, Ledger!Refused
  <2> QED
    BY <2>2 DEF Ledger!LedgerNext
<1>7. ASSUME NEW r \in Requests, DeleteRequest(r) PROVE Ledger!LedgerNext
  <2>1. dbStatus[r] \notin {"running", "auto_running", "none"}
    BY <1>7 DEF DeleteRequest, RunningStates, OwnershipInv, Ownership, MemoryFollowsStore, None
  <2>2. Ledger!Hide(r)
    BY <1>7, <2>1 DEF DeleteRequest, Ledger!Hide, Ledger!Open
  <2> QED
    BY <2>2 DEF Ledger!LedgerNext
<1>8. ASSUME NEW r \in Requests, PassDeadline(r) PROVE UNCHANGED Ledger!ledgerVars
  BY <1>1, <1>8 DEF PassDeadline
<1>9. ASSUME NEW c \in Conns, NEW t \in Targets \cup {Serial}, SaveConnection(c, t)
      PROVE  UNCHANGED Ledger!ledgerVars
  BY <1>1, <1>9 DEF SaveConnection
<1>10. ASSUME NEW c \in Conns,
              \/ DisconnectConnection(c) \/ DeleteConnectionRow(c)
              \/ DeleteConnectionCancel(c) \/ DeleteConnectionForget(c)
       PROVE  UNCHANGED Ledger!ledgerVars
  BY <1>1, <1>10
     DEF DisconnectConnection, DeleteConnectionRow, DeleteConnectionCancel, DeleteConnectionForget
<1>11. CASE CloseRuntime \/ CloseExecs \/ StopListener \/ CloseStore
  BY <1>1, <1>11 DEF CloseRuntime, CloseExecs, StopListener, CloseStore
<1>12. CASE DrainDone \/ DrainCancel \/ DrainGiveUp \/ AppCancel
  BY <1>1, <1>12 DEF DrainDone, DrainCancel, DrainGiveUp, AppCancel
<1>13. CASE Exit \/ Crash
  BY <1>1, <1>13 DEF Exit, Crash, LoseMemory
<1>14. ASSUME NEW recover \in BOOLEAN, NEW expired \in SUBSET Requests, NewApp(recover, expired)
       PROVE  Ledger!LedgerNext
  <2>1. \A r \in Requests :
            \/ dbStatus'[r] = dbStatus[r]
            \/ dbStatus[r] \in {"running", "auto_running"} /\ dbStatus'[r] = "interrupted"
            \/ dbStatus[r] = "pending" /\ r \notin deleted /\ dbStatus'[r] = "expired"
    BY <1>14 DEF NewApp, Recovered, Lapsed, RunningStates
  <2>2. dbStatus' \in [Requests -> Statuses \cup {None}]
    <3>1. TypeOK'
      <4>1. slots' \in Nat
        BY <1>14 DEF NewApp, OwnershipInv, TypeOK
      <4> QED BY <1>14, <4>1, TypeStep DEF OwnershipInv, Next
    <3> QED BY <3>1 DEF TypeOK
  <2>3. Ledger!Settle
    BY <1>14, <2>1, <2>2 DEF NewApp, Ledger!Settle, Ledger!Open, Ledger!Refused, Ledger!RunClosed,
       Statuses, RunningStates, FinalStates, None
  <2> QED
    BY <2>3 DEF Ledger!LedgerNext
<1>15. CASE UNCHANGED vars
  BY <1>1, <1>15 DEF vars
<1> QED
  BY <1>2, <1>3, <1>4, <1>5, <1>6, <1>7, <1>8, <1>9, <1>10, <1>11, <1>12, <1>13, <1>14, <1>15
     DEF Next, ShutdownStep

(* The command_requests table is an audit ledger: rows are filed, decided, *)
(* run once and closed once, and nothing else ever happens to them.        *)
THEOREM ImplementsLedger == Spec => KeepsLedger
BY LedgerStart, LedgerStep, OwnershipHolds, PTL DEF Spec, KeepsLedger, Ledger!LedgerSpec

-----------------------------------------------------------------------------
(* Requests filed under a client_request_id: ClientCalls.                  *)


\* The records of a call at work and of a row of command_requests.
CallRecord ==
  [pc : {"locking", "locked", "filing", "filed", "leaving", "unlocked"}, agent : Agents,
   cid : ClientIds, kind : {"command", "line"}, lock : Locks, live : BOOLEAN, id : Nat]

RowRecord ==
  [agent : Agents, cid : ClientIds, kind : {"command", "line"}, live : BOOLEAN,
   status : {"pending", "running", "final"}, deleted : BOOLEAN, old : BOOLEAN]

\* The rows are numbered without a gap, and every request in memory has one.
RowsTyped ==
  /\ \E n \in Nat : rows \in [1..n -> RowRecord]
  /\ DOMAIN mem \subseteq DOMAIN rows

CallsTyped ==
  /\ call \in [Calls -> CallRecord \cup {Free}]
  /\ keys \in [Keys -> Locks \cup {Nil}] /\ refs \in [Locks -> Nat]
  /\ holder \in [Locks -> Calls \cup {Nil}]

\* The calls that refer to lock l.
Users(l) == {c \in Calls : call[c].pc # "idle" /\ call[c].lock = l}

Within(c) == call[c].pc \in {"locked", "filing", "filed", "leaving"}

\* The lock of a key is the one its calls refer to, its count is theirs, and
\* its holder is the one at work.
LocksFit ==
  /\ \A c \in Calls : call[c].pc # "idle" => keys[KeyOf(call[c])] = call[c].lock
  /\ \A l \in Locks : refs[l] = Cardinality(Users(l))
  /\ \A c \in Calls : Within(c) => holder[call[c].lock] = c

\* A call about to file saw no young request of its key in memory; one that
\* has filed knows its row.
LooksHold ==
  /\ \A c \in Calls : call[c].pc = "filing" =>
       \A i \in DOMAIN mem : KeyOf(rows[i]) = KeyOf(call[c]) => rows[i].old
  /\ \A c \in Calls : call[c].pc = "filed" =>
       call[c].id \in DOMAIN rows /\ KeyOf(rows[call[c].id]) = KeyOf(call[c])

\* A line of the open session is young, and in memory or about to be.
LiveLines ==
  /\ \A i \in DOMAIN rows : rows[i].live =>
       /\ open /\ ~rows[i].old
       /\ i \in DOMAIN mem \/ \E c \in Calls : call[c].pc = "filed" /\ call[c].id = i
  /\ \A c \in Calls : call[c].pc # "idle" /\ call[c].live => open

FilingInv ==
  /\ RowsTyped /\ CallsTyped /\ LocksFit /\ LooksHold /\ LiveLines
  /\ OneRequestPerKey /\ LineOncePerSession

(* What the record of a call at work holds.                                *)
LEMMA CallFields ==
  ASSUME CallsTyped, NEW c \in Calls, call[c].pc # "idle"
  PROVE  /\ call[c] \in CallRecord /\ call[c] # Free
         /\ call[c].pc \in {"locking", "locked", "filing", "filed", "leaving", "unlocked"}
         /\ call[c].agent \in Agents /\ call[c].cid \in ClientIds /\ call[c].lock \in Locks
         /\ call[c].live \in BOOLEAN /\ call[c].id \in Nat
         /\ KeyOf(call[c]) \in Keys
<1>1. Free.pc = "idle"
  BY DEF Free
<1>2. call[c] \in CallRecord /\ call[c] # Free
  BY <1>1 DEF CallsTyped
<1> QED
  BY <1>2 DEF CallRecord, KeyOf, Keys

(* Two calls of one key are not at work under its lock at the same time.   *)
LEMMA OneAtWork ==
  ASSUME CallsTyped, LocksFit, NEW c \in Calls, NEW d \in Calls, Within(c), Within(d),
         KeyOf(call[c]) = KeyOf(call[d])
  PROVE  c = d
<1>1. call[c].pc # "idle" /\ call[d].pc # "idle"
  BY DEF Within
<1>2. call[c].lock = call[d].lock
  BY <1>1 DEF LocksFit
<1> QED
  BY <1>2 DEF LocksFit

\* Requests change, age or are deleted; no row appears and no call moves.
RowsAge ==
  /\ DOMAIN rows' = DOMAIN rows
  /\ rows' \in [DOMAIN rows -> RowRecord]
  /\ \A i \in DOMAIN rows :
       /\ rows'[i].agent = rows[i].agent /\ rows'[i].cid = rows[i].cid
       /\ rows[i].old => rows'[i].old
       /\ rows'[i].live => rows[i].live /\ open' /\ ~rows'[i].old
       /\ rows'[i].live /\ i \in DOMAIN mem => i \in DOMAIN mem'
  /\ DOMAIN mem' \subseteq DOMAIN mem
  /\ blind' = blind

CallsStay ==
  /\ keys' = keys /\ refs' = refs /\ holder' = holder
  /\ call' \in [Calls -> CallRecord \cup {Free}]
  /\ \A c \in Calls :
       /\ call'[c].pc = call[c].pc
       /\ call[c].pc # "idle" =>
            /\ call'[c].agent = call[c].agent /\ call'[c].cid = call[c].cid
            /\ call'[c].lock = call[c].lock /\ call'[c].id = call[c].id
            /\ call'[c].live => call[c].live /\ open'

(* Whatever happens to a filed request keeps the invariant.                *)
LEMMA RowsAgeStep ==
  ASSUME FilingInv, RowsAge, CallsStay
  PROVE  FilingInv'
<1>1. /\ RowsTyped /\ CallsTyped /\ LocksFit /\ LooksHold /\ LiveLines
      /\ OneRequestPerKey /\ LineOncePerSession
  BY DEF FilingInv
<1>2. \A i \in DOMAIN rows : KeyOf(rows'[i]) = KeyOf(rows[i])
  BY DEF RowsAge, KeyOf
<1>3. \A c \in Calls : call[c].pc # "idle" => KeyOf(call'[c]) = KeyOf(call[c])
  BY DEF CallsStay, KeyOf
<1>4. RowsTyped'
  <2>1. PICK n \in Nat : rows \in [1..n -> RowRecord]
    BY <1>1 DEF RowsTyped
  <2>2. rows' \in [1..n -> RowRecord]
    BY <2>1 DEF RowsAge
  <2> QED
    BY <1>1, <2>1, <2>2 DEF RowsTyped, RowsAge
<1>5. CallsTyped'
  BY <1>1 DEF CallsTyped, CallsStay
<1>6. LocksFit'
  <2>1. \A l \in Locks : Users(l)' = Users(l)
    BY DEF Users, CallsStay
  <2>2. \A c \in Calls : Within(c)' => Within(c) /\ call'[c].lock = call[c].lock
    BY DEF Within, CallsStay
  <2>3. \A c \in Calls : call'[c].pc # "idle" => keys'[KeyOf(call'[c])] = call'[c].lock
    BY <1>1, <1>3 DEF LocksFit, CallsStay
  <2>4. \A l \in Locks : refs'[l] = Cardinality(Users(l)')
    BY <1>1, <2>1 DEF LocksFit, CallsStay
  <2>5. \A c \in Calls : Within(c)' => holder'[call'[c].lock] = c
    BY <1>1, <2>2 DEF LocksFit, CallsStay
  <2> QED
    BY <2>3, <2>4, <2>5 DEF LocksFit
<1>7. LooksHold'
  <2>1. ASSUME NEW c \in Calls, call'[c].pc = "filing", NEW i \in DOMAIN mem',
               KeyOf(rows'[i]) = KeyOf(call'[c])
        PROVE  rows'[i].old
    <3>1. i \in DOMAIN mem /\ i \in DOMAIN rows /\ call[c].pc = "filing"
      BY <1>1, <2>1 DEF RowsAge, CallsStay, RowsTyped
    <3>2. KeyOf(rows[i]) = KeyOf(call[c])
      BY <1>2, <1>3, <2>1, <3>1
    <3> QED
      BY <1>1, <3>1, <3>2 DEF LooksHold, RowsAge
  <2>2. ASSUME NEW c \in Calls, call'[c].pc = "filed"
        PROVE  call'[c].id \in DOMAIN rows' /\ KeyOf(rows'[call'[c].id]) = KeyOf(call'[c])
    <3>1. call[c].pc = "filed" /\ call'[c].id = call[c].id
      BY <2>2 DEF CallsStay
    <3>2. call[c].id \in DOMAIN rows /\ KeyOf(rows[call[c].id]) = KeyOf(call[c])
      BY <1>1, <3>1 DEF LooksHold
    <3> QED
      BY <1>2, <1>3, <3>1, <3>2 DEF RowsAge
  <2> QED
    BY <2>1, <2>2 DEF LooksHold
<1>8. LiveLines'
  <2>1. ASSUME NEW i \in DOMAIN rows', rows'[i].live
        PROVE  /\ open' /\ ~rows'[i].old
               /\ i \in DOMAIN mem' \/ \E c \in Calls : call'[c].pc = "filed" /\ call'[c].id = i
    <3>1. i \in DOMAIN rows /\ rows[i].live /\ open' /\ ~rows'[i].old
      BY <2>1 DEF RowsAge
    <3>2. CASE i \in DOMAIN mem
      BY <2>1, <3>1, <3>2 DEF RowsAge
    <3>3. CASE \E c \in Calls : call[c].pc = "filed" /\ call[c].id = i
      BY <3>1, <3>3 DEF CallsStay
    <3> QED
      BY <1>1, <3>1, <3>2, <3>3 DEF LiveLines
  <2>2. \A c \in Calls : call'[c].pc # "idle" /\ call'[c].live => open'
    BY DEF CallsStay
  <2> QED
    BY <2>1, <2>2 DEF LiveLines
<1>9. OneRequestPerKey'
  <2>1. ASSUME NEW i \in DOMAIN rows', NEW j \in DOMAIN rows', i < j,
               KeyOf(rows'[i]) = KeyOf(rows'[j]), ~rows'[i].old, ~rows'[j].old
        PROVE  j \in blind'
    BY <1>1, <1>2, <2>1 DEF OneRequestPerKey, Young, RowsAge
  <2> QED
    BY <2>1 DEF OneRequestPerKey, Young
<1>10. LineOncePerSession'
  <2>1. ASSUME NEW i \in DOMAIN rows', NEW j \in DOMAIN rows', rows'[i].live, rows'[j].live,
               KeyOf(rows'[i]) = KeyOf(rows'[j])
        PROVE  i = j
    BY <1>1, <1>2, <2>1 DEF LineOncePerSession, RowsAge
  <2> QED
    BY <2>1 DEF LineOncePerSession
<1> QED
  BY <1>4, <1>5, <1>6, <1>7, <1>8, <1>9, <1>10 DEF FilingInv

\* Call c moves on to p; the requests stay as they are.
Moves(c, p) ==
  /\ call[c].pc # "idle" /\ call[c].pc # "filed"
  /\ call' = [call EXCEPT ![c].pc = p]
  /\ p \in {"locked", "filing", "leaving", "unlocked"}
  /\ rows' = rows /\ mem' = mem /\ keys' = keys /\ refs' = refs /\ open' = open /\ blind' = blind

(* A call that moves on keeps the invariant if the lock is its own, and if *)
(* it files only what it did not find.                                     *)
LEMMA MovesStep ==
  ASSUME FilingInv, NEW c \in Calls, NEW p, Moves(c, p),
         holder' \in [Locks -> Calls \cup {Nil}],
         \A d \in Calls : Within(d)' => holder'[call'[d].lock] = d,
         p = "filing" => \A i \in DOMAIN mem : KeyOf(rows[i]) = KeyOf(call[c]) => rows[i].old
  PROVE  FilingInv'
<1>1. /\ RowsTyped /\ CallsTyped /\ LocksFit /\ LooksHold /\ LiveLines
      /\ OneRequestPerKey /\ LineOncePerSession
  BY DEF FilingInv
<1>2. call[c] \in CallRecord
  BY <1>1, CallFields DEF Moves
<1>3. /\ call' \in [Calls -> CallRecord \cup {Free}]
      /\ \A d \in Calls : d # c => call'[d] = call[d]
      /\ call'[c].pc = p /\ call'[c].agent = call[c].agent /\ call'[c].cid = call[c].cid
      /\ call'[c].lock = call[c].lock /\ call'[c].id = call[c].id
      /\ call'[c].live = call[c].live
  BY <1>1, <1>2 DEF CallsTyped, Moves, CallRecord
<1>4. \A d \in Calls : KeyOf(call'[d]) = KeyOf(call[d])
  BY <1>3 DEF KeyOf
<1>5. RowsTyped' /\ OneRequestPerKey' /\ LineOncePerSession'
  BY <1>1 DEF Moves, RowsTyped, OneRequestPerKey, LineOncePerSession, Young
<1>6. CallsTyped'
  BY <1>1, <1>3 DEF CallsTyped, Moves
<1>7. LocksFit'
  <2>1. \A l \in Locks : Users(l)' = Users(l)
    BY <1>3 DEF Users, Moves
  <2>2. \A d \in Calls : call'[d].pc # "idle" => keys'[KeyOf(call'[d])] = call'[d].lock
    BY <1>1, <1>3, <1>4 DEF LocksFit, Moves
  <2>3. \A l \in Locks : refs'[l] = Cardinality(Users(l)')
    BY <1>1, <2>1 DEF LocksFit, Moves
  <2> QED
    BY <2>2, <2>3 DEF LocksFit
<1>8. LooksHold'
  <2>1. ASSUME NEW d \in Calls, call'[d].pc = "filing", NEW i \in DOMAIN mem',
               KeyOf(rows'[i]) = KeyOf(call'[d])
        PROVE  rows'[i].old
    BY <1>1, <1>3, <1>4, <2>1 DEF LooksHold, Moves
  <2>2. ASSUME NEW d \in Calls, call'[d].pc = "filed"
        PROVE  call'[d].id \in DOMAIN rows' /\ KeyOf(rows'[call'[d].id]) = KeyOf(call'[d])
    BY <1>1, <1>3, <1>4, <2>2 DEF LooksHold, Moves
  <2> QED
    BY <2>1, <2>2 DEF LooksHold
<1>9. LiveLines'
  BY <1>1, <1>3 DEF LiveLines, Moves
<1> QED
  BY <1>5, <1>6, <1>7, <1>8, <1>9 DEF FilingInv

(* The lock a call waits for is nobody's: nobody is at work under it.      *)
LEMMA AcquireKeeps ==
  ASSUME CallsAreNamed, FilingInv, NEW c \in Calls, Acquire(c)
  PROVE  FilingInv'
<1>1. CallsTyped /\ LocksFit
  BY DEF FilingInv
<1>2. call[c].pc = "locking" /\ call[c] \in CallRecord /\ call[c].lock \in Locks
  BY <1>1, CallFields DEF Acquire
<1>3. Moves(c, "locked")
  BY <1>2 DEF Acquire, Step, Moves
<1>4. holder' \in [Locks -> Calls \cup {Nil}]
  BY <1>1, <1>2 DEF Acquire, CallsTyped
<1>5. ASSUME NEW d \in Calls, Within(d)' PROVE holder'[call'[d].lock] = d
  <2>1. CASE d = c
    BY <1>1, <1>2, <2>1 DEF Acquire, Step, CallsTyped, CallRecord
  <2>2. CASE d # c
    <3>1. call'[d] = call[d] /\ Within(d)
      BY <1>1, <1>5, <2>2 DEF Acquire, Step, CallsTyped, Within
    <3>2. holder[call[d].lock] = d /\ d # Nil
      BY <1>1, <3>1 DEF LocksFit, CallsAreNamed
    <3>3. call[d].lock # call[c].lock
      BY <3>2 DEF Acquire
    <3>4. call[d].lock \in Locks
      BY <1>1, <3>1, CallFields DEF Within
    <3> QED
      BY <1>1, <3>1, <3>2, <3>3, <3>4 DEF Acquire, CallsTyped
  <2> QED
    BY <2>1, <2>2
<1> QED
  BY <1>3, <1>4, <1>5, MovesStep

(* A call under its lock that moves on under it.                           *)
LEMMA StaysWithin ==
  ASSUME FilingInv, NEW c \in Calls, NEW p, Moves(c, p), Within(c), holder' = holder,
         p = "filing" => \A i \in DOMAIN mem : KeyOf(rows[i]) = KeyOf(call[c]) => rows[i].old
  PROVE  FilingInv'
<1>1. CallsTyped /\ LocksFit
  BY DEF FilingInv
<1>2. call[c] \in CallRecord
  BY <1>1, CallFields DEF Within
<1>3. \A d \in Calls : call'[d].lock = call[d].lock /\ (d # c => call'[d] = call[d])
  BY <1>1, <1>2 DEF Moves, CallsTyped, CallRecord
<1>4. \A d \in Calls : Within(d)' => Within(d)
  BY <1>3 DEF Within
<1>5. \A d \in Calls : Within(d)' => holder'[call'[d].lock] = d
  BY <1>1, <1>3, <1>4 DEF LocksFit
<1>6. holder' \in [Locks -> Calls \cup {Nil}]
  BY <1>1 DEF CallsTyped
<1> QED
  BY <1>5, <1>6, MovesStep

(* The look of send_line in memory.                                        *)
LEMMA LookupLineKeeps ==
  ASSUME FilingInv, NEW c \in Calls, LookupLine(c)
  PROVE  FilingInv'
<1>1. Within(c) /\ call[c].pc = "locked"
  BY DEF LookupLine, Within
<1>2. CASE findRequestByClientID(c) = {} /\ call[c].live
  <2>1. Moves(c, "filing")
    BY <1>1, <1>2 DEF LookupLine, Step, Moves
  <2>2. \A i \in DOMAIN mem : KeyOf(rows[i]) = KeyOf(call[c]) => rows[i].old
    BY <1>2 DEF findRequestByClientID, Young
  <2> QED
    BY <1>1, <2>1, <2>2, StaysWithin DEF LookupLine
<1>3. CASE ~(findRequestByClientID(c) = {} /\ call[c].live)
  <2>1. Moves(c, "leaving")
    BY <1>1, <1>3 DEF LookupLine, Step, Moves
  <2> QED
    BY <1>1, <2>1, StaysWithin DEF LookupLine
<1> QED
  BY <1>2, <1>3

(* existingClientRequest: what is not in SQLite is not in memory either.   *)
LEMMA LookupCommandKeeps ==
  ASSUME FilingInv, NEW c \in Calls, LookupCommand(c)
  PROVE  FilingInv'
<1>1. Within(c) /\ call[c].pc = "locked" /\ holder' = holder
  BY DEF LookupCommand, Within
<1>2. DOMAIN mem \subseteq DOMAIN rows
  BY DEF FilingInv, RowsTyped
<1>3. CASE call' = [call EXCEPT ![c].pc = "filing"] /\ findRequestByClientID(c) = {}
  <2>1. Moves(c, "filing")
    BY <1>1, <1>3 DEF LookupCommand, Moves
  <2>2. \A i \in DOMAIN mem : KeyOf(rows[i]) = KeyOf(call[c]) => rows[i].old
    BY <1>3 DEF findRequestByClientID, Young
  <2> QED
    BY <1>1, <2>1, <2>2, StaysWithin
<1>4. CASE call' = [call EXCEPT ![c].pc = "leaving"]
  <2>1. Moves(c, "leaving")
    BY <1>1, <1>4 DEF LookupCommand, Moves
  <2> QED
    BY <1>1, <2>1, StaysWithin
<1>5. loadRequestByClientID(c) = {} => findRequestByClientID(c) = {}
  BY <1>2 DEF loadRequestByClientID, findRequestByClientID
<1> QED
  BY <1>3, <1>4, <1>5 DEF LookupCommand, Step

(* A call turned away before its INSERT.                                   *)
LEMMA RefusedKeeps ==
  ASSUME FilingInv, NEW c \in Calls, Refuse(c)
  PROVE  FilingInv'
<1>1. Within(c) /\ Moves(c, "leaving") /\ holder' = holder
  BY DEF Refuse, Within, Moves, Step
<1> QED
  BY <1>1, StaysWithin

(* unlock gives back the lock of the call that held it.                    *)
LEMMA UnlockKeeps ==
  ASSUME CallsAreNamed, FilingInv, NEW c \in Calls, Unlock(c)
  PROVE  FilingInv'
<1>1. CallsTyped /\ LocksFit
  BY DEF FilingInv
<1>2. call[c].pc = "leaving" /\ call[c] \in CallRecord /\ call[c].lock \in Locks /\ Within(c)
  BY <1>1, CallFields DEF Unlock, Within
<1>3. Moves(c, "unlocked")
  BY <1>2 DEF Unlock, Step, Moves
<1>4. holder' \in [Locks -> Calls \cup {Nil}]
  BY <1>1, <1>2 DEF Unlock, CallsTyped
<1>5. ASSUME NEW d \in Calls, Within(d)' PROVE holder'[call'[d].lock] = d
  <2>1. d # c
    BY <1>1, <1>2, <1>5 DEF Unlock, Step, CallsTyped, CallRecord, Within
  <2>2. call'[d] = call[d] /\ Within(d)
    BY <1>1, <1>5, <2>1 DEF Unlock, Step, CallsTyped, Within
  <2>3. holder[call[d].lock] = d /\ holder[call[c].lock] = c
    BY <1>1, <1>2, <2>2 DEF LocksFit
  <2>4. call[d].lock \in Locks
    BY <1>1, <2>2, CallFields DEF Within
  <2> QED
    BY <1>1, <2>1, <2>2, <2>3, <2>4 DEF Unlock, CallsTyped
<1> QED
  BY <1>3, <1>4, <1>5, MovesStep

(* The calls that refer to a lock are finitely many, and a count of zero   *)
(* means there are none.                                                   *)
LEMMA UsersFinite ==
  ASSUME CallsAreNamed, NEW l
  PROVE  /\ Users(l) \subseteq Calls /\ IsFiniteSet(Users(l))
         /\ Cardinality(Users(l)) \in Nat
         /\ Cardinality(Users(l)) = 0 => Users(l) = {}
<1>1. Users(l) \subseteq Calls
  BY DEF Users
<1>2. IsFiniteSet(Users(l))
  BY <1>1, FS_Subset DEF CallsAreNamed
<1> QED
  BY <1>1, <1>2, FS_CardinalityType, FS_EmptySet

(* While a call is idle a lock is free: the others refer to one each.      *)
LEMMA FreeLock ==
  ASSUME CallsAreNamed, CallsTyped, LocksFit, NEW c \in Calls, call[c].pc = "idle"
  PROVE  \E l \in Locks : refs[l] = 0
<1>1. SUFFICES ASSUME \A l \in Locks : refs[l] # 0
               PROVE  FALSE
  OBVIOUS
<1> DEFINE f == [l \in Locks |-> CHOOSE d \in Users(l) : TRUE]
<1>2. \A l \in Locks : Users(l) # {}
  BY <1>1, FS_EmptySet DEF LocksFit
<1>3. \A l \in Locks : f[l] \in Users(l)
  BY <1>2
<1>4. \A l \in Locks : f[l] \in Calls \ {c} /\ call[f[l]].lock = l
  BY <1>3 DEF Users
<1>5. f \in [Locks -> Calls \ {c}]
  BY <1>4
<1>6. IsFiniteSet(Calls) /\ Cardinality(Calls) \in Nat
  BY FS_CardinalityType DEF CallsAreNamed
<1>7. IsFiniteSet(Calls \ {c}) /\ Cardinality(Calls \ {c}) = Cardinality(Calls) - 1
  BY <1>6, FS_RemoveElement
<1>8. Cardinality(Calls \ {c}) \in Nat
  BY <1>7, FS_CardinalityType
<1>9. Cardinality(Calls) >= 1
  BY <1>6, <1>7, <1>8
<1>10. IsFiniteSet(Locks) /\ Cardinality(Locks) = Cardinality(Calls)
  BY <1>6, <1>9, FS_Interval DEF Locks
<1>11. Cardinality(Calls \ {c}) < Cardinality(Locks)
  BY <1>6, <1>7, <1>10
<1> HIDE DEF f
<1>12. \E x, y \in Locks : x # y /\ f[x] = f[y]
  BY <1>5, <1>7, <1>10, <1>11, FS_PigeonHole
<1> QED
  BY <1>4, <1>12

(* lockKey: the call joins those that refer to the lock of its key.        *)
LEMMA LockKeyKeeps ==
  ASSUME CallsAreNamed, FilingInv, NEW c \in Calls, LockKey(c)
  PROVE  FilingInv'
<1>1. /\ RowsTyped /\ CallsTyped /\ LocksFit /\ LooksHold /\ LiveLines
      /\ OneRequestPerKey /\ LineOncePerSession
  BY DEF FilingInv
<1>2. /\ call[c].pc = "idle"
      /\ rows' = rows /\ mem' = mem /\ holder' = holder /\ open' = open /\ blind' = blind
  BY DEF LockKey
<1>3. PICK a \in Agents, i \in ClientIds, k \in Kinds :
        LET l == IF keys[<<a, i>>] # Nil THEN keys[<<a, i>>]
                 ELSE CHOOSE f \in Locks : refs[f] = 0
        IN /\ keys' = [keys EXCEPT ![<<a, i>>] = l]
           /\ refs' = [refs EXCEPT ![l] = @ + 1]
           /\ call' = [call EXCEPT ![c] =
                [pc |-> "locking", agent |-> a, cid |-> i, kind |-> k, lock |-> l,
                 live |-> k = "line", id |-> 0]]
  BY DEF LockKey
<1> DEFINE l == IF keys[<<a, i>>] # Nil THEN keys[<<a, i>>]
                ELSE CHOOSE f \in Locks : refs[f] = 0
           r == [pc |-> "locking", agent |-> a, cid |-> i, kind |-> k, lock |-> l,
                 live |-> k = "line", id |-> 0]
<1>4. /\ keys' = [keys EXCEPT ![<<a, i>>] = l]
      /\ refs' = [refs EXCEPT ![l] = @ + 1]
      /\ call' = [call EXCEPT ![c] = r]
  BY <1>3
<1>5. (CHOOSE f \in Locks : refs[f] = 0) \in Locks
  BY <1>1, <1>2, FreeLock
<1>6. <<a, i>> \in Keys
  BY DEF Keys
<1>7. l \in Locks
  BY <1>1, <1>5, <1>6 DEF CallsTyped
<1>8. k \in {"command", "line"} /\ (k = "line" => open)
  BY DEF Kinds
<1>9. keys[<<a, i>>] # Nil => l = keys[<<a, i>>]
  OBVIOUS
<1> HIDE DEF l
<1>10. r \in CallRecord /\ r.live = (k = "line")
  BY <1>7, <1>8 DEF CallRecord
<1>11. r.pc = "locking" /\ r.lock = l /\ KeyOf(r) = <<a, i>>
  BY DEF KeyOf
<1> HIDE DEF r
<1>12. /\ call' \in [Calls -> CallRecord \cup {Free}]
       /\ call'[c] = r /\ \A d \in Calls : d # c => call'[d] = call[d]
  BY <1>1, <1>4, <1>10 DEF CallsTyped
<1>13. CallsTyped'
  <2>1. keys' \in [Keys -> Locks \cup {Nil}]
    BY <1>1, <1>4, <1>7 DEF CallsTyped
  <2>2. refs' \in [Locks -> Nat]
    BY <1>1, <1>4, <1>7 DEF CallsTyped
  <2> QED
    BY <1>1, <1>2, <1>12, <2>1, <2>2 DEF CallsTyped
<1>14. LocksFit'
  <2>1. ASSUME NEW d \in Calls, call'[d].pc # "idle"
        PROVE  keys'[KeyOf(call'[d])] = call'[d].lock
    <3>1. CASE d = c
      BY <1>1, <1>4, <1>6, <1>11, <1>12, <3>1 DEF CallsTyped
    <3>2. CASE d # c
      <4>1. call'[d] = call[d] /\ call[d].pc # "idle"
        BY <1>12, <2>1, <3>2
      <4>2. /\ keys[KeyOf(call[d])] = call[d].lock /\ call[d].lock \in Locks
            /\ KeyOf(call[d]) \in Keys
        BY <1>1, <4>1, CallFields DEF LocksFit
      <4>3. call[d].lock # Nil
        BY <4>2 DEF Locks, Nil
      <4> QED
        BY <1>1, <1>4, <1>6, <1>9, <4>1, <4>2, <4>3 DEF CallsTyped
    <3> QED
      BY <3>1, <3>2
  <2>2. ASSUME NEW m \in Locks
        PROVE  refs'[m] = Cardinality(Users(m)')
    <3>1. refs[m] = Cardinality(Users(m)) /\ IsFiniteSet(Users(m))
      BY <1>1, UsersFinite DEF LocksFit
    <3>2. c \notin Users(m)
      BY <1>2 DEF Users
    <3>3. CASE m = l
      <4>1. Users(m)' = Users(m) \cup {c}
        BY <1>11, <1>12, <3>3 DEF Users
      <4>2. Cardinality(Users(m)') = Cardinality(Users(m)) + 1
        BY <3>1, <3>2, <4>1, FS_AddElement
      <4>3. refs'[m] = refs[m] + 1
        BY <1>1, <1>4, <3>3 DEF CallsTyped
      <4> QED
        BY <3>1, <4>2, <4>3
    <3>4. CASE m # l
      <4>1. Users(m)' = Users(m)
        BY <1>2, <1>11, <1>12, <3>4 DEF Users
      <4>2. refs'[m] = refs[m]
        BY <1>1, <1>4, <3>4 DEF CallsTyped
      <4> QED
        BY <3>1, <4>1, <4>2
    <3> QED
      BY <3>3, <3>4
  <2>3. \A d \in Calls : Within(d)' => Within(d) /\ call'[d] = call[d]
    BY <1>11, <1>12 DEF Within
  <2>4. \A d \in Calls : Within(d)' => holder'[call'[d].lock] = d
    BY <1>1, <1>2, <2>3 DEF LocksFit
  <2> QED
    BY <2>1, <2>2, <2>4 DEF LocksFit
<1>15. LooksHold'
  <2>1. \A d \in Calls : call'[d].pc \in {"filing", "filed"} => call'[d] = call[d]
    BY <1>11, <1>12
  <2> QED
    BY <1>1, <1>2, <2>1 DEF LooksHold
<1>16. LiveLines'
  <2>1. ASSUME NEW j \in DOMAIN rows', rows'[j].live
        PROVE  /\ open' /\ ~rows'[j].old
               /\ j \in DOMAIN mem' \/ \E d \in Calls : call'[d].pc = "filed" /\ call'[d].id = j
    <3>1. \A d \in Calls : call[d].pc = "filed" => call'[d] = call[d]
      BY <1>2, <1>12
    <3> QED
      BY <1>1, <1>2, <2>1, <3>1 DEF LiveLines
  <2>2. \A d \in Calls : call'[d].pc # "idle" /\ call'[d].live => open'
    BY <1>1, <1>2, <1>8, <1>10, <1>12 DEF LiveLines
  <2> QED
    BY <2>1, <2>2 DEF LiveLines
<1>17. RowsTyped' /\ OneRequestPerKey' /\ LineOncePerSession'
  BY <1>1, <1>2 DEF RowsTyped, OneRequestPerKey, LineOncePerSession, Young
<1> QED
  BY <1>13, <1>14, <1>15, <1>16, <1>17 DEF FilingInv

(* unlock, under rt.mu: the last reference takes the entry with it, and    *)
(* until then the entry stays.                                             *)
LEMMA DropRefKeeps ==
  ASSUME CallsAreNamed, FilingInv, NEW c \in Calls, DropRef(c)
  PROVE  FilingInv'
<1>1. /\ RowsTyped /\ CallsTyped /\ LocksFit /\ LooksHold /\ LiveLines
      /\ OneRequestPerKey /\ LineOncePerSession
  BY DEF FilingInv
<1>2. /\ call[c].pc = "unlocked" /\ refs' = [refs EXCEPT ![call[c].lock] = @ - 1]
      /\ keys' = IF refs[call[c].lock] = 1 THEN [keys EXCEPT ![KeyOf(call[c])] = Nil] ELSE keys
      /\ call' = [call EXCEPT ![c] = Free]
      /\ rows' = rows /\ mem' = mem /\ holder' = holder /\ open' = open /\ blind' = blind
  BY DEF DropRef
<1>3. PICK l \in Locks : l = call[c].lock
  BY <1>1, <1>2, CallFields
<1>4. KeyOf(call[c]) \in Keys
  BY <1>1, <1>2, CallFields
<1>5. /\ call' \in [Calls -> CallRecord \cup {Free}]
      /\ call'[c].pc = "idle" /\ \A d \in Calls : d # c => call'[d] = call[d]
  BY <1>1, <1>2 DEF CallsTyped, Free
<1>6. /\ refs[l] = Cardinality(Users(l)) /\ IsFiniteSet(Users(l)) /\ refs[l] \in Nat
      /\ c \in Users(l)
  <2>1. refs[l] = Cardinality(Users(l))
    BY <1>1 DEF LocksFit
  <2>2. IsFiniteSet(Users(l)) /\ Cardinality(Users(l)) \in Nat
    BY UsersFinite
  <2>3. c \in Users(l)
    BY <1>2, <1>3 DEF Users
  <2> QED
    BY <2>1, <2>2, <2>3
<1>7. /\ IsFiniteSet(Users(l) \ {c})
      /\ Cardinality(Users(l) \ {c}) = refs[l] - 1
      /\ Cardinality(Users(l) \ {c}) \in Nat
  BY <1>6, FS_RemoveElement, FS_CardinalityType
<1>8. refs'[l] = refs[l] - 1 /\ \A m \in Locks : m # l => refs'[m] = refs[m]
  BY <1>1, <1>2, <1>3 DEF CallsTyped
<1>9. refs[l] = 1 => Users(l) \ {c} = {}
  BY <1>7, FS_EmptySet
<1>10. CallsTyped'
  <2>1. keys' \in [Keys -> Locks \cup {Nil}]
    BY <1>1, <1>2, <1>4 DEF CallsTyped
  <2>2. refs' \in [Locks -> Nat]
    BY <1>1, <1>2, <1>3, <1>7 DEF CallsTyped
  <2> QED
    BY <1>1, <1>2, <1>5, <2>1, <2>2 DEF CallsTyped
<1>11. LocksFit'
  <2>1. ASSUME NEW d \in Calls, call'[d].pc # "idle"
        PROVE  keys'[KeyOf(call'[d])] = call'[d].lock
    <3>1. d # c /\ call'[d] = call[d] /\ call[d].pc # "idle"
      BY <1>5, <2>1
    <3>2. /\ keys[KeyOf(call[d])] = call[d].lock /\ keys[KeyOf(call[c])] = l
          /\ KeyOf(call[d]) \in Keys
      BY <1>1, <1>2, <1>3, <3>1, CallFields DEF LocksFit
    <3>3. KeyOf(call[d]) = KeyOf(call[c]) => d \in Users(l) \ {c}
      BY <3>1, <3>2 DEF Users
    <3>4. refs[l] = 1 => KeyOf(call[d]) # KeyOf(call[c])
      BY <1>9, <3>3
    <3> QED
      BY <1>1, <1>2, <1>3, <3>1, <3>2, <3>4 DEF CallsTyped
  <2>2. ASSUME NEW m \in Locks
        PROVE  refs'[m] = Cardinality(Users(m)')
    <3>1. CASE m = l
      <4>1. Users(m)' = Users(m) \ {c}
        BY <1>5, <3>1 DEF Users
      <4> QED
        BY <1>7, <1>8, <3>1, <4>1
    <3>2. CASE m # l
      <4>1. Users(m)' = Users(m)
        BY <1>3, <1>5, <3>2 DEF Users
      <4> QED
        BY <1>1, <1>8, <3>2, <4>1 DEF LocksFit
    <3> QED
      BY <3>1, <3>2
  <2>3. \A d \in Calls : Within(d)' => Within(d) /\ call'[d] = call[d]
    BY <1>5 DEF Within
  <2>4. \A d \in Calls : Within(d)' => holder'[call'[d].lock] = d
    BY <1>1, <1>2, <2>3 DEF LocksFit
  <2> QED
    BY <2>1, <2>2, <2>4 DEF LocksFit
<1>12. LooksHold'
  <2>1. \A d \in Calls : call'[d].pc \in {"filing", "filed"} => call'[d] = call[d]
    BY <1>5
  <2> QED
    BY <1>1, <1>2, <2>1 DEF LooksHold
<1>13. LiveLines'
  <2>1. ASSUME NEW j \in DOMAIN rows', rows'[j].live
        PROVE  /\ open' /\ ~rows'[j].old
               /\ j \in DOMAIN mem' \/ \E d \in Calls : call'[d].pc = "filed" /\ call'[d].id = j
    <3>1. \A d \in Calls : call[d].pc = "filed" => call'[d] = call[d]
      BY <1>2, <1>5
    <3> QED
      BY <1>1, <1>2, <2>1, <3>1 DEF LiveLines
  <2>2. \A d \in Calls : call'[d].pc # "idle" /\ call'[d].live => open'
    BY <1>1, <1>2, <1>5 DEF LiveLines
  <2> QED
    BY <2>1, <2>2 DEF LiveLines
<1>14. RowsTyped' /\ OneRequestPerKey' /\ LineOncePerSession'
  BY <1>1, <1>2 DEF RowsTyped, OneRequestPerKey, LineOncePerSession, Young
<1> QED
  BY <1>10, <1>11, <1>12, <1>13, <1>14 DEF FilingInv

(* A call that keeps its key and its lock, and does not come under it,     *)
(* leaves the locks as they fit.                                           *)
LEMMA LocksStay ==
  ASSUME CallsTyped, LocksFit, keys' = keys, refs' = refs, holder' = holder,
         call' \in [Calls -> CallRecord \cup {Free}],
         \A d \in Calls :
           /\ call'[d].pc = "idle" <=> call[d].pc = "idle"
           /\ Within(d)' => Within(d)
           /\ call'[d].lock = call[d].lock /\ KeyOf(call'[d]) = KeyOf(call[d])
  PROVE  CallsTyped' /\ LocksFit'
<1>1. CallsTyped'
  BY DEF CallsTyped
<1>2. \A l \in Locks : Users(l)' = Users(l)
  BY DEF Users
<1>3. \A d \in Calls : call'[d].pc # "idle" => keys'[KeyOf(call'[d])] = call'[d].lock
  BY DEF LocksFit
<1>4. \A l \in Locks : refs'[l] = Cardinality(Users(l)')
  BY <1>2 DEF LocksFit
<1>5. \A d \in Calls : Within(d)' => holder'[call'[d].lock] = d
  BY DEF LocksFit
<1> QED
  BY <1>1, <1>3, <1>4, <1>5 DEF LocksFit

(* recordCommandRequest, the INSERT: what else is young under the key has  *)
(* left memory, as the look under the lock found nothing there and no      *)
(* other call of the key is between its INSERT and its publication.        *)
LEMMA InsertKeeps ==
  ASSUME FilingInv, NEW c \in Calls, InsertRow(c)
  PROVE  FilingInv'
<1>1. /\ RowsTyped /\ CallsTyped /\ LocksFit /\ LooksHold /\ LiveLines
      /\ OneRequestPerKey /\ LineOncePerSession
  BY DEF FilingInv
<1>2. /\ call[c].pc = "filing" /\ Within(c)
      /\ mem' = mem /\ keys' = keys /\ refs' = refs /\ holder' = holder /\ open' = open
  BY DEF InsertRow, Within
<1>3. CASE Step(c, "leaving") /\ UNCHANGED <<rows, blind>>
  <2>1. Moves(c, "leaving")
    BY <1>2, <1>3 DEF Moves, Step
  <2> QED
    BY <1>2, <2>1, StaysWithin
<1>4. ASSUME NEW s \in Open,
             rows' = [i \in DOMAIN rows \cup {NextId} |->
               IF i \in DOMAIN rows THEN rows[i]
               ELSE [agent |-> call[c].agent, cid |-> call[c].cid, kind |-> call[c].kind,
                     live |-> call[c].live, status |-> s,
                     deleted |-> FALSE, old |-> FALSE]],
             call' = [call EXCEPT ![c].pc = "filed", ![c].id = NextId],
             blind' = IF loadRequestByClientID(c) \cap LeftMemory # {}
                      THEN blind \cup {NextId} ELSE blind
      PROVE  FilingInv'
  <2>1. PICK n \in Nat : rows \in [1..n -> RowRecord]
    BY <1>1 DEF RowsTyped
  <2>2. DOMAIN rows = 1..n /\ NextId = n + 1
    <3>1. DOMAIN rows = 1..n
      BY <2>1
    <3>2. Cardinality(1..n) = n
      BY FS_Interval
    <3> QED
      BY <3>1, <3>2 DEF NextId
  <2> DEFINE m == n + 1
             row == [agent |-> call[c].agent, cid |-> call[c].cid, kind |-> call[c].kind,
                     live |-> call[c].live, status |-> s, deleted |-> FALSE, old |-> FALSE]
  <2>3. m \in Nat /\ m \notin 1..n /\ 1..m = (1..n) \cup {m} /\ \A i \in 1..n : i < m /\ ~(m < i)
    OBVIOUS
  <2>4. ~(m < m)
    OBVIOUS
  <2> HIDE DEF m
  <2>5. NextId = m
    BY <2>2 DEF m
  <2>6. /\ call[c] \in CallRecord /\ call[c].agent \in Agents /\ call[c].cid \in ClientIds
        /\ call[c].kind \in {"command", "line"} /\ call[c].live \in BOOLEAN
    BY <1>1, <1>2, CallFields DEF CallRecord
  <2>7. /\ row \in RowRecord /\ KeyOf(row) = KeyOf(call[c])
        /\ row.live = call[c].live /\ ~row.old
    BY <2>6 DEF RowRecord, Open, KeyOf
  <2>8. rows' = [i \in 1..m |-> IF i \in 1..n THEN rows[i] ELSE row]
    BY <1>4, <2>2, <2>3, <2>5
  <2> HIDE DEF row
  <2>9. /\ DOMAIN rows' = 1..m /\ rows'[m] = row
        /\ \A i \in 1..n : i \in DOMAIN rows' /\ rows'[i] = rows[i]
    BY <2>3, <2>8
  <2>10. RowsTyped'
    <3>1. rows' \in [1..m -> RowRecord]
      BY <2>1, <2>3, <2>7, <2>8
    <3> QED
      BY <1>1, <1>2, <2>2, <2>3, <2>9, <3>1 DEF RowsTyped
  <2>11. /\ call' \in [Calls -> CallRecord \cup {Free}]
         /\ \A d \in Calls : d # c => call'[d] = call[d]
         /\ call'[c].pc = "filed" /\ call'[c].id = m
         /\ call'[c].lock = call[c].lock /\ call'[c].live = call[c].live
         /\ call'[c].agent = call[c].agent /\ call'[c].cid = call[c].cid
    BY <1>1, <1>4, <2>3, <2>5, <2>6 DEF CallsTyped, CallRecord
  <2>12. \A d \in Calls : KeyOf(call'[d]) = KeyOf(call[d]) /\ call'[d].lock = call[d].lock
    BY <2>11 DEF KeyOf
  <2>13. CallsTyped' /\ LocksFit'
    <3>1. \A d \in Calls : /\ call'[d].pc = "idle" <=> call[d].pc = "idle"
                           /\ Within(d)' => Within(d)
      BY <1>2, <2>11 DEF Within
    <3> QED
      BY <1>1, <1>2, <2>11, <2>12, <3>1, LocksStay
  <2>14. ASSUME NEW d \in Calls, call[d].pc = "filed"
         PROVE  KeyOf(call[d]) # KeyOf(call[c])
    BY <1>1, <1>2, <2>14, OneAtWork DEF Within
  <2>15. ASSUME NEW i \in 1..n, KeyOf(rows[i]) = KeyOf(call[c])
         PROVE  /\ i \in DOMAIN mem => rows[i].old
                /\ ~\E d \in Calls : call[d].pc = "filed" /\ call[d].id = i
    BY <1>1, <1>2, <2>14, <2>15 DEF LooksHold
  <2>16. LooksHold'
    <3>1. ASSUME NEW d \in Calls, call'[d].pc = "filing", NEW i \in DOMAIN mem',
                 KeyOf(rows'[i]) = KeyOf(call'[d])
          PROVE  rows'[i].old
      <4>1. d # c /\ call[d].pc = "filing"
        BY <2>11, <3>1
      <4>2. i \in DOMAIN mem /\ i \in 1..n
        BY <1>1, <1>2, <2>2, <3>1 DEF RowsTyped
      <4> QED
        BY <1>1, <2>9, <2>12, <3>1, <4>1, <4>2 DEF LooksHold
    <3>2. ASSUME NEW d \in Calls, call'[d].pc = "filed"
          PROVE  call'[d].id \in DOMAIN rows' /\ KeyOf(rows'[call'[d].id]) = KeyOf(call'[d])
      <4>1. CASE d = c
        BY <2>3, <2>7, <2>9, <2>11, <2>12, <4>1
      <4>2. CASE d # c
        <5>1. call'[d] = call[d] /\ call[d].pc = "filed"
          BY <2>11, <3>2, <4>2
        <5>2. call[d].id \in 1..n /\ KeyOf(rows[call[d].id]) = KeyOf(call[d])
          BY <1>1, <2>2, <5>1 DEF LooksHold
        <5> QED
          BY <2>9, <5>1, <5>2
      <4> QED
        BY <4>1, <4>2
    <3> QED
      BY <3>1, <3>2 DEF LooksHold
  <2>17. LiveLines'
    <3>1. ASSUME NEW i \in DOMAIN rows', rows'[i].live
          PROVE  /\ open' /\ ~rows'[i].old
                 /\ i \in DOMAIN mem' \/ \E d \in Calls : call'[d].pc = "filed" /\ call'[d].id = i
      <4>1. CASE i = m
        BY <1>1, <1>2, <2>7, <2>9, <2>11, <3>1, <4>1 DEF LiveLines
      <4>2. CASE i \in 1..n
        <5>1. /\ open /\ ~rows[i].old
              /\ i \in DOMAIN mem \/ \E d \in Calls : call[d].pc = "filed" /\ call[d].id = i
          BY <1>1, <2>2, <2>9, <3>1, <4>2 DEF LiveLines
        <5>2. \A d \in Calls : call[d].pc = "filed" => call'[d] = call[d]
          BY <1>2, <2>11
        <5> QED
          BY <1>2, <2>9, <4>2, <5>1, <5>2
      <4> QED
        BY <2>3, <2>9, <4>1, <4>2
    <3>2. \A d \in Calls : call'[d].pc # "idle" /\ call'[d].live => open'
      BY <1>1, <1>2, <2>11 DEF LiveLines
    <3> QED
      BY <3>1, <3>2 DEF LiveLines
  <2>18. OneRequestPerKey'
    <3>1. ASSUME NEW i \in DOMAIN rows', NEW j \in DOMAIN rows', i < j,
                 KeyOf(rows'[i]) = KeyOf(rows'[j]), ~rows'[i].old, ~rows'[j].old
          PROVE  j \in blind'
      <4>1. i \in 1..n
        BY <2>3, <2>4, <2>9, <3>1
      <4>2. rows'[i] = rows[i]
        BY <2>9, <4>1
      <4>3. CASE j \in 1..n
        <5>1. rows'[j] = rows[j]
          BY <2>9, <4>3
        <5>2. j \in blind
          BY <1>1, <2>2, <3>1, <4>1, <4>2, <4>3, <5>1 DEF OneRequestPerKey, Young
        <5> QED
          BY <1>4, <5>2
      <4>4. CASE j = m
        <5>1. KeyOf(rows[i]) = KeyOf(call[c])
          BY <2>7, <2>9, <3>1, <4>2, <4>4
        <5>2. i \in loadRequestByClientID(c)
          BY <2>2, <3>1, <4>1, <4>2, <5>1 DEF loadRequestByClientID, Young
        <5>3. i \in LeftMemory
          BY <2>2, <2>15, <3>1, <4>1, <4>2, <5>1 DEF LeftMemory
        <5> QED
          BY <1>4, <2>5, <4>4, <5>2, <5>3
      <4> QED
        BY <2>3, <2>9, <4>3, <4>4
    <3> QED
      BY <3>1 DEF OneRequestPerKey, Young
  <2>19. LineOncePerSession'
    <3>1. ASSUME NEW i \in 1..n, rows[i].live, KeyOf(rows[i]) = KeyOf(call[c])
          PROVE  FALSE
      BY <1>1, <2>2, <2>15, <3>1 DEF LiveLines
    <3>2. ASSUME NEW i \in DOMAIN rows', NEW j \in DOMAIN rows', rows'[i].live, rows'[j].live,
                 KeyOf(rows'[i]) = KeyOf(rows'[j])
          PROVE  i = j
      <4>1. CASE i \in 1..n /\ j \in 1..n
        BY <1>1, <2>2, <2>9, <3>2, <4>1 DEF LineOncePerSession
      <4>2. CASE i = m /\ j \in 1..n
        BY <2>7, <2>9, <3>1, <3>2, <4>2
      <4>3. CASE i \in 1..n /\ j = m
        BY <2>7, <2>9, <3>1, <3>2, <4>3
      <4> QED
        BY <2>3, <2>9, <4>1, <4>2, <4>3
    <3> QED
      BY <3>2 DEF LineOncePerSession
  <2> QED
    BY <2>10, <2>13, <2>16, <2>17, <2>18, <2>19 DEF FilingInv
<1> QED
  BY <1>3, <1>4 DEF InsertRow

(* recordCommandRequest publishes the row; no other call of its key has    *)
(* looked and not filed yet.                                               *)
LEMMA PublishKeeps ==
  ASSUME FilingInv, NEW c \in Calls, Publish(c)
  PROVE  FilingInv'
<1>1. /\ RowsTyped /\ CallsTyped /\ LocksFit /\ LooksHold /\ LiveLines
      /\ OneRequestPerKey /\ LineOncePerSession
  BY DEF FilingInv
<1>2. /\ call[c].pc = "filed" /\ Within(c) /\ DOMAIN mem' = DOMAIN mem \cup {call[c].id}
      /\ call' = [call EXCEPT ![c].pc = "leaving"] /\ rows' = rows
      /\ keys' = keys /\ refs' = refs /\ holder' = holder /\ open' = open /\ blind' = blind
  BY DEF Publish, Within, Step
<1>3. call[c].id \in DOMAIN rows /\ KeyOf(rows[call[c].id]) = KeyOf(call[c])
  BY <1>1, <1>2 DEF LooksHold
<1>4. call[c] \in CallRecord
  BY <1>1, <1>2, CallFields
<1>5. /\ call' \in [Calls -> CallRecord \cup {Free}]
      /\ \A d \in Calls : d # c => call'[d] = call[d]
      /\ call'[c].pc = "leaving" /\ call'[c].id = call[c].id
      /\ call'[c].lock = call[c].lock /\ call'[c].live = call[c].live
      /\ call'[c].agent = call[c].agent /\ call'[c].cid = call[c].cid
  BY <1>1, <1>2, <1>4 DEF CallsTyped, CallRecord
<1>6. \A d \in Calls : KeyOf(call'[d]) = KeyOf(call[d]) /\ call'[d].lock = call[d].lock
  BY <1>5 DEF KeyOf
<1>7. CallsTyped' /\ LocksFit'
  <2>1. \A d \in Calls : /\ call'[d].pc = "idle" <=> call[d].pc = "idle"
                         /\ Within(d)' => Within(d)
    BY <1>2, <1>5 DEF Within
  <2> QED
    BY <1>1, <1>2, <1>5, <1>6, <2>1, LocksStay
<1>8. LooksHold'
  <2>1. ASSUME NEW d \in Calls, call'[d].pc = "filing", NEW i \in DOMAIN mem',
               KeyOf(rows'[i]) = KeyOf(call'[d])
        PROVE  rows'[i].old
    <3>1. call'[d] = call[d] /\ call[d].pc = "filing"
      BY <1>5, <2>1
    <3>2. i # call[c].id
      <4>1. SUFFICES ASSUME i = call[c].id PROVE FALSE
        OBVIOUS
      <4>2. KeyOf(call[d]) = KeyOf(call[c]) /\ Within(d)
        BY <1>2, <1>3, <2>1, <3>1, <4>1 DEF Within
      <4> QED
        BY <1>1, <1>2, <3>1, <4>2, OneAtWork
    <3> QED
      BY <1>1, <1>2, <2>1, <3>1, <3>2 DEF LooksHold
  <2>2. ASSUME NEW d \in Calls, call'[d].pc = "filed"
        PROVE  call'[d].id \in DOMAIN rows' /\ KeyOf(rows'[call'[d].id]) = KeyOf(call'[d])
    <3>1. call'[d] = call[d] /\ call[d].pc = "filed"
      BY <1>5, <2>2
    <3> QED
      BY <1>1, <1>2, <3>1 DEF LooksHold
  <2> QED
    BY <2>1, <2>2 DEF LooksHold
<1>9. LiveLines'
  <2>1. ASSUME NEW i \in DOMAIN rows', rows'[i].live
        PROVE  /\ open' /\ ~rows'[i].old
               /\ i \in DOMAIN mem' \/ \E d \in Calls : call'[d].pc = "filed" /\ call'[d].id = i
    BY <1>1, <1>2, <1>5, <2>1 DEF LiveLines
  <2>2. \A d \in Calls : call'[d].pc # "idle" /\ call'[d].live => open'
    BY <1>1, <1>2, <1>5 DEF LiveLines
  <2> QED
    BY <2>1, <2>2 DEF LiveLines
<1>10. RowsTyped' /\ OneRequestPerKey' /\ LineOncePerSession'
  BY <1>1, <1>2, <1>3 DEF RowsTyped, OneRequestPerKey, LineOncePerSession, Young
<1> QED
  BY <1>7, <1>8, <1>9, <1>10 DEF FilingInv

(* The calls are as they were, and the session of a live one is open.      *)
LEMMA CallsAsTheyWere ==
  ASSUME FilingInv, calls' = calls, open' = open
  PROVE  CallsStay /\ blind' = blind
<1>1. keys' = keys /\ refs' = refs /\ holder' = holder /\ call' = call /\ blind' = blind
  BY DEF calls
<1>2. \A c \in Calls : call[c].pc # "idle" /\ call[c].live => open
  BY DEF FilingInv, LiveLines
<1> QED
  BY <1>1, <1>2 DEF CallsStay, FilingInv, CallsTyped

(* Steps that only a poll sees, or none at all.                            *)
LEMMA SilentKeeps ==
  ASSUME FilingInv, rows' = rows, DOMAIN mem' = DOMAIN mem, calls' = calls, open' = open
  PROVE  FilingInv'
<1>1. RowsTyped /\ LiveLines
  BY DEF FilingInv
<1>2. rows \in [DOMAIN rows -> RowRecord]
  BY <1>1 DEF RowsTyped
<1>3. \A i \in DOMAIN rows : rows[i].live => open /\ ~rows[i].old
  BY <1>1 DEF LiveLines
<1>4. RowsAge
  BY <1>2, <1>3, CallsAsTheyWere DEF RowsAge
<1> QED
  BY <1>4, CallsAsTheyWere, RowsAgeStep

(* transitionRequest: a new status is not a new key.                       *)
LEMMA TransitionKeeps ==
  ASSUME FilingInv, NEW i \in DOMAIN rows, Transition(i)
  PROVE  FilingInv'
<1>1. RowsTyped /\ LiveLines
  BY DEF FilingInv
<1>2. PICK s \in {"running", Final} \ {mem[i]} :
        mem' = [mem EXCEPT ![i] = s] /\ rows' = [rows EXCEPT ![i].status = s]
  BY DEF Transition
<1>3. calls' = calls /\ open' = open
  BY DEF Transition
<1>4. rows \in [DOMAIN rows -> RowRecord]
  BY <1>1 DEF RowsTyped
<1>5. /\ DOMAIN rows' = DOMAIN rows
      /\ \A j \in DOMAIN rows : j # i => rows'[j] = rows[j]
      /\ rows'[i] \in RowRecord
      /\ rows'[i].agent = rows[i].agent /\ rows'[i].cid = rows[i].cid
      /\ rows'[i].live = rows[i].live /\ rows'[i].old = rows[i].old
  BY <1>2, <1>4 DEF RowRecord, Final
<1>6. rows' \in [DOMAIN rows -> RowRecord]
  BY <1>2, <1>4, <1>5
<1>7. \A j \in DOMAIN rows : rows[j].live => open /\ ~rows[j].old
  BY <1>1 DEF LiveLines
<1>8. DOMAIN mem' = DOMAIN mem
  BY <1>2
<1>9. RowsAge
  BY <1>3, <1>5, <1>6, <1>7, <1>8, CallsAsTheyWere DEF RowsAge
<1> QED
  BY <1>3, <1>9, CallsAsTheyWere, RowsAgeStep

(* DeleteCommandRequest: aiLineDeleteRefusal keeps a live line in memory.  *)
LEMMA DeleteCommandRequestKeeps ==
  ASSUME FilingInv, NEW i \in DOMAIN rows, DeleteCommandRequest(i)
  PROVE  FilingInv'
<1>1. RowsTyped /\ LiveLines
  BY DEF FilingInv
<1>2. /\ rows' = [rows EXCEPT ![i].deleted = TRUE] /\ DOMAIN mem' = DOMAIN mem \ {i}
      /\ ~rows[i].live /\ calls' = calls /\ open' = open
  BY DEF DeleteCommandRequest, aiLineDeleteRefusal
<1>3. rows \in [DOMAIN rows -> RowRecord]
  BY <1>1 DEF RowsTyped
<1>4. /\ DOMAIN rows' = DOMAIN rows
      /\ \A j \in DOMAIN rows : j # i => rows'[j] = rows[j]
      /\ rows'[i] \in RowRecord
      /\ rows'[i].agent = rows[i].agent /\ rows'[i].cid = rows[i].cid
      /\ rows'[i].live = rows[i].live /\ rows'[i].old = rows[i].old
  BY <1>2, <1>3 DEF RowRecord
<1>5. rows' \in [DOMAIN rows -> RowRecord]
  BY <1>2, <1>3, <1>4
<1>6. \A j \in DOMAIN rows : rows[j].live => open /\ ~rows[j].old
  BY <1>1 DEF LiveLines
<1>7. RowsAge
  BY <1>2, <1>4, <1>5, <1>6, CallsAsTheyWere DEF RowsAge
<1> QED
  BY <1>2, <1>7, CallsAsTheyWere, RowsAgeStep

(* A new session has no lines yet.                                         *)
LEMMA OpenSessionKeeps ==
  ASSUME FilingInv, OpenSession
  PROVE  FilingInv'
<1>1. RowsTyped /\ LiveLines /\ CallsTyped
  BY DEF FilingInv
<1>2. rows' = rows /\ mem' = mem /\ calls' = calls /\ open' = TRUE
  BY DEF OpenSession
<1>3. keys' = keys /\ refs' = refs /\ holder' = holder /\ call' = call /\ blind' = blind
  BY <1>2 DEF calls
<1>4. rows \in [DOMAIN rows -> RowRecord]
  BY <1>1 DEF RowsTyped
<1>5. \A j \in DOMAIN rows : rows[j].live => ~rows[j].old
  BY <1>1 DEF LiveLines
<1>6. RowsAge
  BY <1>2, <1>3, <1>4, <1>5 DEF RowsAge
<1>7. CallsStay
  BY <1>1, <1>2, <1>3 DEF CallsStay, CallsTyped
<1> QED
  BY <1>6, <1>7, RowsAgeStep

(* What the end of a session does to a row ...                             *)
LEMMA DeadRow ==
  ASSUME NEW r \in RowRecord
  PROVE  LET d == [r EXCEPT !.live = FALSE]
         IN  /\ r # Free /\ d \in RowRecord /\ d.agent = r.agent /\ d.cid = r.cid
             /\ d.old = r.old /\ ~d.live
<1>1. "agent" \in DOMAIN r /\ "agent" \notin DOMAIN Free
  BY DEF RowRecord, Free
<1> QED
  BY <1>1 DEF RowRecord

(* ... and to a call.                                                      *)
LEMMA DeadCall ==
  ASSUME NEW r \in CallRecord
  PROVE  LET d == [r EXCEPT !.live = FALSE]
         IN  /\ d \in CallRecord /\ d.pc = r.pc /\ d.agent = r.agent /\ d.cid = r.cid
             /\ d.lock = r.lock /\ d.id = r.id /\ ~d.live
BY DEF CallRecord

(* The end of a session changes no key, no lock and no age.                *)
LEMMA CloseSessionKeeps ==
  ASSUME FilingInv, CloseSession
  PROVE  FilingInv'
<1>1. RowsTyped /\ CallsTyped
  BY DEF FilingInv
<1>2. /\ rows' = Dead(rows) /\ call' = Dead(call) /\ mem' = mem
      /\ keys' = keys /\ refs' = refs /\ holder' = holder /\ blind' = blind
  BY DEF CloseSession
<1>3. rows \in [DOMAIN rows -> RowRecord]
  BY <1>1 DEF RowsTyped
<1>4. \A i \in DOMAIN rows : rows[i] # Free
  BY <1>3, DeadRow
<1>5. /\ DOMAIN rows' = DOMAIN rows
      /\ \A i \in DOMAIN rows : rows'[i] = [rows[i] EXCEPT !.live = FALSE]
  BY <1>2, <1>4 DEF Dead
<1>6. \A i \in DOMAIN rows :
        /\ rows'[i] \in RowRecord /\ rows'[i].agent = rows[i].agent
        /\ rows'[i].cid = rows[i].cid /\ rows'[i].old = rows[i].old /\ ~rows'[i].live
  BY <1>3, <1>5, DeadRow
<1>7. rows' \in [DOMAIN rows -> RowRecord]
  BY <1>2, <1>5, <1>6 DEF Dead
<1>8. RowsAge
  BY <1>2, <1>5, <1>6, <1>7 DEF RowsAge
<1>9. ASSUME NEW c \in Calls
      PROVE  /\ call'[c] \in CallRecord \cup {Free} /\ call'[c].pc = call[c].pc
             /\ call[c].pc # "idle" =>
                  /\ call'[c].agent = call[c].agent /\ call'[c].cid = call[c].cid
                  /\ call'[c].lock = call[c].lock /\ call'[c].id = call[c].id
                  /\ ~call'[c].live
  <2>1. DOMAIN call = Calls /\ Free.pc = "idle" /\ call[c] \in CallRecord \cup {Free}
    BY <1>1 DEF CallsTyped, Free
  <2>2. CASE call[c] = Free
    BY <1>2, <2>1, <2>2 DEF Dead
  <2>3. CASE call[c] # Free
    <3>1. call[c] \in CallRecord /\ call'[c] = [call[c] EXCEPT !.live = FALSE]
      BY <1>2, <2>1, <2>3 DEF Dead
    <3> QED
      BY <3>1, DeadCall
  <2> QED
    BY <2>2, <2>3
<1>10. call' \in [Calls -> CallRecord \cup {Free}]
  <2>1. DOMAIN call = Calls
    BY <1>1 DEF CallsTyped
  <2>2. call' = [x \in Calls |-> call'[x]]
    BY <1>2, <2>1 DEF Dead
  <2> QED
    BY <1>9, <2>2
<1>11. CallsStay
  BY <1>2, <1>9, <1>10 DEF CallsStay
<1> QED
  BY <1>8, <1>11, RowsAgeStep

(* A day passes while no session is open, so no line of one grows old.     *)
LEMMA DayKeeps ==
  ASSUME FilingInv, Day
  PROVE  FilingInv'
<1>1. RowsTyped /\ LiveLines
  BY DEF FilingInv
<1>2. /\ ~open /\ open' = open /\ mem' = mem /\ calls' = calls
      /\ rows' = [i \in DOMAIN rows |-> [rows[i] EXCEPT !.old = TRUE]]
  BY DEF Day
<1>3. rows \in [DOMAIN rows -> RowRecord]
  BY <1>1 DEF RowsTyped
<1>4. \A i \in DOMAIN rows : ~rows[i].live
  BY <1>1, <1>2 DEF LiveLines
<1>5. ASSUME NEW i \in DOMAIN rows
      PROVE  /\ rows'[i] \in RowRecord /\ rows'[i].agent = rows[i].agent
             /\ rows'[i].cid = rows[i].cid /\ rows'[i].live = rows[i].live /\ rows'[i].old
  <2>1. rows[i] \in RowRecord /\ rows'[i] = [rows[i] EXCEPT !.old = TRUE]
    BY <1>2, <1>3
  <2> QED
    BY <2>1 DEF RowRecord
<1>6. DOMAIN rows' = DOMAIN rows /\ rows' \in [DOMAIN rows -> RowRecord]
  BY <1>2, <1>5
<1>7. RowsAge
  BY <1>2, <1>4, <1>5, <1>6, CallsAsTheyWere DEF RowsAge
<1> QED
  BY <1>2, <1>7, CallsAsTheyWere, RowsAgeStep

(* After a crash no call is at work and no session is open; the rows and   *)
(* their keys stay.                                                        *)
LEMMA RestartKeeps ==
  ASSUME CallsAreNamed, FilingInv, Restart
  PROVE  FilingInv'
<1>1. RowsTyped /\ OneRequestPerKey
  BY DEF FilingInv
<1>2. rows' = [i \in DOMAIN rows |->
        [rows[i] EXCEPT !.status = IF @ = "running" THEN Final ELSE @, !.live = FALSE]]
  BY Zenon DEF Restart
<1>2a. /\ keys' = [k \in Keys |-> Nil] /\ refs' = [l \in Locks |-> 0]
       /\ holder' = [l \in Locks |-> Nil] /\ call' = [c \in Calls |-> Free]
       /\ open' = FALSE /\ blind' = blind
  BY Zenon DEF Restart
<1>3. PICK n \in Nat : rows \in [1..n -> RowRecord]
  BY <1>1 DEF RowsTyped
<1>4. ASSUME NEW i \in DOMAIN rows
      PROVE  /\ rows'[i] \in RowRecord /\ rows'[i].agent = rows[i].agent
             /\ rows'[i].cid = rows[i].cid /\ ~rows'[i].live /\ rows'[i].old = rows[i].old
  <2>1. rows[i] \in RowRecord
    BY <1>3
  <2>2. PICK s \in {"pending", "running", "final"} :
          s = IF rows[i].status = "running" THEN Final ELSE rows[i].status
    BY <2>1 DEF RowRecord, Final
  <2>3. rows'[i] = [rows[i] EXCEPT !.status = s, !.live = FALSE]
    BY Zenon, <1>2, <2>2
  <2> QED
    BY <2>1, <2>3 DEF RowRecord
<1>5. DOMAIN rows' = DOMAIN rows /\ rows' \in [1..n -> RowRecord]
  BY Zenon, <1>2, <1>3, <1>4
<1>6. DOMAIN mem' \subseteq DOMAIN rows
  BY Zenon DEF Restart, Newest
<1>7. RowsTyped'
  BY <1>5, <1>6 DEF RowsTyped
<1>8. \A c \in Calls : call'[c].pc = "idle"
  BY <1>2a DEF Free
<1>9. CallsTyped'
  BY <1>2a DEF CallsTyped
<1>10. LocksFit'
  <2>1. \A l \in Locks : Users(l)' = {}
    BY <1>8 DEF Users
  <2>2. \A l \in Locks : refs'[l] = Cardinality(Users(l)')
    BY <1>2a, <2>1, FS_EmptySet
  <2> QED
    BY <1>8, <2>2 DEF LocksFit, Within
<1>11. LooksHold' /\ LiveLines' /\ LineOncePerSession'
  BY <1>4, <1>5, <1>8 DEF LooksHold, LiveLines, LineOncePerSession
<1>12. OneRequestPerKey'
  <2>1. \A i \in DOMAIN rows : KeyOf(rows'[i]) = KeyOf(rows[i])
    BY <1>4 DEF KeyOf
  <2>2. ASSUME NEW i \in DOMAIN rows', NEW j \in DOMAIN rows', i < j,
               KeyOf(rows'[i]) = KeyOf(rows'[j]), ~rows'[i].old, ~rows'[j].old
        PROVE  j \in blind'
    <3>1. i \in DOMAIN rows /\ j \in DOMAIN rows /\ ~rows[i].old /\ ~rows[j].old
      BY <1>4, <1>5, <2>2
    <3> QED
      BY <1>1, <1>2a, <2>1, <2>2, <3>1 DEF OneRequestPerKey, Young
  <2> QED
    BY <2>2 DEF OneRequestPerKey, Young
<1> QED
  BY <1>7, <1>9, <1>10, <1>11, <1>12 DEF FilingInv

(* The invariant holds at the start, when nothing is filed.                *)
LEMMA FilingInit ==
  ASSUME CallsAreNamed, CallsInit
  PROVE  FilingInv
<1>1. rows = <<>> /\ mem = <<>> /\ DOMAIN rows = {} /\ DOMAIN mem = {}
  BY DEF CallsInit
<1>2. RowsTyped
  <2>1. rows \in [1..0 -> RowRecord]
    BY <1>1
  <2> QED
    BY <1>1, <2>1 DEF RowsTyped
<1>3. \A c \in Calls : call[c].pc = "idle"
  BY DEF CallsInit, Free
<1>4. CallsTyped
  BY DEF CallsInit, CallsTyped
<1>5. LocksFit
  <2>1. \A l \in Locks : Users(l) = {}
    BY <1>3 DEF Users
  <2>2. \A l \in Locks : refs[l] = Cardinality(Users(l))
    BY <2>1, FS_EmptySet DEF CallsInit
  <2> QED
    BY <1>3, <2>2 DEF LocksFit, Within
<1>6. LooksHold /\ LiveLines /\ LineOncePerSession /\ OneRequestPerKey
  BY <1>1, <1>3 DEF LooksHold, LiveLines, LineOncePerSession, OneRequestPerKey
<1> QED
  BY <1>2, <1>4, <1>5, <1>6 DEF FilingInv

(* Every step keeps the invariant.                                         *)
LEMMA FilingStep ==
  ASSUME CallsAreNamed, FilingInv, [CallsNext]_callsVars
  PROVE  FilingInv'
<1>1. ASSUME NEW c \in Calls, CallNext(c) PROVE FilingInv'
  BY <1>1, LockKeyKeeps, AcquireKeeps, LookupLineKeeps, LookupCommandKeeps, RefusedKeeps,
     InsertKeeps, PublishKeeps, UnlockKeeps, DropRefKeeps DEF CallNext
<1>2. ASSUME NEW p \in Polls, PollNext(p) PROVE FilingInv'
  <2>1. rows' = rows /\ mem' = mem /\ calls' = calls /\ open' = open
    BY <1>2 DEF PollNext, Ask, Enter, Wait, Wake, CtxEnds, CtxFires
  <2> QED
    BY <2>1, SilentKeeps
<1>3. ASSUME NEW i \in DOMAIN rows, Transition(i) \/ DeleteCommandRequest(i) PROVE FilingInv'
  BY <1>3, TransitionKeeps, DeleteCommandRequestKeeps
<1>4. CASE OpenSession \/ CloseSession \/ Day \/ Restart
  BY <1>4, OpenSessionKeeps, CloseSessionKeeps, DayKeeps, RestartKeeps
<1>5. CASE UNCHANGED callsVars
  BY <1>5, SilentKeeps DEF callsVars
<1> QED
  BY <1>1, <1>2, <1>3, <1>4, <1>5 DEF CallsNext

(* FilingInv is an invariant of execute_command and send_line calls with a *)
(* client_request_id: lockKey's count is the number of calls under the key *)
(* (mcp_status.go), the mutex has one holder, a call about to file has not *)
(* missed a request in memory, and a line of the open session is in memory *)
(* or about to be.                                                         *)
THEOREM FilingInvariant == CallsSpec => []FilingInv
<1>1. CallsInit => FilingInv
  BY ClientCallsAssumption, FilingInit
<1>2. FilingInv /\ [CallsNext]_callsVars => FilingInv'
  BY ClientCallsAssumption, FilingStep
<1> QED
  BY <1>1, <1>2, PTL DEF CallsSpec

(* However many calls with one client_request_id overlap, fail, crash and  *)
(* are retried, its agent has one request younger than 24 hours under it,  *)
(* unless the second was filed while the first had left memory: lockKey,   *)
(* existingClientRequest and recordCommandRequest between them never file  *)
(* a request that a lookup could have seen.                                *)
THEOREM RetriesFileOnce == CallsSpec => []OneRequestPerKey
<1>1. FilingInv => OneRequestPerKey
  BY DEF FilingInv
<1> QED
  BY <1>1, FilingInvariant, PTL

(* send_line looks only in memory, and still never files a line twice to   *)
(* one session: aiLineDeleteRefusal keeps the lines of an open session in  *)
(* memory, and neither a day nor a restart leaves a session open.          *)
THEOREM LinesAreSentOnce == CallsSpec => []LineOncePerSession
<1>1. FilingInv => LineOncePerSession
  BY DEF FilingInv
<1> QED
  BY <1>1, FilingInvariant, PTL
=============================================================================
