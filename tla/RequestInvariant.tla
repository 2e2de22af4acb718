-------------------------- MODULE RequestInvariant --------------------------
(***************************************************************************)
(* The inductive invariant behind the safety properties of                 *)
(* RequestLifecycle: who owns a request at each point of a call, and what  *)
(* the list in memory, the table and the registry say of it meanwhile.     *)
(***************************************************************************)
EXTENDS RequestLifecycle

Filing == {"queueing", "queued", "bypassing", "slot", "recording", "recorded"}
Deciding == {"approving", "reserved"}
RunnerPCs == {"decided", "ssh", "ended"}
Registered == {"reserved", "recording", "recorded", "finished"} \cup RunnerPCs
Undecided == {None, "pending", "rejected", "expired"}

(* What finishRequest may record for a run that was in state `from`.       *)
Outcomes(from) ==
    IF from = "running" THEN {"succeeded", "failed", "interrupted"}
                        ELSE {"auto_succeeded", "auto_failed", "interrupted"}

(* The local variables of a call fit the place it is at.                   *)
JobsFit ==
    \A w \in Workers :
        /\ pc[w] = "idle" => job[w] = NoJob
        /\ pc[w] # "idle" => job[w].req \in Requests
        /\ pc[w] \in {"bypassing", "slot", "recording", "recorded"} => job[w].auto
        /\ pc[w] \in Deciding \cup {"queueing", "queued"} => ~job[w].auto
        /\ pc[w] = "ended" => job[w].outcome \in Outcomes(FromState(w))

(* A call that files a request is the only one that knows it: nothing is   *)
(* in memory, and the row is not there yet or is the one it inserted.      *)
FilersOwn ==
    \A w \in Workers : pc[w] \in Filing =>
        /\ \A v \in Workers : v # w => job[v].req # job[w].req
        /\ memStatus[job[w].req] = None
        /\ dbStatus[job[w].req] = IF pc[w] = "queued" THEN "pending"
                                  ELSE IF pc[w] = "recorded" THEN "auto_running" ELSE None
        /\ starts[job[w].req] = 0
        /\ job[w].req \notin deleted
        /\ pc[w] = "recorded" => target[job[w].req].fp = job[w].fp

(* An approval under way works on a request that was filed, and on the     *)
(* target the request named, or on none.                                   *)
DecidersKnow ==
    \A w \in Workers : pc[w] \in Deciding =>
        /\ dbStatus[job[w].req] # None
        /\ job[w].fp \in {target[job[w].req].fp, Gone}

(* A request that is run is run by one call, and memory and table both say *)
(* it is running.                                                          *)
RunnersOwn ==
    \A w \in Workers : pc[w] \in RunnerPCs =>
        /\ \A v \in Workers : v # w /\ pc[v] \in RunnerPCs => job[v].req # job[w].req
        /\ memStatus[job[w].req] = FromState(w)
        /\ dbStatus[job[w].req] = FromState(w)
        /\ pc[w] = "decided" => starts[job[w].req] = 0
        /\ job[w].fp \in {target[job[w].req].fp, Gone}

(* A row counts the starts of its command, and a hidden one is at rest.    *)
RowsHonest ==
    \A r \in Requests :
        /\ starts[r] = 0 => ranAt[r] = {}
        /\ starts[r] <= 1
        /\ starts[r] > 0 => dbStatus[r] \notin Undecided
        /\ ranAt[r] \subseteq {target[r].fp}
        /\ r \in deleted => memStatus[r] = None /\ dbStatus[r] \notin RunningStates \cup {None}

(* What is shown as running has a run, or was left so by a failed          *)
(* recovery.                                                               *)
RunningIsRun ==
    \A r \in Requests :
        memStatus[r] \in RunningStates =>
            \/ r \in orphans
            \/ \E w \in Workers : pc[w] \in RunnerPCs /\ job[w].req = r

(* a.execs holds the calls between reserveExec and release, and the ones   *)
(* counted as running have decided their request.                          *)
RegistryExact ==
    /\ \A w \in Workers : w \in execs <=> pc[w] \in Registered
    /\ \A w \in active : /\ pc[w] \in RunnerPCs \cup {"finished"}
                         /\ dbStatus[job[w].req] \notin Undecided
    /\ phase = "drained" => execs = {}

(* Nothing is in memory while the process is down.                         *)
DownIsEmpty ==
    phase = "down" =>
        /\ \A w \in Workers : pc[w] = "idle"
        /\ \A r \in Requests : memStatus[r] = None
        /\ active = {}

Ownership ==
    /\ JobsFit
    /\ FilersOwn
    /\ DecidersKnow
    /\ RunnersOwn
    /\ RowsHonest
    /\ MemoryFollowsStore
    /\ RunningIsRun
    /\ RegistryExact
    /\ DownIsEmpty

(* Every call owns the request it works on, no two records of a request    *)
(* disagree, and the slots add up.  Inductive: RequestProofs.              *)
OwnershipInv == TypeOK /\ Ownership /\ SlotsBalanced
=============================================================================
