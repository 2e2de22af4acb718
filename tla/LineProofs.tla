------------------------------ MODULE LineProofs ------------------------------
(***************************************************************************)
(* However sends, approvals, expiry, closes and restarts of one AI session *)
(* race, a line is written to the remote side at most once and only after  *)
(* it was approved, in the context it was classified in, and a close       *)
(* leaves no line behind: for any number of lines, workers, failing writes *)
(* and restarts.                                                           *)
(***************************************************************************)
EXTENDS LineGate, FiniteSetTheorems, TLAPS

(* Where a goroutine can be.  The one that runs a line won it, by          *)
(* recording it or by the compare-and-swap; while it delivers, the slot of *)
(* the gate is its line's.                                                 *)
Looking == {"saw", "expire", "latest", "drop"}
Drafting == Looking \cup {"reconcile", "sending"}
Holding == {"reserved", "queue", "auto"}
Filed == {"filed", "refused", "dropping"}
Delivering == {"running", "checked", "sent", "ended", "recorded"}
Unsettled == {"decided", "undelivered", "running", "checked", "sent", "ended"}
Runs == Delivering \cup {"decided", "undelivered", "settling"}
PCs == {"idle", "approving"} \cup Drafting \cup Holding \cup Filed \cup Runs

Statuses == Unapproved \cup Running \cup Outcomes
Slots == Lines \cup {None}
Phases == {None, "reserved", "pending", "running"}
Jobs == [line : Slots, slot : Slots, outcome : Outcomes \cup {None}]

Typed ==
    /\ scene \in Scenarios
    /\ status \in [Lines -> Statuses]
    /\ lineSeq \in [Lines -> Nat]
    /\ links \in [Lines -> {"gate", "gone", None}]
    /\ overdue \in SUBSET Lines
    /\ effect \in [Lines -> Effects \cup {None}]
    /\ snap \in [Lines -> SUBSET Lines]
    /\ gateState \in {"open", "closing", "closed"}
    /\ seq \in Nat
    /\ inflight \in Slots
    /\ phase \in Phases
    /\ applied \in SUBSET Lines
    /\ sess \in {"open", "closing", "closed", "gone"}
    /\ sessRow \in BOOLEAN
    /\ closer \in {"no", "began", "withdraw", "drop", "transport", "wait", "done"}
    /\ caught \in [line : Slots, phase : Phases]
    /\ transport \in {"ready", "busy", "closed"}
    /\ pc \in [Procs -> PCs]
    /\ job \in [Procs -> Jobs]
    /\ faults \in Nat
    /\ restarts \in Nat
    /\ sent \in [Lines -> Nat]

Has(p, l, where) == pc[p] \in where /\ job[p].line = l

(* What a goroutine's place says about the line it serves.                 *)
Serves(p) ==
    /\ pc[p] = "idle" => job[p] = NoJob
    /\ pc[p] \in {"sending", "approving"} \cup Holding \cup Filed \cup Runs => job[p].line # None
    /\ pc[p] \in Drafting \cup {"reserved"} /\ job[p].line # None =>
          status[job[p].line] = None /\ lineSeq[job[p].line] = 0 /\ links[job[p].line] = None
    /\ pc[p] \in {"queue", "auto"} =>
          status[job[p].line] = None /\ lineSeq[job[p].line] # 0 /\ links[job[p].line] = None
    /\ pc[p] \in Filed \cup {"approving"} => status[job[p].line] # None
    /\ pc[p] = "dropping" /\ faults = 0 => status[job[p].line] # "pending"
    /\ pc[p] \in Unsettled => status[job[p].line] \in Running
    /\ pc[p] \in {"recorded", "settling"} => status[job[p].line] \in Running \cup Outcomes
    /\ pc[p] \in {"decided", "running", "checked"} => sent[job[p].line] = 0
    /\ pc[p] \in {"ended", "recorded"} => job[p].outcome # None

(* The slot a reconciler looks at is that of a line once recorded.         *)
Looks(p) ==
    /\ pc[p] \in Looking => job[p].slot # None /\ status[job[p].slot] # None
    /\ pc[p] = "drop" => status[job[p].slot] # "pending"

(* What a goroutine's place says about the gate.                           *)
Holds(p) ==
    /\ pc[p] \in Delivering => inflight = job[p].line /\ phase = "running"
    /\ pc[p] \in Holding =>
          /\ seq > 0
          /\ inflight = job[p].line => phase = "reserved"
          /\ gateState = "open" => inflight = job[p].line

(* A line that is being drafted has one goroutine, a line that runs has    *)
(* one runner, and one line at a time holds a sequence number.             *)
Alone(p, q) ==
    /\ job[p].line # None /\ job[p].line = job[q].line =>
          /\ pc[p] \notin Drafting \cup Holding
          /\ ~(pc[p] \in Runs /\ pc[q] \in Runs)
    /\ ~(pc[p] \in Holding /\ pc[q] \in Holding)

(* What the status of a line says.                                         *)
Kept(l) ==
    /\ status[l] \in Unapproved => sent[l] = 0
    /\ sent[l] <= 1
    /\ status[l] # None => lineSeq[l] # 0
    /\ status[l] = "pending" => links[l] # None \/ sess = "gone"
    /\ links[l] = "gate" => sess # "gone"

(* Nobody loses a line: one that runs has its runner, and one that waits   *)
(* is the gate's, or somebody is about to withdraw it.                     *)
Cared(l) ==
    faults = 0 =>
        /\ status[l] \in Running => \E p \in Procs : Has(p, l, Unsettled)
        /\ status[l] = "pending" =>
              \/ \E p \in Procs : Has(p, l, {"filed", "refused"})
              \/ inflight = l /\ phase = "pending" /\ gateState = "open"
              \/ closer = "withdraw" /\ caught.line = l

(* Nobody loses the slot either.                                           *)
Slot ==
    /\ inflight = None <=> phase = None
    /\ inflight # None => snap[inflight] = applied
    /\ phase = "pending" => status[inflight] # None
    /\ phase = "running" => \E p \in Procs : Has(p, inflight, Delivering)
    /\ faults = 0 /\ inflight # None =>
          \/ \E p \in Procs : Has(p, inflight, Holding \cup Filed \cup Runs)
          \/ phase = "pending" /\ gateState = "open"
          \/ closer \in {"withdraw", "drop"} /\ caught.line = inflight

(* The stages of a close.                                                  *)
Stages ==
    /\ sess = "open" => closer = "no"
    /\ gateState = "open" <=> closer \in {"no", "began"}
    /\ closer \in {"withdraw", "drop"} => caught.line # None

(* After a restart nothing of the session is left, but what SQLite refused *)
(* to settle.                                                              *)
Gone ==
    sess = "gone" =>
        /\ \A p \in Procs : pc[p] = "idle"
        /\ inflight = None /\ closer = "done"
        /\ faults = 0 => \A l \in Lines : status[l] \notin {"pending"} \cup Running

GateInv ==
    /\ Typed
    /\ \A p \in Procs : Serves(p) /\ Looks(p) /\ Holds(p)
    /\ \A p, q \in Procs : p # q => Alone(p, q)
    /\ \A l \in Lines : Kept(l) /\ Cared(l)
    /\ Slot /\ Stages /\ Gone

USE DEF None, NoJob, requestVars, lineVars, slotVars, gateVars, closeVars, procVars, boundVars,
        Goto, Return, FreeSlot, Running, Unapproved, Answers, Outcomes, Statuses, Slots, Phases,
        Looking, Drafting, Holding, Filed, Delivering, Unsettled, Runs, PCs, Has

LEMMA NoneIsNoLine == None \notin Lines
BY GateAssumption

USE NoneIsNoLine

(* A job's fields, and what stays a job: nothing to do, another line,      *)
(* another slot, an outcome.                                               *)
LEMMA JobFields ==
    /\ NoJob \in Jobs
    /\ \A j \in Jobs :
          /\ j.line \in Slots /\ j.slot \in Slots /\ j.outcome \in Outcomes \cup {None}
          /\ \A s \in Slots : [j EXCEPT !.line = s] \in Jobs /\ [j EXCEPT !.slot = s] \in Jobs
          /\ \A o \in Outcomes : [j EXCEPT !.outcome = o] \in Jobs
BY DEF Jobs

LEMMA NoJobIsJob == NoJob \in Jobs
BY JobFields

(* A line, by the job of the goroutine that serves it.                     *)
LEMMA MyLine ==
    ASSUME GateInv, NEW p \in Procs
    PROVE  /\ job[p] \in Jobs
           /\ job[p].line \in Slots /\ job[p].slot \in Slots
           /\ pc[p] \in {"sending", "approving"} \cup Holding \cup Filed \cup Runs =>
                 job[p].line \in Lines
           /\ pc[p] \in {"ended", "recorded"} => job[p].outcome \in Outcomes
           /\ pc[p] \in Looking => job[p].slot \in Lines
BY JobFields, ZenonT(60) DEF GateInv, Typed, Serves, Looks

(* The steps of reconcileAISessionLine: the reconciler keeps its own line,   *)
(* and drops a slot only once the line in it was decided.                    *)
LEMMA ReconcileViewStep ==
    ASSUME GateInv, UNCHANGED scene, NEW p \in Procs, ReconcileView(p)
    PROVE  GateInv'
<1> USE DEF GateInv, Typed, ReconcileView, Continue
<1> USE MyLine
<1>0. \A q \in Procs : q # p => pc'[q] = pc[q] /\ job'[q] = job[q]
  OBVIOUS
<1>a. [job[p] EXCEPT !.slot = inflight] \in Jobs /\ [job[p] EXCEPT !.slot = None] \in Jobs
  BY JobFields
<1>b. \/ pc' = [pc EXCEPT ![p] = "saw"] /\ job' = [job EXCEPT ![p].slot = inflight]
      \/ pc' = [pc EXCEPT ![p] = "idle"] /\ job' = [job EXCEPT ![p] = NoJob] /\ job[p].line = None
      \/ /\ pc' = [pc EXCEPT ![p] = "sending"]
         /\ job' = [job EXCEPT ![p].slot = None] /\ job[p].line # None
  OBVIOUS
<1>c. job'[p].line = job[p].line
  BY <1>b DEF Jobs
<1>d. \/ pc'[p] = "saw" /\ job'[p].slot = inflight
      \/ pc'[p] = "idle" /\ job'[p] = NoJob
      \/ pc'[p] = "sending" /\ job[p].line # None
  BY <1>b DEF Jobs
<1>1. Typed'
  <2>1. job' \in [Procs -> Jobs]
    BY <1>a, <1>b, <1>c, <1>d, NoJobIsJob, SMTT(30)
  <2> QED
    BY <2>1
<1>2. \A q \in Procs : Serves(q)'
  BY <1>0, <1>a, <1>b, <1>c, <1>d DEF Serves
<1>3. \A q \in Procs : Looks(q)'
  BY <1>0, <1>a, <1>b, <1>c, <1>d DEF Looks, Slot
<1>4. \A q \in Procs : Holds(q)'
  BY <1>0, <1>a, <1>b, <1>c, <1>d DEF Holds
<1>5. \A q, r \in Procs : q # r => Alone(q, r)'
  BY <1>0, <1>a, <1>b, <1>c, <1>d DEF Alone, Serves
<1>6. \A l \in Lines : Cared(l)'
  BY <1>0, <1>a, <1>b, <1>c, <1>d DEF Cared
<1>7. Slot'
  BY <1>0, <1>a, <1>b, <1>c, <1>d DEF Slot
<1>8. Gone'
  BY <1>0, <1>a, <1>b, <1>c, <1>d DEF Gone
<1>9. /\ \A l \in Lines : Kept(l)'
      /\ Stages'
  BY DEF Kept, Stages
<1> QED
  BY <1>1, <1>2, <1>3, <1>4, <1>5, <1>6, <1>7, <1>8, <1>9

LEMMA ReconcileReadStep ==
    ASSUME GateInv, UNCHANGED scene, NEW p \in Procs, ReconcileRead(p)
    PROVE  GateInv'
<1> USE DEF GateInv, Typed, ReconcileRead, Continue
<1> USE MyLine
<1>0. \A q \in Procs : q # p => pc'[q] = pc[q] /\ job'[q] = job[q]
  OBVIOUS
<1>a. [job[p] EXCEPT !.slot = None] \in Jobs
  BY JobFields
<1>b. \/ pc' = [pc EXCEPT ![p] = "expire"] /\ job' = job
      \/ pc' = [pc EXCEPT ![p] = "drop"] /\ job' = job
      \/ pc' = [pc EXCEPT ![p] = "idle"] /\ job' = [job EXCEPT ![p] = NoJob] /\ job[p].line = None
      \/ /\ pc' = [pc EXCEPT ![p] = "sending"]
         /\ job' = [job EXCEPT ![p].slot = None] /\ job[p].line # None
  OBVIOUS
<1>c. job'[p].line = job[p].line
  BY <1>b DEF Jobs
<1>d. \/ pc'[p] = "expire" /\ job' = job
      \/ pc'[p] = "drop" /\ job' = job
      \/ pc'[p] = "idle" /\ job'[p] = NoJob
      \/ pc'[p] = "sending" /\ job[p].line # None
  BY <1>b DEF Jobs
<1>1. Typed'
  <2>1. job' \in [Procs -> Jobs]
    BY <1>a, <1>b, <1>c, <1>d, NoJobIsJob, SMTT(30)
  <2> QED
    BY <2>1
<1>2. \A q \in Procs : Serves(q)'
  BY <1>0, <1>a, <1>b, <1>c, <1>d DEF Serves
<1>3. \A q \in Procs : Looks(q)'
  BY <1>0, <1>a, <1>b, <1>c, <1>d DEF Looks
<1>4. \A q \in Procs : Holds(q)'
  BY <1>0, <1>a, <1>b, <1>c, <1>d DEF Holds
<1>5. \A q, r \in Procs : q # r => Alone(q, r)'
  BY <1>0, <1>a, <1>b, <1>c, <1>d DEF Alone, Serves
<1>6. \A l \in Lines : Cared(l)'
  BY <1>0, <1>a, <1>b, <1>c, <1>d DEF Cared
<1>7. Slot'
  BY <1>0, <1>a, <1>b, <1>c, <1>d DEF Slot
<1>8. Gone'
  BY <1>0, <1>a, <1>b, <1>c, <1>d DEF Gone
<1>9. /\ \A l \in Lines : Kept(l)'
      /\ Stages'
  BY DEF Kept, Stages
<1> QED
  BY <1>1, <1>2, <1>3, <1>4, <1>5, <1>6, <1>7, <1>8, <1>9

LEMMA ReconcileExpireStep ==
    ASSUME GateInv, UNCHANGED scene, NEW p \in Procs, ReconcileExpire(p)
    PROVE  GateInv'
<1> USE DEF GateInv, Typed, ReconcileExpire, Transition, Stored
<1> USE MyLine
<1>0. \A q \in Procs : q # p => pc'[q] = pc[q] /\ job'[q] = job[q]
  OBVIOUS
<1>1. Typed'
  OBVIOUS
<1>2. \A q \in Procs : Serves(q)'
  BY <1>0 DEF Serves, Looks
<1>3. \A q \in Procs : Looks(q)'
  BY <1>0 DEF Looks
<1>4. \A q \in Procs : Holds(q)'
  BY <1>0 DEF Holds
<1>5. \A q, r \in Procs : q # r => Alone(q, r)'
  BY <1>0 DEF Alone
<1>6. \A l \in Lines : Kept(l)'
  BY <1>0 DEF Kept
<1>7. \A l \in Lines : Cared(l)'
  BY <1>0 DEF Cared
<1>8. Slot'
  BY <1>0 DEF Slot
<1>9. Gone'
  BY <1>0 DEF Gone, Looks
<1>10. Stages'
  BY DEF Stages
<1> QED
  BY <1>1, <1>2, <1>3, <1>4, <1>5, <1>6, <1>7, <1>8, <1>9, <1>10

LEMMA ReconcileLatestStep ==
    ASSUME GateInv, UNCHANGED scene, NEW p \in Procs, ReconcileLatest(p)
    PROVE  GateInv'
<1> USE DEF GateInv, Typed, ReconcileLatest, Continue
<1> USE MyLine
<1>0. \A q \in Procs : q # p => pc'[q] = pc[q] /\ job'[q] = job[q]
  OBVIOUS
<1>a. [job[p] EXCEPT !.slot = None] \in Jobs
  BY JobFields
<1>b. \/ pc' = [pc EXCEPT ![p] = "drop"] /\ job' = job
      \/ pc' = [pc EXCEPT ![p] = "idle"] /\ job' = [job EXCEPT ![p] = NoJob] /\ job[p].line = None
      \/ /\ pc' = [pc EXCEPT ![p] = "sending"]
         /\ job' = [job EXCEPT ![p].slot = None] /\ job[p].line # None
  OBVIOUS
<1>c. job'[p].line = job[p].line
  BY <1>b DEF Jobs
<1>d. \/ pc'[p] = "drop" /\ job' = job
      \/ pc'[p] = "idle" /\ job'[p] = NoJob
      \/ pc'[p] = "sending" /\ job[p].line # None
  BY <1>b DEF Jobs
<1>1. Typed'
  <2>1. job' \in [Procs -> Jobs]
    BY <1>a, <1>b, <1>c, <1>d, NoJobIsJob
  <2> QED
    BY <2>1
<1>2. \A q \in Procs : Serves(q)'
  BY <1>0, <1>a, <1>b, <1>c, <1>d DEF Serves
<1>3. \A q \in Procs : Looks(q)'
  BY <1>0, <1>a, <1>b, <1>c, <1>d DEF Looks
<1>4. \A q \in Procs : Holds(q)'
  BY <1>0, <1>a, <1>b, <1>c, <1>d DEF Holds
<1>5. \A q, r \in Procs : q # r => Alone(q, r)'
  BY <1>0, <1>a, <1>b, <1>c, <1>d DEF Alone, Serves
<1>6. \A l \in Lines : Cared(l)'
  BY <1>0, <1>a, <1>b, <1>c, <1>d DEF Cared
<1>7. Slot'
  BY <1>0, <1>a, <1>b, <1>c, <1>d DEF Slot
<1>8. Gone'
  BY <1>0, <1>a, <1>b, <1>c, <1>d DEF Gone
<1>9. /\ \A l \in Lines : Kept(l)'
      /\ Stages'
  BY DEF Kept, Stages
<1> QED
  BY <1>1, <1>2, <1>3, <1>4, <1>5, <1>6, <1>7, <1>8, <1>9

LEMMA ReconcileDropStep ==
    ASSUME GateInv, UNCHANGED scene, NEW p \in Procs, ReconcileDrop(p)
    PROVE  GateInv'
<1> USE DEF GateInv, Typed, ReconcileDrop, Continue
<1> USE MyLine
<1>0. \A q \in Procs : q # p => pc'[q] = pc[q] /\ job'[q] = job[q]
  OBVIOUS
<1>a. [job[p] EXCEPT !.slot = None] \in Jobs
  BY JobFields
<1>b. \/ pc' = [pc EXCEPT ![p] = "idle"] /\ job' = [job EXCEPT ![p] = NoJob] /\ job[p].line = None
      \/ /\ pc' = [pc EXCEPT ![p] = "sending"]
         /\ job' = [job EXCEPT ![p].slot = None] /\ job[p].line # None
  OBVIOUS
<1>c. job'[p].line = job[p].line
  BY <1>b DEF Jobs
<1>d. \/ pc'[p] = "idle" /\ job'[p] = NoJob
      \/ pc'[p] = "sending" /\ job[p].line # None
  BY <1>b DEF Jobs
<1>1. Typed'
  <2>1. job' \in [Procs -> Jobs]
    BY <1>a, <1>b, <1>c, <1>d, NoJobIsJob
  <2> QED
    BY <2>1
<1>2. \A q \in Procs : Serves(q)'
  BY <1>0, <1>a, <1>b, <1>c, <1>d DEF Serves
<1>3. \A q \in Procs : Looks(q)'
  BY <1>0, <1>a, <1>b, <1>c, <1>d DEF Looks
<1>4. \A q \in Procs : Holds(q)'
  BY <1>0, <1>a, <1>b, <1>c, <1>d DEF Holds
<1>5. \A q, r \in Procs : q # r => Alone(q, r)'
  BY <1>0, <1>a, <1>b, <1>c, <1>d DEF Alone, Serves
<1>6. \A l \in Lines : Cared(l)'
  BY <1>0, <1>a, <1>b, <1>c, <1>d DEF Cared, Looks
<1>7. Slot'
  BY <1>0, <1>a, <1>b, <1>c, <1>d DEF Slot
<1>8. Gone'
  BY <1>0, <1>a, <1>b, <1>c, <1>d DEF Gone
<1>9. /\ \A l \in Lines : Kept(l)'
      /\ Stages'
  BY DEF Kept, Stages
<1> QED
  BY <1>1, <1>2, <1>3, <1>4, <1>5, <1>6, <1>7, <1>8, <1>9

LEMMA SweepStep ==
    ASSUME GateInv, UNCHANGED scene, NEW p \in Procs, p = Sweeper, Sweep
    PROVE  GateInv'
<1> USE DEF GateInv, Typed, Sweep
<1> USE MyLine
<1>0. \A q \in Procs : q # p => pc'[q] = pc[q] /\ job'[q] = job[q]
  OBVIOUS
<1>a. [job[p] EXCEPT !.slot = inflight] \in Jobs
  BY JobFields
<1>b. job'[p].line = job[p].line /\ job'[p].slot = inflight
  BY DEF Jobs
<1>1. Typed'
  <2>1. job' \in [Procs -> Jobs]
    BY <1>a, <1>b, NoJobIsJob
  <2> QED
    BY <2>1
<1>2. \A q \in Procs : Serves(q)'
  BY <1>0, <1>a, <1>b DEF Serves
<1>3. \A q \in Procs : Looks(q)'
  BY <1>0, <1>a, <1>b DEF Looks, Slot
<1>4. \A q \in Procs : Holds(q)'
  BY <1>0, <1>a, <1>b DEF Holds
<1>5. \A q, r \in Procs : q # r => Alone(q, r)'
  BY <1>0, <1>a, <1>b DEF Alone, Serves
<1>6. \A l \in Lines : Cared(l)'
  BY <1>0, <1>a, <1>b DEF Cared
<1>7. Slot'
  BY <1>0, <1>a, <1>b DEF Slot
<1>8. Gone'
  BY <1>0, <1>a, <1>b DEF Gone
<1>9. /\ \A l \in Lines : Kept(l)'
      /\ Stages'
  BY DEF Kept, Stages
<1> QED
  BY <1>1, <1>2, <1>3, <1>4, <1>5, <1>6, <1>7, <1>8, <1>9

(* The steps of sendSessionLine: until the row is written nobody else serves *)
(* the line, and the slot and its sequence number are its own.               *)
LEMMA SendLineStep ==
    ASSUME GateInv, UNCHANGED scene, NEW p \in Procs, NEW l \in Lines, SendLine(p, l)
    PROVE  GateInv'
<1> USE DEF GateInv, Typed, SendLine
<1> USE MyLine
<1>0. \A q \in Procs : q # p => pc'[q] = pc[q] /\ job'[q] = job[q]
  OBVIOUS
<1>a. [job[p] EXCEPT !.line = l] \in Jobs
  BY JobFields
<1>b. job'[p].line = l
  BY DEF Jobs
<1>1. Typed'
  <2>1. job' \in [Procs -> Jobs]
    BY <1>a, <1>b, NoJobIsJob
  <2> QED
    BY <2>1
<1>2. \A q \in Procs : Serves(q)'
  BY <1>0, <1>a, <1>b DEF Serves
<1>3. \A q \in Procs : Looks(q)'
  BY <1>0, <1>a, <1>b DEF Looks
<1>4. \A q \in Procs : Holds(q)'
  BY <1>0, <1>a, <1>b DEF Holds
<1>5. \A q, r \in Procs : q # r => Alone(q, r)'
  BY <1>0, <1>a, <1>b DEF Alone, Serves
<1>6. \A x \in Lines : Cared(x)'
  BY <1>0, <1>a, <1>b DEF Cared
<1>7. Slot'
  BY <1>0, <1>a, <1>b DEF Slot
<1>8. Gone'
  BY <1>0, <1>a, <1>b DEF Gone
<1>9. /\ \A x \in Lines : Kept(x)'
      /\ Stages'
  BY DEF Kept, Stages
<1> QED
  BY <1>1, <1>2, <1>3, <1>4, <1>5, <1>6, <1>7, <1>8, <1>9

LEMMA SendReserveStep ==
    ASSUME GateInv, UNCHANGED scene, NEW p \in Procs, SendReserve(p)
    PROVE  GateInv'
<1> USE DEF GateInv, Typed, SendReserve
<1> USE MyLine
<1>0. \A q \in Procs : q # p => pc'[q] = pc[q] /\ job'[q] = job[q]
  OBVIOUS
<1>1. Typed'
  <2>1. job' \in [Procs -> Jobs]
    BY NoJobIsJob
  <2> QED
    BY <2>1
<1>2. \A q \in Procs : Serves(q)'
  BY <1>0 DEF Serves
<1>3. \A q \in Procs : Looks(q)'
  BY <1>0 DEF Looks
<1>4. \A q \in Procs : Holds(q)'
  BY <1>0 DEF Holds
<1>5. \A q, r \in Procs : q # r => Alone(q, r)'
  BY <1>0 DEF Alone, Serves, Holds
<1>6. \A l \in Lines : Cared(l)'
  BY <1>0 DEF Cared, Serves
<1>7. Slot'
  BY <1>0 DEF Slot, Serves
<1>8. Gone'
  BY <1>0 DEF Gone
<1>9. /\ \A l \in Lines : Kept(l)'
      /\ Stages'
  BY DEF Kept, Stages
<1> QED
  BY <1>1, <1>2, <1>3, <1>4, <1>5, <1>6, <1>7, <1>8, <1>9

LEMMA SendQueueLineStep ==
    ASSUME GateInv, UNCHANGED scene, NEW p \in Procs, SendQueueLine(p)
    PROVE  GateInv'
<1> USE DEF GateInv, Typed, SendQueueLine, Stored, Release
<1> USE MyLine
<1>0. \A q \in Procs : q # p => pc'[q] = pc[q] /\ job'[q] = job[q]
  OBVIOUS
<1>1. Typed'
  <2>1. job' = job \/ job' = [job EXCEPT ![p] = NoJob]
    OBVIOUS
  <2>2. job' \in [Procs -> Jobs]
    BY <2>1, NoJobIsJob
  <2> QED
    BY <2>2 DEF Holds
<1>2. \A q \in Procs : Serves(q)'
  BY <1>0 DEF Serves, Alone, Holds
<1>3. \A q \in Procs : Looks(q)'
  BY <1>0 DEF Looks
<1>4. \A q \in Procs : Holds(q)'
  BY <1>0 DEF Holds, Alone
<1>5. \A q, r \in Procs : q # r => Alone(q, r)'
  BY <1>0 DEF Alone, Serves
<1>6. \A l \in Lines : Kept(l)'
  BY <1>0 DEF Kept, Serves
<1>7. \A l \in Lines : Cared(l)'
  BY <1>0 DEF Cared, Serves
<1>8. Slot'
  BY <1>0 DEF Slot, Holds
<1>9. Gone'
  BY <1>0 DEF Gone
<1>10. Stages'
  BY DEF Stages
<1> QED
  BY <1>1, <1>2, <1>3, <1>4, <1>5, <1>6, <1>7, <1>8, <1>9, <1>10

(* From here on the line can be decided by others.                           *)
LEMMA SendRecordStep ==
    ASSUME GateInv, UNCHANGED scene, NEW p \in Procs, SendRecord(p)
    PROVE  GateInv'
<1> USE DEF GateInv, Typed, SendRecord, Release, Stored
<1> USE MyLine
<1>0. \A q \in Procs : q # p => pc'[q] = pc[q] /\ job'[q] = job[q]
  OBVIOUS
<1>1. Typed'
  <2>1. job' = job \/ job' = [job EXCEPT ![p] = NoJob]
    OBVIOUS
  <2>2. job' \in [Procs -> Jobs]
    BY <2>1, NoJobIsJob
  <2> QED
    BY <2>2 DEF Holds
<1>2. \A q \in Procs : Serves(q)'
  BY <1>0 DEF Serves, Alone
<1>3. \A q \in Procs : Looks(q)'
  BY <1>0 DEF Looks, Serves
<1>4. \A q \in Procs : Holds(q)'
  BY <1>0 DEF Holds, Serves, Alone
<1>5. \A q, r \in Procs : q # r => Alone(q, r)'
  BY <1>0 DEF Alone, Serves
<1>6. \A l \in Lines : Kept(l)'
  BY <1>0 DEF Kept, Serves, Gone
<1>7. \A l \in Lines : Cared(l)'
  BY <1>0 DEF Cared, Serves
<1>8. Slot'
  BY <1>0 DEF Slot, Serves, Holds
<1>9. Gone'
  BY <1>0 DEF Gone
<1>10. Stages'
  BY DEF Stages
<1> QED
  BY <1>1, <1>2, <1>3, <1>4, <1>5, <1>6, <1>7, <1>8, <1>9, <1>10

LEMMA SendMarkPendingStep ==
    ASSUME GateInv, UNCHANGED scene, NEW p \in Procs, SendMarkPending(p)
    PROVE  GateInv'
<1> USE DEF GateInv, Typed, SendMarkPending
<1> USE MyLine
<1>0. \A q \in Procs : q # p => pc'[q] = pc[q] /\ job'[q] = job[q]
  OBVIOUS
<1>1. Typed'
  <2>1. job' \in [Procs -> Jobs]
    BY NoJobIsJob
  <2> QED
    BY <2>1
<1>2. \A q \in Procs : Serves(q)'
  BY <1>0 DEF Serves
<1>3. \A q \in Procs : Looks(q)'
  BY <1>0 DEF Looks
<1>4. \A q \in Procs : Holds(q)'
  BY <1>0 DEF Holds, Serves, Alone
<1>5. \A q, r \in Procs : q # r => Alone(q, r)'
  BY <1>0 DEF Alone, Serves
<1>6. \A l \in Lines : Cared(l)'
  BY <1>0 DEF Cared
<1>7. Slot'
  BY <1>0 DEF Slot, Serves
<1>8. Gone'
  BY <1>0 DEF Gone
<1>9. /\ \A l \in Lines : Kept(l)'
      /\ Stages'
  BY DEF Kept, Stages
<1> QED
  BY <1>1, <1>2, <1>3, <1>4, <1>5, <1>6, <1>7, <1>8, <1>9

LEMMA SendWithdrawStep ==
    ASSUME GateInv, UNCHANGED scene, NEW p \in Procs, SendWithdraw(p)
    PROVE  GateInv'
<1> USE DEF GateInv, Typed, SendWithdraw, Transition, Stored
<1> USE MyLine
<1>0. \A q \in Procs : q # p => pc'[q] = pc[q] /\ job'[q] = job[q]
  OBVIOUS
<1>1. Typed'
  OBVIOUS
<1>2. \A q \in Procs : Serves(q)'
  BY <1>0 DEF Serves, Alone
<1>3. \A q \in Procs : Looks(q)'
  BY <1>0 DEF Looks
<1>4. \A q \in Procs : Holds(q)'
  BY <1>0 DEF Holds
<1>5. \A q, r \in Procs : q # r => Alone(q, r)'
  BY <1>0 DEF Alone
<1>6. \A l \in Lines : Kept(l)'
  BY <1>0 DEF Kept, Serves
<1>7. \A l \in Lines : Cared(l)'
  BY <1>0 DEF Cared, Serves
<1>8. Slot'
  BY <1>0 DEF Slot
<1>9. Gone'
  BY <1>0 DEF Gone
<1>10. Stages'
  BY DEF Stages
<1> QED
  BY <1>1, <1>2, <1>3, <1>4, <1>5, <1>6, <1>7, <1>8, <1>9, <1>10

(* The slot is given up unless the line is being delivered, by its runner.   *)
LEMMA SendDropStep ==
    ASSUME GateInv, UNCHANGED scene, NEW p \in Procs, SendDrop(p)
    PROVE  GateInv'
<1> USE DEF GateInv, Typed, SendDrop, DropOnClose
<1> USE MyLine
<1>0. \A q \in Procs : q # p => pc'[q] = pc[q] /\ job'[q] = job[q]
  OBVIOUS
<1>1. Typed'
  <2>1. job' \in [Procs -> Jobs]
    BY NoJobIsJob
  <2> QED
    BY <2>1
<1>2. \A q \in Procs : Serves(q)'
  BY <1>0 DEF Serves
<1>3. \A q \in Procs : Looks(q)'
  BY <1>0 DEF Looks
<1>4. \A q \in Procs : Holds(q)'
  BY <1>0 DEF Holds, Serves, Alone
<1>5. \A q, r \in Procs : q # r => Alone(q, r)'
  BY <1>0 DEF Alone, Serves
<1>6. \A l \in Lines : Cared(l)'
  BY <1>0 DEF Cared, Serves
<1>7. Slot'
  BY <1>0 DEF Slot
<1>8. Gone'
  BY <1>0 DEF Gone
<1>9. /\ \A l \in Lines : Kept(l)'
      /\ Stages'
  BY DEF Kept, Stages
<1> QED
  BY <1>1, <1>2, <1>3, <1>4, <1>5, <1>6, <1>7, <1>8, <1>9

LEMMA SendBusyStep ==
    ASSUME GateInv, UNCHANGED scene, NEW p \in Procs, SendBusy(p)
    PROVE  GateInv'
<1> USE DEF GateInv, Typed, SendBusy, Release
<1> USE MyLine
<1>0. \A q \in Procs : q # p => pc'[q] = pc[q] /\ job'[q] = job[q]
  OBVIOUS
<1>1. Typed'
  <2>1. job' \in [Procs -> Jobs]
    BY NoJobIsJob
  <2> QED
    BY <2>1 DEF Holds
<1>2. \A q \in Procs : Serves(q)'
  BY <1>0 DEF Serves
<1>3. \A q \in Procs : Looks(q)'
  BY <1>0 DEF Looks
<1>4. \A q \in Procs : Holds(q)'
  BY <1>0 DEF Holds, Serves, Alone
<1>5. \A q, r \in Procs : q # r => Alone(q, r)'
  BY <1>0 DEF Alone, Serves
<1>6. \A l \in Lines : Cared(l)'
  BY <1>0 DEF Cared, Serves
<1>7. Slot'
  BY <1>0 DEF Slot, Serves, Holds
<1>8. Gone'
  BY <1>0 DEF Gone
<1>9. /\ \A l \in Lines : Kept(l)'
      /\ Stages'
  BY DEF Kept, Stages
<1> QED
  BY <1>1, <1>2, <1>3, <1>4, <1>5, <1>6, <1>7, <1>8, <1>9

LEMMA SendAutoStep ==
    ASSUME GateInv, UNCHANGED scene, NEW p \in Procs, SendAuto(p)
    PROVE  GateInv'
<1> USE DEF GateInv, Typed, SendAuto, Release, Stored
<1> USE MyLine
<1>0. \A q \in Procs : q # p => pc'[q] = pc[q] /\ job'[q] = job[q]
  OBVIOUS
<1>1. Typed'
  <2>1. job' = job \/ job' = [job EXCEPT ![p] = NoJob]
    OBVIOUS
  <2>2. job' \in [Procs -> Jobs]
    BY <2>1, NoJobIsJob
  <2> QED
    BY <2>2 DEF Holds
<1>2. \A q \in Procs : Serves(q)'
  <2>1. Serves(p)'
    BY <1>0 DEF Serves, Alone, Kept
  <2>2. \A q \in Procs : q # p => Serves(q)'
    BY <1>0 DEF Serves, Alone, Kept
  <2> QED
    BY <2>1, <2>2
<1>3. \A q \in Procs : Looks(q)'
  BY <1>0 DEF Looks, Serves
<1>4. \A q \in Procs : Holds(q)'
  BY <1>0 DEF Holds, Serves, Alone
<1>5. \A q, r \in Procs : q # r => Alone(q, r)'
  BY <1>0 DEF Alone, Serves
<1>6. \A l \in Lines : Kept(l)'
  BY <1>0 DEF Kept, Serves, Gone
<1>7. \A l \in Lines : Cared(l)'
  BY <1>0 DEF Cared, Serves
<1>8. Slot'
  BY <1>0 DEF Slot, Serves, Holds
<1>9. Gone'
  BY <1>0 DEF Gone
<1>10. Stages'
  BY DEF Stages
<1> QED
  BY <1>1, <1>2, <1>3, <1>4, <1>5, <1>6, <1>7, <1>8, <1>9, <1>10

(* The decisions on a pending line.                                          *)
LEMMA ApproveStep ==
    ASSUME GateInv, UNCHANGED scene, NEW p \in Procs, NEW l \in Lines, Approve(p, l)
    PROVE  GateInv'
<1> USE DEF GateInv, Typed, Approve
<1> USE MyLine
<1>0. \A q \in Procs : q # p => pc'[q] = pc[q] /\ job'[q] = job[q]
  OBVIOUS
<1>a. [job[p] EXCEPT !.line = l] \in Jobs
  BY JobFields
<1>b. job'[p].line = l
  BY DEF Jobs
<1>1. Typed'
  <2>1. job' \in [Procs -> Jobs]
    BY <1>a, <1>b, NoJobIsJob
  <2> QED
    BY <2>1
<1>2. \A q \in Procs : Serves(q)'
  BY <1>0, <1>a, <1>b DEF Serves
<1>3. \A q \in Procs : Looks(q)'
  BY <1>0, <1>a, <1>b DEF Looks
<1>4. \A q \in Procs : Holds(q)'
  BY <1>0, <1>a, <1>b DEF Holds
<1>5. \A q, r \in Procs : q # r => Alone(q, r)'
  BY <1>0, <1>a, <1>b DEF Alone, Serves
<1>6. \A x \in Lines : Cared(x)'
  BY <1>0, <1>a, <1>b DEF Cared
<1>7. Slot'
  BY <1>0, <1>a, <1>b DEF Slot
<1>8. Gone'
  BY <1>0, <1>a, <1>b DEF Gone
<1>9. /\ \A x \in Lines : Kept(x)'
      /\ Stages'
  BY DEF Kept, Stages
<1> QED
  BY <1>1, <1>2, <1>3, <1>4, <1>5, <1>6, <1>7, <1>8, <1>9

LEMMA ApproveOverdueStep ==
    ASSUME GateInv, UNCHANGED scene, NEW p \in Procs, NEW l \in Lines, ApproveOverdue(p, l)
    PROVE  GateInv'
<1> USE DEF GateInv, Typed, ApproveOverdue, Transition, Stored
<1> USE MyLine
<1>0. \A q \in Procs : q # p => pc'[q] = pc[q] /\ job'[q] = job[q]
  OBVIOUS
<1>1. Typed'
  OBVIOUS
<1>2. \A q \in Procs : Serves(q)'
  BY <1>0 DEF Serves
<1>3. \A q \in Procs : Looks(q)'
  BY <1>0 DEF Looks
<1>4. \A q \in Procs : Holds(q)'
  BY <1>0 DEF Holds
<1>5. \A q, r \in Procs : q # r => Alone(q, r)'
  BY <1>0 DEF Alone, Serves
<1>6. \A x \in Lines : Kept(x)'
  BY <1>0 DEF Kept
<1>7. \A x \in Lines : Cared(x)'
  BY <1>0 DEF Cared
<1>8. Slot'
  BY <1>0 DEF Slot
<1>9. Gone'
  BY <1>0 DEF Gone, Kept
<1>10. Stages'
  BY DEF Stages
<1> QED
  BY <1>1, <1>2, <1>3, <1>4, <1>5, <1>6, <1>7, <1>8, <1>9, <1>10

LEMMA ApproveRefusedStep ==
    ASSUME GateInv, UNCHANGED scene, NEW p \in Procs, ApproveRefused(p)
    PROVE  GateInv'
<1> USE DEF GateInv, Typed, ApproveRefused
<1> USE MyLine
<1>0. \A q \in Procs : q # p => pc'[q] = pc[q] /\ job'[q] = job[q]
  OBVIOUS
<1>1. Typed'
  <2>1. job' \in [Procs -> Jobs]
    BY NoJobIsJob
  <2> QED
    BY <2>1
<1>2. \A q \in Procs : Serves(q)'
  BY <1>0 DEF Serves
<1>3. \A q \in Procs : Looks(q)'
  BY <1>0 DEF Looks
<1>4. \A q \in Procs : Holds(q)'
  BY <1>0 DEF Holds
<1>5. \A q, r \in Procs : q # r => Alone(q, r)'
  BY <1>0 DEF Alone, Serves
<1>6. \A l \in Lines : Cared(l)'
  BY <1>0 DEF Cared
<1>7. Slot'
  BY <1>0 DEF Slot
<1>8. Gone'
  BY <1>0 DEF Gone
<1>9. /\ \A l \in Lines : Kept(l)'
      /\ Stages'
  BY DEF Kept, Stages
<1> QED
  BY <1>1, <1>2, <1>3, <1>4, <1>5, <1>6, <1>7, <1>8, <1>9

(* The winner of the compare-and-swap becomes the runner: a pending line has *)
(* none, and was never sent.                                                 *)
LEMMA ApproveTransitionStep ==
    ASSUME GateInv, UNCHANGED scene, NEW p \in Procs, ApproveTransition(p)
    PROVE  GateInv'
<1> USE DEF GateInv, Typed, ApproveTransition, Transition, Stored
<1> USE MyLine
<1>0. \A q \in Procs : q # p => pc'[q] = pc[q] /\ job'[q] = job[q]
  OBVIOUS
<1>1. Typed'
  <2>1. job' \in [Procs -> Jobs]
    BY NoJobIsJob
  <2> QED
    BY <2>1
<1>2. \A q \in Procs : Serves(q)'
  <2>1. Serves(p)'
    BY <1>0 DEF Serves, Alone, Kept
  <2>2. \A q \in Procs : q # p => Serves(q)'
    BY <1>0 DEF Serves, Alone, Kept
  <2> QED
    BY <2>1, <2>2
<1>3. \A q \in Procs : Looks(q)'
  BY <1>0 DEF Looks
<1>4. \A q \in Procs : Holds(q)'
  BY <1>0 DEF Holds
<1>5. \A q, r \in Procs : q # r => Alone(q, r)'
  BY <1>0 DEF Alone, Serves
<1>6. \A l \in Lines : Kept(l)'
  BY <1>0 DEF Kept
<1>7. \A l \in Lines : Cared(l)'
  BY <1>0 DEF Cared
<1>8. Slot'
  BY <1>0 DEF Slot
<1>9. Gone'
  BY <1>0 DEF Gone
<1>10. Stages'
  BY DEF Stages
<1> QED
  BY <1>1, <1>2, <1>3, <1>4, <1>5, <1>6, <1>7, <1>8, <1>9, <1>10

LEMMA RejectCommandStep ==
    ASSUME GateInv, UNCHANGED scene, NEW l \in Lines, RejectCommand(l)
    PROVE  GateInv'
<1> USE DEF GateInv, Typed, RejectCommand
<1>1. Typed'
  OBVIOUS
<1>2. \A q \in Procs : Serves(q)'
  BY DEF Serves
<1>3. \A q \in Procs : Looks(q)'
  BY DEF Looks
<1>4. \A x \in Lines : Kept(x)'
  BY DEF Kept
<1>5. \A x \in Lines : Cared(x)'
  BY DEF Cared
<1>6. Slot'
  BY DEF Slot
<1>7. Gone'
  BY DEF Gone
<1>8. /\ \A q \in Procs : Holds(q)'
      /\ \A q, r \in Procs : q # r => Alone(q, r)'
      /\ Stages'
  BY DEF Holds, Alone, Stages
<1> QED
  BY <1>1, <1>2, <1>3, <1>4, <1>5, <1>6, <1>7, <1>8

LEMMA LapseStep ==
    ASSUME GateInv, UNCHANGED scene, NEW l \in Lines, Lapse(l)
    PROVE  GateInv'
<1> USE DEF GateInv, Typed, Lapse
<1>1. Typed'
  OBVIOUS
<1>2. /\ \A q \in Procs : Serves(q)' /\ Looks(q)' /\ Holds(q)'
      /\ \A q, r \in Procs : q # r => Alone(q, r)'
      /\ \A x \in Lines : Kept(x)' /\ Cared(x)'
      /\ Slot' /\ Stages' /\ Gone'
  BY DEF Serves, Looks, Holds, Alone, Kept, Cared, Slot, Stages, Gone
<1> QED
  BY <1>1, <1>2

LEMMA ExpireRequestStep ==
    ASSUME GateInv, UNCHANGED scene, NEW l \in Lines, ExpireRequest(l)
    PROVE  GateInv'
<1> USE DEF GateInv, Typed, ExpireRequest
<1>1. Typed'
  OBVIOUS
<1>2. \A q \in Procs : Serves(q)'
  BY DEF Serves
<1>3. \A q \in Procs : Looks(q)'
  BY DEF Looks
<1>4. \A x \in Lines : Kept(x)'
  BY DEF Kept
<1>5. \A x \in Lines : Cared(x)'
  BY DEF Cared
<1>6. Slot'
  BY DEF Slot
<1>7. Gone'
  BY DEF Gone
<1>8. /\ \A q \in Procs : Holds(q)'
      /\ \A q, r \in Procs : q # r => Alone(q, r)'
      /\ Stages'
  BY DEF Holds, Alone, Stages
<1> QED
  BY <1>1, <1>2, <1>3, <1>4, <1>5, <1>6, <1>7, <1>8

LEMMA ApprovePlainStep ==
    ASSUME GateInv, UNCHANGED scene, NEW l \in Lines, ApprovePlain(l)
    PROVE  GateInv'
<1> USE DEF GateInv, Typed, ApprovePlain
<1>1. Typed'
  OBVIOUS
<1>2. \A q \in Procs : Serves(q)'
  BY DEF Serves
<1>3. \A q \in Procs : Looks(q)'
  BY DEF Looks
<1>4. \A x \in Lines : Kept(x)'
  BY DEF Kept
<1>5. \A x \in Lines : Cared(x)'
  BY DEF Cared, Kept, Gone
<1>6. Slot'
  BY DEF Slot
<1>7. Gone'
  BY DEF Gone
<1>8. /\ \A q \in Procs : Holds(q)'
      /\ \A q, r \in Procs : q # r => Alone(q, r)'
      /\ Stages'
  BY DEF Holds, Alone, Stages
<1> QED
  BY <1>1, <1>2, <1>3, <1>4, <1>5, <1>6, <1>7, <1>8

(* The runner's steps: nobody else runs the line, so its slot, its status    *)
(* and its place in the history are the runner's own.                        *)
LEMMA DeliverStep ==
    ASSUME GateInv, UNCHANGED scene, NEW p \in Procs, Deliver(p)
    PROVE  GateInv'
<1> USE DEF GateInv, Typed, Deliver
<1> USE MyLine
<1>0. \A q \in Procs : q # p => pc'[q] = pc[q] /\ job'[q] = job[q]
  OBVIOUS
<1>1. Typed'
  OBVIOUS
<1>2. \A q \in Procs : Serves(q)'
  BY <1>0 DEF Serves
<1>3. \A q \in Procs : Looks(q)'
  BY <1>0 DEF Looks
<1>4. \A q \in Procs : Holds(q)'
  BY <1>0 DEF Holds, Serves, Alone
<1>5. \A q, r \in Procs : q # r => Alone(q, r)'
  BY <1>0 DEF Alone
<1>6. \A l \in Lines : Cared(l)'
  BY <1>0 DEF Cared, Serves
<1>7. Slot'
  BY <1>0 DEF Slot
<1>8. Gone'
  BY <1>0 DEF Gone
<1>9. /\ \A l \in Lines : Kept(l)'
      /\ Stages'
  BY DEF Kept, Stages
<1> QED
  BY <1>1, <1>2, <1>3, <1>4, <1>5, <1>6, <1>7, <1>8, <1>9

LEMMA RecordUndeliveredStep ==
    ASSUME GateInv, UNCHANGED scene, NEW p \in Procs, RecordUndelivered(p)
    PROVE  GateInv'
<1> USE DEF GateInv, Typed, RecordUndelivered, Transition, Stored
<1> USE MyLine
<1>0. \A q \in Procs : q # p => pc'[q] = pc[q] /\ job'[q] = job[q]
  OBVIOUS
<1>1. Typed'
  OBVIOUS
<1>2. \A q \in Procs : Serves(q)'
  BY <1>0 DEF Serves, Alone
<1>3. \A q \in Procs : Looks(q)'
  BY <1>0 DEF Looks
<1>4. \A q \in Procs : Holds(q)'
  BY <1>0 DEF Holds
<1>5. \A q, r \in Procs : q # r => Alone(q, r)'
  BY <1>0 DEF Alone
<1>6. \A l \in Lines : Kept(l)'
  BY <1>0 DEF Kept, Serves
<1>7. \A l \in Lines : Cared(l)'
  BY <1>0 DEF Cared
<1>8. Slot'
  BY <1>0 DEF Slot
<1>9. Gone'
  BY <1>0 DEF Gone
<1>10. Stages'
  BY DEF Stages
<1> QED
  BY <1>1, <1>2, <1>3, <1>4, <1>5, <1>6, <1>7, <1>8, <1>9, <1>10

LEMMA FinishUndeliveredStep ==
    ASSUME GateInv, UNCHANGED scene, NEW p \in Procs, FinishUndelivered(p)
    PROVE  GateInv'
<1> USE DEF GateInv, Typed, FinishUndelivered
<1> USE MyLine
<1>0. \A q \in Procs : q # p => pc'[q] = pc[q] /\ job'[q] = job[q]
  OBVIOUS
<1>1. Typed'
  <2>1. job' \in [Procs -> Jobs]
    BY NoJobIsJob
  <2> QED
    BY <2>1
<1>2. \A q \in Procs : Serves(q)'
  BY <1>0 DEF Serves
<1>3. \A q \in Procs : Looks(q)'
  BY <1>0 DEF Looks
<1>4. \A q \in Procs : Holds(q)'
  BY <1>0 DEF Holds, Serves, Alone
<1>5. \A q, r \in Procs : q # r => Alone(q, r)'
  BY <1>0 DEF Alone, Serves
<1>6. \A l \in Lines : Cared(l)'
  BY <1>0 DEF Cared, Serves
<1>7. Slot'
  BY <1>0 DEF Slot, Serves
<1>8. Gone'
  BY <1>0 DEF Gone
<1>9. /\ \A l \in Lines : Kept(l)'
      /\ Stages'
  BY DEF Kept, Stages
<1> QED
  BY <1>1, <1>2, <1>3, <1>4, <1>5, <1>6, <1>7, <1>8, <1>9

LEMMA RunOverlayStep ==
    ASSUME GateInv, UNCHANGED scene, NEW p \in Procs, RunOverlay(p)
    PROVE  GateInv'
<1> USE DEF GateInv, Typed, RunOverlay, End
<1> USE MyLine
<1>0. \A q \in Procs : q # p => pc'[q] = pc[q] /\ job'[q] = job[q]
  OBVIOUS
<1>a. \A o \in Outcomes : [job[p] EXCEPT !.outcome = o] \in Jobs
  BY JobFields
<1>b. job'[p].line = job[p].line
  BY DEF Jobs
<1>c. pc'[p] = "ended" => job'[p].outcome # None
  BY DEF Jobs
<1>1. Typed'
  <2>1. job' \in [Procs -> Jobs]
    BY <1>a, <1>b, <1>c, NoJobIsJob
  <2> QED
    BY <2>1
<1>2. \A q \in Procs : Serves(q)'
  BY <1>0, <1>a, <1>b, <1>c DEF Serves
<1>3. \A q \in Procs : Looks(q)'
  BY <1>0, <1>a, <1>b, <1>c DEF Looks
<1>4. \A q \in Procs : Holds(q)'
  BY <1>0, <1>a, <1>b, <1>c DEF Holds
<1>5. \A q, r \in Procs : q # r => Alone(q, r)'
  BY <1>0, <1>a, <1>b, <1>c DEF Alone
<1>6. \A l \in Lines : Cared(l)'
  BY <1>0, <1>a, <1>b, <1>c DEF Cared
<1>7. Slot'
  BY <1>0, <1>a, <1>b, <1>c DEF Slot
<1>8. Gone'
  BY <1>0, <1>a, <1>b, <1>c DEF Gone
<1>9. /\ \A l \in Lines : Kept(l)'
      /\ Stages'
  BY DEF Kept, Stages
<1> QED
  BY <1>1, <1>2, <1>3, <1>4, <1>5, <1>6, <1>7, <1>8, <1>9

LEMMA RunCheckStep ==
    ASSUME GateInv, UNCHANGED scene, NEW p \in Procs, RunCheck(p)
    PROVE  GateInv'
<1> USE DEF GateInv, Typed, RunCheck, End
<1> USE MyLine
<1>0. \A q \in Procs : q # p => pc'[q] = pc[q] /\ job'[q] = job[q]
  OBVIOUS
<1>a. \A o \in Outcomes : [job[p] EXCEPT !.outcome = o] \in Jobs
  BY JobFields
<1>b. job'[p].line = job[p].line
  BY DEF Jobs
<1>c. pc'[p] = "ended" => job'[p].outcome # None
  BY DEF Jobs
<1>1. Typed'
  <2>1. job' \in [Procs -> Jobs]
    BY <1>a, <1>b, <1>c, NoJobIsJob, SMTT(30)
  <2> QED
    BY <2>1
<1>2. \A q \in Procs : Serves(q)'
  BY <1>0, <1>a, <1>b, <1>c DEF Serves
<1>3. \A q \in Procs : Looks(q)'
  BY <1>0, <1>a, <1>b, <1>c DEF Looks
<1>4. \A q \in Procs : Holds(q)'
  BY <1>0, <1>a, <1>b, <1>c DEF Holds
<1>5. \A q, r \in Procs : q # r => Alone(q, r)'
  BY <1>0, <1>a, <1>b, <1>c DEF Alone
<1>6. \A l \in Lines : Cared(l)'
  BY <1>0, <1>a, <1>b, <1>c DEF Cared
<1>7. Slot'
  BY <1>0, <1>a, <1>b, <1>c DEF Slot
<1>8. Gone'
  BY <1>0, <1>a, <1>b, <1>c DEF Gone
<1>9. /\ \A l \in Lines : Kept(l)'
      /\ Stages'
  BY DEF Kept, Stages
<1> QED
  BY <1>1, <1>2, <1>3, <1>4, <1>5, <1>6, <1>7, <1>8, <1>9

(* The line goes out once: before it was not sent.                           *)
LEMMA RunStartStep ==
    ASSUME GateInv, UNCHANGED scene, NEW p \in Procs, RunStart(p)
    PROVE  GateInv'
<1> USE DEF GateInv, Typed, RunStart, End
<1> USE MyLine
<1>0. \A q \in Procs : q # p => pc'[q] = pc[q] /\ job'[q] = job[q]
  OBVIOUS
<1>a. \A o \in Outcomes : [job[p] EXCEPT !.outcome = o] \in Jobs
  BY JobFields
<1>b. job'[p].line = job[p].line
  BY DEF Jobs
<1>c. pc'[p] = "ended" => job'[p].outcome # None
  BY DEF Jobs
<1>1. Typed'
  <2>1. job' \in [Procs -> Jobs]
    BY <1>a, <1>b, <1>c, NoJobIsJob
  <2> QED
    BY <2>1
<1>2. \A q \in Procs : Serves(q)'
  BY <1>0, <1>a, <1>b, <1>c DEF Serves, Alone
<1>3. \A q \in Procs : Looks(q)'
  BY <1>0, <1>a, <1>b, <1>c DEF Looks
<1>4. \A q \in Procs : Holds(q)'
  BY <1>0, <1>a, <1>b, <1>c DEF Holds
<1>5. \A q, r \in Procs : q # r => Alone(q, r)'
  BY <1>0, <1>a, <1>b, <1>c DEF Alone
<1>6. \A l \in Lines : Kept(l)'
  BY <1>0, <1>a, <1>b, <1>c DEF Kept, Serves
<1>7. \A l \in Lines : Cared(l)'
  BY <1>0, <1>a, <1>b, <1>c DEF Cared
<1>8. Slot'
  BY <1>0, <1>a, <1>b, <1>c DEF Slot
<1>9. Gone'
  BY <1>0, <1>a, <1>b, <1>c DEF Gone
<1>10. Stages'
  BY DEF Stages
<1> QED
  BY <1>1, <1>2, <1>3, <1>4, <1>5, <1>6, <1>7, <1>8, <1>9, <1>10

LEMMA RunEndStep ==
    ASSUME GateInv, UNCHANGED scene, NEW p \in Procs, RunEnd(p)
    PROVE  GateInv'
<1> USE DEF GateInv, Typed, RunEnd, End
<1> USE MyLine
<1>0. \A q \in Procs : q # p => pc'[q] = pc[q] /\ job'[q] = job[q]
  OBVIOUS
<1>a. \A o \in Outcomes : [job[p] EXCEPT !.outcome = o] \in Jobs
  BY JobFields
<1>b. job'[p].line = job[p].line
  BY DEF Jobs
<1>c. pc'[p] = "ended" => job'[p].outcome # None
  BY DEF Jobs
<1>1. Typed'
  <2>1. job' \in [Procs -> Jobs]
    BY <1>a, <1>b, <1>c, NoJobIsJob, SMTT(30)
  <2> QED
    BY <2>1
<1>2. \A q \in Procs : Serves(q)'
  BY <1>0, <1>a, <1>b, <1>c DEF Serves
<1>3. \A q \in Procs : Looks(q)'
  BY <1>0, <1>a, <1>b, <1>c DEF Looks
<1>4. \A q \in Procs : Holds(q)'
  BY <1>0, <1>a, <1>b, <1>c DEF Holds
<1>5. \A q, r \in Procs : q # r => Alone(q, r)'
  BY <1>0, <1>a, <1>b, <1>c DEF Alone
<1>6. \A l \in Lines : Cared(l)'
  BY <1>0, <1>a, <1>b, <1>c DEF Cared
<1>7. Slot'
  BY <1>0, <1>a, <1>b, <1>c DEF Slot
<1>8. Gone'
  BY <1>0, <1>a, <1>b, <1>c DEF Gone
<1>9. /\ \A l \in Lines : Kept(l)'
      /\ Stages'
  BY DEF Kept, Stages
<1> QED
  BY <1>1, <1>2, <1>3, <1>4, <1>5, <1>6, <1>7, <1>8, <1>9

LEMMA RunGiveUpStep ==
    ASSUME GateInv, UNCHANGED scene, NEW p \in Procs, RunGiveUp(p)
    PROVE  GateInv'
<1> USE DEF GateInv, Typed, RunGiveUp, End
<1> USE MyLine
<1>0. \A q \in Procs : q # p => pc'[q] = pc[q] /\ job'[q] = job[q]
  OBVIOUS
<1>a. \A o \in Outcomes : [job[p] EXCEPT !.outcome = o] \in Jobs
  BY JobFields
<1>b. job'[p].line = job[p].line
  BY DEF Jobs
<1>c. pc'[p] = "ended" => job'[p].outcome # None
  BY DEF Jobs
<1>1. Typed'
  <2>1. job' \in [Procs -> Jobs]
    BY <1>a, <1>b, <1>c, NoJobIsJob
  <2> QED
    BY <2>1
<1>2. \A q \in Procs : Serves(q)'
  BY <1>0, <1>a, <1>b, <1>c DEF Serves
<1>3. \A q \in Procs : Looks(q)'
  BY <1>0, <1>a, <1>b, <1>c DEF Looks
<1>4. \A q \in Procs : Holds(q)'
  BY <1>0, <1>a, <1>b, <1>c DEF Holds
<1>5. \A q, r \in Procs : q # r => Alone(q, r)'
  BY <1>0, <1>a, <1>b, <1>c DEF Alone
<1>6. \A l \in Lines : Cared(l)'
  BY <1>0, <1>a, <1>b, <1>c DEF Cared
<1>7. Slot'
  BY <1>0, <1>a, <1>b, <1>c DEF Slot
<1>8. Gone'
  BY <1>0, <1>a, <1>b, <1>c DEF Gone
<1>9. /\ \A l \in Lines : Kept(l)'
      /\ Stages'
  BY DEF Kept, Stages
<1> QED
  BY <1>1, <1>2, <1>3, <1>4, <1>5, <1>6, <1>7, <1>8, <1>9

LEMMA LatePromptStep ==
    ASSUME GateInv, UNCHANGED scene, LatePrompt
    PROVE  GateInv'
<1> USE DEF GateInv, Typed, LatePrompt
<1>1. Typed'
  OBVIOUS
<1>2. /\ \A q \in Procs : Serves(q)' /\ Looks(q)' /\ Holds(q)'
      /\ \A q, r \in Procs : q # r => Alone(q, r)'
      /\ \A l \in Lines : Kept(l)' /\ Cared(l)'
      /\ Slot' /\ Stages' /\ Gone'
  BY DEF Serves, Looks, Holds, Alone, Kept, Cared, Slot, Stages, Gone
<1> QED
  BY <1>1, <1>2

LEMMA TransportLostStep ==
    ASSUME GateInv, UNCHANGED scene, TransportLost
    PROVE  GateInv'
<1> USE DEF GateInv, Typed, TransportLost
<1>1. Typed'
  OBVIOUS
<1>2. /\ \A q \in Procs : Serves(q)' /\ Looks(q)' /\ Holds(q)'
      /\ \A q, r \in Procs : q # r => Alone(q, r)'
      /\ \A l \in Lines : Kept(l)' /\ Cared(l)'
      /\ Slot' /\ Stages' /\ Gone'
  BY DEF Serves, Looks, Holds, Alone, Kept, Cared, Slot, Stages, Gone
<1> QED
  BY <1>1, <1>2

LEMMA RecordOutcomeStep ==
    ASSUME GateInv, UNCHANGED scene, NEW p \in Procs, RecordOutcome(p)
    PROVE  GateInv'
<1> USE DEF GateInv, Typed, RecordOutcome, Transition, Stored
<1> USE MyLine
<1>0. \A q \in Procs : q # p => pc'[q] = pc[q] /\ job'[q] = job[q]
  OBVIOUS
<1>1. Typed'
  OBVIOUS
<1>2. \A q \in Procs : Serves(q)'
  BY <1>0 DEF Serves, Alone
<1>3. \A q \in Procs : Looks(q)'
  BY <1>0 DEF Looks
<1>4. \A q \in Procs : Holds(q)'
  BY <1>0 DEF Holds
<1>5. \A q, r \in Procs : q # r => Alone(q, r)'
  BY <1>0 DEF Alone
<1>6. \A l \in Lines : Kept(l)'
  BY <1>0 DEF Kept, Serves
<1>7. \A l \in Lines : Cared(l)'
  BY <1>0 DEF Cared
<1>8. Slot'
  BY <1>0 DEF Slot
<1>9. Gone'
  BY <1>0 DEF Gone
<1>10. Stages'
  BY DEF Stages
<1> QED
  BY <1>1, <1>2, <1>3, <1>4, <1>5, <1>6, <1>7, <1>8, <1>9, <1>10

(* The context changes with the slot of the line that changed it.            *)
LEMMA FinishLineStep ==
    ASSUME GateInv, UNCHANGED scene, NEW p \in Procs, FinishLine(p)
    PROVE  GateInv'
<1> USE DEF GateInv, Typed, FinishLine
<1> USE MyLine
<1>0. \A q \in Procs : q # p => pc'[q] = pc[q] /\ job'[q] = job[q]
  OBVIOUS
<1>1. Typed'
  <2>1. job' \in [Procs -> Jobs]
    BY NoJobIsJob
  <2> QED
    BY <2>1
<1>2. \A q \in Procs : Serves(q)'
  BY <1>0 DEF Serves
<1>3. \A q \in Procs : Looks(q)'
  BY <1>0 DEF Looks
<1>4. \A q \in Procs : Holds(q)'
  BY <1>0 DEF Holds, Serves, Alone
<1>5. \A q, r \in Procs : q # r => Alone(q, r)'
  BY <1>0 DEF Alone, Serves
<1>6. \A l \in Lines : Cared(l)'
  BY <1>0 DEF Cared, Serves
<1>7. Slot'
  BY <1>0 DEF Slot, Serves, Holds
<1>8. Gone'
  BY <1>0 DEF Gone
<1>9. /\ \A l \in Lines : Kept(l)'
      /\ Stages'
  BY DEF Kept, Stages
<1> QED
  BY <1>1, <1>2, <1>3, <1>4, <1>5, <1>6, <1>7, <1>8, <1>9

(* The steps of close().                                                     *)
LEMMA CloseBeginStep ==
    ASSUME GateInv, UNCHANGED scene, CloseBegin
    PROVE  GateInv'
<1> USE DEF GateInv, Typed, CloseBegin
<1>1. Typed'
  OBVIOUS
<1>2. \A l \in Lines : Kept(l)'
  BY DEF Kept
<1>3. \A l \in Lines : Cared(l)'
  BY DEF Cared, Stages
<1>4. Slot'
  BY DEF Slot, Stages
<1>5. Stages'
  BY DEF Stages
<1>6. Gone'
  BY DEF Gone
<1>7. /\ \A q \in Procs : Serves(q)' /\ Looks(q)' /\ Holds(q)'
      /\ \A q, r \in Procs : q # r => Alone(q, r)'
  BY DEF Serves, Looks, Holds, Alone
<1> QED
  BY <1>1, <1>2, <1>3, <1>4, <1>5, <1>6, <1>7

(* The line in flight is caught, so it is withdrawn or left to its runner.   *)
LEMMA CloseGateStep ==
    ASSUME GateInv, UNCHANGED scene, CloseGate
    PROVE  GateInv'
<1> USE DEF GateInv, Typed, CloseGate
<1>1. Typed'
  OBVIOUS
<1>2. \A q \in Procs : Holds(q)'
  BY DEF Holds
<1>3. \A l \in Lines : Cared(l)'
  BY DEF Cared, Stages
<1>4. Slot'
  BY DEF Slot, Stages
<1>5. Stages'
  BY DEF Stages, Slot
<1>6. Gone'
  BY DEF Gone, Slot
<1>7. /\ \A q \in Procs : Serves(q)' /\ Looks(q)'
      /\ \A q, r \in Procs : q # r => Alone(q, r)'
      /\ \A l \in Lines : Kept(l)'
  BY DEF Serves, Looks, Alone, Kept
<1> QED
  BY <1>1, <1>2, <1>3, <1>4, <1>5, <1>6, <1>7

LEMMA CloseWithdrawStep ==
    ASSUME GateInv, UNCHANGED scene, CloseWithdraw
    PROVE  GateInv'
<1> USE DEF GateInv, Typed, CloseWithdraw, Transition, Stored
<1>1. Typed'
  BY DEF Stages
<1>2. \A q \in Procs : Serves(q)'
  BY DEF Serves, Stages
<1>3. \A q \in Procs : Looks(q)'
  BY DEF Looks, Stages
<1>4. \A l \in Lines : Kept(l)'
  BY DEF Kept, Stages
<1>5. \A l \in Lines : Cared(l)'
  BY DEF Cared, Stages
<1>6. Slot'
  BY DEF Slot, Stages
<1>7. Stages'
  BY DEF Stages
<1>8. Gone'
  BY DEF Gone, Stages
<1>9. /\ \A q \in Procs : Holds(q)'
      /\ \A q, r \in Procs : q # r => Alone(q, r)'
  BY DEF Holds, Alone
<1> QED
  BY <1>1, <1>2, <1>3, <1>4, <1>5, <1>6, <1>7, <1>8, <1>9

(* A running line has its runner, so the slot may be left to it.             *)
LEMMA CloseDropStep ==
    ASSUME GateInv, UNCHANGED scene, CloseDrop
    PROVE  GateInv'
<1> USE DEF GateInv, Typed, CloseDrop, DropOnClose
<1>1. Typed'
  OBVIOUS
<1>2. \A q \in Procs : Holds(q)'
  BY DEF Holds, Serves, Stages
<1>3. \A l \in Lines : Cared(l)'
  BY DEF Cared, Stages
<1>4. Slot'
  BY DEF Slot, Cared, Stages
<1>5. Stages'
  BY DEF Stages
<1>6. Gone'
  BY DEF Gone
<1>7. /\ \A q \in Procs : Serves(q)' /\ Looks(q)'
      /\ \A q, r \in Procs : q # r => Alone(q, r)'
      /\ \A l \in Lines : Kept(l)'
  BY DEF Serves, Looks, Alone, Kept
<1> QED
  BY <1>1, <1>2, <1>3, <1>4, <1>5, <1>6, <1>7

LEMMA CloseTransportStep ==
    ASSUME GateInv, UNCHANGED scene, CloseTransport
    PROVE  GateInv'
<1> USE DEF GateInv, Typed, CloseTransport
<1>1. Typed'
  OBVIOUS
<1>2. \A l \in Lines : Cared(l)'
  BY DEF Cared
<1>3. Slot'
  BY DEF Slot
<1>4. Stages'
  BY DEF Stages
<1>5. Gone'
  BY DEF Gone
<1>6. /\ \A q \in Procs : Serves(q)' /\ Looks(q)' /\ Holds(q)'
      /\ \A q, r \in Procs : q # r => Alone(q, r)'
      /\ \A l \in Lines : Kept(l)'
  BY DEF Serves, Looks, Holds, Alone, Kept
<1> QED
  BY <1>1, <1>2, <1>3, <1>4, <1>5, <1>6

LEMMA CloseFinishStep ==
    ASSUME GateInv, UNCHANGED scene, CloseFinish
    PROVE  GateInv'
<1> USE DEF GateInv, Typed, CloseFinish, Stored
<1>1. Typed'
  OBVIOUS
<1>2. \A q \in Procs : Serves(q)'
  BY DEF Serves
<1>3. \A q \in Procs : Holds(q)'
  BY DEF Holds, Stages
<1>4. \A l \in Lines : Kept(l)'
  BY DEF Kept, Gone
<1>5. \A l \in Lines : Cared(l)'
  BY DEF Cared, Stages
<1>6. Slot'
  BY DEF Slot, Stages
<1>7. Stages'
  BY DEF Stages
<1>8. Gone'
  BY DEF Gone
<1>9. /\ \A q \in Procs : Looks(q)'
      /\ \A q, r \in Procs : q # r => Alone(q, r)'
  BY DEF Looks, Alone
<1> QED
  BY <1>1, <1>2, <1>3, <1>4, <1>5, <1>6, <1>7, <1>8, <1>9
(* The recoveries of a start fail one by one: no failure, all succeeded.   *)
LEMMA NoFailure ==
    ASSUME NEW a \in BOOLEAN, NEW b \in BOOLEAN, NEW c \in BOOLEAN
    PROVE  LET failures == {x \in {<<1, a>>, <<2, b>>, <<3, c>>} : ~x[2]}
           IN  Cardinality(failures) \in Nat /\ (Cardinality(failures) = 0 => a /\ b /\ c)
<1> DEFINE all == {<<1, a>>, <<2, b>>, <<3, c>>}
           failures == {x \in all : ~x[2]}
<1>1. IsFiniteSet(all)
  <2>1. IsFiniteSet({<<1, a>>})
    BY FS_Singleton
  <2>2. IsFiniteSet({<<1, a>>} \cup {<<2, b>>})
    BY <2>1, FS_AddElement
  <2>3. IsFiniteSet(({<<1, a>>} \cup {<<2, b>>}) \cup {<<3, c>>})
    BY <2>2, FS_AddElement
  <2>4. all = ({<<1, a>>} \cup {<<2, b>>}) \cup {<<3, c>>}
    OBVIOUS
  <2> QED
    BY <2>3, <2>4
<1>2. IsFiniteSet(failures)
  BY <1>1, FS_Subset
<1>3. Cardinality(failures) \in Nat /\ (Cardinality(failures) = 0 => failures = {})
  BY <1>2, FS_CardinalityType, FS_EmptySet
<1>4. failures = {} => a /\ b /\ c
  <2>1. \A x \in all : x[2] \/ x \in failures
    OBVIOUS
  <2> QED
    BY <2>1
<1> QED
  BY <1>3, <1>4

(* Nothing is left of the session, and what was waiting is settled.        *)
LEMMA RestartStep ==
    ASSUME GateInv, UNCHANGED scene, Restart PROVE GateInv'
<1> USE DEF GateInv, Typed
<1>1. PICK settled \in BOOLEAN, withdrawn \in BOOLEAN, linked \in BOOLEAN :
          /\ faults' = faults + Cardinality({x \in {<<1, settled>>, <<2, withdrawn>>,
                                                    <<3, linked>>} : ~x[2]})
          /\ status' = [l \in Lines |-> RecoveredStatus(l, settled, withdrawn)]
          /\ sessRow' = (sessRow /\ ~withdrawn)
          /\ links' = [l \in Lines |-> IF lineSeq[l] # 0 /\ linked THEN "gone" ELSE None]
  BY DEF Restart
<1>2. faults' \in Nat /\ (faults' = 0 => settled /\ withdrawn)
  BY <1>1, NoFailure
<1>3. \A l \in Lines : status'[l] = RecoveredStatus(l, settled, withdrawn)
  BY <1>1
<1>4. \A l \in Lines :
          /\ status'[l] \in {status[l], "interrupted", "withdrawn"}
          /\ status'[l] = "interrupted" => status[l] \in Running \cup {"interrupted"}
          /\ status'[l] = "withdrawn" => status[l] \in {"pending", "withdrawn"}
          /\ settled => status'[l] \notin Running
          /\ withdrawn => status'[l] # "pending" \/ lineSeq[l] = 0
  BY <1>3 DEF RecoveredStatus
<1>5. Typed'
  <2>1. status' \in [Lines -> Statuses]
    BY <1>1, <1>4
  <2>2. links' \in [Lines -> {"gate", "gone", None}] /\ sessRow' \in BOOLEAN
    BY <1>1
  <2>3. pc' \in [Procs -> PCs] /\ job' \in [Procs -> Jobs]
    BY NoJobIsJob DEF Restart
  <2> QED
    BY <1>2, <2>1, <2>2, <2>3 DEF Restart
<1>6. \A l \in Lines : Kept(l)'
  BY <1>1, <1>4 DEF Restart, Kept
<1>7. Gone'
  BY <1>2, <1>4 DEF Restart, Gone, Kept
<1>8. \A l \in Lines : Cared(l)'
  BY <1>2, <1>4 DEF Restart, Cared, Kept
<1>9. \A p \in Procs : Serves(p)' /\ Looks(p)' /\ Holds(p)'
  BY DEF Restart, Serves, Looks, Holds
<1>10. \A p, q \in Procs : p # q => Alone(p, q)'
  BY DEF Restart, Alone
<1>11. Slot' /\ Stages'
  BY DEF Restart, Slot, Stages
<1> QED
  BY <1>5, <1>6, <1>7, <1>8, <1>9, <1>10, <1>11

LEMMA GateInit == Init => GateInv
<1> SUFFICES ASSUME Init PROVE GateInv
  OBVIOUS
<1>1. Typed
  BY NoJobIsJob DEF Init, Typed
<1>2. \A p \in Procs : Serves(p) /\ Looks(p) /\ Holds(p)
  BY DEF Init, Serves, Looks, Holds
<1>3. \A p, q \in Procs : p # q => Alone(p, q)
  BY DEF Init, Alone
<1>4. (\A l \in Lines : Kept(l) /\ Cared(l)) /\ Slot /\ Stages /\ Gone
  BY DEF Init, Kept, Cared, Slot, Stages, Gone
<1> QED
  BY <1>1, <1>2, <1>3, <1>4 DEF GateInv

LEMMA GateStep == GateInv /\ [Next]_vars => GateInv'
<1> SUFFICES ASSUME GateInv, [Next]_vars PROVE GateInv'
  OBVIOUS
<1>1. CASE UNCHANGED vars
  BY <1>1 DEF vars, GateInv, Typed, Serves, Looks, Holds, Alone, Kept, Cared, Slot, Stages, Gone
<1>2. ASSUME UNCHANGED scene, NEW p \in Procs, Step(p) PROVE GateInv'
  BY <1>2, ReconcileViewStep, ReconcileReadStep, ReconcileExpireStep, ReconcileLatestStep,
     ReconcileDropStep, SendReserveStep, SendQueueLineStep, SendRecordStep, SendMarkPendingStep,
     SendWithdrawStep, SendDropStep, SendBusyStep, SendAutoStep, ApproveRefusedStep,
     ApproveTransitionStep, DeliverStep, RecordUndeliveredStep, FinishUndeliveredStep,
     RunOverlayStep, RunCheckStep, RunStartStep, RunEndStep, RunGiveUpStep, RecordOutcomeStep,
     FinishLineStep DEF Step
<1>3. ASSUME UNCHANGED scene, NEW p \in Workers, NEW l \in scene.lines,
             SendLine(p, l) \/ Approve(p, l) \/ ApproveOverdue(p, l)
      PROVE  GateInv'
  <2>1. p \in Procs /\ l \in Lines
    BY GateAssumption DEF Procs, GateInv, Typed
  <2> QED
    BY <1>3, <2>1, SendLineStep, ApproveStep, ApproveOverdueStep
<1>4. ASSUME UNCHANGED scene, NEW l \in Lines,
             RejectCommand(l) \/ Lapse(l) \/ ExpireRequest(l) \/ ApprovePlain(l)
      PROVE  GateInv'
  BY <1>4, RejectCommandStep, LapseStep, ExpireRequestStep, ApprovePlainStep
<1>5. ASSUME UNCHANGED scene, Sweep PROVE GateInv'
  BY <1>5, SweepStep DEF Procs
<1>6. ASSUME UNCHANGED scene, Close PROVE GateInv'
  BY <1>6, CloseGateStep, CloseWithdrawStep, CloseDropStep, CloseTransportStep, CloseFinishStep
     DEF Close
<1> QED
  BY <1>1, <1>2, <1>3, <1>4, <1>5, <1>6, LatePromptStep, TransportLostStep, CloseBeginStep,
     RestartStep DEF Next

(* Every call is where its line says, a line being drafted has one         *)
(* goroutine, a line that runs has one runner, and neither a line nor the  *)
(* slot of the gate is left to nobody (sendSessionLine,                    *)
(* approveAISessionLine, startLine, settleAISessionLines).                 *)
THEOREM GateInvHolds == Spec => []GateInv
BY GateInit, GateStep, PTL DEF Spec

(* A line that is pending, rejected, expired or withdrawn was never        *)
(* written to the remote side, and no line is written twice: the winner of *)
(* transitionRequest is the only runner (approveAISessionLine, RunLine).   *)
THEOREM OnlyApprovedLinesAreSent == Spec => []UnapprovedNeverSent
<1>1. GateInv => UnapprovedNeverSent
  BY DEF GateInv, Kept, UnapprovedNeverSent
<1> QED
  BY <1>1, GateInvHolds, PTL

(* Once close() is done and every call returned, no line waits or runs and *)
(* the gate holds none, unless SQLite refused a write                      *)
(* (settleAISessionLines, reconcileAISessionLine, startLine, NewApp).      *)
THEOREM ClosedMeansSettled == Spec => []CloseSettlesLines
<1>1. GateInv => CloseSettlesLines
  BY DEF GateInv, Typed, Cared, Slot, Stages, CloseSettlesLines
<1> QED
  BY <1>1, GateInvHolds, PTL

(* The line that goes out meets the working directory, environment and     *)
(* taint it was classified in: the slot is its own from reserve to         *)
(* finishLine, the only place where the context changes.                   *)
THEOREM LinesMeetTheirContext == Spec => ContextIsCurrent
<1> DEFINE Current == \A l \in Lines : sent'[l] # sent[l] => snap[l] = applied
<1>1. GateInv /\ Next => Current
  <2> SUFFICES ASSUME GateInv, Next, NEW l \in Lines, sent'[l] # sent[l] PROVE snap[l] = applied
    OBVIOUS
  <2>1. PICK p \in Procs : RunStart(p)
    <3>1. \A p \in Procs : Step(p) /\ sent' # sent => RunStart(p)
      BY DEF Step, ReconcileView, ReconcileRead, ReconcileExpire, ReconcileLatest, ReconcileDrop,
         SendReserve, SendQueueLine, SendRecord, SendMarkPending, SendWithdraw, SendDrop, SendBusy,
         SendAuto, ApproveRefused, ApproveTransition, Deliver, RecordUndelivered,
         FinishUndelivered, RunOverlay, RunCheck, RunEnd, RunGiveUp, RecordOutcome, FinishLine
    <3>2. Close \/ Restart => sent' = sent
      BY DEF Close, CloseGate, CloseWithdraw, CloseDrop, CloseTransport, CloseFinish, Restart
    <3> QED
      BY <3>1, <3>2 DEF Next, SendLine, Approve, ApproveOverdue, RejectCommand, Lapse,
         ExpireRequest, ApprovePlain, Sweep, LatePrompt, TransportLost, CloseBegin
  <2>2. job[p].line = l
    BY <2>1 DEF RunStart, GateInv, Typed
  <2>3. pc[p] = "checked"
    BY <2>1 DEF RunStart
  <2> QED
    BY <2>2, <2>3 DEF GateInv, Holds, Slot
<1>2. UNCHANGED vars => Current
  BY DEF vars
<1> QED
  BY <1>1, <1>2, GateInvHolds, PTL DEF Spec, ContextIsCurrent
=============================================================================
