------------------------------- MODULE Headless -------------------------------
(*****************************************************************************)
(* A headless process from start to exit (src/headless.go): runHeadlessWith   *)
(* opens the database and the audit writer, applies the configuration file   *)
(* (ConfigApply), serves the web admin's calls (WebCalls), which edit the    *)
(* same rows, and on a signal runs headlessShutdown: no new calls, wait for   *)
(* the running ones, close the server, flush the audit log, stop the app.    *)
(* Every wait has a time limit; a second signal, or a crash, ends the process *)
(* wherever it is, and the next start finds what the database holds.         *)
(*****************************************************************************)
EXTENDS ConfigApply, WebCalls

CONSTANTS
  Starts,   \* bound: processes a behaviour starts
  Faults    \* bound: crashes, failed inserts and failed starts

VARIABLES
  phase,    \* where runHeadlessWith is
  waited,   \* what WaitCalls answered
  clean,    \* the server closed and the audit log was flushed within their limits
  starts, faults

headlessVars == <<confVars, callVars, phase, waited, clean, starts, faults>>

HeadlessInit ==
  /\ ConfInit /\ CallInit
  /\ phase = "down"
  /\ waited = FALSE /\ clean = TRUE
  /\ starts = 0 /\ faults = 0

Enter(p) == phase' = p /\ UNCHANGED <<waited, clean, starts, faults>>
Fault == faults < Faults /\ faults' = faults + 1

-----------------------------------------------------------------------------
(* Start.                                                                    *)

\* Steps 1 to 6: options, instance lock, secrets, NewApp, the audit writer;
\* applyConfig plans.
Start ==
  /\ phase = "down" /\ starts < Starts
  /\ \E f \in Files : Plan(f)
  /\ Fresh(TRUE)
  /\ phase' = "applying"
  /\ starts' = starts + 1
  /\ UNCHANGED <<waited, clean, faults>>

\* Step 6: what applyConfig writes; an item that is created, overridden or pruned
\* is recorded in the audit log once its record is written.
ApplyStep ==
  /\ phase = "applying"
  /\ Apply
  /\ IF ~binding /\ (at' > at \/ binding') /\ step.action \in {"create", "override", "prune"}
       THEN Push(0) ELSE UNCHANGED <<queue, lost>>
  /\ UNCHANGED <<handler, kind, refusing, calls, inflight, closed, entries, effects,
                 phase, waited, clean, starts, faults>>

\* Steps 7 to 9: the web admin is prepared, the app started, the port listened on.
Listen ==
  /\ phase = "applying" /\ AppliedAll
  /\ Forget
  /\ Enter("serving")
  /\ UNCHANGED callVars

\* A step that fails closes the audit writer and stops the app.
StartFails ==
  /\ phase = "applying"
  /\ \/ Refused /\ UNCHANGED faults
     \/ Fault
  /\ Forget
  /\ phase' = "flush"
  /\ UNCHANGED <<callVars, waited, clean, starts>>

-----------------------------------------------------------------------------
(* Serving.                                                                  *)

CallStep ==
  /\ \E n \in Numbers :
       \/ phase \in {"serving", "waiting", "closing"} /\ \E k \in Kinds : Arrive(n, k)
       \/ AdmitCall(n) \/ Parse(n) \/ Audit(n) \/ Answer(n)
  /\ UNCHANGED <<confVars, phase, waited, clean, starts, faults>>

\* The method of a call edits the rows, or answers an error (or panics) and
\* leaves them alone.
RunMethod ==
  /\ \E n \in Numbers :
       /\ Run(n)
       /\ IF kind[n] = "call" THEN Edit \/ UNCHANGED confVars ELSE UNCHANGED confVars
  /\ UNCHANGED <<phase, waited, clean, starts, faults>>

WriteAudit ==
  /\ \/ Insert(TRUE) /\ UNCHANGED faults
     \/ Insert(FALSE) /\ Fault
  /\ UNCHANGED <<confVars, phase, waited, clean, starts>>

-----------------------------------------------------------------------------
(* Stop: headlessShutdown.                                                   *)

\* The first signal (waitForStop ignores SIGHUP): StopIntake.
Signal ==
  /\ phase = "serving"
  /\ StopIntake
  /\ Enter("waiting")
  /\ UNCHANGED confVars

\* WaitCalls: until no call is counted, or its time is up.
WaitCalls ==
  /\ phase = "waiting"
  /\ waited' = (calls = 0)
  /\ phase' = "closing"
  /\ UNCHANGED <<confVars, callVars, clean, starts, faults>>

\* Close: Shutdown waits for the handlers, else the server is closed under them.
CloseWeb_NoWait ==
  /\ phase = "closing"
  /\ Enter("flush")
  /\ UNCHANGED <<confVars, callVars>>

CloseWeb ==
  /\ phase = "closing"
  /\ clean' = Quiet
  /\ phase' = "flush"
  /\ UNCHANGED <<confVars, callVars, waited, starts, faults>>

CloseAudit ==
  /\ phase = "flush"
  /\ CloseWriter
  /\ Enter("flushing")
  /\ UNCHANGED confVars

FlushAudit ==
  /\ phase = "flushing"
  /\ clean' = (clean /\ Flushed)
  /\ phase' = "stopping"
  /\ UNCHANGED <<confVars, callVars, waited, starts, faults>>

\* app.shutdown, within its own limit, and the process exits.
Exit ==
  /\ Fresh(FALSE)
  /\ Forget
  /\ phase' = "down"
  /\ waited' = FALSE /\ clean' = TRUE
  /\ UNCHANGED starts

StopApp == phase = "stopping" /\ Exit /\ UNCHANGED faults

\* A crash, or the second signal.
Crash == phase # "down" /\ Exit /\ Fault

HeadlessNext ==
  \/ Start \/ ApplyStep \/ Listen \/ StartFails
  \/ CallStep \/ RunMethod \/ WriteAudit
  \/ Signal \/ WaitCalls \/ CloseWeb \/ CloseAudit \/ FlushAudit \/ StopApp
  \/ Crash

HeadlessSpec == HeadlessInit /\ [][HeadlessNext]_headlessVars

-----------------------------------------------------------------------------
(* Properties                                                                *)

\* Once WaitCalls has answered true no call of the API is running, and none
\* begins, until the process exits: app.shutdown does not run under one.
WaitedMeansNoCall ==
  waited =>
    \A n \in Numbers : kind[n] \in Tracked => handler[n] \notin Running

\* A stop within its limits leaves an audit entry for every call of an audited
\* method, and for every login, logout and change of a credential, that ran,
\* unless the queue was full or the insert failed, both of which are logged:
\* headlessShutdown closes the writer last.  Terminal input is not audited.
EffectsAreAudited ==
  (phase = "stopping" /\ clean) => effects \subseteq entries \union lost
=============================================================================
