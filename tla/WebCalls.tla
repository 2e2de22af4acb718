------------------------------- MODULE WebCalls -------------------------------
(*****************************************************************************)
(* The calls of the web admin and their audit log: trackCall and intake of    *)
(* the web server (src/webserver.go), webCallHandler (src/webapi.go), which  *)
(* admits a call, runs the method of App under recover and records it, and   *)
(* adminAuditWriter (src/web_audit.go), whose one goroutine writes the table *)
(* from a bounded queue so that no call waits for the database.              *)
(*                                                                           *)
(* A call has a number and a kind: "call" is /api/call of a method that is   *)
(* audited, "input" of one that is not (SendTerminalInput, ResizeTerminal and *)
(* the reads), "admin" is a login or a password change, "logout" a logout or  *)
(* a rotation of the token.  The server audits the last two as well, but      *)
(* neither counts them for WaitCalls nor limits them, and a logout is let in  *)
(* also after StopIntake.                                                    *)
(*****************************************************************************)
EXTENDS Naturals, Sequences, FiniteSets

CONSTANTS
  Calls,        \* bound: calls a behaviour makes, numbered 1..Calls
  PerSession,   \* webCallPerSession: calls one session may have running
  QueueLen      \* adminAuditQueue

ASSUME WebCallsAssumption == {Calls, PerSession, QueueLen} \subseteq Nat

VARIABLES
  handler,    \* call -> where its handler is
  kind,       \* call -> its kind
  refusing,   \* webServer.stopping
  calls,      \* webServer.calls
  inflight,   \* webCallHandler.inflight of the session
  queue,      \* adminAuditWriter.ch: numbers of calls, 0 for a step of the start
  closed,     \* adminAuditWriter.closed
  entries,    \* the calls of this process that have their entry in admin_audit
  lost,       \* history: calls whose entry a full queue or a failed insert lost
  effects     \* history: calls of what is audited that ran

callVars == <<handler, kind, refusing, calls, inflight, queue, closed, entries, lost, effects>>

Numbers == 1..Calls
Kinds == {"call", "input", "admin", "logout"}

\* What trackCall counts, what StopIntake turns away, what callSpec.Audit and the
\* handlers of the server record.
Tracked == {"call", "input"}
Gated == Tracked \union {"admin"}
Audited == Kinds \ {"input"}

Running == {"tracked", "admitted", "parsed", "ran", "recorded"}

CallInit ==
  /\ handler = [n \in Numbers |-> "new"]
  /\ kind = [n \in Numbers |-> "call"]
  /\ refusing = FALSE
  /\ calls = 0
  /\ inflight = 0
  /\ queue = <<>>
  /\ closed = TRUE
  /\ entries = {}
  /\ lost = {}
  /\ effects = {}

\* A process starts or dies: what it had in memory goes; numbers used stay used.
Fresh(open) ==
  /\ handler' = [n \in Numbers |-> IF handler[n] = "new" THEN "new" ELSE "gone"]
  /\ refusing' = FALSE
  /\ calls' = 0
  /\ inflight' = 0
  /\ queue' = <<>>
  /\ closed' = ~open
  /\ entries' = {}
  /\ lost' = {}
  /\ effects' = {}
  /\ kind' = [n \in Numbers |-> "call"]

-----------------------------------------------------------------------------
(* The audit writer.                                                         *)

\* The call an entry is about, if it is not about a step of the start.
About(e) == {e} \ {0}

\* record: never waits.  A closed writer ignores the entry, a full queue drops
\* and counts it.
Push(e) ==
  /\ queue' = IF ~closed /\ Len(queue) < QueueLen THEN Append(queue, e) ELSE queue
  /\ lost' = IF ~closed /\ Len(queue) >= QueueLen THEN lost \union About(e) ELSE lost

\* run, insert: one entry at a time; a failed insert is only logged.
Insert(ok) ==
  /\ queue # <<>>
  /\ queue' = Tail(queue)
  /\ entries' = IF ok THEN entries \union About(Head(queue)) ELSE entries
  /\ lost' = IF ok THEN lost ELSE lost \union About(Head(queue))
  /\ UNCHANGED <<handler, kind, refusing, calls, inflight, closed, effects>>

\* Close: entries are refused from here on, those in the queue are still written.
CloseWriter == closed' = TRUE /\ UNCHANGED <<handler, kind, refusing, calls, inflight, queue, entries, lost, effects>>

Flushed == closed /\ queue = <<>>

-----------------------------------------------------------------------------
(* A call.                                                                   *)

HandlerTo(n, h) == handler' = [handler EXCEPT ![n] = h]

\* trackCall: the test and the count are one critical section; intake for the
\* others only tests, and a logout is not tested.  503 after StopIntake.
\* Numbers are used in order.
Arrive_Late(n, k) ==
  /\ handler[n] = "new"
  /\ \A m \in 1..(n - 1) : handler[m] # "new"
  /\ kind' = [kind EXCEPT ![n] = k]
  /\ HandlerTo(n, "tracked")
  /\ calls' = IF k \in Tracked THEN calls + 1 ELSE calls
  /\ UNCHANGED <<refusing, inflight, queue, closed, entries, lost, effects>>

Arrive(n, k) ==
  /\ handler[n] = "new"
  /\ \A m \in 1..(n - 1) : handler[m] # "new"
  /\ \/ /\ refusing /\ k \in Gated
        /\ HandlerTo(n, "gone")
        /\ UNCHANGED <<kind, calls>>
     \/ /\ ~(refusing /\ k \in Gated)
        /\ kind' = [kind EXCEPT ![n] = k]
        /\ HandlerTo(n, "tracked")
        /\ calls' = IF k \in Tracked THEN calls + 1 ELSE calls
  /\ UNCHANGED <<refusing, inflight, queue, closed, entries, lost, effects>>

\* admit: a session may have so many calls running.
Slot == inflight < PerSession

\* ServeHTTP up to admit: a request that is no call of this API, or the
\* session's limit (429); admitted otherwise.
AdmitCall(n) ==
  /\ handler[n] = "tracked" /\ kind[n] \in Tracked
  /\ \/ /\ Slot
        /\ inflight' = inflight + 1
        /\ HandlerTo(n, "admitted")
        /\ UNCHANGED calls
        /\ UNCHANGED kind
     \/ /\ HandlerTo(n, "gone")
        /\ calls' = calls - 1
        /\ kind' = [kind EXCEPT ![n] = "call"]
        /\ UNCHANGED inflight
  /\ UNCHANGED <<refusing, queue, closed, entries, lost, effects>>

\* The body is read and parsed.  An unreadable one ends the call, arguments that
\* do not parse are audited as bad_request if the method is audited.
Parse(n) ==
  /\ handler[n] = "admitted"
  /\ \/ /\ HandlerTo(n, "parsed")
        /\ UNCHANGED <<queue, lost>>
     \/ /\ HandlerTo(n, "recorded")
        /\ UNCHANGED <<queue, lost>>
     \/ /\ HandlerTo(n, "recorded")
        /\ kind[n] \in Audited
        /\ Push(n)
  /\ UNCHANGED <<kind, refusing, calls, inflight, closed, entries, effects>>

\* webInvokeMethod: the method runs (what it does is the caller's); a panic in
\* it is recovered and counts as an answer.
Run(n) ==
  /\ handler[n] = IF kind[n] \in Tracked THEN "parsed" ELSE "tracked"
  /\ HandlerTo(n, "ran")
  /\ effects' = IF kind[n] \in Audited THEN effects \union {n} ELSE effects
  /\ UNCHANGED <<kind, refusing, calls, inflight, queue, closed, entries, lost>>

\* The record of what ran, also of a panic, if the method is audited.
Audit(n) ==
  /\ handler[n] = "ran"
  /\ IF kind[n] \in Audited THEN Push(n) ELSE UNCHANGED <<queue, lost>>
  /\ HandlerTo(n, "recorded")
  /\ UNCHANGED <<kind, refusing, calls, inflight, closed, entries, effects>>

\* The answer is written; the deferred release and the deferred count follow.
Answer(n) ==
  /\ handler[n] = "recorded"
  /\ HandlerTo(n, "gone")
  /\ calls' = IF kind[n] \in Tracked THEN calls - 1 ELSE calls
  /\ inflight' = IF kind[n] \in Tracked THEN inflight - 1 ELSE inflight
  /\ kind' = [kind EXCEPT ![n] = "call"]
  /\ UNCHANGED <<refusing, queue, closed, entries, lost, effects>>

StopIntake ==
  /\ refusing' = TRUE
  /\ UNCHANGED <<handler, kind, calls, inflight, queue, closed, entries, lost, effects>>

\* No handler of the server is running (http.Server.Shutdown waits for this).
Quiet == \A n \in Numbers : handler[n] \notin Running
=============================================================================
