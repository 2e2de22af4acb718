----------------------------- MODULE AISessions -----------------------------
(***************************************************************************)
(* aiSessionManager: opening and closing AI sessions.  An open_session     *)
(* call registers a session, dials without any lock, records the session   *)
(* and installs the transport; a close may overtake it at any of these     *)
(* points, and gives up waiting for it after a grace.  A session has the   *)
(* name of the call that opens it.  What a close does to the lines of the  *)
(* session is in LineGate; here it is one step with the transport.         *)
(***************************************************************************)
EXTENDS Naturals, FiniteSets, Sequences, SequencesExt

CONSTANTS Calls,      \* open_session calls
          Agents,     \* owners
          Keys,       \* client_request_ids
          PerAgent,   \* settings.PerAgent
          Total,      \* settings.Total
          TombsPerOwner,
          TombsTotal,
          MaxFaults   \* bound: storage failures in a behaviour

None == "none"

ASSUME SessionsAssumption ==
    /\ None \notin Calls \cup Agents \cup Keys
    /\ "error" \notin Calls   \* the answer of a call that got no session
    /\ \A n \in {PerAgent, Total, TombsPerOwner, TombsTotal, MaxFaults} : n \in Nat

VARIABLES
    up,          \* the process runs
    enabled,     \* settings.Enabled
    mgrClosed,   \* m.closed
    live,        \* m.sessions
    byIdem,      \* byIdem[a][k]: the session of a client_request_id, or None
    tombstones,  \* m.tombstones in retire order
    told,        \* sessions closeWhere (or another closer) is about to close
    owner, key,  \* of the session
    sstate,      \* s.state, None before the open
    out,         \* s.out is set
    transport,   \* None, "held" by the opener, "stored", "ended", "closed"
    once,        \* who ran s.closeOnce: None, "close", "open"
    openDone,    \* s.openDone is closed
    done,        \* s.done is closed
    row,         \* the ai_sessions row: None, "open", "closed"
    rowInserted, closeRecorded,
    pc,          \* where the call is
    failed,      \* the call's err # nil
    ref,         \* the session a deduplicated call waits for
    answer,      \* the session the call returned, "error", or None
    closer,      \* where close() of the session is
    grabbed,     \* close() found the transport
    faults

managerVars == <<enabled, mgrClosed, live, byIdem, tombstones>>
nameVars == <<owner, key>>
sessionVars == <<sstate, out, transport, once, openDone, done>>
rowVars == <<row, rowInserted, closeRecorded>>
callVars == <<pc, failed, ref, answer>>
closerVars == <<closer, grabbed>>
vars == <<up, managerVars, told, nameVars, sessionVars, rowVars, callVars, closerVars, faults>>

Over == {"closing", "closed"}
Set(f, s, v) == [f EXCEPT ![s] = v]

Stored(ok) ==
    \/ ok /\ UNCHANGED faults
    \/ ~ok /\ faults < MaxFaults /\ faults' = faults + 1

Init ==
    /\ up = TRUE
    /\ enabled = TRUE
    /\ mgrClosed = FALSE
    /\ live = {}
    /\ byIdem = [a \in Agents |-> [k \in Keys |-> None]]
    /\ tombstones = <<>>
    /\ told = {}
    /\ owner = [s \in Calls |-> None]
    /\ key = [s \in Calls |-> None]
    /\ sstate = [s \in Calls |-> None]
    /\ out = [s \in Calls |-> FALSE]
    /\ transport = [s \in Calls |-> None]
    /\ once = [s \in Calls |-> None]
    /\ openDone = [s \in Calls |-> FALSE]
    /\ done = [s \in Calls |-> FALSE]
    /\ row = [s \in Calls |-> None]
    /\ rowInserted = [s \in Calls |-> FALSE]
    /\ closeRecorded = [s \in Calls |-> FALSE]
    /\ pc = [c \in Calls |-> "idle"]
    /\ failed = [c \in Calls |-> FALSE]
    /\ ref = [c \in Calls |-> None]
    /\ answer = [c \in Calls |-> None]
    /\ closer = [s \in Calls |-> "no"]
    /\ grabbed = [s \in Calls |-> FALSE]
    /\ faults = 0

-----------------------------------------------------------------------------
(* open.                                                                   *)

(* The session of a client_request_id that is still in m.sessions.         *)
Earlier(a, k) == IF k = None THEN {} ELSE {byIdem[a][k]} \cap live

WithinLimits(a) ==
    /\ Cardinality({s \in live : owner[s] = a}) < PerAgent
    /\ Cardinality(live) < Total

(* Checks and registration, in one lock region.  A refused call changes    *)
(* nothing.                                                                *)
Open(c, a, k) ==
    /\ up /\ pc[c] = "idle"
    /\ ~mgrClosed /\ enabled
    /\ Earlier(a, k) = {}
    /\ WithinLimits(a)
    /\ live' = live \cup {c}
    /\ byIdem' = IF k = None THEN byIdem ELSE [byIdem EXCEPT ![a][k] = c]
    /\ owner' = Set(owner, c, a)
    /\ key' = Set(key, c, k)
    /\ sstate' = Set(sstate, c, "opening")
    /\ pc' = Set(pc, c, "registered")
    /\ UNCHANGED <<up, enabled, mgrClosed, tombstones, told, out, transport, once, openDone,
                   done, rowVars, failed, ref, answer, closerVars, faults>>

(* The same client_request_id again: wait for the open under way.          *)
OpenAgain(c, a, k) ==
    /\ up /\ pc[c] = "idle"
    /\ ~mgrClosed /\ enabled
    /\ \E s \in Earlier(a, k) : ref' = Set(ref, c, s)
    /\ pc' = Set(pc, c, "waiting")
    /\ UNCHANGED <<up, managerVars, told, nameVars, sessionVars, rowVars, failed, answer,
                   closerVars, faults>>

(* Mutant: the wait for openDone is dropped.                               *)
Deduplicate_NoWait(c) ==
    /\ pc[c] = "waiting"
    /\ answer' = Set(answer, c, IF sstate[ref[c]] \in Over THEN "error" ELSE ref[c])
    /\ pc' = Set(pc, c, "returned")
    /\ UNCHANGED <<up, managerVars, told, nameVars, sessionVars, rowVars, failed, ref,
                   closerVars, faults>>

Deduplicate(c) ==
    /\ pc[c] = "waiting"
    /\ openDone[ref[c]]
    /\ answer' = Set(answer, c, IF sstate[ref[c]] \in Over THEN "error" ELSE ref[c])
    /\ pc' = Set(pc, c, "returned")
    /\ UNCHANGED <<up, managerVars, told, nameVars, sessionVars, rowVars, failed, ref,
                   closerVars, faults>>

(* The filter, the audit writer and s.out are made after the registration. *)
MakeOutput(c) ==
    /\ pc[c] = "registered"
    /\ out' = Set(out, c, TRUE)
    /\ pc' = Set(pc, c, "dialing")
    /\ UNCHANGED <<up, managerVars, told, nameVars, sstate, transport, once, openDone, done,
                   rowVars, failed, ref, answer, closerVars, faults>>

(* The factory: a transport, or an error (also because close or the caller *)
(* cancelled the context).                                                 *)
Dial(c) ==
    /\ pc[c] = "dialing"
    /\ \/ /\ transport' = Set(transport, c, "held")
          /\ pc' = Set(pc, c, "dialed")
          /\ UNCHANGED failed
       \/ /\ failed' = Set(failed, c, TRUE)
          /\ pc' = Set(pc, c, "installing")
          /\ UNCHANGED transport
    /\ UNCHANGED <<up, managerVars, told, nameVars, sstate, out, once, openDone, done, rowVars,
                   ref, answer, closerVars, faults>>

(* Mutant: the transport is kept when the session cannot be recorded.      *)
OnOpen_KeepsTransport(c) ==
    /\ pc[c] = "dialed"
    /\ \E ok \in BOOLEAN :
          /\ Stored(ok)
          /\ row' = IF ok THEN Set(row, c, "open") ELSE row
          /\ failed' = Set(failed, c, ~ok)
          /\ pc' = Set(pc, c, IF ok THEN "inserted" ELSE "installing")
    /\ UNCHANGED <<up, managerVars, told, nameVars, sessionVars, rowInserted, closeRecorded,
                   ref, answer, closerVars>>

(* hooks.onOpen: insertAISession, or the transport is given up.            *)
OnOpen(c) ==
    /\ pc[c] = "dialed"
    /\ \E ok \in BOOLEAN :
          /\ Stored(ok)
          /\ row' = IF ok THEN Set(row, c, "open") ELSE row
          /\ transport' = IF ok THEN transport ELSE Set(transport, c, "closed")
          /\ failed' = Set(failed, c, ~ok)
          /\ pc' = Set(pc, c, IF ok THEN "inserted" ELSE "installing")
    /\ UNCHANGED <<up, managerVars, told, nameVars, sstate, out, once, openDone, done,
                   rowInserted, closeRecorded, ref, answer, closerVars>>

(* Mutant: a close that finished before the row is not looked for.         *)
NoteRow_NotLate(c) ==
    /\ pc[c] = "inserted"
    /\ rowInserted' = Set(rowInserted, c, TRUE)
    /\ pc' = Set(pc, c, "installing")
    /\ UNCHANGED <<up, managerVars, told, nameVars, sessionVars, row, closeRecorded, failed,
                   ref, answer, closerVars, faults>>

(* rowInserted; if close() is through already, its record is made up for.  *)
NoteRow(c) ==
    /\ pc[c] = "inserted"
    /\ rowInserted' = Set(rowInserted, c, TRUE)
    /\ LET late == sstate[c] = "closed" /\ ~closeRecorded[c] IN
       /\ closeRecorded' = Set(closeRecorded, c, closeRecorded[c] \/ late)
       /\ pc' = Set(pc, c, IF late THEN "late" ELSE "installing")
    /\ UNCHANGED <<up, managerVars, told, nameVars, sessionVars, row, failed, ref, answer,
                   closerVars, faults>>

(* hooks.onClose: closeAISessionRow, an error of which is only logged.     *)
OnClose(s) ==
    \E ok \in BOOLEAN :
        /\ Stored(ok)
        /\ row' = IF ok /\ row[s] = "open" THEN Set(row, s, "closed") ELSE row

RecordLate(c) ==
    /\ pc[c] = "late"
    /\ OnClose(c)
    /\ pc' = Set(pc, c, "installing")
    /\ UNCHANGED <<up, managerVars, told, nameVars, sessionVars, rowInserted, closeRecorded,
                   failed, ref, answer, closerVars>>

(* The transport and the gate are stored, unless the session is closing or *)
(* closed: then the opener keeps the transport to close it.                *)
Install(c) ==
    /\ pc[c] = "installing"
    /\ IF ~failed[c] /\ sstate[c] \notin Over
       THEN /\ transport' = Set(transport, c, "stored")
            /\ sstate' = Set(sstate, c, "idle")
            /\ pc' = Set(pc, c, "opened")
       ELSE /\ pc' = Set(pc, c, IF failed[c] THEN "announce" ELSE "abandon")
            /\ UNCHANGED <<transport, sstate>>
    /\ UNCHANGED <<up, managerVars, told, nameVars, out, once, openDone, done, rowVars, failed,
                   ref, answer, closerVars, faults>>

Abandon(c) ==
    /\ pc[c] = "abandon"
    /\ transport' = Set(transport, c, "closed")
    /\ pc' = Set(pc, c, "announce")
    /\ UNCHANGED <<up, managerVars, told, nameVars, sstate, out, once, openDone, done, rowVars,
                   failed, ref, answer, closerVars, faults>>

(* close(s.openDone), then the ways out of open.                           *)
Announce(c) ==
    /\ pc[c] \in {"opened", "announce"}
    /\ openDone' = Set(openDone, c, TRUE)
    /\ pc' = Set(pc, c, IF pc[c] = "opened" THEN "returned"
                        ELSE IF failed[c] THEN "cleanup" ELSE "awaiting")
    /\ answer' = IF pc[c] = "opened" THEN Set(answer, c, c) ELSE answer
    /\ UNCHANGED <<up, managerVars, told, nameVars, sstate, out, transport, once, done, rowVars,
                   failed, ref, closerVars, faults>>

(* Closed while dialing: wait for close() and report it.                   *)
AwaitClose(c) ==
    /\ pc[c] = "awaiting"
    /\ done[c]
    /\ answer' = Set(answer, c, "error")
    /\ pc' = Set(pc, c, "returned")
    /\ UNCHANGED <<up, managerVars, told, nameVars, sessionVars, rowVars, failed, ref,
                   closerVars, faults>>

Unregister(s) ==
    /\ live' = live \ {s}
    /\ byIdem' = [a \in Agents |-> [k \in Keys |->
                    IF a = owner[s] /\ k = key[s] /\ byIdem[a][k] = s THEN None ELSE byIdem[a][k]]]

(* A failed open closes its own session through closeOnce, or waits for    *)
(* the end of the close() that was first.                                  *)
CleanUp(c) ==
    /\ pc[c] = "cleanup"
    /\ IF once[c] = None
       THEN /\ once' = Set(once, c, "open")
            /\ Unregister(c)
            /\ pc' = Set(pc, c, "clean")
            /\ UNCHANGED answer
       ELSE /\ done[c] \/ closer[c] = "stuck"
            /\ answer' = Set(answer, c, "error")
            /\ pc' = Set(pc, c, "returned")
            /\ UNCHANGED <<once, live, byIdem>>
    /\ UNCHANGED <<up, enabled, mgrClosed, tombstones, told, nameVars, sstate, out, transport,
                   openDone, done, rowVars, failed, ref, closerVars, faults>>

CleanedUp(c) ==
    /\ pc[c] = "clean"
    /\ sstate' = Set(sstate, c, "closed")
    /\ done' = Set(done, c, TRUE)
    /\ answer' = Set(answer, c, "error")
    /\ pc' = Set(pc, c, "returned")
    /\ UNCHANGED <<up, managerVars, told, nameVars, out, transport, once, openDone, rowVars,
                   failed, ref, closerVars, faults>>

-----------------------------------------------------------------------------
(* close.                                                                  *)

(* closeWhere of a disconnect, a deletion, a person, or the sweeper: each  *)
(* session of the list is told to close by a goroutine.                    *)
CloseWhere(S) ==
    /\ up
    /\ S # {} /\ S \subseteq live \ told
    /\ told' = told \cup S
    /\ UNCHANGED <<up, managerVars, nameVars, sessionVars, rowVars, callVars, closerVars, faults>>

(* SaveAISessionSettings; turning the feature off closes every session.    *)
SaveSettings(on) ==
    /\ up
    /\ enabled # on
    /\ enabled' = on
    /\ told' = IF on THEN told ELSE told \cup live
    /\ UNCHANGED <<up, mgrClosed, live, byIdem, tombstones, nameVars, sessionVars, rowVars,
                   callVars, closerVars, faults>>

Shutdown ==
    /\ up
    /\ ~mgrClosed
    /\ mgrClosed' = TRUE
    /\ told' = told \cup live
    /\ UNCHANGED <<up, enabled, live, byIdem, tombstones, nameVars, sessionVars, rowVars,
                   callVars, closerVars, faults>>

(* The remote side or the network ends the transport of a session.         *)
TransportEnds(s) ==
    /\ transport[s] = "stored"
    /\ transport' = Set(transport, s, "ended")
    /\ UNCHANGED <<up, managerVars, told, nameVars, sstate, out, once, openDone, done, rowVars,
                   callVars, closerVars, faults>>

(* closeOnce: the first to come runs close(), the others do nothing.       *)
BeginClose(s, by) ==
    IF once[s] = None
    THEN /\ once' = Set(once, s, "close")
         /\ sstate' = Set(sstate, s, "closing")
         /\ closer' = Set(closer, s, by)
    ELSE UNCHANGED <<once, sstate, closer>>

CloseTold(s) ==
    /\ s \in told
    /\ told' = told \ {s}
    /\ BeginClose(s, "notify")
    /\ UNCHANGED <<up, managerVars, nameVars, out, transport, openDone, done, rowVars, callVars,
                   grabbed, faults>>

(* closeSession and the agent's close_session, in the handler of a call.   *)
CloseSession(s) ==
    /\ up /\ s \in live
    /\ once[s] = None
    /\ BeginClose(s, "handle")
    /\ UNCHANGED <<up, managerVars, told, nameVars, out, transport, openDone, done, rowVars,
                   callVars, grabbed, faults>>

(* watch, which open starts last.                                          *)
Watch(s) ==
    /\ pc[s] = "returned" /\ answer[s] = s
    /\ transport[s] = "ended"
    /\ once[s] = None
    /\ BeginClose(s, "notify")
    /\ UNCHANGED <<up, managerVars, told, nameVars, out, transport, openDone, done, rowVars,
                   callVars, grabbed, faults>>

(* s.out.Notify.  Without an output it is a nil dereference: nothing       *)
(* recovers the goroutine of closeWhere, and the process ends; a handler   *)
(* recovers, with closeOnce used up and the session still closing.         *)
CloseNotify(s) ==
    /\ closer[s] \in {"notify", "handle"}
    /\ out[s]
    /\ closer' = Set(closer, s, "await")
    /\ UNCHANGED <<up, managerVars, told, nameVars, sessionVars, rowVars, callVars, grabbed, faults>>

Panic(s) ==
    /\ closer[s] = "notify"
    /\ ~out[s]
    /\ up' = FALSE
    /\ live' = {}
    /\ byIdem' = [a \in Agents |-> [k \in Keys |-> None]]
    /\ tombstones' = <<>>
    /\ told' = {}
    /\ transport' = [t \in Calls |-> IF transport[t] = None THEN None ELSE "closed"]
    /\ closer' = [t \in Calls |-> "done"]
    /\ pc' = [c \in Calls |-> "dead"]
    /\ UNCHANGED <<enabled, mgrClosed, nameVars, sstate, out, once, openDone, done, rowVars,
                   failed, ref, answer, grabbed, faults>>

Recovered(s) ==
    /\ closer[s] = "handle"
    /\ ~out[s]
    /\ closer' = Set(closer, s, "stuck")
    /\ UNCHANGED <<up, managerVars, told, nameVars, sessionVars, rowVars, callVars, grabbed, faults>>

(* The opener is through, or aiCloseGrace is over.                         *)
CloseAwait(s) ==
    /\ closer[s] = "await"
    /\ grabbed' = Set(grabbed, s, transport[s] \in {"stored", "ended"})
    /\ closer' = Set(closer, s, "settle")
    /\ UNCHANGED <<up, managerVars, told, nameVars, sessionVars, rowVars, callVars, faults>>

(* settleLines (LineGate), then the transport is closed.                   *)
CloseTransport(s) ==
    /\ closer[s] = "settle"
    /\ transport' = IF grabbed[s] THEN Set(transport, s, "closed") ELSE transport
    /\ closer' = Set(closer, s, "finish")
    /\ UNCHANGED <<up, managerVars, told, nameVars, sstate, out, once, openDone, done, rowVars,
                   callVars, grabbed, faults>>

(* The state is closed, and who records the close is settled.              *)
CloseFinish(s) ==
    /\ closer[s] = "finish"
    /\ sstate' = Set(sstate, s, "closed")
    /\ LET record == rowInserted[s] /\ ~closeRecorded[s] IN
       /\ closeRecorded' = Set(closeRecorded, s, closeRecorded[s] \/ record)
       /\ closer' = Set(closer, s, IF record THEN "record" ELSE "retire")
    /\ UNCHANGED <<up, managerVars, told, nameVars, out, transport, once, openDone, done, row,
                   rowInserted, callVars, grabbed, faults>>

CloseRecord(s) ==
    /\ closer[s] = "record"
    /\ OnClose(s)
    /\ closer' = Set(closer, s, "retire")
    /\ UNCHANGED <<up, managerVars, told, nameVars, sessionVars, rowInserted, closeRecorded,
                   callVars, grabbed>>

(* capTombstonesLocked: the oldest of the owner, then the oldest of all,   *)
(* make room.                                                              *)
Capped(seq, a) ==
    LET mine == SelectSeq(seq, LAMBDA t : owner[t] = a)
        kept == IF Len(mine) > TombsPerOwner
                THEN SelectSeq(seq, LAMBDA t : t # mine[1]) ELSE seq
    IN  IF Len(kept) > TombsTotal THEN Tail(kept) ELSE kept

Retire(s) ==
    /\ closer[s] = "retire"
    /\ Unregister(s)
    /\ tombstones' = Capped(Append(tombstones, s), owner[s])
    /\ done' = Set(done, s, TRUE)
    /\ closer' = Set(closer, s, "done")
    /\ UNCHANGED <<up, enabled, mgrClosed, told, nameVars, sstate, out, transport, once,
                   openDone, rowVars, callVars, grabbed, faults>>

(* sweep: a tombstone gets too old.                                        *)
Forget ==
    /\ up
    /\ tombstones # <<>>
    /\ tombstones' = Tail(tombstones)
    /\ UNCHANGED <<up, enabled, mgrClosed, live, byIdem, told, nameVars, sessionVars, rowVars,
                   callVars, closerVars, faults>>

(* The next start: recoverOpenAISessionRows.                               *)
Recover ==
    /\ ~up
    /\ \E s \in Calls : row[s] = "open"
    /\ row' = [s \in Calls |-> IF row[s] = "open" THEN "closed" ELSE row[s]]
    /\ UNCHANGED <<up, managerVars, told, nameVars, sessionVars, rowInserted, closeRecorded,
                   callVars, closerVars, faults>>

-----------------------------------------------------------------------------
OpenStep(c) ==
    \/ Deduplicate(c) \/ MakeOutput(c) \/ Dial(c) \/ OnOpen(c) \/ NoteRow(c) \/ RecordLate(c)
    \/ Install(c) \/ Abandon(c) \/ Announce(c) \/ AwaitClose(c) \/ CleanUp(c) \/ CleanedUp(c)

CloseStep(s) ==
    \/ CloseNotify(s) \/ Panic(s) \/ Recovered(s) \/ CloseAwait(s)
    \/ CloseTransport(s) \/ CloseFinish(s) \/ CloseRecord(s) \/ Retire(s)

Next ==
    \/ \E c \in Calls, a \in Agents, k \in Keys \cup {None} : Open(c, a, k) \/ OpenAgain(c, a, k)
    \/ \E c \in Calls : \/ OpenStep(c) \/ CloseStep(c) \/ CloseTold(c) \/ Watch(c)
                         \/ CloseSession(c) \/ TransportEnds(c)
    \/ \E S \in SUBSET live : CloseWhere(S)
    \/ \E on \in BOOLEAN : SaveSettings(on)
    \/ Shutdown
    \/ Forget
    \/ Recover

Spec == Init /\ [][Next]_vars

-----------------------------------------------------------------------------
(* Properties.                                                             *)

(* Every SSH connection belongs to somebody who will close it: to a        *)
(* session in the registry, or to an open that has not returned.  So the   *)
(* limits on sessions bound the connections agents can hold.               *)
NoTransportLeaks ==
    \A s \in Calls :
        /\ transport[s] \in {"stored", "ended"} => s \in live
        /\ transport[s] = "held" => pc[s] # "returned"

(* An inserted row is closed once session and open are over, whichever of  *)
(* close() and the opener came first, unless SQLite refused a write.       *)
RowsAreClosed ==
    \A s \in Calls : done[s] /\ pc[s] = "returned" /\ faults = 0 => row[s] # "open"

(* A retried open_session is answered with a session that is open, or      *)
(* whose open has just failed and is being cleaned up: never with one that *)
(* is still being dialed or is closing.                                    *)
RetryGetsTheSession ==
    [][\A c \in Calls : pc[c] = "waiting" /\ answer'[c] \in Calls =>
          \/ sstate[answer'[c]] = "idle"
          \/ failed[answer'[c]] /\ pc[answer'[c]] \in {"cleanup", "clean"}]_vars

=============================================================================
