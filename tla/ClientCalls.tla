----------------------------- MODULE ClientCalls -----------------------------
(***************************************************************************)
(* What an agent that retries and polls relies on: client_request_id,      *)
(* which makes execute_command and send_line idempotent for 24 hours       *)
(* (mcp_status.go, mcp_server.go), and the long poll of get_request_status *)
(* (approval.go).                                                          *)
(*                                                                         *)
(* The requests themselves are reduced to what a lookup sees of them: who  *)
(* filed one under which client_request_id, its status in memory and in    *)
(* command_requests, whether it was deleted from the history, and whether  *)
(* it is older than 24 hours.  Calls without a client_request_id neither   *)
(* lock nor look up and are left out.  A key is the pair of agent and      *)
(* client_request_id; of AI sessions only the latest can be open, and a    *)
(* line only knows whether its session still is.                           *)
(***************************************************************************)
EXTENDS Naturals, FiniteSets

CONSTANTS
  Agents,
  ClientIds,   \* values of client_request_id
  Calls,       \* tools/call requests that file commands or lines
  Polls,       \* get_request_status requests served at the same time
  Window,      \* finished requests loaded at the start (500)
  MaxId,       \* bound: requests filed
  Mishaps      \* bound: failing SQLite statements, restarts and days gone by

Nil == 0

\* The calls are finitely many, and Nil is none of them.
CallsAreNamed == IsFiniteSet(Calls) /\ Nil \notin Calls

ASSUME ClientCallsAssumption ==
  {Window, MaxId, Mishaps} \subseteq Nat /\ CallsAreNamed

Free == [pc |-> "idle"]
Ids == 1 .. MaxId
Locks == 1 .. Cardinality(Calls)
Final == "final"
Unknown == "unknown"
Open == {"pending", "running"}

VARIABLES
  rows,     \* command_requests: id -> what was filed, status, deleted, old
  mem,      \* a.requests: id -> status
  keys,     \* mcpRuntime.keys: key -> idempotencyLock, Nil if absent
  refs,     \* idempotencyLock.refs
  holder,   \* idempotencyLock.mu
  call,     \* the execute_command and send_line calls
  poll,     \* the get_request_status calls
  open,     \* whether an AI session is open
  blind,    \* requests filed while a young one of their key was only stored
  mishaps   \* those that happened

calls == <<keys, refs, holder, call, blind>>
callsVars == <<rows, mem, calls, poll, open, mishaps>>

KeyOf(r) == <<r.agent, r.cid>>
Keys == Agents \X ClientIds
Young(i) == ~rows[i].old
NextId == Cardinality(DOMAIN rows) + 1

Mishap == mishaps < Mishaps /\ mishaps' = mishaps + 1
NoMishap == UNCHANGED mishaps

\* a.mu is free: no poll is between its look at ctx and reqCond.Wait.
MuFree == \A p \in Polls : poll[p].pc # "dozing"

CallsInit ==
  /\ rows = <<>> /\ mem = <<>>
  /\ keys = [k \in Keys |-> Nil]
  /\ refs = [l \in Locks |-> 0]
  /\ holder = [l \in Locks |-> Nil]
  /\ call = [c \in Calls |-> Free]
  /\ poll = [p \in Polls |-> Free]
  /\ open = FALSE
  /\ blind = {}
  /\ mishaps = 0

-----------------------------------------------------------------------------
(* Filing under a client_request_id.                                       *)

\* checkAISessionOwner: a line is sent to an open session.
Kinds == {"command"} \cup (IF open THEN {"line"} ELSE {})

Step(c, pc) == call' = [call EXCEPT ![c].pc = pc]

\* lockKey, under rt.mu: the lock of the key, a new one if it has none.  A
\* lock nobody refers to stands for one not yet allocated.
LockKey(c) ==
  /\ call[c].pc = "idle"
  /\ NextId \in Ids
  /\ \E a \in Agents, i \in ClientIds, k \in Kinds :
       LET l == IF keys[<<a, i>>] # Nil THEN keys[<<a, i>>]
                ELSE CHOOSE f \in Locks : refs[f] = 0
       IN /\ keys' = [keys EXCEPT ![<<a, i>>] = l]
          /\ refs' = [refs EXCEPT ![l] = @ + 1]
          /\ call' = [call EXCEPT ![c] =
               [pc |-> "locking", agent |-> a, cid |-> i, kind |-> k, lock |-> l,
                live |-> k = "line", id |-> 0]]
  /\ UNCHANGED <<rows, mem, holder, poll, open, blind, mishaps>>

\* lock.mu.Lock
Acquire(c) ==
  /\ call[c].pc = "locking" /\ holder[call[c].lock] = Nil
  /\ holder' = [holder EXCEPT ![call[c].lock] = c]
  /\ Step(c, "locked")
  /\ UNCHANGED <<rows, mem, keys, refs, poll, open, blind, mishaps>>

\* findRequestByClientID
findRequestByClientID(c) ==
  {i \in DOMAIN mem : KeyOf(rows[i]) = KeyOf(call[c]) /\ Young(i)}

\* loadRequestByClientID, which also finds a request deleted from the history.
\* Every request in memory has its row.
loadRequestByClientID(c) ==
  {i \in DOMAIN rows : KeyOf(rows[i]) = KeyOf(call[c]) /\ Young(i)}

\* send_line looks in memory only, then at the state of its session.
LookupLine(c) ==
  /\ call[c].pc = "locked" /\ call[c].kind = "line" /\ MuFree
  /\ Step(c, IF findRequestByClientID(c) = {} /\ call[c].live THEN "filing" ELSE "leaving")
  /\ UNCHANGED <<rows, mem, keys, refs, holder, poll, open, blind, mishaps>>

\* existingClientRequest: in memory, then in SQLite, where an error reads as
\* not found.
LookupCommand(c) ==
  /\ call[c].pc = "locked" /\ call[c].kind = "command" /\ MuFree
  /\ \/ /\ Step(c, IF loadRequestByClientID(c) = {} THEN "filing" ELSE "leaving")
        /\ NoMishap
     \/ findRequestByClientID(c) = {} /\ Step(c, "filing") /\ Mishap
  /\ UNCHANGED <<rows, mem, keys, refs, holder, poll, open, blind>>

\* The call is turned away before it files anything: unknown host, busy
\* session, rejected line, no execution slot.
Refuse(c) ==
  /\ call[c].pc = "filing"
  /\ Step(c, "leaving")
  /\ UNCHANGED <<rows, mem, keys, refs, holder, poll, open, blind, mishaps>>

\* Requests that are only stored, other than the ones about to be published.
LeftMemory ==
  DOMAIN rows \ (DOMAIN mem \cup {call[c].id : c \in {d \in Calls : call[d].pc = "filed"}})

\* recordCommandRequest: the INSERT, queued or already auto_running.
InsertRow(c) ==
  /\ call[c].pc = "filing"
  /\ \/ /\ NextId \in Ids
        /\ \E s \in Open :
             rows' = [i \in DOMAIN rows \cup {NextId} |->
               IF i \in DOMAIN rows THEN rows[i]
               ELSE [agent |-> call[c].agent, cid |-> call[c].cid, kind |-> call[c].kind,
                     live |-> call[c].live, status |-> s,
                     deleted |-> FALSE, old |-> FALSE]]
        /\ call' = [call EXCEPT ![c].pc = "filed", ![c].id = NextId]
        /\ blind' = IF loadRequestByClientID(c) \cap LeftMemory # {}
                    THEN blind \cup {NextId} ELSE blind
        /\ NoMishap
     \/ Step(c, "leaving") /\ UNCHANGED <<rows, blind>> /\ Mishap
  /\ UNCHANGED <<mem, keys, refs, holder, poll, open>>

\* notifyRequestsChangedLocked
Woken == [p \in Polls |-> IF poll[p].pc = "asleep" THEN [poll[p] EXCEPT !.pc = "woken"]
                          ELSE poll[p]]

\* recordCommandRequest: the request appears in a.requests.
Publish(c) ==
  /\ call[c].pc = "filed" /\ MuFree
  /\ mem' = [i \in DOMAIN mem \cup {call[c].id} |->
               IF i \in DOMAIN mem THEN mem[i] ELSE rows[i].status]
  /\ poll' = Woken
  /\ Step(c, "leaving")
  /\ UNCHANGED <<rows, keys, refs, holder, open, blind, mishaps>>

\* unlock: lock.mu.Unlock ...
Unlock(c) ==
  /\ call[c].pc = "leaving"
  /\ holder' = [holder EXCEPT ![call[c].lock] = Nil]
  /\ Step(c, "unlocked")
  /\ UNCHANGED <<rows, mem, keys, refs, poll, open, blind, mishaps>>

\* Mutant: the map entry is dropped although others refer to the lock.
DropRef_Entry(c) ==
  /\ call[c].pc = "unlocked"
  /\ refs' = [refs EXCEPT ![call[c].lock] = @ - 1]
  /\ keys' = [keys EXCEPT ![KeyOf(call[c])] = Nil]
  /\ call' = [call EXCEPT ![c] = Free]
  /\ UNCHANGED <<rows, mem, holder, poll, open, blind, mishaps>>

\* ... and, under rt.mu, the reference; the last one takes the entry with it.
DropRef(c) ==
  /\ call[c].pc = "unlocked"
  /\ refs' = [refs EXCEPT ![call[c].lock] = @ - 1]
  /\ keys' = IF refs[call[c].lock] = 1 THEN [keys EXCEPT ![KeyOf(call[c])] = Nil]
             ELSE keys
  /\ call' = [call EXCEPT ![c] = Free]
  /\ UNCHANGED <<rows, mem, holder, poll, open, blind, mishaps>>

-----------------------------------------------------------------------------
(* What happens to a filed request, as far as lookups and polls see it.    *)

\* transitionRequest, by an approval, a rejection, an expiry or the end of a run.
Transition(i) ==
  /\ MuFree /\ i \in DOMAIN mem /\ mem[i] # Final
  /\ \E s \in {"running", Final} \ {mem[i]} :
       /\ mem' = [mem EXCEPT ![i] = s]
       /\ rows' = [rows EXCEPT ![i].status = s]
  /\ poll' = Woken
  /\ UNCHANGED <<calls, open, mishaps>>

\* aiLineDeleteRefusal: a line stays while its session is open.
aiLineDeleteRefusal(i) == rows[i].live

\* Mutant: a line may be deleted under its open session.
DeleteCommandRequest_AnyLine(i) ==
  /\ MuFree /\ i \in DOMAIN mem /\ mem[i] # "running"
  /\ rows' = [rows EXCEPT ![i].deleted = TRUE]
  /\ mem' = [j \in DOMAIN mem \ {i} |-> mem[j]]
  /\ poll' = Woken
  /\ UNCHANGED <<calls, open, mishaps>>

\* DeleteCommandRequest: a soft delete; the row stays for the audit.
DeleteCommandRequest(i) ==
  /\ MuFree /\ i \in DOMAIN mem /\ mem[i] # "running"
  /\ ~aiLineDeleteRefusal(i)
  /\ rows' = [rows EXCEPT ![i].deleted = TRUE]
  /\ mem' = [j \in DOMAIN mem \ {i} |-> mem[j]]
  /\ poll' = Woken
  /\ UNCHANGED <<calls, open, mishaps>>

OpenSession ==
  /\ ~open /\ open' = TRUE
  /\ UNCHANGED <<rows, mem, calls, poll, mishaps>>

\* What a line and a call see of a session that closed.
Dead(f) == [x \in DOMAIN f |-> IF f[x] = Free THEN Free ELSE [f[x] EXCEPT !.live = FALSE]]

CloseSession ==
  /\ open /\ open' = FALSE
  /\ rows' = Dead(rows) /\ call' = Dead(call)
  /\ UNCHANGED <<mem, keys, refs, holder, poll, blind, mishaps>>

\* 24 hours pass; no session lives as long.
Day ==
  /\ ~open /\ Mishap
  /\ rows' = [i \in DOMAIN rows |-> [rows[i] EXCEPT !.old = TRUE]]
  /\ UNCHANGED <<mem, calls, poll, open>>

-----------------------------------------------------------------------------
(* get_request_status.                                                     *)

\* lookupRequestsLocked: a status, or Unknown for an id not in memory.
lookupRequests(is) == [i \in is |-> IF i \in DOMAIN mem THEN mem[i] ELSE Unknown]

\* lookupsSettled
lookupsSettled(entries) == \E i \in DOMAIN entries : entries[i] \in {Unknown, Final}

Answer(p) == poll' = [poll EXCEPT ![p] = Free]

\* requestStatusTool.  With another agent's request among the ids (requestOwner)
\* it answers without waiting, which changes nothing; those calls are left out.
Ask(p) ==
  /\ poll[p].pc = "idle"
  /\ \E a \in Agents, is \in SUBSET DOMAIN rows \ {{}} :
       /\ \A i \in is : rows[i].agent = a
       /\ poll' = [poll EXCEPT ![p] =
            [pc |-> "entering", ids |-> is, seen |-> <<>>, over |-> "no"]]
  /\ UNCHANGED <<rows, mem, calls, open, mishaps>>

\* waitForRequests: the initial look under a.mu, which answers at once or goes
\* on to the look at ctx and to Wait, still under a.mu.
Enter(p) ==
  /\ poll[p].pc = "entering" /\ MuFree
  /\ LET now == lookupRequests(poll[p].ids)
     IN IF lookupsSettled(now) \/ poll[p].over # "no" THEN Answer(p)
        ELSE poll' = [poll EXCEPT ![p].pc = "dozing", ![p].seen = now]
  /\ UNCHANGED <<rows, mem, calls, open, mishaps>>

\* reqCond.Wait
Wait(p) ==
  /\ poll[p].pc = "dozing"
  /\ poll' = [poll EXCEPT ![p].pc = "asleep"]
  /\ UNCHANGED <<rows, mem, calls, open, mishaps>>

\* Wait returns with a.mu and the loop looks again.  requestStatus answers when
\* a request is settled or the wait is over, and waits on after another change.
Wake(p) ==
  /\ poll[p].pc = "woken" /\ MuFree
  /\ LET now == lookupRequests(poll[p].ids)
     IN IF lookupsSettled(now) \/ poll[p].over # "no" THEN Answer(p)
        ELSE poll' = [poll EXCEPT ![p].pc = IF now = poll[p].seen THEN "dozing"
                                            ELSE "entering"]
  /\ UNCHANGED <<rows, mem, calls, open, mishaps>>

\* The wait elapses, or the client leaves or the listener stops.
CtxEnds(p) ==
  /\ poll[p].pc # "idle" /\ poll[p].over = "no"
  /\ poll' = [poll EXCEPT ![p].over = "ended"]
  /\ UNCHANGED <<rows, mem, calls, open, mishaps>>

\* Mutant: the broadcast does not take a.mu.
CtxFires_NoLock(p) ==
  /\ poll[p].pc \notin {"idle", "entering"} /\ poll[p].over = "ended"
  /\ poll' = [Woken EXCEPT ![p].over = "fired"]
  /\ UNCHANGED <<rows, mem, calls, open, mishaps>>

\* context.AfterFunc of waitForRequests: once, under a.mu.
CtxFires(p) ==
  /\ poll[p].pc \notin {"idle", "entering"} /\ poll[p].over = "ended"
  /\ MuFree
  /\ poll' = [Woken EXCEPT ![p].over = "fired"]
  /\ UNCHANGED <<rows, mem, calls, open, mishaps>>

-----------------------------------------------------------------------------
\* Ids of the newest n requests among is.
Newest(is, n) == {i \in is : Cardinality({j \in is : j > i}) < n}

\* A crash and NewApp: what ran is interrupted; loadCommandRequests(500) loads
\* the open requests and the newest others.
Restart ==
  /\ Mishap
  /\ rows' = [i \in DOMAIN rows |->
       [rows[i] EXCEPT !.status = IF @ = "running" THEN Final ELSE @, !.live = FALSE]]
  /\ LET kept == {i \in DOMAIN rows : ~rows[i].deleted}
     IN mem' = [i \in {j \in kept : rows'[j].status \in Open} \cup Newest(kept, Window) |->
                  rows'[i].status]
  /\ keys' = [k \in Keys |-> Nil]
  /\ refs' = [l \in Locks |-> 0]
  /\ holder' = [l \in Locks |-> Nil]
  /\ call' = [c \in Calls |-> Free]
  /\ poll' = [p \in Polls |-> Free]
  /\ open' = FALSE
  /\ UNCHANGED blind

CallNext(c) ==
  \/ LockKey(c) \/ Acquire(c) \/ LookupLine(c) \/ LookupCommand(c) \/ Refuse(c)
  \/ InsertRow(c) \/ Publish(c) \/ Unlock(c) \/ DropRef(c)

PollNext(p) ==
  \/ Ask(p) \/ Enter(p) \/ Wait(p) \/ Wake(p) \/ CtxEnds(p) \/ CtxFires(p)

CallsNext ==
  \/ \E c \in Calls : CallNext(c)
  \/ \E p \in Polls : PollNext(p)
  \/ \E i \in DOMAIN rows : Transition(i) \/ DeleteCommandRequest(i)
  \/ OpenSession \/ CloseSession \/ Day \/ Restart

CallsSpec == CallsInit /\ [][CallsNext]_callsVars

\* A poll and the goroutine of its AfterFunc run on.  No wait has to elapse and
\* no request has to end.
CallsFairness ==
  \A p \in Polls :
    WF_callsVars(Enter(p) \/ Wait(p) \/ Wake(p)) /\ WF_callsVars(CtxFires(p))

CallsFairSpec == CallsSpec /\ CallsFairness

-----------------------------------------------------------------------------
(* Properties.                                                             *)

(* However calls with one client_request_id overlap, crash and are retried,*)
(* its agent has one request of 24 hours under it.  The exception is the   *)
(* one the code makes: a request that has left memory is found in SQLite   *)
(* only, where execute_command may fail to read it and send_line does not  *)
(* look.                                                                   *)
OneRequestPerKey ==
  \A i, j \in DOMAIN rows :
    i < j /\ KeyOf(rows[i]) = KeyOf(rows[j]) /\ Young(i) /\ Young(j) => j \in blind

(* A line resent to its session is not filed twice: send_line looks in     *)
(* memory only, and that is enough because a line of an open session is    *)
(* not deleted from it and no session outlives the process.                *)
LineOncePerSession ==
  \A i, j \in DOMAIN rows :
    rows[i].live /\ rows[j].live /\ KeyOf(rows[i]) = KeyOf(rows[j]) => i = j

(* A long poll is answered once its wait is over, and also once one of its *)
(* requests has ended or is gone from the history: neither the timer's     *)
(* wake-up nor a request's can fall between the look and the sleep.        *)
PollsAreAnswered ==
  \A p \in Polls :
    (/\ poll[p].pc # "idle"
     /\ \/ poll[p].over # "no"
        \/ \E i \in poll[p].ids : rows[i].status = Final \/ rows[i].deleted)
      ~> (poll[p].pc = "idle")
=============================================================================
