------------------------------ MODULE AdminAuth ------------------------------
(***************************************************************************)
(* Sign-in to the web administration (webauth.go): the admin token and the *)
(* optional password, each kept in a file that the command line may        *)
(* rewrite and in memory; the table of sessions; the limiter of login      *)
(* attempts; and the watcher that follows the files.                       *)
(*                                                                         *)
(* Every HTTP request is a handler that takes a.mu and l.mu several times  *)
(* and lets go of them in between: one action is one critical section, one *)
(* file operation or one wait.  A write of a file is known by its number,  *)
(* which stands for the value written and for the modification time, so    *)
(* two writes never share a time stamp.  Texts of errors, cookies, the     *)
(* session key header and the audit entries are left out.                  *)
(***************************************************************************)
EXTENDS Naturals, Sequences, FiniteSets, FiniteSetsExt, Functions

CONSTANTS
  Handlers,        \* HTTP requests served at the same time
  Remotes,         \* addresses that clients come from
  Loopback,        \* those of them that are loopback addresses
  MaxSessions,     \* web.maxSessions
  RemoteMaxFails,  \* loginRemoteMaxFails
  GlobalMaxFails,  \* loginGlobalMaxFails
  MaxRemotes,      \* loginMaxRemotes
  Evicted,         \* loginMaxRemotes / 4
  MaxDelayed,      \* loginMaxDelayedTotal
  HashSlots,       \* adminPasswordHashSlots
  Window,          \* loginWindow and loginLockDuration, in ticks
  IdleTicks,       \* web.session.idleMinutes
  AgeTicks,        \* web.session.maxHours
  Logins,          \* bound: sessions ever made
  Budget,          \* bound: file writes and admitted attempts, together
  MaxClock         \* bound: ticks of the clock

ASSUME AuthAssumption ==
  /\ IsFiniteSet(Handlers) /\ Loopback \subseteq Remotes
  /\ {MaxSessions, RemoteMaxFails, GlobalMaxFails, HashSlots, Window,
      IdleTicks, AgeTicks} \subseteq Nat \ {0}
  /\ {MaxRemotes, Evicted, MaxDelayed, Logins, Budget, MaxClock}
       \subseteq Nat

VARIABLES
  now,           \* the clock
  writes,        \* number of file writes so far
  tokenFile,     \* the write the token file holds
  passwordFile,  \* [is, n]: no file, a hash, or something unreadable
  tokenHash,     \* a.tokenHash
  tokenMod,      \* a.tokenMod
  password,      \* a.password: hash (0: nil), mod, exists
  generation,    \* a.generation
  sessions,      \* a.sessions
  made,          \* sessions ever made; a session's name is its number
  told,          \* sessions whose end the event hub has been told
  stopping,      \* a.stopping
  limiter,       \* the loginLimiter
  wrong,         \* history: times of failed comparisons per remote
  req,           \* what each handler is doing
  watch          \* what the watcher is doing

files == <<writes, tokenFile, passwordFile>>
creds == <<tokenHash, tokenMod, password>>
table == <<generation, sessions, made>>
vars == <<now, files, creds, table, told, stopping, limiter, wrong, req, watch>>

None == 0

Done == [pc |-> "done", kind |-> "none", remote |-> CHOOSE r \in Remotes : TRUE,
         cred |-> None, checked |-> 0, val |-> None, mod |-> None,
         exists |-> FALSE, drop |-> {}]

Resting == [pc |-> "rest", val |-> None, mod |-> None, stat |-> None,
            exists |-> FALSE,
            cur |-> [hash |-> None, mod |-> None, exists |-> FALSE],
            drop |-> {}]

NewLimiter == [remotes |-> <<>>, fails |-> <<>>, until |-> 0, inflight |-> 0,
               delayed |-> 0, admitted |-> 0]

\* Caps the writes (the first is Init's) and the attempts.
WithinBudget == (writes - 1) + limiter.admitted < Budget

\* newAdminAuth: the first token is made when the file is missing; there is
\* no password yet.
Init ==
  /\ now = 0 /\ writes = 1
  /\ tokenFile = 1 /\ passwordFile = [is |-> "none", n |-> None]
  /\ tokenHash = 1 /\ tokenMod = 1
  /\ password = [hash |-> None, mod |-> None, exists |-> FALSE]
  /\ generation = 0 /\ sessions = <<>> /\ made = 0
  /\ told = {} /\ stopping = FALSE
  /\ limiter = NewLimiter
  /\ wrong = [r \in Remotes |-> <<>>]
  /\ req = [h \in Handlers |-> Done]
  /\ watch = Resting

----------------------------------------------------------------------------
(* The limiter of login attempts                                           *)

\* The times at the start that have left the window, which the loop skips.
Lapsed(ts) == {i \in DOMAIN ts : \A j \in 1..i : ts[j] + Window <= now}

loginPruneTimes(ts) == SubSeq(ts, Cardinality(Lapsed(ts)) + 1, Len(ts))

\* f with v at x.
With(f, x, v) == [y \in DOMAIN f \cup {x} |-> IF y = x THEN v ELSE f[y]]

NoFails == [fails |-> <<>>, lockedUntil |-> 0, inflight |-> 0]
RemoteState(rs, r) == IF r \in DOMAIN rs THEN rs[r] ELSE NoFails

\* The bug of counting an attempt only when it has failed.
Counted_FailsOnly(r) ==
  Len(loginPruneTimes(RemoteState(limiter.remotes, r).fails))

Counted(r) ==
  LET st == RemoteState(limiter.remotes, r)
  IN  Len(loginPruneTimes(st.fails)) + st.inflight

Admits(r) ==
  /\ r \notin Loopback =>
       /\ now >= limiter.until
       /\ Len(loginPruneTimes(limiter.fails)) + limiter.inflight < GlobalMaxFails
  /\ now >= RemoteState(limiter.remotes, r).lockedUntil
  /\ Counted(r) < RemoteMaxFails

LastFail(st) == IF st.fails = <<>> THEN 0 ELSE st.fails[Len(st.fails)] + 1

\* The tables evictLocked may leave: the Evicted remotes that failed longest
\* ago go, of those neither locked nor waiting for a result.
Evictions(rs) ==
  LET free == {r \in DOMAIN rs : now >= rs[r].lockedUntil /\ rs[r].inflight = 0}
      size == IF Cardinality(free) < Evicted THEN Cardinality(free) ELSE Evicted
      oldest == {V \in kSubset(size, free) :
                   \A v \in V, u \in free \ V : LastFail(rs[v]) <= LastFail(rs[u])}
  IN  {Restrict(rs, DOMAIN rs \ V) : V \in oldest}

\* The tables in which remote r has or gets an entry.
WithRoom(r) ==
  IF r \in DOMAIN limiter.remotes \/ Cardinality(DOMAIN limiter.remotes) < MaxRemotes
  THEN {limiter.remotes} ELSE Evictions(limiter.remotes)

Forgotten(rs) == [r \in Remotes |-> IF r \in DOMAIN limiter.remotes \ DOMAIN rs
                                    THEN <<>> ELSE wrong[r]]

\* releaseLocked: the state of the attempt's remote once its place is free.
Freed(r) == LET st == RemoteState(limiter.remotes, r)
            IN  [st EXCEPT !.inflight = IF @ > 0 THEN @ - 1 ELSE 0]

dropIfIdle(rs, r) ==
  IF rs[r].inflight = 0 /\ rs[r].fails = <<>> /\ now >= rs[r].lockedUntil
  THEN Restrict(rs, DOMAIN rs \ {r}) ELSE rs

LimiterFreed(rs) == [limiter EXCEPT !.remotes = rs, !.inflight = @ - 1]

\* attempt.release, when nothing was compared.
releaseAttempt(r) ==
  limiter' = LimiterFreed(dropIfIdle(With(limiter.remotes, r, Freed(r)), r))

\* attempt.fail: the place becomes a failure, and the limit a lock.
failAttempt(r) ==
  \E rs \in WithRoom(r) :
    LET st     == Freed(r)
        fails  == Append(loginPruneTimes(st.fails), now)
        locked == Len(fails) >= RemoteMaxFails
        all    == Append(loginPruneTimes(limiter.fails), now)
        full   == Len(all) >= GlobalMaxFails
        next   == [st EXCEPT !.fails = IF locked THEN <<>> ELSE fails,
                             !.lockedUntil = IF locked THEN now + Window ELSE @]
    IN  /\ limiter' = [LimiterFreed(With(rs, r, next)) EXCEPT
                         !.fails = IF full THEN <<>> ELSE all,
                         !.until = IF full THEN now + Window ELSE @]
        /\ wrong' = Forgotten(rs)

\* attempt.succeed: the failures of the remote are forgotten, a lock is not.
succeedAttempt(r) ==
  /\ limiter' = LimiterFreed(
       dropIfIdle(With(limiter.remotes, r, [Freed(r) EXCEPT !.fails = <<>>]), r))
  /\ wrong' = [wrong EXCEPT ![r] = <<>>]

----------------------------------------------------------------------------
(* Sessions                                                                *)

At(h, pc) == req[h].pc = pc
Goto(h, pc) == req' = [req EXCEPT ![h].pc = pc]
Finish(h) == req' = [req EXCEPT ![h] = Done]

Expired(s) == \/ s.generation # generation
              \/ now - s.used >= IdleTicks
              \/ now - s.created >= AgeTicks

Without(ids) == Restrict(sessions, DOMAIN sessions \ ids)

\* lookup finds session id alive; only a keyed API request touches it.
Alive(id) == id \in DOMAIN sessions /\ ~Expired(sessions[id])
Touched(id) == [sessions EXCEPT ![id].used = now]

\* The bug of changing a credential and keeping the sessions.
invalidateAll_KeepsSessions == UNCHANGED table

\* invalidateAllLocked: the next generation starts with no session.
invalidateAll == /\ generation' = generation + 1
                 /\ sessions' = <<>>
                 /\ UNCHANGED made

\* The bug of dropping an expired session without telling the hub.
Lookup_Silent(h, id, api) ==
  /\ At(h, "done") /\ id \in DOMAIN sessions
  /\ sessions' = IF Alive(id) THEN sessions ELSE Without({id})
  /\ UNCHANGED <<now, files, creds, generation, made, told, stopping, limiter,
                 wrong, watch, req>>

\* A page or API request with the cookie of session id: requireSession.
Lookup(h, id, api) ==
  /\ At(h, "done") /\ id \in DOMAIN sessions
  /\ IF Alive(id)
     THEN /\ sessions' = IF api THEN Touched(id) ELSE sessions
          /\ UNCHANGED req
     ELSE /\ sessions' = Without({id})
          /\ req' = [req EXCEPT ![h] = [Done EXCEPT !.pc = "fire", !.drop = {id}]]
  /\ UNCHANGED <<now, files, creds, generation, made, told, stopping, limiter,
                 wrong, watch>>

handleLogout(h, id) ==
  /\ At(h, "done") /\ id \in DOMAIN sessions
  /\ sessions' = Without({id})
  /\ req' = [req EXCEPT ![h] = [Done EXCEPT !.pc = "fire", !.drop = {id}]]
  /\ UNCHANGED <<now, files, creds, generation, made, told, stopping, limiter,
                 wrong, watch>>

\* fireInvalidated, outside a.mu: the hub learns which sessions ended.
FireInvalidated(h) ==
  /\ At(h, "fire")
  /\ told' = told \cup req[h].drop
  /\ Finish(h)
  /\ UNCHANGED <<now, files, creds, table, stopping, limiter, wrong, watch>>

----------------------------------------------------------------------------
(* Login, and the change of the password, which is limited in the same way *)

\* admitAttempt after the body was read: a place is reserved, and waiting is
\* due when other attempts are counted.  cred is the write whose value the
\* client sends: the present one's or a past one's.
Admit(h, kind, r, cred) ==
  /\ Admits(r) /\ WithinBudget
  /\ \E rs \in WithRoom(r) :
       LET st == RemoteState(rs, r)
           next == [st EXCEPT !.fails = loginPruneTimes(@), !.inflight = @ + 1]
       IN  /\ limiter' = [limiter EXCEPT
                            !.remotes = With(rs, r, next),
                            !.fails = loginPruneTimes(@),
                            !.inflight = @ + 1, !.admitted = @ + 1]
           /\ wrong' = Forgotten(rs)
  /\ req' = [req EXCEPT ![h] = [Done EXCEPT
               !.pc = IF Counted(r) > 0 THEN "enter" ELSE "compare",
               !.kind = kind, !.remote = r, !.cred = cred]]

Login(h, kind, r, cred) ==
  /\ At(h, "done") /\ ~stopping /\ kind \in {"token", "password"}
  /\ Admit(h, kind, r, cred)
  /\ UNCHANGED <<now, files, creds, table, told, stopping, watch>>

\* handlePassword behind requireSession, with the current credential.
ChangePassword(h, id, r, cred) ==
  /\ At(h, "done") /\ Alive(id)
  /\ Admit(h, "change", r, cred)
  /\ sessions' = Touched(id)
  /\ UNCHANGED <<now, files, creds, generation, made, told, stopping, watch>>

\* The bug of a refused wait that keeps its place.
EnterDelay_KeepsPlace(h) ==
  /\ At(h, "enter")
  /\ IF limiter.delayed < MaxDelayed
     THEN /\ limiter' = [limiter EXCEPT !.delayed = @ + 1]
          /\ Goto(h, "delay")
     ELSE /\ Finish(h)
          /\ UNCHANGED limiter
  /\ UNCHANGED <<now, files, creds, table, told, stopping, wrong, watch>>

\* enterDelay: only MaxDelayed requests wait at once, the others are refused.
EnterDelay(h) ==
  /\ At(h, "enter")
  /\ IF limiter.delayed < MaxDelayed
     THEN /\ limiter' = [limiter EXCEPT !.delayed = @ + 1]
          /\ Goto(h, "delay")
     ELSE /\ releaseAttempt(req[h].remote)
          /\ Finish(h)
  /\ UNCHANGED <<now, files, creds, table, told, stopping, wrong, watch>>

\* The timer fires.
LeaveDelay(h) ==
  /\ At(h, "delay")
  /\ limiter' = [limiter EXCEPT !.delayed = IF @ > 0 THEN @ - 1 ELSE 0]
  /\ Goto(h, "compare")
  /\ UNCHANGED <<now, files, creds, table, told, stopping, wrong, watch>>

\* The client goes away while its request waits.
AbandonDelay(h) ==
  /\ At(h, "delay")
  /\ limiter' = [limiter EXCEPT !.delayed = IF @ > 0 THEN @ - 1 ELSE 0]
  /\ Goto(h, "abandon")
  /\ UNCHANGED <<now, files, creds, table, told, stopping, wrong, watch>>

\* The place of an attempt that compared nothing is given back.
ReleaseAttempt(h) ==
  /\ At(h, "abandon")
  /\ releaseAttempt(req[h].remote)
  /\ Finish(h)
  /\ UNCHANGED <<now, files, creds, table, told, stopping, wrong, watch>>

Compared(h, ok) ==
  /\ req' = [req EXCEPT ![h].pc = IF ok THEN "matched" ELSE "wrong",
                        ![h].checked = IF @ = 0 THEN generation ELSE @]
  /\ wrong' = IF ok THEN wrong
              ELSE [wrong EXCEPT ![req[h].remote] =
                      Append(loginPruneTimes(@), now)]

\* The token is compared with the hash read under a.mu; a change of the
\* password goes on to the password when the token does not match.
CompareToken(h) ==
  /\ At(h, "compare") /\ req[h].kind # "password"
  /\ IF req[h].kind = "change" /\ req[h].cred # tokenHash
     THEN Goto(h, "slot") /\ UNCHANGED wrong
     ELSE Compared(h, req[h].cred = tokenHash)
  /\ UNCHANGED <<now, files, creds, table, told, stopping, limiter, watch>>

Hashing == {h \in Handlers : req[h].pc = "hash"}

\* verifyPassword takes one of the slots and then the hash under a.mu ...
TakeSlot(h) ==
  /\ \/ At(h, "compare") /\ req[h].kind = "password"
     \/ At(h, "slot")
  /\ Cardinality(Hashing) < HashSlots
  /\ req' = [req EXCEPT ![h].pc = "hash", ![h].val = password.hash,
                        ![h].checked = generation]
  /\ UNCHANGED <<now, files, creds, table, told, stopping, limiter, wrong, watch>>

\* ... or the client goes away while it waits for one: a login gives its place
\* back, a change of the password counts it as a mismatch.
AbandonSlot(h) ==
  /\ \/ At(h, "compare") /\ req[h].kind = "password"
     \/ At(h, "slot")
  /\ Goto(h, IF req[h].kind = "change" THEN "wrong" ELSE "abandon")
  /\ UNCHANGED <<now, files, creds, table, told, stopping, limiter, wrong, watch>>

VerifyPassword(h) ==
  /\ At(h, "hash")
  /\ Compared(h, req[h].val # None /\ req[h].cred = req[h].val)
  /\ UNCHANGED <<now, files, creds, table, told, stopping, limiter, watch>>

Fail(h) ==
  /\ At(h, "wrong")
  /\ failAttempt(req[h].remote)
  /\ Finish(h)
  /\ UNCHANGED <<now, files, creds, table, told, stopping, watch>>

Succeed(h) ==
  /\ At(h, "matched")
  /\ succeedAttempt(req[h].remote)
  /\ Goto(h, IF req[h].kind = "change" THEN "write" ELSE "insert")
  /\ UNCHANGED <<now, files, creds, table, told, stopping, watch>>

\* The sessions dropped to make room: the oldest beyond MaxSessions - 1.
Surplus(ss) ==
  LET n == IF Cardinality(DOMAIN ss) < MaxSessions THEN 0
           ELSE Cardinality(DOMAIN ss) - MaxSessions + 1
  IN  CHOOSE D \in kSubset(n, DOMAIN ss) :
        \A d \in D, k \in DOMAIN ss \ D :
          \/ ss[d].created < ss[k].created
          \/ ss[d].created = ss[k].created /\ d < k

\* The second half of handleLogin: under a.mu again, the session of the cookie
\* that came with the request goes, then the surplus, and the new session
\* belongs to the generation of now.
InsertSession(h, cookie) ==
  /\ At(h, "insert") /\ made < Logins
  /\ LET old == cookie \cap DOMAIN sessions
         kept == Without(old)
         drop == old \cup Surplus(kept)
         s == [generation |-> generation, created |-> now, used |-> now,
               kind |-> req[h].kind, cred |-> req[h].cred,
               checked |-> req[h].checked]
     IN  /\ sessions' = With(Without(drop), made + 1, s)
         /\ made' = made + 1
         /\ req' = [req EXCEPT ![h] = [Done EXCEPT !.pc = "fire", !.drop = drop]]
  /\ UNCHANGED <<now, files, creds, generation, told, stopping, limiter, wrong,
                 watch>>

\* handlePassword writes the file, clears it, or refuses the new value.
WritePassword(h, how) ==
  /\ At(h, "write") /\ how \in {"set", "clear", "refuse"}
  /\ how = "set" => WithinBudget
  /\ writes' = IF how = "set" THEN writes + 1 ELSE writes
  /\ passwordFile' = CASE how = "set" -> [is |-> "hash", n |-> writes + 1]
                       [] how = "clear" -> [is |-> "none", n |-> None]
                       [] OTHER -> passwordFile
  /\ IF how = "refuse" THEN Finish(h) ELSE Goto(h, "restat")
  /\ UNCHANGED <<now, tokenFile, creds, table, told, stopping, limiter, wrong,
                 watch>>

\* readAdminPasswordFile: Stat first, the content afterwards, whose read may fail
\* (an I/O error, a mode that is too wide) for a good file too.  What was not
\* read gets no time stamp here.
RestatPassword(h) ==
  /\ At(h, "restat")
  /\ req' = [req EXCEPT ![h].pc = "reread", ![h].mod = passwordFile.n,
                        ![h].exists = passwordFile.is # "none"]
  /\ UNCHANGED <<now, files, creds, table, told, stopping, limiter, wrong, watch>>

RereadPassword(h, opens) ==
  /\ At(h, "reread")
  /\ LET ok == opens /\ req[h].exists /\ passwordFile.is = "hash"
     IN  req' = [req EXCEPT ![h].pc = "applyPassword",
                            ![h].val = IF ok THEN passwordFile.n ELSE None,
                            ![h].mod = IF ok THEN @ ELSE None,
                            ![h].exists = ok]
  /\ UNCHANGED <<now, files, creds, table, told, stopping, limiter, wrong, watch>>

ApplyPassword(h) ==
  /\ At(h, "applyPassword")
  /\ password' = [hash |-> req[h].val, mod |-> req[h].mod, exists |-> req[h].exists]
  /\ invalidateAll
  /\ req' = [req EXCEPT ![h] = [Done EXCEPT !.pc = "fire", !.drop = DOMAIN sessions]]
  /\ UNCHANGED <<now, files, tokenHash, tokenMod, told, stopping, limiter, wrong,
                 watch>>

----------------------------------------------------------------------------
(* Rotation of the token                                                   *)

\* handleRotate behind requireSession: the file is written ...
RotateWrite(h, id) ==
  /\ At(h, "done") /\ Alive(id) /\ WithinBudget
  /\ sessions' = Touched(id)
  /\ writes' = writes + 1 /\ tokenFile' = writes + 1
  /\ req' = [req EXCEPT ![h] = [Done EXCEPT !.pc = "rotateStat",
                                            !.val = writes + 1]]
  /\ UNCHANGED <<now, passwordFile, creds, generation, made, told, stopping,
                 limiter, wrong, watch>>

\* ... its time is read, which may fail ...
RotateStat(h, ok) ==
  /\ At(h, "rotateStat")
  /\ req' = [req EXCEPT ![h].pc = "rotateApply",
                        ![h].mod = IF ok THEN tokenFile ELSE None]
  /\ UNCHANGED <<now, files, creds, table, told, stopping, limiter, wrong, watch>>

\* ... and the token this request made becomes the one in memory.
RotateApply(h) ==
  /\ At(h, "rotateApply")
  /\ tokenHash' = req[h].val
  /\ tokenMod' = IF req[h].mod # None THEN req[h].mod ELSE tokenMod
  /\ invalidateAll
  /\ req' = [req EXCEPT ![h] = [Done EXCEPT !.pc = "fire", !.drop = DOMAIN sessions]]
  /\ UNCHANGED <<now, files, password, told, stopping, limiter, wrong, watch>>

----------------------------------------------------------------------------
(* The command line and the watcher                                        *)

\* --rotate-admin-token in another process.
CLIRotate ==
  /\ WithinBudget
  /\ writes' = writes + 1 /\ tokenFile' = writes + 1
  /\ UNCHANGED <<now, passwordFile, creds, table, told, stopping, limiter, wrong,
                 req, watch>>

\* --set-admin-password, or someone removes or damages the file.
CLIPassword(is) ==
  /\ is \in {"hash", "none", "bad"} /\ is # "none" => WithinBudget
  /\ writes' = IF is = "none" THEN writes ELSE writes + 1
  /\ passwordFile' = [is |-> is, n |-> IF is = "none" THEN None ELSE writes + 1]
  /\ UNCHANGED <<now, tokenFile, creds, table, told, stopping, limiter, wrong,
                 req, watch>>

WatchAt(pc) == watch.pc = pc
WatchOnly == UNCHANGED <<now, files, creds, table, told, stopping, limiter, wrong, req>>

\* checkTokenFile: a Stat and a comparison, which usually ends it.
StatToken ==
  /\ WatchAt("rest") /\ ~stopping
  /\ watch' = [Resting EXCEPT
                 !.pc = IF tokenFile = tokenMod THEN "password" ELSE "statToken"]
  /\ WatchOnly

\* readAdminTokenFile: Stat, then the content; an error changes nothing.
RestatToken ==
  /\ WatchAt("statToken")
  /\ watch' = [watch EXCEPT !.pc = "readToken", !.mod = tokenFile]
  /\ WatchOnly

ReadToken(ok) ==
  /\ WatchAt("readToken")
  /\ watch' = IF ok THEN [watch EXCEPT !.pc = "applyToken", !.val = tokenFile]
              ELSE [Resting EXCEPT !.pc = "password"]
  /\ WatchOnly

\* The value read is taken over and ends every session, unless it is the same.
ApplyToken ==
  /\ WatchAt("applyToken")
  /\ tokenMod' = watch.mod
  /\ tokenHash' = watch.val
  /\ IF watch.val = tokenHash THEN UNCHANGED table ELSE invalidateAll
  /\ watch' = [Resting EXCEPT !.pc = "fireToken",
                 !.drop = IF watch.val = tokenHash THEN {} ELSE DOMAIN sessions]
  /\ UNCHANGED <<now, files, password, told, stopping, limiter, wrong, req>>

\* checkPasswordFile: memory, then Stat, whose error ends the check, then the
\* content.
SnapPassword ==
  /\ WatchAt("password")
  /\ watch' = [Resting EXCEPT !.pc = "statPassword", !.cur = password]
  /\ WatchOnly

StatPassword(ok) ==
  /\ WatchAt("statPassword")
  /\ LET exists == passwordFile.is # "none"
         same == /\ exists = watch.cur.exists
                 /\ exists => passwordFile.n = watch.cur.mod
     IN  watch' = IF ~ok \/ same THEN [Resting EXCEPT !.pc = "sweep"]
                  ELSE [watch EXCEPT !.pc = IF exists THEN "restat" ELSE "applyPassword",
                                     !.exists = exists, !.stat = passwordFile.n]
  /\ WatchOnly

\* readAdminPasswordFile again: its own Stat, then the content.  A file that
\* cannot be read, for what it holds or for an error of this read alone, turns
\* login with the password off, under the first time.
WatchRestat ==
  /\ WatchAt("restat")
  /\ watch' = [watch EXCEPT !.pc = "readPassword", !.mod = passwordFile.n]
  /\ WatchOnly

ReadPassword(opens) ==
  /\ WatchAt("readPassword")
  /\ LET ok == opens /\ watch.mod # None /\ passwordFile.is = "hash"
     IN  watch' = [watch EXCEPT !.pc = "applyPassword",
                                !.val = IF ok THEN passwordFile.n ELSE None,
                                !.mod = IF ok THEN @ ELSE watch.stat]
  /\ WatchOnly

\* The bug of stamping what was read with the file's time at the end.
ApplyPasswordFile_LateStamp ==
  /\ WatchAt("applyPassword")
  /\ password' = [hash |-> watch.val, mod |-> passwordFile.n, exists |-> watch.exists]
  /\ invalidateAll
  /\ watch' = [Resting EXCEPT !.pc = "firePassword", !.drop = DOMAIN sessions]
  /\ UNCHANGED <<now, files, tokenHash, tokenMod, told, stopping, limiter, wrong,
                 req>>

ApplyPasswordFile ==
  /\ WatchAt("applyPassword")
  /\ password' = [hash |-> watch.val, mod |-> watch.mod, exists |-> watch.exists]
  /\ invalidateAll
  /\ watch' = [Resting EXCEPT !.pc = "firePassword", !.drop = DOMAIN sessions]
  /\ UNCHANGED <<now, files, tokenHash, tokenMod, told, stopping, limiter, wrong,
                 req>>

\* sweep, at the end of every round.
Sweep ==
  /\ WatchAt("sweep")
  /\ LET old == {id \in DOMAIN sessions : Expired(sessions[id])}
     IN  /\ sessions' = Without(old)
         /\ watch' = [Resting EXCEPT !.pc = "fireSweep", !.drop = old]
  /\ UNCHANGED <<now, files, creds, generation, made, told, stopping, limiter,
                 wrong, req>>

WatchFire ==
  /\ watch.pc \in {"fireToken", "firePassword", "fireSweep"}
  /\ told' = told \cup watch.drop
  /\ watch' = [Resting EXCEPT !.pc = CASE WatchAt("fireToken") -> "password"
                                       [] WatchAt("firePassword") -> "sweep"
                                       [] OTHER -> "rest"]
  /\ UNCHANGED <<now, files, creds, table, stopping, limiter, wrong, req>>

\* webServer.StopIntake; the watcher ends with its round.
SetStopping ==
  /\ ~stopping /\ stopping' = TRUE
  /\ UNCHANGED <<now, files, creds, table, told, limiter, wrong, req, watch>>

Tick ==
  /\ now < MaxClock /\ now' = now + 1
  /\ UNCHANGED <<files, creds, table, told, stopping, limiter, wrong, req, watch>>

Serve(h) ==
  \/ \E id \in 1..Logins : \/ \E api \in BOOLEAN : Lookup(h, id, api)
                           \/ handleLogout(h, id)
                           \/ RotateWrite(h, id)
  \/ \E r \in Remotes, cred \in 1..writes :
       \/ \E kind \in {"token", "password"} : Login(h, kind, r, cred)
       \/ \E id \in 1..Logins : ChangePassword(h, id, r, cred)
  \/ FireInvalidated(h)
  \/ EnterDelay(h) \/ LeaveDelay(h) \/ AbandonDelay(h) \/ ReleaseAttempt(h)
  \/ CompareToken(h) \/ TakeSlot(h) \/ AbandonSlot(h) \/ VerifyPassword(h)
  \/ Fail(h) \/ Succeed(h)
  \/ \E cookie \in {{}} \cup {{id} : id \in 1..Logins} : InsertSession(h, cookie)
  \/ \E how \in {"set", "clear", "refuse"} : WritePassword(h, how)
  \/ RestatPassword(h) \/ ApplyPassword(h)
  \/ \E ok \in BOOLEAN : RereadPassword(h, ok) \/ RotateStat(h, ok)
  \/ RotateApply(h)

Watch ==
  \/ StatToken \/ RestatToken \/ ApplyToken
  \/ \E ok \in BOOLEAN : ReadToken(ok) \/ StatPassword(ok) \/ ReadPassword(ok)
  \/ SnapPassword \/ WatchRestat \/ ApplyPasswordFile
  \/ Sweep \/ WatchFire

Next ==
  \/ \E h \in Handlers : Serve(h)
  \/ Watch
  \/ CLIRotate
  \/ \E is \in {"hash", "none", "bad"} : CLIPassword(is)
  \/ SetStopping
  \/ Tick

Spec == Init /\ [][Next]_vars

----------------------------------------------------------------------------
(* Properties                                                              *)

\* A session in the table was opened with the token or password that is valid
\* now, or its login stood between the comparison and the insertion when the
\* credential changed: handleLogin lets go of a.mu in between, and nothing
\* else outlives a rotation, a new password or a change of the files.
SessionsProveCredential ==
  \A id \in DOMAIN sessions :
    LET s == sessions[id]
    IN  \/ s.checked < s.generation
        \/ s.kind = "token" /\ s.cred = tokenHash
        \/ s.kind = "password" /\ s.cred = password.hash

\* Whoever removes a session from the table tells the event hub of it, or is
\* on the way to: a session that ended keeps no event stream.
EveryEndIsTold ==
  (1..made) \ DOMAIN sessions =
    (told \cup watch.drop \cup UNION {req[h].drop : h \in Handlers})

Holding == {h \in Handlers : req[h].pc \in {"enter", "delay", "abandon", "compare",
                                            "slot", "hash", "wrong", "matched"}}

\* The limiter counts as in flight exactly the attempts that are, for every
\* remote and in all, and as delayed exactly those that wait: no path of
\* admitAttempt, handleLogin or handlePassword loses a place or gives one back
\* twice, and no remote with an attempt in flight is evicted.
AttemptsAreAccounted ==
  /\ limiter.inflight = Cardinality(Holding)
  /\ limiter.delayed = Cardinality({h \in Handlers : req[h].pc = "delay"})
  /\ \A r \in Remotes :
       RemoteState(limiter.remotes, r).inflight
         = Cardinality({h \in Holding : req[h].remote = r})

\* However many requests guess at the same time, one remote gets at most
\* RemoteMaxFails wrong comparisons in one window, counted from its last
\* success or the eviction of its entry.
GuessesAreBounded ==
  \A r \in Remotes : Len(loginPruneTimes(wrong[r])) <= RemoteMaxFails

\* Memory that carries the password file's time never carries another content:
\* it has the hash the file holds, or none, where the file holds no hash or its
\* read failed.  The watcher compares only the times, so a change it takes for
\* known never leaves an older password in force, whoever wrote the file
\* between its Stat and its read; after a failed read login with the password
\* stays off until the file is written again.
StampMeansContent ==
  /\ ~password.exists => password.hash = None
  /\ password.exists /\ passwordFile.is # "none" /\ password.mod = passwordFile.n
       => \/ password.hash = None
          \/ passwordFile.is = "hash" /\ password.hash = passwordFile.n

=============================================================================
