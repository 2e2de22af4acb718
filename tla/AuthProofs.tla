------------------------------ MODULE AuthProofs ------------------------------
(***************************************************************************)
(* However logins, logouts, changes of the credentials, the command line   *)
(* and the watcher interleave: a session proves the credential of now, the *)
(* event hub learns of every end, the limiter loses no attempt, a remote   *)
(* never gets more wrong guesses in a window than its limit, and memory    *)
(* never carries a time stamp without its content.  Proved for any number  *)
(* of handlers, remotes, sessions, slots and limits.  The last sections    *)
(* are about the calls behind the sign-in, the stop of a headless process, *)
(* and the configuration file that one is started with.                    *)
(***************************************************************************)
EXTENDS AdminAuth, Headless, FiniteSetTheorems, FunctionTheorems, TLAPS

ReqFields == {"pc", "kind", "remote", "cred", "checked", "val", "mod", "exists", "drop"}
WatchFields == {"pc", "val", "mod", "stat", "exists", "cur", "drop"}
LimiterFields == {"remotes", "fails", "until", "inflight", "delayed", "admitted"}
EntryFields == {"fails", "lockedUntil", "inflight"}
SessionFields == {"generation", "created", "used", "kind", "cred", "checked"}

Shape ==
  /\ DOMAIN req = Handlers /\ \A h \in Handlers : DOMAIN req[h] = ReqFields
  /\ DOMAIN watch = WatchFields
  /\ DOMAIN limiter = LimiterFields
  /\ \A id \in DOMAIN sessions : DOMAIN sessions[id] = SessionFields

\* What a login has shown, and when.
Shows(q) ==
  /\ q.checked \in Nat /\ q.checked <= generation
  /\ q.pc \in {"enter", "delay", "compare", "matched"} => q.kind \in {"token", "password", "change"}
  /\ q.pc = "slot" => q.kind = "change"
  /\ q.pc = "hash" =>
       /\ q.kind \in {"password", "change"}
       /\ q.checked = 0 => q.val = None
       /\ q.checked = generation => q.val = password.hash
  /\ q.pc = "insert" => q.kind \in {"token", "password"}
  /\ q.pc \in {"matched", "insert"} /\ q.kind # "change" =>
       \/ q.checked < generation
       \/ q.kind = "token" /\ q.cred = tokenHash
       \/ q.kind = "password" /\ q.cred = password.hash

Proved ==
  /\ generation \in Nat
  /\ generation = 0 => password.hash = None
  /\ \A h \in Handlers : Shows(req[h])
  /\ SessionsProveCredential

\* Where the watcher has dropped sessions and not yet told the hub; and which
\* sessions the hub knows of or is about to.
Announces == {"fireToken", "firePassword", "fireSweep"}

Pending(id) ==
  id \in told \cup watch.drop \/ \E h \in Handlers : id \in req[h].drop

Told ==
  /\ made \in Nat /\ now \in Nat
  /\ DOMAIN sessions \subseteq 1..made
  /\ \A id \in DOMAIN sessions : sessions[id].created \in Nat
  /\ \A h \in Handlers : req[h].pc # "fire" => req[h].drop = {}
  /\ watch.pc \notin Announces => watch.drop = {}
  /\ EveryEndIsTold

\* The attempts in flight.
Held == {"enter", "delay", "abandon", "compare", "slot", "hash", "wrong", "matched"}
InFlight(r) == {h \in Holding : req[h].remote = r}
Waiting == {h \in Handlers : req[h].pc = "delay"}

Accounted ==
  /\ \A r \in DOMAIN limiter.remotes : DOMAIN limiter.remotes[r] = EntryFields
  /\ \A h \in Holding : req[h].remote \in Remotes
  /\ limiter.inflight = Cardinality(Holding)
  /\ limiter.delayed = Cardinality(Waiting)
  /\ \A r \in Remotes : RemoteState(limiter.remotes, r).inflight = Cardinality(InFlight(r))

\* A time stamp comes with what the file held at that time, or with nothing.
Fits(m, v) ==
  /\ m \in 0..writes
  /\ m # None /\ passwordFile.n = m => v = None \/ (passwordFile.is = "hash" /\ v = m)

Read(exists, m, v) == Fits(m, v) /\ (~exists => v = None)

ReqStamped(q) ==
  /\ q.pc = "reread" => q.mod \in 0..writes
  /\ q.pc = "applyPassword" => Read(q.exists, q.mod, q.val)

WatchStamped(w) ==
  /\ w.pc = "statPassword" => w.val = None /\ w.mod = None
  /\ w.pc \in {"restat", "readPassword"} => w.exists /\ w.stat \in 1..writes
  /\ w.pc = "readPassword" => w.mod \in 0..writes /\ (w.mod = None => passwordFile.n # w.stat)
  /\ w.pc = "applyPassword" => Read(w.exists, w.mod, w.val)

Stamped ==
  /\ writes \in Nat
  /\ passwordFile.n \in 0..writes /\ (passwordFile.is = "none" <=> passwordFile.n = None)
  /\ Read(password.exists, password.mod, password.hash)
  /\ \A h \in Handlers : ReqStamped(req[h])
  /\ WatchStamped(watch)

AuthInv == Shape /\ Proved /\ Told /\ Accounted /\ Stamped

USE DEF At, Goto, Finish, None

----------------------------------------------------------------------------
(* Steps that leave a part alone                                           *)

SameProof(s, r) ==
  s.generation = r.generation /\ s.checked = r.checked /\ s.kind = r.kind /\ s.cred = r.cred

LEMMA ProvedKept ==
  ASSUME Proved, generation' = generation, tokenHash' = tokenHash, password' = password,
         \A g \in Handlers : req'[g] = req[g] \/ Shows(req'[g]),
         \A id \in DOMAIN sessions' : id \in DOMAIN sessions /\ SameProof(sessions'[id], sessions[id])
  PROVE  Proved'
<1>1. \A g \in Handlers : Shows(req[g])'
  BY DEF Proved, Shows
<1>2. SessionsProveCredential'
  BY DEF Proved, SessionsProveCredential, SameProof
<1> QED
  BY <1>1, <1>2 DEF Proved

(* A new generation starts with no session, and every login on the way is  *)
(* older.                                                                  *)
LEMMA ProvedAnew ==
  ASSUME Proved, generation' = generation + 1, DOMAIN sessions' = {},
         \A g \in Handlers : \/ req'[g] = req[g]
                             \/ req'[g].checked = 0 /\ req'[g].pc = "fire"
  PROVE  Proved'
<1>1. ASSUME NEW g \in Handlers PROVE Shows(req[g])'
  <2>1. generation \in Nat /\ Shows(req[g])
    BY DEF Proved
  <2>2. CASE req'[g] = req[g]
    BY <2>1, <2>2 DEF Shows
  <2>3. CASE req'[g].checked = 0 /\ req'[g].pc = "fire"
    BY <2>1, <2>3 DEF Shows
  <2> QED
    BY <2>2, <2>3
<1>2. SessionsProveCredential'
  BY DEF SessionsProveCredential
<1> QED
  BY <1>1, <1>2 DEF Proved

LEMMA EndsTold == EveryEndIsTold <=>
  \A id : Pending(id) <=> id \in 1..made /\ id \notin DOMAIN sessions
BY DEF EveryEndIsTold, Pending

LEMMA EndsTold1 == EveryEndIsTold' <=>
  \A id : Pending(id)' <=> id \in 1..made' /\ id \notin DOMAIN sessions'
BY DEF EveryEndIsTold, Pending

(* A handler drops sessions, none perhaps, and is about to tell.           *)
LEMMA ToldByHandler ==
  ASSUME Told, NEW h \in Handlers, NEW D, D \subseteq DOMAIN sessions,
         made' = made, now' = now, told' = told, watch' = watch,
         \A g \in Handlers : g # h => req'[g] = req[g],
         req[h].pc # "fire", req'[h].drop = D, req'[h].pc = "fire" \/ D = {},
         DOMAIN sessions' = DOMAIN sessions \ D,
         \A id \in DOMAIN sessions' : sessions'[id].created = sessions[id].created
  PROVE  Told'
<1>1. req[h].drop = {}
  BY DEF Told
<1>2. \A id : Pending(id)' <=> Pending(id) \/ id \in D
  BY <1>1 DEF Pending
<1>3. D \subseteq 1..made
  BY DEF Told
<1>4. EveryEndIsTold'
  BY <1>2, <1>3, EndsTold, EndsTold1 DEF Told
<1> QED
  BY <1>4 DEF Told

(* The watcher does.                                                       *)
LEMMA ToldByWatcher ==
  ASSUME Told, NEW D, D \subseteq DOMAIN sessions,
         made' = made, now' \in Nat, told' = told, req' = req,
         watch.drop = {}, watch'.drop = D, watch'.pc \in Announces \/ D = {},
         DOMAIN sessions' = DOMAIN sessions \ D,
         \A id \in DOMAIN sessions' : sessions'[id].created = sessions[id].created
  PROVE  Told'
<1>2. \A id : Pending(id)' <=> Pending(id) \/ id \in D
  BY DEF Pending
<1>3. D \subseteq 1..made
  BY DEF Told
<1>4. EveryEndIsTold'
  BY <1>2, <1>3, EndsTold, EndsTold1 DEF Told
<1> QED
  BY <1>4 DEF Told

(* Nothing is dropped.                                                     *)
LEMMA ToldKept ==
  ASSUME Told, made' = made, now' \in Nat, told' = told, req' = req, watch' = watch,
         sessions' = sessions
  PROVE  Told'
<1>2. \A id : Pending(id)' <=> Pending(id)
  BY DEF Pending
<1>4. EveryEndIsTold'
  BY <1>2, EndsTold, EndsTold1 DEF Told
<1> QED
  BY <1>4 DEF Told

(* The sets of attempts.                                                   *)
LEMMA HoldingIs == Holding = {h \in Handlers : req[h].pc \in Held} /\ IsFiniteSet(Holding)
<1>1. Holding = {h \in Handlers : req[h].pc \in Held}
  BY DEF Holding, Held
<1> QED
  BY <1>1, AuthAssumption, FS_Subset

LEMMA SetsKept ==
  ASSUME \A g \in Handlers :
           /\ req'[g].pc \in Held <=> req[g].pc \in Held
           /\ req'[g].pc = "delay" <=> req[g].pc = "delay"
           /\ req[g].pc \in Held => req'[g].remote = req[g].remote
  PROVE  /\ Holding' = Holding /\ Waiting' = Waiting
         /\ \A r : InFlight(r)' = InFlight(r)
<1>1. Holding' = Holding
  BY DEF Holding, Held
<1>2. Waiting' = Waiting
  BY DEF Waiting
<1>3. \A r : InFlight(r)' = InFlight(r)
  BY <1>1 DEF InFlight, Holding, Held
<1> QED
  BY <1>1, <1>2, <1>3

LEMMA AccountedKept ==
  ASSUME Accounted, limiter' = limiter,
         \A g \in Handlers :
           \/ req'[g] = req[g]
           \/ /\ req'[g].pc \in Held <=> req[g].pc \in Held
              /\ req'[g].pc = "delay" <=> req[g].pc = "delay"
              /\ req[g].pc \in Held => req'[g].remote = req[g].remote
  PROVE  Accounted'
<1>1. /\ Holding' = Holding /\ Waiting' = Waiting
      /\ \A r : InFlight(r)' = InFlight(r)
  BY SetsKept
<1>2. \A g \in Holding' : req'[g].remote \in Remotes
  BY <1>1, HoldingIs DEF Accounted
<1>3. \A r \in Remotes : RemoteState(limiter'.remotes, r).inflight = Cardinality(InFlight(r)')
  BY <1>1 DEF Accounted
<1> QED
  BY <1>1, <1>2, <1>3 DEF Accounted

LEMMA StampedKept ==
  ASSUME Stamped, writes' = writes, passwordFile' = passwordFile, password' = password,
         \A g \in Handlers : req'[g] = req[g] \/ ReqStamped(req'[g]),
         watch' = watch \/ WatchStamped(watch')
  PROVE  Stamped'
<1>1. \A m, v : Fits(m, v)' <=> Fits(m, v)
  BY DEF Fits
<1>2. \A g \in Handlers : ReqStamped(req[g])'
  BY <1>1 DEF Stamped, ReqStamped, Read
<1>3. WatchStamped(watch)'
  BY <1>1 DEF Stamped, WatchStamped, Read
<1>4. Read(password.exists, password.mod, password.hash)'
  BY <1>1 DEF Stamped, Read
<1> QED
  BY <1>2, <1>3, <1>4 DEF Stamped

(* A write has a number of its own, so that no stamp in memory is that of  *)
(* a file it did not read.                                                 *)
LEMMA StampedWritten ==
  ASSUME Stamped, writes' \in {writes, writes + 1}, password' = password, watch' = watch,
         \/ passwordFile' = passwordFile
         \/ passwordFile'.n = None /\ passwordFile'.is = "none"
         \/ passwordFile'.n = writes + 1 /\ writes' = writes + 1 /\ passwordFile'.is # "none",
         \A g \in Handlers : req'[g] = req[g] \/ req'[g].pc \notin {"reread", "applyPassword"}
  PROVE  Stamped'
<1>1. writes \in Nat /\ writes' \in Nat /\ writes <= writes'
  BY DEF Stamped
<1>2. \A m \in 0..writes : m # None => passwordFile'.n # m \/ passwordFile' = passwordFile
  BY <1>1
<1>3. \A m, v : Fits(m, v) => Fits(m, v)'
  BY <1>1, <1>2 DEF Fits
<1>4. \A g \in Handlers : ReqStamped(req[g])'
  BY <1>1, <1>3 DEF Stamped, ReqStamped, Read
<1>5. WatchStamped(watch)'
  <2>1. \A m \in 1..writes : m \in 1..writes' /\ (passwordFile.n # m => passwordFile'.n # m)
    BY <1>1
  <2>2. \A m \in 0..writes : m \in 0..writes'
    BY <1>1
  <2> QED
    BY <1>3, <2>1, <2>2 DEF Stamped, WatchStamped, Read
<1>6. Read(password.exists, password.mod, password.hash)'
  BY <1>3 DEF Stamped, Read
<1>7. passwordFile'.n \in 0..writes' /\ (passwordFile'.is = "none" <=> passwordFile'.n = None)
  BY <1>1 DEF Stamped
<1> QED
  BY <1>1, <1>4, <1>5, <1>6, <1>7 DEF Stamped

(* Some sessions go, and the others are what they were.                    *)
Thinned(D) ==
  /\ D \subseteq DOMAIN sessions
  /\ DOMAIN sessions' = DOMAIN sessions \ D
  /\ \A id \in DOMAIN sessions' :
       /\ SameProof(sessions'[id], sessions[id])
       /\ sessions'[id].created = sessions[id].created
       /\ DOMAIN sessions'[id] = SessionFields

LEMMA SameSessions ==
  ASSUME AuthInv, sessions' = sessions
  PROVE  Thinned({})
BY DEF AuthInv, Shape, Thinned, SameProof

LEMMA TouchedSession ==
  ASSUME AuthInv, NEW id \in DOMAIN sessions, sessions' = Touched(id)
  PROVE  Thinned({})
<1>1. DOMAIN sessions' = DOMAIN sessions
  BY DEF Touched
<1>2. ASSUME NEW k \in DOMAIN sessions
      PROVE  /\ SameProof(sessions'[k], sessions[k])
             /\ sessions'[k].created = sessions[k].created
             /\ DOMAIN sessions'[k] = SessionFields
  <2>1. DOMAIN sessions[k] = SessionFields
    BY DEF AuthInv, Shape
  <2>2. CASE k # id
    BY <2>1, <2>2 DEF Touched, SameProof
  <2>3. CASE k = id
    <3>1. sessions'[k] = [sessions[k] EXCEPT !.used = now]
      BY <2>3 DEF Touched
    <3> QED
      BY <2>1, <3>1 DEF SameProof, SessionFields
  <2> QED
    BY <2>2, <2>3
<1> QED
  BY <1>1, <1>2 DEF Thinned

LEMMA DroppedSessions ==
  ASSUME AuthInv, NEW D, D \subseteq DOMAIN sessions, sessions' = Without(D)
  PROVE  Thinned(D)
<1>1. DOMAIN sessions' = DOMAIN sessions \ D /\ \A k \in DOMAIN sessions' : sessions'[k] = sessions[k]
  BY DEF Without, Restrict
<1> QED
  BY <1>1 DEF AuthInv, Shape, Thinned, SameProof

LEMMA AllDropped ==
  ASSUME AuthInv, invalidateAll
  PROVE  Thinned(DOMAIN sessions) /\ generation' = generation + 1 /\ made' = made
         /\ DOMAIN sessions' = {}
<1>1. DOMAIN sessions' = {}
  BY DEF invalidateAll
<1> QED
  BY <1>1 DEF invalidateAll, Thinned

(* The step of a handler that changes no credential.                       *)
LEMMA HandlerStep ==
  ASSUME AuthInv, NEW h \in Handlers, NEW D, Thinned(D),
         made' = made, now' = now, told' = told, watch' = watch,
         DOMAIN req' = Handlers, \A g \in Handlers : g # h => req'[g] = req[g],
         NEW y, y = req'[h], DOMAIN y = ReqFields,
         req[h].pc # "fire", y.drop = D, y.pc = "fire" \/ D = {},
         generation' = generation, tokenHash' = tokenHash, password' = password, Shows(y),
         DOMAIN limiter' = LimiterFields, Accounted', Stamped'
  PROVE  AuthInv'
<1>1. Shape'
  BY DEF AuthInv, Shape, Thinned
<1>2. Proved'
  BY ProvedKept DEF AuthInv, Thinned
<1>3. Told'
  BY ToldByHandler DEF AuthInv, Thinned
<1> QED
  BY <1>1, <1>2, <1>3 DEF AuthInv

(* One that leaves the files and the limiter alone as well.                *)
LEMMA PlainStep ==
  ASSUME AuthInv, NEW h \in Handlers, NEW D, Thinned(D),
         made' = made, now' = now, told' = told, watch' = watch,
         DOMAIN req' = Handlers, \A g \in Handlers : g # h => req'[g] = req[g],
         NEW x, NEW y, x = req[h], y = req'[h], DOMAIN y = ReqFields,
         x.pc # "fire", y.drop = D, y.pc = "fire" \/ D = {},
         generation' = generation, tokenHash' = tokenHash, password' = password, Shows(y),
         limiter' = limiter, writes' = writes, passwordFile' = passwordFile,
         y.pc \in Held <=> x.pc \in Held, x.pc # "delay", y.pc # "delay",
         x.pc \in Held => y.remote = x.remote, ReqStamped(y)
  PROVE  AuthInv'
<1>1. Accounted'
  BY AccountedKept DEF AuthInv
<1>2. Stamped'
  BY StampedKept DEF AuthInv
<1>3. DOMAIN limiter' = LimiterFields
  BY DEF AuthInv, Shape
<1> QED
  BY <1>1, <1>2, <1>3, HandlerStep

(* A credential changes.                                                   *)
LEMMA NewCredentialStep ==
  ASSUME AuthInv, NEW h \in Handlers, invalidateAll,
         now' = now, told' = told, watch' = watch,
         DOMAIN req' = Handlers, \A g \in Handlers : g # h => req'[g] = req[g],
         NEW x, NEW y, x = req[h], y = req'[h], DOMAIN y = ReqFields,
         x.pc # "fire", y.drop = DOMAIN sessions, y.pc = "fire", y.checked = 0,
         x.pc \notin Held, limiter' = limiter, Stamped'
  PROVE  AuthInv'
<1>1. Thinned(DOMAIN sessions) /\ generation' = generation + 1 /\ made' = made
      /\ DOMAIN sessions' = {}
  BY AllDropped
<1>2. Shape'
  BY <1>1 DEF AuthInv, Shape
<1>3. Proved'
  BY <1>1, ProvedAnew DEF AuthInv
<1>4. Told'
  BY <1>1, ToldByHandler DEF AuthInv, Thinned
<1>5. Accounted'
  BY AccountedKept DEF AuthInv, Held
<1> QED
  BY <1>2, <1>3, <1>4, <1>5 DEF AuthInv

(* A step of the watcher that changes no credential.                       *)
LEMMA WatcherStep ==
  ASSUME AuthInv, NEW D, Thinned(D), made' = made, now' = now, told' = told, req' = req,
         NEW w, w = watch', DOMAIN w = WatchFields,
         watch.drop = {}, w.drop = D, w.pc \in Announces \/ D = {},
         generation' = generation, tokenHash' = tokenHash, password' = password,
         limiter' = limiter, writes' = writes, passwordFile' = passwordFile, WatchStamped(w)
  PROVE  AuthInv'
<1>1. Shape'
  BY DEF AuthInv, Shape, Thinned
<1>2. Proved'
  BY ProvedKept DEF AuthInv, Thinned
<1>3. Told'
  BY ToldByWatcher DEF AuthInv, Thinned, Told
<1>4. Accounted'
  BY AccountedKept DEF AuthInv
<1>5. Stamped'
  BY StampedKept DEF AuthInv
<1> QED
  BY <1>1, <1>2, <1>3, <1>4, <1>5 DEF AuthInv

LEMMA WatcherCredentialStep ==
  ASSUME AuthInv, invalidateAll, now' = now, told' = told, req' = req,
         NEW w, w = watch', DOMAIN w = WatchFields,
         watch.drop = {}, w.drop = DOMAIN sessions, w.pc \in Announces,
         limiter' = limiter, Stamped'
  PROVE  AuthInv'
<1>1. Thinned(DOMAIN sessions) /\ generation' = generation + 1 /\ made' = made
      /\ DOMAIN sessions' = {}
  BY AllDropped
<1>2. Shape'
  BY <1>1 DEF AuthInv, Shape
<1>3. Proved'
  BY <1>1, ProvedAnew DEF AuthInv
<1>4. Told'
  BY <1>1, ToldByWatcher DEF AuthInv, Thinned, Told
<1>5. Accounted'
  BY AccountedKept DEF AuthInv
<1> QED
  BY <1>2, <1>3, <1>4, <1>5 DEF AuthInv

----------------------------------------------------------------------------
(* The limiter                                                             *)

\* Attempts of remote u that the table rs counts, and a table of entries.
Counts(rs, u) == RemoteState(rs, u).inflight
Entries(rs) == \A u \in DOMAIN rs : DOMAIN rs[u] = EntryFields

LEMMA StateShape ==
  ASSUME NEW rs, Entries(rs), NEW u
  PROVE  DOMAIN RemoteState(rs, u) = EntryFields
BY DEF Entries, RemoteState, NoFails, EntryFields

LEMMA WithEntry ==
  ASSUME NEW rs, Entries(rs), NEW r, NEW e, DOMAIN e = EntryFields
  PROVE  /\ Entries(With(rs, r, e)) /\ r \in DOMAIN With(rs, r, e)
         /\ Counts(With(rs, r, e), r) = e.inflight
         /\ \A u : u # r => Counts(With(rs, r, e), u) = Counts(rs, u)
BY DEF Entries, With, Counts, RemoteState

LEMMA IdleCountsNothing ==
  ASSUME NEW rs, Entries(rs), NEW r \in DOMAIN rs
  PROVE  /\ Entries(dropIfIdle(rs, r))
         /\ \A u : Counts(dropIfIdle(rs, r), u) = Counts(rs, u)
<1>1. CASE rs[r].inflight = 0 /\ rs[r].fails = <<>> /\ now >= rs[r].lockedUntil
  <2>1. PICK ds : ds = dropIfIdle(rs, r) /\ ds = Restrict(rs, DOMAIN rs \ {r})
    BY <1>1 DEF dropIfIdle
  <2>2. DOMAIN ds = DOMAIN rs \ {r} /\ \A u \in DOMAIN ds : ds[u] = rs[u]
    BY <2>1 DEF Restrict
  <2>3. NoFails.inflight = 0
    BY DEF NoFails
  <2> QED
    BY <1>1, <2>1, <2>2, <2>3 DEF Entries, Counts, RemoteState
<1>2. CASE ~(rs[r].inflight = 0 /\ rs[r].fails = <<>> /\ now >= rs[r].lockedUntil)
  BY <1>2 DEF dropIfIdle
<1> QED
  BY <1>1, <1>2

(* evictLocked throws out no remote with an attempt in flight.             *)
LEMMA RoomKeepsAttempts ==
  ASSUME Entries(limiter.remotes), NEW r, NEW rs \in WithRoom(r)
  PROVE  Entries(rs) /\ \A u : Counts(rs, u) = Counts(limiter.remotes, u)
<1>1. CASE rs = limiter.remotes
  BY <1>1
<1>2. CASE rs \in Evictions(limiter.remotes)
  <2>1. PICK V : /\ V \subseteq {u \in DOMAIN limiter.remotes : limiter.remotes[u].inflight = 0}
                 /\ rs = Restrict(limiter.remotes, DOMAIN limiter.remotes \ V)
    BY <1>2 DEF Evictions, kSubset
  <2>2. /\ DOMAIN rs = DOMAIN limiter.remotes \ V
        /\ \A u \in DOMAIN rs : rs[u] = limiter.remotes[u]
    BY <2>1 DEF Restrict
  <2>3. NoFails.inflight = 0
    BY DEF NoFails
  <2> QED
    BY <2>1, <2>2, <2>3 DEF Entries, Counts, RemoteState
<1> QED
  BY <1>1, <1>2 DEF WithRoom

LEMMA FiniteAttempts ==
  /\ IsFiniteSet(Holding) /\ IsFiniteSet(Waiting) /\ \A r : IsFiniteSet(InFlight(r))
  /\ Cardinality(Holding) \in Nat /\ Cardinality(Waiting) \in Nat
  /\ \A r : Cardinality(InFlight(r)) \in Nat
<1>1. IsFiniteSet(Holding)
  BY HoldingIs
<1>2. IsFiniteSet(Waiting)
  BY AuthAssumption, FS_Subset DEF Waiting
<1>3. \A r : IsFiniteSet(InFlight(r))
  BY <1>1, FS_Subset DEF InFlight
<1> QED
  BY <1>1, <1>2, <1>3, FS_CardinalityType

(* An attempt begins.                                                      *)
LEMMA AttemptBegins ==
  ASSUME Accounted, NEW h \in Handlers, NEW r \in Remotes,
         \A g \in Handlers : g # h => req'[g] = req[g],
         req[h].pc \notin Held, req'[h].pc \in Held, req'[h].pc # "delay", req'[h].remote = r,
         Entries(limiter'.remotes),
         limiter'.inflight = limiter.inflight + 1, limiter'.delayed = limiter.delayed,
         Counts(limiter'.remotes, r) = Counts(limiter.remotes, r) + 1,
         \A u : u # r => Counts(limiter'.remotes, u) = Counts(limiter.remotes, u)
  PROVE  Accounted'
<1>1. h \notin Holding /\ Holding' = Holding \cup {h}
  BY DEF Holding, Held
<1>2. Waiting' = Waiting
  BY DEF Waiting, Held
<1>3. h \notin InFlight(r) /\ InFlight(r)' = InFlight(r) \cup {h}
  BY <1>1 DEF InFlight, Holding
<1>4. \A u : u # r => InFlight(u)' = InFlight(u)
  BY <1>1 DEF InFlight, Holding
<1>5. Cardinality(Holding') = Cardinality(Holding) + 1
  BY <1>1, FiniteAttempts, FS_AddElement
<1>6. Cardinality(InFlight(r)') = Cardinality(InFlight(r)) + 1
  BY <1>3, FiniteAttempts, FS_AddElement, ZenonT(60)
<1>7. \A g \in Holding' : req'[g].remote \in Remotes
  BY <1>1 DEF Accounted, Holding
<1>8. \A u \in Remotes : Counts(limiter'.remotes, u) = Cardinality(InFlight(u)')
  BY <1>4, <1>6 DEF Accounted, Counts
<1> QED
  BY <1>2, <1>5, <1>7, <1>8 DEF Accounted, Entries, Counts

(* An attempt ends: its place is given back, or has become a failure.      *)
LEMMA AttemptEnds ==
  ASSUME Accounted, NEW h \in Handlers, NEW r, r = req[h].remote,
         \A g \in Handlers : g # h => req'[g] = req[g],
         req[h].pc \in Held, req[h].pc # "delay", req'[h].pc \notin Held,
         Entries(limiter'.remotes),
         limiter'.inflight = limiter.inflight - 1, limiter'.delayed = limiter.delayed,
         Counts(limiter.remotes, r) > 0 =>
           Counts(limiter'.remotes, r) = Counts(limiter.remotes, r) - 1,
         \A u : u # r => Counts(limiter'.remotes, u) = Counts(limiter.remotes, u)
  PROVE  Accounted'
<1>1. h \in Holding /\ Holding' = Holding \ {h}
  BY DEF Holding, Held
<1>2. Waiting' = Waiting
  BY DEF Waiting, Held
<1>3. h \in InFlight(r) /\ InFlight(r)' = InFlight(r) \ {h}
  BY <1>1 DEF InFlight, Holding
<1>4. \A u : u # r => InFlight(u)' = InFlight(u)
  BY <1>1 DEF InFlight, Holding
<1>5. Cardinality(Holding') = Cardinality(Holding) - 1
  BY <1>1, FiniteAttempts, FS_RemoveElement
<1>6. Cardinality(InFlight(r)') = Cardinality(InFlight(r)) - 1
  BY <1>3, FiniteAttempts, FS_RemoveElement
<1>7. Cardinality(InFlight(r)) > 0
  <2>1. InFlight(r) # {} /\ IsFiniteSet(InFlight(r)) /\ Cardinality(InFlight(r)) \in Nat
    BY <1>3, FiniteAttempts
  <2> QED
    BY <2>1, FS_EmptySet
<1>8. \A g \in Holding' : req'[g].remote \in Remotes
  BY <1>1 DEF Accounted, Holding
<1>9. \A u \in Remotes : Counts(limiter'.remotes, u) = Cardinality(InFlight(u)')
  BY <1>4, <1>6, <1>7 DEF Accounted, Counts
<1> QED
  BY <1>2, <1>5, <1>8, <1>9 DEF Accounted, Entries, Counts

(* An attempt begins to wait, and stops waiting.                           *)
LEMMA AttemptWaits ==
  ASSUME Accounted, NEW h \in Handlers, \A g \in Handlers : g # h => req'[g] = req[g],
         req[h].pc \in Held, req'[h].pc \in Held, req'[h].remote = req[h].remote,
         limiter'.remotes = limiter.remotes, limiter'.inflight = limiter.inflight,
         \/ /\ req[h].pc # "delay" /\ req'[h].pc = "delay"
            /\ limiter'.delayed = limiter.delayed + 1
         \/ /\ req[h].pc = "delay" /\ req'[h].pc # "delay"
            /\ limiter.delayed > 0 => limiter'.delayed = limiter.delayed - 1
  PROVE  Accounted'
<1>1. Holding' = Holding
  BY DEF Holding, Held
<1>2. \A u : InFlight(u)' = InFlight(u)
  BY <1>1 DEF InFlight, Holding
<1>3. limiter'.delayed = Cardinality(Waiting')
  <2>1. CASE req[h].pc # "delay" /\ req'[h].pc = "delay"
    <3>1. h \notin Waiting /\ Waiting' = Waiting \cup {h}
      BY <2>1 DEF Waiting
    <3>2. Cardinality(Waiting') = Cardinality(Waiting) + 1
      BY <3>1, FiniteAttempts, FS_AddElement
    <3> QED
      BY <2>1, <3>2 DEF Accounted
  <2>2. CASE req[h].pc = "delay" /\ req'[h].pc # "delay"
    <3>1. h \in Waiting /\ Waiting' = Waiting \ {h}
      BY <2>2 DEF Waiting
    <3>2. Cardinality(Waiting') = Cardinality(Waiting) - 1
      BY <3>1, FiniteAttempts, FS_RemoveElement
    <3>3. Cardinality(Waiting) > 0
      <4>1. Waiting # {} /\ IsFiniteSet(Waiting) /\ Cardinality(Waiting) \in Nat
        BY <3>1, FiniteAttempts
      <4> QED
        BY <4>1, FS_EmptySet
    <3> QED
      BY <2>2, <3>2, <3>3 DEF Accounted
  <2> QED
    BY <2>1, <2>2
<1>4. \A g \in Holding' : req'[g].remote \in Remotes
  BY <1>1 DEF Accounted, Holding
<1>5. \A u \in Remotes : RemoteState(limiter'.remotes, u).inflight = Cardinality(InFlight(u)')
  BY <1>2 DEF Accounted
<1> QED
  BY <1>1, <1>3, <1>4, <1>5 DEF Accounted


(* releaseLocked takes one attempt of r from what is counted.              *)
LEMMA FreedEntry ==
  ASSUME Accounted, NEW r
  PROVE  /\ DOMAIN Freed(r) = EntryFields
         /\ Counts(limiter.remotes, r) > 0 =>
              Freed(r).inflight = Counts(limiter.remotes, r) - 1
<1>1. PICK st : st = RemoteState(limiter.remotes, r)
  OBVIOUS
<1>2. DOMAIN st = EntryFields
  BY <1>1, StateShape DEF Accounted, Entries
<1>3. Freed(r) = [st EXCEPT !.inflight = IF st.inflight > 0 THEN st.inflight - 1 ELSE 0]
  BY <1>1 DEF Freed
<1>4. DOMAIN Freed(r) = EntryFields
  BY <1>2, <1>3
<1>5. Freed(r).inflight = IF st.inflight > 0 THEN st.inflight - 1 ELSE 0
  BY <1>2, <1>3 DEF EntryFields
<1> QED
  BY <1>1, <1>4, <1>5 DEF Counts

LEMMA PlaceFreed ==
  ASSUME Accounted, NEW r, NEW rs, Entries(rs), \A u : Counts(rs, u) = Counts(limiter.remotes, u),
         NEW e, DOMAIN e = EntryFields, e.inflight = Freed(r).inflight,
         NEW next, next = With(rs, r, e) \/ next = dropIfIdle(With(rs, r, e), r)
  PROVE  /\ Entries(next)
         /\ Counts(limiter.remotes, r) > 0 => Counts(next, r) = Counts(limiter.remotes, r) - 1
         /\ \A u : u # r => Counts(next, u) = Counts(limiter.remotes, u)
<1>1. PICK new : new = With(rs, r, e)
  OBVIOUS
<1>2. /\ Entries(new) /\ r \in DOMAIN new /\ Counts(new, r) = Freed(r).inflight
      /\ \A u : u # r => Counts(new, u) = Counts(limiter.remotes, u)
  BY <1>1, WithEntry
<1>3. Entries(next) /\ \A u : Counts(next, u) = Counts(new, u)
  BY <1>1, <1>2, IdleCountsNothing
<1> QED
  BY <1>2, <1>3, FreedEntry

(* What attempt.fail, attempt.succeed and admitAttempt do to the count of  *)
(* remote r.                                                               *)
FreedOne(r) ==
  /\ DOMAIN limiter' = LimiterFields /\ Entries(limiter'.remotes)
  /\ limiter'.inflight = limiter.inflight - 1 /\ limiter'.delayed = limiter.delayed
  /\ Counts(limiter.remotes, r) > 0 =>
       Counts(limiter'.remotes, r) = Counts(limiter.remotes, r) - 1
  /\ \A u : u # r => Counts(limiter'.remotes, u) = Counts(limiter.remotes, u)

LEMMA FailFrees ==
  ASSUME AuthInv, NEW r, failAttempt(r)
  PROVE  FreedOne(r)
<1>1. DOMAIN limiter = LimiterFields /\ Accounted /\ Entries(limiter.remotes)
  BY DEF AuthInv, Shape, Accounted, Entries
<1>2. PICK st : st = Freed(r) /\ DOMAIN st = EntryFields
  BY <1>1, FreedEntry
<1> DEFINE fails  == Append(loginPruneTimes(st.fails), now)
           locked == Len(fails) >= RemoteMaxFails
           all    == Append(loginPruneTimes(limiter.fails), now)
           full   == Len(all) >= GlobalMaxFails
           f1     == IF locked THEN <<>> ELSE fails
           t1     == IF locked THEN now + Window ELSE st.lockedUntil
           f2     == IF full THEN <<>> ELSE all
<1>3. PICK rs \in WithRoom(r) :
        limiter' = [LimiterFreed(With(rs, r, [st EXCEPT !.fails = f1, !.lockedUntil = t1])) EXCEPT
                      !.fails = f2, !.until = IF full THEN now + Window ELSE @]
  BY <1>2 DEF failAttempt
<1> HIDE DEF f1, t1, f2, full
<1>4. PICK e : e = [st EXCEPT !.fails = f1, !.lockedUntil = t1]
  OBVIOUS
<1>5. DOMAIN e = EntryFields /\ e.inflight = Freed(r).inflight
  BY <1>2, <1>4 DEF EntryFields
<1>6. limiter' = [LimiterFreed(With(rs, r, e)) EXCEPT !.fails = f2,
                                     !.until = IF full THEN now + Window ELSE @]
  BY <1>3, <1>4
<1>7. PICK l : l = LimiterFreed(With(rs, r, e))
  OBVIOUS
<1>8. /\ DOMAIN l = LimiterFields /\ l.remotes = With(rs, r, e)
      /\ l.inflight = limiter.inflight - 1 /\ l.delayed = limiter.delayed
  BY <1>1, <1>7 DEF LimiterFreed, LimiterFields
<1>9. /\ DOMAIN limiter' = LimiterFields /\ limiter'.remotes = With(rs, r, e)
      /\ limiter'.inflight = limiter.inflight - 1 /\ limiter'.delayed = limiter.delayed
  BY <1>6, <1>7, <1>8 DEF LimiterFields
<1>10. Entries(rs) /\ \A u : Counts(rs, u) = Counts(limiter.remotes, u)
  BY <1>1, RoomKeepsAttempts
<1> QED
  BY <1>1, <1>5, <1>9, <1>10, PlaceFreed DEF FreedOne

LEMMA SucceedFrees ==
  ASSUME AuthInv, NEW r, succeedAttempt(r)
  PROVE  FreedOne(r)
<1>1. DOMAIN limiter = LimiterFields /\ Accounted /\ Entries(limiter.remotes)
  BY DEF AuthInv, Shape, Accounted, Entries
<1>2. PICK st : st = Freed(r) /\ DOMAIN st = EntryFields
  BY <1>1, FreedEntry
<1>3. PICK e : e = [st EXCEPT !.fails = <<>>]
  OBVIOUS
<1>4. DOMAIN e = EntryFields /\ e.inflight = Freed(r).inflight
  BY <1>2, <1>3 DEF EntryFields
<1>5. limiter' = LimiterFreed(dropIfIdle(With(limiter.remotes, r, e), r))
  BY <1>2, <1>3 DEF succeedAttempt
<1>6. /\ DOMAIN limiter' = LimiterFields
      /\ limiter'.remotes = dropIfIdle(With(limiter.remotes, r, e), r)
      /\ limiter'.inflight = limiter.inflight - 1 /\ limiter'.delayed = limiter.delayed
  BY <1>1, <1>5 DEF LimiterFreed, LimiterFields
<1> QED
  BY <1>1, <1>4, <1>6, PlaceFreed DEF FreedOne

TakenOne(r) ==
  /\ DOMAIN limiter' = LimiterFields /\ Entries(limiter'.remotes)
  /\ limiter'.inflight = limiter.inflight + 1 /\ limiter'.delayed = limiter.delayed
  /\ Counts(limiter'.remotes, r) = Counts(limiter.remotes, r) + 1
  /\ \A u : u # r => Counts(limiter'.remotes, u) = Counts(limiter.remotes, u)

LEMMA AdmitTakes ==
  ASSUME AuthInv, NEW h \in Handlers, NEW way, NEW r, NEW cred, Admit(h, way, r, cred)
  PROVE  TakenOne(r)
<1>1. DOMAIN limiter = LimiterFields /\ Accounted /\ Entries(limiter.remotes)
  BY DEF AuthInv, Shape, Accounted, Entries
<1>a. PICK rs \in WithRoom(r) :
        limiter' = [limiter EXCEPT
             !.remotes = With(rs, r, [RemoteState(rs, r) EXCEPT
                                        !.fails = loginPruneTimes(@), !.inflight = @ + 1]),
             !.fails = loginPruneTimes(@), !.inflight = @ + 1, !.admitted = @ + 1]
  BY DEF Admit
<1>2. PICK st : st = RemoteState(rs, r)
  OBVIOUS
<1>3. Entries(rs) /\ \A u : Counts(rs, u) = Counts(limiter.remotes, u)
  BY <1>1, RoomKeepsAttempts
<1>4. DOMAIN st = EntryFields
  BY <1>2, <1>3, StateShape
<1>5. PICK e : e = [st EXCEPT !.fails = loginPruneTimes(@), !.inflight = @ + 1]
  OBVIOUS
<1>6. DOMAIN e = EntryFields /\ e.inflight = st.inflight + 1
  BY <1>4, <1>5 DEF EntryFields
<1>7. /\ DOMAIN limiter' = LimiterFields /\ limiter'.remotes = With(rs, r, e)
      /\ limiter'.inflight = limiter.inflight + 1 /\ limiter'.delayed = limiter.delayed
  BY <1>1, <1>a, <1>2, <1>5 DEF LimiterFields
<1>8. st.inflight = Counts(limiter.remotes, r)
  BY <1>2, <1>3 DEF Counts
<1> QED
  BY <1>3, <1>6, <1>7, <1>8, WithEntry DEF TakenOne

(* Sessions that end, and requests that touch one.                         *)
LEMMA LookupStep ==
  ASSUME AuthInv, NEW h \in Handlers, NEW id, NEW api \in BOOLEAN, Lookup(h, id, api)
  PROVE  AuthInv'
<1>1. PICK x, y : x = req[h] /\ y = req'[h]
  OBVIOUS
<1>2. DOMAIN x = ReqFields /\ Shows(x) /\ ReqStamped(x) /\ x.drop = {} /\
      generation \in Nat /\ x.pc = "done" /\ id \in DOMAIN sessions
  BY <1>1 DEF Lookup, AuthInv, Shape, Proved, Stamped, Told
<1>3. DOMAIN req' = Handlers /\ \A g \in Handlers : g # h => req'[g] = req[g]
  BY DEF Lookup, AuthInv, Shape
<1>4. made' = made /\ now' = now /\ told' = told /\ watch' = watch /\
      generation' = generation /\ tokenHash' = tokenHash /\ password' = password /\
      limiter' = limiter /\ writes' = writes /\ passwordFile' = passwordFile
  BY DEF Lookup, files, creds, table
<1>A. CASE Alive(id)
  <2>1. y = x
    BY <1>1, <1>2, <1>A DEF Lookup, AuthInv, Shape
  <2>2. DOMAIN y = ReqFields /\ y.pc = x.pc /\ y.kind = x.kind /\ y.remote = x.remote /\
        y.cred = x.cred /\ y.checked = x.checked /\ y.val = x.val /\ y.mod = x.mod /\
        y.exists = x.exists /\ y.drop = x.drop
    BY <1>2, <2>1 DEF ReqFields, Done
  <2>3. Thinned({})
    BY <1>A, SameSessions, TouchedSession, <1>2 DEF Lookup, table
  <2>4. Shows(y)
    BY <1>2, <2>2, <1>A DEF Shows
  <2>5. ReqStamped(y)
    BY <1>2, <2>2 DEF ReqStamped
  <2>6. (y.pc \in Held <=> x.pc \in Held) /\ x.pc # "fire" /\ x.pc # "delay" /\ y.pc # "delay"
        /\ (x.pc \in Held => y.remote = x.remote)
    BY <1>2, <2>2 DEF Held
  <2> QED
    BY <1>1, <1>2, <1>3, <1>4, <2>2, <2>3, <2>4, <2>5, <2>6, PlainStep
<1>B. CASE ~Alive(id)
  <2>1. PICK D : D = {id}
    OBVIOUS
  <2>2. y = [Done EXCEPT !.pc = "fire", !.drop = D]
    BY <1>1, <1>2, <1>B, <2>1 DEF Lookup, AuthInv, Shape
  <2>3. DOMAIN y = ReqFields /\ y.pc = "fire" /\ y.kind = "none" /\ y.cred = None /\
        y.checked = 0 /\ y.val = None /\ y.mod = None /\ y.exists = FALSE /\ y.drop = D
    BY <1>2, <2>2 DEF ReqFields, Done
  <2>4. Thinned(D)
    BY <1>B, <2>1, DroppedSessions, <1>2 DEF Lookup, table
  <2>5. Shows(y)
    BY <1>2, <2>3, <1>B, <2>1 DEF Shows
  <2>6. ReqStamped(y)
    BY <1>2, <2>3 DEF ReqStamped
  <2>7. (y.pc \in Held <=> x.pc \in Held) /\ x.pc # "fire" /\ x.pc # "delay" /\ y.pc # "delay"
        /\ (x.pc \in Held => y.remote = x.remote)
    BY <1>2, <2>3 DEF Held
  <2> QED
    BY <1>1, <1>2, <1>3, <1>4, <2>3, <2>4, <2>5, <2>6, <2>7, PlainStep
<1> QED
  BY <1>A, <1>B

LEMMA handleLogoutStep ==
  ASSUME AuthInv, NEW h \in Handlers, NEW id, handleLogout(h, id)
  PROVE  AuthInv'
<1>1. PICK x, y : x = req[h] /\ y = req'[h]
  OBVIOUS
<1>2. DOMAIN x = ReqFields /\ Shows(x) /\ ReqStamped(x) /\ x.drop = {} /\
      generation \in Nat /\ x.pc = "done" /\ id \in DOMAIN sessions
  BY <1>1 DEF handleLogout, AuthInv, Shape, Proved, Stamped, Told
<1>3. DOMAIN req' = Handlers /\ \A g \in Handlers : g # h => req'[g] = req[g]
  BY DEF handleLogout, AuthInv, Shape
<1>4. made' = made /\ now' = now /\ told' = told /\ watch' = watch /\
      generation' = generation /\ tokenHash' = tokenHash /\ password' = password /\
      limiter' = limiter /\ writes' = writes /\ passwordFile' = passwordFile
  BY DEF handleLogout, files, creds, table
<1>5. PICK D : D = {id}
  OBVIOUS
<1>6. y = [Done EXCEPT !.pc = "fire", !.drop = D]
  BY <1>1, <1>2, <1>5 DEF handleLogout, AuthInv, Shape
<1>7. DOMAIN y = ReqFields /\ y.pc = "fire" /\ y.kind = "none" /\ y.cred = None /\
      y.checked = 0 /\ y.val = None /\ y.mod = None /\ y.exists = FALSE /\ y.drop = D
  BY <1>2, <1>6 DEF ReqFields, Done
<1>8. Thinned(D)
  BY <1>5, DroppedSessions, <1>2 DEF handleLogout, table
<1>9. Shows(y)
  BY <1>2, <1>7, <1>5 DEF Shows
<1>10. ReqStamped(y)
  BY <1>2, <1>7 DEF ReqStamped
<1>11. (y.pc \in Held <=> x.pc \in Held) /\ x.pc # "fire" /\ x.pc # "delay" /\ y.pc # "delay"
      /\ (x.pc \in Held => y.remote = x.remote)
  BY <1>2, <1>7 DEF Held
<1> QED
  BY <1>1, <1>2, <1>3, <1>4, <1>7, <1>8, <1>9, <1>10, <1>11, PlainStep

(* The comparisons.                                                        *)
LEMMA CompareTokenStep ==
  ASSUME AuthInv, NEW h \in Handlers, CompareToken(h)
  PROVE  AuthInv'
<1>1. PICK x, y : x = req[h] /\ y = req'[h]
  OBVIOUS
<1>2. DOMAIN x = ReqFields /\ Shows(x) /\ ReqStamped(x) /\ x.drop = {} /\
      generation \in Nat /\ x.pc = "compare" /\ x.kind # "password"
  BY <1>1 DEF CompareToken, AuthInv, Shape, Proved, Stamped, Told, Compared
<1>3. DOMAIN req' = Handlers /\ \A g \in Handlers : g # h => req'[g] = req[g]
  BY DEF CompareToken, AuthInv, Shape, Compared
<1>4. made' = made /\ now' = now /\ told' = told /\ watch' = watch /\
      generation' = generation /\ tokenHash' = tokenHash /\ password' = password /\
      limiter' = limiter /\ writes' = writes /\ passwordFile' = passwordFile
  BY DEF CompareToken, files, creds, table, Compared
<1>A. CASE x.kind = "change" /\ x.cred # tokenHash
  <2>1. y = [x EXCEPT !.pc = "slot"]
    BY <1>1, <1>2, <1>A DEF CompareToken, AuthInv, Shape, Compared
  <2>2. DOMAIN y = ReqFields /\ y.pc = "slot" /\ y.kind = x.kind /\ y.remote = x.remote
        /\ y.cred = x.cred /\ y.checked = x.checked /\ y.val = x.val /\ y.mod = x.mod /\
        y.exists = x.exists /\ y.drop = x.drop
    BY <1>2, <2>1 DEF ReqFields, Done
  <2>3. Thinned({})
    BY <1>A, SameSessions DEF CompareToken, table
  <2>4. Shows(y)
    BY <1>2, <2>2, <1>A DEF Shows
  <2>5. ReqStamped(y)
    BY <1>2, <2>2 DEF ReqStamped
  <2>6. (y.pc \in Held <=> x.pc \in Held) /\ x.pc # "fire" /\ x.pc # "delay" /\ y.pc # "delay"
        /\ (x.pc \in Held => y.remote = x.remote)
    BY <1>2, <2>2 DEF Held
  <2> QED
    BY <1>1, <1>2, <1>3, <1>4, <2>2, <2>3, <2>4, <2>5, <2>6, PlainStep
<1>B. CASE x.cred = tokenHash
  <2>1. y = [x EXCEPT !.pc = "matched", !.checked = IF x.checked = 0 THEN generation ELSE x.checked]
    BY <1>1, <1>2, <1>B DEF CompareToken, AuthInv, Shape, Compared
  <2>2. DOMAIN y = ReqFields /\ y.pc = "matched" /\ y.kind = x.kind /\
        y.remote = x.remote /\ y.cred = x.cred /\ y.val = x.val /\ y.mod = x.mod /\
        y.exists = x.exists /\ y.drop = x.drop
    BY <1>2, <2>1 DEF ReqFields, Done
  <2>3. y.checked \in Nat /\ y.checked <= generation
    BY <1>2, <2>1 DEF ReqFields, Shows
  <2>4. Thinned({})
    BY <1>B, SameSessions DEF CompareToken, table
  <2>5. Shows(y)
    BY <1>2, <2>2, <2>3, <1>B DEF Shows
  <2>6. ReqStamped(y)
    BY <1>2, <2>2 DEF ReqStamped
  <2>7. (y.pc \in Held <=> x.pc \in Held) /\ x.pc # "fire" /\ x.pc # "delay" /\ y.pc # "delay"
        /\ (x.pc \in Held => y.remote = x.remote)
    BY <1>2, <2>2 DEF Held
  <2> QED
    BY <1>1, <1>2, <1>3, <1>4, <2>2, <2>4, <2>5, <2>6, <2>7, PlainStep
<1>C. CASE x.kind # "change" /\ x.cred # tokenHash
  <2>1. y = [x EXCEPT !.pc = "wrong", !.checked = IF x.checked = 0 THEN generation ELSE x.checked]
    BY <1>1, <1>2, <1>C DEF CompareToken, AuthInv, Shape, Compared
  <2>2. DOMAIN y = ReqFields /\ y.pc = "wrong" /\ y.kind = x.kind /\ y.remote = x.remote
        /\ y.cred = x.cred /\ y.val = x.val /\ y.mod = x.mod /\ y.exists = x.exists /\
        y.drop = x.drop
    BY <1>2, <2>1 DEF ReqFields, Done
  <2>3. y.checked \in Nat /\ y.checked <= generation
    BY <1>2, <2>1 DEF ReqFields, Shows
  <2>4. Thinned({})
    BY <1>C, SameSessions DEF CompareToken, table
  <2>5. Shows(y)
    BY <1>2, <2>2, <2>3, <1>C DEF Shows
  <2>6. ReqStamped(y)
    BY <1>2, <2>2 DEF ReqStamped
  <2>7. (y.pc \in Held <=> x.pc \in Held) /\ x.pc # "fire" /\ x.pc # "delay" /\ y.pc # "delay"
        /\ (x.pc \in Held => y.remote = x.remote)
    BY <1>2, <2>2 DEF Held
  <2> QED
    BY <1>1, <1>2, <1>3, <1>4, <2>2, <2>4, <2>5, <2>6, <2>7, PlainStep
<1> QED
  BY <1>A, <1>B, <1>C

LEMMA TakeSlotStep ==
  ASSUME AuthInv, NEW h \in Handlers, TakeSlot(h)
  PROVE  AuthInv'
<1>1. PICK x, y : x = req[h] /\ y = req'[h]
  OBVIOUS
<1>2. DOMAIN x = ReqFields /\ Shows(x) /\ ReqStamped(x) /\ x.drop = {} /\
      generation \in Nat /\ x.pc \in {"compare", "slot"} /\
      x.kind \in {"password", "change"}
  BY <1>1 DEF TakeSlot, AuthInv, Shape, Proved, Stamped, Told, Shows
<1>3. DOMAIN req' = Handlers /\ \A g \in Handlers : g # h => req'[g] = req[g]
  BY DEF TakeSlot, AuthInv, Shape, Shows
<1>4. made' = made /\ now' = now /\ told' = told /\ watch' = watch /\
      generation' = generation /\ tokenHash' = tokenHash /\ password' = password /\
      limiter' = limiter /\ writes' = writes /\ passwordFile' = passwordFile
  BY DEF TakeSlot, files, creds, table, Shows
<1>5. y = [x EXCEPT !.pc = "hash", !.val = password.hash, !.checked = generation]
  BY <1>1, <1>2 DEF TakeSlot, AuthInv, Shape, Shows
<1>6. DOMAIN y = ReqFields /\ y.pc = "hash" /\ y.kind = x.kind /\ y.remote = x.remote /\
      y.cred = x.cred /\ y.checked = generation /\ y.val = password.hash /\
      y.mod = x.mod /\ y.exists = x.exists /\ y.drop = x.drop
  BY <1>2, <1>5 DEF ReqFields, Done
<1>7. Thinned({})
  BY SameSessions DEF TakeSlot, table
<1>8. Shows(y)
  BY <1>2, <1>6 DEF Shows, AuthInv, Proved
<1>9. ReqStamped(y)
  BY <1>2, <1>6 DEF ReqStamped
<1>10. (y.pc \in Held <=> x.pc \in Held) /\ x.pc # "fire" /\ x.pc # "delay" /\ y.pc # "delay"
      /\ (x.pc \in Held => y.remote = x.remote)
  BY <1>2, <1>6 DEF Held
<1> QED
  BY <1>1, <1>2, <1>3, <1>4, <1>6, <1>7, <1>8, <1>9, <1>10, PlainStep

LEMMA AbandonSlotStep ==
  ASSUME AuthInv, NEW h \in Handlers, AbandonSlot(h)
  PROVE  AuthInv'
<1>1. PICK x, y : x = req[h] /\ y = req'[h]
  OBVIOUS
<1>2. DOMAIN x = ReqFields /\ Shows(x) /\ ReqStamped(x) /\ x.drop = {} /\
      generation \in Nat /\ x.pc \in {"compare", "slot"}
  BY <1>1 DEF AbandonSlot, AuthInv, Shape, Proved, Stamped, Told
<1>3. DOMAIN req' = Handlers /\ \A g \in Handlers : g # h => req'[g] = req[g]
  BY DEF AbandonSlot, AuthInv, Shape
<1>4. made' = made /\ now' = now /\ told' = told /\ watch' = watch /\
      generation' = generation /\ tokenHash' = tokenHash /\ password' = password /\
      limiter' = limiter /\ writes' = writes /\ passwordFile' = passwordFile
  BY DEF AbandonSlot, files, creds, table
<1>A. CASE x.kind = "change"
  <2>1. y = [x EXCEPT !.pc = "wrong"]
    BY <1>1, <1>2, <1>A DEF AbandonSlot, AuthInv, Shape
  <2>2. DOMAIN y = ReqFields /\ y.pc = "wrong" /\ y.kind = x.kind /\ y.remote = x.remote
        /\ y.cred = x.cred /\ y.checked = x.checked /\ y.val = x.val /\ y.mod = x.mod /\
        y.exists = x.exists /\ y.drop = x.drop
    BY <1>2, <2>1 DEF ReqFields, Done
  <2>3. Thinned({})
    BY <1>A, SameSessions DEF AbandonSlot, table
  <2>4. Shows(y)
    BY <1>2, <2>2, <1>A DEF Shows
  <2>5. ReqStamped(y)
    BY <1>2, <2>2 DEF ReqStamped
  <2>6. (y.pc \in Held <=> x.pc \in Held) /\ x.pc # "fire" /\ x.pc # "delay" /\ y.pc # "delay"
        /\ (x.pc \in Held => y.remote = x.remote)
    BY <1>2, <2>2 DEF Held
  <2> QED
    BY <1>1, <1>2, <1>3, <1>4, <2>2, <2>3, <2>4, <2>5, <2>6, PlainStep
<1>B. CASE x.kind # "change"
  <2>1. y = [x EXCEPT !.pc = "abandon"]
    BY <1>1, <1>2, <1>B DEF AbandonSlot, AuthInv, Shape
  <2>2. DOMAIN y = ReqFields /\ y.pc = "abandon" /\ y.kind = x.kind /\
        y.remote = x.remote /\ y.cred = x.cred /\ y.checked = x.checked /\ y.val = x.val
        /\ y.mod = x.mod /\ y.exists = x.exists /\ y.drop = x.drop
    BY <1>2, <2>1 DEF ReqFields, Done
  <2>3. Thinned({})
    BY <1>B, SameSessions DEF AbandonSlot, table
  <2>4. Shows(y)
    BY <1>2, <2>2, <1>B DEF Shows
  <2>5. ReqStamped(y)
    BY <1>2, <2>2 DEF ReqStamped
  <2>6. (y.pc \in Held <=> x.pc \in Held) /\ x.pc # "fire" /\ x.pc # "delay" /\ y.pc # "delay"
        /\ (x.pc \in Held => y.remote = x.remote)
    BY <1>2, <2>2 DEF Held
  <2> QED
    BY <1>1, <1>2, <1>3, <1>4, <2>2, <2>3, <2>4, <2>5, <2>6, PlainStep
<1> QED
  BY <1>A, <1>B

LEMMA VerifyPasswordStep ==
  ASSUME AuthInv, NEW h \in Handlers, VerifyPassword(h)
  PROVE  AuthInv'
<1>1. PICK x, y : x = req[h] /\ y = req'[h]
  OBVIOUS
<1>2. DOMAIN x = ReqFields /\ Shows(x) /\ ReqStamped(x) /\ x.drop = {} /\
      generation \in Nat /\ x.pc = "hash" /\ (x.val # None => x.checked # 0)
  BY <1>1 DEF VerifyPassword, AuthInv, Shape, Proved, Stamped, Told, Compared, Shows
<1>3. DOMAIN req' = Handlers /\ \A g \in Handlers : g # h => req'[g] = req[g]
  BY DEF VerifyPassword, AuthInv, Shape, Compared, Shows
<1>4. made' = made /\ now' = now /\ told' = told /\ watch' = watch /\
      generation' = generation /\ tokenHash' = tokenHash /\ password' = password /\
      limiter' = limiter /\ writes' = writes /\ passwordFile' = passwordFile
  BY DEF VerifyPassword, files, creds, table, Compared, Shows
<1>A. CASE x.val # None /\ x.cred = x.val
  <2>1. y = [x EXCEPT !.pc = "matched", !.checked = x.checked]
    BY <1>1, <1>2, <1>A DEF VerifyPassword, AuthInv, Shape, Compared, Shows
  <2>2. DOMAIN y = ReqFields /\ y.pc = "matched" /\ y.kind = x.kind /\
        y.remote = x.remote /\ y.cred = x.cred /\ y.checked = x.checked /\ y.val = x.val
        /\ y.mod = x.mod /\ y.exists = x.exists /\ y.drop = x.drop
    BY <1>2, <2>1 DEF ReqFields, Done
  <2>3. Thinned({})
    BY <1>A, SameSessions DEF VerifyPassword, table
  <2>4. Shows(y)
    BY <1>2, <2>2, <1>A DEF Shows
  <2>5. ReqStamped(y)
    BY <1>2, <2>2 DEF ReqStamped
  <2>6. (y.pc \in Held <=> x.pc \in Held) /\ x.pc # "fire" /\ x.pc # "delay" /\ y.pc # "delay"
        /\ (x.pc \in Held => y.remote = x.remote)
    BY <1>2, <2>2 DEF Held
  <2> QED
    BY <1>1, <1>2, <1>3, <1>4, <2>2, <2>3, <2>4, <2>5, <2>6, PlainStep
<1>B. CASE ~(x.val # None /\ x.cred = x.val)
  <2>1. y = [x EXCEPT !.pc = "wrong", !.checked = IF x.checked = 0 THEN generation ELSE x.checked]
    BY <1>1, <1>2, <1>B DEF VerifyPassword, AuthInv, Shape, Compared, Shows
  <2>2. DOMAIN y = ReqFields /\ y.pc = "wrong" /\ y.kind = x.kind /\ y.remote = x.remote
        /\ y.cred = x.cred /\ y.val = x.val /\ y.mod = x.mod /\ y.exists = x.exists /\
        y.drop = x.drop
    BY <1>2, <2>1 DEF ReqFields, Done
  <2>3. y.checked \in Nat /\ y.checked <= generation
    BY <1>2, <2>1 DEF ReqFields, Shows
  <2>4. Thinned({})
    BY <1>B, SameSessions DEF VerifyPassword, table
  <2>5. Shows(y)
    BY <1>2, <2>2, <2>3, <1>B DEF Shows
  <2>6. ReqStamped(y)
    BY <1>2, <2>2 DEF ReqStamped
  <2>7. (y.pc \in Held <=> x.pc \in Held) /\ x.pc # "fire" /\ x.pc # "delay" /\ y.pc # "delay"
        /\ (x.pc \in Held => y.remote = x.remote)
    BY <1>2, <2>2 DEF Held
  <2> QED
    BY <1>1, <1>2, <1>3, <1>4, <2>2, <2>4, <2>5, <2>6, <2>7, PlainStep
<1> QED
  BY <1>A, <1>B

(* The handler that changed the password file, and the one that rotates    *)
(* the token.                                                              *)
LEMMA RestatPasswordStep ==
  ASSUME AuthInv, NEW h \in Handlers, RestatPassword(h)
  PROVE  AuthInv'
<1>1. PICK x, y : x = req[h] /\ y = req'[h]
  OBVIOUS
<1>2. DOMAIN x = ReqFields /\ Shows(x) /\ ReqStamped(x) /\ x.drop = {} /\
      generation \in Nat /\ x.pc = "restat"
  BY <1>1 DEF RestatPassword, AuthInv, Shape, Proved, Stamped, Told
<1>3. DOMAIN req' = Handlers /\ \A g \in Handlers : g # h => req'[g] = req[g]
  BY DEF RestatPassword, AuthInv, Shape
<1>4. made' = made /\ now' = now /\ told' = told /\ watch' = watch /\
      generation' = generation /\ tokenHash' = tokenHash /\ password' = password /\
      limiter' = limiter /\ writes' = writes /\ passwordFile' = passwordFile
  BY DEF RestatPassword, files, creds, table
<1>5. y = [x EXCEPT !.pc = "reread", !.mod = passwordFile.n, !.exists = (passwordFile.is # "none")]
  BY <1>1, <1>2 DEF RestatPassword, AuthInv, Shape
<1>6. DOMAIN y = ReqFields /\ y.pc = "reread" /\ y.kind = x.kind /\ y.remote = x.remote
      /\ y.cred = x.cred /\ y.checked = x.checked /\ y.val = x.val /\
      y.mod = passwordFile.n /\ y.exists = (passwordFile.is # "none") /\ y.drop = x.drop
  BY <1>2, <1>5 DEF ReqFields, Done
<1>7. Thinned({})
  BY SameSessions DEF RestatPassword, table
<1>8. Shows(y)
  BY <1>2, <1>6 DEF Shows
<1>9. ReqStamped(y)
  BY <1>2, <1>6 DEF ReqStamped, AuthInv, Stamped
<1>10. (y.pc \in Held <=> x.pc \in Held) /\ x.pc # "fire" /\ x.pc # "delay" /\ y.pc # "delay"
      /\ (x.pc \in Held => y.remote = x.remote)
  BY <1>2, <1>6 DEF Held
<1> QED
  BY <1>1, <1>2, <1>3, <1>4, <1>6, <1>7, <1>8, <1>9, <1>10, PlainStep

LEMMA RereadPasswordStep ==
  ASSUME AuthInv, NEW h \in Handlers, NEW opens \in BOOLEAN, RereadPassword(h, opens)
  PROVE  AuthInv'
<1>1. PICK x, y : x = req[h] /\ y = req'[h]
  OBVIOUS
<1>2. DOMAIN x = ReqFields /\ Shows(x) /\ ReqStamped(x) /\ x.drop = {} /\
      generation \in Nat /\ x.pc = "reread"
  BY <1>1 DEF RereadPassword, AuthInv, Shape, Proved, Stamped, Told
<1>3. DOMAIN req' = Handlers /\ \A g \in Handlers : g # h => req'[g] = req[g]
  BY DEF RereadPassword, AuthInv, Shape
<1>4. made' = made /\ now' = now /\ told' = told /\ watch' = watch /\
      generation' = generation /\ tokenHash' = tokenHash /\ password' = password /\
      limiter' = limiter /\ writes' = writes /\ passwordFile' = passwordFile
  BY DEF RereadPassword, files, creds, table
<1>A. CASE opens /\ x.exists /\ passwordFile.is = "hash"
  <2>1. y = [x EXCEPT !.pc = "applyPassword", !.val = passwordFile.n, !.mod = x.mod, !.exists = TRUE]
    BY <1>1, <1>2, <1>A DEF RereadPassword, AuthInv, Shape
  <2>2. DOMAIN y = ReqFields /\ y.pc = "applyPassword" /\ y.kind = x.kind /\
        y.remote = x.remote /\ y.cred = x.cred /\ y.checked = x.checked /\
        y.val = passwordFile.n /\ y.mod = x.mod /\ y.exists = TRUE /\ y.drop = x.drop
    BY <1>2, <2>1 DEF ReqFields, Done
  <2>3. Thinned({})
    BY <1>A, SameSessions DEF RereadPassword, table
  <2>4. Shows(y)
    BY <1>2, <2>2, <1>A DEF Shows
  <2>5. ReqStamped(y)
    BY <1>2, <2>2, <1>A DEF ReqStamped, Read, Fits
  <2>6. (y.pc \in Held <=> x.pc \in Held) /\ x.pc # "fire" /\ x.pc # "delay" /\ y.pc # "delay"
        /\ (x.pc \in Held => y.remote = x.remote)
    BY <1>2, <2>2 DEF Held
  <2> QED
    BY <1>1, <1>2, <1>3, <1>4, <2>2, <2>3, <2>4, <2>5, <2>6, PlainStep
<1>B. CASE ~(opens /\ x.exists /\ passwordFile.is = "hash")
  <2>1. y = [x EXCEPT !.pc = "applyPassword", !.val = None, !.mod = None, !.exists = FALSE]
    BY <1>1, <1>2, <1>B DEF RereadPassword, AuthInv, Shape
  <2>2. DOMAIN y = ReqFields /\ y.pc = "applyPassword" /\ y.kind = x.kind /\
        y.remote = x.remote /\ y.cred = x.cred /\ y.checked = x.checked /\ y.val = None
        /\ y.mod = None /\ y.exists = FALSE /\ y.drop = x.drop
    BY <1>2, <2>1 DEF ReqFields, Done
  <2>3. Thinned({})
    BY <1>B, SameSessions DEF RereadPassword, table
  <2>4. Shows(y)
    BY <1>2, <2>2, <1>B DEF Shows
  <2>5. ReqStamped(y)
    BY <1>2, <2>2 DEF ReqStamped, Read, Fits, AuthInv, Stamped
  <2>6. (y.pc \in Held <=> x.pc \in Held) /\ x.pc # "fire" /\ x.pc # "delay" /\ y.pc # "delay"
        /\ (x.pc \in Held => y.remote = x.remote)
    BY <1>2, <2>2 DEF Held
  <2> QED
    BY <1>1, <1>2, <1>3, <1>4, <2>2, <2>3, <2>4, <2>5, <2>6, PlainStep
<1> QED
  BY <1>A, <1>B

LEMMA RotateStatStep ==
  ASSUME AuthInv, NEW h \in Handlers, NEW ok \in BOOLEAN, RotateStat(h, ok)
  PROVE  AuthInv'
<1>1. PICK x, y : x = req[h] /\ y = req'[h]
  OBVIOUS
<1>2. DOMAIN x = ReqFields /\ Shows(x) /\ ReqStamped(x) /\ x.drop = {} /\
      generation \in Nat /\ x.pc = "rotateStat"
  BY <1>1 DEF RotateStat, AuthInv, Shape, Proved, Stamped, Told
<1>3. DOMAIN req' = Handlers /\ \A g \in Handlers : g # h => req'[g] = req[g]
  BY DEF RotateStat, AuthInv, Shape
<1>4. made' = made /\ now' = now /\ told' = told /\ watch' = watch /\
      generation' = generation /\ tokenHash' = tokenHash /\ password' = password /\
      limiter' = limiter /\ writes' = writes /\ passwordFile' = passwordFile
  BY DEF RotateStat, files, creds, table
<1>A. CASE ok
  <2>1. y = [x EXCEPT !.pc = "rotateApply", !.mod = tokenFile]
    BY <1>1, <1>2, <1>A DEF RotateStat, AuthInv, Shape
  <2>2. DOMAIN y = ReqFields /\ y.pc = "rotateApply" /\ y.kind = x.kind /\
        y.remote = x.remote /\ y.cred = x.cred /\ y.checked = x.checked /\ y.val = x.val
        /\ y.mod = tokenFile /\ y.exists = x.exists /\ y.drop = x.drop
    BY <1>2, <2>1 DEF ReqFields, Done
  <2>3. Thinned({})
    BY <1>A, SameSessions DEF RotateStat, table
  <2>4. Shows(y)
    BY <1>2, <2>2, <1>A DEF Shows
  <2>5. ReqStamped(y)
    BY <1>2, <2>2 DEF ReqStamped
  <2>6. (y.pc \in Held <=> x.pc \in Held) /\ x.pc # "fire" /\ x.pc # "delay" /\ y.pc # "delay"
        /\ (x.pc \in Held => y.remote = x.remote)
    BY <1>2, <2>2 DEF Held
  <2> QED
    BY <1>1, <1>2, <1>3, <1>4, <2>2, <2>3, <2>4, <2>5, <2>6, PlainStep
<1>B. CASE ~ok
  <2>1. y = [x EXCEPT !.pc = "rotateApply", !.mod = None]
    BY <1>1, <1>2, <1>B DEF RotateStat, AuthInv, Shape
  <2>2. DOMAIN y = ReqFields /\ y.pc = "rotateApply" /\ y.kind = x.kind /\
        y.remote = x.remote /\ y.cred = x.cred /\ y.checked = x.checked /\ y.val = x.val
        /\ y.mod = None /\ y.exists = x.exists /\ y.drop = x.drop
    BY <1>2, <2>1 DEF ReqFields, Done
  <2>3. Thinned({})
    BY <1>B, SameSessions DEF RotateStat, table
  <2>4. Shows(y)
    BY <1>2, <2>2, <1>B DEF Shows
  <2>5. ReqStamped(y)
    BY <1>2, <2>2 DEF ReqStamped
  <2>6. (y.pc \in Held <=> x.pc \in Held) /\ x.pc # "fire" /\ x.pc # "delay" /\ y.pc # "delay"
        /\ (x.pc \in Held => y.remote = x.remote)
    BY <1>2, <2>2 DEF Held
  <2> QED
    BY <1>1, <1>2, <1>3, <1>4, <2>2, <2>3, <2>4, <2>5, <2>6, PlainStep
<1> QED
  BY <1>A, <1>B

LEMMA RotateWriteStep ==
  ASSUME AuthInv, NEW h \in Handlers, NEW id, RotateWrite(h, id)
  PROVE  AuthInv'
<1>1. PICK x, y : x = req[h] /\ y = req'[h]
  OBVIOUS
<1>2. DOMAIN x = ReqFields /\ Shows(x) /\ ReqStamped(x) /\ x.drop = {} /\
      generation \in Nat /\ x.pc = "done" /\ id \in DOMAIN sessions
  BY <1>1 DEF RotateWrite, AuthInv, Shape, Proved, Stamped, Told, Alive
<1>3. DOMAIN req' = Handlers /\ \A g \in Handlers : g # h => req'[g] = req[g]
  BY DEF RotateWrite, AuthInv, Shape, Alive
<1>4. made' = made /\ now' = now /\ told' = told /\ watch' = watch /\
      generation' = generation /\ tokenHash' = tokenHash /\ password' = password /\
      limiter' = limiter
  BY DEF RotateWrite, files, creds, table, Alive
<1>5. y = [Done EXCEPT !.pc = "rotateStat", !.val = writes + 1]
  BY <1>1, <1>2 DEF RotateWrite, AuthInv, Shape, Alive
<1>6. DOMAIN y = ReqFields /\ y.pc = "rotateStat" /\ y.kind = "none" /\ y.cred = None /\
      y.checked = 0 /\ y.val = writes + 1 /\ y.mod = None /\ y.exists = FALSE /\
      y.drop = {}
  BY <1>2, <1>5 DEF ReqFields, Done
<1>7. Thinned({})
  BY TouchedSession, <1>2 DEF RotateWrite, table
<1>8. Shows(y)
  BY <1>2, <1>6 DEF Shows
<1>9. Stamped'
  BY <1>1, <1>2, <1>3, <1>4, <1>6, StampedWritten DEF RotateWrite, AuthInv, Stamped,
     files
<1>10. Accounted'
  BY <1>1, <1>2, <1>3, <1>4, <1>6, AccountedKept DEF AuthInv, Held
<1>11. DOMAIN limiter' = LimiterFields
  BY <1>4 DEF AuthInv, Shape
<1> QED
  BY <1>1, <1>2, <1>3, <1>4, <1>6, <1>7, <1>8, <1>9, <1>10, <1>11, HandlerStep

LEMMA WritePasswordStep ==
  ASSUME AuthInv, NEW h \in Handlers, NEW how \in {"set", "clear", "refuse"}, WritePassword(h, how)
  PROVE  AuthInv'
<1>1. PICK x, y : x = req[h] /\ y = req'[h]
  OBVIOUS
<1>2. DOMAIN x = ReqFields /\ Shows(x) /\ ReqStamped(x) /\ x.drop = {} /\
      generation \in Nat /\ x.pc = "write"
  BY <1>1 DEF WritePassword, AuthInv, Shape, Proved, Stamped, Told
<1>3. DOMAIN req' = Handlers /\ \A g \in Handlers : g # h => req'[g] = req[g]
  BY DEF WritePassword, AuthInv, Shape
<1>4. made' = made /\ now' = now /\ told' = told /\ watch' = watch /\
      generation' = generation /\ tokenHash' = tokenHash /\ password' = password /\
      limiter' = limiter
  BY DEF WritePassword, files, creds, table
<1>A. CASE how = "set"
  <2>1. y = [x EXCEPT !.pc = "restat"]
    BY <1>1, <1>2, <1>A DEF WritePassword, AuthInv, Shape
  <2>2. DOMAIN y = ReqFields /\ y.pc = "restat" /\ y.kind = x.kind /\
        y.remote = x.remote /\ y.cred = x.cred /\ y.checked = x.checked /\ y.val = x.val
        /\ y.mod = x.mod /\ y.exists = x.exists /\ y.drop = x.drop
    BY <1>2, <2>1 DEF ReqFields, Done
  <2>3. Thinned({})
    BY <1>A, SameSessions DEF WritePassword, table
  <2>4. Shows(y)
    BY <1>2, <2>2, <1>A DEF Shows
  <2>5. Stamped'
    BY <1>1, <1>2, <1>3, <1>4, <2>2, <1>A, StampedWritten DEF WritePassword, AuthInv,
       Stamped, files
  <2>6. Accounted'
    BY <1>1, <1>2, <1>3, <1>4, <2>2, AccountedKept DEF AuthInv, Held
  <2>7. DOMAIN limiter' = LimiterFields
    BY <1>4 DEF AuthInv, Shape
  <2> QED
    BY <1>1, <1>2, <1>3, <1>4, <2>2, <2>3, <2>4, <2>5, <2>6, <2>7, HandlerStep
<1>B. CASE how = "clear"
  <2>1. y = [x EXCEPT !.pc = "restat"]
    BY <1>1, <1>2, <1>B DEF WritePassword, AuthInv, Shape
  <2>2. DOMAIN y = ReqFields /\ y.pc = "restat" /\ y.kind = x.kind /\
        y.remote = x.remote /\ y.cred = x.cred /\ y.checked = x.checked /\ y.val = x.val
        /\ y.mod = x.mod /\ y.exists = x.exists /\ y.drop = x.drop
    BY <1>2, <2>1 DEF ReqFields, Done
  <2>3. Thinned({})
    BY <1>B, SameSessions DEF WritePassword, table
  <2>4. Shows(y)
    BY <1>2, <2>2, <1>B DEF Shows
  <2>5. Stamped'
    BY <1>1, <1>2, <1>3, <1>4, <2>2, <1>B, StampedWritten DEF WritePassword, AuthInv,
       Stamped, files
  <2>6. Accounted'
    BY <1>1, <1>2, <1>3, <1>4, <2>2, AccountedKept DEF AuthInv, Held
  <2>7. DOMAIN limiter' = LimiterFields
    BY <1>4 DEF AuthInv, Shape
  <2> QED
    BY <1>1, <1>2, <1>3, <1>4, <2>2, <2>3, <2>4, <2>5, <2>6, <2>7, HandlerStep
<1>C. CASE how = "refuse"
  <2>1. y = Done
    BY <1>1, <1>2, <1>C DEF WritePassword, AuthInv, Shape
  <2>2. DOMAIN y = ReqFields /\ y.pc = "done" /\ y.kind = "none" /\ y.cred = None /\
        y.checked = 0 /\ y.val = None /\ y.mod = None /\ y.exists = FALSE /\ y.drop = {}
    BY <1>2, <2>1 DEF ReqFields, Done
  <2>3. Thinned({})
    BY <1>C, SameSessions DEF WritePassword, table
  <2>4. Shows(y)
    BY <1>2, <2>2, <1>C DEF Shows
  <2>5. Stamped'
    BY <1>1, <1>2, <1>3, <1>4, <2>2, <1>C, StampedWritten DEF WritePassword, AuthInv,
       Stamped, files
  <2>6. Accounted'
    BY <1>1, <1>2, <1>3, <1>4, <2>2, AccountedKept DEF AuthInv, Held
  <2>7. DOMAIN limiter' = LimiterFields
    BY <1>4 DEF AuthInv, Shape
  <2> QED
    BY <1>1, <1>2, <1>3, <1>4, <2>2, <2>3, <2>4, <2>5, <2>6, <2>7, HandlerStep
<1> QED
  BY <1>A, <1>B, <1>C

LEMMA ApplyPasswordStep ==
  ASSUME AuthInv, NEW h \in Handlers, ApplyPassword(h)
  PROVE  AuthInv'
<1>1. PICK x, y : x = req[h] /\ y = req'[h]
  OBVIOUS
<1>2. DOMAIN x = ReqFields /\ Shows(x) /\ ReqStamped(x) /\ x.drop = {} /\
      generation \in Nat /\ x.pc = "applyPassword"
  BY <1>1 DEF ApplyPassword, AuthInv, Shape, Proved, Stamped, Told
<1>3. DOMAIN req' = Handlers /\ \A g \in Handlers : g # h => req'[g] = req[g]
  BY DEF ApplyPassword, AuthInv, Shape
<1>4. now' = now /\ told' = told /\ watch' = watch /\ limiter' = limiter /\
      writes' = writes /\ passwordFile' = passwordFile
  BY DEF ApplyPassword, files, creds, table
<1>5. y = [Done EXCEPT !.pc = "fire", !.drop = DOMAIN sessions]
  BY <1>1, <1>2 DEF ApplyPassword, AuthInv, Shape
<1>6. DOMAIN y = ReqFields /\ y.pc = "fire" /\ y.kind = "none" /\ y.cred = None /\
      y.checked = 0 /\ y.val = None /\ y.mod = None /\ y.exists = FALSE /\
      y.drop = DOMAIN sessions
  BY <1>2, <1>5 DEF ReqFields, Done
<1>7. Stamped'
  BY <1>1, <1>2, <1>3, <1>4, <1>6 DEF ApplyPassword, AuthInv, Stamped, Read, Fits,
     ReqStamped, WatchStamped
<1>8. invalidateAll
  BY DEF ApplyPassword
<1> QED
  BY <1>1, <1>2, <1>3, <1>4, <1>6, <1>7, <1>8, NewCredentialStep DEF Held

LEMMA RotateApplyStep ==
  ASSUME AuthInv, NEW h \in Handlers, RotateApply(h)
  PROVE  AuthInv'
<1>1. PICK x, y : x = req[h] /\ y = req'[h]
  OBVIOUS
<1>2. DOMAIN x = ReqFields /\ Shows(x) /\ ReqStamped(x) /\ x.drop = {} /\
      generation \in Nat /\ x.pc = "rotateApply"
  BY <1>1 DEF RotateApply, AuthInv, Shape, Proved, Stamped, Told
<1>3. DOMAIN req' = Handlers /\ \A g \in Handlers : g # h => req'[g] = req[g]
  BY DEF RotateApply, AuthInv, Shape
<1>4. now' = now /\ told' = told /\ watch' = watch /\ limiter' = limiter /\
      writes' = writes /\ passwordFile' = passwordFile
  BY DEF RotateApply, files, creds, table
<1>5. y = [Done EXCEPT !.pc = "fire", !.drop = DOMAIN sessions]
  BY <1>1, <1>2 DEF RotateApply, AuthInv, Shape
<1>6. DOMAIN y = ReqFields /\ y.pc = "fire" /\ y.kind = "none" /\ y.cred = None /\
      y.checked = 0 /\ y.val = None /\ y.mod = None /\ y.exists = FALSE /\
      y.drop = DOMAIN sessions
  BY <1>2, <1>5 DEF ReqFields, Done
<1>7. Stamped'
  BY <1>1, <1>2, <1>3, <1>4, <1>6 DEF RotateApply, AuthInv, Stamped, Read, Fits,
     ReqStamped, WatchStamped
<1>8. invalidateAll
  BY DEF RotateApply
<1> QED
  BY <1>1, <1>2, <1>3, <1>4, <1>6, <1>7, <1>8, NewCredentialStep DEF Held

(* The attempts.                                                           *)
LEMMA EnterDelayStep ==
  ASSUME AuthInv, NEW h \in Handlers, EnterDelay(h)
  PROVE  AuthInv'
<1>1. PICK x, y : x = req[h] /\ y = req'[h]
  OBVIOUS
<1>2. DOMAIN x = ReqFields /\ Shows(x) /\ ReqStamped(x) /\ x.drop = {} /\
      generation \in Nat /\ x.pc = "enter"
  BY <1>1 DEF EnterDelay, AuthInv, Shape, Proved, Stamped, Told
<1>3. DOMAIN req' = Handlers /\ \A g \in Handlers : g # h => req'[g] = req[g]
  BY DEF EnterDelay, AuthInv, Shape
<1>4. made' = made /\ now' = now /\ told' = told /\ watch' = watch /\
      generation' = generation /\ tokenHash' = tokenHash /\ password' = password /\
      writes' = writes /\ passwordFile' = passwordFile
  BY DEF EnterDelay, files, creds, table
<1>A. CASE limiter.delayed < MaxDelayed
  <2>1. y = [x EXCEPT !.pc = "delay"]
    BY <1>1, <1>2, <1>A DEF EnterDelay, AuthInv, Shape
  <2>2. DOMAIN y = ReqFields /\ y.pc = "delay" /\ y.kind = x.kind /\ y.remote = x.remote
        /\ y.cred = x.cred /\ y.checked = x.checked /\ y.val = x.val /\ y.mod = x.mod /\
        y.exists = x.exists /\ y.drop = x.drop
    BY <1>2, <2>1 DEF ReqFields, Done
  <2>3. Thinned({})
    BY <1>A, SameSessions DEF EnterDelay, table
  <2>4. Shows(y)
    BY <1>2, <2>2, <1>A DEF Shows
  <2>5. ReqStamped(y)
    BY <1>2, <2>2 DEF ReqStamped
  <2>6. Stamped'
    BY <1>1, <1>3, <1>4, <2>5, StampedKept DEF AuthInv
  <2>7. limiter'.remotes = limiter.remotes /\ limiter'.inflight = limiter.inflight /\
        limiter'.delayed = limiter.delayed + 1
    BY <1>1, <1>2, <1>A DEF EnterDelay, AuthInv, Shape, LimiterFields
  <2>8. Accounted'
    BY <1>1, <1>2, <1>3, <2>2, <2>7, AttemptWaits DEF AuthInv, Held
  <2>9. DOMAIN limiter' = LimiterFields
    BY <1>A DEF EnterDelay, AuthInv, Shape
  <2> QED
    BY <1>1, <1>2, <1>3, <1>4, <2>2, <2>3, <2>4, <2>6, <2>8, <2>9, HandlerStep
<1>B. CASE ~(limiter.delayed < MaxDelayed)
  <2>1. y = Done
    BY <1>1, <1>2, <1>B DEF EnterDelay, AuthInv, Shape
  <2>2. DOMAIN y = ReqFields /\ y.pc = "done" /\ y.kind = "none" /\ y.cred = None /\
        y.checked = 0 /\ y.val = None /\ y.mod = None /\ y.exists = FALSE /\ y.drop = {}
    BY <1>2, <2>1 DEF ReqFields, Done
  <2>3. Thinned({})
    BY <1>B, SameSessions DEF EnterDelay, table
  <2>4. Shows(y)
    BY <1>2, <2>2, <1>B DEF Shows
  <2>5. ReqStamped(y)
    BY <1>2, <2>2 DEF ReqStamped
  <2>6. Stamped'
    BY <1>1, <1>3, <1>4, <2>5, StampedKept DEF AuthInv
  <2>7. PICK r, e : r = x.remote /\ e = Freed(r)
    OBVIOUS
  <2>8. DOMAIN limiter = LimiterFields /\
        limiter' = LimiterFreed(dropIfIdle(With(limiter.remotes, r, e), r))
    BY <1>1, <1>2, <2>7, <1>B DEF EnterDelay, releaseAttempt, AuthInv, Shape
  <2>9. limiter'.remotes = dropIfIdle(With(limiter.remotes, r, e), r) /\
        limiter'.inflight = limiter.inflight - 1 /\ limiter'.delayed = limiter.delayed
    BY <2>8 DEF LimiterFreed, LimiterFields
  <2>10. Accounted /\ Entries(limiter.remotes) /\ DOMAIN e = EntryFields
    BY <2>7, FreedEntry DEF AuthInv, Accounted, Entries
  <2>11. Entries(limiter'.remotes) /\
        (Counts(limiter.remotes, r) > 0 => Counts(limiter'.remotes, r) = Counts(limiter.remotes, r) - 1)
        /\ \A u : u # r => Counts(limiter'.remotes, u) = Counts(limiter.remotes, u)
    BY <2>7, <2>9, <2>10, PlaceFreed
  <2>12. Accounted'
    BY <1>1, <1>2, <1>3, <2>2, <2>7, <2>9, <2>10, <2>11, AttemptEnds DEF Held
  <2>13. DOMAIN limiter' = LimiterFields
    BY <1>B DEF EnterDelay, AuthInv, Shape, releaseAttempt, LimiterFreed
  <2> QED
    BY <1>1, <1>2, <1>3, <1>4, <2>2, <2>3, <2>4, <2>6, <2>12, <2>13, HandlerStep
<1> QED
  BY <1>A, <1>B

LEMMA LeaveDelayStep ==
  ASSUME AuthInv, NEW h \in Handlers, LeaveDelay(h)
  PROVE  AuthInv'
<1>1. PICK x, y : x = req[h] /\ y = req'[h]
  OBVIOUS
<1>2. DOMAIN x = ReqFields /\ Shows(x) /\ ReqStamped(x) /\ x.drop = {} /\
      generation \in Nat /\ x.pc = "delay"
  BY <1>1 DEF LeaveDelay, AuthInv, Shape, Proved, Stamped, Told
<1>3. DOMAIN req' = Handlers /\ \A g \in Handlers : g # h => req'[g] = req[g]
  BY DEF LeaveDelay, AuthInv, Shape
<1>4. made' = made /\ now' = now /\ told' = told /\ watch' = watch /\
      generation' = generation /\ tokenHash' = tokenHash /\ password' = password /\
      writes' = writes /\ passwordFile' = passwordFile
  BY DEF LeaveDelay, files, creds, table
<1>5. y = [x EXCEPT !.pc = "compare"]
  BY <1>1, <1>2 DEF LeaveDelay, AuthInv, Shape
<1>6. DOMAIN y = ReqFields /\ y.pc = "compare" /\ y.kind = x.kind /\ y.remote = x.remote
      /\ y.cred = x.cred /\ y.checked = x.checked /\ y.val = x.val /\ y.mod = x.mod /\
      y.exists = x.exists /\ y.drop = x.drop
  BY <1>2, <1>5 DEF ReqFields, Done
<1>7. Thinned({})
  BY SameSessions DEF LeaveDelay, table
<1>8. Shows(y)
  BY <1>2, <1>6 DEF Shows
<1>9. ReqStamped(y)
  BY <1>2, <1>6 DEF ReqStamped
<1>10. Stamped'
  BY <1>1, <1>3, <1>4, <1>9, StampedKept DEF AuthInv
<1>11. limiter'.remotes = limiter.remotes /\ limiter'.inflight = limiter.inflight /\
      (limiter.delayed > 0 => limiter'.delayed = limiter.delayed - 1)
  BY <1>1, <1>2 DEF LeaveDelay, AuthInv, Shape, LimiterFields
<1>12. Accounted'
  BY <1>1, <1>2, <1>3, <1>6, <1>11, AttemptWaits DEF AuthInv, Held
<1>13. DOMAIN limiter' = LimiterFields
  BY DEF LeaveDelay, AuthInv, Shape
<1> QED
  BY <1>1, <1>2, <1>3, <1>4, <1>6, <1>7, <1>8, <1>10, <1>12, <1>13, HandlerStep

LEMMA AbandonDelayStep ==
  ASSUME AuthInv, NEW h \in Handlers, AbandonDelay(h)
  PROVE  AuthInv'
<1>1. PICK x, y : x = req[h] /\ y = req'[h]
  OBVIOUS
<1>2. DOMAIN x = ReqFields /\ Shows(x) /\ ReqStamped(x) /\ x.drop = {} /\
      generation \in Nat /\ x.pc = "delay"
  BY <1>1 DEF AbandonDelay, AuthInv, Shape, Proved, Stamped, Told
<1>3. DOMAIN req' = Handlers /\ \A g \in Handlers : g # h => req'[g] = req[g]
  BY DEF AbandonDelay, AuthInv, Shape
<1>4. made' = made /\ now' = now /\ told' = told /\ watch' = watch /\
      generation' = generation /\ tokenHash' = tokenHash /\ password' = password /\
      writes' = writes /\ passwordFile' = passwordFile
  BY DEF AbandonDelay, files, creds, table
<1>5. y = [x EXCEPT !.pc = "abandon"]
  BY <1>1, <1>2 DEF AbandonDelay, AuthInv, Shape
<1>6. DOMAIN y = ReqFields /\ y.pc = "abandon" /\ y.kind = x.kind /\ y.remote = x.remote
      /\ y.cred = x.cred /\ y.checked = x.checked /\ y.val = x.val /\ y.mod = x.mod /\
      y.exists = x.exists /\ y.drop = x.drop
  BY <1>2, <1>5 DEF ReqFields, Done
<1>7. Thinned({})
  BY SameSessions DEF AbandonDelay, table
<1>8. Shows(y)
  BY <1>2, <1>6 DEF Shows
<1>9. ReqStamped(y)
  BY <1>2, <1>6 DEF ReqStamped
<1>10. Stamped'
  BY <1>1, <1>3, <1>4, <1>9, StampedKept DEF AuthInv
<1>11. limiter'.remotes = limiter.remotes /\ limiter'.inflight = limiter.inflight /\
      (limiter.delayed > 0 => limiter'.delayed = limiter.delayed - 1)
  BY <1>1, <1>2 DEF AbandonDelay, AuthInv, Shape, LimiterFields
<1>12. Accounted'
  BY <1>1, <1>2, <1>3, <1>6, <1>11, AttemptWaits DEF AuthInv, Held
<1>13. DOMAIN limiter' = LimiterFields
  BY DEF AbandonDelay, AuthInv, Shape
<1> QED
  BY <1>1, <1>2, <1>3, <1>4, <1>6, <1>7, <1>8, <1>10, <1>12, <1>13, HandlerStep

LEMMA ReleaseAttemptStep ==
  ASSUME AuthInv, NEW h \in Handlers, ReleaseAttempt(h)
  PROVE  AuthInv'
<1>1. PICK x, y : x = req[h] /\ y = req'[h]
  OBVIOUS
<1>2. DOMAIN x = ReqFields /\ Shows(x) /\ ReqStamped(x) /\ x.drop = {} /\
      generation \in Nat /\ x.pc = "abandon"
  BY <1>1 DEF ReleaseAttempt, AuthInv, Shape, Proved, Stamped, Told
<1>3. DOMAIN req' = Handlers /\ \A g \in Handlers : g # h => req'[g] = req[g]
  BY DEF ReleaseAttempt, AuthInv, Shape
<1>4. made' = made /\ now' = now /\ told' = told /\ watch' = watch /\
      generation' = generation /\ tokenHash' = tokenHash /\ password' = password /\
      writes' = writes /\ passwordFile' = passwordFile
  BY DEF ReleaseAttempt, files, creds, table
<1>5. y = Done
  BY <1>1, <1>2 DEF ReleaseAttempt, AuthInv, Shape
<1>6. DOMAIN y = ReqFields /\ y.pc = "done" /\ y.kind = "none" /\ y.cred = None /\
      y.checked = 0 /\ y.val = None /\ y.mod = None /\ y.exists = FALSE /\ y.drop = {}
  BY <1>2, <1>5 DEF ReqFields, Done
<1>7. Thinned({})
  BY SameSessions DEF ReleaseAttempt, table
<1>8. Shows(y)
  BY <1>2, <1>6 DEF Shows
<1>9. ReqStamped(y)
  BY <1>2, <1>6 DEF ReqStamped
<1>10. Stamped'
  BY <1>1, <1>3, <1>4, <1>9, StampedKept DEF AuthInv
<1>11. PICK r, e : r = x.remote /\ e = Freed(r)
  OBVIOUS
<1>12. DOMAIN limiter = LimiterFields /\
      limiter' = LimiterFreed(dropIfIdle(With(limiter.remotes, r, e), r))
  BY <1>1, <1>2, <1>11 DEF ReleaseAttempt, releaseAttempt, AuthInv, Shape
<1>13. limiter'.remotes = dropIfIdle(With(limiter.remotes, r, e), r) /\
      limiter'.inflight = limiter.inflight - 1 /\ limiter'.delayed = limiter.delayed
  BY <1>12 DEF LimiterFreed, LimiterFields
<1>14. Accounted /\ Entries(limiter.remotes) /\ DOMAIN e = EntryFields
  BY <1>11, FreedEntry DEF AuthInv, Accounted, Entries
<1>15. Entries(limiter'.remotes) /\
      (Counts(limiter.remotes, r) > 0 => Counts(limiter'.remotes, r) = Counts(limiter.remotes, r) - 1)
      /\ \A u : u # r => Counts(limiter'.remotes, u) = Counts(limiter.remotes, u)
  BY <1>11, <1>13, <1>14, PlaceFreed
<1>16. Accounted'
  BY <1>1, <1>2, <1>3, <1>6, <1>11, <1>13, <1>14, <1>15, AttemptEnds DEF Held
<1>17. DOMAIN limiter' = LimiterFields
  BY DEF ReleaseAttempt, AuthInv, Shape, releaseAttempt, LimiterFreed
<1> QED
  BY <1>1, <1>2, <1>3, <1>4, <1>6, <1>7, <1>8, <1>10, <1>16, <1>17, HandlerStep

LEMMA FailStep ==
  ASSUME AuthInv, NEW h \in Handlers, Fail(h)
  PROVE  AuthInv'
<1>1. PICK x, y : x = req[h] /\ y = req'[h]
  OBVIOUS
<1>2. DOMAIN x = ReqFields /\ Shows(x) /\ ReqStamped(x) /\ x.drop = {} /\
      generation \in Nat /\ x.pc = "wrong"
  BY <1>1 DEF Fail, AuthInv, Shape, Proved, Stamped, Told
<1>3. DOMAIN req' = Handlers /\ \A g \in Handlers : g # h => req'[g] = req[g]
  BY DEF Fail, AuthInv, Shape
<1>4. made' = made /\ now' = now /\ told' = told /\ watch' = watch /\
      generation' = generation /\ tokenHash' = tokenHash /\ password' = password /\
      writes' = writes /\ passwordFile' = passwordFile
  BY DEF Fail, files, creds, table
<1>5. y = Done
  BY <1>1, <1>2 DEF Fail, AuthInv, Shape
<1>6. DOMAIN y = ReqFields /\ y.pc = "done" /\ y.kind = "none" /\ y.cred = None /\
      y.checked = 0 /\ y.val = None /\ y.mod = None /\ y.exists = FALSE /\ y.drop = {}
  BY <1>2, <1>5 DEF ReqFields, Done
<1>7. Thinned({})
  BY SameSessions DEF Fail, table
<1>8. Shows(y)
  BY <1>2, <1>6 DEF Shows
<1>9. ReqStamped(y)
  BY <1>2, <1>6 DEF ReqStamped
<1>10. Stamped'
  BY <1>1, <1>3, <1>4, <1>9, StampedKept DEF AuthInv
<1>11. FreedOne(x.remote)
  BY <1>1, FailFrees DEF Fail
<1>12. DOMAIN limiter' = LimiterFields
  BY <1>11 DEF FreedOne
<1>13. Accounted'
  BY <1>1, <1>2, <1>3, <1>6, <1>11, AttemptEnds DEF Held, FreedOne, AuthInv
<1> QED
  BY <1>1, <1>2, <1>3, <1>4, <1>6, <1>7, <1>8, <1>10, <1>13, <1>12, HandlerStep

LEMMA SucceedStep ==
  ASSUME AuthInv, NEW h \in Handlers, Succeed(h)
  PROVE  AuthInv'
<1>1. PICK x, y : x = req[h] /\ y = req'[h]
  OBVIOUS
<1>2. DOMAIN x = ReqFields /\ Shows(x) /\ ReqStamped(x) /\ x.drop = {} /\
      generation \in Nat /\ x.pc = "matched"
  BY <1>1 DEF Succeed, AuthInv, Shape, Proved, Stamped, Told
<1>3. DOMAIN req' = Handlers /\ \A g \in Handlers : g # h => req'[g] = req[g]
  BY DEF Succeed, AuthInv, Shape
<1>4. made' = made /\ now' = now /\ told' = told /\ watch' = watch /\
      generation' = generation /\ tokenHash' = tokenHash /\ password' = password /\
      writes' = writes /\ passwordFile' = passwordFile
  BY DEF Succeed, files, creds, table
<1>A. CASE x.kind = "change"
  <2>1. y = [x EXCEPT !.pc = "write"]
    BY <1>1, <1>2, <1>A DEF Succeed, AuthInv, Shape
  <2>2. DOMAIN y = ReqFields /\ y.pc = "write" /\ y.kind = x.kind /\ y.remote = x.remote
        /\ y.cred = x.cred /\ y.checked = x.checked /\ y.val = x.val /\ y.mod = x.mod /\
        y.exists = x.exists /\ y.drop = x.drop
    BY <1>2, <2>1 DEF ReqFields, Done
  <2>3. Thinned({})
    BY <1>A, SameSessions DEF Succeed, table
  <2>4. Shows(y)
    BY <1>2, <2>2, <1>A DEF Shows
  <2>5. ReqStamped(y)
    BY <1>2, <2>2 DEF ReqStamped
  <2>6. Stamped'
    BY <1>1, <1>3, <1>4, <2>5, StampedKept DEF AuthInv
  <2>7. FreedOne(x.remote)
    BY <1>1, SucceedFrees DEF Succeed
  <2>8. DOMAIN limiter' = LimiterFields
    BY <2>7 DEF FreedOne
  <2>9. Accounted'
    BY <1>1, <1>2, <1>3, <2>2, <2>7, AttemptEnds, <1>A DEF Held, FreedOne, AuthInv
  <2> QED
    BY <1>1, <1>2, <1>3, <1>4, <2>2, <2>3, <2>4, <2>6, <2>9, <2>8, HandlerStep
<1>B. CASE x.kind # "change"
  <2>1. y = [x EXCEPT !.pc = "insert"]
    BY <1>1, <1>2, <1>B DEF Succeed, AuthInv, Shape
  <2>2. DOMAIN y = ReqFields /\ y.pc = "insert" /\ y.kind = x.kind /\
        y.remote = x.remote /\ y.cred = x.cred /\ y.checked = x.checked /\ y.val = x.val
        /\ y.mod = x.mod /\ y.exists = x.exists /\ y.drop = x.drop
    BY <1>2, <2>1 DEF ReqFields, Done
  <2>3. Thinned({})
    BY <1>B, SameSessions DEF Succeed, table
  <2>4. Shows(y)
    BY <1>2, <2>2, <1>B DEF Shows
  <2>5. ReqStamped(y)
    BY <1>2, <2>2 DEF ReqStamped
  <2>6. Stamped'
    BY <1>1, <1>3, <1>4, <2>5, StampedKept DEF AuthInv
  <2>7. FreedOne(x.remote)
    BY <1>1, SucceedFrees DEF Succeed
  <2>8. DOMAIN limiter' = LimiterFields
    BY <2>7 DEF FreedOne
  <2>9. Accounted'
    BY <1>1, <1>2, <1>3, <2>2, <2>7, AttemptEnds, <1>B DEF Held, FreedOne, AuthInv
  <2> QED
    BY <1>1, <1>2, <1>3, <1>4, <2>2, <2>3, <2>4, <2>6, <2>9, <2>8, HandlerStep
<1> QED
  BY <1>A, <1>B

LEMMA LoginStep ==
  ASSUME AuthInv, NEW h \in Handlers, NEW way \in {"token", "password"}, NEW r \in Remotes,
         NEW cred, Login(h, way, r, cred)
  PROVE  AuthInv'
<1>1. PICK x, y : x = req[h] /\ y = req'[h]
  OBVIOUS
<1>2. DOMAIN x = ReqFields /\ Shows(x) /\ ReqStamped(x) /\ x.drop = {} /\
      generation \in Nat /\ x.pc = "done"
  BY <1>1 DEF Login, AuthInv, Shape, Proved, Stamped, Told, Admit
<1>3. DOMAIN req' = Handlers /\ \A g \in Handlers : g # h => req'[g] = req[g]
  BY DEF Login, AuthInv, Shape, Admit
<1>4. made' = made /\ now' = now /\ told' = told /\ watch' = watch /\
      generation' = generation /\ tokenHash' = tokenHash /\ password' = password /\
      writes' = writes /\ passwordFile' = passwordFile
  BY DEF Login, files, creds, table, Admit
<1>A. CASE Counted(r) > 0
  <2>1. y = [Done EXCEPT !.pc = "enter", !.kind = way, !.remote = r, !.cred = cred]
    BY <1>1, <1>2, <1>A DEF Login, AuthInv, Shape, Admit
  <2>2. DOMAIN y = ReqFields /\ y.pc = "enter" /\ y.kind = way /\ y.remote = r /\
        y.cred = cred /\ y.checked = 0 /\ y.val = None /\ y.mod = None /\
        y.exists = FALSE /\ y.drop = {}
    BY <1>2, <2>1 DEF ReqFields, Done
  <2>3. Thinned({})
    BY <1>A, SameSessions DEF Login, table
  <2>4. Shows(y)
    BY <1>2, <2>2, <1>A DEF Shows
  <2>5. ReqStamped(y)
    BY <1>2, <2>2 DEF ReqStamped
  <2>6. Stamped'
    BY <1>1, <1>3, <1>4, <2>5, StampedKept DEF AuthInv
  <2>7. TakenOne(r)
    BY AdmitTakes DEF Login
  <2>8. DOMAIN limiter' = LimiterFields
    BY <2>7 DEF TakenOne
  <2>9. Accounted'
    BY <1>1, <1>2, <1>3, <2>2, <2>7, AttemptBegins, <1>A DEF Held, TakenOne, AuthInv
  <2> QED
    BY <1>1, <1>2, <1>3, <1>4, <2>2, <2>3, <2>4, <2>6, <2>9, <2>8, HandlerStep
<1>B. CASE ~(Counted(r) > 0)
  <2>1. y = [Done EXCEPT !.pc = "compare", !.kind = way, !.remote = r, !.cred = cred]
    BY <1>1, <1>2, <1>B DEF Login, AuthInv, Shape, Admit
  <2>2. DOMAIN y = ReqFields /\ y.pc = "compare" /\ y.kind = way /\ y.remote = r /\
        y.cred = cred /\ y.checked = 0 /\ y.val = None /\ y.mod = None /\
        y.exists = FALSE /\ y.drop = {}
    BY <1>2, <2>1 DEF ReqFields, Done
  <2>3. Thinned({})
    BY <1>B, SameSessions DEF Login, table
  <2>4. Shows(y)
    BY <1>2, <2>2, <1>B DEF Shows
  <2>5. ReqStamped(y)
    BY <1>2, <2>2 DEF ReqStamped
  <2>6. Stamped'
    BY <1>1, <1>3, <1>4, <2>5, StampedKept DEF AuthInv
  <2>7. TakenOne(r)
    BY AdmitTakes DEF Login
  <2>8. DOMAIN limiter' = LimiterFields
    BY <2>7 DEF TakenOne
  <2>9. Accounted'
    BY <1>1, <1>2, <1>3, <2>2, <2>7, AttemptBegins, <1>B DEF Held, TakenOne, AuthInv
  <2> QED
    BY <1>1, <1>2, <1>3, <1>4, <2>2, <2>3, <2>4, <2>6, <2>9, <2>8, HandlerStep
<1> QED
  BY <1>A, <1>B

LEMMA ChangePasswordStep ==
  ASSUME AuthInv, NEW h \in Handlers, NEW id, NEW r \in Remotes,
         NEW cred, ChangePassword(h, id, r, cred)
  PROVE  AuthInv'
<1>1. PICK x, y : x = req[h] /\ y = req'[h]
  OBVIOUS
<1>2. DOMAIN x = ReqFields /\ Shows(x) /\ ReqStamped(x) /\ x.drop = {} /\
      generation \in Nat /\ x.pc = "done" /\ id \in DOMAIN sessions
  BY <1>1 DEF ChangePassword, AuthInv, Shape, Proved, Stamped, Told, Admit, Alive
<1>3. DOMAIN req' = Handlers /\ \A g \in Handlers : g # h => req'[g] = req[g]
  BY DEF ChangePassword, AuthInv, Shape, Admit, Alive
<1>4. made' = made /\ now' = now /\ told' = told /\ watch' = watch /\
      generation' = generation /\ tokenHash' = tokenHash /\ password' = password /\
      writes' = writes /\ passwordFile' = passwordFile
  BY DEF ChangePassword, files, creds, table, Admit, Alive
<1>A. CASE Counted(r) > 0
  <2>1. y = [Done EXCEPT !.pc = "enter", !.kind = "change", !.remote = r, !.cred = cred]
    BY <1>1, <1>2, <1>A DEF ChangePassword, AuthInv, Shape, Admit, Alive
  <2>2. DOMAIN y = ReqFields /\ y.pc = "enter" /\ y.kind = "change" /\ y.remote = r /\
        y.cred = cred /\ y.checked = 0 /\ y.val = None /\ y.mod = None /\
        y.exists = FALSE /\ y.drop = {}
    BY <1>2, <2>1 DEF ReqFields, Done
  <2>3. Thinned({})
    BY <1>A, TouchedSession, <1>2 DEF ChangePassword, table
  <2>4. Shows(y)
    BY <1>2, <2>2, <1>A DEF Shows
  <2>5. ReqStamped(y)
    BY <1>2, <2>2 DEF ReqStamped
  <2>6. Stamped'
    BY <1>1, <1>3, <1>4, <2>5, StampedKept DEF AuthInv
  <2>7. TakenOne(r)
    BY AdmitTakes DEF ChangePassword
  <2>8. DOMAIN limiter' = LimiterFields
    BY <2>7 DEF TakenOne
  <2>9. Accounted'
    BY <1>1, <1>2, <1>3, <2>2, <2>7, AttemptBegins, <1>A DEF Held, TakenOne, AuthInv
  <2> QED
    BY <1>1, <1>2, <1>3, <1>4, <2>2, <2>3, <2>4, <2>6, <2>9, <2>8, HandlerStep
<1>B. CASE ~(Counted(r) > 0)
  <2>1. y = [Done EXCEPT !.pc = "compare", !.kind = "change", !.remote = r, !.cred = cred]
    BY <1>1, <1>2, <1>B DEF ChangePassword, AuthInv, Shape, Admit, Alive
  <2>2. DOMAIN y = ReqFields /\ y.pc = "compare" /\ y.kind = "change" /\ y.remote = r /\
        y.cred = cred /\ y.checked = 0 /\ y.val = None /\ y.mod = None /\
        y.exists = FALSE /\ y.drop = {}
    BY <1>2, <2>1 DEF ReqFields, Done
  <2>3. Thinned({})
    BY <1>B, TouchedSession, <1>2 DEF ChangePassword, table
  <2>4. Shows(y)
    BY <1>2, <2>2, <1>B DEF Shows
  <2>5. ReqStamped(y)
    BY <1>2, <2>2 DEF ReqStamped
  <2>6. Stamped'
    BY <1>1, <1>3, <1>4, <2>5, StampedKept DEF AuthInv
  <2>7. TakenOne(r)
    BY AdmitTakes DEF ChangePassword
  <2>8. DOMAIN limiter' = LimiterFields
    BY <2>7 DEF TakenOne
  <2>9. Accounted'
    BY <1>1, <1>2, <1>3, <2>2, <2>7, AttemptBegins, <1>B DEF Held, TakenOne, AuthInv
  <2> QED
    BY <1>1, <1>2, <1>3, <1>4, <2>2, <2>3, <2>4, <2>6, <2>9, <2>8, HandlerStep
<1> QED
  BY <1>A, <1>B

----------------------------------------------------------------------------
(* The n oldest sessions exist: each has as many sessions before it as its *)
(* place in the order says, so the places are those from 0 on, each taken  *)
(* once.                                                                   *)
Older(ss, d, k) ==
  \/ ss[d].created < ss[k].created
  \/ ss[d].created = ss[k].created /\ d < k

Ahead(ss, d) == {k \in DOMAIN ss : Older(ss, k, d)}

LEMMA OldestExist ==
  ASSUME NEW ss, IsFiniteSet(DOMAIN ss), DOMAIN ss \subseteq Nat,
         \A id \in DOMAIN ss : ss[id].created \in Nat,
         NEW n \in Nat, n <= Cardinality(DOMAIN ss)
  PROVE  \E D \in kSubset(n, DOMAIN ss) : \A d \in D, k \in DOMAIN ss \ D : Older(ss, d, k)
<1> DEFINE S == DOMAIN ss
           N == Cardinality(S)
           rank == [d \in S |-> Cardinality(Ahead(ss, d))]
           D == {d \in S : rank[d] < n}
<1>1. \A d \in S : IsFiniteSet(Ahead(ss, d)) /\ Cardinality(Ahead(ss, d)) \in Nat
  <2> TAKE d \in S
  <2>1. Ahead(ss, d) \in SUBSET S
    BY DEF Ahead
  <2> QED
    BY <2>1, FS_Subset, FS_CardinalityType
<1>2. \A d, k \in S : d # k => Older(ss, d, k) \/ Older(ss, k, d)
  BY DEF Older
<1>3. ASSUME NEW d \in S, NEW k \in S, Older(ss, d, k)
      PROVE  rank[d] < rank[k]
  <2>1. Ahead(ss, d) \in SUBSET Ahead(ss, k)
    BY <1>3 DEF Ahead, Older
  <2>2. d \in Ahead(ss, k) /\ d \notin Ahead(ss, d)
    BY <1>3 DEF Ahead, Older
  <2>3. /\ Cardinality(Ahead(ss, d)) <= Cardinality(Ahead(ss, k))
        /\ Cardinality(Ahead(ss, k)) = Cardinality(Ahead(ss, d)) => Ahead(ss, k) = Ahead(ss, d)
    BY <1>1, <2>1, FS_Subset
  <2>4. Cardinality(Ahead(ss, k)) # Cardinality(Ahead(ss, d))
    BY <2>2, <2>3
  <2> QED
    BY <1>1, <2>3, <2>4
<1>4. N \in Nat
  BY FS_CardinalityType
<1>5. \A d \in S : rank[d] \in 0..(N - 1)
  <2> TAKE d \in S
  <2>1. Ahead(ss, d) \in SUBSET S /\ d \notin Ahead(ss, d)
    BY DEF Ahead, Older
  <2>2. Cardinality(Ahead(ss, d)) <= N /\ (N = Cardinality(Ahead(ss, d)) => S = Ahead(ss, d))
    BY <2>1, FS_Subset
  <2>3. N # Cardinality(Ahead(ss, d))
    BY <2>1, <2>2
  <2> QED
    BY <1>1, <1>4, <2>2, <2>3
<1>6. \A d, k \in S : rank[d] = rank[k] => d = k
  <2> SUFFICES ASSUME NEW d \in S, NEW k \in S, d # k PROVE rank[d] # rank[k]
    OBVIOUS
  <2>1. rank[d] \in Nat /\ rank[k] \in Nat
    BY <1>1
  <2>2. rank[d] < rank[k] \/ rank[k] < rank[d]
    BY <1>2, <1>3
  <2> QED
    BY <2>1, <2>2
<1>7. rank \in Injection(S, 0..(N - 1))
  <2>1. rank \in [S -> 0..(N - 1)]
    BY <1>5
  <2> QED
    BY <1>6, <2>1, Fun_IsInj
<1>8. IsFiniteSet(0..(N - 1)) /\ Cardinality(0..(N - 1)) = N
  <2>1. 0 \in Int /\ N - 1 \in Int
    BY <1>4
  <2>2. IsFiniteSet(0..(N - 1)) /\ Cardinality(0..(N - 1)) = IF 0 > N - 1 THEN 0 ELSE (N - 1) - 0 + 1
    BY <2>1, FS_Interval
  <2> QED
    BY <1>4, <2>2
<1>9. rank \in Surjection(S, 0..(N - 1))
  BY <1>7, <1>8, FS_Injection
<1>10. \A t \in 0..(N - 1) : \E d \in S : rank[d] = t
  <2> HIDE DEF rank, S, N
  <2> QED
    BY <1>9, Fun_SurjectionProperties
<1> DEFINE low == [d \in D |-> rank[d]]
<1>11. low \in [D -> 0..(n - 1)]
  BY <1>1
<1>12. \A t \in 0..(n - 1) : \E d \in D : low[d] = t
  <2> TAKE t \in 0..(n - 1)
  <2>1. t \in 0..(N - 1) /\ t < n
    BY <1>4
  <2>2. PICK d \in S : rank[d] = t
    BY <1>10, <2>1
  <2>3. d \in D /\ low[d] = t
    BY <2>1, <2>2
  <2> QED
    BY <2>3
<1>13. \A d, k \in D : low[d] = low[k] => d = k
  BY <1>6
<1>14. low \in Bijection(D, 0..(n - 1))
  BY <1>11, <1>12, <1>13, Fun_IsBij
<1>15. D \in SUBSET S /\ IsFiniteSet(D)
  BY FS_Subset
<1>16. Cardinality(0..(n - 1)) = n
  <2>1. 0 \in Int /\ n - 1 \in Int
    OBVIOUS
  <2>2. Cardinality(0..(n - 1)) = IF 0 > n - 1 THEN 0 ELSE (n - 1) - 0 + 1
    BY <2>1, FS_Interval
  <2> QED
    BY <2>2
<1>17. Cardinality(D) = n
  <2>1. ExistsBijection(D, 0..(n - 1))
    BY <1>14 DEF ExistsBijection
  <2> QED
    BY <1>15, <1>16, <2>1, FS_Bijection
<1>18. D \in kSubset(n, S)
  BY <1>15, <1>17 DEF kSubset
<1>19. ASSUME NEW d \in D, NEW k \in S \ D PROVE Older(ss, d, k)
  <2>1. rank[d] < n /\ ~(rank[k] < n) /\ rank[d] \in Nat /\ rank[k] \in Nat
    BY <1>1
  <2>2. ~(rank[k] < rank[d]) /\ d # k
    BY <2>1
  <2> QED
    BY <1>2, <1>3, <2>2
<1> QED
  BY <1>18, <1>19

LEMMA SurplusIsInTable ==
  ASSUME NEW ss, IsFiniteSet(DOMAIN ss), DOMAIN ss \subseteq Nat,
         \A id \in DOMAIN ss : ss[id].created \in Nat
  PROVE  Surplus(ss) \subseteq DOMAIN ss
<1> DEFINE n == IF Cardinality(DOMAIN ss) < MaxSessions THEN 0
                ELSE Cardinality(DOMAIN ss) - MaxSessions + 1
<1>1. Cardinality(DOMAIN ss) \in Nat /\ MaxSessions \in Nat /\ MaxSessions > 0
  BY FS_CardinalityType, AuthAssumption
<1>2. n \in Nat /\ n <= Cardinality(DOMAIN ss)
  BY <1>1
<1> HIDE DEF n
<1>3. \E D \in kSubset(n, DOMAIN ss) : \A d \in D, k \in DOMAIN ss \ D : Older(ss, d, k)
  BY <1>2, OldestExist
<1>4. Surplus(ss) = CHOOSE D \in kSubset(n, DOMAIN ss) :
                      \A d \in D, k \in DOMAIN ss \ D : Older(ss, d, k)
  BY DEF Surplus, n, Older
<1>5. Surplus(ss) \in kSubset(n, DOMAIN ss)
  BY <1>3, <1>4
<1> QED
  BY <1>5 DEF kSubset

(* A new session takes its place: those it pushes out are told of, and it  *)
(* has proved what its login had.                                          *)
LEMMA InsertSessionStep ==
  ASSUME AuthInv, NEW h \in Handlers, NEW cookie, InsertSession(h, cookie)
  PROVE  AuthInv'
<1>1. PICK x, y, old, s : /\ x = req[h] /\ y = req'[h] /\ old = cookie \cap DOMAIN sessions
        /\ s = [generation |-> generation, created |-> now, used |-> now, kind |-> x.kind,
                cred |-> x.cred, checked |-> x.checked]
  OBVIOUS
<1>2. PICK kept, drop : kept = Without(old) /\ drop = old \cup Surplus(kept)
  OBVIOUS
<1>3. /\ x.pc = "insert" /\ Shows(x) /\ x.drop = {} /\ generation \in Nat
      /\ made \in Nat /\ now \in Nat /\ DOMAIN sessions \subseteq 1..made
      /\ \A id \in DOMAIN sessions : sessions[id].created \in Nat
  BY <1>1 DEF InsertSession, AuthInv, Proved, Told
<1>4. /\ sessions' = With(Without(drop), made + 1, s) /\ made' = made + 1
      /\ req' = [req EXCEPT ![h] = [Done EXCEPT !.pc = "fire", !.drop = drop]]
      /\ now' = now /\ told' = told /\ watch' = watch /\ generation' = generation
      /\ tokenHash' = tokenHash /\ password' = password /\ limiter' = limiter
      /\ writes' = writes /\ passwordFile' = passwordFile
  BY <1>1, <1>2 DEF InsertSession, files, creds
<1>5. DOMAIN req' = Handlers /\ \A g \in Handlers : g # h => req'[g] = req[g]
  BY <1>4 DEF AuthInv, Shape
<1>6. y = [Done EXCEPT !.pc = "fire", !.drop = drop]
  BY <1>1, <1>4 DEF AuthInv, Shape
<1>7. /\ DOMAIN y = ReqFields /\ y.pc = "fire" /\ y.kind = "none" /\ y.cred = None
      /\ y.checked = 0 /\ y.drop = drop
  BY <1>6 DEF ReqFields, Done
<1>8. drop \subseteq DOMAIN sessions
  <2>1. DOMAIN kept = DOMAIN sessions \ old /\ \A k \in DOMAIN kept : kept[k] = sessions[k]
    BY <1>2 DEF Without, Restrict
  <2>2. IsFiniteSet(DOMAIN sessions)
    <3>1. IsFiniteSet(1..made)
      BY <1>3, FS_Interval
    <3> QED
      BY <1>3, <3>1, FS_Subset
  <2>3. IsFiniteSet(DOMAIN kept) /\ DOMAIN kept \subseteq Nat
    BY <1>3, <2>1, <2>2, FS_Subset
  <2>4. \A k \in DOMAIN kept : kept[k].created \in Nat
    BY <1>3, <2>1
  <2>5. Surplus(kept) \subseteq DOMAIN kept
    BY <2>3, <2>4, SurplusIsInTable
  <2> QED
    BY <1>1, <1>2, <2>1, <2>5
<1>9. /\ DOMAIN sessions' = (DOMAIN sessions \ drop) \cup {made + 1}
      /\ sessions'[made + 1] = s
      /\ \A id \in DOMAIN sessions \ drop : id # made + 1 => sessions'[id] = sessions[id]
  BY <1>4 DEF With, Without, Restrict
<1>10. made + 1 \notin DOMAIN sessions
  BY <1>3
<1>11. /\ DOMAIN s = SessionFields /\ s.generation = generation /\ s.created = now
       /\ s.kind = x.kind /\ s.cred = x.cred /\ s.checked = x.checked
  BY <1>1 DEF SessionFields
<1>12. Shape'
  <2>1. \A id \in DOMAIN sessions' : DOMAIN sessions'[id] = SessionFields
    BY <1>9, <1>11 DEF AuthInv, Shape
  <2> QED
    BY <1>1, <1>4, <1>5, <1>7, <2>1 DEF AuthInv, Shape
<1>13. Proved'
  <2>1. Shows(y)
    BY <1>3, <1>7 DEF Shows
  <2>2. \A g \in Handlers : Shows(req[g])'
    BY <1>1, <1>4, <1>5, <2>1 DEF AuthInv, Proved, Shows
  <2>3. \/ s.checked < s.generation
        \/ s.kind = "token" /\ s.cred = tokenHash
        \/ s.kind = "password" /\ s.cred = password.hash
    BY <1>3, <1>11 DEF Shows
  <2>4. SessionsProveCredential'
    BY <1>4, <1>9, <2>3 DEF AuthInv, Proved, SessionsProveCredential
  <2> QED
    BY <1>4, <2>2, <2>4 DEF AuthInv, Proved
<1>14. Told'
  <2>1. \A id : Pending(id)' <=> Pending(id) \/ id \in drop
    BY <1>1, <1>3, <1>4, <1>5, <1>7 DEF Pending
  <2>2. \A id : Pending(id) <=> id \in 1..made /\ id \notin DOMAIN sessions
    BY EndsTold DEF AuthInv, Told
  <2>3. \A id : id \in 1..made' <=> id \in 1..made \/ id = made + 1
    BY <1>3, <1>4
  <2>4. made + 1 \notin 1..made
    BY <1>3
  <2>5. \A id : Pending(id)' <=> id \in 1..made' /\ id \notin DOMAIN sessions'
    BY <1>3, <1>8, <1>9, <2>1, <2>2, <2>3, <2>4
  <2>6. EveryEndIsTold'
    BY <2>5, EndsTold1
  <2>7. made' \in Nat /\ now' \in Nat /\ DOMAIN sessions' \subseteq 1..made'
    BY <1>3, <1>4, <1>9, <2>3
  <2>8. \A id \in DOMAIN sessions' : sessions'[id].created \in Nat
    BY <1>3, <1>9, <1>11
  <2>9. \A g \in Handlers : req'[g].pc # "fire" => req'[g].drop = {}
    BY <1>1, <1>5, <1>7 DEF AuthInv, Told
  <2> QED
    BY <1>4, <2>6, <2>7, <2>8, <2>9 DEF AuthInv, Told
<1>15. Accounted'
  BY <1>1, <1>3, <1>4, <1>5, <1>7, AccountedKept DEF AuthInv, Held
<1>16. Stamped'
  BY <1>1, <1>4, <1>5, <1>7, StampedKept DEF AuthInv, ReqStamped
<1> QED
  BY <1>12, <1>13, <1>14, <1>15, <1>16 DEF AuthInv

(* The hub is told: what was about to be told has been.                    *)
LEMMA FireInvalidatedStep ==
  ASSUME AuthInv, NEW h \in Handlers, FireInvalidated(h)
  PROVE  AuthInv'
<1>1. PICK x, y : x = req[h] /\ y = req'[h]
  OBVIOUS
<1>2. x.pc = "fire" /\ generation \in Nat
  BY <1>1 DEF FireInvalidated, AuthInv, Proved
<1>3. /\ sessions' = sessions /\ made' = made
      /\ now' = now /\ told' = told \cup x.drop /\ watch' = watch /\ generation' = generation
      /\ tokenHash' = tokenHash /\ password' = password /\ limiter' = limiter
      /\ writes' = writes /\ passwordFile' = passwordFile
  BY <1>1 DEF FireInvalidated, files, creds, table
<1>4. DOMAIN req' = Handlers /\ \A g \in Handlers : g # h => req'[g] = req[g]
  BY DEF FireInvalidated, AuthInv, Shape
<1>5. y = Done
  BY <1>1 DEF FireInvalidated, AuthInv, Shape
<1>6. DOMAIN y = ReqFields /\ y.pc = "done" /\ y.kind = "none" /\ y.checked = 0 /\ y.drop = {}
  BY <1>5 DEF ReqFields, Done
<1>7. Shape'
  BY <1>1, <1>3, <1>4, <1>6 DEF AuthInv, Shape
<1>8. Shows(y)
  BY <1>2, <1>6 DEF Shows
<1>9. Proved'
  BY <1>1, <1>3, <1>4, <1>8, ProvedKept DEF AuthInv, SameProof
<1>10. Told'
  <2>1. \A id : Pending(id)' <=> Pending(id)
    BY <1>1, <1>3, <1>4, <1>6 DEF Pending
  <2>2. EveryEndIsTold'
    BY <1>3, <2>1, EndsTold, EndsTold1 DEF AuthInv, Told
  <2>3. \A g \in Handlers : req'[g].pc # "fire" => req'[g].drop = {}
    BY <1>1, <1>4, <1>6 DEF AuthInv, Told
  <2> QED
    BY <1>3, <2>2, <2>3 DEF AuthInv, Told
<1>11. Accounted'
  BY <1>1, <1>2, <1>3, <1>4, <1>6, AccountedKept DEF AuthInv, Held
<1>12. Stamped'
  BY <1>1, <1>3, <1>4, <1>6, StampedKept DEF AuthInv, ReqStamped
<1> QED
  BY <1>7, <1>9, <1>10, <1>11, <1>12 DEF AuthInv

(* The watcher reads the files.                                            *)
LEMMA StatTokenStep ==
  ASSUME AuthInv, StatToken
  PROVE  AuthInv'
<1>1. PICK w : w = watch'
  OBVIOUS
<1>2. DOMAIN watch = WatchFields /\ watch.pc = "rest" /\ watch.drop = {} /\ WatchStamped(watch)
  BY DEF StatToken, AuthInv, Shape, Told, Stamped, WatchAt, Announces
<1>3. made' = made /\ now' = now /\ told' = told /\ req' = req /\
      generation' = generation /\ tokenHash' = tokenHash /\ password' = password /\
      limiter' = limiter /\ writes' = writes /\ passwordFile' = passwordFile /\
      sessions' = sessions
  BY DEF StatToken, WatchOnly, files, creds, table
<1>A. CASE tokenFile = tokenMod
  <2>1. w = [Resting EXCEPT !.pc = "password"]
    BY <1>1, <1>2, <1>A DEF StatToken, WatchAt
  <2>2. DOMAIN w = WatchFields /\ w.pc = "password" /\ w.val = None /\ w.mod = None /\
        w.stat = None /\ w.exists = FALSE /\ w.drop = {}
    BY <1>2, <2>1 DEF WatchFields, Resting
  <2>3. WatchStamped(w)
    BY <1>2, <2>2, <1>A DEF WatchStamped
  <2>4. Thinned({})
    BY <1>3, SameSessions
  <2> QED
    BY <1>1, <1>2, <1>3, <2>2, <2>3, <2>4, WatcherStep
<1>B. CASE tokenFile # tokenMod
  <2>1. w = [Resting EXCEPT !.pc = "statToken"]
    BY <1>1, <1>2, <1>B DEF StatToken, WatchAt
  <2>2. DOMAIN w = WatchFields /\ w.pc = "statToken" /\ w.val = None /\ w.mod = None /\
        w.stat = None /\ w.exists = FALSE /\ w.drop = {}
    BY <1>2, <2>1 DEF WatchFields, Resting
  <2>3. WatchStamped(w)
    BY <1>2, <2>2, <1>B DEF WatchStamped
  <2>4. Thinned({})
    BY <1>3, SameSessions
  <2> QED
    BY <1>1, <1>2, <1>3, <2>2, <2>3, <2>4, WatcherStep
<1> QED
  BY <1>A, <1>B

LEMMA RestatTokenStep ==
  ASSUME AuthInv, RestatToken
  PROVE  AuthInv'
<1>1. PICK w : w = watch'
  OBVIOUS
<1>2. DOMAIN watch = WatchFields /\ watch.pc = "statToken" /\ watch.drop = {} /\ WatchStamped(watch)
  BY DEF RestatToken, AuthInv, Shape, Told, Stamped, WatchAt, Announces
<1>3. made' = made /\ now' = now /\ told' = told /\ req' = req /\
      generation' = generation /\ tokenHash' = tokenHash /\ password' = password /\
      limiter' = limiter /\ writes' = writes /\ passwordFile' = passwordFile /\
      sessions' = sessions
  BY DEF RestatToken, WatchOnly, files, creds, table
<1>4. w = [watch EXCEPT !.pc = "readToken", !.mod = tokenFile]
  BY <1>1, <1>2 DEF RestatToken, WatchAt
<1>5. DOMAIN w = WatchFields /\ w.pc = "readToken" /\ w.val = watch.val /\
      w.mod = tokenFile /\ w.stat = watch.stat /\ w.exists = watch.exists /\
      w.cur = watch.cur /\ w.drop = watch.drop
  BY <1>2, <1>4 DEF WatchFields, Resting
<1>6. WatchStamped(w)
  BY <1>2, <1>5 DEF WatchStamped
<1>7. Thinned({})
  BY <1>3, SameSessions
<1> QED
  BY <1>1, <1>2, <1>3, <1>5, <1>6, <1>7, WatcherStep

LEMMA ReadTokenStep ==
  ASSUME AuthInv, NEW ok \in BOOLEAN, ReadToken(ok)
  PROVE  AuthInv'
<1>1. PICK w : w = watch'
  OBVIOUS
<1>2. DOMAIN watch = WatchFields /\ watch.pc = "readToken" /\ watch.drop = {} /\ WatchStamped(watch)
  BY DEF ReadToken, AuthInv, Shape, Told, Stamped, WatchAt, Announces
<1>3. made' = made /\ now' = now /\ told' = told /\ req' = req /\
      generation' = generation /\ tokenHash' = tokenHash /\ password' = password /\
      limiter' = limiter /\ writes' = writes /\ passwordFile' = passwordFile /\
      sessions' = sessions
  BY DEF ReadToken, WatchOnly, files, creds, table
<1>A. CASE ok
  <2>1. w = [watch EXCEPT !.pc = "applyToken", !.val = tokenFile]
    BY <1>1, <1>2, <1>A DEF ReadToken, WatchAt
  <2>2. DOMAIN w = WatchFields /\ w.pc = "applyToken" /\ w.val = tokenFile /\
        w.mod = watch.mod /\ w.stat = watch.stat /\ w.exists = watch.exists /\
        w.cur = watch.cur /\ w.drop = watch.drop
    BY <1>2, <2>1 DEF WatchFields, Resting
  <2>3. WatchStamped(w)
    BY <1>2, <2>2, <1>A DEF WatchStamped
  <2>4. Thinned({})
    BY <1>3, SameSessions
  <2> QED
    BY <1>1, <1>2, <1>3, <2>2, <2>3, <2>4, WatcherStep
<1>B. CASE ~ok
  <2>1. w = [Resting EXCEPT !.pc = "password"]
    BY <1>1, <1>2, <1>B DEF ReadToken, WatchAt
  <2>2. DOMAIN w = WatchFields /\ w.pc = "password" /\ w.val = None /\ w.mod = None /\
        w.stat = None /\ w.exists = FALSE /\ w.drop = {}
    BY <1>2, <2>1 DEF WatchFields, Resting
  <2>3. WatchStamped(w)
    BY <1>2, <2>2, <1>B DEF WatchStamped
  <2>4. Thinned({})
    BY <1>3, SameSessions
  <2> QED
    BY <1>1, <1>2, <1>3, <2>2, <2>3, <2>4, WatcherStep
<1> QED
  BY <1>A, <1>B

LEMMA SnapPasswordStep ==
  ASSUME AuthInv, SnapPassword
  PROVE  AuthInv'
<1>1. PICK w : w = watch'
  OBVIOUS
<1>2. DOMAIN watch = WatchFields /\ watch.pc = "password" /\ watch.drop = {} /\ WatchStamped(watch)
  BY DEF SnapPassword, AuthInv, Shape, Told, Stamped, WatchAt, Announces
<1>3. made' = made /\ now' = now /\ told' = told /\ req' = req /\
      generation' = generation /\ tokenHash' = tokenHash /\ password' = password /\
      limiter' = limiter /\ writes' = writes /\ passwordFile' = passwordFile /\
      sessions' = sessions
  BY DEF SnapPassword, WatchOnly, files, creds, table
<1>4. w = [Resting EXCEPT !.pc = "statPassword", !.cur = password]
  BY <1>1, <1>2 DEF SnapPassword, WatchAt
<1>5. DOMAIN w = WatchFields /\ w.pc = "statPassword" /\ w.val = None /\ w.mod = None /\
      w.stat = None /\ w.exists = FALSE /\ w.cur = password /\ w.drop = {}
  BY <1>2, <1>4 DEF WatchFields, Resting
<1>6. WatchStamped(w)
  BY <1>2, <1>5 DEF WatchStamped
<1>7. Thinned({})
  BY <1>3, SameSessions
<1> QED
  BY <1>1, <1>2, <1>3, <1>5, <1>6, <1>7, WatcherStep

LEMMA StatPasswordStep ==
  ASSUME AuthInv, NEW ok \in BOOLEAN, StatPassword(ok)
  PROVE  AuthInv'
<1>1. PICK w : w = watch'
  OBVIOUS
<1>2. DOMAIN watch = WatchFields /\ watch.pc = "statPassword" /\ watch.drop = {} /\ WatchStamped(watch)
  BY DEF StatPassword, AuthInv, Shape, Told, Stamped, WatchAt, Announces
<1>3. made' = made /\ now' = now /\ told' = told /\ req' = req /\
      generation' = generation /\ tokenHash' = tokenHash /\ password' = password /\
      limiter' = limiter /\ writes' = writes /\ passwordFile' = passwordFile /\
      sessions' = sessions
  BY DEF StatPassword, WatchOnly, files, creds, table
<1>A. CASE ~ok \/ ((passwordFile.is # "none") = watch.cur.exists
            /\ (passwordFile.is # "none" => passwordFile.n = watch.cur.mod))
  <2>1. w = [Resting EXCEPT !.pc = "sweep"]
    BY <1>1, <1>2, <1>A DEF StatPassword, WatchAt
  <2>2. DOMAIN w = WatchFields /\ w.pc = "sweep" /\ w.val = None /\ w.mod = None /\
        w.stat = None /\ w.exists = FALSE /\ w.drop = {}
    BY <1>2, <2>1 DEF WatchFields, Resting
  <2>3. WatchStamped(w)
    BY <1>2, <2>2, <1>A DEF WatchStamped
  <2>4. Thinned({})
    BY <1>3, SameSessions
  <2> QED
    BY <1>1, <1>2, <1>3, <2>2, <2>3, <2>4, WatcherStep
<1>B. CASE ok /\ ~((passwordFile.is # "none") = watch.cur.exists
            /\ (passwordFile.is # "none" => passwordFile.n = watch.cur.mod)) /\ passwordFile.is # "none"
  <2>1. w = [watch EXCEPT !.pc = "restat", !.exists = TRUE, !.stat = passwordFile.n]
    BY <1>1, <1>2, <1>B DEF StatPassword, WatchAt
  <2>2. DOMAIN w = WatchFields /\ w.pc = "restat" /\ w.val = watch.val /\
        w.mod = watch.mod /\ w.stat = passwordFile.n /\ w.exists = TRUE /\
        w.cur = watch.cur /\ w.drop = watch.drop
    BY <1>2, <2>1 DEF WatchFields, Resting
  <2>3. WatchStamped(w)
    BY <1>2, <2>2, <1>B DEF WatchStamped, Read, Fits, AuthInv, Stamped
  <2>4. Thinned({})
    BY <1>3, SameSessions
  <2> QED
    BY <1>1, <1>2, <1>3, <2>2, <2>3, <2>4, WatcherStep
<1>C. CASE ok /\ ~((passwordFile.is # "none") = watch.cur.exists
            /\ (passwordFile.is # "none" => passwordFile.n = watch.cur.mod)) /\ passwordFile.is = "none"
  <2>1. w = [watch EXCEPT !.pc = "applyPassword", !.exists = FALSE, !.stat = passwordFile.n]
    BY <1>1, <1>2, <1>C DEF StatPassword, WatchAt
  <2>2. DOMAIN w = WatchFields /\ w.pc = "applyPassword" /\ w.val = watch.val /\
        w.mod = watch.mod /\ w.stat = passwordFile.n /\ w.exists = FALSE /\
        w.cur = watch.cur /\ w.drop = watch.drop
    BY <1>2, <2>1 DEF WatchFields, Resting
  <2>3. WatchStamped(w)
    BY <1>2, <2>2, <1>C DEF WatchStamped, Read, Fits, AuthInv, Stamped
  <2>4. Thinned({})
    BY <1>3, SameSessions
  <2> QED
    BY <1>1, <1>2, <1>3, <2>2, <2>3, <2>4, WatcherStep
<1> QED
  BY <1>A, <1>B, <1>C

LEMMA WatchRestatStep ==
  ASSUME AuthInv, WatchRestat
  PROVE  AuthInv'
<1>1. PICK w : w = watch'
  OBVIOUS
<1>2. DOMAIN watch = WatchFields /\ watch.pc = "restat" /\ watch.drop = {} /\ WatchStamped(watch)
  BY DEF WatchRestat, AuthInv, Shape, Told, Stamped, WatchAt, Announces
<1>3. made' = made /\ now' = now /\ told' = told /\ req' = req /\
      generation' = generation /\ tokenHash' = tokenHash /\ password' = password /\
      limiter' = limiter /\ writes' = writes /\ passwordFile' = passwordFile /\
      sessions' = sessions
  BY DEF WatchRestat, WatchOnly, files, creds, table
<1>4. w = [watch EXCEPT !.pc = "readPassword", !.mod = passwordFile.n]
  BY <1>1, <1>2 DEF WatchRestat, WatchAt
<1>5. DOMAIN w = WatchFields /\ w.pc = "readPassword" /\ w.val = watch.val /\
      w.mod = passwordFile.n /\ w.stat = watch.stat /\ w.exists = watch.exists /\
      w.cur = watch.cur /\ w.drop = watch.drop
  BY <1>2, <1>4 DEF WatchFields, Resting
<1>6. WatchStamped(w)
  BY <1>2, <1>5 DEF WatchStamped, Read, Fits, AuthInv, Stamped
<1>7. Thinned({})
  BY <1>3, SameSessions
<1> QED
  BY <1>1, <1>2, <1>3, <1>5, <1>6, <1>7, WatcherStep

LEMMA ReadPasswordStep ==
  ASSUME AuthInv, NEW opens \in BOOLEAN, ReadPassword(opens)
  PROVE  AuthInv'
<1>1. PICK w : w = watch'
  OBVIOUS
<1>2. DOMAIN watch = WatchFields /\ watch.pc = "readPassword" /\ watch.drop = {} /\ WatchStamped(watch)
  BY DEF ReadPassword, AuthInv, Shape, Told, Stamped, WatchAt, Announces
<1>3. made' = made /\ now' = now /\ told' = told /\ req' = req /\
      generation' = generation /\ tokenHash' = tokenHash /\ password' = password /\
      limiter' = limiter /\ writes' = writes /\ passwordFile' = passwordFile /\
      sessions' = sessions
  BY DEF ReadPassword, WatchOnly, files, creds, table
<1>A. CASE opens /\ watch.mod # None /\ passwordFile.is = "hash"
  <2>1. w = [watch EXCEPT !.pc = "applyPassword", !.val = passwordFile.n, !.mod = watch.mod]
    BY <1>1, <1>2, <1>A DEF ReadPassword, WatchAt
  <2>2. DOMAIN w = WatchFields /\ w.pc = "applyPassword" /\ w.val = passwordFile.n /\
        w.mod = watch.mod /\ w.stat = watch.stat /\ w.exists = watch.exists /\
        w.cur = watch.cur /\ w.drop = watch.drop
    BY <1>2, <2>1 DEF WatchFields, Resting
  <2>3. WatchStamped(w)
    BY <1>2, <2>2, <1>A DEF WatchStamped, Read, Fits, AuthInv, Stamped
  <2>4. Thinned({})
    BY <1>3, SameSessions
  <2> QED
    BY <1>1, <1>2, <1>3, <2>2, <2>3, <2>4, WatcherStep
<1>B. CASE ~(opens /\ watch.mod # None /\ passwordFile.is = "hash")
  <2>1. w = [watch EXCEPT !.pc = "applyPassword", !.val = None, !.mod = watch.stat]
    BY <1>1, <1>2, <1>B DEF ReadPassword, WatchAt
  <2>2. DOMAIN w = WatchFields /\ w.pc = "applyPassword" /\ w.val = None /\
        w.mod = watch.stat /\ w.stat = watch.stat /\ w.exists = watch.exists /\
        w.cur = watch.cur /\ w.drop = watch.drop
    BY <1>2, <2>1 DEF WatchFields, Resting
  <2>3. WatchStamped(w)
    BY <1>2, <2>2, <1>B DEF WatchStamped, Read, Fits, AuthInv, Stamped
  <2>4. Thinned({})
    BY <1>3, SameSessions
  <2> QED
    BY <1>1, <1>2, <1>3, <2>2, <2>3, <2>4, WatcherStep
<1> QED
  BY <1>A, <1>B

(* It drops the sessions that have expired.                                *)
LEMMA SweepStep ==
  ASSUME AuthInv, Sweep
  PROVE  AuthInv'
<1>1. PICK w : w = watch'
  OBVIOUS
<1>2. DOMAIN watch = WatchFields /\ watch.pc = "sweep" /\ watch.drop = {} /\ WatchStamped(watch)
  BY DEF Sweep, AuthInv, Shape, Told, Stamped, WatchAt, Announces
<1>3. made' = made /\ now' = now /\ told' = told /\ req' = req /\
      generation' = generation /\ tokenHash' = tokenHash /\ password' = password /\
      limiter' = limiter /\ writes' = writes /\ passwordFile' = passwordFile
  BY DEF Sweep, WatchOnly, files, creds, table
<1>4. PICK D : D = {id \in DOMAIN sessions : Expired(sessions[id])}
  OBVIOUS
<1>5. w = [Resting EXCEPT !.pc = "fireSweep", !.drop = D]
  BY <1>1, <1>2, <1>4 DEF Sweep, WatchAt
<1>6. DOMAIN w = WatchFields /\ w.pc = "fireSweep" /\ w.val = None /\ w.mod = None /\
      w.stat = None /\ w.exists = FALSE /\ w.drop = D
  BY <1>2, <1>5 DEF WatchFields, Resting
<1>7. WatchStamped(w)
  BY <1>2, <1>6, <1>4 DEF WatchStamped
<1>8. Thinned(D)
  BY <1>4, DroppedSessions DEF Sweep
<1> QED
  BY <1>1, <1>2, <1>3, <1>6, <1>7, <1>8, WatcherStep DEF Announces

(* It takes a credential over.                                             *)
LEMMA ApplyTokenStep ==
  ASSUME AuthInv, ApplyToken
  PROVE  AuthInv'
<1>1. PICK w : w = watch'
  OBVIOUS
<1>2. DOMAIN watch = WatchFields /\ watch.pc = "applyToken" /\ watch.drop = {}
  BY DEF ApplyToken, AuthInv, Shape, Told, WatchAt, Announces
<1>3. /\ now' = now /\ told' = told /\ req' = req /\ password' = password
      /\ limiter' = limiter /\ writes' = writes /\ passwordFile' = passwordFile
  BY DEF ApplyToken, files
<1>4. PICK D : D = IF watch.val = tokenHash THEN {} ELSE DOMAIN sessions
  OBVIOUS
<1>5. w = [Resting EXCEPT !.pc = "fireToken", !.drop = D]
  BY <1>1, <1>4 DEF ApplyToken
<1>6. DOMAIN w = WatchFields /\ w.pc = "fireToken" /\ w.drop = D
  BY <1>5 DEF WatchFields, Resting
<1>7. WatchStamped(w)
  BY <1>6 DEF WatchStamped
<1>A. CASE watch.val = tokenHash
  <2>1. sessions' = sessions /\ made' = made /\ generation' = generation /\ tokenHash' = tokenHash
    BY <1>A DEF ApplyToken, table
  <2>2. Thinned({})
    BY <2>1, SameSessions
  <2>3. D = {}
    BY <1>A, <1>4
  <2> QED
    BY <1>1, <1>2, <1>3, <1>6, <1>7, <2>1, <2>2, <2>3, WatcherStep
<1>B. CASE watch.val # tokenHash
  <2>1. invalidateAll
    BY <1>B DEF ApplyToken
  <2>2. Stamped'
    BY <1>1, <1>3, <1>7, StampedKept DEF AuthInv
  <2>3. D = DOMAIN sessions
    BY <1>B, <1>4
  <2> QED
    BY <1>1, <1>2, <1>3, <1>6, <2>1, <2>2, <2>3, WatcherCredentialStep DEF Announces
<1> QED
  BY <1>A, <1>B

LEMMA ApplyPasswordFileStep ==
  ASSUME AuthInv, ApplyPasswordFile
  PROVE  AuthInv'
<1>1. PICK w : w = watch'
  OBVIOUS
<1>2. /\ DOMAIN watch = WatchFields /\ watch.pc = "applyPassword" /\ watch.drop = {}
      /\ Read(watch.exists, watch.mod, watch.val)
  BY DEF ApplyPasswordFile, AuthInv, Shape, Told, WatchAt, Announces, Stamped, WatchStamped
<1>3. /\ now' = now /\ told' = told /\ req' = req
      /\ limiter' = limiter /\ writes' = writes /\ passwordFile' = passwordFile
      /\ password' = [hash |-> watch.val, mod |-> watch.mod, exists |-> watch.exists]
  BY DEF ApplyPasswordFile, files
<1>4. w = [Resting EXCEPT !.pc = "firePassword", !.drop = DOMAIN sessions]
  BY <1>1 DEF ApplyPasswordFile
<1>5. DOMAIN w = WatchFields /\ w.pc = "firePassword" /\ w.drop = DOMAIN sessions
  BY <1>4 DEF WatchFields, Resting
<1>6. Stamped'
  <2>1. \A m, v : Fits(m, v)' <=> Fits(m, v)
    BY <1>3 DEF Fits
  <2>2. \A g \in Handlers : ReqStamped(req[g])'
    BY <1>3, <2>1 DEF AuthInv, Stamped, ReqStamped, Read
  <2>3. WatchStamped(watch)'
    BY <1>1, <1>5 DEF WatchStamped
  <2>4. Read(password.exists, password.mod, password.hash)'
    BY <1>2, <1>3, <2>1 DEF Read
  <2> QED
    BY <1>3, <2>2, <2>3, <2>4 DEF AuthInv, Stamped
<1>7. invalidateAll
  BY DEF ApplyPasswordFile
<1> QED
  BY <1>1, <1>2, <1>3, <1>5, <1>6, <1>7, WatcherCredentialStep DEF Announces

LEMMA WatchFireStep ==
  ASSUME AuthInv, WatchFire
  PROVE  AuthInv'
<1>1. PICK w : w = watch'
  OBVIOUS
<1>2. /\ sessions' = sessions /\ made' = made
      /\ now' = now /\ told' = told \cup watch.drop /\ req' = req /\ generation' = generation
      /\ tokenHash' = tokenHash /\ password' = password /\ limiter' = limiter
      /\ writes' = writes /\ passwordFile' = passwordFile
  BY DEF WatchFire, files, creds, table
<1>3. PICK pc \in {"password", "sweep", "rest"} : w = [Resting EXCEPT !.pc = pc]
  BY <1>1 DEF WatchFire
<1>4. DOMAIN w = WatchFields /\ w.pc = pc /\ w.drop = {}
  BY <1>3 DEF WatchFields, Resting
<1>5. Shape'
  BY <1>1, <1>2, <1>4 DEF AuthInv, Shape
<1>6. Proved'
  BY <1>2, ProvedKept DEF AuthInv, SameProof
<1>7. Told'
  <2>1. \A id : Pending(id)' <=> Pending(id)
    BY <1>1, <1>2, <1>4 DEF Pending
  <2>2. EveryEndIsTold'
    BY <1>2, <2>1, EndsTold, EndsTold1 DEF AuthInv, Told
  <2> QED
    BY <1>1, <1>2, <1>4, <2>2 DEF AuthInv, Told
<1>8. Accounted'
  BY <1>2, AccountedKept DEF AuthInv
<1>9. WatchStamped(w)
  BY <1>3, <1>4 DEF WatchStamped
<1>10. Stamped'
  BY <1>1, <1>2, <1>9, StampedKept DEF AuthInv
<1> QED
  BY <1>5, <1>6, <1>7, <1>8, <1>10 DEF AuthInv

----------------------------------------------------------------------------
(* The command line, the clock and the stop                                *)

(* A step of the files or the clock alone.                                 *)
LEMMA OutsideStep ==
  ASSUME AuthInv, UNCHANGED <<creds, table, told, limiter, req, watch>>, now' \in Nat, Stamped'
  PROVE  AuthInv'
<1>1. /\ sessions' = sessions /\ made' = made /\ told' = told /\ req' = req /\ watch' = watch
      /\ generation' = generation /\ tokenHash' = tokenHash /\ password' = password
      /\ limiter' = limiter
  BY DEF creds, table
<1>2. Shape'
  BY <1>1 DEF AuthInv, Shape
<1>3. Proved'
  BY <1>1, ProvedKept DEF AuthInv, SameProof
<1>4. Told'
  BY <1>1, ToldKept DEF AuthInv
<1>5. Accounted'
  BY <1>1, AccountedKept DEF AuthInv
<1> QED
  BY <1>2, <1>3, <1>4, <1>5 DEF AuthInv

LEMMA CLIRotateStep ==
  ASSUME AuthInv, CLIRotate
  PROVE  AuthInv'
<1>1. Stamped'
  BY StampedWritten DEF AuthInv, CLIRotate, creds
<1>2. now' \in Nat
  BY DEF AuthInv, Told, CLIRotate
<1> QED
  BY <1>1, <1>2, OutsideStep DEF CLIRotate

LEMMA CLIPasswordStep ==
  ASSUME AuthInv, NEW is \in {"hash", "none", "bad"}, CLIPassword(is)
  PROVE  AuthInv'
<1>1. Stamped'
  <2>1. password' = password /\ watch' = watch /\ req' = req /\ writes' \in {writes, writes + 1}
    BY DEF CLIPassword, creds
  <2>2. CASE is = "none"
    BY <2>1, <2>2, StampedWritten DEF AuthInv, CLIPassword
  <2>3. CASE is # "none"
    BY <2>1, <2>3, StampedWritten DEF AuthInv, CLIPassword
  <2> QED
    BY <2>2, <2>3
<1>2. now' \in Nat
  BY DEF AuthInv, Told, CLIPassword
<1> QED
  BY <1>1, <1>2, OutsideStep DEF CLIPassword

LEMMA QuietStep ==
  ASSUME AuthInv, SetStopping \/ Tick \/ UNCHANGED vars
  PROVE  AuthInv'
<1>1. UNCHANGED <<creds, table, told, limiter, req, watch>> /\ UNCHANGED files
  BY DEF SetStopping, Tick, vars
<1>2. now' \in Nat
  BY DEF AuthInv, Told, SetStopping, Tick, vars
<1>3. Stamped'
  BY <1>1, StampedKept DEF AuthInv, creds, files
<1> QED
  BY <1>1, <1>2, <1>3, OutsideStep

----------------------------------------------------------------------------
LEMMA InitInv == Init => AuthInv
<1> SUFFICES ASSUME Init PROVE AuthInv
  OBVIOUS
<1>1. PICK d : d = Done
  OBVIOUS
<1>2. /\ DOMAIN d = ReqFields /\ d.pc = "done" /\ d.kind = "none" /\ d.checked = 0
      /\ d.drop = {}
  BY <1>1 DEF Done, ReqFields
<1>3. DOMAIN req = Handlers /\ \A h \in Handlers : req[h] = d
  BY <1>1 DEF Init
<1>4. /\ DOMAIN watch = WatchFields /\ watch.pc = "rest" /\ watch.drop = {}
  BY DEF Init, Resting, WatchFields
<1>5. /\ DOMAIN limiter = LimiterFields /\ limiter.remotes = <<>>
      /\ limiter.inflight = 0 /\ limiter.delayed = 0
  BY DEF Init, NewLimiter, LimiterFields
<1>6. /\ DOMAIN sessions = {} /\ made = 0 /\ told = {} /\ now = 0 /\ generation = 0
      /\ writes = 1
  BY DEF Init
<1>7. Shape
  BY <1>2, <1>3, <1>4, <1>5, <1>6 DEF Shape
<1>8. password.hash = None /\ password.mod = None /\ password.exists = FALSE
  BY DEF Init
<1>9. Proved
  BY <1>2, <1>3, <1>6, <1>8 DEF Proved, Shows, SessionsProveCredential
<1>10. Told
  <2>1. \A id : ~Pending(id)
    BY <1>2, <1>3, <1>4, <1>6 DEF Pending
  <2>2. EveryEndIsTold
    BY <1>6, <2>1, EndsTold
  <2> QED
    BY <1>2, <1>3, <1>4, <1>6, <2>2 DEF Told
<1>11. Accounted
  <2>1. Holding = {} /\ Waiting = {} /\ \A r : InFlight(r) = {}
    BY <1>2, <1>3 DEF Holding, Waiting, InFlight
  <2>2. DOMAIN limiter.remotes = {}
    BY <1>5
  <2>3. \A r : RemoteState(limiter.remotes, r).inflight = 0
    BY <2>2 DEF RemoteState, NoFails
  <2> QED
    BY <1>5, <2>1, <2>2, <2>3, FS_EmptySet DEF Accounted
<1>12. Stamped
  <2>1. passwordFile.is = "none" /\ passwordFile.n = None
    BY DEF Init
  <2>2. Read(password.exists, password.mod, password.hash)
    BY <1>6, <1>8, <2>1 DEF Read, Fits
  <2> QED
    BY <1>2, <1>3, <1>4, <1>6, <2>1, <2>2 DEF Stamped, ReqStamped, WatchStamped
<1> QED
  BY <1>7, <1>9, <1>10, <1>11, <1>12 DEF AuthInv

LEMMA ServeStep ==
  ASSUME AuthInv, NEW h \in Handlers, Serve(h)
  PROVE  AuthInv'
<1>1. CASE \E id \in 1..Logins : \/ \E api \in BOOLEAN : Lookup(h, id, api)
                                 \/ handleLogout(h, id)
                                 \/ RotateWrite(h, id)
  BY <1>1, LookupStep, handleLogoutStep, RotateWriteStep
<1>2. CASE \E r \in Remotes, cred \in 1..writes :
             \/ \E way \in {"token", "password"} : Login(h, way, r, cred)
             \/ \E id \in 1..Logins : ChangePassword(h, id, r, cred)
  BY <1>2, LoginStep, ChangePasswordStep
<1>3. CASE FireInvalidated(h)
  BY <1>3, FireInvalidatedStep
<1>4. CASE EnterDelay(h) \/ LeaveDelay(h) \/ AbandonDelay(h) \/ ReleaseAttempt(h)
  BY <1>4, EnterDelayStep, LeaveDelayStep, AbandonDelayStep, ReleaseAttemptStep
<1>5. CASE CompareToken(h) \/ TakeSlot(h) \/ AbandonSlot(h) \/ VerifyPassword(h)
  BY <1>5, CompareTokenStep, TakeSlotStep, AbandonSlotStep, VerifyPasswordStep
<1>6. CASE Fail(h) \/ Succeed(h)
  BY <1>6, FailStep, SucceedStep
<1>7. CASE \E cookie \in {{}} \cup {{id} : id \in 1..Logins} : InsertSession(h, cookie)
  BY <1>7, InsertSessionStep
<1>8. CASE \E how \in {"set", "clear", "refuse"} : WritePassword(h, how)
  BY <1>8, WritePasswordStep
<1>9. CASE RestatPassword(h) \/ ApplyPassword(h)
  BY <1>9, RestatPasswordStep, ApplyPasswordStep
<1>10. CASE \E ok \in BOOLEAN : RereadPassword(h, ok) \/ RotateStat(h, ok)
  BY <1>10, RereadPasswordStep, RotateStatStep
<1>11. CASE RotateApply(h)
  BY <1>11, RotateApplyStep
<1> QED
  BY <1>1, <1>2, <1>3, <1>4, <1>5, <1>6, <1>7, <1>8, <1>9, <1>10, <1>11 DEF Serve

LEMMA WatchStep ==
  ASSUME AuthInv, Watch
  PROVE  AuthInv'
BY StatTokenStep, RestatTokenStep, ApplyTokenStep, ReadTokenStep, SnapPasswordStep,
   StatPasswordStep, WatchRestatStep, ReadPasswordStep, ApplyPasswordFileStep, SweepStep,
   WatchFireStep DEF Watch

(* Every action of webauth.go's handlers, of its watcher and of the        *)
(* command line keeps the five parts of AuthInv: what each login in        *)
(* progress has shown, who still has to tell the hub, which attempts are   *)
(* in flight and what each time stamp in memory or on the way stands for.  *)
THEOREM AuthInvHolds == Spec => []AuthInv
<1>1. Init => AuthInv
  BY InitInv
<1>2. AuthInv /\ [Next]_vars => AuthInv'
  BY ServeStep, WatchStep, CLIRotateStep, CLIPasswordStep, QuietStep DEF Next
<1> QED
  BY <1>1, <1>2, PTL DEF Spec

(* A session of the table was opened with the token or password valid now, *)
(* unless its login stood between handleLogin's comparison and insertion   *)
(* when the credential changed: rotation, a new password and a change of   *)
(* the files leave no other session behind.                                *)
THEOREM SessionsAreProved == Spec => []SessionsProveCredential
<1>1. AuthInv => SessionsProveCredential
  BY DEF AuthInv, Proved
<1> QED
  BY <1>1, AuthInvHolds, PTL

(* Exactly the sessions that left the table (by logout, expiry, sweep,     *)
(* surplus or invalidateAllLocked) are those the event hub knows of or     *)
(* that someone is about to tell it: fireInvalidated misses none.          *)
THEOREM EndsGetTold == Spec => []EveryEndIsTold
<1>1. AuthInv => EveryEndIsTold
  BY DEF AuthInv, Told
<1> QED
  BY <1>1, AuthInvHolds, PTL

(* The loginLimiter's counts are those of the attempts in flight, for      *)
(* every remote and in all, on every path through admitAttempt, enterDelay *)
(* and the attempt's release, fail and succeed, evictions included.        *)
THEOREM NoAttemptIsLost == Spec => []AttemptsAreAccounted
<1>1. AuthInv => AttemptsAreAccounted
  BY DEF AuthInv, Accounted, AttemptsAreAccounted, Waiting, InFlight
<1> QED
  BY <1>1, AuthInvHolds, PTL

(* A password in memory whose time is the file's is what the file holds,   *)
(* or none: readAdminPasswordFile takes the time before the content, so    *)
(* the check of the times alone in checkPasswordFile never leaves an older *)
(* password in force.                                                      *)
THEOREM StampsAreHonest == Spec => []StampMeansContent
<1>1. AuthInv => StampMeansContent
  BY DEF AuthInv, Stamped, Read, Fits, StampMeansContent
<1> QED
  BY <1>1, AuthInvHolds, PTL

----------------------------------------------------------------------------
(* Counting the times in a window                                          *)

\* The times of ts that are left when the clock shows c.
Recent(ts, c) == {i \in DOMAIN ts : \E j \in 1..i : ts[j] + Window > c}

LEMMA RecentCounted ==
  ASSUME NEW ts \in Seq(Nat), NEW c \in Nat
  PROVE  /\ IsFiniteSet(Recent(ts, c)) /\ Recent(ts, c) \subseteq 1..Len(ts)
         /\ Cardinality(Recent(ts, c)) \in Nat /\ Cardinality(Recent(ts, c)) <= Len(ts)
<1>1. Len(ts) \in Nat /\ DOMAIN ts = 1..Len(ts)
  OBVIOUS
<1>2. \A n \in Nat : IsFiniteSet(1..n) /\ Cardinality(1..n) = n
  BY FS_Interval
<1>3. Recent(ts, c) \subseteq 1..Len(ts)
  BY <1>1 DEF Recent
<1>4. IsFiniteSet(1..Len(ts)) /\ Cardinality(1..Len(ts)) = Len(ts)
  BY <1>1, <1>2
<1>5. IsFiniteSet(Recent(ts, c)) /\ Cardinality(Recent(ts, c)) <= Cardinality(1..Len(ts))
  BY <1>3, <1>4, FS_Subset
<1>6. Cardinality(Recent(ts, c)) \in Nat
  BY <1>5, FS_CardinalityType
<1> QED
  BY <1>3, <1>4, <1>5, <1>6

LEMMA RecentShrinks ==
  ASSUME NEW ts \in Seq(Nat), NEW c \in Nat, NEW d \in Nat, c <= d
  PROVE  Cardinality(Recent(ts, d)) <= Cardinality(Recent(ts, c))
<1>1. Window \in Nat
  BY AuthAssumption
<1>2. Recent(ts, d) \subseteq Recent(ts, c)
  BY <1>1 DEF Recent
<1> QED
  BY <1>2, RecentCounted, FS_Subset

LEMMA RecentNone ==
  ASSUME NEW ts \in Seq(Nat), NEW c \in Nat, \A i \in 1..Len(ts) : ts[i] + Window <= c
  PROVE  Cardinality(Recent(ts, c)) = 0
<1>1. Window \in Nat
  BY AuthAssumption
<1>2. Recent(ts, c) = {}
  BY <1>1 DEF Recent
<1> QED
  BY <1>2, FS_EmptySet

(* What the loop skips is a prefix.                                        *)
LEMMA LapsedPrefix ==
  ASSUME NEW ts \in Seq(Nat), now \in Nat, NEW k, k = Cardinality(Lapsed(ts))
  PROVE  /\ k \in 0..Len(ts)
         /\ \A i \in 1..Len(ts) : i <= k <=> i \in Lapsed(ts)
         /\ \A i \in 1..k : ts[i] + Window <= now
<1>1. Len(ts) \in Nat /\ DOMAIN ts = 1..Len(ts) /\ Window \in Nat
  BY AuthAssumption
<1>2. Lapsed(ts) \subseteq 1..Len(ts)
  BY <1>1 DEF Lapsed
<1>3. \A n \in Nat : IsFiniteSet(1..n) /\ Cardinality(1..n) = n
  BY FS_Interval
<1>4. IsFiniteSet(Lapsed(ts)) /\ k \in 0..Len(ts)
  BY <1>1, <1>2, <1>3, FS_Subset, FS_CardinalityType
<1>5. ASSUME NEW i \in 1..Len(ts), i \in Lapsed(ts)
      PROVE  i <= k
  <2>1. 1..i \subseteq Lapsed(ts)
    BY <1>1, <1>5 DEF Lapsed
  <2>2. Cardinality(1..i) = i
    BY <1>3
  <2> QED
    BY <1>4, <2>1, <2>2, FS_Subset
<1>6. ASSUME NEW i \in 1..Len(ts), i <= k
      PROVE  i \in Lapsed(ts)
  <2>1. SUFFICES ASSUME i \notin Lapsed(ts) PROVE FALSE
    OBVIOUS
  <2>2. Lapsed(ts) \subseteq 1..(i - 1)
    <3>1. ASSUME NEW j \in Lapsed(ts), j >= i PROVE FALSE
      <4>1. 1..i \subseteq 1..j /\ j \in 1..Len(ts)
        BY <1>2, <3>1
      <4>2. i \in Lapsed(ts)
        BY <1>1, <4>1 DEF Lapsed
      <4> QED
        BY <2>1, <4>2
    <3> QED
      BY <1>2, <3>1
  <2>3. i - 1 \in Nat
    OBVIOUS
  <2>4. k <= i - 1
    BY <1>3, <2>2, <2>3, FS_Subset
  <2> QED
    BY <1>4, <1>6, <2>4
<1>7. \A i \in 1..k : ts[i] + Window <= now
  BY <1>1, <1>4, <1>6 DEF Lapsed
<1> QED
  BY <1>4, <1>5, <1>6, <1>7

(* Pruning takes away nothing that is still in the window.                 *)
LEMMA PrunedTimes ==
  ASSUME NEW ts \in Seq(Nat), now \in Nat, NEW ps, ps = loginPruneTimes(ts)
  PROVE  /\ ps \in Seq(Nat)
         /\ Len(ps) = Cardinality(Recent(ts, now))
         /\ (\A i \in 1..Len(ts) : ts[i] <= now) => \A i \in 1..Len(ps) : ps[i] <= now
         /\ \A c \in Nat : c >= now => Cardinality(Recent(ps, c)) = Cardinality(Recent(ts, c))
<1>1. PICK k : k = Cardinality(Lapsed(ts))
  OBVIOUS
<1>2. /\ k \in 0..Len(ts)
      /\ \A i \in 1..Len(ts) : i <= k <=> i \in Lapsed(ts)
      /\ \A i \in 1..k : ts[i] + Window <= now
  BY <1>1, LapsedPrefix
<1>3. Len(ts) \in Nat /\ DOMAIN ts = 1..Len(ts) /\ Window \in Nat
  BY AuthAssumption
<1>4. ps = SubSeq(ts, k + 1, Len(ts))
  BY <1>1 DEF loginPruneTimes
<1>5. /\ ps \in Seq(Nat) /\ Len(ps) = Len(ts) - k
      /\ \A i \in 1..Len(ps) : ps[i] = ts[i + k] /\ i + k \in 1..Len(ts)
  <2>1. PICK n \in Nat : n = Len(ts)
    BY <1>3
  <2>2. k \in 0..n /\ k \in Nat /\ k + 1 \in Nat /\ n - k \in Nat
    BY <1>2, <2>1
  <2>3. \A i \in (k + 1)..n : ts[i] \in Nat
    BY <1>3, <2>1, <2>2
  <2>4. ps = [i \in 1..(n - k) |-> ts[i + k]]
    BY <1>4, <2>1, <2>2
  <2>5. \A i \in 1..(n - k) : i + k \in 1..n /\ i + k \in (k + 1)..n
    BY <2>2
  <2>6. ps \in [1..(n - k) -> Nat]
    BY <2>3, <2>4, <2>5
  <2>7. ps \in Seq(Nat) /\ Len(ps) = n - k
    BY <2>2, <2>6
  <2> QED
    BY <2>1, <2>4, <2>5, <2>7
<1>6. (\A i \in 1..Len(ts) : ts[i] <= now) => \A i \in 1..Len(ps) : ps[i] <= now
  BY <1>5
<1>7. ASSUME NEW c \in Nat, c >= now
      PROVE  Cardinality(Recent(ps, c)) = Cardinality(Recent(ts, c))
  <2> DEFINE f == [i \in Recent(ps, c) |-> i + k]
  <2>1. DOMAIN ps = 1..Len(ps) /\ Len(ps) \in Nat
    BY <1>5
  <2>2. ASSUME NEW i \in Recent(ps, c) PROVE f[i] \in Recent(ts, c)
    <3>1. PICK j \in 1..i : ps[j] + Window > c
      BY DEF Recent
    <3>2. i \in 1..Len(ps) /\ j \in 1..Len(ps)
      BY <2>1, <3>1 DEF Recent
    <3>3. j + k \in 1..(i + k) /\ i + k \in 1..Len(ts)
      BY <1>2, <1>5, <3>1, <3>2
    <3>4. ps[j] = ts[j + k]
      BY <1>5, <3>2
    <3> QED
      BY <1>3, <3>1, <3>3, <3>4 DEF Recent
  <2>3. ASSUME NEW m \in Recent(ts, c) PROVE \E i \in Recent(ps, c) : f[i] = m
    <3>1. PICK j \in 1..m : ts[j] + Window > c
      BY DEF Recent
    <3>2. m \in 1..Len(ts) /\ j \in 1..Len(ts)
      BY <1>3, <3>1 DEF Recent
    <3>3. ts[j] \in Nat
      BY <3>2
    <3>4. j > k
      BY <1>2, <1>3, <1>7, <3>1, <3>2, <3>3
    <3>5. /\ m - k \in 1..Len(ps) /\ j - k \in 1..(m - k) /\ j - k \in 1..Len(ps)
          /\ (j - k) + k = j /\ (m - k) + k = m
      BY <1>2, <1>3, <1>5, <3>1, <3>2, <3>4
    <3>6. ps[j - k] + Window > c
      BY <1>5, <3>1, <3>5
    <3>7. m - k \in Recent(ps, c)
      BY <2>1, <3>5, <3>6 DEF Recent
    <3> QED
      BY <3>5, <3>7
  <2>4. f \in Bijection(Recent(ps, c), Recent(ts, c))
    <3>1. f \in [Recent(ps, c) -> Recent(ts, c)]
      BY <2>2
    <3>2. \A i, j \in Recent(ps, c) : f[i] = f[j] => i = j
      BY <1>2, <2>1 DEF Recent
    <3> QED
      BY <2>3, <3>1, <3>2 DEF Bijection, Injection, Surjection, IsInjective
  <2> HIDE DEF f
  <2>5. ExistsBijection(Recent(ps, c), Recent(ts, c))
    BY <2>4 DEF ExistsBijection
  <2>6. IsFiniteSet(Recent(ps, c)) /\ IsFiniteSet(Recent(ts, c))
    BY <1>5, RecentCounted
  <2> QED
    BY <2>5, <2>6, FS_Bijection
<1>8. Len(ps) = Cardinality(Recent(ts, now))
  <2>1. Recent(ts, now) = (k + 1)..Len(ts)
    <3>1. ASSUME NEW i \in 1..Len(ts) PROVE i \in Lapsed(ts) <=> ~(\E j \in 1..i : ts[j] + Window > now)
      <4>1. \A j \in 1..i : ts[j] \in Nat
        BY <1>3
      <4>2. \A j \in 1..i : ts[j] + Window <= now <=> ~(ts[j] + Window > now)
        BY <1>3, <4>1
      <4>3. i \in Lapsed(ts) <=> \A j \in 1..i : ts[j] + Window <= now
        BY <1>3 DEF Lapsed
      <4> QED
        BY <4>2, <4>3, Zenon
    <3>2. \A i \in 1..Len(ts) : i \in Recent(ts, now) <=> i \in (k + 1)..Len(ts)
      BY <1>2, <1>3, <3>1 DEF Recent
    <3>3. Recent(ts, now) \subseteq 1..Len(ts) /\ (k + 1)..Len(ts) \subseteq 1..Len(ts)
      BY <1>2, <1>3 DEF Recent
    <3> QED
      BY <3>2, <3>3
  <2> QED
    BY <1>2, <1>3, <1>5, <2>1, FS_Interval
<1> QED
  BY <1>5, <1>6, <1>7, <1>8

(* A new time counts as one more, if it is in the window.                  *)
LEMMA RecentAppend ==
  ASSUME NEW ts \in Seq(Nat), NEW t \in Nat, NEW c \in Nat
  PROVE  /\ Cardinality(Recent(Append(ts, t), c)) <= Cardinality(Recent(ts, c)) + 1
         /\ t + Window > c =>
              Cardinality(Recent(Append(ts, t), c)) = Cardinality(Recent(ts, c)) + 1
<1>1. PICK n \in Nat : n = Len(ts)
  OBVIOUS
<1>2. PICK us : us = Append(ts, t)
  OBVIOUS
<1>3. /\ us \in Seq(Nat) /\ DOMAIN ts = 1..n /\ DOMAIN us = 1..(n + 1)
      /\ us[n + 1] = t /\ \A i \in 1..n : us[i] = ts[i]
  BY <1>1, <1>2
<1>4. Recent(us, c) \subseteq Recent(ts, c) \cup {n + 1}
  BY <1>3 DEF Recent
<1>5. Recent(ts, c) \subseteq Recent(us, c)
  BY <1>3 DEF Recent
<1>6. n + 1 \notin Recent(ts, c)
  BY <1>3 DEF Recent
<1>7. Cardinality(Recent(ts, c) \cup {n + 1}) = Cardinality(Recent(ts, c)) + 1
      /\ IsFiniteSet(Recent(ts, c) \cup {n + 1})
  BY <1>6, RecentCounted, FS_AddElement
<1>8. t + Window > c => Recent(us, c) = Recent(ts, c) \cup {n + 1}
  <2>1. t + Window > c => n + 1 \in Recent(us, c)
    BY <1>3 DEF Recent
  <2> QED
    BY <1>4, <1>5, <2>1
<1>9. Cardinality(Recent(us, c)) <= Cardinality(Recent(ts, c) \cup {n + 1})
  BY <1>4, <1>7, FS_Subset
<1> QED
  BY <1>2, <1>7, <1>8, <1>9

----------------------------------------------------------------------------
(* The guesses of one remote                                               *)

Count(ts, c) == Cardinality(Recent(ts, c))

\* At time t: entry e of a remote, the times w of its wrong comparisons, and
\* the n of them of which the limiter will hear.  From now on, once no lock
\* holds, the limiter knows of as many as there were in the window; a lock
\* comes when nothing else is in flight.
Fitting(t, e, w, n) ==
  /\ DOMAIN e = EntryFields /\ e.fails \in Seq(Nat)
  /\ e.lockedUntil \in Nat /\ e.inflight \in Nat
  /\ w \in Seq(Nat) /\ \A i \in 1..Len(w) : w[i] <= t
  /\ Count(e.fails, t) + e.inflight <= RemoteMaxFails
  /\ \A c \in Nat : c >= t /\ c >= e.lockedUntil => Count(w, c) <= Count(e.fails, c) + n
  /\ t < e.lockedUntil => e.inflight = 0 /\ Count(w, t) <= RemoteMaxFails

LEMMA CountType ==
  ASSUME NEW ts \in Seq(Nat), NEW c \in Nat
  PROVE  Count(ts, c) \in Nat /\ Count(ts, c) <= Len(ts)
BY RecentCounted DEF Count

LEMMA CountEmpty ==
  ASSUME NEW c \in Nat
  PROVE  <<>> \in Seq(Nat) /\ Count(<<>>, c) = 0
<1>1. <<>> \in Seq(Nat) /\ Len(<<>>) = 0
  OBVIOUS
<1>2. ASSUME NEW ts \in Seq(Nat), Len(ts) = 0 PROVE Count(ts, c) = 0
  <2>1. Count(ts, c) \in Nat /\ Count(ts, c) <= Len(ts)
    BY CountType
  <2> QED
    BY <1>2, <2>1
<1> QED
  BY <1>1, <1>2

LEMMA GuessesFit ==
  ASSUME NEW t \in Nat, NEW e, NEW w, NEW n \in Nat, Fitting(t, e, w, n), n <= e.inflight
  PROVE  Count(w, t) <= RemoteMaxFails
<1>1. RemoteMaxFails \in Nat
  BY AuthAssumption
<1>2. Count(w, t) \in Nat /\ Count(e.fails, t) \in Nat
  BY CountType DEF Fitting
<1>3. CASE t < e.lockedUntil
  BY <1>3 DEF Fitting
<1>4. CASE t >= e.lockedUntil
  BY <1>1, <1>2, <1>4 DEF Fitting
<1> QED
  BY <1>3, <1>4 DEF Fitting

LEMMA FitMore ==
  ASSUME NEW t \in Nat, NEW e, NEW w, NEW n \in Nat, NEW m \in Nat, n <= m, Fitting(t, e, w, n)
  PROVE  Fitting(t, e, w, m)
<1>1. \A c \in Nat : Count(w, c) \in Nat /\ Count(e.fails, c) \in Nat
  BY CountType DEF Fitting
<1>2. \A c \in Nat : Count(w, c) <= Count(e.fails, c) + n => Count(w, c) <= Count(e.fails, c) + m
  BY <1>1
<1> QED
  BY <1>2 DEF Fitting

LEMMA FitTick ==
  ASSUME NEW t \in Nat, NEW e, NEW w, NEW n \in Nat, Fitting(t, e, w, n)
  PROVE  Fitting(t + 1, e, w, n)
<1>1. RemoteMaxFails \in Nat /\ t + 1 \in Nat
  BY AuthAssumption
<1>2. Count(w, t) \in Nat /\ Count(e.fails, t) \in Nat
      /\ Count(w, t + 1) \in Nat /\ Count(e.fails, t + 1) \in Nat
  BY <1>1, CountType DEF Fitting
<1>3. Count(w, t + 1) <= Count(w, t) /\ Count(e.fails, t + 1) <= Count(e.fails, t)
  <2>1. w \in Seq(Nat) /\ e.fails \in Seq(Nat) /\ t <= t + 1
    BY DEF Fitting
  <2> QED
    BY <1>1, <2>1, RecentShrinks DEF Count
<1>4. \A i \in 1..Len(w) : w[i] <= t + 1
  BY DEF Fitting
<1>5. Count(e.fails, t + 1) + e.inflight <= RemoteMaxFails
  BY <1>1, <1>2, <1>3 DEF Fitting
<1>6. \A c \in Nat : c >= t + 1 /\ c >= e.lockedUntil => Count(w, c) <= Count(e.fails, c) + n
  BY DEF Fitting
<1>7. t + 1 < e.lockedUntil => e.inflight = 0 /\ Count(w, t + 1) <= RemoteMaxFails
  BY <1>1, <1>2, <1>3 DEF Fitting
<1> QED
  BY <1>4, <1>5, <1>6, <1>7 DEF Fitting

(* A wrong comparison: of it the limiter will hear.                        *)
LEMMA FitWrong ==
  ASSUME now \in Nat, NEW e, NEW w, NEW n \in Nat, Fitting(now, e, w, n), e.inflight > 0
  PROVE  Fitting(now, e, Append(loginPruneTimes(w), now), n + 1)
<1>1. PICK ps : ps = loginPruneTimes(w)
  OBVIOUS
<1>2. w \in Seq(Nat) /\ \A i \in 1..Len(w) : w[i] <= now
  BY DEF Fitting
<1>3. /\ ps \in Seq(Nat) /\ \A i \in 1..Len(ps) : ps[i] <= now
      /\ \A c \in Nat : c >= now => Count(ps, c) = Count(w, c)
  BY <1>1, <1>2, PrunedTimes DEF Count
<1>4. PICK us : us = Append(ps, now)
  OBVIOUS
<1>5. us \in Seq(Nat) /\ \A i \in 1..Len(us) : us[i] <= now
  <2>1. /\ us \in Seq(Nat) /\ Len(us) = Len(ps) + 1 /\ us[Len(ps) + 1] = now
        /\ \A i \in 1..Len(ps) : us[i] = ps[i]
    BY <1>3, <1>4
  <2>2. \A i \in 1..Len(ps) : ps[i] <= now
    BY <1>3
  <2>3. \A i \in 1..Len(us) : i \in 1..Len(ps) \/ i = Len(ps) + 1
    BY <1>3, <2>1
  <2> QED
    BY <2>1, <2>2, <2>3
<1>6. now >= e.lockedUntil
  BY DEF Fitting
<1>7. ASSUME NEW c \in Nat, c >= now, c >= e.lockedUntil
      PROVE  Count(us, c) <= Count(e.fails, c) + (n + 1)
  <2>1. Count(us, c) <= Count(w, c) + 1
    BY <1>3, <1>4, <1>7, RecentAppend DEF Count
  <2>2. Count(us, c) \in Nat /\ Count(w, c) \in Nat /\ Count(e.fails, c) \in Nat
    BY <1>2, <1>5, CountType DEF Fitting
  <2>3. Count(w, c) <= Count(e.fails, c) + n
    BY <1>7 DEF Fitting
  <2> QED
    BY <2>1, <2>2, <2>3
<1> QED
  BY <1>1, <1>4, <1>5, <1>6, <1>7 DEF Fitting

(* The entry that admitAttempt makes of e.                                 *)
LEMMA FitAdmitted ==
  ASSUME now \in Nat, NEW e, NEW w, NEW n \in Nat, Fitting(now, e, w, n),
         now >= e.lockedUntil, Count(e.fails, now) + e.inflight < RemoteMaxFails,
         NEW d, DOMAIN d = EntryFields, d.fails = loginPruneTimes(e.fails),
         d.inflight = e.inflight + 1, d.lockedUntil = e.lockedUntil
  PROVE  Fitting(now, d, w, n)
<1>1. RemoteMaxFails \in Nat
  BY AuthAssumption
<1>2. /\ d.fails \in Seq(Nat)
      /\ \A c \in Nat : c >= now => Count(d.fails, c) = Count(e.fails, c)
  BY PrunedTimes DEF Fitting, Count
<1>3. Count(e.fails, now) \in Nat /\ Count(d.fails, now) = Count(e.fails, now)
  <2>1. e.fails \in Seq(Nat) /\ now >= now
    BY DEF Fitting
  <2> QED
    BY <1>2, <2>1, CountType
<1>4. e.inflight \in Nat /\ e.lockedUntil \in Nat
  BY DEF Fitting
<1>5. d.inflight \in Nat /\ Count(d.fails, now) + d.inflight <= RemoteMaxFails
  BY <1>1, <1>3, <1>4
<1>6. \A c \in Nat : c >= now /\ c >= d.lockedUntil => Count(w, c) <= Count(d.fails, c) + n
  BY <1>2 DEF Fitting
<1>7. ~(now < d.lockedUntil)
  BY <1>4
<1>8. w \in Seq(Nat) /\ \A i \in 1..Len(w) : w[i] <= now
  BY DEF Fitting
<1> QED
  BY <1>2, <1>4, <1>5, <1>6, <1>7, <1>8 DEF Fitting

(* A place is given back.                                                  *)
LEMMA FitReleased ==
  ASSUME NEW t \in Nat, NEW e, NEW w, NEW n \in Nat, Fitting(t, e, w, n), e.inflight > 0,
         NEW d, DOMAIN d = EntryFields, d.fails = e.fails,
         d.inflight = e.inflight - 1, d.lockedUntil = e.lockedUntil
  PROVE  Fitting(t, d, w, n)
<1>1. RemoteMaxFails \in Nat /\ Count(e.fails, t) \in Nat
  BY AuthAssumption, CountType DEF Fitting
<1>2. t >= e.lockedUntil
  BY DEF Fitting
<1> QED
  BY <1>1, <1>2 DEF Fitting

(* A success forgets the failures of its remote.                           *)
LEMMA FitSucceeded ==
  ASSUME NEW t \in Nat, NEW e, NEW w, NEW n \in Nat, Fitting(t, e, w, n), e.inflight > 0,
         NEW d, DOMAIN d = EntryFields, d.fails = <<>>,
         d.inflight = e.inflight - 1, d.lockedUntil = e.lockedUntil
  PROVE  Fitting(t, d, <<>>, n)
<1>1. RemoteMaxFails \in Nat /\ Count(e.fails, t) \in Nat
  BY AuthAssumption, CountType DEF Fitting
<1>2. <<>> \in Seq(Nat) /\ Len(<<>>) = 0 /\ \A c \in Nat : Count(<<>>, c) = 0
  BY CountEmpty
<1>3. t >= e.lockedUntil
  BY DEF Fitting
<1> QED
  BY <1>1, <1>2, <1>3 DEF Fitting

(* An entry that says nothing may go; one that goes takes its history.     *)
LEMMA FitIdle ==
  ASSUME NEW t \in Nat, NEW e, NEW w, NEW n \in Nat, Fitting(t, e, w, n),
         e.inflight = 0, e.fails = <<>>, t >= e.lockedUntil
  PROVE  Fitting(t, NoFails, w, n)
<1>1. DOMAIN NoFails = EntryFields /\ NoFails.fails = <<>> /\ NoFails.lockedUntil = 0
      /\ NoFails.inflight = 0
  BY DEF NoFails, EntryFields
<1>2. <<>> \in Seq(Nat) /\ Count(<<>>, t) = 0 /\ RemoteMaxFails \in Nat
  BY CountEmpty, AuthAssumption
<1> QED
  BY <1>1, <1>2 DEF Fitting

LEMMA FitNone ==
  ASSUME NEW t \in Nat, NEW n \in Nat
  PROVE  Fitting(t, NoFails, <<>>, n)
<1>1. DOMAIN NoFails = EntryFields /\ NoFails.fails = <<>> /\ NoFails.lockedUntil = 0
      /\ NoFails.inflight = 0
  BY DEF NoFails, EntryFields
<1>2. <<>> \in Seq(Nat) /\ Len(<<>>) = 0 /\ \A c \in Nat : Count(<<>>, c) = 0
  BY CountEmpty
<1>3. RemoteMaxFails \in Nat
  BY AuthAssumption
<1> QED
  BY <1>1, <1>2, <1>3 DEF Fitting

(* attempt.fail: the comparison that was wrong becomes a failure, and the  *)
(* last one that is allowed a lock.                                        *)
LEMMA FitFailed ==
  ASSUME now \in Nat, NEW e, NEW w, NEW n \in Nat, Fitting(now, e, w, n), n > 0, n <= e.inflight,
         NEW fs, fs = Append(loginPruneTimes(e.fails), now),
         NEW d, DOMAIN d = EntryFields, d.inflight = e.inflight - 1,
         d.fails = IF Len(fs) >= RemoteMaxFails THEN <<>> ELSE fs,
         d.lockedUntil = IF Len(fs) >= RemoteMaxFails THEN now + Window ELSE e.lockedUntil
  PROVE  Fitting(now, d, w, n - 1)
<1>1. RemoteMaxFails \in Nat /\ Window \in Nat
  BY AuthAssumption
<1>2. PICK ps : ps = loginPruneTimes(e.fails)
  OBVIOUS
<1>3. /\ ps \in Seq(Nat) /\ Len(ps) = Count(e.fails, now)
      /\ \A c \in Nat : c >= now => Count(ps, c) = Count(e.fails, c)
  BY <1>2, PrunedTimes DEF Fitting, Count
<1>4. fs \in Seq(Nat) /\ Len(fs) = Count(e.fails, now) + 1
  BY <1>2, <1>3
<1>5. now >= e.lockedUntil /\ e.inflight > 0
  BY DEF Fitting
<1>6. Count(e.fails, now) \in Nat /\ Count(w, now) \in Nat
  BY CountType DEF Fitting
<1>7. ASSUME NEW c \in Nat, c >= now + Window
      PROVE  Count(w, c) = 0
  <2>1. w \in Seq(Nat) /\ \A i \in 1..Len(w) : w[i] \in Nat /\ w[i] <= now
    BY DEF Fitting
  <2>2. \A i \in 1..Len(w) : w[i] + Window <= c
    BY <1>1, <1>7, <2>1
  <2> QED
    BY <2>1, <2>2, RecentNone DEF Count
<1>8. CASE Len(fs) >= RemoteMaxFails
  <2>1. d.fails = <<>> /\ d.lockedUntil = now + Window
    BY <1>8
  <2>2. e.inflight = 1 /\ d.inflight = 0
    <3>1. e.inflight \in Nat /\ Count(e.fails, now) + e.inflight <= RemoteMaxFails
      BY DEF Fitting
    <3>2. Count(e.fails, now) + 1 >= RemoteMaxFails
      BY <1>4, <1>8
    <3>3. e.inflight = 1
      BY <1>1, <1>5, <1>6, <3>1, <3>2
    <3> QED
      BY <3>3
  <2>3. <<>> \in Seq(Nat) /\ \A c \in Nat : Count(<<>>, c) = 0
    BY CountEmpty
  <2>4. Count(w, now) <= RemoteMaxFails
    BY GuessesFit
  <2>5. \A c \in Nat : c >= now /\ c >= d.lockedUntil => Count(w, c) <= Count(d.fails, c) + (n - 1)
    BY <1>7, <2>1, <2>3
  <2>6. d.lockedUntil \in Nat
    BY <1>1, <2>1
  <2>7. Count(d.fails, now) + d.inflight <= RemoteMaxFails
    BY <1>1, <2>1, <2>2, <2>3
  <2>8. w \in Seq(Nat) /\ \A i \in 1..Len(w) : w[i] <= now
    BY DEF Fitting
  <2>9. d.fails \in Seq(Nat) /\ d.inflight \in Nat
    <3>1. <<>> \in Seq(Nat)
      BY <2>3
    <3>2. d.fails \in Seq(Nat)
      BY <2>1, <3>1, Zenon
    <3> QED
      BY <2>2, <3>2
  <2> QED
    BY <2>2, <2>4, <2>5, <2>6, <2>7, <2>8, <2>9 DEF Fitting
<1>9. CASE Len(fs) < RemoteMaxFails
  <2>1. d.fails = fs /\ d.lockedUntil = e.lockedUntil
    BY <1>1, <1>4, <1>6, <1>9
  <2>2. Count(fs, now) \in Nat /\ Count(fs, now) <= Count(e.fails, now) + 1
    BY <1>4, CountType
  <2>3. Count(fs, now) + d.inflight <= RemoteMaxFails /\ d.inflight \in Nat
    <3>1. e.inflight \in Nat /\ Count(e.fails, now) + e.inflight <= RemoteMaxFails
      BY DEF Fitting
    <3> QED
      BY <1>1, <1>5, <1>6, <2>2, <3>1
  <2>4. ASSUME NEW c \in Nat, c >= now, c >= e.lockedUntil
        PROVE  Count(w, c) <= Count(fs, c) + (n - 1)
    <3>1. Count(w, c) \in Nat /\ Count(fs, c) \in Nat /\ Count(e.fails, c) \in Nat
      BY <1>4, CountType DEF Fitting
    <3>2. CASE now + Window > c
      <4>1. Count(fs, c) = Count(e.fails, c) + 1
        BY <1>2, <1>3, <2>4, <3>2, RecentAppend DEF Count
      <4>2. Count(w, c) <= Count(e.fails, c) + n
        BY <2>4 DEF Fitting
      <4> QED
        BY <3>1, <4>1, <4>2
    <3>3. CASE c >= now + Window
      BY <1>7, <3>1, <3>3
    <3> QED
      BY <1>1, <3>2, <3>3
  <2> QED
    BY <1>4, <1>5, <2>1, <2>3, <2>4 DEF Fitting
<1> QED
  BY <1>1, <1>4, <1>6, <1>8, <1>9

----------------------------------------------------------------------------
(* Guesses                                                                 *)

\* The wrong comparisons of which the limiter has yet to hear.
Mistaken(r) == {h \in Handlers : req[h].pc = "wrong" /\ req[h].remote = r}

GuessInv ==
  /\ DOMAIN wrong = Remotes
  /\ \A r \in Remotes :
       Fitting(now, RemoteState(limiter.remotes, r), wrong[r], Cardinality(Mistaken(r)))

LEMMA MistakenFinite ==
  \A r : IsFiniteSet(Mistaken(r)) /\ Cardinality(Mistaken(r)) \in Nat
<1>1. \A r : IsFiniteSet(Mistaken(r))
  BY AuthAssumption, FS_Subset DEF Mistaken
<1> QED
  BY <1>1, FS_CardinalityType

LEMMA MistakenFinite1 ==
  \A r : IsFiniteSet(Mistaken(r)') /\ Cardinality(Mistaken(r)') \in Nat
<1>1. \A r : IsFiniteSet(Mistaken(r)')
  BY AuthAssumption, FS_Subset DEF Mistaken
<1> QED
  BY <1>1, FS_CardinalityType

LEMMA MistakenCounted ==
  ASSUME AuthInv, NEW r \in Remotes
  PROVE  Cardinality(Mistaken(r)) <= RemoteState(limiter.remotes, r).inflight
<1>1. Mistaken(r) \subseteq InFlight(r)
  BY DEF Mistaken, InFlight, Holding
<1>2. Cardinality(Mistaken(r)) <= Cardinality(InFlight(r))
  BY <1>1, FiniteAttempts, FS_Subset
<1> QED
  BY <1>2 DEF AuthInv, Accounted

LEMMA AttemptCounted ==
  ASSUME AuthInv, NEW h \in Handlers, req[h].pc \in Held, NEW r, r = req[h].remote
  PROVE  r \in Remotes /\ RemoteState(limiter.remotes, r).inflight > 0
<1>1. h \in Holding /\ h \in InFlight(r)
  BY HoldingIs DEF InFlight
<1>2. r \in Remotes
  BY <1>1 DEF AuthInv, Accounted
<1>3. InFlight(r) # {} /\ IsFiniteSet(InFlight(r)) /\ Cardinality(InFlight(r)) \in Nat
  BY <1>1, FiniteAttempts
<1>4. Cardinality(InFlight(r)) > 0
  BY <1>3, FS_EmptySet
<1> QED
  BY <1>2, <1>4 DEF AuthInv, Accounted

(* A step that touches neither the limiter's table nor a wrong comparison. *)
LEMMA GuessesKept ==
  ASSUME AuthInv, GuessInv, limiter'.remotes = limiter.remotes, wrong' = wrong, now' = now,
         \A g \in Handlers : req[g].pc = "wrong" => req'[g].pc = "wrong" /\ req'[g].remote = req[g].remote
  PROVE  GuessInv'
<1>1. ASSUME NEW r \in Remotes
      PROVE  Fitting(now, RemoteState(limiter.remotes, r), wrong[r], Cardinality(Mistaken(r)'))
  <2>1. Mistaken(r) \subseteq Mistaken(r)'
    BY DEF Mistaken
  <2>2. Cardinality(Mistaken(r)) <= Cardinality(Mistaken(r)')
    BY <2>1, MistakenFinite1, FS_Subset
  <2>3. now \in Nat /\ Cardinality(Mistaken(r)) \in Nat /\ Cardinality(Mistaken(r)') \in Nat
    BY MistakenFinite, MistakenFinite1 DEF AuthInv, Told
  <2>4. Fitting(now, RemoteState(limiter.remotes, r), wrong[r], Cardinality(Mistaken(r)))
    BY DEF GuessInv
  <2> QED
    BY <2>2, <2>3, <2>4, FitMore
<1> QED
  BY <1>1 DEF GuessInv

LEMMA HandlerGuessesKept ==
  ASSUME AuthInv, GuessInv, NEW h \in Handlers, req[h].pc # "wrong",
         \A g \in Handlers : g # h => req'[g] = req[g],
         limiter'.remotes = limiter.remotes, wrong' = wrong, now' = now
  PROVE  GuessInv'
<1>1. \A g \in Handlers : req[g].pc = "wrong" => req'[g].pc = "wrong" /\ req'[g].remote = req[g].remote
  OBVIOUS
<1> QED
  BY <1>1, GuessesKept

LEMMA TickGuesses ==
  ASSUME AuthInv, GuessInv, now' = now + 1, limiter' = limiter, wrong' = wrong, req' = req
  PROVE  GuessInv'
<1>1. ASSUME NEW r \in Remotes
      PROVE  Fitting(now + 1, RemoteState(limiter.remotes, r), wrong[r], Cardinality(Mistaken(r)))
  <2>1. now \in Nat /\ Cardinality(Mistaken(r)) \in Nat
    BY MistakenFinite DEF AuthInv, Told
  <2>2. Fitting(now, RemoteState(limiter.remotes, r), wrong[r], Cardinality(Mistaken(r)))
    BY DEF GuessInv
  <2> QED
    BY <2>1, <2>2, FitTick
<1>2. \A r : Mistaken(r)' = Mistaken(r)
  BY DEF Mistaken
<1> QED
  BY <1>1, <1>2 DEF GuessInv

(* A comparison that fails.                                                *)
LEMMA WrongGuess ==
  ASSUME AuthInv, GuessInv, NEW h \in Handlers, req[h].pc \in Held \ {"wrong"},
         \A g \in Handlers : g # h => req'[g] = req[g],
         req'[h].pc = "wrong", req'[h].remote = req[h].remote,
         wrong' = [wrong EXCEPT ![req[h].remote] = Append(loginPruneTimes(@), now)],
         limiter' = limiter, now' = now
  PROVE  GuessInv'
<1>1. PICK r : r = req[h].remote
  OBVIOUS
<1>2. r \in Remotes /\ RemoteState(limiter.remotes, r).inflight > 0
  BY <1>1, AttemptCounted
<1>3. /\ h \notin Mistaken(r) /\ Mistaken(r)' = Mistaken(r) \cup {h}
      /\ \A u : u # r => Mistaken(u)' = Mistaken(u)
  BY <1>1 DEF Mistaken
<1>4. Cardinality(Mistaken(r)') = Cardinality(Mistaken(r)) + 1
  BY <1>3, MistakenFinite, FS_AddElement
<1>5. /\ DOMAIN wrong' = Remotes /\ wrong'[r] = Append(loginPruneTimes(wrong[r]), now)
      /\ \A u \in Remotes : u # r => wrong'[u] = wrong[u]
  BY <1>1, <1>2 DEF GuessInv
<1>6. Fitting(now, RemoteState(limiter.remotes, r), wrong'[r], Cardinality(Mistaken(r)'))
  <2>1. PICK e, w, n : /\ e = RemoteState(limiter.remotes, r) /\ w = wrong[r]
                       /\ n = Cardinality(Mistaken(r))
    OBVIOUS
  <2>2. now \in Nat /\ n \in Nat
    BY <2>1, MistakenFinite DEF AuthInv, Told
  <2>3. Fitting(now, e, w, n) /\ e.inflight > 0
    BY <1>2, <2>1 DEF GuessInv
  <2>4. Fitting(now, e, Append(loginPruneTimes(w), now), n + 1)
    BY <2>2, <2>3, FitWrong
  <2> QED
    BY <1>4, <1>5, <2>1, <2>4
<1>7. ASSUME NEW u \in Remotes, u # r
      PROVE  Fitting(now, RemoteState(limiter.remotes, u), wrong'[u], Cardinality(Mistaken(u)'))
  BY <1>3, <1>5, <1>7 DEF GuessInv
<1> QED
  BY <1>5, <1>6, <1>7 DEF GuessInv

(* Eviction takes the history with the entry, and spares r.                *)
LEMMA RoomFits ==
  ASSUME AuthInv, GuessInv, NEW r \in Remotes, NEW rs \in WithRoom(r), wrong' = Forgotten(rs)
  PROVE  /\ RemoteState(rs, r) = RemoteState(limiter.remotes, r)
         /\ DOMAIN wrong' = Remotes /\ wrong'[r] = wrong[r]
         /\ \A u \in Remotes :
              Fitting(now, RemoteState(rs, u), wrong'[u], Cardinality(Mistaken(u)))
<1>1. /\ DOMAIN rs \subseteq DOMAIN limiter.remotes
      /\ \A u \in DOMAIN rs : rs[u] = limiter.remotes[u]
      /\ r \in DOMAIN limiter.remotes => r \in DOMAIN rs
  <2>1. CASE rs = limiter.remotes
    BY <2>1
  <2>2. CASE r \notin DOMAIN limiter.remotes /\ rs \in Evictions(limiter.remotes)
    <3>1. PICK V : rs = Restrict(limiter.remotes, DOMAIN limiter.remotes \ V)
      BY <2>2 DEF Evictions
    <3>2. DOMAIN rs = DOMAIN limiter.remotes \ V /\ \A u \in DOMAIN rs : rs[u] = limiter.remotes[u]
      BY <3>1 DEF Restrict
    <3> QED
      BY <2>2, <3>2
  <2> QED
    BY <2>1, <2>2 DEF WithRoom
<1>2. DOMAIN wrong' = Remotes /\ \A u \in Remotes :
        wrong'[u] = IF u \in DOMAIN limiter.remotes \ DOMAIN rs THEN <<>> ELSE wrong[u]
  BY DEF Forgotten
<1>3. RemoteState(rs, r) = RemoteState(limiter.remotes, r)
  BY <1>1 DEF RemoteState
<1>4. wrong'[r] = wrong[r]
  BY <1>1, <1>2, Zenon
<1>5. ASSUME NEW u \in Remotes
      PROVE  Fitting(now, RemoteState(rs, u), wrong'[u], Cardinality(Mistaken(u)))
  <2>1. CASE u \in DOMAIN limiter.remotes \ DOMAIN rs
    <3>1. RemoteState(rs, u) = NoFails
      BY <2>1 DEF RemoteState
    <3>2. wrong'[u] = <<>>
      BY <1>2, <2>1, Zenon
    <3>3. now \in Nat /\ Cardinality(Mistaken(u)) \in Nat
      BY MistakenFinite DEF AuthInv, Told
    <3>4. Fitting(now, NoFails, <<>>, Cardinality(Mistaken(u)))
      BY <3>3, FitNone
    <3> QED
      BY <3>1, <3>2, <3>4, Zenon
  <2>2. CASE ~(u \in DOMAIN limiter.remotes \ DOMAIN rs)
    <3>1. RemoteState(rs, u) = RemoteState(limiter.remotes, u)
      BY <1>1, <2>2 DEF RemoteState
    <3>2. wrong'[u] = wrong[u]
      BY <1>2, <2>2, Zenon
    <3> QED
      BY <3>1, <3>2 DEF GuessInv
  <2> QED
    BY <2>1, <2>2
<1> QED
  BY <1>2, <1>3, <1>4, <1>5

(* An entry that changes, and one that goes because it says nothing.       *)
LEMMA WithState ==
  ASSUME NEW rs, NEW r, NEW e
  PROVE  /\ r \in DOMAIN With(rs, r, e) /\ With(rs, r, e)[r] = e
         /\ RemoteState(With(rs, r, e), r) = e
         /\ \A u : u # r => RemoteState(With(rs, r, e), u) = RemoteState(rs, u)
BY DEF With, RemoteState

LEMMA IdleFits ==
  ASSUME now \in Nat, NEW rs, NEW r \in DOMAIN rs, NEW u, NEW w, NEW n \in Nat,
         Fitting(now, RemoteState(rs, u), w, n)
  PROVE  Fitting(now, RemoteState(dropIfIdle(rs, r), u), w, n)
<1>1. CASE rs[r].inflight = 0 /\ rs[r].fails = <<>> /\ now >= rs[r].lockedUntil
  <2>1. PICK ds : ds = dropIfIdle(rs, r) /\ ds = Restrict(rs, DOMAIN rs \ {r})
    BY <1>1 DEF dropIfIdle
  <2>2. DOMAIN ds = DOMAIN rs \ {r} /\ \A v \in DOMAIN ds : ds[v] = rs[v]
    BY <2>1 DEF Restrict
  <2>3. CASE u = r
    <3>1. RemoteState(ds, u) = NoFails /\ RemoteState(rs, u) = rs[r]
      BY <2>2, <2>3 DEF RemoteState
    <3> QED
      BY <1>1, <2>1, <3>1, FitIdle
  <2>4. CASE u # r
    <3>1. RemoteState(ds, u) = RemoteState(rs, u)
      BY <2>2, <2>4 DEF RemoteState
    <3> QED
      BY <2>1, <3>1
  <2> QED
    BY <2>3, <2>4
<1>2. CASE ~(rs[r].inflight = 0 /\ rs[r].fails = <<>> /\ now >= rs[r].lockedUntil)
  BY <1>2 DEF dropIfIdle
<1> QED
  BY <1>1, <1>2

(* admitAttempt                                                            *)
LEMMA AdmitGuesses ==
  ASSUME AuthInv, GuessInv, NEW h \in Handlers, NEW way, NEW r \in Remotes, NEW cred,
         req[h].pc = "done", Admit(h, way, r, cred), now' = now
  PROVE  GuessInv'
<1>1. PICK rs \in WithRoom(r) :
        /\ limiter' = [limiter EXCEPT
             !.remotes = With(rs, r, [RemoteState(rs, r) EXCEPT
                                        !.fails = loginPruneTimes(@), !.inflight = @ + 1]),
             !.fails = loginPruneTimes(@), !.inflight = @ + 1, !.admitted = @ + 1]
        /\ wrong' = Forgotten(rs)
  BY DEF Admit
<1>2. PICK e : e = RemoteState(limiter.remotes, r)
  OBVIOUS
<1>3. /\ RemoteState(rs, r) = e /\ DOMAIN wrong' = Remotes /\ wrong'[r] = wrong[r]
      /\ \A u \in Remotes :
           Fitting(now, RemoteState(rs, u), wrong'[u], Cardinality(Mistaken(u)))
  BY <1>1, <1>2, RoomFits
<1>4. now \in Nat /\ \A u : Cardinality(Mistaken(u)) \in Nat
  BY MistakenFinite DEF AuthInv, Told
<1>5. Fitting(now, e, wrong'[r], Cardinality(Mistaken(r)))
  BY <1>3
<1>6. DOMAIN e = EntryFields /\ e.fails \in Seq(Nat) /\ e.inflight \in Nat
  BY <1>5 DEF Fitting
<1>7. PICK d : d = [e EXCEPT !.fails = loginPruneTimes(@), !.inflight = @ + 1]
  OBVIOUS
<1>8. /\ DOMAIN d = EntryFields /\ d.fails = loginPruneTimes(e.fails)
      /\ d.inflight = e.inflight + 1 /\ d.lockedUntil = e.lockedUntil
  BY <1>6, <1>7 DEF EntryFields
<1>9. limiter'.remotes = With(rs, r, d)
  BY <1>1, <1>3, <1>7 DEF AuthInv, Shape, LimiterFields
<1>10. now >= e.lockedUntil /\ Count(e.fails, now) + e.inflight < RemoteMaxFails
  <2>1. Len(loginPruneTimes(e.fails)) = Count(e.fails, now)
    BY <1>4, <1>6, PrunedTimes DEF Count
  <2>2. now >= e.lockedUntil /\ Len(loginPruneTimes(e.fails)) + e.inflight < RemoteMaxFails
    BY <1>2 DEF Admit, Admits, Counted
  <2> QED
    BY <2>1, <2>2
<1>11. Fitting(now, d, wrong'[r], Cardinality(Mistaken(r)))
  BY <1>4, <1>5, <1>8, <1>10, FitAdmitted
<1>12. \A u : Mistaken(u)' = Mistaken(u)
  <2>1. \A g \in Handlers : g # h => req'[g] = req[g]
    BY DEF Admit, AuthInv, Shape
  <2>2. req'[h].pc # "wrong"
    BY DEF Admit, AuthInv, Shape, Done
  <2> QED
    BY <2>1, <2>2 DEF Mistaken
<1>13. ASSUME NEW u \in Remotes
       PROVE  Fitting(now, RemoteState(limiter'.remotes, u), wrong'[u], Cardinality(Mistaken(u)))
  <2>1. CASE u = r
    BY <1>9, <1>11, <2>1, WithState
  <2>2. CASE u # r
    BY <1>3, <1>9, <2>2, WithState
  <2> QED
    BY <2>1, <2>2
<1> QED
  BY <1>3, <1>12, <1>13 DEF GuessInv

(* attempt.release                                                         *)
LEMMA ReleaseGuesses ==
  ASSUME AuthInv, GuessInv, NEW h \in Handlers, req[h].pc \in Held \ {"wrong"},
         releaseAttempt(req[h].remote), \A g \in Handlers : g # h => req'[g] = req[g],
         req'[h].pc # "wrong", wrong' = wrong, now' = now
  PROVE  GuessInv'
<1>1. PICK r, e : r = req[h].remote /\ e = RemoteState(limiter.remotes, r)
  OBVIOUS
<1>2. r \in Remotes /\ e.inflight > 0
  BY <1>1, AttemptCounted
<1>3. now \in Nat /\ \A u : Cardinality(Mistaken(u)) \in Nat
  BY MistakenFinite DEF AuthInv, Told
<1>4. Fitting(now, e, wrong[r], Cardinality(Mistaken(r)))
  BY <1>1, <1>2 DEF GuessInv
<1>5. DOMAIN e = EntryFields /\ e.inflight \in Nat
  BY <1>4 DEF Fitting
<1>6. PICK d : d = Freed(r)
  OBVIOUS
<1>7. /\ DOMAIN d = EntryFields /\ d.fails = e.fails
      /\ d.inflight = e.inflight - 1 /\ d.lockedUntil = e.lockedUntil
  BY <1>1, <1>2, <1>5, <1>6 DEF EntryFields, Freed
<1>8. Fitting(now, d, wrong[r], Cardinality(Mistaken(r)))
  BY <1>2, <1>3, <1>4, <1>7, FitReleased
<1>9. PICK rs : rs = With(limiter.remotes, r, d)
  OBVIOUS
<1>10. r \in DOMAIN rs /\ limiter'.remotes = dropIfIdle(rs, r)
  BY <1>1, <1>6, <1>9, WithState DEF releaseAttempt, LimiterFreed, AuthInv, Shape, LimiterFields
<1>11. \A u : Mistaken(u)' = Mistaken(u)
  BY DEF Mistaken
<1>12. ASSUME NEW u \in Remotes
       PROVE  Fitting(now, RemoteState(limiter'.remotes, u), wrong[u], Cardinality(Mistaken(u)))
  <2>1. Fitting(now, RemoteState(rs, u), wrong[u], Cardinality(Mistaken(u)))
    <3>1. CASE u = r
      BY <1>8, <1>9, <3>1, WithState
    <3>2. CASE u # r
      BY <1>9, <3>2, WithState DEF GuessInv
    <3> QED
      BY <3>1, <3>2
  <2> QED
    BY <1>3, <1>10, <2>1, IdleFits
<1> QED
  BY <1>11, <1>12 DEF GuessInv

(* attempt.succeed                                                         *)
LEMMA SucceedGuesses ==
  ASSUME AuthInv, GuessInv, NEW h \in Handlers, Succeed(h)
  PROVE  GuessInv'
<1>1. PICK r, e : r = req[h].remote /\ e = RemoteState(limiter.remotes, r)
  OBVIOUS
<1>2. r \in Remotes /\ e.inflight > 0
  BY <1>1, AttemptCounted DEF Succeed, Held
<1>3. now \in Nat /\ now' = now /\ \A u : Cardinality(Mistaken(u)) \in Nat
  BY MistakenFinite DEF AuthInv, Told, Succeed
<1>4. Fitting(now, e, wrong[r], Cardinality(Mistaken(r)))
  BY <1>1, <1>2 DEF GuessInv
<1>5. DOMAIN e = EntryFields /\ e.inflight \in Nat
  BY <1>4 DEF Fitting
<1>6. PICK d : d = [Freed(r) EXCEPT !.fails = <<>>]
  OBVIOUS
<1>7. /\ DOMAIN d = EntryFields /\ d.fails = <<>>
      /\ d.inflight = e.inflight - 1 /\ d.lockedUntil = e.lockedUntil
  <2>1. PICK f : f = Freed(r)
    OBVIOUS
  <2>2. DOMAIN f = EntryFields /\ f.inflight = e.inflight - 1 /\ f.lockedUntil = e.lockedUntil
    BY <1>1, <1>2, <1>5, <2>1 DEF EntryFields, Freed
  <2> QED
    BY <1>6, <2>1, <2>2 DEF EntryFields
<1>8. Fitting(now, d, <<>>, Cardinality(Mistaken(r)))
  BY <1>2, <1>3, <1>4, <1>7, FitSucceeded
<1>9. PICK rs : rs = With(limiter.remotes, r, d)
  OBVIOUS
<1>10. r \in DOMAIN rs /\ limiter'.remotes = dropIfIdle(rs, r)
  BY <1>1, <1>6, <1>9, WithState
  DEF Succeed, succeedAttempt, LimiterFreed, AuthInv, Shape, LimiterFields
<1>11. \A u : Mistaken(u)' = Mistaken(u)
  <2>1. \A g \in Handlers : g # h => req'[g] = req[g]
    BY DEF Succeed, AuthInv, Shape
  <2>2. req[h].pc # "wrong" /\ req'[h].pc # "wrong"
    BY DEF Succeed, AuthInv, Shape, ReqFields
  <2> QED
    BY <2>1, <2>2 DEF Mistaken
<1>12. /\ DOMAIN wrong' = Remotes /\ wrong'[r] = <<>>
       /\ \A u \in Remotes : u # r => wrong'[u] = wrong[u]
  BY <1>1, <1>2 DEF Succeed, succeedAttempt, GuessInv
<1>13. ASSUME NEW u \in Remotes
       PROVE  Fitting(now, RemoteState(limiter'.remotes, u), wrong'[u], Cardinality(Mistaken(u)))
  <2>1. Fitting(now, RemoteState(rs, u), wrong'[u], Cardinality(Mistaken(u)))
    <3>1. CASE u = r
      <4>1. RemoteState(rs, u) = d
        BY <1>9, <3>1, WithState
      <4>2. wrong'[u] = <<>>
        BY <1>12, <3>1, Zenon
      <4> QED
        BY <1>8, <3>1, <4>1, <4>2, Zenon
    <3>2. CASE u # r
      <4>1. RemoteState(rs, u) = RemoteState(limiter.remotes, u)
        BY <1>9, <3>2, WithState
      <4>2. wrong'[u] = wrong[u]
        BY <1>12, <3>2
      <4> QED
        BY <4>1, <4>2 DEF GuessInv
    <3> QED
      BY <3>1, <3>2
  <2> QED
    BY <1>3, <1>10, <2>1, IdleFits
<1> QED
  BY <1>3, <1>11, <1>12, <1>13 DEF GuessInv

(* attempt.fail                                                            *)
LEMMA FailGuesses ==
  ASSUME AuthInv, GuessInv, NEW h \in Handlers, Fail(h)
  PROVE  GuessInv'
<1>1. PICK r, e : r = req[h].remote /\ e = RemoteState(limiter.remotes, r)
  OBVIOUS
<1>2. r \in Remotes /\ e.inflight > 0
  BY <1>1, AttemptCounted DEF Fail, Held
<1>3. now \in Nat /\ now' = now /\ \A u : Cardinality(Mistaken(u)) \in Nat
  BY MistakenFinite DEF AuthInv, Told, Fail
<1>4. Fitting(now, e, wrong[r], Cardinality(Mistaken(r)))
  BY <1>1, <1>2 DEF GuessInv
<1>5. DOMAIN e = EntryFields /\ e.inflight \in Nat
  BY <1>4 DEF Fitting
<1>6. PICK st : st = Freed(r)
  OBVIOUS
<1>7. /\ DOMAIN st = EntryFields /\ st.fails = e.fails
      /\ st.inflight = e.inflight - 1 /\ st.lockedUntil = e.lockedUntil
  BY <1>1, <1>2, <1>5, <1>6 DEF EntryFields, Freed
<1> DEFINE fails  == Append(loginPruneTimes(st.fails), now)
           locked == Len(fails) >= RemoteMaxFails
           all    == Append(loginPruneTimes(limiter.fails), now)
           full   == Len(all) >= GlobalMaxFails
           f1     == IF locked THEN <<>> ELSE fails
           t1     == IF locked THEN now + Window ELSE st.lockedUntil
           f2     == IF full THEN <<>> ELSE all
<1>8. PICK rs \in WithRoom(r) :
        /\ limiter' = [LimiterFreed(With(rs, r, [st EXCEPT !.fails = f1, !.lockedUntil = t1])) EXCEPT
                         !.fails = f2, !.until = IF full THEN now + Window ELSE @]
        /\ wrong' = Forgotten(rs)
  BY <1>1, <1>6 DEF Fail, failAttempt
<1>9. PICK fs : fs = fails
  OBVIOUS
<1>10. /\ fs = Append(loginPruneTimes(e.fails), now)
       /\ f1 = IF Len(fs) >= RemoteMaxFails THEN <<>> ELSE fs
       /\ t1 = IF Len(fs) >= RemoteMaxFails THEN now + Window ELSE e.lockedUntil
  BY <1>7, <1>9
<1> HIDE DEF f1, t1, f2, full
<1>11. PICK d : d = [st EXCEPT !.fails = f1, !.lockedUntil = t1]
  OBVIOUS
<1>12. DOMAIN d = EntryFields /\ d.inflight = e.inflight - 1 /\ d.fails = f1 /\ d.lockedUntil = t1
  BY <1>7, <1>11 DEF EntryFields
<1>13. limiter'.remotes = With(rs, r, d)
  <2>1. PICK l : l = LimiterFreed(With(rs, r, d))
    OBVIOUS
  <2>2. DOMAIN l = LimiterFields /\ l.remotes = With(rs, r, d)
    BY <2>1 DEF LimiterFreed, AuthInv, Shape, LimiterFields
  <2>3. limiter' = [l EXCEPT !.fails = f2, !.until = IF full THEN now + Window ELSE @]
    BY <1>8, <1>11, <2>1
  <2> QED
    BY <2>2, <2>3 DEF LimiterFields
<1>14. /\ DOMAIN wrong' = Remotes /\ wrong'[r] = wrong[r]
       /\ \A u \in Remotes : Fitting(now, RemoteState(rs, u), wrong'[u], Cardinality(Mistaken(u)))
  BY <1>2, <1>8, RoomFits
<1>15. /\ h \in Mistaken(r) /\ Mistaken(r)' = Mistaken(r) \ {h}
       /\ \A u : u # r => Mistaken(u)' = Mistaken(u)
  <2>1. \A g \in Handlers : g # h => req'[g] = req[g]
    BY DEF Fail, AuthInv, Shape
  <2>2. req[h].pc = "wrong" /\ req'[h].pc # "wrong"
    BY DEF Fail, AuthInv, Shape, Done
  <2> QED
    BY <1>1, <2>1, <2>2 DEF Mistaken
<1>16. PICK n \in Nat : n = Cardinality(Mistaken(r)) /\ n > 0 /\ n <= e.inflight
                        /\ Cardinality(Mistaken(r)') = n - 1
  <2>1. Cardinality(Mistaken(r)') = Cardinality(Mistaken(r)) - 1
    BY <1>15, MistakenFinite, FS_RemoveElement
  <2>2. Mistaken(r) # {} /\ IsFiniteSet(Mistaken(r))
    BY <1>15, MistakenFinite
  <2>3. Cardinality(Mistaken(r)) # 0
    BY <2>2, FS_EmptySet
  <2>4. Cardinality(Mistaken(r)) <= e.inflight
    BY <1>1, <1>2, MistakenCounted
  <2> QED
    BY <1>3, <2>1, <2>3, <2>4
<1>17. Fitting(now, d, wrong[r], n - 1)
  <2>1. d.fails = IF Len(fs) >= RemoteMaxFails THEN <<>> ELSE fs
    BY <1>10, <1>12, Zenon
  <2>2. d.lockedUntil = IF Len(fs) >= RemoteMaxFails THEN now + Window ELSE e.lockedUntil
    BY <1>10, <1>12, Zenon
  <2> QED
    BY <1>3, <1>4, <1>10, <1>12, <1>16, <2>1, <2>2, FitFailed, ZenonT(30)
<1>18. ASSUME NEW u \in Remotes
       PROVE  Fitting(now, RemoteState(limiter'.remotes, u), wrong'[u], Cardinality(Mistaken(u)'))
  <2>1. CASE u = r
    <3>1. RemoteState(limiter'.remotes, u) = d
      BY <1>13, <2>1, WithState
    <3> QED
      BY <1>14, <1>16, <1>17, <2>1, <3>1
  <2>2. CASE u # r
    <3>1. RemoteState(limiter'.remotes, u) = RemoteState(rs, u)
      BY <1>13, <2>2, WithState
    <3> QED
      BY <1>14, <1>15, <2>2, <3>1
  <2> QED
    BY <2>1, <2>2
<1> QED
  BY <1>3, <1>14, <1>18 DEF GuessInv

(* Steps of a handler that the limiter does not see.                       *)
LEMMA SeparateGuesses ==
  ASSUME AuthInv, GuessInv, NEW h \in Handlers,
         \/ \E id \in 1..Logins : \/ \E api \in BOOLEAN : Lookup(h, id, api)
                                  \/ handleLogout(h, id)
                                  \/ RotateWrite(h, id)
         \/ FireInvalidated(h) \/ TakeSlot(h) \/ AbandonSlot(h)
         \/ \E cookie \in {{}} \cup {{id} : id \in 1..Logins} : InsertSession(h, cookie)
         \/ \E how \in {"set", "clear", "refuse"} : WritePassword(h, how)
         \/ RestatPassword(h) \/ ApplyPassword(h)
         \/ \E ok \in BOOLEAN : RereadPassword(h, ok) \/ RotateStat(h, ok)
         \/ RotateApply(h)
  PROVE  GuessInv'
<1>1. limiter' = limiter /\ wrong' = wrong /\ now' = now
  BY DEF Lookup, handleLogout, RotateWrite, FireInvalidated, TakeSlot, AbandonSlot,
         InsertSession, WritePassword, RestatPassword, RereadPassword, ApplyPassword,
         RotateStat, RotateApply
<1>2. req[h].pc # "wrong"
  BY DEF Lookup, handleLogout, RotateWrite, FireInvalidated, TakeSlot, AbandonSlot,
         InsertSession, WritePassword, RestatPassword, RereadPassword, ApplyPassword,
         RotateStat, RotateApply
<1>3. DOMAIN req = Handlers
  BY DEF AuthInv, Shape
<1>4. \A g \in Handlers : g # h => req'[g] = req[g]
  BY <1>3
  DEF Lookup, handleLogout, RotateWrite, FireInvalidated, TakeSlot, AbandonSlot,
      InsertSession, WritePassword, RestatPassword, RereadPassword, ApplyPassword,
      RotateStat, RotateApply
<1> QED
  BY <1>1, <1>2, <1>4, HandlerGuessesKept

LEMMA DelayGuesses ==
  ASSUME AuthInv, GuessInv, NEW h \in Handlers,
         EnterDelay(h) \/ LeaveDelay(h) \/ AbandonDelay(h) \/ ReleaseAttempt(h)
  PROVE  GuessInv'
<1>1. wrong' = wrong /\ now' = now
  BY DEF EnterDelay, LeaveDelay, AbandonDelay, ReleaseAttempt
<1>2. req[h].pc \in Held \ {"wrong"}
  BY DEF EnterDelay, LeaveDelay, AbandonDelay, ReleaseAttempt, Held
<1>3. DOMAIN req = Handlers /\ DOMAIN req[h] = ReqFields /\ DOMAIN limiter = LimiterFields
  BY DEF AuthInv, Shape
<1>4. \A g \in Handlers : g # h => req'[g] = req[g]
  BY <1>3 DEF EnterDelay, LeaveDelay, AbandonDelay, ReleaseAttempt
<1>5. CASE limiter'.remotes = limiter.remotes
  BY <1>1, <1>2, <1>4, <1>5, HandlerGuessesKept
<1>6. CASE releaseAttempt(req[h].remote) /\ Finish(h)
  <2>1. req'[h].pc # "wrong"
    BY <1>3, <1>6 DEF Done
  <2> QED
    BY <1>1, <1>2, <1>4, <1>6, <2>1, ReleaseGuesses
<1>7. ASSUME NEW k, limiter' = [limiter EXCEPT !.delayed = k] PROVE limiter'.remotes = limiter.remotes
  BY <1>3, <1>7 DEF LimiterFields
<1> QED
  BY <1>5, <1>6, <1>7 DEF EnterDelay, LeaveDelay, AbandonDelay, ReleaseAttempt

LEMMA ComparedGuesses ==
  ASSUME AuthInv, GuessInv, NEW h \in Handlers, CompareToken(h) \/ VerifyPassword(h)
  PROVE  GuessInv'
<1>1. limiter' = limiter /\ now' = now
  BY DEF CompareToken, VerifyPassword
<1>2. req[h].pc \in Held \ {"wrong"}
  BY DEF CompareToken, VerifyPassword, Held
<1>3. DOMAIN req = Handlers /\ DOMAIN req[h] = ReqFields
  BY DEF AuthInv, Shape
<1>4. \A g \in Handlers : g # h => req'[g] = req[g]
  BY <1>3 DEF CompareToken, VerifyPassword, Compared
<1>5. CASE wrong' = wrong
  BY <1>1, <1>2, <1>4, <1>5, HandlerGuessesKept
<1>6. CASE Compared(h, FALSE)
  <2>1. req' = [req EXCEPT ![h] = [req[h] EXCEPT !.pc = "wrong",
                                     !.checked = IF @ = 0 THEN generation ELSE @]]
    BY <1>3, <1>6 DEF Compared
  <2>2. req'[h].pc = "wrong" /\ req'[h].remote = req[h].remote
    BY <1>3, <2>1 DEF ReqFields
  <2>3. wrong' = [wrong EXCEPT ![req[h].remote] = Append(loginPruneTimes(@), now)]
    BY <1>6 DEF Compared
  <2> QED
    BY <1>1, <1>2, <1>4, <2>2, <2>3, WrongGuess
<1>7. wrong' = wrong \/ Compared(h, FALSE)
  BY DEF CompareToken, VerifyPassword, Compared
<1> QED
  BY <1>5, <1>6, <1>7

LEMMA ServeGuesses ==
  ASSUME AuthInv, GuessInv, NEW h \in Handlers, Serve(h)
  PROVE  GuessInv'
<1>1. CASE \E r \in Remotes, cred \in 1..writes :
             \/ \E way \in {"token", "password"} : Login(h, way, r, cred)
             \/ \E id \in 1..Logins : ChangePassword(h, id, r, cred)
  <2>1. PICK r \in Remotes : \E cred, k : Admit(h, k, r, cred) /\ req[h].pc = "done" /\ now' = now
    BY <1>1 DEF Login, ChangePassword
  <2>2. PICK cred, k : Admit(h, k, r, cred) /\ req[h].pc = "done" /\ now' = now
    BY <2>1
  <2> QED
    BY <2>2, AdmitGuesses
<1> QED
  BY <1>1, SeparateGuesses, DelayGuesses, ComparedGuesses, FailGuesses, SucceedGuesses DEF Serve

LEMMA OtherGuesses ==
  ASSUME AuthInv, GuessInv,
         \/ Watch \/ CLIRotate \/ SetStopping \/ UNCHANGED vars
         \/ \E is \in {"hash", "none", "bad"} : CLIPassword(is)
  PROVE  GuessInv'
<1>1. limiter' = limiter /\ wrong' = wrong /\ now' = now /\ req' = req
  <2>1. CASE Watch
    BY <2>1 DEF Watch, StatToken, RestatToken, ApplyToken, ReadToken, SnapPassword,
                StatPassword, WatchRestat, ReadPassword, ApplyPasswordFile, Sweep, WatchFire, WatchOnly
  <2>2. CASE CLIRotate \/ SetStopping \/ UNCHANGED vars
             \/ \E is \in {"hash", "none", "bad"} : CLIPassword(is)
    BY <2>2 DEF CLIRotate, SetStopping, CLIPassword, vars
  <2> QED
    BY <2>1, <2>2
<1> QED
  BY <1>1, GuessesKept

LEMMA GuessInit == Init => GuessInv
<1> SUFFICES ASSUME Init PROVE GuessInv
  OBVIOUS
<1>1. DOMAIN wrong = Remotes /\ now = 0 /\ \A r \in Remotes : wrong[r] = <<>>
  BY DEF Init
<1>2. DOMAIN limiter.remotes = {}
  BY DEF Init, NewLimiter
<1>3. ASSUME NEW r \in Remotes
      PROVE  Fitting(now, RemoteState(limiter.remotes, r), wrong[r], Cardinality(Mistaken(r)))
  <2>1. RemoteState(limiter.remotes, r) = NoFails
    BY <1>2 DEF RemoteState
  <2>2. wrong[r] = <<>>
    BY <1>1
  <2>3. now \in Nat /\ Cardinality(Mistaken(r)) \in Nat
    BY <1>1, MistakenFinite
  <2>4. Fitting(now, NoFails, <<>>, Cardinality(Mistaken(r)))
    BY <2>3, FitNone
  <2> QED
    BY <2>1, <2>2, <2>4, Zenon
<1> QED
  BY <1>1, <1>3 DEF GuessInv

(* However many requests guess at the same time: the comparisons of one    *)
(* remote that were wrong within the window never exceed                   *)
(* loginRemoteMaxFails, whatever the delays, locks, evictions and          *)
(* successes in between, because check counts the attempts in flight too.  *)
THEOREM GuessesStayBounded == Spec => []GuessesAreBounded
<1>1. Init => GuessInv
  BY GuessInit
<1>2. AuthInv /\ GuessInv /\ [Next]_vars => GuessInv'
  <2> SUFFICES ASSUME AuthInv, GuessInv, [Next]_vars PROVE GuessInv'
    OBVIOUS
  <2>1. CASE Tick
    BY <2>1, TickGuesses DEF Tick
  <2> QED
    BY <2>1, ServeGuesses, OtherGuesses DEF Next
<1>3. AuthInv /\ GuessInv => GuessesAreBounded
  <2> SUFFICES ASSUME AuthInv, GuessInv, NEW r \in Remotes
               PROVE  Len(loginPruneTimes(wrong[r])) <= RemoteMaxFails
    BY DEF GuessesAreBounded
  <2>1. PICK e, w, n : /\ e = RemoteState(limiter.remotes, r) /\ w = wrong[r]
                       /\ n = Cardinality(Mistaken(r))
    OBVIOUS
  <2>2. now \in Nat /\ n \in Nat /\ n <= e.inflight
    BY <2>1, MistakenFinite, MistakenCounted DEF AuthInv, Told
  <2>3. Fitting(now, e, w, n)
    BY <2>1 DEF GuessInv
  <2>4. Count(w, now) <= RemoteMaxFails
    BY <2>2, <2>3, GuessesFit
  <2>5. Len(loginPruneTimes(w)) = Count(w, now)
    BY <2>2, <2>3, PrunedTimes DEF Fitting, Count
  <2> QED
    BY <2>1, <2>4, <2>5
<1> QED
  BY <1>1, <1>2, <1>3, AuthInvHolds, PTL DEF Spec

-----------------------------------------------------------------------------
(* The calls of the web admin and the stop of a headless process: Headless *)
(* and WebCalls.                                                           *)


Phases == {"down", "applying", "serving", "waiting", "closing", "flush", "flushing", "stopping"}
HandlerStates == {"new", "tracked", "admitted", "parsed", "ran", "recorded", "gone"}

WebTyped ==
  /\ handler \in [Numbers -> HandlerStates] /\ kind \in [Numbers -> Kinds]
  /\ refusing \in BOOLEAN /\ closed \in BOOLEAN /\ waited \in BOOLEAN /\ clean \in BOOLEAN
  /\ queue \in Seq(Numbers \cup {0}) /\ phase \in Phases

\* The calls that trackCall counts.
Busy == {n \in Numbers : kind[n] \in Tracked /\ handler[n] \in Running}

\* The count of trackCall is right, and after WaitCalls answered true it is
\* zero and no call is let in.
CallsCounted ==
  /\ calls = Cardinality(Busy)
  /\ phase \in {"waiting", "closing"} => refusing
  /\ waited => phase # "down" /\ refusing /\ calls = 0

\* No handler runs before the port is listened on, nor after a clean Close.
QuietPhases ==
  /\ phase \in {"down", "applying"} => Quiet
  /\ phase \in {"flush", "flushing", "stopping"} /\ clean => Quiet

\* The numbers of the calls waiting in the queue.
Enqueued == {queue[i] : i \in DOMAIN queue} \ {0}

\* The calls that have run and are about to be recorded.
Unrecorded == {n \in Numbers : handler[n] = "ran" /\ kind[n] \in Audited}

\* What took effect is in the table or lost, in the queue, or its handler is
\* about to record it with the writer open.
EffectsKept ==
  /\ closed => phase \in {"down", "flushing", "stopping"}
  /\ clean \/ ~closed => effects \subseteq entries \cup lost \cup Enqueued \cup Unrecorded
  /\ phase = "stopping" /\ clean => queue = <<>>

HeadlessInv == WebTyped /\ CallsCounted /\ QuietPhases /\ EffectsKept

(* The calls are numbered, so what trackCall counts is finite.             *)
LEMMA BusyFinite ==
  ASSUME Calls \in Nat
  PROVE  IsFiniteSet(Numbers) /\ IsFiniteSet(Busy) /\ Cardinality(Busy) \in Nat
<1>1. IsFiniteSet(Numbers)
  BY FS_Interval DEF Numbers
<1>2. Busy \subseteq Numbers
  BY DEF Busy
<1>3. IsFiniteSet(Busy)
  BY <1>1, <1>2, FS_Subset
<1> QED
  BY <1>1, <1>3, FS_CardinalityType

(* A handler runs only in the phases in which the server may have one, and *)
(* never with the writer closed after a clean Close.                       *)
LEMMA RunningPhase ==
  ASSUME HeadlessInv, NEW n \in Numbers, handler[n] \in Running
  PROVE  /\ phase \notin {"down", "applying"}
         /\ phase \in {"flush", "flushing", "stopping"} => ~clean
         /\ ~clean \/ ~closed
<1>1. ~Quiet
  BY DEF Quiet
<1> QED
  BY <1>1 DEF HeadlessInv, QuietPhases, EffectsKept

\* A step of the call n.
CallMoves(n) ==
  /\ phase' = phase /\ waited' = waited /\ clean' = clean
  /\ refusing' = refusing /\ closed' = closed
  /\ phase \notin {"down", "applying"}
  /\ phase \in {"flush", "flushing", "stopping"} => ~clean
  /\ ~clean \/ ~closed

(* A step of a call keeps the invariant if it keeps the count and if, with *)
(* the writer open, it loses no effect.                                    *)
LEMMA CallMovesStep ==
  ASSUME HeadlessInv, NEW n \in Numbers, CallMoves(n), WebTyped',
         calls' = Cardinality(Busy'), refusing /\ calls = 0 => calls' = 0,
         ~closed => effects' \subseteq entries' \cup lost' \cup Enqueued' \cup Unrecorded'
  PROVE  HeadlessInv'
<1>1. CallsCounted'
  BY DEF HeadlessInv, CallsCounted, CallMoves
<1>2. QuietPhases'
  BY DEF QuietPhases, CallMoves
<1>3. EffectsKept'
  BY DEF HeadlessInv, EffectsKept, CallMoves
<1> QED
  BY <1>1, <1>2, <1>3 DEF HeadlessInv

(* trackCall and intake.                                                   *)
LEMMA ArriveKeeps ==
  ASSUME Calls \in Nat, HeadlessInv, NEW n \in Numbers, NEW k \in Kinds,
         Arrive(n, k), phase \in {"serving", "waiting", "closing"},
         UNCHANGED <<phase, waited, clean>>
  PROVE  HeadlessInv'
<1>1. WebTyped /\ CallsCounted /\ EffectsKept
  BY DEF HeadlessInv
<1>2. CallMoves(n) /\ ~closed
  BY <1>1 DEF Arrive, CallMoves, EffectsKept
<1>3. /\ handler[n] = "new"
      /\ queue' = queue /\ entries' = entries /\ lost' = lost /\ effects' = effects
      /\ refusing' = refusing /\ closed' = closed
  BY DEF Arrive
<1>4. n \notin Busy /\ n \notin Unrecorded
  BY <1>3 DEF Busy, Unrecorded, Running
<1>5. calls \in Nat /\ IsFiniteSet(Busy) /\ calls = Cardinality(Busy)
  BY <1>1, BusyFinite DEF CallsCounted
<1>6. CASE HandlerTo(n, "gone") /\ UNCHANGED <<kind, calls>>
  <2>1. /\ handler'[n] = "gone"
        /\ \A m \in Numbers : m # n => handler'[m] = handler[m] /\ kind'[m] = kind[m]
    BY <1>1, <1>3, <1>6 DEF WebTyped, HandlerTo
  <2>2. WebTyped'
    BY <1>1, <1>3, <1>6 DEF WebTyped, HandlerTo, HandlerStates, Arrive
  <2>3. Busy' = Busy /\ Unrecorded' = Unrecorded /\ Enqueued' = Enqueued
    BY <1>3, <1>4, <2>1 DEF Busy, Unrecorded, Enqueued, Running
  <2> QED
    BY <1>1, <1>2, <1>3, <1>5, <1>6, <2>2, <2>3, CallMovesStep DEF EffectsKept
<1>7. CASE /\ ~(refusing /\ k \in Gated)
           /\ kind' = [kind EXCEPT ![n] = k]
           /\ HandlerTo(n, "tracked")
           /\ calls' = IF k \in Tracked THEN calls + 1 ELSE calls
  <2>1. /\ handler'[n] = "tracked" /\ kind'[n] = k
        /\ \A m \in Numbers : m # n => handler'[m] = handler[m] /\ kind'[m] = kind[m]
    BY <1>1, <1>3, <1>7 DEF WebTyped, HandlerTo
  <2>2. WebTyped'
    BY <1>1, <1>3, <1>7 DEF WebTyped, HandlerTo, HandlerStates, Arrive
  <2>3. Busy' = IF k \in Tracked THEN Busy \cup {n} ELSE Busy
    BY <1>4, <2>1 DEF Busy, Running
  <2>4. calls' = Cardinality(Busy')
    BY <1>4, <1>5, <1>7, <2>3, FS_AddElement
  <2>5. Unrecorded' = Unrecorded /\ Enqueued' = Enqueued
    BY <1>3, <1>4, <2>1 DEF Unrecorded, Enqueued
  <2>6. refusing /\ calls = 0 => calls' = 0
    BY <1>7 DEF Gated
  <2> QED
    BY <1>1, <1>2, <1>3, <1>7, <2>2, <2>4, <2>5, <2>6, CallMovesStep DEF EffectsKept
<1> QED
  BY <1>6, <1>7 DEF Arrive

\* What a step of the running call n leaves alone.
StaysRunning(n, h) ==
  /\ handler[n] \in Running /\ h \in Running /\ handler' = [handler EXCEPT ![n] = h]
  /\ kind' = kind /\ calls' = calls /\ refusing' = refusing /\ closed' = closed
  /\ phase' = phase /\ waited' = waited /\ clean' = clean

(* A call that goes on running is still counted.                           *)
LEMMA StaysRunningStep ==
  ASSUME HeadlessInv, NEW n \in Numbers, NEW h, StaysRunning(n, h),
         queue' \in Seq(Numbers \cup {0}),
         ~closed => effects' \subseteq entries' \cup lost' \cup Enqueued' \cup Unrecorded'
  PROVE  HeadlessInv'
<1>1. WebTyped /\ CallsCounted
  BY DEF HeadlessInv
<1>2. CallMoves(n)
  BY RunningPhase DEF CallMoves, StaysRunning
<1>3. handler'[n] = h /\ \A m \in Numbers : m # n => handler'[m] = handler[m]
  BY <1>1 DEF WebTyped, StaysRunning
<1>4. WebTyped'
  BY <1>1 DEF WebTyped, StaysRunning, HandlerStates, Running
<1>5. Busy' = Busy
  BY <1>3 DEF Busy, StaysRunning
<1> QED
  BY <1>1, <1>2, <1>4, <1>5, CallMovesStep DEF CallsCounted, StaysRunning

(* record puts the entry in the queue or counts it as lost, unless the     *)
(* writer is closed.                                                       *)
LEMMA PushStep ==
  ASSUME QueueLen \in Nat, queue \in Seq(Numbers \cup {0}), NEW e \in Numbers \cup {0}, Push(e)
  PROVE  /\ queue' \in Seq(Numbers \cup {0})
         /\ lost \subseteq lost' /\ Enqueued \subseteq Enqueued'
         /\ ~closed => About(e) \subseteq lost' \cup Enqueued'
<1>1. CASE ~closed /\ Len(queue) < QueueLen
  <2>1. queue' = Append(queue, e) /\ lost' = lost
    BY <1>1 DEF Push
  <2>2. /\ queue' \in Seq(Numbers \cup {0}) /\ Len(queue') = Len(queue) + 1
        /\ \A i \in 1..Len(queue) : queue'[i] = queue[i] /\ queue'[Len(queue) + 1] = e
    BY <2>1
  <2>3. queue'[Len(queue) + 1] = e
    BY <2>1
  <2>4. DOMAIN queue = 1..Len(queue) /\ DOMAIN queue' = 1..Len(queue')
    BY <2>2
  <2>5. /\ DOMAIN queue \subseteq DOMAIN queue' /\ Len(queue) + 1 \in DOMAIN queue'
        /\ \A i \in DOMAIN queue : queue'[i] = queue[i]
    BY <2>2, <2>4
  <2> QED
    BY <2>1, <2>2, <2>3, <2>5 DEF Enqueued, About
<1>2. CASE ~closed /\ Len(queue) >= QueueLen
  BY <1>2 DEF Push, Enqueued
<1>3. CASE closed
  BY <1>3 DEF Push, Enqueued
<1> QED
  BY <1>1, <1>2, <1>3

\* The call n ends: the deferred functions of its handler have run.
Ends(n) ==
  /\ handler[n] \in Running /\ handler' = [handler EXCEPT ![n] = "gone"]
  /\ handler[n] # "ran"
  /\ \A m \in Numbers : m # n => kind'[m] = kind[m]
  /\ kind' \in [Numbers -> Kinds]
  /\ calls' = IF kind[n] \in Tracked THEN calls - 1 ELSE calls
  /\ UNCHANGED <<refusing, queue, closed, entries, lost, effects, phase, waited, clean>>

(* A call that ends is no longer counted.                                  *)
LEMMA EndsStep ==
  ASSUME Calls \in Nat, HeadlessInv, NEW n \in Numbers, Ends(n)
  PROVE  HeadlessInv'
<1>1. WebTyped /\ CallsCounted /\ EffectsKept
  BY DEF HeadlessInv
<1>2. CallMoves(n)
  BY RunningPhase DEF CallMoves, Ends
<1>3. /\ handler'[n] = "gone" /\ handler[n] # "ran" /\ handler[n] \in Running
      /\ \A m \in Numbers : m # n => handler'[m] = handler[m] /\ kind'[m] = kind[m]
  BY <1>1 DEF WebTyped, Ends
<1>4. WebTyped'
  BY <1>1 DEF WebTyped, Ends, HandlerStates
<1>5. calls \in Nat /\ IsFiniteSet(Busy) /\ calls = Cardinality(Busy)
  BY <1>1, BusyFinite DEF CallsCounted
<1>6. CASE kind[n] \in Tracked
  <2>1. n \in Busy /\ Busy' = Busy \ {n}
    BY <1>3, <1>6 DEF Busy, Running
  <2>2. calls' = calls - 1 /\ Cardinality(Busy') = calls - 1
    BY <1>5, <1>6, <2>1, FS_RemoveElement DEF Ends
  <2>3. calls # 0
    BY <1>5, <2>1, FS_EmptySet
  <2>4. Unrecorded' = Unrecorded /\ Enqueued' = Enqueued
    BY <1>3 DEF Unrecorded, Enqueued, Ends
  <2> QED
    BY <1>1, <1>2, <1>4, <2>2, <2>3, <2>4, CallMovesStep DEF Ends, EffectsKept
<1>7. CASE kind[n] \notin Tracked
  <2>1. Busy' = Busy /\ calls' = calls
    BY <1>3, <1>7 DEF Busy, Running, Ends
  <2>2. Unrecorded' = Unrecorded /\ Enqueued' = Enqueued
    BY <1>3 DEF Unrecorded, Enqueued, Ends
  <2> QED
    BY <1>1, <1>2, <1>4, <1>5, <2>1, <2>2, CallMovesStep DEF Ends, EffectsKept
<1> QED
  BY <1>6, <1>7

\* What a step of a handler leaves alone.
Serves == UNCHANGED <<phase, waited, clean>>

(* ServeHTTP up to admit.                                                  *)
LEMMA AdmitKeeps ==
  ASSUME Calls \in Nat, HeadlessInv, NEW n \in Numbers, AdmitCall(n), Serves
  PROVE  HeadlessInv'
<1>1. WebTyped /\ EffectsKept
  BY DEF HeadlessInv
<1>2. CASE HandlerTo(n, "admitted") /\ UNCHANGED <<calls, kind>>
  <2>1. StaysRunning(n, "admitted")
    BY <1>2 DEF AdmitCall, Serves, StaysRunning, Running, HandlerTo
  <2>2. Unrecorded' = Unrecorded /\ Enqueued' = Enqueued
    BY <1>1, <1>2 DEF AdmitCall, Unrecorded, Enqueued, WebTyped, HandlerTo
  <2> QED
    BY <1>1, <2>1, <2>2, StaysRunningStep DEF AdmitCall, WebTyped, EffectsKept
<1>3. CASE HandlerTo(n, "gone") /\ calls' = calls - 1 /\ kind' = [kind EXCEPT ![n] = "call"]
  <2>1. Ends(n)
    BY <1>1, <1>3 DEF AdmitCall, Serves, Ends, Running, HandlerTo, WebTyped, Kinds
  <2> QED
    BY <2>1, EndsStep
<1> QED
  BY <1>2, <1>3 DEF AdmitCall

(* The body is read and parsed.                                            *)
LEMMA ParseKeeps ==
  ASSUME QueueLen \in Nat, HeadlessInv, NEW n \in Numbers, Parse(n), Serves
  PROVE  HeadlessInv'
<1>1. WebTyped /\ EffectsKept /\ queue \in Seq(Numbers \cup {0})
  BY DEF HeadlessInv, WebTyped
<1>2. PICK h \in {"parsed", "recorded"} : HandlerTo(n, h)
  BY DEF Parse
<1>3. StaysRunning(n, h)
  BY <1>2 DEF Parse, Serves, StaysRunning, Running, HandlerTo
<1>4. Unrecorded' = Unrecorded /\ effects' = effects /\ entries' = entries
  BY <1>1, <1>2 DEF Parse, Unrecorded, WebTyped, HandlerTo
<1>5. queue' \in Seq(Numbers \cup {0}) /\ lost \subseteq lost' /\ Enqueued \subseteq Enqueued'
  <2>1. CASE UNCHANGED <<queue, lost>>
    BY <1>1, <2>1 DEF Enqueued
  <2>2. CASE Push(n)
    BY <1>1, <2>2, PushStep
  <2> QED
    BY <2>1, <2>2 DEF Parse
<1>6. ~closed => effects' \subseteq entries' \cup lost' \cup Enqueued' \cup Unrecorded'
  BY <1>1, <1>4, <1>5 DEF EffectsKept
<1> QED
  BY <1>3, <1>5, <1>6, StaysRunningStep

(* webInvokeMethod: an effect, recorded next.                              *)
LEMMA RunKeeps ==
  ASSUME HeadlessInv, NEW n \in Numbers, Run(n), Serves
  PROVE  HeadlessInv'
<1>1. WebTyped /\ EffectsKept /\ queue \in Seq(Numbers \cup {0})
  BY DEF HeadlessInv, WebTyped
<1>2. StaysRunning(n, "ran")
  BY DEF Run, Serves, StaysRunning, Running, HandlerTo
<1>3. /\ Unrecorded \subseteq Unrecorded' /\ Enqueued' = Enqueued
      /\ kind[n] \in Audited => n \in Unrecorded'
      /\ entries' = entries /\ lost' = lost /\ queue' = queue
  BY <1>1 DEF Run, Unrecorded, Enqueued, WebTyped, HandlerTo
<1>4. ~closed => effects' \subseteq entries' \cup lost' \cup Enqueued' \cup Unrecorded'
  BY <1>1, <1>3 DEF EffectsKept, Run
<1> QED
  BY <1>1, <1>2, <1>3, <1>4, StaysRunningStep

(* The record of what ran.                                                 *)
LEMMA AuditKeeps ==
  ASSUME QueueLen \in Nat, HeadlessInv, NEW n \in Numbers, Audit(n), Serves
  PROVE  HeadlessInv'
<1>1. WebTyped /\ EffectsKept /\ queue \in Seq(Numbers \cup {0})
  BY DEF HeadlessInv, WebTyped
<1>2. StaysRunning(n, "recorded")
  BY DEF Audit, Serves, StaysRunning, Running, HandlerTo
<1>3. /\ queue' \in Seq(Numbers \cup {0}) /\ lost \subseteq lost' /\ Enqueued \subseteq Enqueued'
      /\ ~closed /\ kind[n] \in Audited => n \in lost' \cup Enqueued'
  <2>1. CASE kind[n] \in Audited
    <3>1. Push(n) /\ n # 0
      BY <2>1 DEF Audit, Numbers
    <3> QED
      BY <1>1, <3>1, PushStep DEF About
  <2>2. CASE kind[n] \notin Audited
    <3>1. UNCHANGED <<queue, lost>>
      BY <2>2 DEF Audit
    <3> QED
      BY <1>1, <2>2, <3>1 DEF Enqueued
  <2> QED
    BY <2>1, <2>2
<1>4. /\ \A m \in Unrecorded : m \in Unrecorded' \/ (m = n /\ kind[n] \in Audited)
      /\ effects' = effects /\ entries' = entries
  BY <1>1 DEF Audit, Unrecorded, WebTyped, HandlerTo
<1>5. ~closed => effects' \subseteq entries' \cup lost' \cup Enqueued' \cup Unrecorded'
  BY <1>1, <1>3, <1>4 DEF EffectsKept
<1> QED
  BY <1>2, <1>3, <1>5, StaysRunningStep

(* The answer and the deferred count.                                      *)
LEMMA AnswerKeeps ==
  ASSUME Calls \in Nat, HeadlessInv, NEW n \in Numbers, Answer(n), Serves
  PROVE  HeadlessInv'
<1>1. WebTyped
  BY DEF HeadlessInv
<1>2. Ends(n)
  BY <1>1 DEF Answer, Serves, Ends, Running, HandlerTo, WebTyped, Kinds
<1> QED
  BY <1>2, EndsStep

\* The handlers and their count stay as they are.

(* The writer of the audit log moves one entry from the queue.             *)
LEMMA InsertStep ==
  ASSUME queue \in Seq(Numbers \cup {0}), NEW ok \in BOOLEAN, Insert(ok)
  PROVE  /\ queue' \in Seq(Numbers \cup {0})
         /\ entries \cup lost \cup Enqueued \subseteq entries' \cup lost' \cup Enqueued'
<1>1. queue # <<>> /\ queue' = Tail(queue)
  BY DEF Insert
<1>2. /\ Head(queue) = queue[1] /\ queue' \in Seq(Numbers \cup {0})
      /\ Len(queue') = Len(queue) - 1 /\ \A i \in 1..(Len(queue) - 1) : queue'[i] = queue[i + 1]
  BY <1>1
<1>3. ASSUME NEW i \in DOMAIN queue PROVE queue[i] \in {0, Head(queue)} \/ queue[i] \in Enqueued'
  <2>1. CASE i = 1
    BY <1>2, <2>1
  <2>2. CASE i # 1
    <3>1. i \in 1..Len(queue) /\ i - 1 \in 1..(Len(queue) - 1) /\ (i - 1) + 1 = i
      BY <2>2
    <3>2. queue'[i - 1] = queue[i] /\ i - 1 \in DOMAIN queue'
      BY <1>2, <3>1
    <3> QED
      BY <3>2 DEF Enqueued
  <2> QED
    BY <2>1, <2>2
<1>4. /\ entries \subseteq entries' /\ lost \subseteq lost'
      /\ Head(queue) = 0 \/ Head(queue) \in entries' \cup lost'
  BY DEF Insert, About
<1> QED
  BY <1>2, <1>3, <1>4 DEF Enqueued

(* The goroutine of the audit writer.                                      *)
LEMMA WriteAuditKeeps ==
  ASSUME HeadlessInv, WriteAudit
  PROVE  HeadlessInv'
<1>1. WebTyped /\ CallsCounted /\ QuietPhases /\ EffectsKept /\ queue \in Seq(Numbers \cup {0})
  BY DEF HeadlessInv, WebTyped
<1>2. /\ UNCHANGED <<handler, kind, refusing, calls, inflight, closed, effects>>
      /\ UNCHANGED <<phase, waited, clean>> /\ queue # <<>>
  BY DEF WriteAudit, Insert
<1>3. /\ queue' \in Seq(Numbers \cup {0})
      /\ entries \cup lost \cup Enqueued \subseteq entries' \cup lost' \cup Enqueued'
  BY <1>1, InsertStep DEF WriteAudit
<1>4. Busy' = Busy /\ Unrecorded' = Unrecorded /\ Quiet' = Quiet
  BY <1>2 DEF Busy, Unrecorded, Quiet
<1>5. WebTyped'
  BY <1>1, <1>2, <1>3 DEF WebTyped
<1>6. CallsCounted' /\ QuietPhases'
  BY <1>1, <1>2, <1>4 DEF CallsCounted, QuietPhases
<1>7. EffectsKept'
  BY <1>1, <1>2, <1>3, <1>4 DEF EffectsKept
<1> QED
  BY <1>5, <1>6, <1>7 DEF HeadlessInv

(* A process starts or exits: no handler runs and nothing took effect.     *)
LEMMA FreshStep ==
  ASSUME Calls \in Nat, HeadlessInv, NEW o \in BOOLEAN, Fresh(o),
         phase' = IF o THEN "applying" ELSE "down",
         waited' = FALSE, clean' \in BOOLEAN
  PROVE  HeadlessInv'
<1>1. WebTyped
  BY DEF HeadlessInv
<1>2. /\ handler' = [n \in Numbers |-> IF handler[n] = "new" THEN "new" ELSE "gone"]
      /\ kind' = [n \in Numbers |-> "call"] /\ refusing' = FALSE /\ calls' = 0
      /\ queue' = <<>> /\ closed' = ~o /\ effects' = {}
  BY DEF Fresh
<1>3. \A n \in Numbers : handler'[n] \in {"new", "gone"}
  BY <1>2
<1>4. Quiet' /\ Busy' = {}
  BY <1>3 DEF Quiet, Busy, Running
<1>5. WebTyped'
  <2>1. handler' \in [Numbers -> HandlerStates] /\ kind' \in [Numbers -> Kinds]
    BY <1>2 DEF HandlerStates, Kinds
  <2>2. queue' \in Seq(Numbers \cup {0}) /\ phase' \in Phases
    BY <1>2 DEF Phases
  <2>3. refusing' \in BOOLEAN /\ closed' \in BOOLEAN
    BY Zenon, <1>2
  <2> QED
    BY <2>1, <2>2, <2>3 DEF WebTyped
<1>6. CallsCounted'
  BY <1>2, <1>4, FS_EmptySet DEF CallsCounted
<1>7. QuietPhases' /\ EffectsKept'
  BY <1>2, <1>4 DEF QuietPhases, EffectsKept
<1> QED
  BY <1>5, <1>6, <1>7 DEF HeadlessInv

(* NewApp and the audit writer.                                            *)
LEMMA StartKeeps ==
  ASSUME Calls \in Nat, HeadlessInv, Start
  PROVE  HeadlessInv'
<1>1. Fresh(TRUE) /\ phase = "down" /\ phase' = "applying" /\ waited' = waited /\ clean' = clean
  BY DEF Start
<1>2. waited' = FALSE /\ clean' \in BOOLEAN
  BY <1>1 DEF HeadlessInv, WebTyped, CallsCounted
<1> QED
  BY <1>1, <1>2, FreshStep

(* The end of the process, clean or not.                                   *)
LEMMA ExitKeeps ==
  ASSUME Calls \in Nat, HeadlessInv, Exit
  PROVE  HeadlessInv'
<1>1. Fresh(FALSE) /\ phase' = "down" /\ waited' = FALSE /\ clean' = TRUE
  BY DEF Exit
<1> QED
  BY <1>1, FreshStep

(* applyConfig's entries of the audit log.                                 *)
LEMMA ApplyStepKeeps ==
  ASSUME QueueLen \in Nat, HeadlessInv, ApplyStep
  PROVE  HeadlessInv'
<1>1. WebTyped /\ CallsCounted /\ QuietPhases /\ EffectsKept /\ queue \in Seq(Numbers \cup {0})
  BY DEF HeadlessInv, WebTyped
<1>2. /\ UNCHANGED <<handler, kind, refusing, calls, inflight, closed, entries, effects>>
      /\ UNCHANGED <<phase, waited, clean>> /\ phase = "applying"
  BY DEF ApplyStep
<1>3. queue' \in Seq(Numbers \cup {0}) /\ lost \subseteq lost' /\ Enqueued \subseteq Enqueued'
  <2>1. CASE UNCHANGED <<queue, lost>>
    BY <1>1, <2>1 DEF Enqueued
  <2>2. CASE Push(0)
    BY <1>1, <2>2, PushStep
  <2> QED
    BY <2>1, <2>2 DEF ApplyStep
<1>4. Busy' = Busy /\ Unrecorded' = Unrecorded /\ Quiet' = Quiet
  BY <1>2 DEF Busy, Unrecorded, Quiet
<1>5. WebTyped'
  BY <1>1, <1>2, <1>3 DEF WebTyped
<1>6. CallsCounted' /\ QuietPhases'
  BY <1>1, <1>2, <1>4 DEF CallsCounted, QuietPhases
<1>7. EffectsKept'
  BY <1>1, <1>2, <1>3, <1>4 DEF EffectsKept
<1> QED
  BY <1>5, <1>6, <1>7 DEF HeadlessInv

(* The steps of runHeadlessWith and headlessShutdown that move only the    *)
(* phase, the two answers they note, and the two switches they throw.      *)
LEMMA PhaseKeeps ==
  ASSUME HeadlessInv,
         \/ Listen \/ StartFails \/ Signal \/ WaitCalls
         \/ CloseWeb \/ CloseAudit \/ FlushAudit
  PROVE  HeadlessInv'
<1>1. WebTyped /\ CallsCounted /\ QuietPhases /\ EffectsKept
  BY DEF HeadlessInv
<1>2. UNCHANGED <<handler, kind, calls, queue, entries, lost, effects>>
  BY DEF Listen, StartFails, Signal, WaitCalls, CloseWeb, CloseAudit, FlushAudit,
     callVars, StopIntake, CloseWriter
<1>3. Busy' = Busy /\ Unrecorded' = Unrecorded /\ Enqueued' = Enqueued /\ (Quiet' <=> Quiet)
  BY <1>2 DEF Busy, Unrecorded, Enqueued, Quiet
<1>4. CASE Listen
  <2>1. /\ phase = "applying" /\ phase' = "serving" /\ waited' = waited /\ clean' = clean
        /\ refusing' = refusing /\ closed' = closed
    BY <1>4 DEF Listen, Enter, callVars
  <2>2. WebTyped'
    BY <1>1, <1>2, <2>1 DEF WebTyped, Phases
  <2>3. CallsCounted' /\ QuietPhases' /\ EffectsKept'
    BY <1>1, <1>2, <1>3, <2>1 DEF CallsCounted, QuietPhases, EffectsKept
  <2> QED
    BY <2>2, <2>3 DEF HeadlessInv
<1>5. CASE StartFails
  <2>1. /\ phase = "applying" /\ phase' = "flush" /\ waited' = waited /\ clean' = clean
        /\ refusing' = refusing /\ closed' = closed
    BY <1>5 DEF StartFails, callVars
  <2>2. WebTyped'
    BY <1>1, <1>2, <2>1 DEF WebTyped, Phases
  <2>3. CallsCounted' /\ QuietPhases' /\ EffectsKept'
    BY <1>1, <1>2, <1>3, <2>1 DEF CallsCounted, QuietPhases, EffectsKept
  <2> QED
    BY <2>2, <2>3 DEF HeadlessInv
<1>6. CASE Signal
  <2>1. /\ phase = "serving" /\ phase' = "waiting" /\ waited' = waited /\ clean' = clean
        /\ refusing' = TRUE /\ closed' = closed
    BY <1>6 DEF Signal, Enter, StopIntake
  <2>2. WebTyped'
    BY <1>1, <1>2, <2>1 DEF WebTyped, Phases
  <2>3. CallsCounted' /\ QuietPhases' /\ EffectsKept'
    BY <1>1, <1>2, <1>3, <2>1 DEF CallsCounted, QuietPhases, EffectsKept
  <2> QED
    BY <2>2, <2>3 DEF HeadlessInv
<1>7. CASE WaitCalls
  <2>1. /\ phase = "waiting" /\ phase' = "closing" /\ waited' = (calls = 0) /\ clean' = clean
        /\ refusing' = refusing /\ closed' = closed
    BY <1>7 DEF WaitCalls, callVars
  <2>2. waited' \in BOOLEAN /\ (waited' => calls = 0)
    BY Zenon, <2>1
  <2>3. WebTyped'
    BY <1>1, <1>2, <2>1, <2>2 DEF WebTyped, Phases
  <2>4. CallsCounted' /\ QuietPhases' /\ EffectsKept'
    BY <1>1, <1>2, <1>3, <2>1, <2>2 DEF CallsCounted, QuietPhases, EffectsKept
  <2> QED
    BY <2>3, <2>4 DEF HeadlessInv
<1>8. CASE CloseWeb
  <2>1. /\ phase = "closing" /\ phase' = "flush" /\ waited' = waited /\ clean' = Quiet
        /\ refusing' = refusing /\ closed' = closed
    BY <1>8 DEF CloseWeb, callVars
  <2>2. clean' \in BOOLEAN /\ (clean' => Quiet)
    BY Zenon, <2>1 DEF Quiet
  <2>3. WebTyped'
    BY <1>1, <1>2, <2>1, <2>2 DEF WebTyped, Phases
  <2>4. CallsCounted' /\ QuietPhases' /\ EffectsKept'
    BY <1>1, <1>2, <1>3, <2>1, <2>2 DEF CallsCounted, QuietPhases, EffectsKept
  <2> QED
    BY <2>3, <2>4 DEF HeadlessInv
<1>9. CASE CloseAudit
  <2>1. /\ phase = "flush" /\ phase' = "flushing" /\ waited' = waited /\ clean' = clean
        /\ refusing' = refusing /\ closed' = TRUE
    BY <1>9 DEF CloseAudit, Enter, CloseWriter
  <2>2. WebTyped'
    BY <1>1, <1>2, <2>1 DEF WebTyped, Phases
  <2>3. CallsCounted' /\ QuietPhases' /\ EffectsKept'
    BY <1>1, <1>2, <1>3, <2>1 DEF CallsCounted, QuietPhases, EffectsKept
  <2> QED
    BY <2>2, <2>3 DEF HeadlessInv
<1>10. CASE FlushAudit
  <2>1. /\ phase = "flushing" /\ phase' = "stopping" /\ waited' = waited
        /\ clean' = (clean /\ Flushed) /\ refusing' = refusing /\ closed' = closed
    BY <1>10 DEF FlushAudit, callVars
  <2>2. clean' \in BOOLEAN /\ (clean' => clean /\ queue = <<>>)
    BY Zenon, <2>1 DEF Flushed
  <2>3. WebTyped'
    BY <1>1, <1>2, <2>1, <2>2 DEF WebTyped, Phases
  <2>4. CallsCounted' /\ QuietPhases' /\ EffectsKept'
    BY <1>1, <1>2, <1>3, <2>1, <2>2 DEF CallsCounted, QuietPhases, EffectsKept
  <2> QED
    BY <2>3, <2>4 DEF HeadlessInv
<1> QED
  BY <1>4, <1>5, <1>6, <1>7, <1>8, <1>9, <1>10

(* Nothing runs before the first start.                                    *)
LEMMA HeadlessStarts ==
  ASSUME Calls \in Nat, HeadlessInit
  PROVE  HeadlessInv
<1>1. /\ handler = [n \in Numbers |-> "new"] /\ kind = [n \in Numbers |-> "call"]
      /\ refusing = FALSE /\ calls = 0 /\ queue = <<>> /\ closed = TRUE /\ effects = {}
      /\ phase = "down" /\ waited = FALSE /\ clean = TRUE
  BY DEF HeadlessInit, CallInit
<1>2. Quiet /\ Busy = {}
  BY <1>1 DEF Quiet, Busy, Running
<1>3. WebTyped
  <2>1. handler \in [Numbers -> HandlerStates] /\ kind \in [Numbers -> Kinds]
    BY <1>1 DEF HandlerStates, Kinds
  <2>2. queue \in Seq(Numbers \cup {0}) /\ phase \in Phases
    BY <1>1 DEF Phases
  <2> QED
    BY <1>1, <2>1, <2>2 DEF WebTyped
<1>4. CallsCounted
  BY <1>1, <1>2, FS_EmptySet DEF CallsCounted
<1>5. QuietPhases /\ EffectsKept
  BY <1>1, <1>2 DEF QuietPhases, EffectsKept
<1> QED
  BY <1>3, <1>4, <1>5 DEF HeadlessInv

(* Every step of a headless process keeps the invariant.                   *)
LEMMA HeadlessStep ==
  ASSUME Calls \in Nat, QueueLen \in Nat, HeadlessInv, [HeadlessNext]_headlessVars
  PROVE  HeadlessInv'
<1>1. CASE Start \/ ApplyStep
  BY <1>1, StartKeeps, ApplyStepKeeps
<1>2. CASE \/ Listen \/ StartFails \/ Signal \/ WaitCalls
           \/ CloseWeb \/ CloseAudit \/ FlushAudit
  BY <1>2, PhaseKeeps
<1>3. CASE CallStep
  <2>1. PICK n \in Numbers :
          \/ phase \in {"serving", "waiting", "closing"} /\ \E k \in Kinds : Arrive(n, k)
          \/ AdmitCall(n) \/ Parse(n) \/ Audit(n) \/ Answer(n)
    BY <1>3 DEF CallStep
  <2>2. Serves
    BY <1>3 DEF CallStep, Serves
  <2>3. CASE phase \in {"serving", "waiting", "closing"} /\ \E k \in Kinds : Arrive(n, k)
    BY <2>2, <2>3, ArriveKeeps DEF Serves
  <2> QED
    BY <2>1, <2>2, <2>3, AdmitKeeps, ParseKeeps, AuditKeeps, AnswerKeeps
<1>4. CASE RunMethod
  BY <1>4, RunKeeps DEF RunMethod, Serves
<1>5. CASE WriteAudit
  BY <1>5, WriteAuditKeeps
<1>6. CASE StopApp \/ Crash
  BY <1>6, ExitKeeps DEF StopApp, Crash
<1>7. CASE UNCHANGED headlessVars
  <2>1. UNCHANGED <<callVars, phase, waited, clean>>
    BY <1>7 DEF headlessVars
  <2> QED
    BY <2>1 DEF HeadlessInv, WebTyped, CallsCounted, QuietPhases, EffectsKept, Busy, Enqueued,
       Unrecorded, Quiet, callVars
<1> QED
  BY <1>1, <1>2, <1>3, <1>4, <1>5, <1>6, <1>7 DEF HeadlessNext

(* HeadlessInv is an invariant of a headless process: trackCall's count is *)
(* the number of API calls running (webserver.go), no handler runs before  *)
(* the port is listened on or after a clean Close, and what of the audited  *)
(* took effect is in the audit table, in the writer's queue, lost and      *)
(* logged, or about to be recorded (web_audit.go).                         *)
THEOREM HeadlessInvariant == HeadlessSpec => []HeadlessInv
<1>1. HeadlessInit => HeadlessInv
  BY WebCallsAssumption, HeadlessStarts
<1>2. HeadlessInv /\ [HeadlessNext]_headlessVars => HeadlessInv'
  BY WebCallsAssumption, HeadlessStep
<1> QED
  BY <1>1, <1>2, PTL DEF HeadlessSpec

(* Once WaitCalls has answered true no call of the API runs and none       *)
(* begins until the process exits, whatever the requests that were waiting *)
(* at trackCall: app.shutdown never runs under one.                        *)
THEOREM NoCallUnderShutdown == HeadlessSpec => []WaitedMeansNoCall
<1>1. HeadlessInv => WaitedMeansNoCall
  <2>1. SUFFICES ASSUME HeadlessInv, waited PROVE Busy = {}
    BY DEF WaitedMeansNoCall, Busy
  <2>2. Cardinality(Busy) = 0
    BY <2>1 DEF HeadlessInv, CallsCounted
  <2> QED
    BY <2>2, WebCallsAssumption, BusyFinite, FS_EmptySet
<1> QED
  BY <1>1, HeadlessInvariant, PTL

(* A stop within its limits leaves an audit entry for every call of an     *)
(* audited method (webapi.go, callSpec.Audit) and every login, logout and   *)
(* change of a credential that ran, or the entry was dropped by a full     *)
(* queue or a failed insert and logged: headlessShutdown closes the server *)
(* before the writer, and flushes the writer before the app stops.  Reads,  *)
(* terminal input and resizing are not audited and not covered.            *)
THEOREM CleanStopsAudit == HeadlessSpec => []EffectsAreAudited
<1>1. HeadlessInv => EffectsAreAudited
  <2>1. SUFFICES ASSUME HeadlessInv, phase = "stopping", clean
                 PROVE  effects \subseteq entries \cup lost
    BY DEF EffectsAreAudited
  <2>2. queue = <<>> /\ Quiet /\ effects \subseteq entries \cup lost \cup Enqueued \cup Unrecorded
    BY <2>1 DEF HeadlessInv, QuietPhases, EffectsKept
  <2>3. Enqueued = {} /\ Unrecorded = {}
    BY <2>2 DEF Enqueued, Unrecorded, Quiet, Running
  <2> QED
    BY <2>2, <2>3
<1> QED
  BY <1>1, HeadlessInvariant, PTL

-----------------------------------------------------------------------------
(* The configuration file: ConfigApply.                                    *)

StepFields == {"kind", "key", "hash", "id", "action"}

StepTyped(s) ==
  /\ DOMAIN s = StepFields
  /\ \/ s.kind = "connection" /\ s.key \in Names /\ s.action \in {"create", "override", "keep"}
     \/ s.kind = "gone" /\ s.action \in {"prune", "removed"}
     \/ s.kind = "settings" /\ s.key \in Parts /\ s.action \in {"override", "keep"}
        /\ s.hash = file[s.key]
  /\ s.id \in Nat /\ s.id <= lastId

\* IDs are given out in order, and what a finished step had is on record.
RowsNumbered ==
  lastId \in Nat /\ DOMAIN rows \subseteq 1..lastId /\ IsFiniteSet(DOMAIN applied)
MatchesRecorded ==
  \A k \in DOMAIN matched : k \in DOMAIN applied /\ applied[k].hash = matched[k]

\* The plan and where applyConfig is in it.
PlanTyped ==
  /\ file \in Files /\ at \in Nat \ {0} /\ saved \in BOOLEAN /\ binding \in BOOLEAN
  /\ Len(steps) \in Nat /\ DOMAIN steps = 1..Len(steps)
  /\ \A i \in DOMAIN steps : StepTyped(steps[i])
  /\ saved => at \in DOMAIN steps /\ steps[at].action \in {"create", "override", "prune"}
  /\ binding => at \in DOMAIN steps /\ steps[at].kind = "connection"

\* A step on a connection is about the entry at its place in the file.
EntriesFit ==
  \A i \in DOMAIN steps : steps[i].kind = "connection" => file.conns[i].name = steps[i].key

\* No two steps are about one item.
KeysApart == \A i, j \in DOMAIN steps : steps[i].key = steps[j].key => i = j

\* A listed item has its row, unless its creation is still to come; no other
\* item has that row and prune does not take it.
Unmade(i) == steps[i].action = "create" /\ (IF saved \/ binding THEN at < i ELSE at <= i)
RowsApart ==
  \A i \in DOMAIN steps : steps[i].kind = "connection" =>
    /\ Unmade(i) => steps[i].id = 0
    /\ ~Unmade(i) => steps[i].id \in DOMAIN rows
    /\ \A j \in DOMAIN steps :
         steps[j].kind # "settings" /\ steps[i].id = steps[j].id /\ steps[i].id # 0 => i = j

\* What the record of a step's item says before the step and after it.
Recorded(s) == s.key \in DOMAIN applied /\ applied[s.key].hash = s.hash
Open(i) == IF binding THEN at < i ELSE at <= i
RecordsFit ==
  \A i \in DOMAIN steps :
    /\ steps[i].action = "keep" => Recorded(steps[i])
    /\ steps[i].action = "override" /\ Open(i) => file.enforce \/ ~Recorded(steps[i])
    /\ steps[i].kind = "connection" /\ ~Open(i) => Recorded(steps[i])

PlanFits == PlanTyped /\ EntriesFit /\ KeysApart /\ RowsApart /\ RecordsFit

ConfInv ==
  /\ RowsNumbered /\ MatchesRecorded
  /\ phase = "applying" => PlanFits
  /\ phase # "applying" => steps = <<>> /\ at = 1

(* The row an item meets is one of the table.                              *)
LEMMA RowsExist ==
  ASSUME RowsNumbered, NEW k
  PROVE  /\ byRecord(k) \in Nat /\ Row(k) \in Nat
         /\ byRecord(k) # 0 => byRecord(k) \in DOMAIN rows
         /\ Row(k) # 0 => Row(k) \in DOMAIN rows
         /\ byRecord(k) <= lastId /\ Row(k) <= lastId
<1>1. \A id \in DOMAIN rows : id \in Nat /\ id <= lastId /\ id # 0
  BY DEF RowsNumbered
<1>2. byRecord(k) = 0 \/ byRecord(k) \in DOMAIN rows
  BY DEF byRecord, NoConn
<1>3. byName(k) = 0 \/ byName(k) \in DOMAIN rows
  BY DEF byName, NoConn
<1>4. Row(k) = 0 \/ Row(k) \in DOMAIN rows
  BY <1>2, <1>3 DEF Row
<1>5. lastId \in Nat
  BY DEF RowsNumbered
<1> QED
  BY <1>1, <1>2, <1>4, <1>5

(* The steps on the items of the file.  Two of them never take one row.    *)
LEMMA Decided ==
  ASSUME RowsNumbered, NEW f, ValidFile(f), NEW i \in DOMAIN f.conns, NEW s, s = Decide(f, i)
  PROVE  /\ DOMAIN s = StepFields /\ s.kind = "connection" /\ s.key = f.conns[i].name
         /\ s.hash = f.conns[i].hash /\ s.action \in {"create", "override", "keep"}
         /\ s.id \in Nat /\ s.id <= lastId
         /\ s.action = "create" => s.id = 0
         /\ s.action # "create" => s.id \in DOMAIN rows
         /\ s.id = 0 \/ (s.id = Row(s.key) /\ s.id \notin claimed(f, i - 1))
         /\ s.action = "keep" => Recorded(s)
         /\ s.action = "override" => f.enforce \/ ~Recorded(s)
<1>1. PICK id : id = Unclaimed(Row(f.conns[i].name), claimed(f, i - 1))
  OBVIOUS
<1>2. id = 0 \/ (id = Row(f.conns[i].name) /\ id \notin claimed(f, i - 1))
  BY <1>1 DEF Unclaimed, NoConn
<1>3. id \in Nat /\ id <= lastId /\ (id # 0 => id \in DOMAIN rows)
  BY <1>2, RowsExist DEF RowsNumbered
<1>4. s = [kind |-> "connection", key |-> f.conns[i].name, hash |-> f.conns[i].hash, id |-> id,
           action |-> IF id = 0 THEN "create"
                      ELSE IF Unchanged(f, f.conns[i].name, f.conns[i].hash) THEN "keep" ELSE "override"]
  BY <1>1 DEF Decide, NoConn
<1>5. /\ DOMAIN s = StepFields /\ s.kind = "connection" /\ s.key = f.conns[i].name
      /\ s.hash = f.conns[i].hash /\ s.id = id
      /\ s.action = IF id = 0 THEN "create"
                    ELSE IF Unchanged(f, f.conns[i].name, f.conns[i].hash) THEN "keep" ELSE "override"
  BY <1>4 DEF StepFields
<1>6. Unchanged(f, f.conns[i].name, f.conns[i].hash) <=> Recorded(s) /\ ~f.enforce
  BY <1>5 DEF Unchanged, Recorded
<1> QED
  BY <1>2, <1>3, <1>5, <1>6

LEMMA DecidedApart ==
  ASSUME RowsNumbered, NEW f, ValidFile(f), NEW i \in DOMAIN f.conns, NEW j \in DOMAIN f.conns,
         Decide(f, i).id = Decide(f, j).id, Decide(f, i).id # 0
  PROVE  i = j
<1>1. DOMAIN f.conns = 1..Len(f.conns) /\ Len(f.conns) \in Nat
  BY DEF ValidFile
<1>2. PICK s, t : s = Decide(f, i) /\ t = Decide(f, j)
  OBVIOUS
<1>3. /\ s.id = Row(f.conns[i].name) /\ s.id \notin claimed(f, i - 1)
      /\ t.id = Row(f.conns[j].name) /\ t.id \notin claimed(f, j - 1)
  BY <1>2, Decided
<1>4. CASE i < j
  <2>1. i \in 1..(j - 1)
    BY <1>1, <1>4
  <2> QED
    BY <1>2, <1>3, <2>1 DEF claimed, NoConn
<1>5. CASE j < i
  <2>1. j \in 1..(i - 1)
    BY <1>1, <1>5
  <2> QED
    BY <1>2, <1>3, <2>1 DEF claimed, NoConn
<1> QED
  BY <1>1, <1>4, <1>5

(* The steps on records the file no longer lists: none takes a row that an *)
(* item of the file has.                                                   *)
LEMMA GoneApart ==
  ASSUME RowsNumbered, NEW f, ValidFile(f), NEW order, NEW i \in DOMAIN order,
         NEW s, s = Gone(f, order)[i]
  PROVE  /\ DOMAIN s = StepFields /\ s.kind = "gone" /\ s.key = order[i]
         /\ s.action \in {"prune", "removed"} /\ s.id \in Nat /\ s.id <= lastId
         /\ \A j \in DOMAIN f.conns : Decide(f, j).id = s.id => s.id = 0
<1>1. s = [kind |-> "gone", key |-> order[i], hash |-> 0,
           id |-> IF f.prune THEN PruneId(f, order[i]) ELSE 0,
           action |-> IF f.prune THEN "prune" ELSE "removed"]
  BY DEF Gone, NoConn
<1>2. s.id = 0 \/ (s.id = byRecord(order[i]) /\ s.id \notin claimed(f, Len(f.conns)))
  BY <1>1 DEF PruneId, NoConn
<1>3. s.id \in Nat /\ s.id <= lastId
  BY <1>2, RowsExist DEF RowsNumbered
<1>4. ASSUME NEW j \in DOMAIN f.conns, Decide(f, j).id = s.id, s.id # 0 PROVE FALSE
  <2>1. Decide(f, j).id = Row(f.conns[j].name)
    BY <1>4, Decided
  <2>2. j \in 1..Len(f.conns)
    BY DEF ValidFile
  <2> QED
    BY <1>2, <1>4, <2>1, <2>2 DEF claimed, NoConn
<1> QED
  BY <1>1, <1>3, <1>4 DEF StepFields

(* Where the element of a concatenation comes from.                        *)
LEMMA ConcatAt ==
  ASSUME NEW A, NEW s \in Seq(A), NEW t \in Seq(A)
  PROVE  /\ s \o t \in Seq(A) /\ Len(s \o t) = Len(s) + Len(t)
         /\ \A i \in 1..Len(s \o t) :
              \/ i \in 1..Len(s) /\ (s \o t)[i] = s[i]
              \/ i - Len(s) \in 1..Len(t) /\ (s \o t)[i] = t[i - Len(s)]
<1>1. Len(s) \in Nat /\ Len(t) \in Nat /\ s \o t \in Seq(A) /\ Len(s \o t) = Len(s) + Len(t)
  OBVIOUS
<1>2. ASSUME NEW i \in 1..Len(s \o t) PROVE i \in 1..Len(s) \/ i - Len(s) \in 1..Len(t)
  BY <1>1
<1>3. ASSUME NEW i \in 1..Len(s \o t), i \in 1..Len(s) PROVE (s \o t)[i] = s[i]
  BY <1>1, <1>3
<1>4. ASSUME NEW i \in 1..Len(s \o t), i - Len(s) \in 1..Len(t) PROVE (s \o t)[i] = t[i - Len(s)]
  BY <1>1, <1>4
<1> QED
  BY <1>1, <1>2, <1>3, <1>4

SectionStep(f, p) ==
  [kind |-> "settings", key |-> p, hash |-> f[p], id |-> 0,
   action |-> IF Unchanged(f, p, f[p]) THEN "keep" ELSE "override"]

LEMMA SectionIs ==
  ASSUME NEW A, NEW f, NEW p, SectionStep(f, p) \in A, NEW m, m = Section(f, p)
  PROVE  /\ m \in Seq(A) /\ Len(m) \in {0, 1}
         /\ \A i \in 1..Len(m) : i = 1 /\ m[i] = SectionStep(f, p)
<1>1. CASE f[p] = 0
  <2>1. m = <<>>
    BY <1>1 DEF Section
  <2> QED
    BY <2>1
<1>2. CASE f[p] # 0
  <2>1. m = <<SectionStep(f, p)>>
    BY <1>2 DEF Section, SectionStep, NoConn
  <2> QED
    BY <2>1
<1> QED
  BY <1>1, <1>2

\* The step i of the plan is about the item i of the file, about a record that
\* the file does not list, or about the section p.
OfItem(f, i, s) == i \in DOMAIN f.conns /\ s = Decide(f, i)
OfGone(f, order, i, s) ==
  i - Len(f.conns) \in DOMAIN order /\ s = Gone(f, order)[i - Len(f.conns)]

\* The plan ss: the items of the file, the n records it does not list, and the
\* two sections.
Planned(f, n, order, ss) ==
  /\ Len(ss) \in Nat /\ DOMAIN ss = 1..Len(ss)
  /\ \A i \in DOMAIN ss :
       \/ OfItem(f, i, ss[i])
       \/ OfGone(f, order, i, ss[i])
       \/ i = Len(f.conns) + n + 1 /\ ss[i] = SectionStep(f, "mcp")
       \/ i = Len(f.conns) + n + Len(Section(f, "mcp")) + 1 /\ ss[i] = SectionStep(f, "policy")

LEMMA PlanIs ==
  ASSUME NEW f, ValidFile(f), NEW n \in Nat, NEW S, NEW order \in [1..n -> S]
  PROVE  Planned(f, n, order, planSteps(f, order))
<1>0. PICK ss, x, y : /\ ss = planSteps(f, order) /\ x = Len(f.conns) + n + 1
                      /\ y = Len(f.conns) + n + Len(Section(f, "mcp")) + 1
  OBVIOUS
<1> DEFINE A == {Decide(f, i) : i \in DOMAIN f.conns} \cup
                {Gone(f, order)[i] : i \in 1..n} \cup
                {SectionStep(f, "mcp"), SectionStep(f, "policy")}
<1>1. PICK l, g, m, p : /\ l = Listed(f) /\ g = Gone(f, order)
                        /\ m = Section(f, "mcp") /\ p = Section(f, "policy")
  OBVIOUS
<1>2. PICK k \in Nat : k = Len(f.conns) /\ DOMAIN f.conns = 1..k
  BY DEF ValidFile
<1>3. l \in Seq(A) /\ Len(l) = k /\ \A i \in 1..k : OfItem(f, i, l[i])
  <2>1. l = [i \in 1..k |-> Decide(f, i)]
    BY <1>1, <1>2 DEF Listed
  <2>2. l \in [1..k -> A]
    BY <1>2, <2>1
  <2> QED
    BY <1>2, <2>1, <2>2 DEF OfItem
<1>4. g \in Seq(A) /\ Len(g) = n /\ \A i \in 1..n : g[i] = Gone(f, order)[i]
  <2>1. DOMAIN order = 1..n /\ DOMAIN g = 1..n
    BY <1>1 DEF Gone
  <2>2. g \in [1..n -> A]
    BY <1>1, <2>1 DEF Gone
  <2> QED
    BY <1>1, <2>2
<1>5. SectionStep(f, "mcp") \in A /\ SectionStep(f, "policy") \in A
  OBVIOUS
<1> HIDE DEF A
<1>6. /\ m \in Seq(A) /\ Len(m) \in {0, 1}
      /\ \A i \in 1..Len(m) : i = 1 /\ m[i] = SectionStep(f, "mcp")
  BY <1>1, <1>5, SectionIs
<1>7. /\ p \in Seq(A) /\ Len(p) \in {0, 1}
      /\ \A i \in 1..Len(p) : i = 1 /\ p[i] = SectionStep(f, "policy")
  BY <1>1, <1>5, SectionIs
<1>8. PICK lg : lg = l \o g
  OBVIOUS
<1>9. /\ lg \in Seq(A) /\ Len(lg) = k + n
      /\ \A i \in 1..(k + n) : OfItem(f, i, lg[i]) \/ OfGone(f, order, i, lg[i])
  <2>1. lg \in Seq(A) /\ Len(lg) = k + n
    BY <1>3, <1>4, <1>8, ConcatAt
  <2>2. ASSUME NEW i \in 1..(k + n) PROVE OfItem(f, i, lg[i]) \/ OfGone(f, order, i, lg[i])
    <3>1. (i \in 1..k /\ lg[i] = l[i]) \/ (i - k \in 1..n /\ lg[i] = g[i - k])
      BY <1>3, <1>4, <1>8, <2>1, ConcatAt
    <3> QED
      BY <1>2, <1>3, <1>4, <3>1 DEF OfGone
  <2> QED
    BY <2>1, <2>2
<1>10. PICK lgm : lgm = lg \o m
  OBVIOUS
<1>11. x = k + n + 1 /\ x \in Nat
  BY <1>0, <1>2
<1>12. /\ lgm \in Seq(A) /\ Len(lgm) = k + n + Len(m)
       /\ \A i \in 1..Len(lgm) : \/ OfItem(f, i, lgm[i]) \/ OfGone(f, order, i, lgm[i])
                                 \/ i = x /\ lgm[i] = SectionStep(f, "mcp")
  <2>1. lgm \in Seq(A) /\ Len(lgm) = k + n + Len(m)
    BY <1>6, <1>9, <1>10, ConcatAt
  <2>2. ASSUME NEW i \in 1..Len(lgm)
        PROVE  \/ OfItem(f, i, lgm[i]) \/ OfGone(f, order, i, lgm[i])
               \/ i = x /\ lgm[i] = SectionStep(f, "mcp")
    <3>1. \/ i \in 1..(k + n) /\ lgm[i] = lg[i]
          \/ i - (k + n) \in 1..Len(m) /\ lgm[i] = m[i - (k + n)]
      BY <1>6, <1>9, <1>10, ConcatAt
    <3>2. CASE i \in 1..(k + n) /\ lgm[i] = lg[i]
      BY <1>9, <3>2
    <3>3. CASE i - (k + n) \in 1..Len(m) /\ lgm[i] = m[i - (k + n)]
      BY <1>6, <1>11, <3>3
    <3> QED
      BY <3>1, <3>2, <3>3
  <2> QED
    BY <2>1, <2>2
<1>13. ss = lgm \o p
  BY <1>0, <1>1, <1>8, <1>10 DEF planSteps
<1>14. PICK h \in Nat : h = Len(lgm)
  BY <1>12
<1>15. y = h + 1
  <2>1. PICK c \in {0, 1} : c = Len(m)
    BY <1>6
  <2>2. y = k + n + c + 1
    BY <1>0, <1>1, <1>2, <2>1
  <2> QED
    BY <1>12, <1>14, <2>1, <2>2
<1>16. ss \in Seq(A)
  BY <1>7, <1>12, <1>13, ConcatAt
<1>17. ASSUME NEW i \in 1..Len(ss)
       PROVE  \/ OfItem(f, i, ss[i]) \/ OfGone(f, order, i, ss[i])
              \/ i = x /\ ss[i] = SectionStep(f, "mcp")
              \/ i = y /\ ss[i] = SectionStep(f, "policy")
  <2>1. \/ i \in 1..h /\ ss[i] = lgm[i]
        \/ i - h \in 1..Len(p) /\ ss[i] = p[i - h]
    BY <1>7, <1>12, <1>13, <1>14, ConcatAt
  <2>2. CASE i \in 1..h /\ ss[i] = lgm[i]
    BY <1>12, <1>14, <2>2
  <2>3. CASE i - h \in 1..Len(p) /\ ss[i] = p[i - h]
    BY <1>7, <1>15, <2>3
  <2> QED
    BY <2>1, <2>2, <2>3
<1>18. Len(ss) \in Nat /\ DOMAIN ss = 1..Len(ss)
  BY <1>16
<1>19. \A i \in DOMAIN ss :
         \/ OfItem(f, i, ss[i]) \/ OfGone(f, order, i, ss[i])
         \/ i = x /\ ss[i] = SectionStep(f, "mcp")
         \/ i = y /\ ss[i] = SectionStep(f, "policy")
  BY <1>17, <1>18
<1> QED
  BY <1>0, <1>18, <1>19 DEF Planned

(* The records the file does not list can be put in order.                 *)
LEMMA OrderTyped ==
  ASSUME RowsNumbered, NEW f, NEW order \in Orders(gone(f))
  PROVE  \E n \in Nat : /\ order \in [1..n -> gone(f)]
                        /\ \A i, j \in 1..n : order[i] = order[j] => i = j
<1>2. gone(f) \subseteq DOMAIN applied
  BY DEF gone
<1>3. Cardinality(gone(f)) \in Nat
  BY <1>2, FS_Subset, FS_CardinalityType DEF RowsNumbered
<1>4. PICK n \in Nat : n = Cardinality(gone(f))
  BY <1>3
<1>5. order \in [1..n -> gone(f)] /\ \A i, j \in DOMAIN order : order[i] = order[j] => i = j
  BY <1>4 DEF Orders
<1> QED
  BY <1>5

(* The plan that planSteps makes fits what the database holds.             *)
LEMMA PlanKeeps ==
  ASSUME FilesAreValid, RowsNumbered, NEW f \in Files, Plan(f)
  PROVE  PlanFits'
<1>1. ValidFile(f) /\ Names \cap Parts = {} /\ Parts = {"mcp", "policy"}
  BY DEF FilesAreValid, Parts
<1>2. PICK order \in Orders(gone(f)) : steps' = planSteps(f, order)
  BY DEF Plan
<1>3. PICK n \in Nat : /\ order \in [1..n -> gone(f)]
                       /\ \A i, j \in 1..n : order[i] = order[j] => i = j
  BY OrderTyped
<1>4. PICK ss : ss = steps'
  OBVIOUS
<1>5. /\ file' = f /\ at' = 1 /\ saved' = FALSE /\ binding' = FALSE
      /\ rows' = rows /\ applied' = applied /\ lastId' = lastId
  BY DEF Plan
<1>6. PICK x, y : /\ x = Len(f.conns) + n + 1
                  /\ y = Len(f.conns) + n + Len(Section(f, "mcp")) + 1
  OBVIOUS
<1>7. /\ Len(ss) \in Nat /\ DOMAIN ss = 1..Len(ss)
      /\ \A i \in DOMAIN ss :
           \/ OfItem(f, i, ss[i])
           \/ OfGone(f, order, i, ss[i])
           \/ i = x /\ ss[i] = SectionStep(f, "mcp")
           \/ i = y /\ ss[i] = SectionStep(f, "policy")
  <2>1. ss = planSteps(f, order)
    BY <1>2, <1>4
  <2>2. Planned(f, n, order, ss)
    BY <1>1, <1>3, <2>1, PlanIs
  <2> QED
    BY <1>6, <2>2 DEF Planned
<1>8. PICK k \in Nat : k = Len(f.conns) /\ DOMAIN f.conns = 1..k
  BY <1>1 DEF ValidFile
<1>9. \A i \in DOMAIN f.conns : f.conns[i].name \in Names /\ f.conns[i].name \notin gone(f)
  <2>1. PICK R, cs : R = Items /\ cs = f.conns /\ cs \in Seq(R)
    BY <1>1 DEF ValidFile
  <2>2. cs \in Seq(R)
    BY <2>1
  <2>3. \A i \in 1..Len(cs) : cs[i] \in R
    BY <2>2
  <2> QED
    BY <1>8, <2>1, <2>3 DEF gone, Items
<1>10. gone(f) \cap Parts = {}
  BY DEF gone
<1>11. ASSUME NEW i \in DOMAIN ss, OfItem(f, i, ss[i])
       PROVE  /\ StepTyped(ss[i])' /\ ss[i].kind = "connection" /\ ss[i].key = f.conns[i].name
              /\ ss[i].action = "create" => ss[i].id = 0
              /\ ss[i].action # "create" => ss[i].id \in DOMAIN rows
              /\ ss[i].action = "keep" => Recorded(ss[i])
              /\ ss[i].action = "override" => f.enforce \/ ~Recorded(ss[i])
  <2>1. /\ DOMAIN ss[i] = StepFields /\ ss[i].kind = "connection" /\ ss[i].key = f.conns[i].name
        /\ ss[i].action \in {"create", "override", "keep"} /\ ss[i].id \in Nat /\ ss[i].id <= lastId
        /\ ss[i].action = "create" => ss[i].id = 0
        /\ ss[i].action # "create" => ss[i].id \in DOMAIN rows
        /\ ss[i].action = "keep" => Recorded(ss[i])
        /\ ss[i].action = "override" => f.enforce \/ ~Recorded(ss[i])
    BY <1>1, <1>11, Decided DEF OfItem
  <2>2. ss[i].key \in Names
    BY <1>9, <1>11, <2>1 DEF OfItem
  <2> QED
    BY <1>5, <2>1, <2>2 DEF StepTyped
<1>12. ASSUME NEW i \in DOMAIN ss, OfGone(f, order, i, ss[i])
       PROVE  /\ StepTyped(ss[i])' /\ ss[i].kind = "gone" /\ ss[i].action \in {"prune", "removed"}
              /\ i - k \in 1..n /\ ss[i].key = order[i - k] /\ ss[i].key \in gone(f)
              /\ \A j \in DOMAIN f.conns : Decide(f, j).id = ss[i].id => ss[i].id = 0
  <2>1. i - k \in 1..n /\ i - k \in DOMAIN order /\ ss[i] = Gone(f, order)[i - k]
    BY <1>3, <1>8, <1>12 DEF OfGone
  <2>2. /\ DOMAIN ss[i] = StepFields /\ ss[i].kind = "gone" /\ ss[i].key = order[i - k]
        /\ ss[i].action \in {"prune", "removed"} /\ ss[i].id \in Nat /\ ss[i].id <= lastId
        /\ \A j \in DOMAIN f.conns : Decide(f, j).id = ss[i].id => ss[i].id = 0
    BY <1>1, <2>1, GoneApart
  <2>3. order[i - k] \in gone(f)
    BY <1>3, <2>1
  <2> QED
    BY <1>5, <2>1, <2>2, <2>3 DEF StepTyped
<1>13. ASSUME NEW i \in DOMAIN ss, NEW p \in Parts, ss[i] = SectionStep(f, p)
       PROVE  /\ StepTyped(ss[i])' /\ ss[i].kind = "settings" /\ ss[i].key = p
              /\ ss[i].action \in {"override", "keep"}
              /\ ss[i].action = "keep" => Recorded(ss[i])
              /\ ss[i].action = "override" => f.enforce \/ ~Recorded(ss[i])
  <2>1. /\ DOMAIN ss[i] = StepFields /\ ss[i].kind = "settings" /\ ss[i].key = p /\ ss[i].hash = f[p]
        /\ ss[i].id = 0
        /\ ss[i].action = IF Unchanged(f, p, f[p]) THEN "keep" ELSE "override"
    BY <1>13 DEF SectionStep, StepFields
  <2>2. Unchanged(f, p, f[p]) <=> Recorded(ss[i]) /\ ~f.enforce
    BY <2>1 DEF Unchanged, Recorded
  <2>3. lastId \in Nat
    BY DEF RowsNumbered
  <2> QED
    BY <1>5, <2>1, <2>2, <2>3 DEF StepTyped
<1>14. \A i \in DOMAIN ss : StepTyped(ss[i])'
  BY <1>1, <1>7, <1>11, <1>12, <1>13
<1>15. PlanTyped'
  <2>1. \A i \in DOMAIN steps' : StepTyped(steps[i])'
    BY <1>4, <1>14 DEF StepTyped
  <2>2. Len(steps') \in Nat /\ DOMAIN steps' = 1..Len(steps')
    BY <1>4, <1>7
  <2>3. file' \in Files /\ at' \in Nat \ {0}
    BY <1>5
  <2>4. ~saved' /\ saved' \in BOOLEAN /\ ~binding' /\ binding' \in BOOLEAN
    BY <1>5, Zenon
  <2> QED
    BY <2>1, <2>2, <2>3, <2>4 DEF PlanTyped
<1>16. ASSUME NEW i \in DOMAIN ss, NEW j \in DOMAIN ss, ss[i].key = ss[j].key PROVE i = j
  <2>1. CASE OfItem(f, i, ss[i])
    <3>1. ss[i].key = f.conns[i].name /\ i \in DOMAIN f.conns /\ ss[i].key \in Names
          /\ ss[i].key \notin gone(f)
      BY <1>9, <1>11, <2>1 DEF OfItem
    <3>2. OfItem(f, j, ss[j])
      BY <1>1, <1>7, <1>12, <1>13, <1>16, <3>1
    <3>3. ss[j].key = f.conns[j].name /\ j \in DOMAIN f.conns
      BY <1>11, <3>2 DEF OfItem
    <3> QED
      BY <1>1, <1>16, <3>1, <3>3 DEF ValidFile
  <2>2. CASE OfGone(f, order, i, ss[i])
    <3>1. i - k \in 1..n /\ ss[i].key = order[i - k] /\ ss[i].key \in gone(f)
      BY <1>12, <2>2
    <3>2. ~OfItem(f, j, ss[j])
      BY <1>9, <1>11, <1>16, <3>1 DEF OfItem
    <3>3. OfGone(f, order, j, ss[j])
      BY <1>1, <1>7, <1>10, <1>13, <1>16, <3>1, <3>2
    <3>4. j - k \in 1..n /\ ss[j].key = order[j - k]
      BY <1>12, <3>3
    <3>5. i - k = j - k
      BY <1>3, <1>16, <3>1, <3>4
    <3> QED
      BY <1>7, <1>8, <3>5
  <2>3. ASSUME NEW p \in Parts, ss[i] = SectionStep(f, p), ~OfItem(f, i, ss[i]),
               ~OfGone(f, order, i, ss[i])
        PROVE  i = j
    <3>1. ss[i].key = p
      BY <1>13, <2>3
    <3>2. ~OfItem(f, j, ss[j]) /\ ~OfGone(f, order, j, ss[j])
      BY <1>1, <1>9, <1>10, <1>11, <1>12, <1>16, <3>1 DEF OfItem
    <3>3. SectionStep(f, "mcp").key = "mcp" /\ SectionStep(f, "policy").key = "policy"
      BY DEF SectionStep
    <3> QED
      BY <1>7, <1>16, <2>3, <3>2, <3>3
  <2> QED
    BY <1>1, <1>7, <2>1, <2>2, <2>3
<1>17. KeysApart'
  BY <1>4, <1>16 DEF KeysApart
<1>18. ASSUME NEW i \in DOMAIN ss, ss[i].kind = "connection" PROVE OfItem(f, i, ss[i])
  BY <1>1, <1>7, <1>12, <1>13, <1>18
<1>19. ASSUME NEW i \in DOMAIN ss, ss[i].kind = "connection", NEW j \in DOMAIN ss,
              ss[j].kind # "settings", ss[i].id = ss[j].id, ss[i].id # 0
       PROVE  i = j
  <2>1. OfItem(f, i, ss[i])
    BY <1>18, <1>19
  <2>2. CASE OfItem(f, j, ss[j])
    BY <1>1, <1>19, <2>1, <2>2, DecidedApart DEF OfItem
  <2>3. CASE OfGone(f, order, j, ss[j])
    BY <1>12, <1>19, <2>1, <2>3 DEF OfItem
  <2> QED
    BY <1>1, <1>7, <1>13, <1>19, <2>2, <2>3
<1>20. ASSUME NEW i \in DOMAIN ss PROVE 1 <= i /\ ~(i < 1)
  BY <1>7
<1>21. RowsApart'
  <2>1. ASSUME NEW i \in DOMAIN ss, ss[i].kind = "connection"
        PROVE  /\ Unmade(i)' => ss[i].id = 0
               /\ ~Unmade(i)' => ss[i].id \in DOMAIN rows
    BY <1>4, <1>5, <1>11, <1>18, <1>20, <2>1 DEF Unmade
  <2> QED
    BY <1>4, <1>5, <1>19, <2>1 DEF RowsApart
<1>22. RecordsFit'
  <2>1. \A i \in DOMAIN ss : Recorded(ss[i])' <=> Recorded(ss[i])
    BY <1>5 DEF Recorded
  <2>2. ASSUME NEW i \in DOMAIN ss
        PROVE  /\ ss[i].action = "keep" => Recorded(ss[i])
               /\ ss[i].action = "override" => f.enforce \/ ~Recorded(ss[i])
    BY <1>1, <1>7, <1>11, <1>12, <1>13
  <2> QED
    BY <1>4, <1>5, <1>20, <2>1, <2>2 DEF RecordsFit, Open
<1>23. EntriesFit'
  BY <1>4, <1>5, <1>11, <1>18 DEF EntriesFit
<1> QED
  BY <1>15, <1>17, <1>21, <1>22, <1>23 DEF PlanFits

(* The step that applyConfig is at.                                        *)
LEMMA StepAt ==
  ASSUME PlanTyped, StepsLeft
  PROVE  at \in DOMAIN steps /\ step = steps[at] /\ StepTyped(steps[at])
<1>1. at \in 1..Len(steps)
  BY DEF StepsLeft, PlanTyped
<1> QED
  BY <1>1 DEF PlanTyped, step

(* A step whose writes are done and recorded: the secret of its entry is   *)
(* next, or the next step is up.                                           *)
LEMMA StepDone ==
  ASSUME PlanFits, StepsLeft, steps' = steps, file' = file, lastId' = lastId,
         DOMAIN rows' = DOMAIN rows, saved' = FALSE, binding' \in BOOLEAN,
         at' = IF binding' THEN at ELSE at + 1, NEW s, s = steps[at],
         \A k : k # s.key => /\ k \in DOMAIN applied' <=> k \in DOMAIN applied
                             /\ k \in DOMAIN applied => applied'[k] = applied[k],
         s.kind = "connection" \/ s.action = "keep" => Recorded(s)',
         binding' => s.kind = "connection",
         s.action = "create" => saved \/ binding
  PROVE  PlanFits'
<1>1. PlanTyped /\ EntriesFit /\ KeysApart /\ RowsApart /\ RecordsFit
  BY DEF PlanFits
<1>2. at \in DOMAIN steps /\ at \in Nat \ {0}
  BY <1>1, StepAt DEF PlanTyped
<1>3. DOMAIN steps = 1..Len(steps) /\ Len(steps) \in Nat /\ \A i \in DOMAIN steps : i \in Nat
  BY <1>1 DEF PlanTyped
<1>4. PlanTyped'
  <2>1. at' \in Nat \ {0} /\ (binding' => at' = at)
    BY <1>2
  <2>2. ~saved' /\ saved' \in BOOLEAN
    BY Zenon
  <2> QED
    BY <1>1, <1>2, <2>1, <2>2 DEF PlanTyped, StepTyped
<1>5. KeysApart' /\ EntriesFit'
  BY <1>1 DEF KeysApart, EntriesFit
<1>6. ASSUME NEW i \in DOMAIN steps, i # at PROVE Recorded(steps[i])' <=> Recorded(steps[i])
  <2>1. steps[i].key # s.key
    BY <1>1, <1>2, <1>6 DEF KeysApart
  <2> QED
    BY <2>1 DEF Recorded
<1>7. ASSUME NEW i \in DOMAIN steps
      PROVE  /\ i # at => (Open(i) <=> at < i)
             /\ (IF saved \/ binding THEN at < i ELSE at <= i) <=> at < i \/ (i = at /\ ~(saved \/ binding))
             /\ Open(i)' <=> at < i
             /\ (IF (saved \/ binding)' THEN at' < i ELSE at' <= i) <=> at < i
  BY <1>2, <1>3 DEF Open
<1>8. ASSUME NEW i \in DOMAIN steps PROVE Unmade(i)' <=> Unmade(i)
  <2>1. CASE i = at
    BY <1>2, <1>7, <2>1 DEF Unmade
  <2>2. CASE i # at
    BY <1>7, <2>2 DEF Unmade
  <2> QED
    BY <2>1, <2>2
<1>9. RowsApart'
  BY <1>1, <1>8 DEF RowsApart
<1>10. ASSUME NEW i \in DOMAIN steps
       PROVE  /\ steps[i].action = "keep" => Recorded(steps[i])'
              /\ steps[i].action = "override" /\ at < i => file.enforce \/ ~Recorded(steps[i])'
              /\ steps[i].kind = "connection" /\ ~(at < i) => Recorded(steps[i])'
  <2>1. CASE i = at
    BY <1>2, <2>1 DEF Recorded
  <2>2. CASE i # at
    BY <1>1, <1>6, <1>7, <2>2 DEF RecordsFit
  <2> QED
    BY <2>1, <2>2
<1>11. RecordsFit'
  BY <1>7, <1>10 DEF RecordsFit
<1> QED
  BY <1>4, <1>5, <1>9, <1>11 DEF PlanFits

(* The write of a step that is still to be recorded.                       *)
LEMMA StepSaved ==
  ASSUME PlanFits, StepsLeft, ~binding, saved' = TRUE, binding' = binding, at' = at, file' = file,
         applied' = applied, lastId \in Nat, lastId' \in Nat, lastId <= lastId', NEW id, NEW s, s = steps[at],
         s.action \in {"create", "override", "prune"},
         steps' = [steps EXCEPT ![at].id = id] \/ (steps' = steps /\ id = s.id),
         id \in Nat, id <= lastId',
         id = s.id \/ (id > lastId /\ s.kind = "connection"),
         s.kind = "connection" => id \in DOMAIN rows',
         \A i \in DOMAIN steps : i # at /\ steps[i].kind = "connection" /\ steps[i].id \in DOMAIN rows
                                   => steps[i].id \in DOMAIN rows'
  PROVE  PlanFits'
<1>1. PlanTyped /\ EntriesFit /\ KeysApart /\ RowsApart /\ RecordsFit
  BY DEF PlanFits
<1>2. at \in DOMAIN steps /\ DOMAIN steps = 1..Len(steps) /\ Len(steps) \in Nat /\ DOMAIN s = StepFields
      /\ at \in Nat \ {0}
  BY <1>1, StepAt DEF PlanTyped, StepTyped
<1>3. PICK ss : ss = steps'
  OBVIOUS
<1>4. /\ DOMAIN ss = DOMAIN steps /\ Len(ss) = Len(steps)
      /\ \A i \in DOMAIN steps : i # at => ss[i] = steps[i]
  BY <1>2, <1>3
<1>5. /\ DOMAIN ss[at] = StepFields /\ ss[at].kind = s.kind /\ ss[at].key = s.key
      /\ ss[at].hash = s.hash /\ ss[at].action = s.action /\ ss[at].id = id
  <2>1. CASE steps' = [steps EXCEPT ![at].id = id]
    <3>1. ss[at] = [s EXCEPT !.id = id]
      BY <1>2, <1>3, <2>1
    <3> QED
      BY <1>2, <3>1 DEF StepFields
  <2>2. CASE steps' = steps /\ id = s.id
    BY <1>2, <1>3, <2>2
  <2> QED
    BY <2>1, <2>2
<1>6. \A i \in DOMAIN steps : /\ ss[i].kind = steps[i].kind /\ ss[i].key = steps[i].key
                              /\ ss[i].hash = steps[i].hash /\ ss[i].action = steps[i].action
  BY <1>4, <1>5
<1>7. \A i \in DOMAIN steps : StepTyped(steps[i]) /\ steps[i].id \in Nat /\ steps[i].id <= lastId
  BY <1>1 DEF PlanTyped, StepTyped
<1>8. PlanTyped'
  <2>1. ASSUME NEW i \in DOMAIN ss, i # at PROVE StepTyped(ss[i])'
    BY <1>4, <1>7, <2>1 DEF StepTyped
  <2>2. StepTyped(ss[at])'
    BY <1>2, <1>5, <1>7 DEF StepTyped
  <2>3. \A i \in DOMAIN steps' : StepTyped(steps[i])'
    BY <1>3, <2>1, <2>2 DEF StepTyped
  <2>4. Len(steps') \in Nat /\ DOMAIN steps' = 1..Len(steps') /\ at' \in DOMAIN steps'
    BY <1>2, <1>3, <1>4
  <2>5. steps'[at'].action \in {"create", "override", "prune"}
    BY <1>3, <1>5
  <2>6. saved' \in BOOLEAN /\ binding' \in BOOLEAN /\ ~binding'
    BY <1>1, Zenon DEF PlanTyped
  <2>7. file' \in Files /\ at' \in Nat \ {0}
    BY <1>1 DEF PlanTyped
  <2> QED
    BY <2>3, <2>4, <2>5, <2>6, <2>7 DEF PlanTyped
<1>9. KeysApart' /\ EntriesFit'
  BY <1>1, <1>3, <1>4, <1>6 DEF KeysApart, EntriesFit
<1>10. ASSUME NEW i \in DOMAIN steps, i # at
       PROVE  Unmade(i)' <=> Unmade(i)
  <2>1. at <= i <=> at < i
    BY <1>2, <1>10
  <2> QED
    BY <1>3, <1>4, <1>10, <2>1 DEF Unmade
<1>11. ~Unmade(at)'
  BY <1>2 DEF Unmade
<1>12. ASSUME NEW i \in DOMAIN ss, ss[i].kind = "connection"
       PROVE  /\ Unmade(i)' => ss[i].id = 0
              /\ ~Unmade(i)' => ss[i].id \in DOMAIN rows'
  <2>1. CASE i = at
    BY <1>5, <1>11, <1>12, <2>1
  <2>2. CASE i # at
    <3>1. ss[i] = steps[i] /\ steps[i].kind = "connection" /\ i \in DOMAIN steps
      BY <1>4, <1>12, <2>2
    <3>2. (Unmade(i) => steps[i].id = 0) /\ (~Unmade(i) => steps[i].id \in DOMAIN rows)
      BY <1>1, <3>1 DEF RowsApart
    <3> QED
      BY <1>10, <2>2, <3>1, <3>2
  <2> QED
    BY <2>1, <2>2
<1>13. ASSUME NEW i \in DOMAIN ss, ss[i].kind = "connection", NEW j \in DOMAIN ss,
              ss[j].kind # "settings", ss[i].id = ss[j].id, ss[i].id # 0
       PROVE  i = j
  <2>1. CASE id = s.id
    <3>1. ss[i].id = steps[i].id /\ ss[j].id = steps[j].id
      BY <1>4, <1>5, <2>1
    <3>2. /\ i \in DOMAIN steps /\ j \in DOMAIN steps /\ steps[i].kind = "connection"
          /\ steps[j].kind # "settings" /\ steps[i].id = steps[j].id /\ steps[i].id # 0
      BY <1>4, <1>6, <1>13, <3>1
    <3> QED
      BY <1>1, <3>2 DEF RowsApart
  <2>2. CASE id > lastId
    <3>1. CASE i # at /\ j # at
      BY <1>1, <1>4, <1>13, <3>1 DEF RowsApart
    <3>2. CASE i = at /\ j # at
      <4>1. ss[j].id \in Nat /\ ss[j].id <= lastId /\ ss[i].id = id
        BY <1>4, <1>5, <1>7, <3>2
      <4> QED
        BY <1>13, <2>2, <4>1
    <3>3. CASE i # at /\ j = at
      <4>1. ss[i].id \in Nat /\ ss[i].id <= lastId /\ ss[j].id = id
        BY <1>4, <1>5, <1>7, <3>3
      <4> QED
        BY <1>13, <2>2, <4>1
    <3> QED
      BY <3>1, <3>2, <3>3
  <2> QED
    BY <2>1, <2>2
<1>14. RowsApart'
  BY <1>3, <1>12, <1>13 DEF RowsApart
<1>15. ASSUME NEW i \in DOMAIN steps PROVE Recorded(ss[i])' <=> Recorded(steps[i])
  BY <1>6 DEF Recorded
<1>16. ASSUME NEW i \in DOMAIN steps PROVE Open(i)' <=> Open(i)
  BY DEF Open
<1>17. RecordsFit'
  BY <1>1, <1>3, <1>4, <1>6, <1>15, <1>16 DEF RecordsFit
<1> QED
  BY <1>8, <1>9, <1>14, <1>17 DEF PlanFits

(* The writes of applyConfig, one by one.                                  *)
LEMMA SaveKeeps ==
  ASSUME RowsNumbered, PlanFits, Save
  PROVE  RowsNumbered' /\ PlanFits'
<1>1. PICK s : s = steps[at]
  OBVIOUS
<1>2. StepsLeft /\ step = s /\ at \in DOMAIN steps /\ StepTyped(s)
  BY <1>1, StepAt DEF Save, Begins, PlanFits
<1>3. PICK id : id = IF s.id = 0 THEN lastId + 1 ELSE s.id
  OBVIOUS
<1>4. /\ s.action \in {"create", "override"} /\ s.kind = "connection" /\ ~saved /\ ~binding
      /\ rows' = WithKey(rows, id, Overlaid(s.id))
      /\ steps' = [steps EXCEPT ![at].id = id] /\ lastId' = IF s.id = 0 THEN id ELSE lastId
      /\ saved' = TRUE /\ binding' = binding /\ at' = at /\ file' = file /\ applied' = applied
  BY <1>2, <1>3 DEF Save, Begins, NoConn
<1>5. DOMAIN rows' = DOMAIN rows \cup {id}
  BY <1>4 DEF WithKey
<1>6. lastId \in Nat /\ DOMAIN rows \subseteq 1..lastId
  BY DEF RowsNumbered
<1>7. s.id \in Nat /\ s.id <= lastId /\ (s.id # 0 => s.id \in DOMAIN rows)
  <2>1. (Unmade(at) => s.id = 0) /\ (~Unmade(at) => s.id \in DOMAIN rows)
    BY <1>1, <1>2, <1>4 DEF PlanFits, RowsApart
  <2> QED
    BY <1>2, <2>1 DEF StepTyped
<1>8. /\ id \in Nat /\ id <= lastId' /\ id \in 1..lastId' /\ lastId' \in Nat /\ lastId <= lastId'
      /\ id = s.id \/ id > lastId
  <2>1. CASE s.id = 0
    BY <1>3, <1>4, <1>6, <2>1
  <2>2. CASE s.id # 0
    BY <1>3, <1>4, <1>6, <1>7, <2>2
  <2> QED
    BY <2>1, <2>2
<1>9. RowsNumbered'
  <2>1. DOMAIN rows' \subseteq 1..lastId'
    BY <1>5, <1>6, <1>8
  <2> QED
    BY <1>4, <1>8, <2>1 DEF RowsNumbered
<1>10. PlanFits'
  BY <1>1, <1>2, <1>4, <1>5, <1>6, <1>8, StepSaved
<1> QED
  BY <1>9, <1>10

LEMMA RecordKeeps ==
  ASSUME RowsNumbered, MatchesRecorded, PlanFits, Record
  PROVE  RowsNumbered' /\ MatchesRecorded' /\ PlanFits'
<1>1. PICK s : s = steps[at]
  OBVIOUS
<1>2. StepsLeft /\ step = s /\ at \in DOMAIN steps /\ StepTyped(s)
  BY <1>1, StepAt DEF Record, PlanFits
<1>3. /\ s.kind = "connection" /\ saved /\ saved' = FALSE /\ binding' = TRUE /\ at' = at
      /\ applied' = WithKey(applied, s.key, [id |-> s.id, hash |-> s.hash])
      /\ matched' = WithKey(matched, s.key, s.hash)
      /\ rows' = rows /\ file' = file /\ steps' = steps /\ lastId' = lastId
  BY <1>2 DEF Record
<1>4. /\ DOMAIN applied' = DOMAIN applied \cup {s.key} /\ applied'[s.key].hash = s.hash
      /\ \A k \in DOMAIN applied : k # s.key => applied'[k] = applied[k]
  BY <1>3 DEF WithKey
<1>5. /\ DOMAIN matched' = DOMAIN matched \cup {s.key} /\ matched'[s.key] = s.hash
      /\ \A k \in DOMAIN matched : k # s.key => matched'[k] = matched[k]
  BY <1>3 DEF WithKey
<1>6. binding' \in BOOLEAN
  BY <1>3, Zenon
<1>7. MatchesRecorded'
  BY <1>4, <1>5 DEF MatchesRecorded
<1>8. RowsNumbered'
  BY <1>3, <1>4, FS_AddElement DEF RowsNumbered
<1>9. Recorded(s)'
  BY <1>4 DEF Recorded
<1>10. PlanFits'
  BY <1>1, <1>2, <1>3, <1>4, <1>6, <1>9, StepDone
<1> QED
  BY <1>7, <1>8, <1>10

LEMMA KeepKeeps ==
  ASSUME RowsNumbered, MatchesRecorded, PlanFits, Keep \/ KeepSettings
  PROVE  RowsNumbered' /\ MatchesRecorded' /\ PlanFits'
<1>1. PICK s : s = steps[at]
  OBVIOUS
<1>2. StepsLeft /\ step = s /\ at \in DOMAIN steps /\ StepTyped(s)
  BY <1>1, StepAt DEF Keep, Begins, KeepSettings, PlanFits
<1>3. /\ s.action = "keep" /\ matched' = WithKey(matched, s.key, s.hash)
      /\ applied' = applied /\ rows' = rows /\ file' = file /\ steps' = steps /\ lastId' = lastId
  BY <1>2 DEF Keep, KeepSettings
<1>4. /\ saved' = FALSE /\ binding' \in BOOLEAN /\ (binding' => s.kind = "connection")
      /\ at' = IF binding' THEN at ELSE at + 1
  <2>1. CASE Keep
    <3>1. saved \in BOOLEAN
      BY DEF PlanFits, PlanTyped
    <3>2. binding' = TRUE /\ saved' = saved /\ ~saved /\ at' = at /\ s.kind = "connection"
      BY <1>2, <2>1 DEF Keep, Begins
    <3> QED
      BY <3>1, <3>2
  <2>2. CASE KeepSettings
    <3>1. binding' = FALSE /\ saved' = FALSE /\ at' = at + 1
      BY <2>2 DEF KeepSettings, Skip
    <3> QED
      BY <3>1
  <2> QED
    BY <2>1, <2>2
<1>5. /\ DOMAIN matched' = DOMAIN matched \cup {s.key} /\ matched'[s.key] = s.hash
      /\ \A k \in DOMAIN matched : k # s.key => matched'[k] = matched[k]
  BY <1>3 DEF WithKey
<1>6. Recorded(s)
  BY <1>1, <1>2, <1>3 DEF PlanFits, RecordsFit
<1>7. MatchesRecorded'
  BY <1>3, <1>5, <1>6 DEF MatchesRecorded, Recorded
<1>8. RowsNumbered'
  BY <1>3 DEF RowsNumbered
<1>9. Recorded(s)'
  BY <1>3, <1>6 DEF Recorded
<1>10. PlanFits'
  BY <1>1, <1>2, <1>3, <1>4, <1>9, StepDone
<1> QED
  BY <1>7, <1>8, <1>10

(* bindConfigSecrets changes no more of a row than its password.           *)
LEMMA BindIs ==
  ASSUME Bind
  PROVE  /\ DOMAIN rows' = DOMAIN rows
         /\ \A id \in DOMAIN rows :
              \/ rows'[id] = rows[id]
              \/ /\ entry.source = "file" /\ rows[id].auth = "password"
                 /\ rows'[id] = [rows[id] EXCEPT !.secret = "file"]
<1>1. CASE BindFile
  <2>1. PICK i : i = step.id /\ i \in DOMAIN rows /\ rows[i].auth = "password"
    BY <1>1 DEF BindFile, Bound
  <2>2. rows' = [rows EXCEPT ![i] = [rows[i] EXCEPT !.secret = "file"]] /\ entry.source = "file"
    BY <1>1, <2>1 DEF BindFile
  <2> QED
    BY <2>1, <2>2
<1>2. CASE BindEnv \/ BindNothing
  BY <1>2 DEF BindEnv, BindNothing
<1> QED
  BY <1>1, <1>2 DEF Bind

LEMMA BindKeeps ==
  ASSUME RowsNumbered, MatchesRecorded, PlanFits, Bind
  PROVE  RowsNumbered' /\ MatchesRecorded' /\ PlanFits'
<1>1. PICK s : s = steps[at]
  OBVIOUS
<1>2. StepsLeft /\ step = s /\ at \in DOMAIN steps
  BY <1>1, StepAt DEF Bind, PlanFits
<1>3. /\ binding /\ saved' = FALSE /\ binding' = FALSE /\ at' = at + 1
      /\ applied' = applied /\ matched' = matched /\ file' = file /\ steps' = steps /\ lastId' = lastId
  BY DEF Bind, Skip
<1>4. DOMAIN rows' = DOMAIN rows
  BY BindIs
<1>5. s.kind = "connection" /\ ~Open(at)
  BY <1>1, <1>3 DEF PlanFits, PlanTyped, Open
<1>6. Recorded(s)
  BY <1>1, <1>2, <1>5 DEF PlanFits, RecordsFit
<1>7. Recorded(s)'
  BY <1>3, <1>6 DEF Recorded
<1>8. binding' \in BOOLEAN /\ ~binding'
  BY <1>3, Zenon
<1>9. PlanFits'
  BY <1>1, <1>2, <1>3, <1>4, <1>7, <1>8, StepDone
<1> QED
  BY <1>3, <1>4, <1>9 DEF RowsNumbered, MatchesRecorded

LEMMA RecordSettingsKeeps ==
  ASSUME RowsNumbered, MatchesRecorded, PlanFits, RecordSettings
  PROVE  RowsNumbered' /\ MatchesRecorded' /\ PlanFits'
<1>1. PICK s : s = steps[at]
  OBVIOUS
<1>2. StepsLeft /\ step = s /\ StepTyped(s)
  BY <1>1, StepAt DEF RecordSettings, PlanFits
<1>3. /\ s.kind = "settings" /\ s.action = "override" /\ Skip
      /\ applied' = WithKey(applied, s.key, [id |-> NoConn, hash |-> s.hash])
      /\ matched' = WithKey(matched, s.key, s.hash)
      /\ rows' = rows /\ file' = file /\ steps' = steps /\ lastId' = lastId /\ bound' = bound
  BY <1>2 DEF RecordSettings
<1>4. /\ DOMAIN applied' = DOMAIN applied \cup {s.key} /\ applied'[s.key].hash = s.hash
      /\ \A k \in DOMAIN applied : k # s.key => applied'[k] = applied[k]
  BY <1>3 DEF WithKey
<1>5. /\ DOMAIN matched' = DOMAIN matched \cup {s.key} /\ matched'[s.key] = s.hash
      /\ \A k \in DOMAIN matched : k # s.key => matched'[k] = matched[k]
  BY <1>3 DEF WithKey
<1>6. MatchesRecorded'
  BY <1>4, <1>5 DEF MatchesRecorded
<1>7. RowsNumbered'
  BY <1>3, <1>4, FS_AddElement DEF RowsNumbered
<1>8. binding' \in BOOLEAN /\ ~binding' /\ saved' = FALSE /\ at' = at + 1
  BY <1>3, Zenon DEF Skip
<1>9. PlanFits'
  BY <1>1, <1>2, <1>3, <1>4, <1>8, StepDone
<1> QED
  BY <1>6, <1>7, <1>9

LEMMA SaveSettingsKeeps ==
  ASSUME PlanFits, RowsNumbered, SaveSettings
  PROVE  PlanFits'
<1>1. PICK s : s = steps[at]
  OBVIOUS
<1>2. StepsLeft /\ step = s /\ at \in DOMAIN steps /\ StepTyped(s) /\ PlanTyped
  BY <1>1, StepAt DEF SaveSettings, PlanFits
<1>3. /\ s.kind = "settings" /\ s.action = "override" /\ saved' = TRUE /\ rows' = rows
      /\ applied' = applied /\ file' = file /\ steps' = steps /\ at' = at /\ lastId' = lastId
      /\ binding' = binding
  BY <1>2 DEF SaveSettings
<1>4. s.id \in Nat /\ s.id <= lastId /\ lastId \in Nat /\ lastId <= lastId /\ DOMAIN s = StepFields
  BY <1>2 DEF StepTyped, RowsNumbered
<1>5. ~binding
  BY <1>1, <1>2, <1>3 DEF PlanTyped
<1> QED
  BY <1>1, <1>2, <1>3, <1>4, <1>5, StepSaved

LEMMA PruneRowKeeps ==
  ASSUME PlanFits, RowsNumbered, PruneRow
  PROVE  RowsNumbered' /\ PlanFits'
<1>1. PICK s : s = steps[at]
  OBVIOUS
<1>2. StepsLeft /\ step = s /\ at \in DOMAIN steps /\ StepTyped(s)
  BY <1>1, StepAt DEF PruneRow, PlanFits
<1>3. /\ s.action = "prune" /\ s.id \in DOMAIN rows /\ saved' = TRUE
      /\ rows' = WithoutKey(rows, s.id)
      /\ applied' = applied /\ file' = file /\ steps' = steps /\ at' = at /\ lastId' = lastId
      /\ binding' = binding
  BY <1>2 DEF PruneRow
<1>4. /\ s.id \in Nat /\ s.id <= lastId /\ lastId \in Nat /\ lastId <= lastId
      /\ s.id # 0 /\ s.kind = "gone"
  BY <1>2, <1>3 DEF StepTyped, RowsNumbered
<1>5. DOMAIN rows' = DOMAIN rows \ {s.id}
  BY <1>3 DEF WithoutKey
<1>6. ASSUME NEW i \in DOMAIN steps, steps[i].kind = "connection" PROVE steps[i].id # s.id
  BY <1>1, <1>2, <1>4, <1>6 DEF PlanFits, RowsApart
<1>7. RowsNumbered'
  BY <1>3, <1>5 DEF RowsNumbered
<1>8. ~binding
  BY <1>1, <1>4 DEF PlanFits, PlanTyped
<1>9. PlanFits'
  BY <1>1, <1>2, <1>3, <1>4, <1>5, <1>6, <1>8, StepSaved
<1> QED
  BY <1>7, <1>9

LEMMA PruneRecordKeeps ==
  ASSUME RowsNumbered, MatchesRecorded, PlanFits, PruneRecord
  PROVE  RowsNumbered' /\ MatchesRecorded' /\ PlanFits'
<1>1. PICK s : s = steps[at]
  OBVIOUS
<1>2. StepsLeft /\ step = s /\ StepTyped(s)
  BY <1>1, StepAt DEF PruneRecord, PlanFits
<1>3. /\ s.action = "prune" /\ Skip
      /\ applied' = WithoutKey(applied, s.key) /\ matched' = WithoutKey(matched, s.key)
      /\ rows' = rows /\ file' = file /\ steps' = steps /\ lastId' = lastId /\ bound' = bound
  BY <1>2 DEF PruneRecord
<1>4. s.kind = "gone"
  BY <1>2, <1>3 DEF StepTyped
<1>5. /\ DOMAIN applied' = DOMAIN applied \ {s.key}
      /\ \A k \in DOMAIN applied' : applied'[k] = applied[k]
  BY <1>3 DEF WithoutKey
<1>6. /\ DOMAIN matched' = DOMAIN matched \ {s.key}
      /\ \A k \in DOMAIN matched' : matched'[k] = matched[k]
  BY <1>3 DEF WithoutKey
<1>7. MatchesRecorded'
  BY <1>5, <1>6 DEF MatchesRecorded
<1>8. RowsNumbered'
  <2>1. IsFiniteSet(DOMAIN applied')
    BY <1>5, FS_Subset DEF RowsNumbered
  <2> QED
    BY <1>3, <2>1 DEF RowsNumbered
<1>9. binding' \in BOOLEAN /\ ~binding' /\ saved' = FALSE /\ at' = at + 1
  BY <1>3, Zenon DEF Skip
<1>10. PlanFits'
  BY <1>1, <1>2, <1>3, <1>4, <1>5, <1>9, StepDone
<1> QED
  BY <1>7, <1>8, <1>10

LEMMA RemovedKeeps ==
  ASSUME PlanFits, Removed
  PROVE  PlanFits'
<1>1. PICK s : s = steps[at]
  OBVIOUS
<1>2. StepsLeft /\ step = s /\ StepTyped(s)
  BY <1>1, StepAt DEF Removed, PlanFits
<1>3. /\ s.action = "removed" /\ Skip /\ applied' = applied
      /\ rows' = rows /\ file' = file /\ steps' = steps /\ lastId' = lastId /\ bound' = bound
  BY <1>2 DEF Removed
<1>4. s.kind = "gone"
  BY <1>2, <1>3 DEF StepTyped
<1>5. binding' \in BOOLEAN /\ ~binding' /\ saved' = FALSE /\ at' = at + 1
  BY <1>3, Zenon DEF Skip
<1> QED
  BY <1>1, <1>2, <1>3, <1>4, <1>5, StepDone

LEMMA ApplyKeeps ==
  ASSUME ConfInv, phase = "applying", phase' = phase, Apply
  PROVE  ConfInv'
<1>1. RowsNumbered /\ MatchesRecorded /\ PlanFits
  BY DEF ConfInv
<1>2. RowsNumbered'
  <2>1. CASE SaveSettings \/ Removed
    BY <1>1, <2>1 DEF SaveSettings, Removed, RowsNumbered
  <2> QED
    BY <1>1, <2>1, SaveKeeps, RecordKeeps, KeepKeeps, BindKeeps, PruneRowKeeps, PruneRecordKeeps,
       RecordSettingsKeeps DEF Apply
<1>3. MatchesRecorded'
  <2>1. CASE Save \/ PruneRow \/ SaveSettings \/ Removed
    BY <1>1, <2>1 DEF Save, PruneRow, SaveSettings, Removed, MatchesRecorded
  <2> QED
    BY <1>1, <2>1, RecordKeeps, KeepKeeps, BindKeeps, PruneRecordKeeps, RecordSettingsKeeps DEF Apply
<1>4. PlanFits'
  BY <1>1, SaveKeeps, RecordKeeps, KeepKeeps, BindKeeps, PruneRowKeeps, PruneRecordKeeps, RemovedKeeps,
     SaveSettingsKeeps, RecordSettingsKeeps DEF Apply
<1> QED
  BY <1>2, <1>3, <1>4 DEF ConfInv

(* The steps of a headless process around it.                              *)
LEMMA ConfStays ==
  ASSUME ConfInv, UNCHANGED confVars,
         phase' = phase \/ (phase # "applying" /\ phase' # "applying")
  PROVE  ConfInv'
<1>1. UNCHANGED <<rows, settings, applied, file, steps, at, saved, binding, lastId, bound, matched>>
  BY DEF confVars
<1>2. RowsNumbered' /\ MatchesRecorded'
  BY <1>1 DEF ConfInv, RowsNumbered, MatchesRecorded
<1>3. PlanFits => PlanFits'
  BY <1>1 DEF PlanFits, PlanTyped, StepTyped, EntriesFit, KeysApart, RowsApart, Unmade, RecordsFit,
              Open, Recorded
<1> QED
  BY <1>1, <1>2, <1>3 DEF ConfInv

LEMMA ConfForgets ==
  ASSUME ConfInv, Forget, phase' # "applying"
  PROVE  ConfInv'
BY DEF ConfInv, Forget, RowsNumbered, MatchesRecorded

LEMMA EditKeeps ==
  ASSUME ConfInv, Edit, phase # "applying", phase' = phase
  PROVE  ConfInv'
<1>1. lastId \in Nat /\ DOMAIN rows \subseteq 1..lastId
  BY DEF ConfInv, RowsNumbered
<1>2. lastId' \in Nat /\ DOMAIN rows' \subseteq 1..lastId'
  <2>1. CASE \E m \in Names, a \in Auths, t \in BOOLEAN : SaveNew(m, a, t)
    <3>1. DOMAIN rows' = DOMAIN rows \cup {lastId + 1} /\ lastId' = lastId + 1
      BY <2>1 DEF SaveNew, WithKey
    <3> QED
      BY <1>1, <3>1
  <2>2. CASE \E id \in Ids, m \in Names, a \in Auths, t \in BOOLEAN : SaveEdit(id, m, a, t)
    <3>1. DOMAIN rows' = DOMAIN rows /\ lastId' = lastId
      BY <2>2 DEF SaveEdit
    <3> QED
      BY <1>1, <3>1
  <2>3. CASE \E id \in Ids : DeleteRow(id)
    <3>1. DOMAIN rows' \subseteq DOMAIN rows /\ lastId' = lastId
      BY <2>3 DEF DeleteRow, WithoutKey
    <3> QED
      BY <1>1, <3>1
  <2>4. CASE \E p \in Parts : SaveMCPSettings(p)
    BY <1>1, <2>4 DEF SaveMCPSettings
  <2> QED
    BY <2>1, <2>2, <2>3, <2>4 DEF Edit
<1>3. applied' = applied /\ matched' = matched /\ steps' = steps /\ at' = at
  BY DEF Edit
<1> QED
  BY <1>2, <1>3 DEF ConfInv, RowsNumbered, MatchesRecorded

LEMMA ConfStarts ==
  ASSUME HeadlessInit
  PROVE  ConfInv
<1>1. /\ rows = <<>> /\ applied = <<>> /\ matched = <<>> /\ steps = <<>> /\ lastId = 0
      /\ at = 1 /\ phase = "down"
  BY DEF HeadlessInit, ConfInit
<1>2. DOMAIN rows = {} /\ DOMAIN applied = {} /\ DOMAIN matched = {}
  BY <1>1
<1>3. IsFiniteSet(DOMAIN applied)
  BY <1>2, FS_EmptySet
<1> QED
  BY <1>1, <1>2, <1>3 DEF ConfInv, RowsNumbered, MatchesRecorded

LEMMA ConfStep ==
  ASSUME FilesAreValid, HeadlessInv, ConfInv, [HeadlessNext]_headlessVars
  PROVE  ConfInv'
<1>1. CASE Start
  <2>1. PICK f \in Files : Plan(f)
    BY <1>1 DEF Start
  <2>2. RowsNumbered' /\ MatchesRecorded'
    BY <2>1 DEF Plan, ConfInv, RowsNumbered, MatchesRecorded
  <2>3. PlanFits'
    BY <2>1, PlanKeeps DEF ConfInv
  <2>4. phase' = "applying"
    BY <1>1 DEF Start
  <2> QED
    BY <2>2, <2>3, <2>4 DEF ConfInv
<1>2. CASE ApplyStep
  BY <1>2, ApplyKeeps DEF ApplyStep
<1>3. CASE Listen \/ StartFails \/ StopApp \/ Crash
  <2>1. CASE Listen
    BY <2>1, ConfForgets DEF Listen, Enter
  <2>2. CASE StartFails
    BY <2>2, ConfForgets DEF StartFails
  <2>3. CASE StopApp
    BY <2>3, ConfForgets DEF StopApp, Exit
  <2>4. CASE Crash
    BY <2>4, ConfForgets DEF Crash, Exit
  <2> QED
    BY <1>3, <2>1, <2>2, <2>3, <2>4
<1>4. CASE CallStep \/ WriteAudit
  BY <1>4, ConfStays DEF CallStep, WriteAudit
<1>5. CASE RunMethod
  <2>1. PICK n \in Numbers : Run(n) /\ (Edit \/ UNCHANGED confVars)
    BY <1>5 DEF RunMethod
  <2>2. handler[n] \in Running /\ phase' = phase
    BY <1>5, <2>1 DEF Run, Running, RunMethod
  <2>3. phase # "applying"
    BY <2>2, RunningPhase
  <2> QED
    BY <2>1, <2>2, <2>3, EditKeeps, ConfStays
<1>6. CASE Signal \/ WaitCalls \/ CloseWeb \/ CloseAudit \/ FlushAudit
  BY <1>6, ConfStays DEF Signal, WaitCalls, CloseWeb, CloseAudit, FlushAudit, Enter
<1>7. CASE UNCHANGED headlessVars
  BY <1>7, ConfStays DEF headlessVars
<1> QED
  BY <1>1, <1>2, <1>3, <1>4, <1>5, <1>6, <1>7 DEF HeadlessNext

(* ConfInv is an invariant of a headless process: while the file is        *)
(* applied (config.go, applyConfig) no two steps are about one item, every *)
(* listed item has a row of its own or is still to be created, prune has   *)
(* none of these rows, and the records say which steps are done.           *)
THEOREM ConfigInvariant == HeadlessSpec => []ConfInv
<1>1. HeadlessInit => ConfInv
  BY WebCallsAssumption, ConfigAssumption, ConfStarts
<1>2. HeadlessInv /\ ConfInv /\ [HeadlessNext]_headlessVars => ConfInv'
  BY WebCallsAssumption, ConfigAssumption, ConfStep
<1>3. HeadlessSpec => []HeadlessInv
  BY HeadlessInvariant
<1> QED
  BY <1>1, <1>2, <1>3, PTL DEF HeadlessSpec

(* When a file is applied, every connection it lists has a row of its own  *)
(* and its record current, whatever the rows, records and names an earlier *)
(* start, a crash halfway or the web admin left behind.                    *)
THEOREM ListedItemsHaveRows == HeadlessSpec => []EveryItemHasItsRow
<1>1. ConfInv => EveryItemHasItsRow
  <2>1. SUFFICES ASSUME ConfInv, ~StepsLeft
                 PROVE  /\ \A i \in DOMAIN steps : steps[i].kind = "connection" =>
                             /\ steps[i].id \in DOMAIN rows
                             /\ applied[steps[i].key].hash = steps[i].hash
                        /\ \A i, j \in DOMAIN steps :
                             steps[i].kind = "connection" /\ steps[j].kind = "connection"
                               /\ steps[i].id = steps[j].id => i = j
    BY DEF EveryItemHasItsRow, AppliedAll
  <2>2. CASE phase # "applying"
    BY <2>1, <2>2 DEF ConfInv
  <2>3. CASE phase = "applying"
    <3>1. PlanTyped /\ RowsApart /\ RecordsFit /\ RowsNumbered
      BY <2>1, <2>3 DEF ConfInv, PlanFits
    <3>2. \A i \in DOMAIN steps : i < at /\ ~(at <= i) /\ ~(at < i) /\ ~Open(i)
      BY <2>1, <3>1 DEF PlanTyped, StepsLeft, Open
    <3>3. \A i \in DOMAIN steps : ~Unmade(i)
      BY <3>1, <3>2 DEF Unmade, PlanTyped
    <3>4. \A i \in DOMAIN steps : steps[i].kind = "connection" =>
            steps[i].id \in DOMAIN rows /\ steps[i].id # 0
      BY <3>1, <3>3 DEF RowsApart, RowsNumbered
    <3> QED
      BY <3>1, <3>2, <3>4 DEF RowsApart, RecordsFit, Recorded
  <2> QED
    BY <2>2, <2>3
<1> QED
  BY <1>1, ConfigInvariant, PTL

\* What a step of applyConfig may do to rows and sections (see EditsSurvive).
RowsStay ==
  \A id \in DOMAIN rows \intersect DOMAIN rows' :
    \/ rows'[id] = rows[id]
    \/ step.key \notin DOMAIN matched \/ matched[step.key] # step.hash
    \/ /\ entry.source = "file" /\ entry.name = step.key /\ rows[id].auth = "password"
       /\ rows'[id] = [rows[id] EXCEPT !.secret = "file"]
SectionsStay ==
  \A p \in Parts :
    (settings[p] = Web /\ settings'[p] # Web)
      => p \notin DOMAIN matched \/ matched[p] # file[p]

(* What a step of applyConfig does to what the web admin has saved.        *)
LEMMA EditsKept ==
  ASSUME ConfInv, Apply, ~file.enforce
  PROVE  RowsStay /\ SectionsStay
<1>1. StepsLeft
  BY DEF Apply, Save, Begins, Record, Keep, Bind, PruneRow, PruneRecord, Removed, SaveSettings,
         RecordSettings, KeepSettings
<1>2. phase = "applying"
  <2>1. SUFFICES ASSUME steps = <<>>, at = 1 PROVE FALSE
    BY DEF ConfInv
  <2> QED
    BY <1>1, <2>1 DEF StepsLeft
<1>3. PlanTyped /\ EntriesFit /\ RowsApart /\ RecordsFit /\ MatchesRecorded /\ RowsNumbered
  BY <1>2 DEF ConfInv, PlanFits
<1>4. PICK s : s = steps[at]
  OBVIOUS
<1>5. at \in DOMAIN steps /\ step = s /\ StepTyped(s) /\ at \in Nat
  BY <1>1, <1>3, <1>4, StepAt DEF PlanTyped
<1>6. ASSUME NEW id \in DOMAIN rows, id \in DOMAIN rows', rows'[id] # rows[id]
      PROVE  \/ s.key \notin DOMAIN matched \/ matched[s.key] # s.hash
             \/ /\ entry.source = "file" /\ entry.name = s.key /\ rows[id].auth = "password"
                /\ rows'[id] = [rows[id] EXCEPT !.secret = "file"]
  <2>1. Save \/ Bind
    BY <1>6 DEF Apply, Record, Keep, PruneRow, WithoutKey, PruneRecord, Removed,
                SaveSettings, RecordSettings, KeepSettings
  <2>2. CASE Bind
    <3>1. s.kind = "connection"
      BY <1>3, <1>4, <2>2 DEF PlanTyped, Bind
    <3>2. entry.name = s.key
      BY <1>3, <1>4, <1>5, <3>1 DEF EntriesFit, entry
    <3> QED
      BY <1>6, <2>2, <3>2, BindIs
  <2>3. CASE Save
    <3>1. s.kind = "connection" /\ s.action \in {"create", "override"} /\ ~saved /\ ~binding
      BY <1>5, <2>3 DEF Save, Begins
    <3>2. id = IF s.id = 0 THEN lastId + 1 ELSE s.id
      BY <1>5, <1>6, <2>3 DEF Save, WithKey, NoConn
    <3>3. s.id # 0
      BY <1>3, <1>6, <3>2 DEF RowsNumbered
    <3>4. s.action # "create"
      BY <1>3, <1>4, <1>5, <3>1, <3>3 DEF RowsApart, Unmade
    <3>5. ~Recorded(s)
      BY <1>3, <1>4, <1>5, <3>1, <3>4 DEF RecordsFit, Open
    <3> QED
      BY <1>3, <3>5 DEF MatchesRecorded, Recorded
  <2> QED
    BY <2>1, <2>2, <2>3
<1>7. ASSUME NEW p \in Parts, settings'[p] # settings[p]
      PROVE  p \notin DOMAIN matched \/ matched[p] # file[p]
  <2>1. SaveSettings
    BY <1>7 DEF Apply, Save, Record, Keep, Bind, PruneRow, PruneRecord, Removed,
                RecordSettings, KeepSettings
  <2>2. settings' = overlay /\ ~mcpSaved /\ s.kind = "settings"
    BY <1>5, <2>1 DEF SaveSettings
  <2>3. p \in Overridden
    BY <1>7, <2>2 DEF overlay
  <2>4. PICK i \in DOMAIN steps : steps[i].kind = "settings" /\ steps[i].action = "override" /\ steps[i].key = p
    BY <2>3 DEF Overridden
  <2>5. i \in Nat /\ i >= 1
    BY <1>3 DEF PlanTyped
  <2>6. at <= i
    <3>1. SUFFICES ASSUME i < at PROVE FALSE
      BY <1>5, <2>5
    <3>2. i \in 1..(at - 1)
      BY <1>5, <2>5, <3>1
    <3> QED
      BY <2>2, <2>4, <3>2 DEF mcpSaved
  <2>7. ~Recorded(steps[i])
    <3>1. Open(i)
      BY <1>3, <1>4, <2>2, <2>6 DEF Open, PlanTyped
    <3> QED
      BY <1>3, <2>4, <3>1 DEF RecordsFit
  <2>8. steps[i].hash = file[p]
    BY <1>3, <2>4 DEF PlanTyped, StepTyped
  <2> QED
    BY <1>3, <2>4, <2>7, <2>8 DEF MatchesRecorded, Recorded
<1> QED
  BY <1>5, <1>6, <1>7 DEF RowsStay, SectionsStay

(* A start in seed mode changes nothing but a password for an item that    *)
(* has not changed since a step about it last finished, whatever crashes,  *)
(* renames, deletions and failed starts lie in between: every save but an  *)
(* override of a changed item is a creation (planSteps), the merged        *)
(* settings take over only sections that are overridden, and               *)
(* bindConfigSecrets, which runs for kept rows too, writes passwordFile's   *)
(* password and only in a row that still uses one.                         *)
THEOREM StartsKeepEdits == HeadlessSpec => EditsSurvive
<1>1. ConfInv /\ [HeadlessNext]_headlessVars =>
        [~Apply \/ file.enforce \/ (RowsStay /\ SectionsStay)]_confVars
  BY WebCallsAssumption, ConfigAssumption, EditsKept
<1> QED
  BY <1>1, ConfigInvariant, PTL DEF HeadlessSpec, EditsSurvive, RowsStay, SectionsStay
=============================================================================
