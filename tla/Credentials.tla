----------------------------- MODULE Credentials -----------------------------
(***************************************************************************)
(* Passwords and key passphrases: the connections rows that refer to them  *)
(* and the secret_gc queue (storage.go), the OS keychain behind its per-   *)
(* account lock and shared reads (secret_store.go), the session-only store *)
(* and the cache (app_credentials.go), and the operations that change them *)
(* (SaveConnection and DeleteConnection of app.go, the passphrase opt-in,  *)
(* the collector and the migration at startup).                            *)
(*                                                                         *)
(* secretMu admits one operation at a time: the writer.  Readers (dials)   *)
(* hold no lock while they wait for the keychain.  A keychain call may     *)
(* fail, or take effect after its caller gave up; SQLite may fail; the     *)
(* process may die anywhere.  A password is named by the endpoint it was   *)
(* typed for, a passphrase by its key path (the one that opened that key   *)
(* in the test; a key file that is encrypted anew is left out); an account *)
(* is a connection with "password" or a key path, so it is also what a row *)
(* authenticates with.  Names, serial rows and test results are left out.  *)
(***************************************************************************)
EXTENDS Naturals, FiniteSets

CONSTANTS
  Conns,      \* connection ids
  Legacy,     \* what an older version may have left: for each connection the
              \* endpoint its plaintext password is for, or None without a row
  KeyPaths,
  Endpoints,
  Readers,
  None,
  Down,       \* the answer of a keychain that is unavailable
  Calls,      \* bound: operations started
  Faults      \* bound: failures, timeouts and crashes

ASSUME CredentialsAssumption ==
  /\ Legacy \subseteq [Conns -> Endpoints \cup {None}]
  /\ Calls \in Nat /\ Faults \in Nat
  /\ None \notin Endpoints \cup KeyPaths \cup {Down}
  /\ Down \notin Endpoints \cup KeyPaths
  /\ "password" \notin KeyPaths
  /\ None \notin {"password", "boot", "save", "delete", "passphrase"}
  /\ None \notin [op : {"put", "delete"}, val : Endpoints \cup KeyPaths \cup {None},
                  heard : BOOLEAN]
  /\ None \notin [read : BOOLEAN, val : Endpoints \cup KeyPaths \cup {None, Down}]

VARIABLES
  row,      \* the connections table
  gc,       \* the secret_gc table
  item,     \* the keychain
  lock,     \* locks: the keychain write in flight per account
  gets,     \* gets: the shared read in flight per account
  conns,    \* a.conns
  session,  \* a.sessionSecrets, passwords by connection
  cache,    \* a.secretCache
  w,        \* the holder of secretMu
  rd,       \* the readers
  tail,     \* DeleteConnection after secretMu: what it still has to forget
  calls, faults,
  lapsed,   \* accounts whose bookkeeping a crash or failure cut short
  upset,    \* connections that met a failure of the keychain or an older
            \* shared read, or one of whose saves a crash cut in two
  raced,    \* readers whose connection forgot its secrets while they read
  stale     \* connections whose cache such a reader filled since

store == <<row, gc>>
keychain == <<item, lock, gets>>
memory == <<conns, session, cache>>
ghosts == <<lapsed, upset, raced, stale>>
vars == <<store, keychain, memory, w, rd, tail, calls, faults, ghosts>>

Auths == {"password"} \cup KeyPaths
Accounts == Conns \X Auths
NoRow == [auth |-> None, ep |-> None, saved |-> FALSE, col |-> None]

Idle == [pc |-> "idle", kind |-> None, c |-> None, auth |-> None, ep |-> None,
         typed |-> FALSE, new |-> FALSE, old |-> None, todo |-> {},
         op |-> None, a |-> None, val |-> None, next |-> None,
         res |-> None, got |-> None]

Plain(c) == row[c].auth = "password" /\ row[c].col # None

\* The migration lists its rows first.
Boot == [Idle EXCEPT !.pc = "boot", !.kind = "boot",
                     !.todo = {<<c, "password">> : c \in {d \in Conns : Plain(d)}}]

NoRead == [pc |-> "idle", c |-> None, auth |-> None, ep |-> None, val |-> None]

\* A row of an older version, with its password in the table.
OldRow(ep) ==
  IF ep = None THEN NoRow
  ELSE [auth |-> "password", ep |-> ep, saved |-> FALSE, col |-> ep]

Init ==
  /\ \E old \in Legacy : row = [c \in Conns |-> OldRow(old[c])]
  /\ gc = {}
  /\ item = [a \in Accounts |-> None]
  /\ lock = [a \in Accounts |-> None]
  /\ gets = [a \in Accounts |-> None]
  /\ conns = [c \in Conns |-> NoRow]
  /\ session = [c \in Conns |-> None]
  /\ cache = [a \in Accounts |-> None]
  /\ w = Boot /\ rd = [r \in Readers |-> NoRead] /\ tail = [c \in Conns |-> 0]
  /\ calls = 0 /\ faults = 0
  /\ lapsed = {} /\ upset = {} /\ raced = {} /\ stale = {}

Call == calls < Calls /\ calls' = calls + 1
Fault == faults < Faults /\ faults' = faults + 1
FaultIf(bad) == IF bad THEN Fault ELSE UNCHANGED faults

----------------------------------------------------------------------------
(* The keychain (osSecretStore)                                            *)

\* storeSecretVerified ("put"), Delete or Get on account a; the answer is
\* looked at in pc `next`.
Asking(rec, op, a, val, next) ==
  [rec EXCEPT !.pc = IF op = "get" THEN "ask" ELSE "want",
              !.op = op, !.a = a, !.val = val, !.next = next]

Answered(res, got) == [w EXCEPT !.pc = w.next, !.res = res, !.got = got]

\* write: the account is taken and the OS call runs in its own goroutine.
Take ==
  /\ w.pc = "want" /\ lock[w.a] = None
  /\ lock' = [lock EXCEPT ![w.a] = [op |-> w.op, val |-> w.val, heard |-> TRUE]]
  /\ w' = [w EXCEPT !.pc = "wait"]
  /\ UNCHANGED <<store, item, gets, memory, rd, tail, calls, faults, ghosts>>

\* The caller gives up, before or after its call started.
GiveUp ==
  /\ w.pc \in {"want", "wait", "waitGet"} /\ Fault
  /\ lock' = IF w.pc = "wait" THEN [lock EXCEPT ![w.a].heard = FALSE] ELSE lock
  /\ w' = Answered("down", None)
  /\ upset' = upset \cup {w.a[1]}
  /\ UNCHANGED <<store, item, gets, memory, rd, tail, calls, lapsed, raced, stale>>

\* The OS call returns, whether or not its caller still waits; a write may
\* also be refused as too big.
OsReturns(a, ok) ==
  LET op == lock[a]
      refusals == IF op.op = "put" THEN {"down", "big"} ELSE {"down"}
  IN  /\ op # None /\ FaultIf(~ok)
      /\ item' = CASE ok /\ op.op = "put"    -> [item EXCEPT ![a] = op.val]
                   [] ok /\ op.op = "delete" -> [item EXCEPT ![a] = None]
                   [] OTHER -> item
      /\ lock' = [lock EXCEPT ![a] = None]
      /\ IF ~op.heard THEN w' = w
         ELSE IF ~ok THEN \E res \in refusals : w' = Answered(res, None)
         ELSE w' = IF op.op = "put" THEN [w EXCEPT !.pc = "ask"] ELSE Answered("ok", None)
      /\ upset' = IF ok THEN upset ELSE upset \cup {a[1]}
      /\ UNCHANGED <<store, gets, memory, rd, tail, calls, lapsed, raced, stale>>

\* Get joins the read in flight, or starts one.  A read stays joinable after
\* it has let go of the account.
Joined(a) == IF gets[a] = None THEN [gets EXCEPT ![a] = [read |-> FALSE, val |-> None]]
             ELSE gets

Late(a) == gets[a] # None /\ gets[a].read

Ask ==
  /\ w.pc = "ask"
  /\ gets' = Joined(w.a)
  /\ w' = [w EXCEPT !.pc = "waitGet"]
  /\ lapsed' = IF Late(w.a) THEN lapsed \cup {w.a} ELSE lapsed
  /\ upset' = IF Late(w.a) THEN upset \cup {w.a[1]} ELSE upset
  /\ UNCHANGED <<store, item, lock, memory, rd, tail, calls, faults, raced, stale>>

\* The read waits for the account, reads and lets go of it ...
GetReads(a, ok) ==
  /\ gets[a] # None /\ ~gets[a].read /\ lock[a] = None /\ FaultIf(~ok)
  /\ gets' = [gets EXCEPT ![a] = [read |-> TRUE, val |-> IF ok THEN item[a] ELSE Down]]
  /\ upset' = IF ok THEN upset ELSE upset \cup {a[1]}
  /\ UNCHANGED <<store, item, lock, memory, w, rd, tail, calls, lapsed, raced, stale>>

\* ... and then everyone who joined gets its value.
GetReturns(a) ==
  LET v == gets[a].val
      good == IF w.op = "put" THEN v = w.val ELSE v # Down
  IN  /\ gets[a] # None /\ gets[a].read
      /\ gets' = [gets EXCEPT ![a] = None]
      /\ w' = IF w.pc = "waitGet" /\ w.a = a
              THEN Answered(IF good THEN "ok" ELSE "down", v) ELSE w
      /\ rd' = [r \in Readers |->
                  IF rd[r].pc = "waitGet" /\ <<rd[r].c, rd[r].auth>> = a
                  THEN IF v \in {None, Down} THEN NoRead
                       ELSE [rd[r] EXCEPT !.pc = "keep", !.val = v]
                  ELSE rd[r]]
      /\ UNCHANGED <<store, item, lock, memory, tail, calls, faults, ghosts>>

----------------------------------------------------------------------------
(* What refers to a secret, and the collector                              *)

\* secretAccountReferenced
Referenced(a) == row[a[1]].saved /\ row[a[1]].auth = a[2]

\* obsoleteAccounts of row c once it becomes `next`
Obsolete(c, next) ==
  IF row[c].saved /\ ~(next.saved /\ next.auth = row[c].auth)
  THEN {<<c, row[c].auth>>} ELSE {}

\* The bug of a change that keeps the cached secrets.
Forgotten_Nothing(c) == cache

\* forgetSecretsLocked
Forgotten(c) == [a \in Accounts |-> IF a[1] = c THEN None ELSE cache[a]]

\* The readers that are between their read and the cache.
RacedBy(c) ==
  raced \cup {r \in Readers : rd[r].c = c /\ rd[r].pc \in {"waitGet", "keep"}}

\* A new round of runSecretGC, at the end of an operation or every hour.
Collecting(rec) == [rec EXCEPT !.pc = "collect", !.todo = gc']

\* runSecretGC drops what is referenced again from the queue ...
Collect ==
  /\ w.pc = "collect"
  /\ \/ \E a \in w.todo :
          IF Referenced(a)
          THEN /\ gc' = gc \ {a} /\ w' = [w EXCEPT !.todo = @ \ {a}]
          ELSE /\ UNCHANGED gc
               /\ w' = Asking(w, "delete", a, None, "collected")
     \/ /\ w.todo = {} /\ UNCHANGED gc
        /\ w' = [w EXCEPT !.pc = "end"]
  /\ UNCHANGED <<row, keychain, memory, rd, tail, calls, faults, ghosts>>

\* ... and the rest once it is deleted; it stops when the keychain is down.
Collected ==
  /\ w.pc = "collected"
  /\ IF w.res = "ok"
     THEN /\ gc' = gc \ {w.a}
          /\ w' = [w EXCEPT !.pc = "collect", !.todo = @ \ {w.a}]
     ELSE UNCHANGED gc /\ w' = [w EXCEPT !.pc = "end"]
  /\ UNCHANGED <<row, keychain, memory, rd, tail, calls, faults, ghosts>>

\* secretMu is released; a start loads the connections, a deletion goes on.
End ==
  /\ w.pc = "end"
  /\ w' = Idle
  /\ conns' = IF w.kind = "boot" THEN row ELSE conns
  /\ tail' = IF w.kind = "delete" THEN [tail EXCEPT ![w.c] = 2] ELSE tail
  /\ UNCHANGED <<store, keychain, session, cache, rd, calls, faults, ghosts>>

\* The bug of a failed save that leaves its item unqueued.
Queued_Not(a) == gc

Queued(a) == gc \cup {a}

\* enqueueSecretGC; a failure of SQLite is only logged.
Enqueue(a, ok) ==
  /\ FaultIf(~ok)
  /\ gc' = IF ok THEN Queued(a) ELSE gc
  /\ lapsed' = IF ok THEN lapsed ELSE lapsed \cup {a}

Tick ==
  /\ w.pc = "idle" /\ gc # {} /\ Call
  /\ UNCHANGED gc /\ w' = Collecting(Idle)
  /\ UNCHANGED <<row, keychain, memory, rd, tail, faults, ghosts>>

----------------------------------------------------------------------------
(* SaveConnection                                                          *)

Fresh(c) == row[c] = NoRow /\ conns[c] = NoRow /\ \A a \in Accounts :
              a[1] = c => item[a] = None /\ lock[a] = None /\ a \notin gc

BeginSave(c, auth, ep, typed) ==
  LET new == Fresh(c)
      s == [Idle EXCEPT !.kind = "save", !.c = c, !.auth = auth, !.ep = ep,
                        !.typed = typed, !.new = new]
      a == <<c, "password">>
  IN  /\ w.pc = "idle" /\ Call
      /\ typed => auth = "password"
      /\ new \/ conns[c] # NoRow
      /\ w' = CASE ~typed -> [s EXCEPT !.pc = "row"]
                [] typed /\ new -> Asking(s, "put", a, ep, "stored")
                [] OTHER -> Asking(s, "get", a, None, "gotOld")
      /\ UNCHANGED <<store, keychain, memory, rd, tail, faults, ghosts>>

\* prepareSecretRollback: a slot that cannot be read is not overwritten.
GotOld ==
  /\ w.pc = "gotOld" /\ UNCHANGED gc
  /\ w' = IF w.res # "ok" THEN Collecting(w)
          ELSE Asking([w EXCEPT !.old = w.got], "put", w.a, w.ep, "stored")
  /\ UNCHANGED <<row, keychain, memory, rd, tail, calls, faults, ghosts>>

\* The bug of a rollback that only removes an item that is new.
Undo_OnlyNew(rec) == IF rec.old # None THEN [rec EXCEPT !.pc = "restored", !.res = "ok"]
                     ELSE Asking(rec, "delete", rec.a, None, "restored")

\* restore: the old password goes back, or the item goes away.
Undo(rec) == IF rec.old # None THEN Asking(rec, "put", rec.a, rec.old, "restored")
             ELSE Asking(rec, "delete", rec.a, None, "restored")

\* What a failed save does about the item it may have written.
FailedSave(ok) ==
  CASE w.typed /\ w.new  -> Enqueue(w.a, ok) /\ w' = Collecting(w)
    [] w.typed /\ ~w.new -> ok /\ UNCHANGED <<gc, lapsed, faults>> /\ w' = Undo(w)
    [] OTHER -> ok /\ UNCHANGED <<gc, lapsed, faults>> /\ w' = Collecting(w)

Stored(ok) ==
  /\ w.pc = "stored"
  /\ IF w.res = "ok" THEN /\ ok /\ w' = [w EXCEPT !.pc = "row"]
                          /\ UNCHANGED <<gc, lapsed, faults>>
     ELSE FailedSave(ok)
  /\ UNCHANGED <<row, keychain, memory, rd, tail, calls, upset, raced, stale>>

\* The row a save writes: a blank password keeps the old one, and a saved
\* passphrase stays only with its key path.
NextRow ==
  LET prev == conns[w.c]
      keeps == ~w.typed /\ w.auth = "password" /\ prev.auth = "password"
  IN  [auth |-> w.auth, ep |-> w.ep,
       saved |-> \/ w.typed
                 \/ keeps /\ prev.saved
                 \/ w.auth \in KeyPaths /\ row[w.c].saved /\ row[w.c].auth = w.auth,
       col |-> IF keeps THEN prev.col ELSE None]

\* The password of one endpoint is never kept for another.
Refused == /\ ~w.typed /\ w.auth = "password"
           /\ conns[w.c].auth = "password" /\ conns[w.c].ep # w.ep

\* The queue after the row became `next`, in the same transaction: what it no
\* longer uses goes in, and the password account that is live again comes out.
updateConnection(c, next) ==
  (gc \cup Obsolete(c, next))
    \ (IF next.saved /\ next.auth = "password" THEN {<<c, "password">>} ELSE {})

\* The row is written under a.mu; memory follows when it was.
SaveRow ==
  LET c == w.c
      next == NextRow
      old == conns[c]
  IN  /\ w.pc = "row"
      /\ w.new \/ (conns[c] # NoRow /\ row[c] # NoRow /\ ~Refused)
      /\ row' = [row EXCEPT ![c] = next]
      /\ gc' = updateConnection(c, next)
      /\ conns' = [conns EXCEPT ![c] = next]
      /\ cache' = Forgotten(c) /\ raced' = RacedBy(c) /\ stale' = stale \ {c}
      /\ session' = IF ~w.new /\ (w.typed \/ w.auth # "password" \/ old.ep # w.ep)
                    THEN [session EXCEPT ![c] = None] ELSE session
      /\ w' = Collecting(w)
      /\ UNCHANGED <<keychain, rd, tail, calls, faults, lapsed, upset>>

\* It is not written: the connection is gone, the password must be typed
\* again, or SQLite fails.
SaveRowFails(ok) ==
  /\ w.pc = "row"
  /\ \/ ~w.new /\ (conns[w.c] = NoRow \/ row[w.c] = NoRow \/ Refused) /\ FailedSave(ok)
     \/ /\ Fault /\ ok /\ UNCHANGED lapsed
        /\ gc' = IF w.typed /\ w.new THEN Queued(w.a) ELSE gc
        /\ w' = IF w.typed /\ ~w.new THEN Undo(w) ELSE Collecting(w)
  /\ UNCHANGED <<row, keychain, memory, rd, tail, calls, upset, raced, stale>>

Restored(ok) ==
  /\ w.pc = "restored"
  /\ IF w.old = None /\ w.res # "ok" THEN Enqueue(w.a, ok)
     ELSE ok /\ UNCHANGED <<gc, lapsed, faults>>
  /\ cache' = Forgotten(w.c) /\ raced' = RacedBy(w.c) /\ stale' = stale \ {w.c}
  /\ w' = Collecting(w)
  /\ UNCHANGED <<row, keychain, conns, session, rd, tail, calls, upset>>

----------------------------------------------------------------------------
(* DeleteConnection, the passphrase opt-in, the session-only password      *)

\* The row goes and its items are queued in one transaction.
Delete(c) ==
  /\ w.pc = "idle" /\ conns[c] # NoRow /\ Call
  /\ gc' = gc \cup Obsolete(c, NoRow)
  /\ row' = [row EXCEPT ![c] = NoRow]
  /\ w' = Collecting([Idle EXCEPT !.kind = "delete", !.c = c])
  /\ UNCHANGED <<keychain, memory, rd, tail, faults, ghosts>>

\* Without secretMu: the session-only password, then memory and the cache.
DeleteTail(c) ==
  /\ tail[c] > 0
  /\ tail' = [tail EXCEPT ![c] = @ - 1]
  /\ session' = IF tail[c] = 2 THEN [session EXCEPT ![c] = None] ELSE session
  /\ conns' = IF tail[c] = 1 THEN [conns EXCEPT ![c] = NoRow] ELSE conns
  /\ cache' = IF tail[c] = 1 THEN Forgotten(c) ELSE cache
  /\ raced' = IF tail[c] = 1 THEN RacedBy(c) ELSE raced
  /\ stale' = IF tail[c] = 1 THEN stale \ {c} ELSE stale
  /\ UNCHANGED <<store, keychain, w, rd, calls, faults, lapsed, upset>>

\* TestConnectionWithPassphraseSave after the test: the key path is the one
\* that was tested, and the row may have changed since.
BeginPassphrase(c, k) ==
  /\ w.pc = "idle" /\ conns[c] # NoRow /\ Call
  /\ w' = Asking([Idle EXCEPT !.kind = "passphrase", !.c = c], "put", <<c, k>>, k,
                 "passphrase")
  /\ UNCHANGED <<store, keychain, memory, rd, tail, faults, ghosts>>

\* setPassphraseSaved applies only while the row has the key path.
setPassphraseSaved(a) == row[a[1]].auth = a[2]

\* After a failed write nothing is queued, though it may have taken effect.
PassphraseStored(ok) ==
  LET c == w.c
      a == w.a
  IN  /\ w.pc = "passphrase"
      /\ CASE w.res # "ok" ->
                /\ ok /\ w' = Idle /\ lapsed' = lapsed \cup {a}
                /\ UNCHANGED <<store, cache, faults>>
           [] w.res = "ok" /\ setPassphraseSaved(a) /\ ok ->
                /\ row' = [row EXCEPT ![c].saved = TRUE] /\ gc' = gc \ {a}
                /\ cache' = [cache EXCEPT ![a] = w.val]
                /\ w' = Idle /\ UNCHANGED <<lapsed, faults>>
           [] OTHER ->
                /\ Enqueue(a, ok) /\ w' = Collecting(w) /\ UNCHANGED <<row, cache>>
      /\ UNCHANGED <<keychain, conns, session, rd, tail, calls, upset, raced, stale>>

\* UseCredentialForSession looks the connection up ...
BeginUse(r, c) ==
  /\ rd[r].pc = "idle" /\ conns[c].auth = "password" /\ Call
  /\ rd' = [rd EXCEPT ![r] = [NoRead EXCEPT !.pc = "use", !.c = c, !.val = conns[c].ep]]
  /\ UNCHANGED <<store, keychain, memory, w, tail, faults, ghosts>>

\* ... and stores the password that was typed for it.
Use(r) ==
  LET c == rd[r].c
  IN  /\ rd[r].pc = "use"
      /\ session' = [session EXCEPT ![c] = rd[r].val]
      /\ cache' = Forgotten(c) /\ raced' = RacedBy(c) /\ stale' = stale \ {c}
      /\ rd' = [rd EXCEPT ![r] = NoRead]
      /\ UNCHANGED <<store, keychain, conns, w, tail, calls, faults, lapsed, upset>>

----------------------------------------------------------------------------
(* resolveCredential                                                       *)

\* The connection a dial copied, when it has a secret to read.
Resolve(r, c) ==
  /\ rd[r].pc = "idle" /\ conns[c] # NoRow /\ Call
  /\ IF conns[c].auth = "password" THEN conns[c].saved ELSE row[c].saved
  /\ rd' = [rd EXCEPT ![r] = [NoRead EXCEPT !.pc = "look", !.c = c,
                                            !.auth = conns[c].auth, !.ep = conns[c].ep]]
  /\ raced' = raced \ {r}
  /\ UNCHANGED <<store, keychain, memory, w, tail, faults, lapsed, upset, stale>>

\* readSecret: the cache, the session-only store, the keychain.
Look(r) ==
  LET c == rd[r].c
      a == <<c, rd[r].auth>>
      own == rd[r].auth = "password" /\ session[c] # None
  IN  /\ rd[r].pc = "look"
      /\ rd' = [rd EXCEPT ![r] = CASE cache[a] # None -> NoRead
                                   [] cache[a] = None /\ own ->
                                        [@ EXCEPT !.pc = "keep", !.val = session[c]]
                                   [] OTHER -> [@ EXCEPT !.pc = "waitGet"]]
      /\ gets' = IF cache[a] = None /\ ~own THEN Joined(a) ELSE gets
      /\ UNCHANGED <<store, item, lock, memory, w, tail, calls, faults, ghosts>>

\* cacheSecret, whatever happened since the read.
Keep(r) ==
  LET a == <<rd[r].c, rd[r].auth>>
  IN  /\ rd[r].pc = "keep"
      /\ cache' = [cache EXCEPT ![a] = rd[r].val]
      /\ rd' = [rd EXCEPT ![r] = NoRead]
      /\ stale' = IF r \in raced THEN stale \cup {rd[r].c} ELSE stale
      /\ raced' = raced \ {r}
      /\ UNCHANGED <<store, keychain, conns, session, w, tail, calls, faults, lapsed, upset>>

\* The dial is cancelled or the keychain takes too long.
ReadGivesUp(r) ==
  /\ rd[r].pc = "waitGet" /\ Fault
  /\ rd' = [rd EXCEPT ![r] = NoRead]
  /\ UNCHANGED <<store, keychain, memory, w, tail, calls, ghosts>>

----------------------------------------------------------------------------
(* Startup and crash                                                       *)

\* The rows of the list that were not tried yet.
Pending == {c \in Conns : <<c, "password">> \in w.todo /\ Plain(c)}

\* migrateCredentialsToKeyring takes the plaintext rows one by one ...
Migrate ==
  /\ w.pc = "boot" /\ UNCHANGED gc
  /\ \/ \E c \in Pending :
          w' = Asking([w EXCEPT !.c = c, !.todo = @ \ {<<c, "password">>}],
                      "put", <<c, "password">>, row[c].col, "migrated")
     \/ Pending = {} /\ w' = Collecting(w)
  /\ UNCHANGED <<row, keychain, memory, rd, tail, calls, faults, ghosts>>

\* The bug of clearing the column before the item is known to be there.
MayClear_Always == TRUE

MayClear == w.res = "ok"

\* ... and clears the column of one whose item was read back.  It goes on
\* past a password that is too big, and gives up when the keychain is down or
\* SQLite refuses the row: the password then stays where it was, and nothing
\* is queued for the item that may be there.
Migrated(ok) ==
  /\ w.pc = "migrated"
  /\ CASE MayClear /\ ok ->
            /\ row' = [row EXCEPT ![w.c].col = None, ![w.c].saved = TRUE]
            /\ gc' = gc \ {w.a}
            /\ w' = [w EXCEPT !.pc = "boot"]
            /\ UNCHANGED <<lapsed, faults>>
       [] MayClear /\ ~ok ->
            /\ Fault /\ UNCHANGED store /\ w' = Collecting(w)
            /\ lapsed' = lapsed \cup {w.a}
       [] OTHER ->
            /\ ok /\ UNCHANGED <<store, faults>>
            /\ w' = IF w.res = "big" THEN [w EXCEPT !.pc = "boot"] ELSE Collecting(w)
            /\ lapsed' = lapsed \cup {w.a}
  /\ UNCHANGED <<keychain, memory, rd, tail, calls, upset, raced, stale>>

\* A save of c that may have written its password, and has not yet written
\* its row or put the old password back.
HalfSaved(c) ==
  /\ w.c = c /\ w.typed
  /\ \/ w.pc \in {"stored", "row", "restored"}
     \/ w.pc \in {"want", "wait", "ask", "waitGet"} /\ w.next \in {"stored", "restored"}

\* The process dies and starts again; a keychain call in flight may or may
\* not have reached the keychain.
Crash ==
  /\ Fault
  /\ \E done \in SUBSET {a \in Accounts : lock[a] # None} :
       item' = [a \in Accounts |->
                  IF a \notin done THEN item[a]
                  ELSE IF lock[a].op = "put" THEN lock[a].val ELSE None]
  /\ lapsed' = lapsed \cup {a \in Accounts : a = w.a \/ lock[a] # None}
  /\ upset' = upset \cup {c \in Conns : HalfSaved(c)}
  /\ lock' = [a \in Accounts |-> None] /\ gets' = [a \in Accounts |-> None]
  /\ conns' = [c \in Conns |-> NoRow] /\ session' = [c \in Conns |-> None]
  /\ cache' = [a \in Accounts |-> None] /\ raced' = {} /\ stale' = {}
  /\ w' = Boot /\ rd' = [r \in Readers |-> NoRead] /\ tail' = [c \in Conns |-> 0]
  /\ UNCHANGED <<store, calls>>

----------------------------------------------------------------------------
Keychain ==
  \/ Take \/ GiveUp \/ Ask
  \/ \E a \in Accounts : \/ \E ok \in BOOLEAN : OsReturns(a, ok) \/ GetReads(a, ok)
                         \/ GetReturns(a)

Begin ==
  \/ \E c \in Conns, auth \in Auths, ep \in Endpoints, typed \in BOOLEAN :
       BeginSave(c, auth, ep, typed)
  \/ \E c \in Conns : Delete(c) \/ \E k \in KeyPaths : BeginPassphrase(c, k)
  \/ Tick

Writer ==
  \/ GotOld \/ SaveRow \/ Collect \/ Collected \/ End \/ Migrate
  \/ \E ok \in BOOLEAN : \/ Stored(ok) \/ SaveRowFails(ok) \/ Restored(ok)
                         \/ PassphraseStored(ok) \/ Migrated(ok)

Reader(r) ==
  \/ \E c \in Conns : Resolve(r, c) \/ BeginUse(r, c)
  \/ Look(r) \/ Keep(r) \/ Use(r) \/ ReadGivesUp(r)

Next ==
  \/ Keychain \/ Begin \/ Writer \/ Crash
  \/ \E c \in Conns : DeleteTail(c)
  \/ \E r \in Readers : Reader(r)

Spec == Init /\ [][Next]_vars

----------------------------------------------------------------------------
(* Properties                                                              *)

\* A row that says its secret is in the keychain always has one there: no
\* collector, rollback, migration, late keychain call or crash takes it away,
\* and the plaintext of a migrated row is cleared only when it is.
NoSecretIsLost ==
  \A c \in Conns : row[c].saved => item[<<c, row[c].auth>>] # None

\* Every item of the keychain is used by a row, or queued for deletion, or the
\* business of the operation at work.  Left out are the accounts of which one
\* of these was seen: a crash in the middle of an operation or of a keychain
\* write, a failed write of the queue, a read shared with a dial that was
\* older than the operation, a passphrase whose write failed (it may take
\* effect all the same), and a migration that left its row as it was (the
\* write failed, or SQLite refused the row after the item was verified).
NoSecretIsForgotten ==
  \A a \in Accounts :
    item[a] # None => Referenced(a) \/ a \in gc \/ a \in lapsed \/ w.a = a

\* Between operations, the keychain has the password that was typed for the
\* endpoint of the row: a save that fails puts the old one back before the
\* next operation.  Left out are the connections of which one of these was
\* seen: a keychain call that failed or was given up, a read shared with a
\* dial that was older than the operation, and a crash between a save's
\* first write to the keychain and its row or its rollback (HalfSaved).  A
\* crash anywhere else, in a deletion, a collection, a migration or a
\* passphrase, or after the row, changes nothing.
PasswordFitsEndpoint ==
  \A c \in Conns :
    (w.pc = "idle" /\ row[c].saved /\ row[c].auth = "password" /\ c \notin upset)
      => item[<<c, "password">>] = row[c].ep

\* The password that a dial of c finds without the cache.
Current(c) == IF session[c] # None THEN session[c] ELSE item[<<c, "password">>]

\* Only a dial that a change of its connection overtook is stale.  Between
\* operations every other dial carries the current password to the cache,
\* also when it joined a read that began before a save (the read-back of the
\* save joins it too), and the cache holds the current password unless an
\* overtaken dial filled it since it was last forgotten.  Left out are the
\* connections that PasswordFitsEndpoint leaves out.
OnlyOvertakenDialsAreStale ==
  \A c \in Conns :
    (w.pc = "idle" /\ conns[c] # NoRow /\ tail[c] = 0 /\ c \notin upset
      /\ Referenced(<<c, "password">>)) =>
      /\ c \in stale \/ cache[<<c, "password">>] \in {None, Current(c)}
      /\ \A r \in Readers \ raced :
           (rd[r].pc = "keep" /\ rd[r].c = c /\ rd[r].auth = "password")
             => rd[r].val = Current(c)

=============================================================================
