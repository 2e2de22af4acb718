-------------------------- MODULE CredentialProofs --------------------------
(***************************************************************************)
(* No saved secret is lost or forgotten, a password stays with the         *)
(* endpoint it was typed for, and only a dial that was overtaken is stale:  *)
(* through every order of saves, deletions, passphrases, migrations,       *)
(* collections and dials, with a keychain that fails, is late or acts      *)
(* after its caller gave up, a failing SQLite and crashes.  Proved for any *)
(* sets of connections, key paths, endpoints and dials, and any bounds.    *)
(*                                                                         *)
(* The invariant follows a secret through the writer: what it may have     *)
(* overwritten and still knows (OldIsKnown), what it wrote and relies on   *)
(* (WritesKept), which keychain calls may still act (LocksHeard) and what  *)
(* a shared read may still deliver (SecretsKept, PasswordsFit).            *)
(***************************************************************************)
EXTENDS Credentials, TLAPS

----------------------------------------------------------------------------
(* The shape of the state                                                  *)

\* The secrets that may be in account a.
Vals(a) == IF a[2] = "password" THEN Endpoints ELSE {a[2]}

Secrets == Endpoints \cup KeyPaths \cup {None}

Rows == {NoRow} \cup
        {x \in [auth : Auths, ep : Endpoints, saved : BOOLEAN, col : Endpoints \cup {None}] :
           x.col = None \/ (x.col = x.ep /\ x.auth = "password")}

Calling == {"want", "wait", "ask", "waitGet"}
Answers == {"collected", "gotOld", "stored", "restored", "passphrase", "migrated"}

WriterRecord ==
  [pc : {"idle", "boot", "collect", "end", "row"} \cup Calling \cup Answers,
   kind : {None, "boot", "save", "delete", "passphrase"}, c : Conns \cup {None},
   auth : Auths \cup {None}, ep : Endpoints \cup {None}, typed : BOOLEAN, new : BOOLEAN,
   old : Endpoints \cup {None}, todo : SUBSET Accounts, op : {None, "put", "delete", "get"},
   a : Accounts \cup {None}, val : Secrets, next : Answers \cup {None},
   res : {None, "ok", "down", "big"}, got : Secrets \cup {Down}]

ReaderRecord ==
  [pc : {"idle", "use", "look", "waitGet", "keep"}, c : Conns \cup {None},
   auth : Auths \cup {None}, ep : Endpoints \cup {None}, val : Secrets]

LockRecord == [op : {"put", "delete"}, val : Secrets, heard : BOOLEAN]
GetRecord == [read : BOOLEAN, val : Secrets \cup {Down}]

\* The tables and the memory of the process hold what they are meant to hold.
TablesType ==
  /\ row \in [Conns -> Rows] /\ conns \in [Conns -> Rows]
  /\ gc \subseteq Accounts /\ lapsed \subseteq Accounts
  /\ upset \subseteq Conns /\ raced \subseteq Readers /\ stale \subseteq Conns
  /\ tail \in [Conns -> 0..2] /\ calls \in Nat /\ faults \in Nat
  /\ session \in [Conns -> Endpoints \cup {None}]

\* A password is the password of an endpoint, a passphrase that of its key.
SecretsType ==
  /\ item \in [Accounts -> Secrets] /\ \A a \in Accounts : item[a] \in Vals(a) \cup {None}
  /\ cache \in [Accounts -> Secrets] /\ \A a \in Accounts : cache[a] \in Vals(a) \cup {None}
  /\ lock \in [Accounts -> LockRecord \cup {None}]
  /\ \A a \in Accounts : lock[a] # None /\ lock[a].op = "put" => lock[a].val \in Vals(a)
  /\ gets \in [Accounts -> GetRecord \cup {None}]
  /\ \A a \in Accounts : gets[a] # None => gets[a].val \in Vals(a) \cup {None, Down}

ReadersType ==
  /\ rd \in [Readers -> ReaderRecord]
  /\ \A r \in Readers :
       /\ rd[r].pc # "idle" => rd[r].c \in Conns
       /\ rd[r].pc \in {"look", "waitGet", "keep"} => rd[r].auth \in Auths
       /\ rd[r].pc = "use" => rd[r].val \in Endpoints
       /\ rd[r].pc = "keep" => rd[r].val \in Vals(<<rd[r].c, rd[r].auth>>)

\* The writer calls the keychain for the step n, or is at that step.
For(x, n) == x.pc = n \/ (x.pc \in Calling /\ x.next = n)

\* It works on the password of connection x.c.
Own(x) == x.c \in Conns /\ x.a = <<x.c, "password">>

\* What each step of the writer knows of its own record.
WriterShape(x) ==
  /\ x.pc \in Calling => x.next \in Answers
  /\ x.pc \in {"want", "wait"} => x.op \in {"put", "delete"}
  /\ x.pc \in {"ask", "waitGet"} => x.op \in {"put", "get"}
  /\ x.pc \in Answers => x.res \in {"ok", "down", "big"}
  /\ x.pc = "boot" => x.kind = "boot"
  /\ x.kind = "delete" => x.c \in Conns
  /\ For(x, "collected") => x.op = "delete" /\ x.a \in x.todo
  /\ For(x, "gotOld") => /\ x.kind = "save" /\ x.op = "get" /\ x.typed /\ ~x.new /\ Own(x)
                         /\ x.ep \in Endpoints /\ x.auth = "password"
  /\ For(x, "stored") => /\ x.kind = "save" /\ x.op = "put" /\ x.typed /\ Own(x)
                         /\ x.val = x.ep /\ x.ep \in Endpoints /\ x.auth = "password"
  /\ x.pc = "row" => /\ x.kind = "save" /\ x.c \in Conns /\ x.auth \in Auths
                     /\ x.ep \in Endpoints
                     /\ x.typed => Own(x) /\ x.val = x.ep /\ x.auth = "password"
                                   /\ x.op = "put"
  /\ For(x, "restored") => /\ x.kind = "save" /\ x.typed /\ ~x.new /\ Own(x)
                           /\ x.old = None => x.op = "delete"
                           /\ x.old # None => x.op = "put" /\ x.val = x.old
  /\ For(x, "passphrase") => /\ x.kind = "passphrase" /\ x.op = "put" /\ x.c \in Conns
                             /\ x.val \in KeyPaths /\ x.a = <<x.c, x.val>>
  /\ For(x, "migrated") => /\ x.kind = "boot" /\ x.op = "put" /\ Own(x)
                           /\ x.val \in Endpoints

WriterType == w \in WriterRecord /\ WriterShape(w)

TypeOK == TablesType /\ SecretsType /\ ReadersType /\ WriterType

----------------------------------------------------------------------------
(* The inductive invariant                                                 *)

\* The put of writer x took effect.
PutDone(x) == \/ x.pc \in {"ask", "waitGet"} /\ x.op = "put"
              \/ x.pc \in {"stored", "passphrase", "migrated"} /\ x.res = "ok"
              \/ x.pc = "row" /\ x.typed

\* ... and it was read back.
Verified(x) == \/ x.pc \in {"stored", "passphrase", "migrated"} /\ x.res = "ok"
               \/ x.pc = "row" /\ x.typed

\* Writer x may have changed the password that the row of x.c refers to.
Changing(x) == For(x, "stored") \/ For(x, "restored") \/ (x.pc = "row" /\ x.typed)

\* What the account holds is the business of writer x.
Busy(x) == Changing(x) \/ For(x, "passphrase") \/ For(x, "migrated")

Collects(x) == x.pc = "collect" \/ For(x, "collected")

Owned(a) == Referenced(a) \/ a \in gc \/ a \in lapsed

\* The table and a.conns agree on a connection that both have; only a.conns
\* does not say whether a passphrase is saved.
TablesAgree ==
  \A c \in Conns : (row[c] # NoRow /\ conns[c] # NoRow) =>
    /\ conns[c].auth = row[c].auth /\ conns[c].ep = row[c].ep /\ conns[c].col = row[c].col
    /\ row[c].auth = "password" => conns[c].saved = row[c].saved

\* Until the start is over nobody dials; a new connection has no row.
Starting ==
  /\ w.kind = "boot" =>
       /\ \A c \in Conns : conns[c] = NoRow
       /\ \A r \in Readers : rd[r].pc = "idle"
       /\ \A a \in Accounts : cache[a] = None
  /\ For(w, "migrated") => row[w.c].auth = "password" /\ row[w.c].ep = w.val
  /\ (w.new /\ (For(w, "stored") \/ w.pc = "row")) =>
       row[w.c] = NoRow /\ conns[w.c] = NoRow

\* A keychain write in flight is the writer's own, or was given up.
LocksHeard ==
  /\ \A a \in Accounts : lock[a] # None =>
       /\ lock[a].heard => w.pc = "wait" /\ w.a = a /\ lock[a].op = w.op /\ lock[a].val = w.val
       /\ ~lock[a].heard => a[1] \in upset
  /\ w.pc = "wait" => lock[w.a] # None /\ lock[w.a].heard

\* What a row refers to is there, nobody deletes it, and no read in flight
\* says that it is missing.
SecretsKept ==
  \A a \in Accounts : Referenced(a) =>
    /\ item[a] # None
    /\ lock[a] # None => lock[a].op = "put"
    /\ gets[a] # None /\ gets[a].read => gets[a].val # None
    /\ w.pc \in Calling /\ w.a = a => w.op # "delete"

\* A write that took effect stays in effect while the writer relies on it.
WritesKept ==
  /\ PutDone(w) => lock[w.a] = None /\ item[w.a] = w.val
  /\ Verified(w) /\ Late(w.a) => gets[w.a].val # None
  /\ (w.pc \in {"collected", "restored"} /\ w.op = "delete" /\ w.res = "ok") =>
       lock[w.a] = None /\ item[w.a] = None

\* The password a failed save puts back is the one the row refers to.
OldIsKnown ==
  /\ (w.pc = "gotOld" /\ w.res = "ok") =>
       /\ w.got # Down /\ w.got \in Endpoints \cup {None}
       /\ w.got = None => ~Referenced(w.a)
       /\ w.got # None => Owned(w.a)
       /\ w.c \notin upset /\ Referenced(w.a) => w.got = row[w.c].ep
  /\ (Changing(w) /\ ~w.new) =>
       /\ w.old = None => ~Referenced(w.a)
       /\ w.old # None => Owned(w.a)
       /\ w.c \notin upset /\ Referenced(w.a) => w.old = row[w.c].ep
  /\ (w.pc = "restored" /\ w.c \notin upset /\ w.old # None) => item[w.a] = w.old

\* Nothing is in the keychain, or on its way there, that nobody knows of.
SecretsKnown ==
  /\ \A a \in Accounts : (item[a] # None \/ (lock[a] # None /\ lock[a].op = "put")) =>
       Owned(a) \/ (w.a = a /\ Busy(w))
  /\ Collects(w) => w.todo \subseteq gc
  /\ (w.pc = "waitGet" /\ w.op = "get" /\ Late(w.a) /\ gets[w.a].val \notin {None, Down}) =>
       Owned(w.a)

\* The password in the keychain is the one of the row's endpoint, and a read
\* that found another one belongs to a failure.
PasswordsFit ==
  /\ \A c \in Conns : (c \notin upset /\ Referenced(<<c, "password">>)
                         /\ ~(Changing(w) /\ w.c = c)) =>
       /\ item[<<c, "password">>] = row[c].ep
       /\ Late(<<c, "password">>) => gets[<<c, "password">>].val = row[c].ep
  /\ (Own(w) /\ w.c \notin upset /\ w.op \in {"put", "get"} /\ Late(w.a)
       /\ (w.pc \in {"waitGet", "gotOld", "stored", "restored", "migrated"}
             \/ (w.pc = "row" /\ w.typed))) =>
       gets[w.a].val = item[w.a]

\* The password that a dial of c reads now.
Password(c) == IF session[c] # None THEN session[c] ELSE row[c].ep

Steady(c) == /\ conns[c] # NoRow /\ tail[c] = 0 /\ c \notin upset
             /\ Referenced(<<c, "password">>) /\ ~(Changing(w) /\ w.c = c)

\* The cached password is the one a dial would read, and so is every password
\* on its way to the cache, but for the dials that were overtaken.
CacheFits ==
  \A c \in Conns : Steady(c) =>
    /\ c \in stale \/ cache[<<c, "password">>] \in {None, Password(c)}
    /\ \A r \in Readers \ raced : (rd[r].c = c /\ rd[r].auth = "password") =>
         /\ rd[r].pc = "waitGet" => session[c] = None
         /\ rd[r].pc = "keep" => rd[r].val = Password(c)

Inv ==
  /\ TypeOK /\ TablesAgree /\ Starting /\ LocksHeard /\ SecretsKept /\ WritesKept
  /\ OldIsKnown /\ SecretsKnown /\ PasswordsFit /\ CacheFits

----------------------------------------------------------------------------
(* Facts about the operators                                               *)

SameSave(x, y) == /\ y.kind = x.kind /\ y.c = x.c /\ y.auth = x.auth /\ y.ep = x.ep
                  /\ y.typed = x.typed /\ y.new = x.new

SameCall(x, y) == y.op = x.op /\ y.a = x.a /\ y.val = x.val /\ y.next = x.next

(* An account is a connection with what its row authenticates with.        *)
LEMMA AccountParts ==
  /\ \A a \in Accounts : a[1] \in Conns /\ a[2] \in Auths /\ a = <<a[1], a[2]>>
  /\ \A c \in Conns, k \in Auths : /\ <<c, k>> \in Accounts
                                   /\ <<c, k>>[1] = c /\ <<c, k>>[2] = k
  /\ "password" \in Auths /\ KeyPaths \subseteq Auths
  /\ "password" \notin KeyPaths /\ None \notin Auths
  BY CredentialsAssumption DEF Accounts, Auths

(* What the keychain is asked about, and the secret it is asked to keep.   *)
LEMMA CallFacts ==
  ASSUME WriterType, w.pc \in Calling \cup Answers \/ (w.pc = "row" /\ w.typed)
  PROVE  /\ w.a \in Accounts
         /\ w.op \in {"put", "delete", "get"}
         /\ w.op = "put" => w.val \in Vals(w.a) /\ w.val \in Secrets /\ w.val # None
<1>1. \A n \in Answers : For(w, n) => /\ w.a \in Accounts /\ w.op \in {"put", "delete", "get"}
                                      /\ w.op = "put" => w.val \in Vals(w.a) /\ w.val # None
  <2>1. w.todo \subseteq Accounts /\ None \notin Endpoints /\ None \notin KeyPaths
        /\ w.val \in Secrets /\ w.old \in Endpoints \cup {None}
    BY CredentialsAssumption DEF WriterType, WriterRecord
  <2>2. For(w, "collected") => w.a \in Accounts /\ w.op = "delete"
    BY <2>1 DEF WriterType, WriterShape
  <2>3. For(w, "gotOld") => w.a \in Accounts /\ w.op = "get"
    <3>1. For(w, "gotOld") => Own(w) /\ w.op = "get"
      BY DEF WriterType, WriterShape
    <3> QED
      BY <3>1, AccountParts DEF Own
  <2>4. For(w, "stored") => w.a \in Accounts /\ w.op = "put" /\ w.val \in Vals(w.a) /\ w.val # None
    BY <2>1, AccountParts, SMTT(30) DEF WriterType, WriterShape, Own, Vals
  <2>5. For(w, "restored") => /\ w.a \in Accounts /\ w.op \in {"put", "delete"}
                              /\ w.op = "put" => w.val \in Vals(w.a) /\ w.val # None
    <3>1. For(w, "restored") => /\ Own(w) /\ w.op \in {"put", "delete"}
                                /\ w.op = "put" => w.val \in Endpoints
      BY <2>1, SMTT(30) DEF WriterType, WriterShape
    <3>2. Own(w) => w.a \in Accounts /\ w.a[2] = "password"
      BY AccountParts DEF Own
    <3> QED
      BY <2>1, <3>1, <3>2 DEF Vals
  <2>6. For(w, "passphrase") => w.a \in Accounts /\ w.op = "put" /\ w.val \in Vals(w.a) /\ w.val # None
    <3>1. For(w, "passphrase") => /\ w.c \in Conns /\ w.val \in KeyPaths /\ w.op = "put"
                                  /\ w.a = <<w.c, w.val>>
      BY DEF WriterType, WriterShape
    <3>2. For(w, "passphrase") => /\ <<w.c, w.val>> \in Accounts /\ <<w.c, w.val>>[2] = w.val
                                  /\ w.val # "password" /\ w.val # None
      BY <2>1, <3>1, AccountParts
    <3> QED
      BY <3>1, <3>2 DEF Vals
  <2>7. For(w, "migrated") => w.a \in Accounts /\ w.op = "put" /\ w.val \in Vals(w.a) /\ w.val # None
    BY <2>1, AccountParts, SMTT(30) DEF WriterType, WriterShape, Own, Vals
  <2> QED
    BY <2>2, <2>3, <2>4, <2>5, <2>6, <2>7 DEF Answers
<1>2. CASE w.pc \in Calling \cup Answers
  BY <1>1, <1>2 DEF For, WriterType, WriterShape, WriterRecord
<1>3. CASE w.pc = "row" /\ w.typed
  <2>1. Own(w) /\ w.op = "put" /\ w.val \in Endpoints /\ w.val \in Secrets
    BY <1>3 DEF WriterType, WriterShape, WriterRecord
  <2> QED
    BY <2>1, AccountParts, CredentialsAssumption DEF Own, Vals
<1> QED
  BY <1>2, <1>3

(* None is no record of the keychain.                                      *)
LEMMA NoneIsNoRecord == None \notin LockRecord /\ None \notin GetRecord
  BY CredentialsAssumption DEF LockRecord, GetRecord, Secrets

(* Joining a read leaves what was read already as it was.                  *)
LEMMA JoinedFacts ==
  ASSUME SecretsType, NEW a \in Accounts, NEW g, g = Joined(a)
  PROVE  /\ g \in [Accounts -> GetRecord \cup {None}]
         /\ \A b \in Accounts : g[b] # None => g[b].val \in Vals(b) \cup {None, Down}
         /\ \A b \in Accounts : (g[b] # None /\ g[b].read) =>
              gets[b] # None /\ gets[b].read /\ g[b].val = gets[b].val
<1>1. PICK G : G = [read |-> FALSE, val |-> None]
  OBVIOUS
<1>2. G \in GetRecord /\ ~G.read /\ G.val = None
  BY <1>1 DEF GetRecord, Secrets
<1>3. CASE gets[a] = None
  <2>1. g = [gets EXCEPT ![a] = G]
    BY <1>1, <1>3 DEF Joined
  <2> QED
    BY <1>2, <2>1 DEF SecretsType
<1>4. CASE gets[a] # None
  BY <1>4 DEF Joined, SecretsType
<1> QED
  BY <1>3, <1>4

(* A writer at work on a password works on that of its connection.         *)
LEMMA OwnFacts ==
  ASSUME WriterType
  PROVE  /\ (Changing(w) \/ For(w, "gotOld") \/ For(w, "migrated")) => Own(w)
         /\ Own(w) => /\ w.c \in Conns /\ w.a \in Accounts /\ w.a[1] = w.c
                      /\ w.a[2] = "password" /\ w.a = <<w.c, "password">>
         /\ (w.pc \in Calling /\ w.op = "put") => Busy(w)
<1>1. Changing(w) \/ For(w, "gotOld") \/ For(w, "migrated") => Own(w)
  BY DEF WriterType, WriterShape, Changing
<1>2. Own(w) => /\ w.c \in Conns /\ w.a \in Accounts /\ w.a[1] = w.c
                /\ w.a[2] = "password" /\ w.a = <<w.c, "password">>
  BY AccountParts DEF Own
<1>3. (w.pc \in Calling /\ w.op = "put") => Busy(w)
  BY DEF WriterType, WriterShape, For, Busy, Changing, Answers
<1> QED
  BY <1>1, <1>2, <1>3

(* None and Down are no secrets.                                           *)
LEMMA ValsFacts ==
  \A a \in Accounts : Vals(a) \subseteq Secrets /\ None \notin Vals(a) /\ Down \notin Vals(a)
  BY AccountParts, CredentialsAssumption DEF Vals, Secrets, Auths

\* The dials that joined the read of account a got the secret v.
ReadersServed(a, v) ==
  \A r \in Readers :
    /\ rd'[r].pc # "idle" => /\ rd'[r].c = rd[r].c /\ rd'[r].auth = rd[r].auth
                             /\ rd[r].pc # "idle"
    /\ rd'[r].pc = "waitGet" => rd[r].pc = "waitGet"
    /\ rd'[r].pc = "keep" =>
         \/ rd[r].pc = "keep" /\ rd'[r].val = rd[r].val
         \/ /\ rd[r].pc = "waitGet" /\ <<rd[r].c, rd[r].auth>> = a /\ rd'[r].val = v
            /\ v \notin {None, Down}

(* A dial keeps the secret it waited for, and drops out without one.       *)
LEMMA ReturnsToReaders ==
  ASSUME ReadersType, NEW a \in Accounts, GetReturns(a), NEW v, v = gets[a].val,
         v \in Vals(a) \cup {None, Down}
  PROVE  ReadersType' /\ ReadersServed(a, v)
<1>1. PICK p : p = rd'
  OBVIOUS
<1>2. \A r \in Readers : /\ rd[r] \in ReaderRecord
                         /\ rd[r].pc # "idle" => rd[r].c \in Conns
                         /\ rd[r].pc \in {"look", "waitGet", "keep"} => rd[r].auth \in Auths
                         /\ rd[r].pc = "use" => rd[r].val \in Endpoints
                         /\ rd[r].pc = "keep" => rd[r].val \in Vals(<<rd[r].c, rd[r].auth>>)
  BY DEF ReadersType
<1>3. p = [r \in Readers |->
             IF rd[r].pc = "waitGet" /\ <<rd[r].c, rd[r].auth>> = a
             THEN IF v \in {None, Down} THEN NoRead
                  ELSE [rd[r] EXCEPT !.pc = "keep", !.val = v]
             ELSE rd[r]]
  BY <1>1 DEF GetReturns
<1>4. NoRead \in ReaderRecord /\ NoRead.pc = "idle"
  BY DEF NoRead, ReaderRecord, Secrets
<1>5. ASSUME NEW r \in Readers
      PROVE  /\ p[r] \in ReaderRecord
             /\ p[r].pc # "idle" => p[r].c = rd[r].c /\ p[r].auth = rd[r].auth /\ rd[r].pc # "idle"
             /\ p[r].pc \in {"use", "look", "waitGet"} => p[r] = rd[r]
             /\ p[r].pc = "keep" =>
                  \/ p[r] = rd[r]
                  \/ /\ rd[r].pc = "waitGet" /\ <<rd[r].c, rd[r].auth>> = a /\ p[r].val = v
                     /\ v \notin {None, Down} /\ v \in Vals(a)
  <2>1. CASE ~(rd[r].pc = "waitGet" /\ <<rd[r].c, rd[r].auth>> = a)
    <3>1. p[r] = rd[r]
      BY <1>3, <2>1
    <3> QED
      BY <1>2, <3>1
  <2>2. CASE rd[r].pc = "waitGet" /\ <<rd[r].c, rd[r].auth>> = a /\ v \in {None, Down}
    <3>1. p[r] = NoRead
      BY <1>3, <2>2
    <3> QED
      BY <1>4, <3>1
  <2>3. CASE rd[r].pc = "waitGet" /\ <<rd[r].c, rd[r].auth>> = a /\ v \notin {None, Down}
    <3>1. p[r] = [rd[r] EXCEPT !.pc = "keep", !.val = v]
      BY <1>3, <2>3
    <3>2. v \in Vals(a) /\ v \in Secrets
      BY <2>3, ValsFacts
    <3>3. rd[r] \in ReaderRecord
      BY <1>2
    <3>4. /\ p[r] \in ReaderRecord /\ p[r].pc = "keep" /\ p[r].val = v
          /\ p[r].c = rd[r].c /\ p[r].auth = rd[r].auth
      BY <3>1, <3>2, <3>3 DEF ReaderRecord
    <3> QED
      BY <2>3, <3>2, <3>4
  <2> QED
    BY <2>1, <2>2, <2>3
<1>6. p \in [Readers -> ReaderRecord]
  BY <1>3, <1>5
<1>7. ReadersType'
  BY <1>1, <1>2, <1>5, <1>6 DEF ReadersType
<1>8. ReadersServed(a, v)
  BY <1>1, <1>5 DEF ReadersServed
<1> QED
  BY <1>7, <1>8

(* A put that took effect is a put; the read of the old password is none.  *)
LEMMA PutFacts ==
  ASSUME WriterType
  PROVE  /\ PutDone(w) => w.a \in Accounts /\ w.op = "put" /\ w.val # None
         /\ Verified(w) => PutDone(w)
         /\ (w.pc \in Calling \cup Answers /\ w.op = "get") => ~Busy(w)
<1>1. PutDone(w) => w.op = "put" /\ (w.pc \in Calling \cup Answers \/ (w.pc = "row" /\ w.typed))
  BY DEF PutDone, WriterType, WriterShape, For, Calling, Answers
<1>2. PutDone(w) => w.a \in Accounts /\ w.op = "put" /\ w.val # None
  BY <1>1, CallFacts
<1>3. Verified(w) => PutDone(w)
  BY DEF Verified, PutDone
<1>4. (w.pc \in Calling \cup Answers /\ w.op = "get") => ~Busy(w)
  <2> SUFFICES ASSUME w.pc \in Calling \cup Answers, w.op = "get", Busy(w)
               PROVE  FALSE
    OBVIOUS
  <2>1. ~For(w, "stored") /\ ~For(w, "passphrase") /\ ~For(w, "migrated") /\ ~For(w, "restored")
    BY DEF WriterType, WriterShape
  <2> QED
    BY <2>1 DEF Busy, Changing, Calling, Answers
<1> QED
  BY <1>2, <1>3, <1>4

(* Forgetting empties the cache of one connection, and marks the dials     *)
(* that are under way.                                                     *)
LEMMA ForgottenFacts ==
  ASSUME SecretsType, TablesType, NEW c \in Conns, NEW k, k = Forgotten(c),
         NEW m, m = RacedBy(c)
  PROVE  /\ k \in [Accounts -> Secrets] /\ m \subseteq Readers /\ raced \subseteq m
         /\ \A a \in Accounts : /\ a[1] = c => k[a] = None
                                /\ a[1] # c => k[a] = cache[a]
                                /\ k[a] \in Vals(a) \cup {None}
         /\ \A r \in Readers \ m : rd[r].c = c => rd[r].pc \notin {"waitGet", "keep"}
<1>1. /\ k \in [Accounts -> Secrets]
      /\ \A a \in Accounts : /\ a[1] = c => k[a] = None
                             /\ a[1] # c => k[a] = cache[a]
                             /\ k[a] \in Vals(a) \cup {None}
  BY DEF Forgotten, SecretsType, Secrets
<1>2. m \subseteq Readers /\ raced \subseteq m
  BY DEF RacedBy, TablesType
<1>3. \A r \in Readers \ m : rd[r].c = c => rd[r].pc \notin {"waitGet", "keep"}
  BY DEF RacedBy
<1> QED
  BY <1>1, <1>2, <1>3

(* What a row that is there holds.                                         *)
LEMMA RowFacts ==
  ASSUME NEW x \in Rows
  PROVE  /\ x.saved \in BOOLEAN /\ (x.saved => x # NoRow)
         /\ x.auth = "password" => x # NoRow
         /\ x # NoRow => /\ x.auth \in Auths /\ x.ep \in Endpoints
                         /\ x.col \in {None, x.ep} /\ (x.col # None => x.auth = "password")
<1>1. CASE x = NoRow
  <2>1. x.saved = FALSE /\ x.auth = None
    BY <1>1 DEF NoRow
  <2> QED
    BY <1>1, <2>1, CredentialsAssumption
<1>2. CASE x # NoRow
  <2>1. /\ x \in [auth : Auths, ep : Endpoints, saved : BOOLEAN, col : Endpoints \cup {None}]
        /\ x.col = None \/ (x.col = x.ep /\ x.auth = "password")
    BY <1>2 DEF Rows
  <2>2. x.auth \in Auths /\ x.ep \in Endpoints /\ x.saved \in BOOLEAN
    BY <2>1
  <2> QED
    BY <1>2, <2>1, <2>2
<1> QED
  BY <1>1, <1>2

(* write: taking the lock of the account starts the call to the keychain.  *)
LEMMA TakeStep ==
  ASSUME Inv, Take
  PROVE  Inv'
<1>1. /\ TablesType /\ SecretsType /\ ReadersType /\ WriterType /\ TablesAgree
      /\ Starting /\ LocksHeard /\ SecretsKept /\ WritesKept /\ OldIsKnown
      /\ SecretsKnown /\ PasswordsFit /\ CacheFits
  BY DEF Inv, TypeOK
<1>2. row' = row /\ gc' = gc /\ item' = item /\ gets' = gets /\ conns' = conns /\
      session' = session /\ cache' = cache /\ rd' = rd /\ tail' = tail /\ calls' = calls
      /\ faults' = faults /\ lapsed' = lapsed /\ upset' = upset /\ raced' = raced /\ stale' = stale
  BY DEF Take, store, keychain, memory, ghosts
<1>3. w' \in WriterRecord /\ SameSave(w, w') /\ SameCall(w, w') /\ w'.pc = "wait" /\
      w'.old = w.old /\ w'.todo = w.todo /\ w'.res = w.res /\ w'.got = w.got
  BY <1>1 DEF Take, Secrets, WriterType, WriterRecord, Calling, Answers, SameSave,
     SameCall
<1>4. w.pc = "want" /\ lock[w.a] = None
  BY DEF Take
<1>5. /\ w.a \in Accounts /\ w.op \in {"put", "delete"} /\ w.val \in Secrets
      /\ w.op = "put" => w.val \in Vals(w.a)
  BY <1>1, <1>4, CallFacts DEF WriterType, WriterShape, WriterRecord, Calling
<1>6. PICK R : R = [op |-> w.op, val |-> w.val, heard |-> TRUE]
  OBVIOUS
<1>7. R \in LockRecord /\ R # None /\ R.op = w.op /\ R.val = w.val /\ R.heard
  <2>1. R \in LockRecord
    BY <1>5, <1>6 DEF LockRecord
  <2> QED
    BY <1>6, <2>1, NoneIsNoRecord
<1>8. /\ lock' \in [Accounts -> LockRecord \cup {None}] /\ lock'[w.a] = R
      /\ \A a \in Accounts : a # w.a => lock'[a] = lock[a]
  BY <1>1, <1>5, <1>6, <1>7 DEF Take, SecretsType
<1>9. TablesType'
  BY <1>1, <1>2 DEF TablesType
<1>10. SecretsType'
  BY <1>1, <1>2, <1>3, <1>4, <1>5, <1>6, <1>7, <1>8 DEF SecretsType, LockRecord,
     GetRecord
<1>11. ReadersType'
  BY <1>1, <1>2 DEF ReadersType, ReaderRecord
<1>12. WriterType'
  BY <1>1, <1>2, <1>3, <1>4, <1>5, <1>6, <1>7, <1>8 DEF WriterType, WriterShape, For,
     Own, Calling, Answers, SameSave, SameCall
<1>13. TablesAgree'
  BY <1>1, <1>2 DEF TablesAgree
<1>14. Starting'
  BY <1>1, <1>2, <1>3, <1>4, <1>5, <1>6, <1>7, <1>8 DEF Starting, For, Calling,
     SameSave, SameCall
<1>15. LocksHeard'
  BY <1>1, <1>2, <1>3, <1>4, <1>5, <1>6, <1>7, <1>8 DEF LocksHeard, SameSave, SameCall
<1>16. SecretsKept'
  BY <1>1, <1>2, <1>3, <1>4, <1>5, <1>6, <1>7, <1>8 DEF SecretsKept, Referenced,
     Calling, SameSave, SameCall
<1>17. WritesKept'
  BY <1>1, <1>2, <1>3, <1>4, <1>5, <1>6, <1>7, <1>8 DEF WritesKept, PutDone, Verified,
     Late, SameSave, SameCall
<1>18. OldIsKnown'
  BY <1>1, <1>2, <1>3, <1>4, <1>5, <1>6, <1>7, <1>8 DEF OldIsKnown, Changing, For,
     Owned, Referenced, Calling, SameSave, SameCall
<1>19. SecretsKnown'
  BY <1>1, <1>2, <1>3, <1>4, <1>5, <1>6, <1>7, <1>8, OwnFacts DEF SecretsKnown, Owned,
     Busy, Changing, For, Collects, Late, Referenced, Calling, SameSave, SameCall
<1>20. PasswordsFit'
  BY <1>1, <1>2, <1>3, <1>4, <1>5, <1>6, <1>7, <1>8 DEF PasswordsFit, Changing, For,
     Own, Late, Referenced, Calling, SameSave, SameCall
<1>21. CacheFits'
  BY <1>1, <1>2, <1>3, <1>4, <1>5, <1>6, <1>7, <1>8 DEF CacheFits, Steady, Password,
     Changing, For, Referenced, Calling, SameSave, SameCall
<1> QED
  BY <1>9, <1>10, <1>11, <1>12, <1>13, <1>14, <1>15, <1>16, <1>17, <1>18, <1>19, <1>20,
     <1>21 DEF Inv, TypeOK

(* The caller gives up: the write in flight goes on unheard.               *)
LEMMA GiveUpStep ==
  ASSUME Inv, GiveUp
  PROVE  Inv'
<1>1. /\ TablesType /\ SecretsType /\ ReadersType /\ WriterType /\ TablesAgree
      /\ Starting /\ LocksHeard /\ SecretsKept /\ WritesKept /\ OldIsKnown
      /\ SecretsKnown /\ PasswordsFit /\ CacheFits
  BY DEF Inv, TypeOK
<1>2. row' = row /\ gc' = gc /\ item' = item /\ gets' = gets /\ conns' = conns /\
      session' = session /\ cache' = cache /\ rd' = rd /\ tail' = tail /\ calls' = calls
      /\ lapsed' = lapsed /\ raced' = raced /\ stale' = stale
  BY DEF GiveUp, store, keychain, memory, ghosts, Answered
<1>3. w.pc \in {"want", "wait", "waitGet"} /\ w.next \in Answers /\ w.pc \in Calling
  BY <1>1 DEF GiveUp, WriterType, WriterShape, Calling
<1>4. w' \in WriterRecord /\ SameSave(w, w') /\ SameCall(w, w') /\ w'.pc = w.next /\
      w'.old = w.old /\ w'.todo = w.todo /\ w'.res = "down" /\ w'.got = None
  BY <1>1, <1>3, ZenonT(60) DEF GiveUp, Secrets, WriterType, WriterRecord, Calling, Answers,
     SameSave, SameCall, Answered
<1>5. w.a \in Accounts /\ w.a[1] \in Conns
  BY <1>1, <1>3, CallFacts, AccountParts
<1>6. upset' = upset \cup {w.a[1]}
  BY DEF GiveUp
<1>7. faults' \in Nat
  BY <1>1 DEF GiveUp, Fault, TablesType
<1>8. /\ lock' \in [Accounts -> LockRecord \cup {None}]
      /\ \A a \in Accounts : lock'[a] # None =>
           lock[a] # None /\ lock'[a].op = lock[a].op /\ lock'[a].val = lock[a].val
             /\ ~lock'[a].heard /\ a[1] \in upset'
      /\ \A a \in Accounts : lock[a] = None => lock'[a] = None
  <2>1. CASE w.pc = "wait"
    <3>1. PICK R : R = [lock[w.a] EXCEPT !.heard = FALSE]
      OBVIOUS
    <3>2. lock[w.a] # None /\ lock[w.a] \in LockRecord
      BY <1>1, <1>5, <2>1 DEF LocksHeard, SecretsType
    <3>3. R \in LockRecord /\ R.op = lock[w.a].op /\ R.val = lock[w.a].val /\ ~R.heard
      BY <3>1, <3>2 DEF LockRecord
    <3>4. lock' = [lock EXCEPT ![w.a] = R]
      BY <2>1, <3>1 DEF GiveUp
    <3> QED
      BY <1>1, <1>5, <1>6, <2>1, <3>2, <3>3, <3>4 DEF SecretsType, LocksHeard
  <2>2. CASE w.pc # "wait"
    <3>1. lock' = lock
      BY <2>2 DEF GiveUp
    <3> QED
      BY <1>1, <1>5, <1>6, <2>2, <3>1 DEF SecretsType, LocksHeard
  <2> QED
    BY <2>1, <2>2
<1>9. TablesType'
  BY <1>1, <1>2, <1>3, <1>4, <1>5, <1>6, <1>7, <1>8 DEF TablesType
<1>10. SecretsType'
  BY <1>1, <1>2, <1>3, <1>4, <1>5, <1>6, <1>7, <1>8 DEF SecretsType, LockRecord,
     GetRecord
<1>11. ReadersType'
  BY <1>1, <1>2 DEF ReadersType, ReaderRecord
<1>12. WriterType'
  BY <1>1, <1>2, <1>3, <1>4, <1>5, <1>6, <1>7, <1>8 DEF WriterType, WriterShape, For,
     Own, Calling, Answers, SameSave, SameCall
<1>13. TablesAgree'
  BY <1>1, <1>2 DEF TablesAgree
<1>14. Starting'
  BY <1>1, <1>2, <1>3, <1>4, <1>5, <1>6, <1>7, <1>8 DEF Starting, For, Calling,
     SameSave, SameCall, Answers
<1>15. LocksHeard'
  BY <1>1, <1>2, <1>3, <1>4, <1>5, <1>6, <1>7, <1>8 DEF LocksHeard, SameSave, SameCall,
     Answers
<1>16. SecretsKept'
  BY <1>1, <1>2, <1>3, <1>4, <1>5, <1>6, <1>7, <1>8 DEF SecretsKept, Referenced,
     Calling, SameSave, SameCall
<1>17. WritesKept'
  BY <1>1, <1>2, <1>3, <1>4, <1>5, <1>6, <1>7, <1>8 DEF WritesKept, PutDone, Verified,
     Late, SameSave, SameCall, Answers
<1>18. OldIsKnown'
  BY <1>1, <1>2, <1>3, <1>4, <1>5, <1>6, <1>7, <1>8, OwnFacts DEF OldIsKnown, Changing,
     For, Owned, Referenced, Calling, SameSave, SameCall, Answers
<1>19. SecretsKnown'
  BY <1>1, <1>2, <1>3, <1>4, <1>5, <1>6, <1>7, <1>8 DEF SecretsKnown, Owned, Busy,
     Changing, For, Collects, Late, Referenced, Calling, SameSave, SameCall, Answers
<1>20. PasswordsFit'
  BY <1>1, <1>2, <1>3, <1>4, <1>5, <1>6, <1>7, <1>8 DEF PasswordsFit, Changing, For,
     Own, Late, Referenced, Calling, SameSave, SameCall
<1>21. CacheFits'
  BY <1>1, <1>2, <1>3, <1>4, <1>5, <1>6, <1>7, <1>8 DEF CacheFits, Steady, Password,
     Changing, For, Referenced, Calling, SameSave, SameCall
<1> QED
  BY <1>9, <1>10, <1>11, <1>12, <1>13, <1>14, <1>15, <1>16, <1>17, <1>18, <1>19, <1>20,
     <1>21 DEF Inv, TypeOK

(* Get joins the read in flight of the account or starts one.              *)
LEMMA AskStep ==
  ASSUME Inv, Ask
  PROVE  Inv'
<1>1. /\ TablesType /\ SecretsType /\ ReadersType /\ WriterType /\ TablesAgree
      /\ Starting /\ LocksHeard /\ SecretsKept /\ WritesKept /\ OldIsKnown
      /\ SecretsKnown /\ PasswordsFit /\ CacheFits
  BY DEF Inv, TypeOK
<1>2. row' = row /\ gc' = gc /\ item' = item /\ lock' = lock /\ conns' = conns /\
      session' = session /\ cache' = cache /\ rd' = rd /\ tail' = tail /\ calls' = calls
      /\ faults' = faults /\ raced' = raced /\ stale' = stale
  BY DEF Ask, store, keychain, memory, ghosts
<1>3. w' \in WriterRecord /\ SameSave(w, w') /\ SameCall(w, w') /\ w'.pc = "waitGet" /\
      w'.old = w.old /\ w'.todo = w.todo /\ w'.res = w.res /\ w'.got = w.got
  BY <1>1 DEF Ask, Secrets, WriterType, WriterRecord, Calling, Answers, SameSave,
     SameCall
<1>4. w.pc = "ask"
  BY DEF Ask
<1>5. w.a \in Accounts /\ w.a[1] \in Conns
  BY <1>1, <1>4, CallFacts, AccountParts DEF Calling
<1>6. /\ gets' \in [Accounts -> GetRecord \cup {None}]
      /\ \A b \in Accounts : gets'[b] # None => gets'[b].val \in Vals(b) \cup {None, Down}
      /\ \A b \in Accounts : (gets'[b] # None /\ gets'[b].read) =>
           gets[b] # None /\ gets[b].read /\ gets'[b].val = gets[b].val
  BY <1>1, <1>5, JoinedFacts DEF Ask
<1>7. /\ lapsed \subseteq lapsed' /\ upset \subseteq upset'
      /\ lapsed' \subseteq lapsed \cup {w.a} /\ upset' \subseteq upset \cup {w.a[1]}
  BY DEF Ask
<1>8. (gets[w.a] # None /\ gets[w.a].read) => w.a \in lapsed' /\ w.a[1] \in upset'
  BY DEF Ask, Late
<1>9. TablesType'
  BY <1>1, <1>2, <1>3, <1>4, <1>5, <1>6, <1>7, <1>8 DEF TablesType
<1>10. SecretsType'
  BY <1>1, <1>2, <1>3, <1>4, <1>5, <1>6, <1>7, <1>8 DEF SecretsType, LockRecord,
     GetRecord
<1>11. ReadersType'
  BY <1>1, <1>2 DEF ReadersType, ReaderRecord
<1>12. WriterType'
  BY <1>1, <1>2, <1>3, <1>4, <1>5, <1>6, <1>7, <1>8 DEF WriterType, WriterShape, For,
     Own, Calling, Answers, SameSave, SameCall
<1>13. TablesAgree'
  BY <1>1, <1>2 DEF TablesAgree
<1>14. Starting'
  BY <1>1, <1>2, <1>3, <1>4, <1>5, <1>6, <1>7, <1>8 DEF Starting, For, Calling,
     SameSave, SameCall
<1>15. LocksHeard'
  BY <1>1, <1>2, <1>3, <1>4, <1>5, <1>6, <1>7, <1>8 DEF LocksHeard, SameSave, SameCall
<1>16. SecretsKept'
  BY <1>1, <1>2, <1>3, <1>4, <1>5, <1>6, <1>7, <1>8 DEF SecretsKept, Referenced,
     Calling, SameSave, SameCall
<1>17. WritesKept'
  BY <1>1, <1>2, <1>3, <1>4, <1>5, <1>6, <1>7, <1>8 DEF WritesKept, PutDone, Verified,
     Late, SameSave, SameCall
<1>18. OldIsKnown'
  BY <1>1, <1>2, <1>3, <1>4, <1>5, <1>6, <1>7, <1>8 DEF OldIsKnown, Changing, For,
     Owned, Referenced, Calling, SameSave, SameCall
<1>19. SecretsKnown'
  BY <1>1, <1>2, <1>3, <1>4, <1>5, <1>6, <1>7, <1>8 DEF SecretsKnown, Owned, Busy,
     Changing, For, Collects, Late, Referenced, Calling, SameSave, SameCall
<1>20. PasswordsFit'
  <2>1. Own(w) => w.a[1] = w.c
    BY <1>1, OwnFacts
  <2>2. \A c \in Conns : <<c, "password">> \in Accounts
    BY AccountParts
  <2> QED
    BY <1>1, <1>2, <1>3, <1>4, <1>5, <1>6, <1>7, <1>8, <2>1, <2>2
    DEF PasswordsFit, Changing, For, Own, Late, Referenced, Calling, SameSave, SameCall
<1>21. CacheFits'
  BY <1>1, <1>2, <1>3, <1>4, <1>5, <1>6, <1>7, <1>8 DEF CacheFits, Steady, Password,
     Changing, For, Referenced, Calling, SameSave, SameCall
<1> QED
  BY <1>9, <1>10, <1>11, <1>12, <1>13, <1>14, <1>15, <1>16, <1>17, <1>18, <1>19, <1>20,
     <1>21 DEF Inv, TypeOK

(* A write that was given up ends, with or without effect.                 *)
LEMMA OsReturnsUnheard ==
  ASSUME Inv, NEW a \in Accounts, NEW ok \in BOOLEAN, OsReturns(a, ok), ~lock[a].heard
  PROVE  Inv'
<1>1. /\ TablesType /\ SecretsType /\ ReadersType /\ WriterType /\ TablesAgree
      /\ Starting /\ LocksHeard /\ SecretsKept /\ WritesKept /\ OldIsKnown
      /\ SecretsKnown /\ PasswordsFit /\ CacheFits
  BY DEF Inv, TypeOK
<1>2. row' = row /\ gc' = gc /\ gets' = gets /\ conns' = conns /\ session' = session /\
      cache' = cache /\ w' = w /\ rd' = rd /\ tail' = tail /\ calls' = calls /\
      lapsed' = lapsed /\ raced' = raced /\ stale' = stale
  BY DEF OsReturns, store, keychain, memory, ghosts
<1>3. lock[a] # None /\ lock[a] \in LockRecord /\ a[1] \in upset
  BY <1>1 DEF OsReturns, LocksHeard, SecretsType
<1>4. w.pc = "wait" => w.a # a
  BY <1>1 DEF LocksHeard
<1>5. upset' = upset /\ faults' \in Nat
  BY <1>1, <1>3, AccountParts DEF OsReturns, FaultIf, Fault, TablesType
<1>6. /\ lock' \in [Accounts -> LockRecord \cup {None}] /\ lock'[a] = None
      /\ \A b \in Accounts : b # a => lock'[b] = lock[b]
  BY <1>1 DEF OsReturns, SecretsType
<1>7. /\ item' \in [Accounts -> Secrets]
      /\ \A b \in Accounts : b # a => item'[b] = item[b]
      /\ \/ item'[a] = item[a]
         \/ lock[a].op = "put" /\ item'[a] = lock[a].val /\ item'[a] \in Vals(a) /\ item'[a] # None
         \/ lock[a].op = "delete" /\ item'[a] = None
  <2>1. lock[a].val \in Secrets /\ lock[a].op \in {"put", "delete"}
    BY <1>3 DEF LockRecord
  <2>2. lock[a].op = "put" => lock[a].val \in Vals(a) /\ lock[a].val # None
    BY <1>1, <1>3, ValsFacts DEF SecretsType
  <2>3. CASE ok /\ lock[a].op = "put"
    <3>1. item' = [item EXCEPT ![a] = lock[a].val]
      BY <2>3 DEF OsReturns
    <3> QED
      BY <1>1, <2>1, <2>2, <2>3, <3>1 DEF SecretsType
  <2>4. CASE ok /\ lock[a].op = "delete"
    <3>1. item' = [item EXCEPT ![a] = None]
      BY <2>4 DEF OsReturns
    <3> QED
      BY <1>1, <2>4, <3>1 DEF SecretsType, Secrets
  <2>5. CASE ~ok
    <3>1. item' = item
      BY <2>5 DEF OsReturns
    <3> QED
      BY <1>1, <3>1 DEF SecretsType
  <2> QED
    BY <2>1, <2>3, <2>4, <2>5
<1>8. \A c \in Conns : c \notin upset => <<c, "password">> # a
  BY <1>3, AccountParts
<1>9. Changing(w) \/ For(w, "gotOld") \/ For(w, "migrated") => Own(w) /\ (w.c \notin upset => w.a # a)
  BY <1>1, <1>3, OwnFacts
<1>10. w.pc \in Calling \cup Answers \/ (w.pc = "row" /\ w.typed) => w.a \in Accounts
  BY <1>1, CallFacts
<1>11. TablesType'
  BY <1>1, <1>2, <1>3, <1>4, <1>5, <1>6, <1>7, <1>8, <1>9, <1>10 DEF TablesType
<1>12. SecretsType'
  BY <1>1, <1>2, <1>3, <1>4, <1>5, <1>6, <1>7, <1>8, <1>9, <1>10 DEF SecretsType,
     LockRecord, GetRecord
<1>13. ReadersType'
  BY <1>1, <1>2 DEF ReadersType, ReaderRecord
<1>14. WriterType'
  BY <1>1, <1>2 DEF WriterType, WriterShape, For, Own, Calling, Answers
<1>15. TablesAgree'
  BY <1>1, <1>2 DEF TablesAgree
<1>16. Starting'
  BY <1>1, <1>2 DEF Starting, For, Calling
<1>17. LocksHeard'
  BY <1>1, <1>2, <1>3, <1>4, <1>5, <1>6, <1>7, <1>8, <1>9, <1>10 DEF LocksHeard,
     Calling, Answers
<1>18. SecretsKept'
  BY <1>1, <1>2, <1>3, <1>4, <1>5, <1>6, <1>7, <1>8, <1>9, <1>10 DEF SecretsKept,
     Referenced, Calling
<1>19. WritesKept'
  BY <1>1, <1>2, <1>3, <1>4, <1>5, <1>6, <1>7, <1>8, <1>9, <1>10 DEF WritesKept,
     PutDone, Verified, Late, Calling, Answers
<1>20. OldIsKnown'
  BY <1>1, <1>2, <1>3, <1>4, <1>5, <1>6, <1>7, <1>8, <1>9, <1>10 DEF OldIsKnown,
     Changing, For, Owned, Referenced, Calling, Answers
<1>21. SecretsKnown'
  BY <1>1, <1>2, <1>3, <1>4, <1>5, <1>6, <1>7, <1>8, <1>9, <1>10 DEF SecretsKnown,
     Owned, Busy, Changing, For, Collects, Late, Referenced, Calling
<1>22. PasswordsFit'
  BY <1>1, <1>2, <1>3, <1>4, <1>5, <1>6, <1>7, <1>8, <1>9, <1>10, AccountParts, OwnFacts
     DEF PasswordsFit, Changing, For, Own, Late, Referenced, Calling
<1>23. CacheFits'
  BY <1>1, <1>2, <1>3, <1>4, <1>5, <1>6, <1>7, <1>8, <1>9, <1>10 DEF CacheFits, Steady,
     Password, Changing, For, Referenced, Calling
<1> QED
  BY <1>11, <1>12, <1>13, <1>14, <1>15, <1>16, <1>17, <1>18, <1>19, <1>20, <1>21, <1>22,
     <1>23 DEF Inv, TypeOK

(* A write whose caller waits fails.                                       *)
LEMMA OsReturnsFailed ==
  ASSUME Inv, NEW a \in Accounts, NEW ok \in BOOLEAN, OsReturns(a, ok), lock[a].heard, ~ok
  PROVE  Inv'
<1>1. /\ TablesType /\ SecretsType /\ ReadersType /\ WriterType /\ TablesAgree
      /\ Starting /\ LocksHeard /\ SecretsKept /\ WritesKept /\ OldIsKnown
      /\ SecretsKnown /\ PasswordsFit /\ CacheFits
  BY DEF Inv, TypeOK
<1>2. row' = row /\ gc' = gc /\ item' = item /\ gets' = gets /\ conns' = conns /\
      session' = session /\ cache' = cache /\ rd' = rd /\ tail' = tail /\ calls' = calls
      /\ lapsed' = lapsed /\ raced' = raced /\ stale' = stale
  BY DEF OsReturns, store, keychain, memory, ghosts, Answered
<1>3. /\ lock[a] # None /\ w.pc = "wait" /\ w.a = a /\ w.op = lock[a].op /\ w.val = lock[a].val
      /\ w.next \in Answers /\ w.op \in {"put", "delete"}
      /\ \A b \in Accounts : lock[b] # None /\ lock[b].heard => b = a
  BY <1>1 DEF OsReturns, LocksHeard, WriterType, WriterShape, Calling
<1>4. w' \in WriterRecord /\ SameSave(w, w') /\ SameCall(w, w') /\ w'.pc = w.next /\
      w'.old = w.old /\ w'.todo = w.todo /\ w'.res \in {"down", "big"} /\ w'.got = None
  <2>1. PICK res \in {"down", "big"} : w' = Answered(res, None)
    BY <1>3 DEF OsReturns
  <2> QED
    BY <1>1, <1>3, <2>1, ZenonT(60) DEF Secrets, WriterType, WriterRecord, Calling,
       Answers, SameSave, SameCall, Answered
<1>5. upset' = upset \cup {a[1]} /\ faults' \in Nat /\ a[1] \in Conns
  BY <1>1, AccountParts DEF OsReturns, FaultIf, Fault, TablesType
<1>6. /\ lock' \in [Accounts -> LockRecord \cup {None}] /\ lock'[a] = None
      /\ \A b \in Accounts : b # a => lock'[b] = lock[b]
  BY <1>1 DEF OsReturns, SecretsType
<1>7. Changing(w) \/ For(w, "gotOld") \/ For(w, "migrated") => Own(w) /\ w.a[1] = w.c
  BY <1>1, OwnFacts
<1>8. TablesType'
  BY <1>1, <1>2, <1>3, <1>4, <1>5, <1>6, <1>7 DEF TablesType
<1>9. SecretsType'
  BY <1>1, <1>2, <1>3, <1>4, <1>5, <1>6, <1>7 DEF SecretsType, LockRecord, GetRecord
<1>10. ReadersType'
  BY <1>1, <1>2 DEF ReadersType, ReaderRecord
<1>11. WriterType'
  BY <1>1, <1>2, <1>3, <1>4, <1>5, <1>6, <1>7 DEF WriterType, WriterShape, For, Own,
     Calling, Answers, SameSave, SameCall
<1>12. TablesAgree'
  BY <1>1, <1>2 DEF TablesAgree
<1>13. Starting'
  BY <1>1, <1>2, <1>3, <1>4, <1>5, <1>6, <1>7 DEF Starting, For, Calling, SameSave,
     SameCall, Answers
<1>14. LocksHeard'
  BY <1>1, <1>2, <1>3, <1>4, <1>5, <1>6, <1>7 DEF LocksHeard, SameSave, SameCall,
     Answers
<1>15. SecretsKept'
  BY <1>1, <1>2, <1>3, <1>4, <1>5, <1>6, <1>7 DEF SecretsKept, Referenced, Calling,
     SameSave, SameCall
<1>16. WritesKept'
  BY <1>1, <1>2, <1>3, <1>4, <1>5, <1>6, <1>7 DEF WritesKept, PutDone, Verified, Late,
     SameSave, SameCall, Answers
<1>17. OldIsKnown'
  BY <1>1, <1>2, <1>3, <1>4, <1>5, <1>6, <1>7 DEF OldIsKnown, Changing, For, Owned,
     Referenced, Calling, SameSave, SameCall, Answers
<1>18. SecretsKnown'
  BY <1>1, <1>2, <1>3, <1>4, <1>5, <1>6, <1>7 DEF SecretsKnown, Owned, Busy, Changing,
     For, Collects, Late, Referenced, Calling, SameSave, SameCall, Answers
<1>19. PasswordsFit'
  BY <1>1, <1>2, <1>3, <1>4, <1>5, <1>6, <1>7 DEF PasswordsFit, Changing, For, Own,
     Late, Referenced, Calling, SameSave, SameCall
<1>20. CacheFits'
  BY <1>1, <1>2, <1>3, <1>4, <1>5, <1>6, <1>7 DEF CacheFits, Steady, Password, Changing,
     For, Referenced, Calling, SameSave, SameCall
<1> QED
  BY <1>8, <1>9, <1>10, <1>11, <1>12, <1>13, <1>14, <1>15, <1>16, <1>17, <1>18, <1>19,
     <1>20 DEF Inv, TypeOK

(* A put whose caller waits takes effect; it is read back next.            *)
LEMMA OsReturnsPut ==
  ASSUME Inv, NEW a \in Accounts, NEW ok \in BOOLEAN, OsReturns(a, ok), lock[a].heard, ok,
         lock[a].op = "put"
  PROVE  Inv'
<1>1. /\ TablesType /\ SecretsType /\ ReadersType /\ WriterType /\ TablesAgree
      /\ Starting /\ LocksHeard /\ SecretsKept /\ WritesKept /\ OldIsKnown
      /\ SecretsKnown /\ PasswordsFit /\ CacheFits
  BY DEF Inv, TypeOK
<1>2. row' = row /\ gc' = gc /\ gets' = gets /\ conns' = conns /\ session' = session /\
      cache' = cache /\ rd' = rd /\ tail' = tail /\ calls' = calls /\ faults' = faults
      /\ lapsed' = lapsed /\ upset' = upset /\ raced' = raced /\ stale' = stale
  BY DEF OsReturns, store, keychain, memory, ghosts, FaultIf
<1>3. /\ lock[a] # None /\ w.pc = "wait" /\ w.a = a /\ w.op = lock[a].op /\ w.val = lock[a].val
      /\ w.next \in Answers /\ w.op \in {"put", "delete"}
      /\ \A b \in Accounts : lock[b] # None /\ lock[b].heard => b = a
  BY <1>1 DEF OsReturns, LocksHeard, WriterType, WriterShape, Calling
<1>4. w' \in WriterRecord /\ SameSave(w, w') /\ SameCall(w, w') /\ w'.pc = "ask" /\
      w'.old = w.old /\ w'.todo = w.todo /\ w'.res = w.res /\ w'.got = w.got
  BY <1>1, <1>3 DEF OsReturns, Secrets, WriterType, WriterRecord, Calling, Answers,
     SameSave, SameCall, FaultIf
<1>5. /\ lock' \in [Accounts -> LockRecord \cup {None}] /\ lock'[a] = None
      /\ \A b \in Accounts : b # a => lock'[b] = lock[b]
  BY <1>1 DEF OsReturns, SecretsType
<1>6. w.val \in Vals(a) /\ w.val \in Secrets /\ w.val # None
  BY <1>1, <1>3, CallFacts DEF Calling
<1>7. /\ item' \in [Accounts -> Secrets] /\ item'[a] = w.val
      /\ \A b \in Accounts : b # a => item'[b] = item[b]
  BY <1>1, <1>3, <1>6 DEF OsReturns, SecretsType
<1>8. Changing(w) \/ For(w, "gotOld") \/ For(w, "migrated") => Own(w) /\ w.a[1] = w.c
  BY <1>1, OwnFacts
<1>9. Busy(w)
  BY <1>1, <1>3, OwnFacts DEF Calling
<1>10. TablesType'
  BY <1>1, <1>2 DEF TablesType
<1>11. SecretsType'
  BY <1>1, <1>2, <1>3, <1>4, <1>5, <1>6, <1>7, <1>8, <1>9 DEF SecretsType, LockRecord,
     GetRecord
<1>12. ReadersType'
  BY <1>1, <1>2 DEF ReadersType, ReaderRecord
<1>13. WriterType'
  BY <1>1, <1>2, <1>3, <1>4, <1>5, <1>6, <1>7, <1>8, <1>9 DEF WriterType, WriterShape,
     For, Own, Calling, Answers, SameSave, SameCall
<1>14. TablesAgree'
  BY <1>1, <1>2 DEF TablesAgree
<1>15. Starting'
  BY <1>1, <1>2, <1>3, <1>4, <1>5, <1>6, <1>7, <1>8, <1>9 DEF Starting, For, Calling,
     SameSave, SameCall
<1>16. LocksHeard'
  BY <1>1, <1>2, <1>3, <1>4, <1>5, <1>6, <1>7, <1>8, <1>9 DEF LocksHeard, SameSave,
     SameCall
<1>17. SecretsKept'
  BY <1>1, <1>2, <1>3, <1>4, <1>5, <1>6, <1>7, <1>8, <1>9 DEF SecretsKept, Referenced,
     Calling, SameSave, SameCall
<1>18. WritesKept'
  BY <1>1, <1>2, <1>3, <1>4, <1>5, <1>6, <1>7, <1>8, <1>9 DEF WritesKept, PutDone,
     Verified, Late, SameSave, SameCall
<1>19. OldIsKnown'
  BY <1>1, <1>2, <1>3, <1>4, <1>5, <1>6, <1>7, <1>8, <1>9 DEF OldIsKnown, Changing, For,
     Owned, Referenced, Calling, SameSave, SameCall
<1>20. SecretsKnown'
  BY <1>1, <1>2, <1>3, <1>4, <1>5, <1>6, <1>7, <1>8, <1>9 DEF SecretsKnown, Owned, Busy,
     Changing, For, Collects, Late, Referenced, Calling, SameSave, SameCall
<1>21. PasswordsFit'
  <2>1. Busy(w) /\ a[2] = "password" => Changing(w) \/ For(w, "migrated")
    BY <1>1, <1>3, CallFacts, AccountParts DEF Busy, WriterType, WriterShape
  <2>2. For(w, "migrated") => row[w.c].ep = w.val
    BY <1>1 DEF Starting
  <2>3. \A c \in Conns : <<c, "password">> \in Accounts /\ <<c, "password">>[1] = c /\ <<c, "password">>[2] = "password"
    BY AccountParts
  <2>4. Changing(w)' <=> Changing(w)
    BY <1>3, <1>4 DEF Changing, For, Calling, SameCall
  <2> QED
    BY <1>1, <1>2, <1>3, <1>4, <1>7, <1>8, <1>9, <2>1, <2>2, <2>3, <2>4
    DEF PasswordsFit, Own, Late, Referenced, SameSave, SameCall
<1>22. CacheFits'
  BY <1>1, <1>2, <1>3, <1>4, <1>5, <1>6, <1>7, <1>8, <1>9 DEF CacheFits, Steady,
     Password, Changing, For, Referenced, Calling, SameSave, SameCall
<1> QED
  BY <1>10, <1>11, <1>12, <1>13, <1>14, <1>15, <1>16, <1>17, <1>18, <1>19, <1>20, <1>21,
     <1>22 DEF Inv, TypeOK

(* A deletion whose caller waits takes effect.                             *)
LEMMA OsReturnsDelete ==
  ASSUME Inv, NEW a \in Accounts, NEW ok \in BOOLEAN, OsReturns(a, ok), lock[a].heard, ok,
         lock[a].op = "delete"
  PROVE  Inv'
<1>1. /\ TablesType /\ SecretsType /\ ReadersType /\ WriterType /\ TablesAgree
      /\ Starting /\ LocksHeard /\ SecretsKept /\ WritesKept /\ OldIsKnown
      /\ SecretsKnown /\ PasswordsFit /\ CacheFits
  BY DEF Inv, TypeOK
<1>2. row' = row /\ gc' = gc /\ gets' = gets /\ conns' = conns /\ session' = session /\
      cache' = cache /\ rd' = rd /\ tail' = tail /\ calls' = calls /\ faults' = faults
      /\ lapsed' = lapsed /\ upset' = upset /\ raced' = raced /\ stale' = stale
  BY DEF OsReturns, store, keychain, memory, ghosts, FaultIf, Answered
<1>3. /\ lock[a] # None /\ w.pc = "wait" /\ w.a = a /\ w.op = lock[a].op /\ w.val = lock[a].val
      /\ w.next \in Answers /\ w.op \in {"put", "delete"}
      /\ \A b \in Accounts : lock[b] # None /\ lock[b].heard => b = a
  BY <1>1 DEF OsReturns, LocksHeard, WriterType, WriterShape, Calling
<1>4. w' \in WriterRecord /\ SameSave(w, w') /\ SameCall(w, w') /\ w'.pc = w.next /\
      w'.old = w.old /\ w'.todo = w.todo /\ w'.res = "ok" /\ w'.got = None
  <2>1. w' = Answered("ok", None)
    BY DEF OsReturns
  <2> QED
    BY <1>1, <1>3, <2>1, ZenonT(60) DEF Secrets, WriterType, WriterRecord, Calling,
       Answers, SameSave, SameCall, Answered
<1>5. /\ lock' \in [Accounts -> LockRecord \cup {None}] /\ lock'[a] = None
      /\ \A b \in Accounts : b # a => lock'[b] = lock[b]
  BY <1>1 DEF OsReturns, SecretsType
<1>6. None \in Vals(a) \cup {None} /\ None \in Secrets
  BY DEF Secrets
<1>7. /\ item' \in [Accounts -> Secrets] /\ item'[a] = None
      /\ \A b \in Accounts : b # a => item'[b] = item[b]
  BY <1>1, <1>3, <1>6 DEF OsReturns, SecretsType
<1>8. Changing(w) \/ For(w, "gotOld") \/ For(w, "migrated") => Own(w) /\ w.a[1] = w.c
  BY <1>1, OwnFacts
<1>9. ~Referenced(a)
  BY <1>1, <1>3 DEF SecretsKept, Calling
<1>10. w.next \in {"collected", "restored"} /\ (w.next = "restored" => w.old = None)
  BY <1>1, <1>3 DEF WriterType, WriterShape, For, Calling, Answers
<1>11. \A c \in Conns : /\ <<c, "password">> \in Accounts
                        /\ Referenced(<<c, "password">>) => <<c, "password">> # a
  BY <1>9, AccountParts
<1>12. TablesType'
  BY <1>1, <1>2 DEF TablesType
<1>13. SecretsType'
  BY <1>1, <1>2, <1>3, <1>4, <1>5, <1>6, <1>7, <1>8, <1>9, <1>10, <1>11 DEF SecretsType,
     LockRecord, GetRecord
<1>14. ReadersType'
  BY <1>1, <1>2 DEF ReadersType, ReaderRecord
<1>15. WriterType'
  BY <1>1, <1>2, <1>3, <1>4, <1>5, <1>6, <1>7, <1>8, <1>9, <1>10, <1>11 DEF WriterType,
     WriterShape, For, Own, Calling, Answers, SameSave, SameCall
<1>16. TablesAgree'
  BY <1>1, <1>2 DEF TablesAgree
<1>17. Starting'
  BY <1>1, <1>2, <1>3, <1>4, <1>5, <1>6, <1>7, <1>8, <1>9, <1>10, <1>11 DEF Starting,
     For, Calling, SameSave, SameCall, Answers
<1>18. LocksHeard'
  BY <1>1, <1>2, <1>3, <1>4, <1>5, <1>6, <1>7, <1>8, <1>9, <1>10, <1>11 DEF LocksHeard,
     SameSave, SameCall, Answers
<1>19. SecretsKept'
  BY <1>1, <1>2, <1>3, <1>4, <1>5, <1>6, <1>7, <1>8, <1>9, <1>10, <1>11 DEF SecretsKept,
     Referenced, Calling, SameSave, SameCall
<1>20. WritesKept'
  BY <1>1, <1>2, <1>3, <1>4, <1>5, <1>6, <1>7, <1>8, <1>9, <1>10, <1>11 DEF WritesKept,
     PutDone, Verified, Late, SameSave, SameCall, Answers
<1>21. OldIsKnown'
  BY <1>1, <1>2, <1>3, <1>4, <1>5, <1>6, <1>7, <1>8, <1>9, <1>10, <1>11 DEF OldIsKnown,
     Changing, For, Owned, Referenced, Calling, SameSave, SameCall, Answers
<1>22. SecretsKnown'
  BY <1>1, <1>2, <1>3, <1>4, <1>5, <1>6, <1>7, <1>8, <1>9, <1>10, <1>11 DEF
     SecretsKnown, Owned, Busy, Changing, For, Collects, Late, Referenced, Calling,
     SameSave, SameCall, Answers
<1>23. PasswordsFit'
  BY <1>1, <1>2, <1>3, <1>4, <1>5, <1>6, <1>7, <1>8, <1>9, <1>10, <1>11 DEF
     PasswordsFit, Changing, For, Own, Late, Referenced, Calling, SameSave, SameCall
<1>24. CacheFits'
  BY <1>1, <1>2, <1>3, <1>4, <1>5, <1>6, <1>7, <1>8, <1>9, <1>10, <1>11 DEF CacheFits,
     Steady, Password, Changing, For, Referenced, Calling, SameSave, SameCall
<1> QED
  BY <1>12, <1>13, <1>14, <1>15, <1>16, <1>17, <1>18, <1>19, <1>20, <1>21, <1>22, <1>23,
     <1>24 DEF Inv, TypeOK

(* The shared read finds what is in the keychain, or fails.                *)
LEMMA GetReadsStep ==
  ASSUME Inv, NEW a \in Accounts, NEW ok \in BOOLEAN, GetReads(a, ok)
  PROVE  Inv'
<1>1. /\ TablesType /\ SecretsType /\ ReadersType /\ WriterType /\ TablesAgree
      /\ Starting /\ LocksHeard /\ SecretsKept /\ WritesKept /\ OldIsKnown
      /\ SecretsKnown /\ PasswordsFit /\ CacheFits
  BY DEF Inv, TypeOK
<1>2. row' = row /\ gc' = gc /\ item' = item /\ lock' = lock /\ conns' = conns /\
      session' = session /\ cache' = cache /\ w' = w /\ rd' = rd /\ tail' = tail /\
      calls' = calls /\ lapsed' = lapsed /\ raced' = raced /\ stale' = stale
  BY DEF GetReads, store, keychain, memory, ghosts
<1>3. lock[a] = None /\ gets[a] # None
  BY DEF GetReads
<1>4. a[1] \in Conns /\ Vals(a) \subseteq Secrets
  BY AccountParts, ValsFacts
<1>5. /\ faults' \in Nat /\ upset \subseteq upset' /\ upset' \subseteq upset \cup {a[1]}
      /\ ok \/ a[1] \in upset'
  BY <1>1 DEF GetReads, FaultIf, Fault, TablesType
<1>6. PICK v, G : v = (IF ok THEN item[a] ELSE Down) /\ G = [read |-> TRUE, val |-> v]
  OBVIOUS
<1>7. /\ v \in Vals(a) \cup {None, Down} /\ (v = item[a] \/ (v = Down /\ a[1] \in upset'))
      /\ G \in GetRecord /\ G.read /\ G.val = v
  BY <1>1, <1>4, <1>5, <1>6 DEF SecretsType, GetRecord, Secrets
<1>8. /\ gets' \in [Accounts -> GetRecord \cup {None}] /\ gets'[a] = G
      /\ \A b \in Accounts : b # a => gets'[b] = gets[b]
  BY <1>1, <1>6, <1>7 DEF GetReads, SecretsType
<1>9. \A c \in Conns : /\ <<c, "password">> \in Accounts /\ <<c, "password">>[1] = c
                       /\ <<c, "password">>[2] = "password"
  BY AccountParts
<1>10. w.pc \in Calling \cup Answers \/ (w.pc = "row" /\ w.typed) => w.a \in Accounts
  BY <1>1, CallFacts
<1>11. Down # None
  BY CredentialsAssumption
<1>12. Own(w) => w.a[1] = w.c
  BY <1>1, OwnFacts
<1>13. TablesType'
  BY <1>1, <1>2, <1>3, <1>4, <1>5, <1>6, <1>7, <1>8, <1>9, <1>10, <1>11, <1>12 DEF
     TablesType
<1>14. SecretsType'
  BY <1>1, <1>2, <1>3, <1>4, <1>5, <1>6, <1>7, <1>8, <1>9, <1>10, <1>11, <1>12 DEF
     SecretsType, LockRecord, GetRecord
<1>15. ReadersType'
  BY <1>1, <1>2 DEF ReadersType, ReaderRecord
<1>16. WriterType'
  BY <1>1, <1>2 DEF WriterType, WriterShape, For, Own, Calling, Answers
<1>17. TablesAgree'
  BY <1>1, <1>2 DEF TablesAgree
<1>18. Starting'
  BY <1>1, <1>2 DEF Starting, For, Calling
<1>19. LocksHeard'
  BY <1>1, <1>2, <1>3, <1>4, <1>5, <1>6, <1>7, <1>8, <1>9, <1>10, <1>11, <1>12 DEF
     LocksHeard
<1>20. SecretsKept'
  BY <1>1, <1>2, <1>3, <1>4, <1>5, <1>6, <1>7, <1>8, <1>9, <1>10, <1>11, <1>12 DEF
     SecretsKept, Referenced, Calling
<1>21. WritesKept'
  BY <1>1, <1>2, <1>3, <1>4, <1>5, <1>6, <1>7, <1>8, <1>9, <1>10, <1>11, <1>12, PutFacts
     DEF WritesKept, PutDone, Verified, Late
<1>22. OldIsKnown'
  BY <1>1, <1>2, <1>3, <1>4, <1>5, <1>6, <1>7, <1>8, <1>9, <1>10, <1>11, <1>12 DEF
     OldIsKnown, Changing, For, Owned, Referenced, Calling
<1>23. SecretsKnown'
  BY <1>1, <1>2, <1>3, <1>4, <1>5, <1>6, <1>7, <1>8, <1>9, <1>10, <1>11, <1>12, PutFacts
     DEF SecretsKnown, Owned, Busy, Changing, For, Collects, Late, Referenced, Calling,
     Answers
<1>24. PasswordsFit'
  BY <1>1, <1>2, <1>3, <1>4, <1>5, <1>6, <1>7, <1>8, <1>9, <1>10, <1>11, <1>12 DEF
     PasswordsFit, Changing, For, Own, Late, Referenced, Calling, Answers
<1>25. CacheFits'
  BY <1>1, <1>2, <1>3, <1>4, <1>5, <1>6, <1>7, <1>8, <1>9, <1>10, <1>11, <1>12 DEF
     CacheFits, Steady, Password, Changing, For, Referenced, Calling
<1> QED
  BY <1>13, <1>14, <1>15, <1>16, <1>17, <1>18, <1>19, <1>20, <1>21, <1>22, <1>23, <1>24,
     <1>25 DEF Inv, TypeOK

(* A shared read ends for the dials that joined it.                        *)
LEMMA GetReturnsToDials ==
  ASSUME Inv, NEW a \in Accounts, GetReturns(a), ~(w.pc = "waitGet" /\ w.a = a)
  PROVE  Inv'
<1>1. /\ TablesType /\ SecretsType /\ ReadersType /\ WriterType /\ TablesAgree
      /\ Starting /\ LocksHeard /\ SecretsKept /\ WritesKept /\ OldIsKnown
      /\ SecretsKnown /\ PasswordsFit /\ CacheFits
  BY DEF Inv, TypeOK
<1>2. row' = row /\ gc' = gc /\ item' = item /\ lock' = lock /\ conns' = conns /\
      session' = session /\ cache' = cache /\ w' = w /\ tail' = tail /\ calls' = calls
      /\ faults' = faults /\ lapsed' = lapsed /\ upset' = upset /\ raced' = raced /\ stale' = stale
  BY DEF GetReturns, store, keychain, memory, ghosts
<1>3. PICK v : v = gets[a].val
  OBVIOUS
<1>4. gets[a] # None /\ gets[a].read /\ v \in Vals(a) \cup {None, Down}
  BY <1>1, <1>3 DEF GetReturns, SecretsType
<1>5. /\ gets' \in [Accounts -> GetRecord \cup {None}] /\ gets'[a] = None
      /\ \A b \in Accounts : b # a => gets'[b] = gets[b]
  BY <1>1 DEF GetReturns, SecretsType
<1>6. ReadersType' /\ ReadersServed(a, v)
  BY <1>1, <1>3, <1>4, ReturnsToReaders DEF Inv, TypeOK
<1>7. \A c \in Conns : /\ <<c, "password">> \in Accounts /\ <<c, "password">>[1] = c
                       /\ <<c, "password">>[2] = "password"
  BY AccountParts
<1>8. w.pc \in Calling \cup Answers \/ (w.pc = "row" /\ w.typed) => w.a \in Accounts
  BY <1>1, CallFacts
<1>9. TablesType'
  BY <1>1, <1>2 DEF TablesType
<1>10. SecretsType'
  BY <1>1, <1>2, <1>3, <1>4, <1>5, <1>6, <1>7, <1>8 DEF SecretsType, LockRecord,
     GetRecord
<1>11. ReadersType'
  BY <1>6
<1>12. WriterType'
  BY <1>1, <1>2 DEF WriterType, WriterShape, For, Own, Calling, Answers
<1>13. TablesAgree'
  BY <1>1, <1>2 DEF TablesAgree
<1>14. Starting'
  BY <1>1, <1>2, <1>3, <1>4, <1>5, <1>6, <1>7, <1>8 DEF Starting, For, Calling,
     ReadersServed
<1>15. LocksHeard'
  BY <1>1, <1>2 DEF LocksHeard
<1>16. SecretsKept'
  BY <1>1, <1>2, <1>3, <1>4, <1>5, <1>6, <1>7, <1>8 DEF SecretsKept, Referenced, Calling
<1>17. WritesKept'
  BY <1>1, <1>2, <1>3, <1>4, <1>5, <1>6, <1>7, <1>8 DEF WritesKept, PutDone, Verified,
     Late, Calling, Answers
<1>18. OldIsKnown'
  BY <1>1, <1>2 DEF OldIsKnown, Changing, For, Owned, Referenced, Calling
<1>19. SecretsKnown'
  BY <1>1, <1>2, <1>3, <1>4, <1>5, <1>6, <1>7, <1>8 DEF SecretsKnown, Owned, Busy,
     Changing, For, Collects, Late, Referenced, Calling
<1>20. PasswordsFit'
  BY <1>1, <1>2, <1>3, <1>4, <1>5, <1>6, <1>7, <1>8, OwnFacts DEF PasswordsFit,
     Changing, For, Own, Late, Referenced, Calling, Answers
<1>21. CacheFits'
  BY <1>1, <1>2, <1>3, <1>4, <1>5, <1>6, <1>7, <1>8 DEF CacheFits, Steady, Password,
     Changing, For, Referenced, Calling, ReadersServed, PasswordsFit, Late
<1> QED
  BY <1>9, <1>10, <1>11, <1>12, <1>13, <1>14, <1>15, <1>16, <1>17, <1>18, <1>19, <1>20,
     <1>21 DEF Inv, TypeOK

(* A shared read ends for the writer, too, who joined it.                  *)
LEMMA GetReturnsToWriter ==
  ASSUME Inv, NEW a \in Accounts, GetReturns(a), w.pc = "waitGet", w.a = a
  PROVE  Inv'
<1>1. /\ TablesType /\ SecretsType /\ ReadersType /\ WriterType /\ TablesAgree
      /\ Starting /\ LocksHeard /\ SecretsKept /\ WritesKept /\ OldIsKnown
      /\ SecretsKnown /\ PasswordsFit /\ CacheFits
  BY DEF Inv, TypeOK
<1>2. row' = row /\ gc' = gc /\ item' = item /\ lock' = lock /\ conns' = conns /\
      session' = session /\ cache' = cache /\ tail' = tail /\ calls' = calls /\
      faults' = faults /\ lapsed' = lapsed /\ upset' = upset /\ raced' = raced /\ stale' = stale
  BY DEF GetReturns, store, keychain, memory, ghosts, Answered
<1>3. PICK v : v = gets[a].val
  OBVIOUS
<1>4. gets[a] # None /\ gets[a].read /\ v \in Vals(a) \cup {None, Down}
  BY <1>1, <1>3 DEF GetReturns, SecretsType
<1>5. PICK ans : ans = IF (IF w.op = "put" THEN v = w.val ELSE v # Down) THEN "ok" ELSE "down"
  OBVIOUS
<1>6. /\ ans \in {"ok", "down"}
      /\ w.op = "put" => (ans = "ok" <=> v = w.val)
      /\ w.op # "put" => (ans = "ok" <=> v # Down)
  BY <1>5
<1>7. w.next \in Answers /\ w.op \in {"put", "get"} /\ v \in Secrets \cup {Down}
  BY <1>1, <1>4, ValsFacts DEF WriterType, WriterShape, Calling, Secrets
<1>8. w' = [w EXCEPT !.pc = w.next, !.res = ans, !.got = v]
  BY <1>3, <1>5 DEF GetReturns, Answered
<1>9. w' \in WriterRecord /\ SameSave(w, w') /\ SameCall(w, w') /\ w'.pc = w.next /\
      w'.old = w.old /\ w'.todo = w.todo /\ w'.res = ans /\ w'.got = v
  BY <1>1, <1>6, <1>7, <1>8, ZenonT(60) DEF Secrets, WriterType, WriterRecord, Calling,
     Answers, SameSave, SameCall
<1>10. /\ gets' \in [Accounts -> GetRecord \cup {None}] /\ gets'[a] = None
       /\ \A b \in Accounts : b # a => gets'[b] = gets[b]
  BY <1>1 DEF GetReturns, SecretsType
<1>11. ReadersType' /\ ReadersServed(a, v)
  BY <1>1, <1>3, <1>4, ReturnsToReaders DEF Inv, TypeOK
<1>12. \A c \in Conns : /\ <<c, "password">> \in Accounts /\ <<c, "password">>[1] = c
                        /\ <<c, "password">>[2] = "password"
  BY AccountParts
<1>13. w.pc \in Calling \cup Answers \/ (w.pc = "row" /\ w.typed) => w.a \in Accounts
  BY <1>1, CallFacts
<1>14. Changing(w) \/ For(w, "gotOld") \/ For(w, "migrated") => Own(w) /\ w.a[1] = w.c
  BY <1>1, OwnFacts
<1>15. /\ (w.op = "get") <=> (w.next = "gotOld")
       /\ w.next \in {"gotOld", "stored", "restored", "passphrase", "migrated"}
       /\ w.next = "restored" => w.val = w.old
  BY <1>1, <1>7 DEF WriterType, WriterShape, For, Calling, Answers
<1>16. Referenced(a) => v # None
  BY <1>1, <1>3, <1>4 DEF SecretsKept
<1>17. a[2] = "password" => v \in Endpoints \cup {None, Down}
  BY <1>4 DEF Vals
<1>18. TablesType'
  BY <1>1, <1>2 DEF TablesType
<1>19. SecretsType'
  BY <1>1, <1>2, <1>3, <1>4, <1>5, <1>6, <1>7, <1>8, <1>9, <1>10, <1>11, <1>12, <1>13,
     <1>14, <1>15, <1>16, <1>17 DEF SecretsType, LockRecord, GetRecord
<1>20. ReadersType'
  BY <1>11
<1>21. WriterType'
  BY <1>1, <1>2, <1>3, <1>4, <1>5, <1>6, <1>7, <1>8, <1>9, <1>10, <1>11, <1>12, <1>13,
     <1>14, <1>15, <1>16, <1>17 DEF WriterType, WriterShape, For, Own, Calling, Answers,
     SameSave, SameCall
<1>22. TablesAgree'
  BY <1>1, <1>2 DEF TablesAgree
<1>23. Starting'
  BY <1>1, <1>2, <1>3, <1>4, <1>5, <1>6, <1>7, <1>8, <1>9, <1>10, <1>11, <1>12, <1>13,
     <1>14, <1>15, <1>16, <1>17 DEF Starting, For, Calling, SameSave, SameCall,
     ReadersServed, Answers
<1>24. LocksHeard'
  BY <1>1, <1>2, <1>3, <1>4, <1>5, <1>6, <1>7, <1>8, <1>9, <1>10, <1>11, <1>12, <1>13,
     <1>14, <1>15, <1>16, <1>17 DEF LocksHeard, SameSave, SameCall, Answers
<1>25. SecretsKept'
  BY <1>1, <1>2, <1>3, <1>4, <1>5, <1>6, <1>7, <1>8, <1>9, <1>10, <1>11, <1>12, <1>13,
     <1>14, <1>15, <1>16, <1>17 DEF SecretsKept, Referenced, Calling, SameSave, SameCall
<1>26. WritesKept'
  BY <1>1, <1>2, <1>6, <1>7, <1>9, <1>10, <1>15 DEF WritesKept, PutDone, Verified, Late,
     SameCall
<1>27. OldIsKnown'
  <2>1. w.next = "gotOld" /\ ans = "ok" =>
          /\ v # Down /\ v \in Endpoints \cup {None}
          /\ v = None => ~Referenced(a)
          /\ v # None => Owned(a)
          /\ w.c \notin upset /\ Referenced(a) => v = row[w.c].ep
    <3> SUFFICES ASSUME w.next = "gotOld", ans = "ok"
                 PROVE  /\ v # Down /\ v \in Endpoints \cup {None}
                        /\ v = None => ~Referenced(a)
                        /\ v # None => Owned(a)
                        /\ w.c \notin upset /\ Referenced(a) => v = row[w.c].ep
      OBVIOUS
    <3>1. w.op = "get" /\ For(w, "gotOld") /\ ~Changing(w) /\ v # Down
      BY <1>6, <1>15 DEF For, Changing, Calling
    <3>2. Own(w) /\ w.c \in Conns /\ a = <<w.c, "password">> /\ a[2] = "password"
      BY <1>1, <3>1, OwnFacts
    <3>3. v \in Endpoints \cup {None}
      BY <1>17, <3>1, <3>2
    <3>4. v # None => Owned(a)
      BY <1>1, <1>3, <1>4, <3>1 DEF SecretsKnown, Late
    <3>5. w.c \notin upset => v = item[a]
      BY <1>1, <1>3, <1>4, <3>1, <3>2 DEF PasswordsFit, Late
    <3>6. w.c \notin upset /\ Referenced(a) => item[a] = row[w.c].ep
      BY <1>1, <3>1, <3>2 DEF PasswordsFit
    <3> QED
      BY <1>16, <3>1, <3>3, <3>4, <3>5, <3>6
  <2>2. Changing(w)' <=> Changing(w)
    BY <1>9, <1>7 DEF Changing, For, Calling, Answers, SameSave, SameCall
  <2>3. w.next = "restored" /\ w.c \notin upset /\ w.old # None => item[a] = w.old
    BY <1>1, <1>7, <1>15 DEF WritesKept, PutDone
  <2> QED
    BY <1>1, <1>2, <1>9, <2>1, <2>2, <2>3 DEF OldIsKnown, Owned, Referenced, SameSave, SameCall
<1>28. SecretsKnown'
  BY <1>1, <1>2, <1>3, <1>4, <1>5, <1>6, <1>7, <1>8, <1>9, <1>10, <1>11, <1>12, <1>13,
     <1>14, <1>15, <1>16, <1>17 DEF SecretsKnown, Owned, Busy, Changing, For, Collects,
     Late, Referenced, Calling, SameSave, SameCall, Answers
<1>29. PasswordsFit'
  BY <1>1, <1>2, <1>3, <1>4, <1>5, <1>6, <1>7, <1>8, <1>9, <1>10, <1>11, <1>12, <1>13,
     <1>14, <1>15, <1>16, <1>17 DEF PasswordsFit, Changing, For, Own, Late, Referenced,
     Calling, SameSave, SameCall
<1>30. CacheFits'
  BY <1>1, <1>2, <1>3, <1>4, <1>5, <1>6, <1>7, <1>8, <1>9, <1>10, <1>11, <1>12, <1>13,
     <1>14, <1>15, <1>16, <1>17 DEF CacheFits, Steady, Password, Changing, For,
     Referenced, Calling, SameSave, SameCall, ReadersServed, PasswordsFit, Late, Answers
<1> QED
  BY <1>18, <1>19, <1>20, <1>21, <1>22, <1>23, <1>24, <1>25, <1>26, <1>27, <1>28, <1>29,
     <1>30 DEF Inv, TypeOK

(* UseCredentialForSession looks the connection up.                        *)
LEMMA BeginUseStep ==
  ASSUME Inv, NEW r \in Readers, NEW c \in Conns, BeginUse(r, c)
  PROVE  Inv'
<1>1. /\ TablesType /\ SecretsType /\ ReadersType /\ WriterType /\ TablesAgree
      /\ Starting /\ LocksHeard /\ SecretsKept /\ WritesKept /\ OldIsKnown
      /\ SecretsKnown /\ PasswordsFit /\ CacheFits
  BY DEF Inv, TypeOK
<1>2. row' = row /\ gc' = gc /\ item' = item /\ lock' = lock /\ gets' = gets /\
      conns' = conns /\ session' = session /\ cache' = cache /\ w' = w /\ tail' = tail
      /\ faults' = faults /\ lapsed' = lapsed /\ upset' = upset /\ raced' = raced /\ stale' = stale
  BY DEF BeginUse, store, keychain, memory, ghosts
<1>3. conns[c].auth = "password" /\ calls' \in Nat
  BY <1>1 DEF BeginUse, Call, TablesType
<1>4. conns[c] # NoRow /\ conns[c].ep \in Endpoints
  BY <1>1, <1>3, RowFacts DEF TablesType
<1>5. w.kind # "boot"
  BY <1>1, <1>4 DEF Starting
<1>6. PICK R : R = [NoRead EXCEPT !.pc = "use", !.c = c, !.val = conns[c].ep]
  OBVIOUS
<1>7. R \in ReaderRecord /\ R.pc = "use" /\ R.c = c /\ R.val \in Endpoints
  BY <1>4, <1>6 DEF NoRead, ReaderRecord, Secrets
<1>8. /\ rd' \in [Readers -> ReaderRecord] /\ rd'[r] = R
      /\ \A q \in Readers : q # r => rd'[q] = rd[q]
  BY <1>1, <1>6, <1>7 DEF BeginUse, ReadersType
<1>9. TablesType'
  BY <1>1, <1>2, <1>3, <1>4, <1>5, <1>6, <1>7, <1>8 DEF TablesType
<1>10. SecretsType'
  BY <1>1, <1>2 DEF SecretsType, LockRecord, GetRecord
<1>11. ReadersType'
  BY <1>1, <1>7, <1>8 DEF ReadersType
<1>12. WriterType'
  BY <1>1, <1>2 DEF WriterType, WriterShape, For, Own, Calling, Answers
<1>13. TablesAgree'
  BY <1>1, <1>2 DEF TablesAgree
<1>14. Starting'
  BY <1>1, <1>2, <1>3, <1>4, <1>5, <1>6, <1>7, <1>8 DEF Starting, For, Calling
<1>15. LocksHeard'
  BY <1>1, <1>2 DEF LocksHeard
<1>16. SecretsKept'
  BY <1>1, <1>2 DEF SecretsKept, Referenced, Calling
<1>17. WritesKept'
  BY <1>1, <1>2 DEF WritesKept, PutDone, Verified, Late
<1>18. OldIsKnown'
  BY <1>1, <1>2 DEF OldIsKnown, Changing, For, Owned, Referenced, Calling
<1>19. SecretsKnown'
  BY <1>1, <1>2 DEF SecretsKnown, Owned, Busy, Changing, For, Collects, Late,
     Referenced, Calling
<1>20. PasswordsFit'
  BY <1>1, <1>2 DEF PasswordsFit, Changing, For, Own, Late, Referenced, Calling
<1>21. CacheFits'
  BY <1>1, <1>2, <1>7, <1>8 DEF CacheFits, Steady, Password, Referenced, Changing, For, Calling
<1> QED
  BY <1>9, <1>10, <1>11, <1>12, <1>13, <1>14, <1>15, <1>16, <1>17, <1>18, <1>19, <1>20,
     <1>21 DEF Inv, TypeOK

(* A dial copies the connection that it will read the secret of.           *)
LEMMA ResolveStep ==
  ASSUME Inv, NEW r \in Readers, NEW c \in Conns, Resolve(r, c)
  PROVE  Inv'
<1>1. /\ TablesType /\ SecretsType /\ ReadersType /\ WriterType /\ TablesAgree
      /\ Starting /\ LocksHeard /\ SecretsKept /\ WritesKept /\ OldIsKnown
      /\ SecretsKnown /\ PasswordsFit /\ CacheFits
  BY DEF Inv, TypeOK
<1>2. row' = row /\ gc' = gc /\ item' = item /\ lock' = lock /\ gets' = gets /\
      conns' = conns /\ session' = session /\ cache' = cache /\ w' = w /\ tail' = tail
      /\ faults' = faults /\ lapsed' = lapsed /\ upset' = upset /\ raced' = raced \ {r}
      /\ stale' = stale
  BY DEF Resolve, store, keychain, memory, ghosts
<1>3. conns[c] # NoRow /\ calls' \in Nat
  BY <1>1 DEF Resolve, Call, TablesType
<1>4. conns[c].auth \in Auths /\ conns[c].ep \in Endpoints
  BY <1>1, <1>3, RowFacts DEF TablesType
<1>5. w.kind # "boot"
  BY <1>1, <1>3 DEF Starting
<1>6. PICK R : R = [NoRead EXCEPT !.pc = "look", !.c = c, !.auth = conns[c].auth, !.ep = conns[c].ep]
  OBVIOUS
<1>7. R \in ReaderRecord /\ R.pc = "look" /\ R.c = c /\ R.auth \in Auths
  BY <1>4, <1>6 DEF NoRead, ReaderRecord, Secrets
<1>8. /\ rd' \in [Readers -> ReaderRecord] /\ rd'[r] = R
      /\ \A q \in Readers : q # r => rd'[q] = rd[q]
  BY <1>1, <1>6, <1>7 DEF Resolve, ReadersType
<1>9. TablesType'
  BY <1>1, <1>2, <1>3, <1>4, <1>5, <1>6, <1>7, <1>8 DEF TablesType
<1>10. SecretsType'
  BY <1>1, <1>2 DEF SecretsType, LockRecord, GetRecord
<1>11. ReadersType'
  BY <1>1, <1>7, <1>8 DEF ReadersType
<1>12. WriterType'
  BY <1>1, <1>2 DEF WriterType, WriterShape, For, Own, Calling, Answers
<1>13. TablesAgree'
  BY <1>1, <1>2 DEF TablesAgree
<1>14. Starting'
  BY <1>1, <1>2, <1>3, <1>4, <1>5, <1>6, <1>7, <1>8 DEF Starting, For, Calling
<1>15. LocksHeard'
  BY <1>1, <1>2 DEF LocksHeard
<1>16. SecretsKept'
  BY <1>1, <1>2 DEF SecretsKept, Referenced, Calling
<1>17. WritesKept'
  BY <1>1, <1>2 DEF WritesKept, PutDone, Verified, Late
<1>18. OldIsKnown'
  BY <1>1, <1>2 DEF OldIsKnown, Changing, For, Owned, Referenced, Calling
<1>19. SecretsKnown'
  BY <1>1, <1>2 DEF SecretsKnown, Owned, Busy, Changing, For, Collects, Late,
     Referenced, Calling
<1>20. PasswordsFit'
  BY <1>1, <1>2 DEF PasswordsFit, Changing, For, Own, Late, Referenced, Calling
<1>21. CacheFits'
  BY <1>1, <1>2, <1>7, <1>8 DEF CacheFits, Steady, Password, Referenced, Changing, For, Calling
<1> QED
  BY <1>9, <1>10, <1>11, <1>12, <1>13, <1>14, <1>15, <1>16, <1>17, <1>18, <1>19, <1>20,
     <1>21 DEF Inv, TypeOK

(* readSecret takes the cached secret, or the session-only one, or asks    *)
(* the keychain.                                                           *)
LEMMA LookStep ==
  ASSUME Inv, NEW r \in Readers, Look(r)
  PROVE  Inv'
<1>1. /\ TablesType /\ SecretsType /\ ReadersType /\ WriterType /\ TablesAgree
      /\ Starting /\ LocksHeard /\ SecretsKept /\ WritesKept /\ OldIsKnown
      /\ SecretsKnown /\ PasswordsFit /\ CacheFits
  BY DEF Inv, TypeOK
<1>2. row' = row /\ gc' = gc /\ item' = item /\ lock' = lock /\ conns' = conns /\
      session' = session /\ cache' = cache /\ w' = w /\ tail' = tail /\ calls' = calls
      /\ faults' = faults /\ lapsed' = lapsed /\ upset' = upset /\ raced' = raced /\ stale' = stale
  BY DEF Look, store, keychain, memory, ghosts
<1>3. rd[r].pc = "look" /\ rd[r] \in ReaderRecord /\ rd[r].c \in Conns /\ rd[r].auth \in Auths
  BY <1>1 DEF Look, ReadersType
<1>4. w.kind # "boot"
  BY <1>1, <1>3 DEF Starting
<1>5. PICK a, x, R : a = <<x.c, x.auth>> /\ x = rd[r] /\ R = rd'[r]
  OBVIOUS
<1>6. a \in Accounts
  BY <1>3, <1>5, AccountParts
<1>7. /\ gets' \in [Accounts -> GetRecord \cup {None}]
      /\ \A b \in Accounts : gets'[b] # None => gets'[b].val \in Vals(b) \cup {None, Down}
      /\ \A b \in Accounts : (gets'[b] # None /\ gets'[b].read) =>
           gets[b] # None /\ gets[b].read /\ gets'[b].val = gets[b].val
  <2>1. gets' = Joined(a) \/ gets' = gets
    BY <1>5 DEF Look
  <2> QED
    BY <1>1, <1>6, <2>1, JoinedFacts DEF SecretsType
<1>8. /\ \/ R = NoRead
         \/ R = [x EXCEPT !.pc = "keep", !.val = session[x.c]] /\ x.auth = "password" /\ session[x.c] # None
         \/ R = [x EXCEPT !.pc = "waitGet"] /\ ~(x.auth = "password" /\ session[x.c] # None)
      /\ rd' = [rd EXCEPT ![r] = R]
  BY <1>1, <1>3, <1>5 DEF Look, ReadersType
<1>9. /\ R \in ReaderRecord
      /\ R.pc \in {"idle", "keep", "waitGet"}
      /\ R.pc # "idle" => R.c = x.c /\ R.auth = x.auth
      /\ R.pc = "keep" => R.val = session[x.c] /\ x.auth = "password" /\ R.val # None /\ R.val \in Endpoints
      /\ R.pc = "waitGet" => ~(x.auth = "password" /\ session[x.c] # None)
  <2>1. session[x.c] \in Endpoints \cup {None} /\ x \in ReaderRecord
    BY <1>1, <1>3, <1>5 DEF TablesType
  <2>2. CASE R = NoRead
    BY <2>2 DEF NoRead, ReaderRecord, Secrets
  <2>3. CASE R = [x EXCEPT !.pc = "keep", !.val = session[x.c]] /\ x.auth = "password" /\ session[x.c] # None
    BY <2>1, <2>3 DEF ReaderRecord, Secrets
  <2>4. CASE R = [x EXCEPT !.pc = "waitGet"] /\ ~(x.auth = "password" /\ session[x.c] # None)
    BY <2>1, <2>4 DEF ReaderRecord
  <2> QED
    BY <1>8, <2>2, <2>3, <2>4
<1>10. /\ rd' \in [Readers -> ReaderRecord] /\ rd'[r] = R
       /\ \A q \in Readers : q # r => rd'[q] = rd[q]
  BY <1>1, <1>5, <1>8, <1>9 DEF ReadersType
<1>11. \A d \in Conns : /\ <<d, "password">> \in Accounts /\ <<d, "password">>[1] = d
                        /\ <<d, "password">>[2] = "password"
  BY AccountParts
<1>12. TablesType'
  BY <1>1, <1>2 DEF TablesType
<1>13. SecretsType'
  BY <1>1, <1>2, <1>3, <1>4, <1>5, <1>6, <1>7, <1>8, <1>9, <1>10, <1>11 DEF SecretsType,
     LockRecord, GetRecord
<1>14. ReadersType'
  <2>1. R.pc = "keep" => R.val \in Vals(<<R.c, R.auth>>)
    BY <1>3, <1>5, <1>9, AccountParts DEF Vals
  <2> QED
    BY <1>1, <1>3, <1>5, <1>9, <1>10, <2>1 DEF ReadersType
<1>15. WriterType'
  BY <1>1, <1>2 DEF WriterType, WriterShape, For, Own, Calling, Answers
<1>16. TablesAgree'
  BY <1>1, <1>2 DEF TablesAgree
<1>17. Starting'
  BY <1>1, <1>2, <1>4 DEF Starting
<1>18. LocksHeard'
  BY <1>1, <1>2 DEF LocksHeard
<1>19. SecretsKept'
  BY <1>1, <1>2, <1>7 DEF SecretsKept, Referenced
<1>20. WritesKept'
  BY <1>1, <1>2, <1>3, <1>4, <1>5, <1>6, <1>7, <1>8, <1>9, <1>10, <1>11, PutFacts DEF
     WritesKept, PutDone, Verified, Late
<1>21. OldIsKnown'
  BY <1>1, <1>2 DEF OldIsKnown, Changing, For, Owned, Referenced, Calling
<1>22. SecretsKnown'
  <2>1. w.pc = "waitGet" => w.a \in Accounts
    BY <1>1, CallFacts DEF Calling
  <2> QED
    BY <1>1, <1>2, <1>7, <2>1 DEF SecretsKnown, Owned, Late, Referenced, Busy, Changing,
       Collects, For, Calling
<1>23. PasswordsFit'
  BY <1>1, <1>2, <1>3, <1>4, <1>5, <1>6, <1>7, <1>8, <1>9, <1>10, <1>11, OwnFacts DEF
     PasswordsFit, Changing, For, Own, Late, Referenced, Calling
<1>24. CacheFits'
  BY <1>1, <1>2, <1>3, <1>5, <1>9, <1>10 DEF CacheFits, Steady, Password, Referenced,
     Changing, For, Calling
<1> QED
  BY <1>12, <1>13, <1>14, <1>15, <1>16, <1>17, <1>18, <1>19, <1>20, <1>21, <1>22, <1>23,
     <1>24 DEF Inv, TypeOK

(* cacheSecret, whatever happened since the read.                          *)
LEMMA KeepStep ==
  ASSUME Inv, NEW r \in Readers, Keep(r)
  PROVE  Inv'
<1>1. /\ TablesType /\ SecretsType /\ ReadersType /\ WriterType /\ TablesAgree
      /\ Starting /\ LocksHeard /\ SecretsKept /\ WritesKept /\ OldIsKnown
      /\ SecretsKnown /\ PasswordsFit /\ CacheFits
  BY DEF Inv, TypeOK
<1>2. row' = row /\ gc' = gc /\ item' = item /\ lock' = lock /\ gets' = gets /\
      conns' = conns /\ session' = session /\ w' = w /\ tail' = tail /\ calls' = calls
      /\ faults' = faults /\ lapsed' = lapsed /\ upset' = upset /\ raced' = raced \ {r}
      /\ stale' = (IF r \in raced THEN stale \cup {rd[r].c} ELSE stale)
  BY DEF Keep, store, keychain, memory, ghosts
<1>3. /\ rd[r].pc = "keep" /\ rd[r] \in ReaderRecord /\ rd[r].c \in Conns /\ rd[r].auth \in Auths
      /\ rd[r].val \in Vals(<<rd[r].c, rd[r].auth>>)
  BY <1>1 DEF Keep, ReadersType
<1>4. w.kind # "boot"
  BY <1>1, <1>3 DEF Starting
<1>5. PICK a, x : a = <<x.c, x.auth>> /\ x = rd[r]
  OBVIOUS
<1>6. a \in Accounts /\ x.val \in Vals(a) /\ x.val \in Secrets
  BY <1>3, <1>5, AccountParts, ValsFacts
<1>7. /\ cache' \in [Accounts -> Secrets] /\ cache'[a] = x.val
      /\ \A b \in Accounts : b # a => cache'[b] = cache[b]
  BY <1>1, <1>5, <1>6 DEF Keep, SecretsType
<1>8. NoRead \in ReaderRecord /\ NoRead.pc = "idle"
  BY DEF NoRead, ReaderRecord, Secrets
<1>9. /\ rd' \in [Readers -> ReaderRecord] /\ rd'[r].pc = "idle"
      /\ \A q \in Readers : q # r => rd'[q] = rd[q]
  BY <1>1, <1>8 DEF Keep, ReadersType
<1>10. \A d \in Conns : /\ <<d, "password">> \in Accounts /\ <<d, "password">>[1] = d
                        /\ <<d, "password">>[2] = "password"
  BY AccountParts
<1>11. TablesType'
  BY <1>1, <1>2, <1>3 DEF TablesType
<1>12. SecretsType'
  BY <1>1, <1>2, <1>3, <1>4, <1>5, <1>6, <1>7, <1>8, <1>9, <1>10 DEF SecretsType,
     LockRecord, GetRecord
<1>13. ReadersType'
  BY <1>1, <1>2, <1>3, <1>4, <1>5, <1>6, <1>7, <1>8, <1>9, <1>10, ZenonT(60) DEF
     ReadersType, ReaderRecord
<1>14. WriterType'
  BY <1>1, <1>2 DEF WriterType, WriterShape, For, Own, Calling, Answers
<1>15. TablesAgree'
  BY <1>1, <1>2 DEF TablesAgree
<1>16. Starting'
  BY <1>1, <1>2, <1>4 DEF Starting
<1>17. LocksHeard'
  BY <1>1, <1>2 DEF LocksHeard
<1>18. SecretsKept'
  BY <1>1, <1>2 DEF SecretsKept, Referenced, Calling
<1>19. WritesKept'
  BY <1>1, <1>2 DEF WritesKept, PutDone, Verified, Late
<1>20. OldIsKnown'
  BY <1>1, <1>2 DEF OldIsKnown, Changing, For, Owned, Referenced, Calling
<1>21. SecretsKnown'
  BY <1>1, <1>2 DEF SecretsKnown, Owned, Busy, Changing, For, Collects, Late,
     Referenced, Calling
<1>22. PasswordsFit'
  BY <1>1, <1>2 DEF PasswordsFit, Changing, For, Own, Late, Referenced, Calling
<1>23. CacheFits'
  <2>1. \A d \in Conns : <<d, "password">> = a => d = x.c /\ x.auth = "password"
    BY <1>3, <1>5, AccountParts
  <2> QED
    BY <1>1, <1>2, <1>3, <1>5, <1>7, <1>9, <1>10, <2>1 DEF CacheFits, Steady, Password,
       Referenced, Changing, For, Calling
<1> QED
  BY <1>11, <1>12, <1>13, <1>14, <1>15, <1>16, <1>17, <1>18, <1>19, <1>20, <1>21, <1>22,
     <1>23 DEF Inv, TypeOK

(* UseCredentialForSession stores the password that was typed for this     *)
(* session.                                                                *)
LEMMA UseStep ==
  ASSUME Inv, NEW r \in Readers, Use(r)
  PROVE  Inv'
<1>1. /\ TablesType /\ SecretsType /\ ReadersType /\ WriterType /\ TablesAgree
      /\ Starting /\ LocksHeard /\ SecretsKept /\ WritesKept /\ OldIsKnown
      /\ SecretsKnown /\ PasswordsFit /\ CacheFits
  BY DEF Inv, TypeOK
<1>2. row' = row /\ gc' = gc /\ item' = item /\ lock' = lock /\ gets' = gets /\
      conns' = conns /\ w' = w /\ tail' = tail /\ calls' = calls /\ faults' = faults /\
      lapsed' = lapsed /\ upset' = upset
  BY DEF Use, store, keychain, memory, ghosts
<1>3. rd[r].pc = "use" /\ rd[r] \in ReaderRecord /\ rd[r].c \in Conns /\ rd[r].val \in Endpoints
  BY <1>1 DEF Use, ReadersType
<1>4. w.kind # "boot"
  BY <1>1, <1>3 DEF Starting
<1>5. PICK c : c = rd[r].c
  OBVIOUS
<1>6. /\ session' \in [Conns -> Endpoints \cup {None}]
      /\ \A d \in Conns : d # c => session'[d] = session[d]
  BY <1>1, <1>3, <1>5 DEF Use, TablesType
<1>7. /\ cache' \in [Accounts -> Secrets] /\ raced' \subseteq Readers
      /\ \A a \in Accounts : /\ a[1] = c => cache'[a] = None
                             /\ a[1] # c => cache'[a] = cache[a]
                             /\ cache'[a] \in Vals(a) \cup {None}
      /\ raced \subseteq raced' /\ stale' = stale \ {c} /\ stale' \subseteq Conns
      /\ \A q \in Readers \ raced' : rd[q].c = c => rd[q].pc \notin {"waitGet", "keep"}
  BY <1>1, <1>3, <1>5, ForgottenFacts DEF Use, TablesType
<1>8. NoRead \in ReaderRecord /\ NoRead.pc = "idle"
  BY DEF NoRead, ReaderRecord, Secrets
<1>9. /\ rd' \in [Readers -> ReaderRecord] /\ rd'[r].pc = "idle"
      /\ \A q \in Readers : q # r => rd'[q] = rd[q]
  BY <1>1, <1>8 DEF Use, ReadersType
<1>10. \A d \in Conns : /\ <<d, "password">> \in Accounts /\ <<d, "password">>[1] = d
                        /\ <<d, "password">>[2] = "password"
  BY AccountParts
<1>11. TablesType'
  BY <1>1, <1>2, <1>3, <1>4, <1>5, <1>6, <1>7, <1>8, <1>9, <1>10 DEF TablesType
<1>12. SecretsType'
  BY <1>1, <1>2, <1>3, <1>4, <1>5, <1>6, <1>7, <1>8, <1>9, <1>10 DEF SecretsType,
     LockRecord, GetRecord
<1>13. ReadersType'
  BY <1>1, <1>2, <1>3, <1>4, <1>5, <1>6, <1>7, <1>8, <1>9, <1>10, ZenonT(60) DEF
     ReadersType, ReaderRecord
<1>14. WriterType'
  BY <1>1, <1>2 DEF WriterType, WriterShape, For, Own, Calling, Answers
<1>15. TablesAgree'
  BY <1>1, <1>2 DEF TablesAgree
<1>16. Starting'
  BY <1>1, <1>2, <1>4 DEF Starting
<1>17. LocksHeard'
  BY <1>1, <1>2 DEF LocksHeard
<1>18. SecretsKept'
  BY <1>1, <1>2 DEF SecretsKept, Referenced, Calling
<1>19. WritesKept'
  BY <1>1, <1>2 DEF WritesKept, PutDone, Verified, Late
<1>20. OldIsKnown'
  BY <1>1, <1>2 DEF OldIsKnown, Changing, For, Owned, Referenced, Calling
<1>21. SecretsKnown'
  BY <1>1, <1>2 DEF SecretsKnown, Owned, Busy, Changing, For, Collects, Late,
     Referenced, Calling
<1>22. PasswordsFit'
  BY <1>1, <1>2 DEF PasswordsFit, Changing, For, Own, Late, Referenced, Calling
<1>23. CacheFits'
  BY <1>1, <1>2, <1>6, <1>7, <1>9, <1>10 DEF CacheFits, Steady, Password, Referenced,
     Changing, For, Calling
<1> QED
  BY <1>11, <1>12, <1>13, <1>14, <1>15, <1>16, <1>17, <1>18, <1>19, <1>20, <1>21, <1>22,
     <1>23 DEF Inv, TypeOK

(* A dial is cancelled, or the keychain takes too long for it.             *)
LEMMA ReadGivesUpStep ==
  ASSUME Inv, NEW r \in Readers, ReadGivesUp(r)
  PROVE  Inv'
<1>1. /\ TablesType /\ SecretsType /\ ReadersType /\ WriterType /\ TablesAgree
      /\ Starting /\ LocksHeard /\ SecretsKept /\ WritesKept /\ OldIsKnown
      /\ SecretsKnown /\ PasswordsFit /\ CacheFits
  BY DEF Inv, TypeOK
<1>2. row' = row /\ gc' = gc /\ item' = item /\ lock' = lock /\ gets' = gets /\
      conns' = conns /\ session' = session /\ cache' = cache /\ w' = w /\ tail' = tail
      /\ calls' = calls /\ lapsed' = lapsed /\ upset' = upset /\ raced' = raced /\ stale' = stale
  BY DEF ReadGivesUp, store, keychain, memory, ghosts
<1>3. faults' \in Nat
  BY <1>1 DEF ReadGivesUp, Fault, TablesType
<1>4. NoRead \in ReaderRecord /\ NoRead.pc = "idle"
  BY DEF NoRead, ReaderRecord, Secrets
<1>5. /\ rd' \in [Readers -> ReaderRecord] /\ rd'[r].pc = "idle"
      /\ \A q \in Readers : q # r => rd'[q] = rd[q]
  BY <1>1, <1>4 DEF ReadGivesUp, ReadersType
<1>6. TablesType'
  BY <1>1, <1>2, <1>3, <1>4, <1>5 DEF TablesType
<1>7. SecretsType'
  BY <1>1, <1>2 DEF SecretsType, LockRecord, GetRecord
<1>8. ReadersType'
  BY <1>1, <1>2, <1>3, <1>4, <1>5 DEF ReadersType, ReaderRecord
<1>9. WriterType'
  BY <1>1, <1>2 DEF WriterType, WriterShape, For, Own, Calling, Answers
<1>10. TablesAgree'
  BY <1>1, <1>2 DEF TablesAgree
<1>11. Starting'
  BY <1>1, <1>2, <1>3, <1>4, <1>5 DEF Starting, For, Calling
<1>12. LocksHeard'
  BY <1>1, <1>2 DEF LocksHeard
<1>13. SecretsKept'
  BY <1>1, <1>2 DEF SecretsKept, Referenced, Calling
<1>14. WritesKept'
  BY <1>1, <1>2 DEF WritesKept, PutDone, Verified, Late
<1>15. OldIsKnown'
  BY <1>1, <1>2 DEF OldIsKnown, Changing, For, Owned, Referenced, Calling
<1>16. SecretsKnown'
  BY <1>1, <1>2 DEF SecretsKnown, Owned, Busy, Changing, For, Collects, Late,
     Referenced, Calling
<1>17. PasswordsFit'
  BY <1>1, <1>2 DEF PasswordsFit, Changing, For, Own, Late, Referenced, Calling
<1>18. CacheFits'
  BY <1>1, <1>2, <1>3, <1>4, <1>5 DEF CacheFits, Steady, Password, Changing, For,
     Referenced, Calling
<1> QED
  BY <1>6, <1>7, <1>8, <1>9, <1>10, <1>11, <1>12, <1>13, <1>14, <1>15, <1>16, <1>17,
     <1>18 DEF Inv, TypeOK

----------------------------------------------------------------------------
(* Two kinds of steps that many operations take                            *)

\* The writer lets go of its account and changes no row.
LetsGo ==
  /\ w.pc # "wait" /\ w' \in WriterRecord /\ w'.pc \in {"idle", "collect", "end", "boot", "row"}
  /\ w'.pc = "collect" => w'.todo \subseteq gc'
  /\ w'.pc = "boot" => w'.kind = "boot"
  /\ w'.pc = "row" => /\ w'.kind = "save" /\ w'.c \in Conns /\ w'.auth \in Auths
                      /\ w'.ep \in Endpoints /\ ~w'.typed
                      /\ w'.new => row[w'.c] = NoRow /\ conns[w'.c] = NoRow
  /\ w'.kind = "boot" => w.kind = "boot"
  /\ w'.kind = "delete" => w'.c \in Conns
  /\ row' = row /\ item' = item /\ lock' = lock /\ gets' = gets /\ conns' = conns
  /\ session' = session /\ rd' = rd /\ tail' = tail /\ upset' = upset
  /\ calls' \in Nat /\ faults' \in Nat
  /\ gc' \subseteq Accounts /\ lapsed' \subseteq Accounts
  /\ raced' \subseteq Readers /\ stale' \subseteq Conns
  /\ cache' \in [Accounts -> Secrets] /\ \A a \in Accounts : cache'[a] \in {None, cache[a]}

\* Whatever is in the keychain is known without the writer.
KnownAfter ==
  \A a \in Accounts : (item[a] # None \/ (lock[a] # None /\ lock[a].op = "put")) =>
    Referenced(a) \/ a \in gc' \/ a \in lapsed'

\* The password of the connection that was being saved is the row's again.
FitsAfter ==
  \A c \in Conns : (Changing(w) /\ w.c = c /\ c \notin upset /\ Referenced(<<c, "password">>)) =>
    /\ item[<<c, "password">>] = row[c].ep
    /\ Late(<<c, "password">>) => gets[<<c, "password">>].val = row[c].ep

\* What was cached meanwhile is forgotten, and a dial under way is marked.
ForgottenAfter ==
  /\ raced \subseteq raced'
  /\ \A c \in Conns :
       \/ /\ ~(Changing(w) /\ w.c = c /\ Referenced(<<c, "password">>))
          /\ c \in stale => c \in stale'
       \/ /\ cache'[<<c, "password">>] = None
          /\ \A r \in Readers \ raced' : rd[r].c = c => rd[r].pc \notin {"waitGet", "keep"}

(* A writer that lets go keeps the invariant when its account is looked    *)
(* after.                                                                  *)
LEMMA LetsGoStep ==
  ASSUME Inv, LetsGo, KnownAfter, FitsAfter, ForgottenAfter
  PROVE  Inv'
<1>1. /\ TablesType /\ SecretsType /\ ReadersType /\ WriterType /\ TablesAgree
      /\ Starting /\ LocksHeard /\ SecretsKept /\ WritesKept /\ OldIsKnown
      /\ SecretsKnown /\ PasswordsFit /\ CacheFits
  BY DEF Inv, TypeOK
<1>2. ~Changing(w)'
  BY DEF LetsGo, Changing, For, Calling
<1>3. TablesType'
  BY <1>1 DEF LetsGo, TablesType
<1>4. SecretsType'
  BY <1>1 DEF LetsGo, SecretsType
<1>5. ReadersType'
  BY <1>1 DEF LetsGo, ReadersType
<1>6. WriterType'
  BY <1>1 DEF LetsGo, WriterType, WriterShape, For, Own, Calling, Answers
<1>7. TablesAgree'
  BY <1>1 DEF LetsGo, TablesAgree
<1>8. Starting'
  BY <1>1 DEF LetsGo, Starting, For, Calling
<1>9. LocksHeard'
  BY <1>1 DEF LetsGo, LocksHeard
<1>10. SecretsKept'
  BY <1>1 DEF LetsGo, SecretsKept, Referenced, Calling
<1>11. WritesKept'
  BY <1>1 DEF LetsGo, WritesKept, PutDone, Verified
<1>12. OldIsKnown'
  BY <1>1 DEF LetsGo, OldIsKnown, Changing, For, Calling
<1>13. SecretsKnown'
  BY <1>1 DEF LetsGo, KnownAfter, SecretsKnown, Owned, Referenced, Collects, Busy, For,
     Calling
<1>14. PasswordsFit'
  BY <1>1, <1>2 DEF LetsGo, FitsAfter, PasswordsFit, Late, Referenced
<1>15. CacheFits'
  BY <1>1, <1>2, AccountParts DEF LetsGo, ForgottenAfter, CacheFits, Steady, Password,
     Referenced
<1> QED
  BY <1>3, <1>4, <1>5, <1>6, <1>7, <1>8, <1>9, <1>10, <1>11, <1>12, <1>13, <1>14, <1>15
     DEF Inv, TypeOK

\* The writer turns to the keychain for account w'.a; nothing else happens.
TurnsTo ==
  /\ w.pc # "wait" /\ w' \in WriterRecord /\ WriterShape(w') /\ w'.pc \in {"want", "ask"}
  /\ w'.pc = "ask" => w'.op = "get"
  /\ w'.op = "delete" => ~Referenced(w'.a)
  /\ Busy(w) => Busy(w') /\ w'.a = w.a
  /\ Changing(w) => Changing(w') /\ w'.c = w.c
  /\ Collects(w') => w'.todo \subseteq gc
  /\ row' = row /\ gc' = gc /\ item' = item /\ lock' = lock /\ gets' = gets
  /\ conns' = conns /\ session' = session /\ cache' = cache /\ rd' = rd /\ tail' = tail
  /\ calls' \in Nat /\ faults' \in Nat
  /\ lapsed' = lapsed /\ upset' = upset /\ raced' = raced /\ stale' = stale

(* A writer that turns to the keychain keeps the invariant when it knows   *)
(* what it may overwrite.                                                  *)
LEMMA TurnsToStep ==
  ASSUME Inv, TurnsTo, Starting', OldIsKnown'
  PROVE  Inv'
<1>1. /\ TablesType /\ SecretsType /\ ReadersType /\ WriterType /\ TablesAgree
      /\ Starting /\ LocksHeard /\ SecretsKept /\ WritesKept /\ OldIsKnown
      /\ SecretsKnown /\ PasswordsFit /\ CacheFits
  BY DEF Inv, TypeOK
<1>2. TablesType'
  BY <1>1 DEF TurnsTo, TablesType
<1>3. SecretsType'
  BY <1>1 DEF TurnsTo, SecretsType
<1>4. ReadersType'
  BY <1>1 DEF TurnsTo, ReadersType
<1>5. WriterType'
  BY <1>1 DEF TurnsTo, WriterType
<1>6. TablesAgree'
  BY <1>1 DEF TurnsTo, TablesAgree
<1>7. LocksHeard'
  BY <1>1 DEF TurnsTo, LocksHeard
<1>8. SecretsKept'
  BY <1>1 DEF TurnsTo, SecretsKept, Referenced, Calling
<1>9. WritesKept'
  BY <1>1 DEF TurnsTo, WritesKept, PutDone, Verified
<1>10. SecretsKnown'
  BY <1>1 DEF TurnsTo, SecretsKnown, Owned, Referenced
<1>11. PasswordsFit'
  BY <1>1 DEF TurnsTo, PasswordsFit, Late, Referenced
<1>12. CacheFits'
  BY <1>1 DEF TurnsTo, CacheFits, Steady, Password, Referenced
<1> QED
  BY <1>2, <1>3, <1>4, <1>5, <1>6, <1>7, <1>8, <1>9, <1>10, <1>11, <1>12 DEF Inv, TypeOK

\* The writer is done with its account and changes rows.
ChangesRows ==
  /\ w.pc # "wait" /\ w' \in WriterRecord /\ w'.pc \in {"idle", "collect", "boot"}
  /\ w'.pc = "collect" => w'.todo \subseteq gc'
  /\ w'.pc = "boot" => w'.kind = "boot"
  /\ w'.kind = "delete" => w'.c \in Conns
  /\ item' = item /\ lock' = lock /\ gets' = gets /\ rd' = rd /\ tail' = tail
  /\ upset' = upset /\ lapsed' = lapsed /\ calls' \in Nat /\ faults' \in Nat
  /\ row' \in [Conns -> Rows] /\ conns' \in [Conns -> Rows]
  /\ session' \in [Conns -> Endpoints \cup {None}]
  /\ gc' \subseteq Accounts /\ raced' \subseteq Readers /\ stale' \subseteq Conns
  /\ cache' \in [Accounts -> Secrets] /\ \A a \in Accounts : cache'[a] \in Vals(a) \cup {None}

\* What a row refers to now was referred to before, or is safely stored.
StoredBefore ==
  \A a \in Accounts : Referenced(a)' =>
    \/ Referenced(a)
    \/ /\ item[a] # None /\ lock[a] = None
       /\ gets[a] # None /\ gets[a].read => gets[a].val # None

\* What is in the keychain is used or queued.
KnownNow ==
  \A a \in Accounts : (item[a] # None \/ (lock[a] # None /\ lock[a].op = "put")) =>
    Referenced(a)' \/ a \in gc' \/ a \in lapsed'

(* A writer that changes rows keeps the invariant when what they refer to  *)
(* is stored.                                                              *)
LEMMA ChangesRowsStep ==
  ASSUME Inv, ChangesRows, StoredBefore, KnownNow, TablesAgree', Starting',
         PasswordsFit', CacheFits'
  PROVE  Inv'
<1>1. /\ TablesType /\ SecretsType /\ ReadersType /\ WriterType /\ TablesAgree
      /\ Starting /\ LocksHeard /\ SecretsKept /\ WritesKept /\ OldIsKnown
      /\ SecretsKnown /\ PasswordsFit /\ CacheFits
  BY DEF Inv, TypeOK
<1>2. TablesType'
  BY <1>1 DEF ChangesRows, TablesType
<1>3. SecretsType'
  BY <1>1 DEF ChangesRows, SecretsType
<1>4. ReadersType'
  BY <1>1 DEF ChangesRows, ReadersType
<1>5. WriterType'
  BY <1>1 DEF ChangesRows, WriterType, WriterShape, For, Own, Calling, Answers
<1>6. LocksHeard'
  BY <1>1 DEF ChangesRows, LocksHeard
<1>7. SecretsKept'
  BY <1>1, NoneIsNoRecord DEF ChangesRows, StoredBefore, SecretsKept, Calling
<1>8. WritesKept'
  BY <1>1 DEF ChangesRows, WritesKept, PutDone, Verified
<1>9. OldIsKnown'
  BY <1>1 DEF ChangesRows, OldIsKnown, Changing, For, Calling
<1>10. SecretsKnown'
  BY <1>1 DEF ChangesRows, KnownNow, SecretsKnown, Owned, Collects, Busy, Changing, For,
     Calling
<1> QED
  BY <1>2, <1>3, <1>4, <1>5, <1>6, <1>7, <1>8, <1>9, <1>10 DEF Inv, TypeOK

(* A writer that was not changing a password, and keeps the cache, has     *)
(* nothing to put right when it lets go.                                   *)
LEMMA PlainlyGone ==
  ASSUME Inv, cache' = cache, raced' = raced, stale' = stale,
         \A c \in Conns : Changing(w) /\ w.c = c => ~Referenced(<<c, "password">>)
  PROVE  /\ cache' \in [Accounts -> Secrets] /\ \A a \in Accounts : cache'[a] \in {None, cache[a]}
         /\ raced' \subseteq Readers /\ stale' \subseteq Conns /\ FitsAfter /\ ForgottenAfter
  BY DEF Inv, TypeOK, SecretsType, TablesType, FitsAfter, ForgottenAfter

(* The record of the writer once it collects.                              *)
LEMMA CollectingRecord ==
  ASSUME NEW x \in WriterRecord, gc' \subseteq Accounts, NEW y, y = Collecting(x)
  PROVE  /\ y \in WriterRecord /\ y.pc = "collect" /\ y.todo = gc' /\ y.kind = x.kind /\ y.c = x.c
         /\ y.a = x.a
  BY DEF Collecting, WriterRecord

(* The record of the writer once it asks the keychain.                     *)
LEMMA AskingRecord ==
  ASSUME NEW x \in WriterRecord, NEW op \in {"put", "delete", "get"}, NEW a \in Accounts,
         NEW val \in Secrets, NEW next \in Answers, NEW y, y = Asking(x, op, a, val, next)
  PROVE  /\ y \in WriterRecord /\ SameSave(x, y) /\ y.old = x.old /\ y.todo = x.todo
         /\ y.op = op /\ y.a = a /\ y.val = val /\ y.next = next
         /\ op = "get" => y.pc = "ask"
         /\ op # "get" => y.pc = "want"
<1>1. PICK pc : pc = IF op = "get" THEN "ask" ELSE "want"
  OBVIOUS
<1>2. pc \in Calling /\ (op = "get" => pc = "ask") /\ (op # "get" => pc = "want")
  BY <1>1 DEF Calling
<1>3. y = [x EXCEPT !.pc = pc, !.op = op, !.a = a, !.val = val, !.next = next]
  BY <1>1 DEF Asking
<1>4. /\ y.kind = x.kind /\ y.c = x.c /\ y.auth = x.auth /\ y.ep = x.ep /\ y.typed = x.typed
      /\ y.new = x.new /\ y.old = x.old /\ y.todo = x.todo
      /\ y.op = op /\ y.a = a /\ y.val = val /\ y.next = next /\ y.pc = pc
  BY <1>3 DEF WriterRecord
<1>5. y \in WriterRecord
  BY <1>2, <1>3, ZenonT(60) DEF WriterRecord
<1> QED
  BY <1>2, <1>4, <1>5 DEF SameSave

(* Nobody's record.                                                        *)
LEMMA IdleRecord ==
  /\ Idle \in WriterRecord /\ Idle.pc = "idle" /\ Idle.kind = None /\ Idle.typed = FALSE
  /\ Idle.new = FALSE
  /\ None \notin {"boot", "save", "delete", "passphrase"}
  BY CredentialsAssumption DEF Idle, WriterRecord, Secrets


Started(i, kind, c) == [i EXCEPT !.kind = kind, !.c = c]

(* The record of an operation that starts.                                 *)
LEMMA StartedRecord ==
  ASSUME NEW i \in WriterRecord, NEW kind \in {"save", "delete", "passphrase"}, NEW c \in Conns,
         NEW x, x = Started(i, kind, c)
  PROVE  /\ x \in WriterRecord /\ x.kind = kind /\ x.c = c
         /\ x.new = i.new /\ x.typed = i.typed /\ x.old = i.old
  BY DEF WriterRecord, Started


(* The hourly round of runSecretGC starts.                                 *)
LEMMA TickStep ==
  ASSUME Inv, Tick
  PROVE  Inv'
<1>1. /\ TablesType /\ SecretsType /\ ReadersType /\ WriterType /\ TablesAgree
      /\ Starting /\ LocksHeard /\ SecretsKept /\ WritesKept /\ OldIsKnown
      /\ SecretsKnown /\ PasswordsFit /\ CacheFits
  BY DEF Inv, TypeOK
<1>2. /\ w.pc = "idle" /\ row' = row /\ gc' = gc /\ item' = item /\ lock' = lock /\ gets' = gets
      /\ conns' = conns /\ session' = session /\ cache' = cache /\ rd' = rd /\ tail' = tail
      /\ faults' = faults /\ lapsed' = lapsed /\ upset' = upset /\ raced' = raced /\ stale' = stale
      /\ w' = Collecting(Idle) /\ calls' \in Nat
  BY <1>1 DEF store, keychain, memory, ghosts, Tick, Call, TablesType
<1>3. ~Changing(w) /\ ~Busy(w)
  BY <1>2 DEF Changing, Busy, For, Calling
<1>4. w' \in WriterRecord /\ w'.pc = "collect" /\ w'.todo = gc' /\ w'.kind = None
  BY <1>1, <1>2, CollectingRecord, IdleRecord DEF TablesType
<1>5. LetsGo /\ FitsAfter /\ ForgottenAfter
  BY <1>1, <1>2, <1>3, <1>4, PlainlyGone, IdleRecord DEF LetsGo, TablesType
<1>6. KnownAfter
  BY <1>1, <1>2, <1>3 DEF KnownAfter, SecretsKnown, Owned
<1> QED
  BY <1>5, <1>6, LetsGoStep

(* A round drops what is referenced again, asks for the deletion of the    *)
(* rest, and ends.                                                         *)
LEMMA CollectStep ==
  ASSUME Inv, Collect
  PROVE  Inv'
<1>1. /\ TablesType /\ SecretsType /\ ReadersType /\ WriterType /\ TablesAgree
      /\ Starting /\ LocksHeard /\ SecretsKept /\ WritesKept /\ OldIsKnown
      /\ SecretsKnown /\ PasswordsFit /\ CacheFits
  BY DEF Inv, TypeOK
<1>2. /\ w.pc = "collect" /\ row' = row /\ item' = item /\ lock' = lock /\ gets' = gets
      /\ conns' = conns /\ session' = session /\ cache' = cache /\ rd' = rd /\ tail' = tail
      /\ calls' = calls /\ faults' = faults /\ lapsed' = lapsed /\ upset' = upset
      /\ raced' = raced /\ stale' = stale
  BY DEF store, keychain, memory, ghosts, Collect
<1>3. /\ ~Changing(w) /\ ~Busy(w) /\ Collects(w) /\ w.todo \subseteq gc /\ w \in WriterRecord
      /\ w.todo \subseteq Accounts
  BY <1>1, <1>2 DEF Changing, Busy, For, Calling, Collects, SecretsKnown, WriterType,
     WriterRecord
<1>4. ASSUME NEW a \in w.todo, Referenced(a), gc' = gc \ {a}, w' = [w EXCEPT !.todo = @ \ {a}]
      PROVE  Inv'
  <2>1. w' \in WriterRecord /\ w'.pc = "collect" /\ w'.todo = w.todo \ {a} /\ w'.kind = w.kind /\ w'.c = w.c
    BY <1>2, <1>3, <1>4 DEF WriterRecord, Calling
  <2>2. LetsGo /\ FitsAfter /\ ForgottenAfter
    BY <1>1, <1>2, <1>3, <1>4, <2>1, PlainlyGone DEF LetsGo, TablesType, WriterType, WriterShape
  <2>3. KnownAfter
    BY <1>1, <1>2, <1>3, <1>4 DEF KnownAfter, SecretsKnown, Owned
  <2> QED
    BY <2>2, <2>3, LetsGoStep
<1>5. ASSUME NEW a \in w.todo, ~Referenced(a), gc' = gc, w' = Asking(w, "delete", a, None, "collected")
      PROVE  Inv'
  <2>1. /\ w' \in WriterRecord /\ w'.pc = "want" /\ w'.op = "delete" /\ w'.a = a
        /\ w'.next = "collected" /\ w'.todo = w.todo /\ w'.kind = w.kind /\ w'.c = w.c
    <3>1. a \in Accounts /\ "delete" \in {"put", "delete", "get"} /\ None \in Secrets /\ "collected" \in Answers
      BY <1>3, <1>5 DEF Secrets, Answers
    <3> QED
      BY <1>3, <1>5, <3>1, AskingRecord DEF SameSave
  <2>2. WriterShape(w')
    BY <1>1, <1>5, <2>1 DEF WriterType, WriterShape, For, Calling, Answers
  <2>3. TurnsTo
    BY <1>1, <1>2, <1>3, <1>5, <2>1, <2>2 DEF TurnsTo, TablesType
  <2>4. Starting'
    BY <1>1, <1>2, <2>1 DEF Starting, For, Calling
  <2>5. OldIsKnown'
    BY <2>1 DEF OldIsKnown, Changing, For, Calling
  <2> QED
    BY <2>3, <2>4, <2>5, TurnsToStep
<1>6. ASSUME gc' = gc, w' = [w EXCEPT !.pc = "end"]
      PROVE  Inv'
  <2>1. w' \in WriterRecord /\ w'.pc = "end" /\ w'.kind = w.kind /\ w'.c = w.c
    BY <1>3, <1>6 DEF WriterRecord, Calling
  <2>2. LetsGo /\ FitsAfter /\ ForgottenAfter
    BY <1>1, <1>2, <1>3, <1>6, <2>1, PlainlyGone DEF LetsGo, TablesType, WriterType, WriterShape
  <2>3. KnownAfter
    BY <1>1, <1>2, <1>3, <1>6 DEF KnownAfter, SecretsKnown, Owned
  <2> QED
    BY <2>2, <2>3, LetsGoStep
<1> QED
  BY <1>4, <1>5, <1>6 DEF Collect

(* An account leaves the queue once its item is deleted.                   *)
LEMMA CollectedStep ==
  ASSUME Inv, Collected
  PROVE  Inv'
<1>1. /\ TablesType /\ SecretsType /\ ReadersType /\ WriterType /\ TablesAgree
      /\ Starting /\ LocksHeard /\ SecretsKept /\ WritesKept /\ OldIsKnown
      /\ SecretsKnown /\ PasswordsFit /\ CacheFits
  BY DEF Inv, TypeOK
<1>2. /\ w.pc = "collected" /\ row' = row /\ item' = item /\ lock' = lock /\ gets' = gets
      /\ conns' = conns /\ session' = session /\ cache' = cache /\ rd' = rd /\ tail' = tail
      /\ calls' = calls /\ faults' = faults /\ lapsed' = lapsed /\ upset' = upset
      /\ raced' = raced /\ stale' = stale
  BY DEF store, keychain, memory, ghosts, Collected
<1>3. /\ ~Changing(w) /\ ~Busy(w) /\ Collects(w) /\ w.todo \subseteq gc /\ w \in WriterRecord
      /\ w.todo \subseteq Accounts /\ w.op = "delete"
  BY <1>1, <1>2 DEF Changing, Busy, For, Calling, Collects, SecretsKnown, WriterType,
     WriterRecord, WriterShape
<1>4. CASE w.res = "ok"
  <2>1. gc' = gc \ {w.a} /\ w' = [w EXCEPT !.pc = "collect", !.todo = @ \ {w.a}]
    BY <1>4 DEF Collected
  <2>2. w' \in WriterRecord /\ w'.pc = "collect" /\ w'.todo = w.todo \ {w.a} /\ w'.kind = w.kind /\ w'.c = w.c
    BY <1>3, <2>1 DEF WriterRecord, Calling
  <2>3. LetsGo /\ FitsAfter /\ ForgottenAfter
    BY <1>1, <1>2, <1>3, <2>1, <2>2, PlainlyGone DEF LetsGo, TablesType, WriterType, WriterShape
  <2>4. lock[w.a] = None /\ item[w.a] = None
    BY <1>1, <1>2, <1>3, <1>4 DEF WritesKept
  <2>5. KnownAfter
    BY <1>1, <1>2, <1>3, <2>1, <2>4 DEF KnownAfter, SecretsKnown, Owned
  <2> QED
    BY <2>3, <2>5, LetsGoStep
<1>5. CASE w.res # "ok"
  <2>1. gc' = gc /\ w' = [w EXCEPT !.pc = "end"]
    BY <1>5 DEF Collected
  <2>2. w' \in WriterRecord /\ w'.pc = "end" /\ w'.kind = w.kind /\ w'.c = w.c
    BY <1>3, <2>1 DEF WriterRecord, Calling
  <2>3. LetsGo /\ FitsAfter /\ ForgottenAfter
    BY <1>1, <1>2, <1>3, <2>1, <2>2, PlainlyGone DEF LetsGo, TablesType, WriterType, WriterShape
  <2>4. KnownAfter
    BY <1>1, <1>2, <1>3, <2>1 DEF KnownAfter, SecretsKnown, Owned
  <2> QED
    BY <2>3, <2>4, LetsGoStep
<1> QED
  BY <1>4, <1>5

(* prepareSecretRollback: the old password is known before it is           *)
(* overwritten.                                                            *)
LEMMA GotOldStep ==
  ASSUME Inv, GotOld
  PROVE  Inv'
<1>1. /\ TablesType /\ SecretsType /\ ReadersType /\ WriterType /\ TablesAgree
      /\ Starting /\ LocksHeard /\ SecretsKept /\ WritesKept /\ OldIsKnown
      /\ SecretsKnown /\ PasswordsFit /\ CacheFits
  BY DEF Inv, TypeOK
<1>2. /\ w.pc = "gotOld" /\ gc' = gc /\ cache' = cache /\ calls' = calls /\ faults' = faults
      /\ lapsed' = lapsed /\ raced' = raced /\ stale' = stale
      /\ row' = row /\ item' = item /\ lock' = lock /\ gets' = gets
      /\ conns' = conns /\ session' = session /\ rd' = rd /\ tail' = tail /\ upset' = upset
  BY DEF store, keychain, memory, ghosts, GotOld
<1>3. /\ ~Changing(w) /\ ~Busy(w) /\ w \in WriterRecord /\ w.kind = "save" /\ w.typed /\ ~w.new
      /\ w.ep \in Endpoints /\ w.auth = "password" /\ Own(w) /\ w.res \in {"ok", "down", "big"}
  BY <1>1, <1>2 DEF Changing, Busy, For, Calling, Answers, WriterType, WriterShape
<1>4. CASE w.res # "ok"
  <2>1. w' = Collecting(w)
    BY <1>4 DEF GotOld
  <2>2. w' \in WriterRecord /\ w'.pc = "collect" /\ w'.todo = gc' /\ w'.kind = w.kind
    BY <1>1, <1>2, <1>3, <2>1, CollectingRecord DEF TablesType
  <2>3. LetsGo /\ FitsAfter /\ ForgottenAfter
    BY <1>1, <1>2, <1>3, <2>2, PlainlyGone DEF LetsGo, TablesType
  <2>4. KnownAfter
    BY <1>1, <1>2, <1>3 DEF KnownAfter, SecretsKnown, Owned
  <2> QED
    BY <2>3, <2>4, LetsGoStep
<1>5. CASE w.res = "ok"
  <2>1. PICK x : x = [w EXCEPT !.old = w.got]
    OBVIOUS
  <2>2. /\ w.got \in Endpoints \cup {None}
        /\ w.got = None => ~Referenced(w.a)
        /\ w.got # None => Owned(w.a)
        /\ w.c \notin upset /\ Referenced(w.a) => w.got = row[w.c].ep
    BY <1>1, <1>2, <1>5 DEF OldIsKnown
  <2>3. /\ x \in WriterRecord /\ SameSave(w, x) /\ x.old = w.got /\ x.todo = w.todo
    BY <1>3, <2>1, <2>2 DEF WriterRecord, SameSave
  <2>4. w' = Asking(x, "put", w.a, w.ep, "stored")
    BY <1>5, <2>1 DEF GotOld
  <2>5. /\ w.a \in Accounts /\ w.ep \in Secrets /\ "stored" \in Answers
        /\ "put" \in {"put", "delete", "get"} /\ w.a = <<w.c, "password">> /\ w.c \in Conns
    BY <1>1, <1>3, OwnFacts DEF Answers, Secrets
  <2>6. /\ w' \in WriterRecord /\ SameSave(w, w') /\ w'.old = w.got /\ w'.todo = w.todo
        /\ w'.op = "put" /\ w'.a = w.a /\ w'.val = w.ep /\ w'.next = "stored" /\ w'.pc = "want"
    BY <2>3, <2>4, <2>5, AskingRecord DEF SameSave
  <2>7. WriterShape(w') /\ Changing(w') /\ Busy(w') /\ ~Collects(w')
    BY <1>3, <2>5, <2>6 DEF SameSave, WriterShape, For, Own, Calling, Answers, Changing,
       Busy, Collects
  <2>8. TurnsTo
    BY <1>1, <1>2, <1>3, <2>6, <2>7 DEF TurnsTo, TablesType
  <2>9. Starting'
    BY <1>1, <1>2, <1>3, <2>6 DEF SameSave, Starting, For, Calling
  <2>10. OldIsKnown'
    BY <1>2, <1>3, <2>2, <2>6 DEF SameSave, OldIsKnown, Owned, Referenced
  <2> QED
    BY <2>8, <2>9, <2>10, TurnsToStep
<1> QED
  BY <1>3, <1>4, <1>5

(* The rollback of a failed save starts.                                   *)
LEMMA UndoStep ==
  ASSUME Inv, w.pc \in {"stored", "row"}, w.typed, ~w.new, w' = Undo(w),
         gc' = gc, cache' = cache, calls' = calls, faults' \in Nat, lapsed' = lapsed, raced' = raced, stale' = stale,
         row' = row, item' = item, lock' = lock, gets' = gets, conns' = conns, session' = session,
         rd' = rd, tail' = tail, upset' = upset
  PROVE  Inv'
<1>1. /\ TablesType /\ SecretsType /\ ReadersType /\ WriterType /\ TablesAgree
      /\ Starting /\ LocksHeard /\ SecretsKept /\ WritesKept /\ OldIsKnown
      /\ SecretsKnown /\ PasswordsFit /\ CacheFits
  BY DEF Inv, TypeOK
<1>2. /\ Changing(w) /\ w \in WriterRecord /\ w.kind = "save" /\ Own(w) /\ w.old \in Endpoints \cup {None}
  BY <1>1 DEF Changing, For, WriterType, WriterShape, WriterRecord
<1>3. /\ w.a \in Accounts /\ w.old \in Secrets /\ "restored" \in Answers /\ None \in Secrets
      /\ "put" \in {"put", "delete", "get"} /\ "delete" \in {"put", "delete", "get"}
      /\ w.a = <<w.c, "password">> /\ w.c \in Conns
  BY <1>1, <1>2, OwnFacts DEF Answers, Secrets
<1>4. /\ w' \in WriterRecord /\ SameSave(w, w') /\ w'.old = w.old /\ w'.todo = w.todo
      /\ w'.a = w.a /\ w'.next = "restored" /\ w'.pc = "want"
      /\ w.old = None => w'.op = "delete"
      /\ w.old # None => w'.op = "put" /\ w'.val = w.old
  <2>1. CASE w.old # None
    <3>1. w' = Asking(w, "put", w.a, w.old, "restored")
      BY <2>1 DEF Undo
    <3> QED
      BY <1>2, <1>3, <2>1, <3>1, AskingRecord, SMTT(30)
  <2>2. CASE w.old = None
    <3>1. w' = Asking(w, "delete", w.a, None, "restored")
      BY <2>2 DEF Undo
    <3> QED
      BY <1>2, <1>3, <2>2, <3>1, AskingRecord
  <2> QED
    BY <2>1, <2>2
<1>5. WriterShape(w') /\ Changing(w') /\ Busy(w') /\ ~Collects(w')
  BY <1>2, <1>3, <1>4 DEF SameSave, WriterShape, For, Own, Calling, Answers, Changing, Busy,
     Collects
<1>6. /\ w.old = None => ~Referenced(w.a)
      /\ w.old # None => Owned(w.a)
      /\ w.c \notin upset /\ Referenced(w.a) => w.old = row[w.c].ep
  BY <1>1, <1>2 DEF OldIsKnown
<1>7. TurnsTo
  BY <1>1, <1>2, <1>4, <1>5, <1>6 DEF TurnsTo, TablesType, SameSave
<1>8. Starting'
  BY <1>1, <1>2, <1>4 DEF SameSave, Starting, For, Calling
<1>9. OldIsKnown'
  BY <1>4, <1>6 DEF SameSave, OldIsKnown, Owned, Referenced
<1> QED
  BY <1>7, <1>8, <1>9, TurnsToStep

(* A failed save of a new connection queues the item it may have written,  *)
(* unless the queue cannot be written.                                     *)
LEMMA FailedNewStep ==
  ASSUME Inv, w.pc \in {"stored", "row"}, w.typed, w.new, w' = Collecting(w),
         \/ gc' = gc \cup {w.a} /\ lapsed' = lapsed
         \/ gc' = gc /\ lapsed' = lapsed \cup {w.a},
         cache' = cache, calls' = calls, faults' \in Nat, raced' = raced, stale' = stale,
         row' = row, item' = item, lock' = lock, gets' = gets, conns' = conns, session' = session,
         rd' = rd, tail' = tail, upset' = upset
  PROVE  Inv'
<1>1. /\ TablesType /\ SecretsType /\ ReadersType /\ WriterType /\ TablesAgree
      /\ Starting /\ LocksHeard /\ SecretsKept /\ WritesKept /\ OldIsKnown
      /\ SecretsKnown /\ PasswordsFit /\ CacheFits
  BY DEF Inv, TypeOK
<1>2. /\ Changing(w) /\ w \in WriterRecord /\ w.kind = "save" /\ Own(w)
  BY <1>1 DEF Changing, For, WriterType, WriterShape
<1>3. w.a \in Accounts /\ w.a = <<w.c, "password">> /\ w.c \in Conns /\ w.a[1] = w.c
  BY <1>1, <1>2, OwnFacts
<1>4. ~Referenced(w.a)
  BY <1>1, <1>3, RowFacts DEF Starting, For, TablesType, Referenced
<1>5. w' \in WriterRecord /\ w'.pc = "collect" /\ w'.todo = gc' /\ w'.kind = w.kind
  BY <1>1, <1>2, <1>3, CollectingRecord DEF TablesType
<1>6. LetsGo /\ FitsAfter /\ ForgottenAfter
  BY <1>1, <1>2, <1>3, <1>4, <1>5, PlainlyGone DEF LetsGo, TablesType
<1>7. KnownAfter
  BY <1>1, <1>3 DEF KnownAfter, SecretsKnown, Owned
<1> QED
  BY <1>6, <1>7, LetsGoStep

(* A failed save without a password has nothing to take back.              *)
LEMMA FailedBlankStep ==
  ASSUME Inv, w.pc = "row", ~w.typed, w' = Collecting(w), gc' = gc, lapsed' = lapsed,
         cache' = cache, calls' = calls, faults' \in Nat, raced' = raced, stale' = stale,
         row' = row, item' = item, lock' = lock, gets' = gets, conns' = conns, session' = session,
         rd' = rd, tail' = tail, upset' = upset
  PROVE  Inv'
<1>1. /\ TablesType /\ SecretsType /\ ReadersType /\ WriterType /\ TablesAgree
      /\ Starting /\ LocksHeard /\ SecretsKept /\ WritesKept /\ OldIsKnown
      /\ SecretsKnown /\ PasswordsFit /\ CacheFits
  BY DEF Inv, TypeOK
<1>2. ~Changing(w) /\ ~Busy(w) /\ w \in WriterRecord /\ w.kind = "save"
  BY <1>1 DEF Changing, Busy, For, Calling, WriterType, WriterShape
<1>3. w' \in WriterRecord /\ w'.pc = "collect" /\ w'.todo = gc' /\ w'.kind = w.kind
  BY <1>1, <1>2, CollectingRecord DEF TablesType
<1>4. LetsGo /\ FitsAfter /\ ForgottenAfter
  BY <1>1, <1>2, <1>3, PlainlyGone DEF LetsGo, TablesType
<1>5. KnownAfter
  BY <1>1, <1>2 DEF KnownAfter, SecretsKnown, Owned
<1> QED
  BY <1>4, <1>5, LetsGoStep

(* What a failed save does about the item it may have written.             *)
LEMMA FailedSaveStep ==
  ASSUME Inv, NEW ok \in BOOLEAN, w.pc \in {"stored", "row"}, FailedSave(ok),
         cache' = cache, calls' = calls, raced' = raced, stale' = stale,
         row' = row, item' = item, lock' = lock, gets' = gets, conns' = conns, session' = session,
         rd' = rd, tail' = tail, upset' = upset
  PROVE  Inv'
<1>1. /\ TablesType /\ SecretsType /\ ReadersType /\ WriterType /\ TablesAgree
      /\ Starting /\ LocksHeard /\ SecretsKept /\ WritesKept /\ OldIsKnown
      /\ SecretsKnown /\ PasswordsFit /\ CacheFits
  BY DEF Inv, TypeOK
<1>2. w.typed \in BOOLEAN /\ w.new \in BOOLEAN /\ faults \in Nat /\ (w.pc = "stored" => w.typed)
  BY <1>1 DEF WriterType, WriterRecord, WriterShape, For, TablesType
<1>3. CASE w.typed /\ w.new
  <2>1. Enqueue(w.a, ok) /\ w' = Collecting(w)
    BY <1>3 DEF FailedSave
  <2>2. faults' \in Nat
    BY <1>2, <2>1 DEF Enqueue, FaultIf, Fault
  <2>3. \/ gc' = gc \cup {w.a} /\ lapsed' = lapsed
        \/ gc' = gc /\ lapsed' = lapsed \cup {w.a}
    BY <2>1 DEF Enqueue, Queued
  <2> QED
    BY <1>3, <2>1, <2>2, <2>3, FailedNewStep
<1>4. CASE w.typed /\ ~w.new
  <2>1. gc' = gc /\ lapsed' = lapsed /\ faults' = faults /\ w' = Undo(w)
    BY <1>4 DEF FailedSave
  <2> QED
    BY <1>2, <1>4, <2>1, UndoStep
<1>5. CASE ~w.typed
  <2>1. gc' = gc /\ lapsed' = lapsed /\ faults' = faults /\ w' = Collecting(w)
    BY <1>5 DEF FailedSave
  <2> QED
    BY <1>2, <1>5, <2>1, FailedBlankStep
<1> QED
  BY <1>2, <1>3, <1>4, <1>5

(* SaveRow does not happen: what was stored is taken back.                 *)
LEMMA SaveRowFailsStep ==
  ASSUME Inv, NEW ok \in BOOLEAN, SaveRowFails(ok)
  PROVE  Inv'
<1>1. /\ TablesType /\ SecretsType /\ ReadersType /\ WriterType /\ TablesAgree
      /\ Starting /\ LocksHeard /\ SecretsKept /\ WritesKept /\ OldIsKnown
      /\ SecretsKnown /\ PasswordsFit /\ CacheFits
  BY DEF Inv, TypeOK
<1>2. /\ w.pc = "row" /\ cache' = cache /\ calls' = calls /\ raced' = raced /\ stale' = stale
      /\ row' = row /\ item' = item /\ lock' = lock /\ gets' = gets
      /\ conns' = conns /\ session' = session /\ rd' = rd /\ tail' = tail /\ upset' = upset
  BY DEF store, keychain, memory, ghosts, SaveRowFails
<1>3. CASE FailedSave(ok)
  BY <1>2, <1>3, FailedSaveStep
<1>4. CASE /\ Fault /\ ok /\ UNCHANGED lapsed
           /\ gc' = IF w.typed /\ w.new THEN Queued(w.a) ELSE gc
           /\ w' = IF w.typed /\ ~w.new THEN Undo(w) ELSE Collecting(w)
  <2>1. faults' \in Nat /\ lapsed' = lapsed /\ w.typed \in BOOLEAN /\ w.new \in BOOLEAN
    BY <1>1, <1>4 DEF Fault, TablesType, WriterType, WriterRecord
  <2>2. CASE w.typed /\ w.new
    <3>1. gc' = gc \cup {w.a} /\ w' = Collecting(w)
      BY <1>4, <2>2 DEF Queued
    <3> QED
      BY <1>2, <2>1, <2>2, <3>1, FailedNewStep
  <2>3. CASE w.typed /\ ~w.new
    <3>1. gc' = gc /\ w' = Undo(w)
      BY <1>4, <2>3
    <3> QED
      BY <1>2, <2>1, <2>3, <3>1, UndoStep
  <2>4. CASE ~w.typed
    <3>1. gc' = gc /\ w' = Collecting(w)
      BY <1>4, <2>4
    <3> QED
      BY <1>2, <2>1, <2>4, <3>1, FailedBlankStep
  <2> QED
    BY <2>1, <2>2, <2>3, <2>4
<1> QED
  BY <1>3, <1>4 DEF SaveRowFails

(* The rollback is over: the old password is back or the item is queued,   *)
(* and the cache is forgotten.                                             *)
LEMMA RestoredStep ==
  ASSUME Inv, NEW ok \in BOOLEAN, Restored(ok)
  PROVE  Inv'
<1>1. /\ TablesType /\ SecretsType /\ ReadersType /\ WriterType /\ TablesAgree
      /\ Starting /\ LocksHeard /\ SecretsKept /\ WritesKept /\ OldIsKnown
      /\ SecretsKnown /\ PasswordsFit /\ CacheFits
  BY DEF Inv, TypeOK
<1>2. /\ w.pc = "restored" /\ calls' = calls /\ w' = Collecting(w)
      /\ cache' = Forgotten(w.c) /\ raced' = RacedBy(w.c) /\ stale' = stale \ {w.c}
      /\ row' = row /\ item' = item /\ lock' = lock /\ gets' = gets /\ conns' = conns
      /\ session' = session /\ rd' = rd /\ tail' = tail /\ upset' = upset
  BY DEF store, keychain, memory, ghosts, Restored
<1>3. /\ Changing(w) /\ w \in WriterRecord /\ w.kind = "save" /\ ~w.new /\ Own(w)
      /\ w.old = None => w.op = "delete"
      /\ w.old # None => w.op = "put"
      /\ w.res \in {"ok", "down", "big"}
  BY <1>1, <1>2 DEF Changing, For, WriterType, WriterShape, Answers
<1>4. w.a \in Accounts /\ w.a = <<w.c, "password">> /\ w.c \in Conns /\ w.a[1] = w.c
  BY <1>1, <1>3, OwnFacts
<1>5. /\ faults' \in Nat
      /\ \/ gc' = gc /\ lapsed' = lapsed /\ ~(w.old = None /\ w.res # "ok")
         \/ gc' = gc \cup {w.a} /\ lapsed' = lapsed
         \/ gc' = gc /\ lapsed' = lapsed \cup {w.a}
  BY <1>1 DEF Restored, Enqueue, Queued, FaultIf, Fault, TablesType
<1>6. w' \in WriterRecord /\ w'.pc = "collect" /\ w'.todo = gc' /\ w'.kind = w.kind
  BY <1>1, <1>2, <1>3, <1>4, <1>5, CollectingRecord DEF TablesType
<1>7. /\ cache' \in [Accounts -> Secrets] /\ raced' \subseteq Readers
      /\ \A a \in Accounts : cache'[a] \in {None, cache[a]} /\ (a[1] = w.c => cache'[a] = None)
      /\ raced \subseteq raced' /\ stale' = stale \ {w.c} /\ stale' \subseteq Conns
      /\ \A r \in Readers \ raced' : rd[r].c = w.c => rd[r].pc \notin {"waitGet", "keep"}
  BY <1>1, <1>2, <1>4, ForgottenFacts DEF TablesType
<1>8. LetsGo
  BY <1>1, <1>2, <1>3, <1>4, <1>5, <1>6, <1>7 DEF LetsGo, TablesType
<1>9. /\ w.old = None => ~Referenced(w.a)
      /\ w.old # None => Owned(w.a)
      /\ w.c \notin upset /\ Referenced(w.a) => w.old = row[w.c].ep
      /\ w.c \notin upset /\ w.old # None => item[w.a] = w.old
  BY <1>1, <1>2, <1>3 DEF OldIsKnown
<1>10. FitsAfter
  <2>1. w.c \notin upset /\ w.old # None /\ Late(w.a) => gets[w.a].val = item[w.a]
    BY <1>1, <1>2, <1>3 DEF PasswordsFit
  <2> QED
    BY <1>4, <1>9, <2>1 DEF FitsAfter
<1>11. ForgottenAfter
  BY <1>4, <1>7 DEF ForgottenAfter
<1>12. KnownAfter
  <2>1. w.old = None /\ w.res = "ok" => item[w.a] = None /\ lock[w.a] = None
    BY <1>1, <1>2, <1>3 DEF WritesKept
  <2>2. \A a \in Accounts : a # w.a /\ (item[a] # None \/ (lock[a] # None /\ lock[a].op = "put")) => Owned(a)
    BY <1>1 DEF SecretsKnown
  <2>3. gc \subseteq gc' /\ lapsed \subseteq lapsed'
    BY <1>5
  <2>4. (item[w.a] # None \/ (lock[w.a] # None /\ lock[w.a].op = "put")) =>
          Owned(w.a) \/ w.a \in gc' \/ w.a \in lapsed'
    BY <1>3, <1>5, <1>9, <2>1
  <2> QED
    BY <2>2, <2>3, <2>4 DEF KnownAfter, Owned
<1> QED
  BY <1>8, <1>10, <1>11, <1>12, LetsGoStep

(* The password is in the keychain; the row comes next.                    *)
LEMMA StoredWellStep ==
  ASSUME Inv, NEW ok \in BOOLEAN, Stored(ok), w.res = "ok"
  PROVE  Inv'
<1>1. /\ TablesType /\ SecretsType /\ ReadersType /\ WriterType /\ TablesAgree
      /\ Starting /\ LocksHeard /\ SecretsKept /\ WritesKept /\ OldIsKnown
      /\ SecretsKnown /\ PasswordsFit /\ CacheFits
  BY DEF Inv, TypeOK
<1>2. row' = row /\ gc' = gc /\ item' = item /\ lock' = lock /\ gets' = gets /\
      conns' = conns /\ session' = session /\ cache' = cache /\ rd' = rd /\ tail' = tail
      /\ calls' = calls /\ faults' = faults /\ lapsed' = lapsed /\ upset' = upset /\
      raced' = raced /\ stale' = stale
  BY DEF Stored, store, keychain, memory, ghosts
<1>3. w' \in WriterRecord /\ SameSave(w, w') /\ SameCall(w, w') /\ w'.pc = "row" /\
      w'.old = w.old /\ w'.todo = w.todo /\ w'.res = w.res /\ w'.got = w.got
  BY <1>1 DEF Stored, Secrets, WriterType, WriterRecord, Calling, Answers, SameSave,
     SameCall
<1>4. /\ w.pc = "stored" /\ w.kind = "save" /\ w.typed /\ Own(w) /\ w.op = "put"
      /\ w.val = w.ep /\ w.ep \in Endpoints /\ w.auth = "password" /\ w.auth \in Auths
  BY <1>1, AccountParts DEF Stored, WriterType, WriterShape, For
<1>5. TablesType'
  BY <1>1, <1>2 DEF TablesType
<1>6. SecretsType'
  BY <1>1, <1>2 DEF SecretsType, LockRecord, GetRecord
<1>7. ReadersType'
  BY <1>1, <1>2 DEF ReadersType, ReaderRecord
<1>8. WriterType'
  BY <1>1, <1>2, <1>3, <1>4 DEF WriterType, WriterShape, For, Own, Calling, Answers,
     SameSave, SameCall
<1>9. TablesAgree'
  BY <1>1, <1>2 DEF TablesAgree
<1>10. Starting'
  BY <1>1, <1>2, <1>3, <1>4 DEF Starting, For, Calling, SameSave, SameCall
<1>11. LocksHeard'
  BY <1>1, <1>2, <1>3, <1>4 DEF LocksHeard, SameSave, SameCall
<1>12. SecretsKept'
  BY <1>1, <1>2, <1>3, <1>4 DEF SecretsKept, Referenced, Calling, SameSave, SameCall
<1>13. WritesKept'
  BY <1>1, <1>2, <1>3, <1>4 DEF WritesKept, PutDone, Verified, Late, SameSave, SameCall
<1>14. OldIsKnown'
  BY <1>1, <1>2, <1>3, <1>4 DEF OldIsKnown, Changing, For, Owned, Referenced, Calling,
     SameSave, SameCall
<1>15. SecretsKnown'
  BY <1>1, <1>2, <1>3, <1>4 DEF SecretsKnown, Owned, Busy, Changing, For, Collects,
     Late, Referenced, Calling, SameSave, SameCall
<1>16. PasswordsFit'
  BY <1>1, <1>2, <1>3, <1>4 DEF PasswordsFit, Changing, For, Own, Late, Referenced,
     Calling, SameSave, SameCall
<1>17. CacheFits'
  BY <1>1, <1>2, <1>3, <1>4 DEF CacheFits, Steady, Password, Changing, For, Referenced,
     Calling, SameSave, SameCall
<1> QED
  BY <1>5, <1>6, <1>7, <1>8, <1>9, <1>10, <1>11, <1>12, <1>13, <1>14, <1>15, <1>16,
     <1>17 DEF Inv, TypeOK

(* The password is stored, or it failed.                                   *)
LEMMA StoredStep ==
  ASSUME Inv, NEW ok \in BOOLEAN, Stored(ok)
  PROVE  Inv'
<1>1. /\ TablesType /\ SecretsType /\ ReadersType /\ WriterType /\ TablesAgree
      /\ Starting /\ LocksHeard /\ SecretsKept /\ WritesKept /\ OldIsKnown
      /\ SecretsKnown /\ PasswordsFit /\ CacheFits
  BY DEF Inv, TypeOK
<1>2. CASE w.res = "ok"
  BY <1>2, StoredWellStep
<1>3. CASE w.res # "ok"
  <2>1. /\ w.pc = "stored" /\ cache' = cache /\ calls' = calls /\ raced' = raced /\ stale' = stale
        /\ row' = row /\ item' = item /\ lock' = lock /\ gets' = gets /\ conns' = conns
        /\ session' = session /\ rd' = rd /\ tail' = tail /\ upset' = upset /\ FailedSave(ok)
    BY <1>3 DEF store, keychain, memory, ghosts, Stored
  <2> QED
    BY <2>1, FailedSaveStep
<1> QED
  BY <1>2, <1>3

(* The passphrase opt-in writes its item.                                  *)
LEMMA BeginPassphraseStep ==
  ASSUME Inv, NEW c \in Conns, NEW k \in KeyPaths, BeginPassphrase(c, k)
  PROVE  Inv'
<1>1. /\ TablesType /\ SecretsType /\ ReadersType /\ WriterType /\ TablesAgree
      /\ Starting /\ LocksHeard /\ SecretsKept /\ WritesKept /\ OldIsKnown
      /\ SecretsKnown /\ PasswordsFit /\ CacheFits
  BY DEF Inv, TypeOK
<1>2. /\ w.pc = "idle" /\ gc' = gc /\ cache' = cache /\ faults' = faults /\ lapsed' = lapsed
      /\ raced' = raced /\ stale' = stale /\ calls' \in Nat /\ conns[c] # NoRow
      /\ row' = row /\ item' = item /\ lock' = lock /\ gets' = gets /\ conns' = conns
      /\ session' = session /\ rd' = rd /\ tail' = tail /\ upset' = upset
  BY <1>1 DEF store, keychain, memory, ghosts, BeginPassphrase, Call, TablesType
<1>3. PICK x : x = [Idle EXCEPT !.kind = "passphrase", !.c = c]
  OBVIOUS
<1>4. x \in WriterRecord /\ x.kind = "passphrase" /\ x.c = c /\ ~x.new
  <2>1. x \in WriterRecord /\ x.kind = "passphrase" /\ x.c = c /\ x.new = Idle.new
    <3>1. "passphrase" \in {"save", "delete", "passphrase"} /\ Idle \in WriterRecord
      BY IdleRecord
    <3>2. x = Started(Idle, "passphrase", c)
      BY <1>3 DEF Started
    <3> QED
      BY <3>1, <3>2, StartedRecord, SMTT(30)
  <2> QED
    BY <2>1, IdleRecord
<1>5. w' = Asking(x, "put", <<c, k>>, k, "passphrase")
  BY <1>3 DEF BeginPassphrase
<1>6. <<c, k>> \in Accounts /\ k \in Secrets /\ "passphrase" \in Answers /\ "put" \in {"put", "delete", "get"}
  BY AccountParts DEF Secrets, Answers
<1>7. /\ w' \in WriterRecord /\ w'.kind = "passphrase" /\ w'.c = c /\ ~w'.new /\ w'.op = "put"
      /\ w'.a = <<c, k>> /\ w'.val = k /\ w'.next = "passphrase" /\ w'.pc = "want"
  BY <1>4, <1>5, <1>6, AskingRecord DEF SameSave
<1>8. WriterShape(w') /\ ~Changing(w') /\ ~Collects(w') /\ ~Changing(w) /\ ~Busy(w)
  BY <1>2, <1>7 DEF WriterShape, For, Own, Calling, Answers, Changing, Busy, Collects
<1>9. TurnsTo
  BY <1>1, <1>2, <1>7, <1>8 DEF TurnsTo, TablesType
<1>10. Starting'
  BY <1>7 DEF Starting, For, Calling
<1>11. OldIsKnown'
  BY <1>7, <1>8 DEF OldIsKnown
<1> QED
  BY <1>9, <1>10, <1>11, TurnsToStep

(* migrateCredentialsToKeyring takes the next plaintext row, or is done.   *)
LEMMA MigrateStep ==
  ASSUME Inv, Migrate
  PROVE  Inv'
<1>1. /\ TablesType /\ SecretsType /\ ReadersType /\ WriterType /\ TablesAgree
      /\ Starting /\ LocksHeard /\ SecretsKept /\ WritesKept /\ OldIsKnown
      /\ SecretsKnown /\ PasswordsFit /\ CacheFits
  BY DEF Inv, TypeOK
<1>2. /\ w.pc = "boot" /\ gc' = gc /\ cache' = cache /\ faults' = faults /\ lapsed' = lapsed
      /\ raced' = raced /\ stale' = stale /\ calls' = calls
      /\ row' = row /\ item' = item /\ lock' = lock /\ gets' = gets /\ conns' = conns
      /\ session' = session /\ rd' = rd /\ tail' = tail /\ upset' = upset
  BY DEF store, keychain, memory, ghosts, Migrate
<1>3. w.kind = "boot" /\ w \in WriterRecord /\ ~Changing(w) /\ ~Busy(w)
  BY <1>1, <1>2 DEF WriterType, WriterShape, Changing, Busy, For, Calling
<1>4. ASSUME NEW c \in Conns, Plain(c),
             w' = Asking([w EXCEPT !.c = c, !.todo = @ \ {<<c, "password">>}],
                         "put", <<c, "password">>, row[c].col, "migrated")
      PROVE  Inv'
  <2>1. PICK x : x = [w EXCEPT !.c = c, !.todo = w.todo \ {<<c, "password">>}]
    OBVIOUS
  <2>2. x \in WriterRecord /\ x.kind = "boot" /\ x.c = c
    BY <1>3, <2>1 DEF WriterRecord
  <2>3. row[c].auth = "password" /\ row[c].col = row[c].ep /\ row[c].col \in Endpoints
    BY <1>1, <1>4, RowFacts DEF Plain, TablesType
  <2>4. /\ <<c, "password">> \in Accounts /\ row[c].col \in Secrets /\ "migrated" \in Answers
        /\ "put" \in {"put", "delete", "get"}
    BY <2>3, AccountParts DEF Secrets, Answers
  <2>5. /\ w' \in WriterRecord /\ w'.kind = "boot" /\ w'.c = c /\ w'.op = "put"
        /\ w'.a = <<c, "password">> /\ w'.val = row[c].col /\ w'.next = "migrated" /\ w'.pc = "want"
    <3>1. w' = Asking(x, "put", <<c, "password">>, row[c].col, "migrated")
      BY <1>4, <2>1
    <3> QED
      BY <2>2, <2>4, <3>1, AskingRecord DEF SameSave
  <2>6. WriterShape(w') /\ ~Changing(w') /\ ~Collects(w')
    BY <2>3, <2>5 DEF WriterShape, For, Own, Calling, Answers, Changing, Collects
  <2>7. TurnsTo
    BY <1>1, <1>2, <1>3, <2>5, <2>6 DEF TurnsTo, TablesType
  <2>8. Starting'
    BY <1>1, <1>2, <1>3, <2>3, <2>5 DEF Starting, For, Calling
  <2>9. OldIsKnown'
    BY <2>5, <2>6 DEF OldIsKnown
  <2> QED
    BY <2>7, <2>8, <2>9, TurnsToStep
<1>5. ASSUME w' = Collecting(w)
      PROVE  Inv'
  <2>1. w' \in WriterRecord /\ w'.pc = "collect" /\ w'.todo = gc' /\ w'.kind = w.kind
    BY <1>1, <1>2, <1>3, <1>5, CollectingRecord DEF TablesType
  <2>2. LetsGo /\ FitsAfter /\ ForgottenAfter
    BY <1>1, <1>2, <1>3, <2>1, PlainlyGone DEF LetsGo, TablesType
  <2>3. KnownAfter
    BY <1>1, <1>2, <1>3 DEF KnownAfter, SecretsKnown, Owned
  <2> QED
    BY <2>2, <2>3, LetsGoStep
<1> QED
  BY <1>4, <1>5 DEF Migrate, Pending

(* A migrated password that could not be stored, or not for sure, or whose *)
(* row SQLite refused, keeps its column.                                   *)
LEMMA MigratedNotStep ==
  ASSUME Inv, NEW ok \in BOOLEAN, Migrated(ok), ~(w.res = "ok" /\ ok)
  PROVE  Inv'
<1>1. /\ TablesType /\ SecretsType /\ ReadersType /\ WriterType /\ TablesAgree
      /\ Starting /\ LocksHeard /\ SecretsKept /\ WritesKept /\ OldIsKnown
      /\ SecretsKnown /\ PasswordsFit /\ CacheFits
  BY DEF Inv, TypeOK
<1>2. /\ w.pc = "migrated" /\ gc' = gc /\ cache' = cache
      /\ raced' = raced /\ stale' = stale /\ calls' = calls /\ lapsed' = lapsed \cup {w.a}
      /\ w' = Collecting(w) \/ w' = [w EXCEPT !.pc = "boot"]
      /\ row' = row /\ item' = item /\ lock' = lock /\ gets' = gets /\ conns' = conns
      /\ session' = session /\ rd' = rd /\ tail' = tail /\ upset' = upset
  BY DEF store, keychain, memory, ghosts, Migrated, MayClear
<1>3. faults' \in Nat
  BY <1>1 DEF Migrated, MayClear, Fault, TablesType
<1>4. w.kind = "boot" /\ w \in WriterRecord /\ ~Changing(w) /\ w.a \in Accounts
  BY <1>1, <1>2, CallFacts DEF WriterType, WriterShape, Changing, For, Calling, Answers
<1>5. /\ w' \in WriterRecord /\ w'.pc \in {"collect", "boot"} /\ w'.kind = w.kind
      /\ w'.pc = "collect" => w'.todo = gc'
  <2>1. CASE w' = Collecting(w)
    BY <1>1, <1>2, <1>4, <2>1, CollectingRecord DEF TablesType
  <2>2. CASE w' = [w EXCEPT !.pc = "boot"]
    BY <1>4, <2>2 DEF WriterRecord
  <2> QED
    BY <1>2, <2>1, <2>2
<1>6. LetsGo /\ FitsAfter /\ ForgottenAfter
  BY <1>1, <1>2, <1>3, <1>4, <1>5, PlainlyGone DEF LetsGo, TablesType
<1>7. KnownAfter
  BY <1>1, <1>2, <1>4 DEF KnownAfter, SecretsKnown, Owned
<1> QED
  BY <1>6, <1>7, LetsGoStep

(* The passphrase was not stored, or its row no longer has the key path.   *)
LEMMA PassphraseNotStep ==
  ASSUME Inv, NEW ok \in BOOLEAN, PassphraseStored(ok),
         ~(w.res = "ok" /\ setPassphraseSaved(w.a) /\ ok)
  PROVE  Inv'
<1>1. /\ TablesType /\ SecretsType /\ ReadersType /\ WriterType /\ TablesAgree
      /\ Starting /\ LocksHeard /\ SecretsKept /\ WritesKept /\ OldIsKnown
      /\ SecretsKnown /\ PasswordsFit /\ CacheFits
  BY DEF Inv, TypeOK
<1>2. /\ w.pc = "passphrase" /\ cache' = cache /\ raced' = raced /\ stale' = stale /\ calls' = calls
      /\ \/ w' = Idle /\ gc' = gc /\ lapsed' = lapsed \cup {w.a} /\ faults' = faults
         \/ w' = Collecting(w) /\ Enqueue(w.a, ok)
      /\ row' = row /\ item' = item /\ lock' = lock /\ gets' = gets /\ conns' = conns
      /\ session' = session /\ rd' = rd /\ tail' = tail /\ upset' = upset
  BY DEF store, keychain, memory, ghosts, PassphraseStored
<1>3. /\ \/ gc' = gc \cup {w.a} /\ lapsed' = lapsed
         \/ gc' = gc /\ lapsed' = lapsed \cup {w.a}
      /\ faults' \in Nat
  BY <1>1, <1>2 DEF Enqueue, Queued, FaultIf, Fault, TablesType
<1>4. w.kind = "passphrase" /\ w \in WriterRecord /\ ~Changing(w) /\ w.a \in Accounts
  BY <1>1, <1>2, CallFacts DEF WriterType, WriterShape, Changing, For, Calling, Answers
<1>5. /\ w' \in WriterRecord /\ w'.pc \in {"idle", "collect"} /\ w'.kind \in {None, "passphrase"}
      /\ w'.pc = "collect" => w'.todo = gc'
  <2>1. gc' \subseteq Accounts
    BY <1>1, <1>3, <1>4 DEF TablesType
  <2> QED
    BY <1>2, <1>4, <2>1, CollectingRecord, IdleRecord
<1>6. LetsGo /\ FitsAfter /\ ForgottenAfter
  BY <1>1, <1>2, <1>3, <1>4, <1>5, PlainlyGone, IdleRecord DEF LetsGo, TablesType
<1>7. KnownAfter
  BY <1>1, <1>2, <1>3, <1>4 DEF KnownAfter, SecretsKnown, Owned
<1> QED
  BY <1>6, <1>7, LetsGoStep

(* SaveConnection with a password for a new connection writes the          *)
(* keychain.                                                               *)
LEMMA BeginNewStep ==
  ASSUME Inv, NEW c \in Conns, NEW ep \in Endpoints, NEW x \in WriterRecord,
         x.kind = "save", x.c = c, x.auth = "password", x.ep = ep, x.typed, x.new,
         w' = Asking(x, "put", <<c, "password">>, ep, "stored"), row[c] = NoRow, conns[c] = NoRow,
         w.pc = "idle", gc' = gc, cache' = cache, faults' = faults, lapsed' = lapsed,
         raced' = raced, stale' = stale, calls' \in Nat,
         row' = row, item' = item, lock' = lock, gets' = gets, conns' = conns, session' = session,
         rd' = rd, tail' = tail, upset' = upset
  PROVE  Inv'
<1>1. /\ TablesType /\ SecretsType /\ ReadersType /\ WriterType /\ TablesAgree
      /\ Starting /\ LocksHeard /\ SecretsKept /\ WritesKept /\ OldIsKnown
      /\ SecretsKnown /\ PasswordsFit /\ CacheFits
  BY DEF Inv, TypeOK
<1>2. /\ <<c, "password">> \in Accounts /\ ep \in Secrets /\ None \in Secrets
      /\ "stored" \in Answers /\ "gotOld" \in Answers
      /\ "put" \in {"put", "delete", "get"} /\ "get" \in {"put", "delete", "get"}
  BY AccountParts DEF Secrets, Answers
<1>3. ~Changing(w) /\ ~Busy(w)
  BY DEF For, Calling, Changing, Busy
<1>4. /\ w' \in WriterRecord /\ SameSave(x, w') /\ w'.op = "put" /\ w'.a = <<c, "password">>
      /\ w'.val = ep /\ w'.next = "stored" /\ w'.pc = "want"
  <2>1. PICK p : p = <<c, "password">>
    OBVIOUS
  <2>2. /\ p \in Accounts /\ w' = Asking(x, "put", p, ep, "stored")
        /\ "put" \in {"put", "delete", "get"} /\ ep \in Secrets /\ "stored" \in Answers
    BY <1>2, <2>1
  <2> QED
    BY <2>1, <2>2, AskingRecord
<1>5. WriterShape(w') /\ ~Collects(w')
  BY <1>4, ZenonT(60) DEF SameSave, WriterShape, For, Own, Calling, Answers, Collects
<1>6. TurnsTo
  BY <1>1, <1>3, <1>4, <1>5 DEF TurnsTo, TablesType
<1>7. Starting'
  BY <1>4 DEF SameSave, Starting, For, Calling
<1>8. OldIsKnown'
  BY <1>4 DEF SameSave, OldIsKnown, Changing, For, Calling
<1> QED
  BY <1>6, <1>7, <1>8, TurnsToStep

(* SaveConnection with a password for a known connection reads the old     *)
(* one.                                                                    *)
LEMMA BeginOldStep ==
  ASSUME Inv, NEW c \in Conns, NEW ep \in Endpoints, NEW x \in WriterRecord,
         x.kind = "save", x.c = c, x.auth = "password", x.ep = ep, x.typed, ~x.new,
         w' = Asking(x, "get", <<c, "password">>, None, "gotOld"),
         w.pc = "idle", gc' = gc, cache' = cache, faults' = faults, lapsed' = lapsed,
         raced' = raced, stale' = stale, calls' \in Nat,
         row' = row, item' = item, lock' = lock, gets' = gets, conns' = conns, session' = session,
         rd' = rd, tail' = tail, upset' = upset
  PROVE  Inv'
<1>1. /\ TablesType /\ SecretsType /\ ReadersType /\ WriterType /\ TablesAgree
      /\ Starting /\ LocksHeard /\ SecretsKept /\ WritesKept /\ OldIsKnown
      /\ SecretsKnown /\ PasswordsFit /\ CacheFits
  BY DEF Inv, TypeOK
<1>2. /\ <<c, "password">> \in Accounts /\ ep \in Secrets /\ None \in Secrets
      /\ "stored" \in Answers /\ "gotOld" \in Answers
      /\ "put" \in {"put", "delete", "get"} /\ "get" \in {"put", "delete", "get"}
  BY AccountParts DEF Secrets, Answers
<1>3. ~Changing(w) /\ ~Busy(w)
  BY DEF For, Calling, Changing, Busy
<1>4. /\ w' \in WriterRecord /\ SameSave(x, w') /\ w'.op = "get" /\ w'.a = <<c, "password">>
      /\ w'.next = "gotOld" /\ w'.pc = "ask"
  <2>1. PICK p : p = <<c, "password">>
    OBVIOUS
  <2>2. /\ p \in Accounts /\ w' = Asking(x, "get", p, None, "gotOld")
        /\ "get" \in {"put", "delete", "get"} /\ None \in Secrets /\ "gotOld" \in Answers
    BY <1>2, <2>1
  <2> QED
    BY <2>1, <2>2, AskingRecord
<1>5. WriterShape(w') /\ ~Collects(w')
  BY <1>4 DEF SameSave, WriterShape, For, Own, Calling, Answers, Collects
<1>6. TurnsTo
  BY <1>1, <1>3, <1>4, <1>5 DEF TurnsTo, TablesType
<1>7. Starting'
  BY <1>4 DEF SameSave, Starting, For, Calling
<1>8. OldIsKnown'
  BY <1>4 DEF SameSave, OldIsKnown, Changing, For, Calling
<1> QED
  BY <1>6, <1>7, <1>8, TurnsToStep

(* SaveConnection starts: with a password it writes the keychain first,    *)
(* and reads the old one before it overwrites it.                          *)
LEMMA BeginSaveStep ==
  ASSUME Inv, NEW c \in Conns, NEW auth \in Auths, NEW ep \in Endpoints,
         NEW typed \in BOOLEAN, BeginSave(c, auth, ep, typed), typed
  PROVE  Inv'
<1>1. /\ TablesType /\ SecretsType /\ ReadersType /\ WriterType /\ TablesAgree
      /\ Starting /\ LocksHeard /\ SecretsKept /\ WritesKept /\ OldIsKnown
      /\ SecretsKnown /\ PasswordsFit /\ CacheFits
  BY DEF Inv, TypeOK
<1>2. /\ w.pc = "idle" /\ gc' = gc /\ cache' = cache /\ faults' = faults /\ lapsed' = lapsed
      /\ raced' = raced /\ stale' = stale /\ calls' \in Nat /\ auth = "password"
      /\ row' = row /\ item' = item /\ lock' = lock /\ gets' = gets /\ conns' = conns
      /\ session' = session /\ rd' = rd /\ tail' = tail /\ upset' = upset
  BY <1>1 DEF store, keychain, memory, ghosts, BeginSave, Call, TablesType
<1>3. PICK new, x : new = Fresh(c) /\ x = [Idle EXCEPT !.kind = "save", !.c = c, !.auth = auth,
                                           !.ep = ep, !.typed = typed, !.new = new]
  OBVIOUS
<1>4. new \in BOOLEAN
  BY <1>3 DEF Fresh
<1>5. /\ x \in WriterRecord /\ x.kind = "save" /\ x.c = c /\ x.auth = auth /\ x.ep = ep
      /\ x.typed = TRUE /\ x.new = new /\ x.old = None
  <2>1. Idle.old = None
    BY DEF Idle
  <2>2. /\ x \in WriterRecord /\ x.kind = "save" /\ x.c = c /\ x.auth = auth /\ x.ep = ep
        /\ x.typed = typed /\ x.new = new /\ x.old = Idle.old
    BY <1>3, <1>4 DEF Idle, WriterRecord, Secrets
  <2> QED
    BY <2>1, <2>2
<1>6. CASE new
  <2>1. w' = Asking(x, "put", <<c, "password">>, ep, "stored")
    BY <1>3, <1>6 DEF BeginSave
  <2>2. row[c] = NoRow /\ conns[c] = NoRow
    BY <1>3, <1>6 DEF Fresh
  <2>3. x.new = TRUE
    BY <1>4, <1>5, <1>6
  <2> QED
    BY <1>2, <1>5, <2>1, <2>2, <2>3, BeginNewStep
<1>7. CASE ~new
  <2>1. w' = Asking(x, "get", <<c, "password">>, None, "gotOld")
    BY <1>3, <1>7 DEF BeginSave
  <2>2. x.new = FALSE
    BY <1>4, <1>5, <1>7
  <2> QED
    BY <1>2, <1>5, <2>1, <2>2, BeginOldStep
<1> QED
  BY <1>4, <1>6, <1>7

(* SaveConnection with a blank password goes to the row at once.           *)
LEMMA BeginBlankStep ==
  ASSUME Inv, NEW c \in Conns, NEW auth \in Auths, NEW ep \in Endpoints,
         NEW typed \in BOOLEAN, BeginSave(c, auth, ep, typed), ~typed
  PROVE  Inv'
<1>1. /\ TablesType /\ SecretsType /\ ReadersType /\ WriterType /\ TablesAgree
      /\ Starting /\ LocksHeard /\ SecretsKept /\ WritesKept /\ OldIsKnown
      /\ SecretsKnown /\ PasswordsFit /\ CacheFits
  BY DEF Inv, TypeOK
<1>2. /\ w.pc = "idle" /\ gc' = gc /\ cache' = cache /\ faults' = faults /\ lapsed' = lapsed
      /\ raced' = raced /\ stale' = stale /\ calls' \in Nat
      /\ row' = row /\ item' = item /\ lock' = lock /\ gets' = gets /\ conns' = conns
      /\ session' = session /\ rd' = rd /\ tail' = tail /\ upset' = upset
  BY <1>1 DEF store, keychain, memory, ghosts, BeginSave, Call, TablesType
<1>3. PICK new : new = Fresh(c)
  OBVIOUS
<1>4. new \in BOOLEAN
  BY <1>3 DEF Fresh
<1>5. w' = [Idle EXCEPT !.pc = "row", !.kind = "save", !.c = c, !.auth = auth,
                        !.ep = ep, !.typed = FALSE, !.new = new]
  BY <1>3, ZenonT(60) DEF BeginSave, Idle
<1>6. /\ w' \in WriterRecord /\ w'.pc = "row" /\ w'.kind = "save" /\ w'.c = c /\ w'.auth = auth
      /\ w'.ep = ep /\ w'.typed = FALSE /\ w'.new = new
  BY <1>4, <1>5 DEF Idle, WriterRecord, Secrets
<1>7. w'.new => row[w'.c] = NoRow /\ conns[w'.c] = NoRow
  BY <1>3, <1>6 DEF Fresh
<1>8. ~Changing(w) /\ ~Busy(w)
  BY <1>2 DEF For, Calling, Changing, Busy
<1>9. LetsGo /\ FitsAfter /\ ForgottenAfter
  BY <1>1, <1>2, <1>6, <1>7, <1>8, PlainlyGone DEF LetsGo, TablesType
<1>10. KnownAfter
  BY <1>1, <1>2, <1>8 DEF KnownAfter, SecretsKnown, Owned
<1> QED
  BY <1>9, <1>10, LetsGoStep

(* The row a save writes: a saved secret that is not new was saved before, *)
(* for the same endpoint.                                                  *)
LEMMA NextRowFacts ==
  ASSUME TablesType, WriterType, TablesAgree, Starting, SaveRow, NEW n, n = NextRow
  PROVE  /\ n \in Rows /\ n # NoRow /\ n.auth = w.auth /\ n.ep = w.ep
         /\ w.typed => n.saved /\ n.auth = "password"
         /\ (n.saved /\ ~w.typed) => /\ row[w.c].saved /\ row[w.c].auth = n.auth
                                     /\ n.auth = "password" => row[w.c].ep = n.ep
<1>1. PICK o, p, keeps : /\ o = conns[w.c] /\ p = row[w.c]
                         /\ keeps = (~w.typed /\ w.auth = "password" /\ o.auth = "password")
  OBVIOUS
<1>2. /\ w.pc = "row" /\ w.c \in Conns /\ w.auth \in Auths /\ w.ep \in Endpoints
      /\ w.typed \in BOOLEAN /\ w.new \in BOOLEAN /\ (w.typed => w.auth = "password")
      /\ o \in Rows /\ p \in Rows /\ keeps \in BOOLEAN
  BY <1>1 DEF SaveRow, WriterType, WriterShape, WriterRecord, TablesType
<1>3. /\ p.saved \in BOOLEAN /\ o.saved \in BOOLEAN
      /\ o.auth = "password" => o # NoRow /\ o.col \in {None, o.ep}
      /\ p.auth = "password" => p # NoRow
  <2>1. o.saved \in BOOLEAN /\ (o.auth = "password" => o # NoRow /\ o.col \in {None, o.ep})
    <3>1. o \in Rows
      BY <1>2
    <3> QED
      BY <3>1, RowFacts
  <2>2. p.saved \in BOOLEAN /\ (p.auth = "password" => p # NoRow)
    <3>1. p \in Rows
      BY <1>2
    <3> QED
      BY <3>1, RowFacts
  <2> QED
    BY <2>1, <2>2
<1>4. keeps => /\ o.ep = w.ep /\ o.col \in {None, w.ep} /\ w.auth = "password"
               /\ (o.saved => p.saved /\ p.auth = "password" /\ p.ep = w.ep)
  <2> SUFFICES ASSUME keeps
               PROVE  /\ o.ep = w.ep /\ o.col \in {None, w.ep} /\ w.auth = "password"
                      /\ (o.saved => p.saved /\ p.auth = "password" /\ p.ep = w.ep)
    OBVIOUS
  <2>1. ~w.typed /\ w.auth = "password" /\ o.auth = "password" /\ o # NoRow
    BY <1>1, <1>3
  <2>2. ~w.new
    BY <1>1, <1>2, <2>1 DEF Starting
  <2>3. p # NoRow /\ ~Refused
    BY <1>1, <2>2 DEF SaveRow
  <2>4. o.ep = w.ep
    BY <1>1, <2>1, <2>3 DEF Refused
  <2>5. p.auth = o.auth /\ p.ep = o.ep /\ (p.auth = "password" => p.saved = o.saved)
    BY <1>1, <1>2, <2>1, <2>3 DEF TablesAgree
  <2> QED
    BY <1>3, <2>1, <2>4, <2>5
<1>5. PICK saved : saved = (\/ w.typed
                            \/ keeps /\ o.saved
                            \/ w.auth \in KeyPaths /\ p.saved /\ p.auth = w.auth)
  OBVIOUS
<1>6. PICK col : col = IF keeps THEN o.col ELSE None
  OBVIOUS
<1>7. n = [auth |-> w.auth, ep |-> w.ep, saved |-> saved, col |-> col]
  BY <1>1, <1>5, <1>6 DEF NextRow
<1>8. saved \in BOOLEAN /\ col \in {None, w.ep} /\ (col # None => w.auth = "password")
  BY <1>2, <1>3, <1>4, <1>5, <1>6
<1>9. n.auth = w.auth /\ n.ep = w.ep /\ n.saved = saved /\ n.col = col
  BY <1>7
<1>10. n \in Rows
  BY <1>2, <1>7, <1>8 DEF Rows
<1>11. n # NoRow
  BY <1>2, <1>9, CredentialsAssumption, AccountParts DEF NoRow
<1>12. w.typed => saved
  BY <1>5
<1>13. saved /\ ~w.typed => p.saved /\ p.auth = w.auth /\ (w.auth = "password" => p.ep = w.ep)
  BY <1>2, <1>4, <1>5, AccountParts
<1> QED
  BY <1>1, <1>2, <1>9, <1>10, <1>11, <1>12, <1>13

(* The queue after a save: what was used or queued is used or queued.      *)
LEMMA QueueFacts ==
  ASSUME TablesType, NEW c \in Conns, NEW n \in Rows,
         row' = [row EXCEPT ![c] = n], gc' = updateConnection(c, n)
  PROVE  /\ gc' \subseteq Accounts /\ row' \in [Conns -> Rows] /\ row'[c] = n
         /\ \A d \in Conns : d # c => row'[d] = row[d]
         /\ \A a \in Accounts : (Referenced(a) \/ a \in gc) => Referenced(a)' \/ a \in gc'
<1>1. row' \in [Conns -> Rows] /\ row'[c] = n /\ \A d \in Conns : d # c => row'[d] = row[d]
  BY DEF TablesType
<1>2. row[c].saved => row[c].auth \in Auths
  BY RowFacts DEF TablesType
<1>3. Obsolete(c, n) \subseteq Accounts
  BY <1>2, AccountParts DEF Obsolete
<1>4. gc' \subseteq Accounts
  BY <1>3 DEF updateConnection, TablesType
<1>5. ASSUME NEW a \in Accounts, Referenced(a) \/ a \in gc
      PROVE  Referenced(a)' \/ a \in gc'
  <2>1. a = <<a[1], a[2]>> /\ a[1] \in Conns
    BY AccountParts
  <2>2. CASE a[1] # c
    <3>1. Referenced(a) => Referenced(a)'
      BY <1>1, <2>1, <2>2 DEF Referenced
    <3>2. a \in gc => a \in gc'
      BY <2>2, AccountParts DEF updateConnection
    <3> QED
      BY <1>5, <3>1, <3>2
  <2>3. CASE a[1] = c /\ n.saved /\ n.auth = a[2]
    BY <1>1, <2>3 DEF Referenced
  <2>4. CASE a[1] = c /\ ~(n.saved /\ n.auth = a[2])
    <3>1. Referenced(a) => a \in Obsolete(c, n)
      BY <2>1, <2>4 DEF Referenced, Obsolete
    <3>2. n.saved /\ n.auth = "password" => a # <<c, "password">>
      BY <2>4, AccountParts
    <3> QED
      BY <1>5, <3>1, <3>2 DEF updateConnection
  <2> QED
    BY <2>2, <2>3, <2>4
<1> QED
  BY <1>1, <1>4, <1>5

(* The row is written, and memory follows.                                 *)
LEMMA SaveRowStep ==
  ASSUME Inv, SaveRow
  PROVE  Inv'
<1>1. /\ TablesType /\ SecretsType /\ ReadersType /\ WriterType /\ TablesAgree
      /\ Starting /\ LocksHeard /\ SecretsKept /\ WritesKept /\ OldIsKnown
      /\ SecretsKnown /\ PasswordsFit /\ CacheFits
  BY DEF Inv, TypeOK
<1>2. PICK c, n : c = w.c /\ n = NextRow
  OBVIOUS
<1>3. /\ w.pc = "row" /\ row' = [row EXCEPT ![c] = n] /\ gc' = updateConnection(c, n)
      /\ conns' = [conns EXCEPT ![c] = n] /\ cache' = Forgotten(c) /\ raced' = RacedBy(c)
      /\ stale' = stale \ {c}
      /\ (session' = [session EXCEPT ![c] = None] \/ session' = session)
      /\ w' = Collecting(w) /\ item' = item /\ lock' = lock /\ gets' = gets /\ rd' = rd
      /\ tail' = tail /\ calls' = calls /\ faults' = faults /\ lapsed' = lapsed /\ upset' = upset
  BY <1>2 DEF store, keychain, memory, ghosts, SaveRow
<1>4. /\ w \in WriterRecord /\ w.kind = "save" /\ c \in Conns /\ w.typed \in BOOLEAN
      /\ w.typed => Own(w) /\ w.val = w.ep /\ w.op = "put" /\ w.val # None
  BY <1>1, <1>2, <1>3, CredentialsAssumption DEF WriterType, WriterShape, WriterRecord
<1>5. /\ n \in Rows /\ n # NoRow /\ n.auth = w.auth /\ n.ep = w.ep
      /\ w.typed => n.saved /\ n.auth = "password"
      /\ (n.saved /\ ~w.typed) => /\ row[c].saved /\ row[c].auth = n.auth
                                  /\ n.auth = "password" => row[c].ep = n.ep
  BY <1>1, <1>2, NextRowFacts
<1>6. /\ gc' \subseteq Accounts /\ row' \in [Conns -> Rows] /\ row'[c] = n
      /\ \A d \in Conns : d # c => row'[d] = row[d]
      /\ \A a \in Accounts : (Referenced(a) \/ a \in gc) => Referenced(a)' \/ a \in gc'
  BY <1>1, <1>3, <1>4, <1>5, QueueFacts
<1>7. /\ conns' \in [Conns -> Rows] /\ conns'[c] = n /\ \A d \in Conns : d # c => conns'[d] = conns[d]
  BY <1>1, <1>3, <1>4, <1>5 DEF TablesType
<1>8. /\ session' \in [Conns -> Endpoints \cup {None}]
      /\ \A d \in Conns : d # c => session'[d] = session[d]
  BY <1>1, <1>3, <1>4 DEF TablesType
<1>9. /\ cache' \in [Accounts -> Secrets] /\ raced' \subseteq Readers
      /\ \A a \in Accounts : /\ a[1] = c => cache'[a] = None
                             /\ a[1] # c => cache'[a] = cache[a]
                             /\ cache'[a] \in Vals(a) \cup {None}
      /\ raced \subseteq raced' /\ stale' = stale \ {c} /\ stale' \subseteq Conns
      /\ \A r \in Readers \ raced' : rd[r].c = c => rd[r].pc \notin {"waitGet", "keep"}
  BY <1>1, <1>3, <1>4, ForgottenFacts DEF TablesType
<1>10. w' \in WriterRecord /\ w'.pc = "collect" /\ w'.todo = gc' /\ w'.kind = w.kind
  BY <1>3, <1>4, <1>6, CollectingRecord
<1>11. ChangesRows
  BY <1>1, <1>3, <1>4, <1>6, <1>7, <1>8, <1>9, <1>10 DEF ChangesRows, TablesType
<1>12. w.typed => /\ w.a = <<c, "password">> /\ w.a \in Accounts /\ lock[w.a] = None /\ item[w.a] = w.val
                  /\ Late(w.a) => gets[w.a].val # None
                  /\ c \notin upset /\ Late(w.a) => gets[w.a].val = item[w.a]
  <2>1. w.typed => w.a = <<c, "password">> /\ w.a \in Accounts
    BY <1>1, <1>2, <1>4, OwnFacts
  <2>2. w.typed => lock[w.a] = None /\ item[w.a] = w.val /\ (Late(w.a) => gets[w.a].val # None)
    BY <1>1, <1>3 DEF WritesKept, PutDone, Verified
  <2>3. w.typed /\ c \notin upset /\ Late(w.a) => gets[w.a].val = item[w.a]
    BY <1>1, <1>2, <1>3, <1>4 DEF PasswordsFit
  <2> QED
    BY <2>1, <2>2, <2>3
<1>13. \A a \in Accounts : Referenced(a)' => Referenced(a) \/ (w.typed /\ a = w.a)
  <2> SUFFICES ASSUME NEW a \in Accounts, Referenced(a)'
               PROVE  Referenced(a) \/ (w.typed /\ a = w.a)
    OBVIOUS
  <2>1. a = <<a[1], a[2]>> /\ a[1] \in Conns
    BY AccountParts
  <2>2. CASE a[1] # c
    BY <1>6, <2>1, <2>2 DEF Referenced
  <2>3. CASE a[1] = c
    <3>1. n.saved /\ n.auth = a[2]
      BY <1>6, <2>3 DEF Referenced
    <3>2. CASE w.typed
      BY <1>5, <1>12, <2>1, <2>3, <3>1, <3>2
    <3>3. CASE ~w.typed
      BY <1>5, <2>3, <3>1, <3>3 DEF Referenced
    <3> QED
      BY <1>4, <3>2, <3>3
  <2> QED
    BY <2>2, <2>3
<1>14. StoredBefore
  BY <1>4, <1>12, <1>13 DEF StoredBefore, Late
<1>15. w.typed => Referenced(<<c, "password">>)'
  <2>1. <<c, "password">>[1] = c /\ <<c, "password">>[2] = "password"
    BY <1>4, AccountParts
  <2> QED
    BY <1>5, <1>6, <2>1 DEF Referenced
<1>16. KnownNow
  <2>1. Busy(w) => w.typed
    BY <1>3 DEF Busy, Changing, For, Calling
  <2> QED
    BY <1>1, <1>3, <1>6, <1>12, <1>15, <2>1 DEF KnownNow, SecretsKnown, Owned
<1>17. TablesAgree'
  BY <1>1, <1>6, <1>7 DEF TablesAgree
<1>18. Starting'
  <2>1. w'.kind # "boot"
    BY <1>4, <1>10
  <2> QED
    BY <1>10, <2>1 DEF Starting, For, Calling
<1>19. ~Changing(w)' /\ (Changing(w) <=> w.typed)
  BY <1>3, <1>4, <1>10 DEF Changing, For, Calling
<1>20. PasswordsFit'
  <2>1. ASSUME NEW d \in Conns, d \notin upset, Referenced(<<d, "password">>)'
        PROVE  /\ item[<<d, "password">>] = row'[d].ep
               /\ Late(<<d, "password">>) => gets[<<d, "password">>].val = row'[d].ep
    <3>1. <<d, "password">> \in Accounts /\ <<d, "password">>[1] = d /\ <<d, "password">>[2] = "password"
      BY AccountParts
    <3>2. CASE d # c
      <4>1. Referenced(<<d, "password">>)
        BY <1>6, <2>1, <3>1, <3>2 DEF Referenced
      <4> QED
        BY <1>1, <1>2, <1>6, <2>1, <3>2, <4>1 DEF PasswordsFit
    <3>3. CASE d = c /\ w.typed
      BY <1>4, <1>5, <1>6, <1>12, <2>1, <3>3
    <3>4. CASE d = c /\ ~w.typed
      <4>1. n.saved /\ n.auth = "password"
        BY <1>6, <2>1, <3>1, <3>4 DEF Referenced
      <4>2. Referenced(<<d, "password">>) /\ row[d].ep = n.ep
        BY <1>5, <3>1, <3>4, <4>1 DEF Referenced
      <4> QED
        BY <1>1, <1>6, <1>19, <2>1, <3>4, <4>2 DEF PasswordsFit
    <3> QED
      BY <1>4, <3>2, <3>3, <3>4
  <2>2. w'.pc = "collect" /\ item' = item /\ gets' = gets /\ upset' = upset
    BY <1>3, <1>10
  <2> QED
    BY <2>1, <2>2 DEF PasswordsFit, Late
<1>21. CacheFits'
  <2>1. ASSUME NEW d \in Conns, Steady(d)'
        PROVE  /\ d \in stale' \/ cache'[<<d, "password">>] \in {None, Password(d)'}
               /\ \A r \in Readers \ raced' : (rd'[r].c = d /\ rd'[r].auth = "password") =>
                    /\ rd'[r].pc = "waitGet" => session'[d] = None
                    /\ rd'[r].pc = "keep" => rd'[r].val = Password(d)'
    <3>1. <<d, "password">> \in Accounts /\ <<d, "password">>[1] = d
      BY AccountParts
    <3>2. CASE d = c
      BY <1>3, <1>9, <2>1, <3>1, <3>2 DEF Steady
    <3>3. CASE d # c
      <4>1. Steady(d)
        BY <1>2, <1>3, <1>6, <1>7, <1>9, <2>1, <3>1, <3>3 DEF Steady, Referenced
      <4>2. Password(d)' = Password(d) /\ cache'[<<d, "password">>] = cache[<<d, "password">>]
        BY <1>6, <1>8, <1>9, <3>1, <3>3 DEF Password
      <4> QED
        BY <1>1, <1>3, <1>8, <1>9, <3>3, <4>1, <4>2 DEF CacheFits
    <3> QED
      BY <3>2, <3>3
  <2> QED
    BY <2>1 DEF CacheFits
<1> QED
  BY <1>11, <1>14, <1>16, <1>17, <1>18, <1>20, <1>21, ChangesRowsStep

(* The row goes and its item is queued, in one transaction.                *)
LEMMA DeleteStep ==
  ASSUME Inv, NEW c \in Conns, Delete(c)
  PROVE  Inv'
<1>1. /\ TablesType /\ SecretsType /\ ReadersType /\ WriterType /\ TablesAgree
      /\ Starting /\ LocksHeard /\ SecretsKept /\ WritesKept /\ OldIsKnown
      /\ SecretsKnown /\ PasswordsFit /\ CacheFits
  BY DEF Inv, TypeOK
<1>2. /\ w.pc = "idle" /\ calls' \in Nat /\ w' = Collecting([Idle EXCEPT !.kind = "delete", !.c = c])
      /\ gc' = gc \cup Obsolete(c, NoRow) /\ row' = [row EXCEPT ![c] = NoRow]
      /\ item' = item /\ lock' = lock /\ gets' = gets /\ conns' = conns
      /\ session' = session /\ cache' = cache /\ rd' = rd /\ tail' = tail /\ faults' = faults
      /\ lapsed' = lapsed /\ upset' = upset /\ raced' = raced /\ stale' = stale
  BY <1>1 DEF store, keychain, memory, ghosts, Delete, Call, TablesType
<1>3. NoRow \in Rows /\ NoRow.saved = FALSE
  BY DEF Rows, NoRow
<1>4. gc' = updateConnection(c, NoRow)
  BY <1>2, <1>3 DEF updateConnection
<1>5. /\ gc' \subseteq Accounts /\ row' \in [Conns -> Rows] /\ row'[c] = NoRow
      /\ \A d \in Conns : d # c => row'[d] = row[d]
      /\ \A a \in Accounts : (Referenced(a) \/ a \in gc) => Referenced(a)' \/ a \in gc'
  BY <1>1, <1>2, <1>3, <1>4, QueueFacts
<1>6. /\ w' \in WriterRecord /\ w'.pc = "collect" /\ w'.todo = gc' /\ w'.kind = "delete"
      /\ w'.c = c
  <2>1. PICK x : x = Started(Idle, "delete", c)
    OBVIOUS
  <2>2. x \in WriterRecord /\ x.kind = "delete" /\ x.c = c
    <3>1. "delete" \in {"save", "delete", "passphrase"} /\ Idle \in WriterRecord
      BY IdleRecord
    <3> QED
      BY <2>1, <3>1, StartedRecord, SMTT(30)
  <2>3. w' = Collecting(x)
    BY <1>2, <2>1 DEF Started
  <2> QED
    BY <1>5, <2>2, <2>3, CollectingRecord
<1>7. ChangesRows
  BY <1>1, <1>2, <1>5, <1>6 DEF ChangesRows, TablesType, SecretsType
<1>8. \A a \in Accounts : Referenced(a)' => Referenced(a) /\ a[1] # c
  <2>1. \A a \in Accounts : a[1] \in Conns
    BY AccountParts
  <2> QED
    BY <1>3, <1>5, <2>1 DEF Referenced
<1>9. ~Changing(w) /\ ~Busy(w) /\ ~Changing(w)'
  BY <1>2, <1>6 DEF Changing, Busy, For, Calling
<1>10. StoredBefore
  BY <1>8 DEF StoredBefore
<1>11. KnownNow
  BY <1>1, <1>2, <1>5, <1>9 DEF KnownNow, SecretsKnown, Owned
<1>12. TablesAgree'
  BY <1>1, <1>2, <1>5 DEF TablesAgree
<1>13. Starting'
  BY <1>6 DEF Starting, For, Calling
<1>14. \A d \in Conns : /\ <<d, "password">> \in Accounts /\ <<d, "password">>[1] = d
  BY AccountParts
<1>15. PasswordsFit'
  <2>1. ASSUME NEW d \in Conns, d \notin upset, Referenced(<<d, "password">>)'
        PROVE  /\ item[<<d, "password">>] = row'[d].ep
               /\ Late(<<d, "password">>) => gets[<<d, "password">>].val = row'[d].ep
    <3>1. Referenced(<<d, "password">>) /\ d # c
      BY <1>8, <1>14, <2>1
    <3> QED
      BY <1>1, <1>5, <1>9, <2>1, <3>1 DEF PasswordsFit
  <2> QED
    BY <1>2, <1>6, <2>1 DEF PasswordsFit, Late
<1>16. CacheFits'
  <2>1. ASSUME NEW d \in Conns, Steady(d)'
        PROVE  Steady(d) /\ Password(d)' = Password(d)
    <3>1. Referenced(<<d, "password">>) /\ d # c
      BY <1>8, <1>14, <2>1 DEF Steady
    <3> QED
      BY <1>2, <1>5, <1>9, <2>1, <3>1 DEF Steady, Password
  <2> QED
    BY <1>1, <1>2, <2>1 DEF CacheFits
<1> QED
  BY <1>7, <1>10, <1>11, <1>12, <1>13, <1>15, <1>16, ChangesRowsStep

(* A row that comes to say its secret is saved refers to that secret and   *)
(* to nothing else that is new.                                            *)
LEMMA MarkedFacts ==
  ASSUME TablesType, NEW c \in Conns, NEW n \in Rows, n.saved = TRUE, n.auth = row[c].auth,
         n.ep = row[c].ep, row[c].auth \in Auths, row' = [row EXCEPT ![c] = n]
  PROVE  /\ row' \in [Conns -> Rows] /\ row'[c] = n
         /\ \A d \in Conns : d # c => row'[d] = row[d]
         /\ \A d \in Conns : row'[d].auth = row[d].auth /\ row'[d].ep = row[d].ep
         /\ \A b \in Accounts : Referenced(b) => Referenced(b)'
         /\ \A b \in Accounts : Referenced(b)' => Referenced(b) \/ b = <<c, row[c].auth>>
         /\ \A b \in Accounts : b = <<c, row[c].auth>> => Referenced(b)'
<1>1. row' \in [Conns -> Rows] /\ row'[c] = n /\ \A d \in Conns : d # c => row'[d] = row[d]
  BY DEF TablesType
<1>2. \A d \in Conns : row'[d].auth = row[d].auth /\ row'[d].ep = row[d].ep
  BY <1>1
<1>3. ASSUME NEW b \in Accounts
      PROVE  /\ Referenced(b) => Referenced(b)'
             /\ Referenced(b)' => Referenced(b) \/ b = <<c, row[c].auth>>
             /\ b = <<c, row[c].auth>> => Referenced(b)'
  <2>1. b = <<b[1], b[2]>> /\ b[1] \in Conns
    BY AccountParts
  <2>2. CASE b[1] # c
    <3>1. b # <<c, row[c].auth>>
      BY <2>2, AccountParts
    <3> QED
      BY <1>1, <2>1, <2>2, <3>1 DEF Referenced
  <2>3. CASE b[1] = c
    <3>1. Referenced(b)' <=> row[c].auth = b[2]
      BY <1>1, <2>3 DEF Referenced
    <3>2. b = <<c, row[c].auth>> <=> row[c].auth = b[2]
      BY <2>1, <2>3, AccountParts
    <3>3. Referenced(b) => row[c].auth = b[2]
      BY <2>3 DEF Referenced
    <3> QED
      BY <3>1, <3>2, <3>3
  <2> QED
    BY <2>2, <2>3
<1> QED
  BY <1>1, <1>2, <1>3

(* The passphrase is in the keychain and its row has the key path: it is   *)
(* saved, and cached.                                                      *)
LEMMA PassphraseSavedStep ==
  ASSUME Inv, NEW ok \in BOOLEAN, PassphraseStored(ok),
         w.res = "ok" /\ setPassphraseSaved(w.a) /\ ok
  PROVE  Inv'
<1>1. /\ TablesType /\ SecretsType /\ ReadersType /\ WriterType /\ TablesAgree
      /\ Starting /\ LocksHeard /\ SecretsKept /\ WritesKept /\ OldIsKnown
      /\ SecretsKnown /\ PasswordsFit /\ CacheFits
  BY DEF Inv, TypeOK
<1>2. PICK c, a, k : c = w.c /\ a = w.a /\ k = w.val
  OBVIOUS
<1>3. /\ w.pc = "passphrase" /\ row' = [row EXCEPT ![c].saved = TRUE] /\ gc' = gc \ {a}
      /\ cache' = [cache EXCEPT ![a] = k] /\ w' = Idle
      /\ item' = item /\ lock' = lock /\ gets' = gets /\ conns' = conns
      /\ session' = session /\ rd' = rd /\ tail' = tail /\ faults' = faults /\ calls' = calls
      /\ lapsed' = lapsed /\ upset' = upset /\ raced' = raced /\ stale' = stale
  BY <1>2 DEF store, keychain, memory, ghosts, PassphraseStored
<1>4. /\ c \in Conns /\ k \in KeyPaths /\ a = <<c, k>> /\ ~Changing(w)
  BY <1>1, <1>2, <1>3 DEF WriterType, WriterShape, Changing, For, Calling
<1>5. /\ a \in Accounts /\ a[1] = c /\ a[2] = k /\ k \in Auths /\ k # "password" /\ k # None
      /\ k \in Secrets /\ k \in Vals(a)
  <2>1. a \in Accounts /\ a[1] = c /\ a[2] = k /\ k \in Auths /\ k # "password" /\ k # None
    BY <1>4, AccountParts
  <2> QED
    BY <1>4, <2>1 DEF Secrets, Vals
<1>6. row[c].auth = k
  BY <1>2, <1>5 DEF setPassphraseSaved
<1>7. PICK n : n = [row[c] EXCEPT !.saved = TRUE]
  OBVIOUS
<1>8. n \in Rows /\ n.saved = TRUE /\ n.auth = row[c].auth /\ n.ep = row[c].ep /\ n.col = row[c].col
  <2>1. row[c] \in Rows /\ row[c] # NoRow
    BY <1>1, <1>4, <1>5, <1>6 DEF TablesType, NoRow
  <2>2. /\ row[c] \in [auth : Auths, ep : Endpoints, saved : BOOLEAN, col : Endpoints \cup {None}]
        /\ row[c].col = None \/ (row[c].col = row[c].ep /\ row[c].auth = "password")
    BY <2>1 DEF Rows
  <2> QED
    BY <1>7, <2>2 DEF Rows
<1>9. row' = [row EXCEPT ![c] = n]
  BY <1>3, <1>7
<1>10. /\ row' \in [Conns -> Rows] /\ row'[c] = n
       /\ \A d \in Conns : d # c => row'[d] = row[d]
       /\ \A d \in Conns : row'[d].auth = row[d].auth /\ row'[d].ep = row[d].ep
       /\ \A b \in Accounts : Referenced(b) => Referenced(b)'
       /\ \A b \in Accounts : Referenced(b)' => Referenced(b) \/ b = <<c, row[c].auth>>
       /\ \A b \in Accounts : b = <<c, row[c].auth>> => Referenced(b)'
  BY <1>1, <1>4, <1>5, <1>6, <1>8, <1>9, MarkedFacts
<1>11. Idle \in WriterRecord /\ w'.pc = "idle" /\ w'.kind = None /\ w'.kind \notin {"boot", "delete"}
  BY <1>3, IdleRecord
<1>12. /\ cache' \in [Accounts -> Secrets] /\ cache'[a] = k
       /\ \A b \in Accounts : b # a => cache'[b] = cache[b]
       /\ \A b \in Accounts : cache'[b] \in Vals(b) \cup {None}
  BY <1>1, <1>3, <1>5 DEF SecretsType
<1>13. ChangesRows
  BY <1>1, <1>3, <1>10, <1>11, <1>12 DEF ChangesRows, TablesType
<1>14. lock[a] = None /\ item[a] # None /\ (Late(a) => gets[a].val # None)
  BY <1>1, <1>2, <1>3, <1>5 DEF WritesKept, PutDone, Verified
<1>15. StoredBefore
  BY <1>4, <1>6, <1>10, <1>14 DEF StoredBefore, Late
<1>16. KnownNow
  BY <1>1, <1>2, <1>3, <1>4, <1>6, <1>10 DEF KnownNow, SecretsKnown, Owned
<1>17. TablesAgree'
  <2>1. ASSUME NEW d \in Conns, row'[d] # NoRow, conns'[d] # NoRow
        PROVE  /\ conns'[d].auth = row'[d].auth /\ conns'[d].ep = row'[d].ep
               /\ conns'[d].col = row'[d].col
               /\ row'[d].auth = "password" => conns'[d].saved = row'[d].saved
    <3>1. CASE d # c
      BY <1>1, <1>3, <1>10, <2>1, <3>1 DEF TablesAgree
    <3>2. CASE d = c
      <4>1. row[d] # NoRow
        BY <1>5, <1>6, <3>2 DEF NoRow
      <4>2. /\ conns[d].auth = row[d].auth /\ conns[d].ep = row[d].ep
            /\ conns[d].col = row[d].col
        BY <1>1, <1>3, <2>1, <4>1 DEF TablesAgree
      <4>3. /\ row'[d].auth = row[d].auth /\ row'[d].ep = row[d].ep /\ row'[d].col = row[d].col
            /\ row'[d].auth # "password" /\ conns' = conns
        BY <1>3, <1>5, <1>6, <1>8, <1>10, <3>2
      <4> QED
        BY <4>2, <4>3
    <3> QED
      BY <3>1, <3>2
  <2> QED
    BY <2>1 DEF TablesAgree
<1>18. Starting'
  BY <1>11 DEF Starting, For, Calling
<1>19. ~Changing(w)'
  BY <1>11 DEF Changing, For, Calling
<1>20. \A d \in Conns : /\ <<d, "password">> \in Accounts /\ <<d, "password">> # a
  BY <1>5, AccountParts
<1>21. \A d \in Conns : Referenced(<<d, "password">>)' => Referenced(<<d, "password">>)
  BY <1>4, <1>6, <1>10, <1>20
<1>22. PasswordsFit'
  BY <1>1, <1>3, <1>4, <1>10, <1>11, <1>21 DEF PasswordsFit, Late
<1>23. CacheFits'
  <2>1. ASSUME NEW d \in Conns, Steady(d)'
        PROVE  /\ Steady(d) /\ Password(d)' = Password(d)
               /\ cache'[<<d, "password">>] = cache[<<d, "password">>]
    BY <1>3, <1>4, <1>10, <1>12, <1>20, <1>21, <2>1 DEF Steady, Password
  <2> QED
    BY <1>1, <1>3, <2>1 DEF CacheFits
<1> QED
  BY <1>13, <1>15, <1>16, <1>17, <1>18, <1>22, <1>23, ChangesRowsStep

(* The password of a plaintext row was read back from the keychain: its    *)
(* column is cleared.                                                      *)
LEMMA MigratedWellStep ==
  ASSUME Inv, Migrated(TRUE), w.res = "ok"
  PROVE  Inv'
<1>1. /\ TablesType /\ SecretsType /\ ReadersType /\ WriterType /\ TablesAgree
      /\ Starting /\ LocksHeard /\ SecretsKept /\ WritesKept /\ OldIsKnown
      /\ SecretsKnown /\ PasswordsFit /\ CacheFits
  BY DEF Inv, TypeOK
<1>2. PICK c, a : c = w.c /\ a = w.a
  OBVIOUS
<1>3. /\ w.pc = "migrated" /\ row' = [row EXCEPT ![c].col = None, ![c].saved = TRUE]
      /\ gc' = gc \ {a} /\ w' = [w EXCEPT !.pc = "boot"] /\ cache' = cache
      /\ item' = item /\ lock' = lock /\ gets' = gets /\ conns' = conns
      /\ session' = session /\ rd' = rd /\ tail' = tail /\ faults' = faults /\ calls' = calls
      /\ lapsed' = lapsed /\ upset' = upset /\ raced' = raced /\ stale' = stale
  BY <1>2 DEF store, keychain, memory, ghosts, Migrated, MayClear
<1>4. /\ w.kind = "boot" /\ Own(w) /\ w.op = "put" /\ w.val \in Endpoints /\ ~Changing(w)
      /\ row[c].auth = "password" /\ row[c].ep = w.val /\ w \in WriterRecord
  BY <1>1, <1>2, <1>3 DEF WriterType, WriterShape, Starting, Changing, For, Calling
<1>5. /\ c \in Conns /\ a \in Accounts /\ a = <<c, "password">> /\ "password" \in Auths
  BY <1>1, <1>2, <1>4, OwnFacts, AccountParts
<1>6. PICK n : n = [row[c] EXCEPT !.col = None, !.saved = TRUE]
  OBVIOUS
<1>7. n \in Rows /\ n.saved = TRUE /\ n.auth = row[c].auth /\ n.ep = row[c].ep
  <2>1. row[c] \in Rows /\ row[c] # NoRow
    BY <1>1, <1>4, <1>5, CredentialsAssumption DEF TablesType, NoRow
  <2>2. row[c] \in [auth : Auths, ep : Endpoints, saved : BOOLEAN, col : Endpoints \cup {None}]
    BY <2>1 DEF Rows
  <2> QED
    BY <1>6, <2>2 DEF Rows
<1>8. row' = [row EXCEPT ![c] = n]
  BY <1>1, <1>3, <1>5, <1>6 DEF TablesType
<1>9. /\ row' \in [Conns -> Rows] /\ row'[c] = n
      /\ \A d \in Conns : d # c => row'[d] = row[d]
      /\ \A d \in Conns : row'[d].auth = row[d].auth /\ row'[d].ep = row[d].ep
      /\ \A b \in Accounts : Referenced(b) => Referenced(b)'
      /\ \A b \in Accounts : Referenced(b)' => Referenced(b) \/ b = <<c, row[c].auth>>
      /\ \A b \in Accounts : b = <<c, row[c].auth>> => Referenced(b)'
  <2>1. row[c].auth \in Auths
    BY <1>4, <1>5
  <2> QED
    BY <1>1, <1>5, <1>7, <1>8, <2>1, MarkedFacts
<1>10. w' \in WriterRecord /\ w'.pc = "boot" /\ w'.kind = "boot"
  BY <1>3, <1>4 DEF WriterRecord
<1>11. ChangesRows
  BY <1>1, <1>3, <1>9, <1>10 DEF ChangesRows, TablesType, SecretsType
<1>12. lock[a] = None /\ item[a] = w.val /\ w.val # None /\ (Late(a) => gets[a].val # None)
  BY <1>1, <1>2, <1>3, PutFacts DEF WritesKept, PutDone, Verified
<1>13. StoredBefore
  BY <1>4, <1>5, <1>9, <1>12 DEF StoredBefore, Late
<1>14. KnownNow
  BY <1>1, <1>2, <1>3, <1>4, <1>5, <1>9 DEF KnownNow, SecretsKnown, Owned
<1>15. (\A d \in Conns : conns[d] = NoRow) /\ Starting'
  BY <1>1, <1>3, <1>4, <1>10 DEF Starting, For, Calling
<1>16. TablesAgree'
  BY <1>3, <1>15 DEF TablesAgree
<1>17. PasswordsFit'
  <2>1. ASSUME NEW d \in Conns, d \notin upset, Referenced(<<d, "password">>)'
        PROVE  /\ item[<<d, "password">>] = row'[d].ep
               /\ Late(<<d, "password">>) => gets[<<d, "password">>].val = row'[d].ep
    <3>1. <<d, "password">> \in Accounts /\ <<d, "password">>[1] = d
      BY AccountParts
    <3>2. CASE d # c
      <4>1. <<d, "password">> # a
        BY <1>5, <3>1, <3>2, AccountParts
      <4>2. Referenced(<<d, "password">>)
        BY <1>4, <1>5, <1>9, <2>1, <3>1, <4>1
      <4> QED
        BY <1>1, <1>4, <1>9, <2>1, <4>2 DEF PasswordsFit
    <3>3. CASE d = c
      <4>1. Late(a) => gets[a].val = item[a]
        BY <1>1, <1>2, <1>3, <1>4, <2>1, <3>3 DEF PasswordsFit
      <4> QED
        BY <1>4, <1>5, <1>9, <1>12, <3>3, <4>1
    <3> QED
      BY <3>2, <3>3
  <2> QED
    BY <1>3, <1>10, <2>1 DEF PasswordsFit, Late
<1>18. CacheFits'
  BY <1>3, <1>15 DEF CacheFits, Steady
<1> QED
  BY <1>11, <1>13, <1>14, <1>15, <1>16, <1>17, <1>18, ChangesRowsStep

(* secretMu is released; a start loads the connections, a deletion goes    *)
(* on.                                                                     *)
LEMMA EndStep ==
  ASSUME Inv, End
  PROVE  Inv'
<1>1. /\ TablesType /\ SecretsType /\ ReadersType /\ WriterType /\ TablesAgree
      /\ Starting /\ LocksHeard /\ SecretsKept /\ WritesKept /\ OldIsKnown
      /\ SecretsKnown /\ PasswordsFit /\ CacheFits
  BY DEF Inv, TypeOK
<1>2. /\ w.pc = "end" /\ w' = Idle /\ row' = row /\ gc' = gc /\ item' = item /\ lock' = lock
      /\ gets' = gets /\ session' = session /\ cache' = cache /\ rd' = rd /\ faults' = faults
      /\ calls' = calls /\ lapsed' = lapsed /\ upset' = upset /\ raced' = raced /\ stale' = stale
      /\ tail' = (IF w.kind = "delete" THEN [tail EXCEPT ![w.c] = 2] ELSE tail)
      /\ \/ conns' = conns
         \/ w.kind = "boot" /\ conns' = row
  BY DEF store, keychain, memory, ghosts, End
<1>3. /\ w' \in WriterRecord /\ w'.pc = "idle" /\ w'.kind \notin {"boot", "delete"} /\ ~w'.new
  BY <1>2, IdleRecord
<1>4. ~Changing(w) /\ ~Busy(w) /\ ~Changing(w)' /\ ~Busy(w)' /\ ~Collects(w)'
  BY <1>2, <1>3 DEF Changing, Busy, Collects, For, Calling
<1>5. tail' \in [Conns -> 0..2] /\ \A c \in Conns : tail'[c] = 0 => tail[c] = 0
  <2>1. CASE w.kind = "delete"
    <3>1. w.c \in Conns /\ tail' = [tail EXCEPT ![w.c] = 2]
      BY <1>1, <1>2, <2>1 DEF WriterType, WriterShape
    <3> QED
      BY <1>1, <3>1 DEF TablesType
  <2>2. CASE w.kind # "delete"
    BY <1>1, <1>2, <2>2 DEF TablesType
  <2> QED
    BY <2>1, <2>2
<1>6. TablesType'
  BY <1>1, <1>2, <1>5 DEF TablesType
<1>7. SecretsType' /\ ReadersType'
  BY <1>1, <1>2 DEF SecretsType, ReadersType
<1>8. WriterType'
  BY <1>3 DEF WriterType, WriterShape, For, Calling, Answers
<1>9. TablesAgree'
  BY <1>1, <1>2 DEF TablesAgree
<1>10. Starting'
  BY <1>3 DEF Starting, For, Calling
<1>11. LocksHeard'
  BY <1>1, <1>2, <1>3 DEF LocksHeard
<1>12. SecretsKept'
  BY <1>1, <1>2, <1>3 DEF SecretsKept, Referenced, Calling
<1>13. WritesKept'
  BY <1>3 DEF WritesKept, PutDone, Verified
<1>14. OldIsKnown'
  BY <1>3, <1>4 DEF OldIsKnown
<1>15. SecretsKnown'
  BY <1>1, <1>2, <1>3, <1>4 DEF SecretsKnown, Owned, Referenced
<1>16. PasswordsFit'
  BY <1>1, <1>2, <1>3, <1>4 DEF PasswordsFit, Late, Referenced
<1>17. CacheFits'
  <2>1. CASE conns' = conns
    <3>1. \A c \in Conns : Steady(c)' => Steady(c)
      BY <1>2, <1>4, <1>5, <2>1 DEF Steady, Referenced
    <3> QED
      BY <1>1, <1>2, <3>1 DEF CacheFits, Password
  <2>2. CASE w.kind = "boot"
    <3>1. \A a \in Accounts : cache'[a] = None
      BY <1>1, <1>2, <2>2 DEF Starting
    <3>2. \A r \in Readers : rd'[r].pc = "idle"
      BY <1>1, <1>2, <2>2 DEF Starting
    <3> QED
      BY <3>1, <3>2, AccountParts DEF CacheFits
  <2> QED
    BY <1>2, <2>1, <2>2
<1> QED
  BY <1>6, <1>7, <1>8, <1>9, <1>10, <1>11, <1>12, <1>13, <1>14, <1>15, <1>16, <1>17
     DEF Inv, TypeOK

(* What a deletion still forgets after secretMu is released.               *)
LEMMA TailFacts ==
  ASSUME TablesType, SecretsType, NEW c \in Conns, DeleteTail(c)
  PROVE  /\ tail' \in [Conns -> 0..2] /\ conns' \in [Conns -> Rows]
         /\ session' \in [Conns -> Endpoints \cup {None}]
         /\ raced' \subseteq Readers /\ raced \subseteq raced' /\ stale' \subseteq Conns
         /\ cache' \in [Accounts -> Secrets]
         /\ \A a \in Accounts : cache'[a] \in {None, cache[a]} /\ (a[1] # c => cache'[a] = cache[a])
         /\ \A d \in Conns : conns'[d] \in {NoRow, conns[d]}
         /\ \A d \in Conns : d # c => /\ tail'[d] = tail[d] /\ session'[d] = session[d]
                                      /\ conns'[d] = conns[d] /\ (d \in stale' <=> d \in stale)
         /\ tail'[c] # 0 \/ conns'[c] = NoRow
<1>1. PICK t : t = tail[c]
  OBVIOUS
<1>2. t \in 0..2 /\ t > 0
  BY <1>1 DEF TablesType, DeleteTail
<1>3. t \in {1, 2}
  BY <1>2
<1>4. tail' = [tail EXCEPT ![c] = t - 1]
  BY <1>1 DEF DeleteTail
<1>5. /\ tail' \in [Conns -> 0..2] /\ tail'[c] = t - 1 /\ \A d \in Conns : d # c => tail'[d] = tail[d]
  BY <1>2, <1>4 DEF TablesType
<1>6. CASE t = 2
  <2>1. session' = [session EXCEPT ![c] = None] /\ conns' = conns /\ cache' = cache /\ raced' = raced /\ stale' = stale
    BY <1>1, <1>6 DEF DeleteTail
  <2>2. tail'[c] # 0
    BY <1>5, <1>6
  <2> QED
    BY <1>5, <2>1, <2>2 DEF TablesType, SecretsType
<1>7. CASE t = 1
  <2>1. /\ session' = session /\ conns' = [conns EXCEPT ![c] = NoRow] /\ cache' = Forgotten(c)
        /\ raced' = RacedBy(c) /\ stale' = stale \ {c}
    BY <1>1, <1>7 DEF DeleteTail
  <2>2. /\ cache' \in [Accounts -> Secrets] /\ raced' \subseteq Readers
        /\ \A a \in Accounts : /\ a[1] = c => cache'[a] = None
                               /\ a[1] # c => cache'[a] = cache[a]
        /\ raced \subseteq raced' /\ stale' \subseteq Conns
        /\ \A d \in Conns : d # c => (d \in stale' <=> d \in stale)
    BY <2>1, ForgottenFacts DEF TablesType
  <2>3. NoRow \in Rows
    BY DEF Rows
  <2>4. /\ conns' \in [Conns -> Rows] /\ conns'[c] = NoRow
        /\ \A d \in Conns : d # c => conns'[d] = conns[d]
    BY <2>1, <2>3 DEF TablesType
  <2> QED
    BY <1>5, <2>1, <2>2, <2>4 DEF TablesType
<1> QED
  BY <1>3, <1>6, <1>7

(* After secretMu a deletion forgets the session-only password, then       *)
(* memory and the cache.                                                   *)
LEMMA DeleteTailStep ==
  ASSUME Inv, NEW c \in Conns, DeleteTail(c)
  PROVE  Inv'
<1>1. /\ TablesType /\ SecretsType /\ ReadersType /\ WriterType /\ TablesAgree
      /\ Starting /\ LocksHeard /\ SecretsKept /\ WritesKept /\ OldIsKnown
      /\ SecretsKnown /\ PasswordsFit /\ CacheFits
  BY DEF Inv, TypeOK
<1>2. /\ row' = row /\ gc' = gc /\ item' = item /\ lock' = lock /\ gets' = gets /\ w' = w
      /\ rd' = rd /\ calls' = calls /\ faults' = faults /\ lapsed' = lapsed /\ upset' = upset
  BY DEF store, keychain, memory, ghosts, DeleteTail
<1>3. /\ tail' \in [Conns -> 0..2] /\ conns' \in [Conns -> Rows]
      /\ session' \in [Conns -> Endpoints \cup {None}]
      /\ raced' \subseteq Readers /\ raced \subseteq raced' /\ stale' \subseteq Conns
      /\ cache' \in [Accounts -> Secrets]
      /\ \A a \in Accounts : cache'[a] \in {None, cache[a]} /\ (a[1] # c => cache'[a] = cache[a])
      /\ \A d \in Conns : conns'[d] \in {NoRow, conns[d]}
      /\ \A d \in Conns : d # c => /\ tail'[d] = tail[d] /\ session'[d] = session[d]
                                   /\ conns'[d] = conns[d] /\ (d \in stale' <=> d \in stale)
      /\ tail'[c] # 0 \/ conns'[c] = NoRow
  BY <1>1, TailFacts
<1>4. TablesType'
  BY <1>1, <1>2, <1>3 DEF TablesType
<1>5. SecretsType'
  BY <1>1, <1>2, <1>3 DEF SecretsType
<1>6. ReadersType' /\ WriterType'
  BY <1>1, <1>2 DEF ReadersType, WriterType
<1>7. TablesAgree'
  BY <1>1, <1>2, <1>3 DEF TablesAgree
<1>8. Starting'
  <2>1. w.new /\ (For(w, "stored") \/ w.pc = "row") => w.c \in Conns
    BY <1>1 DEF WriterType, WriterShape, Own
  <2> QED
    BY <1>1, <1>2, <1>3, <2>1 DEF Starting
<1>9. LocksHeard' /\ SecretsKept'
  BY <1>1, <1>2 DEF LocksHeard, SecretsKept, Referenced
<1>10. WritesKept' /\ OldIsKnown'
  BY <1>1, <1>2 DEF WritesKept, Late, OldIsKnown, Owned, Referenced
<1>11. SecretsKnown' /\ PasswordsFit'
  BY <1>1, <1>2 DEF SecretsKnown, Owned, PasswordsFit, Late, Referenced
<1>12. CacheFits'
  <2>1. ASSUME NEW d \in Conns, Steady(d)'
        PROVE  /\ Steady(d) /\ Password(d)' = Password(d) /\ session'[d] = session[d]
               /\ cache'[<<d, "password">>] = cache[<<d, "password">>]
               /\ (d \in stale' <=> d \in stale)
    <3>1. <<d, "password">> \in Accounts /\ <<d, "password">>[1] = d
      BY AccountParts
    <3>2. d # c
      BY <1>3, <2>1 DEF Steady
    <3> QED
      BY <1>2, <1>3, <2>1, <3>1, <3>2 DEF Steady, Password, Referenced
  <2> QED
    BY <1>1, <1>2, <1>3, <2>1 DEF CacheFits
<1> QED
  BY <1>4, <1>5, <1>6, <1>7, <1>8, <1>9, <1>10, <1>11, <1>12 DEF Inv, TypeOK

(* The record of a process that starts.                                    *)
LEMMA BootRecord ==
  /\ Boot \in WriterRecord /\ WriterShape(Boot) /\ Boot.pc = "boot" /\ Boot.kind = "boot"
  /\ Boot.new = FALSE /\ NoRow \in Rows /\ NoRead \in ReaderRecord /\ NoRead.pc = "idle"
<1>1. /\ Boot \in WriterRecord /\ Boot.pc = "boot" /\ Boot.kind = "boot" /\ Boot.new = FALSE
  <2>1. PICK todo : todo = {<<c, "password">> : c \in {d \in Conns : Plain(d)}}
    OBVIOUS
  <2>2. todo \subseteq Accounts
    BY <2>1, AccountParts
  <2>3. Boot = [Idle EXCEPT !.pc = "boot", !.kind = "boot", !.todo = todo]
    BY <2>1 DEF Boot
  <2>4. PICK i : i = Idle
    OBVIOUS
  <2>5. i \in WriterRecord /\ i.new = FALSE /\ Boot = [i EXCEPT !.pc = "boot", !.kind = "boot", !.todo = todo]
    BY <2>3, <2>4, IdleRecord
  <2> QED
    BY <2>2, <2>5 DEF WriterRecord
<1>2. WriterShape(Boot)
  BY <1>1 DEF WriterShape, For, Calling, Answers
<1>3. NoRow \in Rows /\ NoRead \in ReaderRecord /\ NoRead.pc = "idle"
  BY DEF Rows, NoRead, ReaderRecord, Secrets
<1> QED
  BY <1>1, <1>2, <1>3

(* The process dies and starts again; keychain calls in flight took effect *)
(* or not.                                                                 *)
LEMMA CrashStep ==
  ASSUME Inv, Crash
  PROVE  Inv'
<1>1. /\ TablesType /\ SecretsType /\ ReadersType /\ WriterType /\ TablesAgree
      /\ Starting /\ LocksHeard /\ SecretsKept /\ WritesKept /\ OldIsKnown
      /\ SecretsKnown /\ PasswordsFit /\ CacheFits
  BY DEF Inv, TypeOK
<1>2. /\ row' = row /\ gc' = gc /\ calls' = calls /\ w' = Boot /\ faults' \in Nat
      /\ lock' = [a \in Accounts |-> None] /\ gets' = [a \in Accounts |-> None]
      /\ conns' = [c \in Conns |-> NoRow] /\ session' = [c \in Conns |-> None]
      /\ cache' = [a \in Accounts |-> None] /\ raced' = {} /\ stale' = {}
      /\ rd' = [r \in Readers |-> NoRead] /\ tail' = [c \in Conns |-> 0]
  BY <1>1 DEF store, keychain, memory, ghosts, Crash, Fault, TablesType
<1>3. /\ lapsed' = lapsed \cup {a \in Accounts : a = w.a \/ lock[a] # None}
      /\ upset' = upset \cup {c \in Conns : HalfSaved(c)}
  BY DEF Crash
<1>4. PICK done \in SUBSET {a \in Accounts : lock[a] # None} :
        item' = [a \in Accounts |->
                   IF a \notin done THEN item[a]
                   ELSE IF lock[a].op = "put" THEN lock[a].val ELSE None]
  BY DEF Crash
<1>5. ASSUME NEW a \in Accounts
      PROVE  /\ \/ item'[a] = item[a]
                \/ lock[a] # None /\ lock[a].op = "put" /\ item'[a] = lock[a].val
                \/ lock[a] # None /\ lock[a].op # "put" /\ item'[a] = None
             /\ item'[a] \in Vals(a) \cup {None} /\ item'[a] \in Secrets
  <2>1. \/ item'[a] = item[a]
        \/ lock[a] # None /\ lock[a].op = "put" /\ item'[a] = lock[a].val
        \/ lock[a] # None /\ lock[a].op # "put" /\ item'[a] = None
    BY <1>4
  <2>2. item'[a] \in Vals(a) \cup {None}
    BY <1>1, <2>1 DEF SecretsType
  <2> QED
    BY <2>1, <2>2, ValsFacts DEF Secrets
<1>6. /\ w' \in WriterRecord /\ WriterShape(w') /\ w'.pc = "boot" /\ w'.kind = "boot"
      /\ w'.new = FALSE
  BY <1>2, BootRecord
<1>7. ~Changing(w)' /\ ~Busy(w)' /\ ~Collects(w)'
  BY <1>6 DEF Changing, Busy, Collects, For, Calling
<1>8. TablesType'
  BY <1>1, <1>2, <1>3, BootRecord DEF TablesType
<1>9. SecretsType'
  <2>1. item' \in [Accounts -> Secrets]
    BY <1>4, <1>5
  <2> QED
    BY <1>2, <1>5, <2>1 DEF SecretsType, Secrets
<1>10. ReadersType' /\ WriterType'
  BY <1>2, <1>6, BootRecord DEF ReadersType, WriterType
<1>11. TablesAgree' /\ CacheFits'
  BY <1>2 DEF TablesAgree, CacheFits, Steady
<1>12. Starting'
  BY <1>2, <1>6, BootRecord DEF Starting, For, Calling
<1>13. LocksHeard'
  BY <1>2, <1>6 DEF LocksHeard
<1>14. SecretsKept'
  <2>1. ASSUME NEW a \in Accounts, Referenced(a)
        PROVE  item'[a] # None
    <3>1. item[a] # None /\ (lock[a] # None => lock[a].op = "put")
      BY <1>1, <2>1 DEF SecretsKept
    <3>2. lock[a] # None => lock[a].val \in Vals(a)
      BY <1>1, <3>1 DEF SecretsType
    <3> QED
      BY <1>5, <3>1, <3>2, ValsFacts
  <2>2. \A a \in Accounts : Referenced(a)' <=> Referenced(a)
    BY <1>2 DEF Referenced
  <2> QED
    BY <1>2, <1>6, <2>1, <2>2 DEF SecretsKept, Calling
<1>15. WritesKept' /\ OldIsKnown'
  BY <1>6, <1>7 DEF WritesKept, PutDone, Verified, OldIsKnown
<1>16. SecretsKnown'
  <2>1. ASSUME NEW a \in Accounts, item'[a] # None
        PROVE  Owned(a)'
    <3>1. Owned(a) \/ a = w.a
      BY <1>1, <1>5, <2>1 DEF SecretsKnown
    <3> QED
      BY <1>2, <1>3, <3>1 DEF Owned, Referenced
  <2> QED
    BY <1>2, <1>6, <1>7, <2>1 DEF SecretsKnown
<1>17. PasswordsFit'
  <2>1. ASSUME NEW c \in Conns, c \notin upset', Referenced(<<c, "password">>)'
        PROVE  item'[<<c, "password">>] = row'[c].ep
    <3>1. <<c, "password">> \in Accounts /\ <<c, "password">>[1] = c
      BY AccountParts
    <3>2. c \notin upset /\ ~HalfSaved(c)
      BY <1>3, <2>1
    <3>3. Referenced(<<c, "password">>)
      BY <1>2, <2>1 DEF Referenced
    <3>4. ~(Changing(w) /\ w.c = c)
      BY <1>1, <3>2 DEF HalfSaved, Changing, For, Calling, WriterType, WriterShape
    <3>5. item[<<c, "password">>] = row[c].ep
      BY <1>1, <3>2, <3>3, <3>4 DEF PasswordsFit
    <3>6. ASSUME lock[<<c, "password">>] # None
          PROVE  lock[<<c, "password">>].op = "put" /\ lock[<<c, "password">>].val = row[c].ep
      <4>1. lock[<<c, "password">>].op = "put"
        BY <1>1, <3>1, <3>3, <3>6 DEF SecretsKept
      <4>2. /\ w.pc = "wait" /\ w.a = <<c, "password">> /\ w.op = "put"
            /\ lock[<<c, "password">>].val = w.val
        <5>1. lock[<<c, "password">>].heard \in BOOLEAN
          BY <1>1, <3>1, <3>6 DEF SecretsType, LockRecord
        <5> QED
          BY <1>1, <3>1, <3>2, <3>6, <4>1, <5>1 DEF LocksHeard
      <4>3. w.next \in Answers /\ w.next \notin {"collected", "gotOld"}
        BY <1>1, <4>2 DEF WriterType, WriterShape, For, Calling
      <4>4. w.next # "passphrase"
        BY <1>1, <3>1, <4>2, AccountParts, CredentialsAssumption DEF WriterType, WriterShape,
           For, Calling
      <4>5. w.next \in {"stored", "restored"} => w.c = c
        BY <1>1, <3>1, <4>2, AccountParts DEF WriterType, WriterShape, For, Calling, Own
      <4>6. For(w, "migrated") /\ w.c = c
        BY <1>1, <3>1, <3>4, <4>2, <4>3, <4>4, <4>5, AccountParts DEF Changing, For, Calling,
           Answers, WriterType, WriterShape, Own
      <4> QED
        BY <1>1, <4>1, <4>2, <4>6 DEF Starting
    <3> QED
      BY <1>2, <1>5, <3>1, <3>5, <3>6
  <2>2. \A c \in Conns : ~Late(<<c, "password">>)'
    BY <1>2, AccountParts DEF Late
  <2> QED
    BY <1>6, <2>1, <2>2 DEF PasswordsFit
<1> QED
  BY <1>8, <1>9, <1>10, <1>11, <1>12, <1>13, <1>14, <1>15, <1>16, <1>17 DEF Inv, TypeOK

----------------------------------------------------------------------------
(* The theorems                                                            *)

(* The invariant holds when the program starts for the first time.         *)
LEMMA InitInv == Init => Inv
<1> SUFFICES ASSUME Init PROVE Inv
  OBVIOUS
<1>1. /\ gc = {} /\ lapsed = {} /\ upset = {} /\ raced = {} /\ stale = {} /\ calls = 0 /\ faults = 0 /\ w = Boot
      /\ item = [a \in Accounts |-> None] /\ lock = [a \in Accounts |-> None]
      /\ gets = [a \in Accounts |-> None] /\ cache = [a \in Accounts |-> None]
      /\ conns = [c \in Conns |-> NoRow] /\ session = [c \in Conns |-> None]
      /\ rd = [r \in Readers |-> NoRead] /\ tail = [c \in Conns |-> 0]
  BY DEF Init
<1>2. row \in [Conns -> Rows] /\ \A c \in Conns : row[c].saved = FALSE
  <2>1. /\ row \in [Conns -> {NoRow} \cup [auth : {"password"}, ep : Endpoints,
                                           saved : {FALSE}, col : Endpoints]]
        /\ \A c \in Conns : row[c].col = row[c].ep
    <3>1. PICK old \in Legacy : row = [c \in Conns |-> OldRow(old[c])]
      BY DEF Init
    <3>2. ASSUME NEW c \in Conns
          PROVE  /\ OldRow(old[c]) \in {NoRow} \cup [auth : {"password"}, ep : Endpoints,
                                                     saved : {FALSE}, col : Endpoints]
                 /\ OldRow(old[c]).col = OldRow(old[c]).ep
      <4>1. old[c] = None \/ old[c] \in Endpoints
        BY CredentialsAssumption
      <4> QED
        BY <4>1 DEF OldRow, NoRow
    <3> QED
      BY <3>1, <3>2
  <2>2. ASSUME NEW c \in Conns
        PROVE  row[c] \in Rows /\ row[c].saved = FALSE
    <3>1. CASE row[c] = NoRow
      BY <3>1 DEF NoRow, Rows
    <3>2. CASE row[c] # NoRow
      <4>1. /\ row[c] \in [auth : {"password"}, ep : Endpoints, saved : {FALSE}, col : Endpoints]
            /\ row[c].col = row[c].ep
        BY <2>1, <3>2
      <4> QED
        BY <4>1, AccountParts, ZenonT(60) DEF Rows
    <3> QED
      BY <3>1, <3>2
  <2> QED
    BY <2>1, <2>2
<1>3. \A a \in Accounts : ~Referenced(a)
  BY <1>2, AccountParts DEF Referenced
<1>4. w \in WriterRecord /\ WriterShape(w) /\ w.pc = "boot" /\ w.kind = "boot" /\ w.new = FALSE
  BY <1>1, BootRecord
<1>5. ~Changing(w) /\ ~Busy(w) /\ ~Collects(w)
  BY <1>4 DEF Changing, Busy, Collects, For, Calling
<1>6. TablesType
  BY <1>1, <1>2, BootRecord DEF TablesType
<1>7. SecretsType
  BY <1>1 DEF SecretsType, Secrets
<1>8. ReadersType /\ WriterType
  BY <1>1, <1>4, BootRecord DEF ReadersType, WriterType
<1>9. TablesAgree /\ CacheFits
  BY <1>1 DEF TablesAgree, CacheFits, Steady
<1>10. Starting
  BY <1>1, <1>4, BootRecord DEF Starting, For, Calling
<1>11. LocksHeard
  BY <1>1, <1>4 DEF LocksHeard
<1>12. SecretsKept
  BY <1>3 DEF SecretsKept
<1>13. WritesKept /\ OldIsKnown
  BY <1>4, <1>5 DEF WritesKept, PutDone, Verified, OldIsKnown
<1>14. SecretsKnown
  BY <1>1, <1>4, <1>5 DEF SecretsKnown
<1>15. PasswordsFit
  <2>1. \A c \in Conns : ~Referenced(<<c, "password">>)
    BY <1>3, AccountParts
  <2> QED
    BY <1>4, <2>1 DEF PasswordsFit
<1> QED
  BY <1>6, <1>7, <1>8, <1>9, <1>10, <1>11, <1>12, <1>13, <1>14, <1>15 DEF Inv, TypeOK

(* A step of the keychain or of the writer's calls keeps the invariant.    *)
LEMMA KeychainStep ==
  ASSUME Inv, Keychain
  PROVE  Inv'
<1>1. ASSUME NEW a \in Accounts, NEW ok \in BOOLEAN, OsReturns(a, ok)
      PROVE  Inv'
  <2>1. lock[a] # None /\ lock[a] \in LockRecord
    BY <1>1 DEF OsReturns, Inv, TypeOK, SecretsType
  <2>2. lock[a].heard \in BOOLEAN /\ lock[a].op \in {"put", "delete"}
    BY <2>1 DEF LockRecord
  <2>3. CASE ~lock[a].heard
    BY <1>1, <2>3, OsReturnsUnheard
  <2>4. CASE lock[a].heard /\ ~ok
    BY <1>1, <2>4, OsReturnsFailed
  <2>5. CASE lock[a].heard /\ ok /\ lock[a].op = "put"
    BY <1>1, <2>5, OsReturnsPut
  <2>6. CASE lock[a].heard /\ ok /\ lock[a].op = "delete"
    BY <1>1, <2>6, OsReturnsDelete
  <2> QED
    BY <2>2, <2>3, <2>4, <2>5, <2>6
<1>2. ASSUME NEW a \in Accounts, GetReturns(a)
      PROVE  Inv'
  BY <1>2, GetReturnsToDials, GetReturnsToWriter
<1> QED
  BY <1>1, <1>2, TakeStep, GiveUpStep, AskStep, GetReadsStep DEF Keychain

(* The start of an operation, or of a round of the collector, keeps the    *)
(* invariant.                                                              *)
LEMMA BeginStep ==
  ASSUME Inv, Begin
  PROVE  Inv'
<1>1. ASSUME NEW c \in Conns, NEW auth \in Auths, NEW ep \in Endpoints, NEW typed \in BOOLEAN,
             BeginSave(c, auth, ep, typed)
      PROVE  Inv'
  <2>1. CASE typed
    BY <1>1, <2>1, BeginSaveStep
  <2>2. CASE ~typed
    BY <1>1, <2>2, BeginBlankStep
  <2> QED
    BY <2>1, <2>2
<1> QED
  BY <1>1, DeleteStep, BeginPassphraseStep, TickStep DEF Begin

(* A step of the operation that holds secretMu keeps the invariant.        *)
LEMMA WriterStep ==
  ASSUME Inv, Writer
  PROVE  Inv'
<1>1. ASSUME NEW ok \in BOOLEAN, Migrated(ok)
      PROVE  Inv'
  BY <1>1, MigratedWellStep, MigratedNotStep
<1>2. ASSUME NEW ok \in BOOLEAN, PassphraseStored(ok)
      PROVE  Inv'
  BY <1>2, PassphraseSavedStep, PassphraseNotStep
<1>3. GotOld \/ SaveRow \/ Collect \/ Collected \/ End \/ Migrate => Inv'
  BY GotOldStep, SaveRowStep, CollectStep, CollectedStep, EndStep, MigrateStep
<1>4. ASSUME NEW ok \in BOOLEAN, Stored(ok) \/ SaveRowFails(ok) \/ Restored(ok)
      PROVE  Inv'
  BY <1>4, StoredStep, SaveRowFailsStep, RestoredStep
<1> QED
  BY <1>1, <1>2, <1>3, <1>4 DEF Writer

(* A step that changes nothing keeps the invariant.                        *)
LEMMA StutterStep ==
  ASSUME Inv, UNCHANGED vars
  PROVE  Inv'
<1>1. /\ TablesType /\ SecretsType /\ ReadersType /\ WriterType /\ TablesAgree
      /\ Starting /\ LocksHeard /\ SecretsKept /\ WritesKept /\ OldIsKnown
      /\ SecretsKnown /\ PasswordsFit /\ CacheFits
  BY DEF Inv, TypeOK
<1>2. /\ row' = row /\ gc' = gc /\ item' = item /\ lock' = lock /\ gets' = gets
      /\ conns' = conns /\ session' = session /\ cache' = cache /\ w' = w /\ rd' = rd
      /\ tail' = tail /\ calls' = calls /\ faults' = faults /\ lapsed' = lapsed
      /\ upset' = upset /\ raced' = raced /\ stale' = stale
  BY DEF store, keychain, memory, ghosts, vars
<1>3. TablesType' /\ SecretsType' /\ ReadersType' /\ WriterType'
  BY <1>1, <1>2 DEF TablesType, SecretsType, ReadersType, WriterType
<1>4. TablesAgree' /\ Starting' /\ LocksHeard'
  BY <1>1, <1>2 DEF TablesAgree, Starting, LocksHeard
<1>5. SecretsKept' /\ WritesKept'
  BY <1>1, <1>2 DEF SecretsKept, WritesKept, Late, Referenced
<1>6. OldIsKnown' /\ SecretsKnown'
  BY <1>1, <1>2 DEF OldIsKnown, SecretsKnown, Owned, Late, Referenced
<1>7. PasswordsFit' /\ CacheFits'
  BY <1>1, <1>2 DEF PasswordsFit, CacheFits, Steady, Password, Late, Referenced
<1> QED
  BY <1>3, <1>4, <1>5, <1>6, <1>7 DEF Inv, TypeOK

(* The invariant of the credential store: through every interleaving of    *)
(* the operations under secretMu (app.go, app_credentials.go), the         *)
(* keychain calls that outlive their callers (secret_store.go), the dials  *)
(* that read without a lock, failures of SQLite and crashes, for any       *)
(* number of connections, key paths, endpoints and dials.                  *)
THEOREM StoreInvariant == Spec => []Inv
<1>1. Inv /\ [Next]_vars => Inv'
  <2> SUFFICES ASSUME Inv, [Next]_vars PROVE Inv'
    OBVIOUS
  <2>1. ASSUME NEW r \in Readers, Reader(r)
        PROVE  Inv'
    BY <2>1, ResolveStep, BeginUseStep, LookStep, KeepStep, UseStep, ReadGivesUpStep DEF Reader
  <2> QED
    BY <2>1, KeychainStep, BeginStep, WriterStep, CrashStep, DeleteTailStep, StutterStep
       DEF Next
<1> QED
  BY <1>1, InitInv, PTL DEF Spec

(* Every table, keychain item, cache entry and record has its type: in     *)
(* particular an account of a key path only ever holds the passphrase of   *)
(* that key, and one of a password only a password (passwordAccount and    *)
(* passphraseAccount of secret_store.go).                                  *)
THEOREM SecretsHaveTheirType == Spec => []TypeOK
<1>1. Inv => TypeOK
  BY DEF Inv
<1> QED
  BY <1>1, StoreInvariant, PTL

(* A row that says its secret is in the keychain has one there: not the    *)
(* collector (runSecretGC), not a rollback (prepareSecretRollback), not    *)
(* the migration, no late keychain call and no crash takes it away.        *)
THEOREM SecretsAreNeverLost == Spec => []NoSecretIsLost
<1>1. Inv => NoSecretIsLost
  <2> SUFFICES ASSUME Inv, NEW c \in Conns, row[c].saved
               PROVE  item[<<c, row[c].auth>>] # None
    BY DEF NoSecretIsLost
  <2>1. row[c].auth \in Auths
    <3>1. row[c] \in Rows
      BY DEF Inv, TypeOK, TablesType
    <3> QED
      BY <3>1, RowFacts
  <2>2. /\ <<c, row[c].auth>> \in Accounts
        /\ <<c, row[c].auth>>[1] = c /\ <<c, row[c].auth>>[2] = row[c].auth
    BY <2>1, AccountParts
  <2>3. Referenced(<<c, row[c].auth>>)
    BY <2>2 DEF Referenced
  <2> QED
    BY <2>2, <2>3 DEF Inv, SecretsKept
<1> QED
  BY <1>1, StoreInvariant, PTL

(* Every item of the keychain is used by a row, queued in secret_gc or in  *)
(* the hands of the operation at work, but for the accounts that a crash   *)
(* in an operation, a failed write of the queue, an older shared read, a   *)
(* passphrase write that failed or a migration that left its row (also     *)
(* when SQLite refused it after the verified write) has met: no path of    *)
(* SaveConnection, DeleteConnection or the opt-in drops one.               *)
THEOREM SecretsAreNeverForgotten == Spec => []NoSecretIsForgotten
<1>1. Inv => NoSecretIsForgotten
  BY DEF Inv, SecretsKnown, Owned, NoSecretIsForgotten
<1> QED
  BY <1>1, StoreInvariant, PTL

(* Between operations the password in the keychain is the one that was     *)
(* typed for the endpoint in the row: SaveConnection never leaves the      *)
(* password of one host with the address of another, however it fails,     *)
(* unless a keychain call failed or an older read was shared, or the       *)
(* process died between the save's write to the keychain and its row or    *)
(* its rollback.                                                           *)
THEOREM PasswordsFitTheirEndpoint == Spec => []PasswordFitsEndpoint
<1>1. Inv => PasswordFitsEndpoint
  <2> SUFFICES ASSUME Inv, NEW c \in Conns, w.pc = "idle", row[c].saved,
                      row[c].auth = "password", c \notin upset
               PROVE  item[<<c, "password">>] = row[c].ep
    BY DEF PasswordFitsEndpoint
  <2>1. Referenced(<<c, "password">>)
    BY AccountParts DEF Referenced
  <2>2. ~Changing(w)
    BY DEF Changing, For, Calling
  <2> QED
    BY <2>1, <2>2 DEF Inv, PasswordsFit
<1> QED
  BY <1>1, StoreInvariant, PTL

(* Only a dial that a change of its connection overtook is stale: what     *)
(* readSecret takes from a shared read or from the session-only store, and *)
(* what cacheSecret left since forgetSecretsLocked, is the password that a *)
(* read would find now, on every connection without the failures that      *)
(* PasswordFitsEndpoint leaves out.                                        *)
THEOREM OtherDialsAreCurrent == Spec => []OnlyOvertakenDialsAreStale
<1>1. Inv => OnlyOvertakenDialsAreStale
  <2> SUFFICES ASSUME Inv, NEW c \in Conns, w.pc = "idle", conns[c] # NoRow,
                      tail[c] = 0, c \notin upset, Referenced(<<c, "password">>)
               PROVE  /\ c \in stale \/ cache[<<c, "password">>] \in {None, Current(c)}
                      /\ \A r \in Readers \ raced :
                           (rd[r].pc = "keep" /\ rd[r].c = c /\ rd[r].auth = "password")
                             => rd[r].val = Current(c)
    BY DEF OnlyOvertakenDialsAreStale
  <2>1. ~Changing(w)
    BY DEF Changing, For, Calling
  <2>2. Steady(c)
    BY <2>1 DEF Steady
  <2>3. item[<<c, "password">>] = row[c].ep
    BY <2>1 DEF Inv, PasswordsFit
  <2>4. Current(c) = Password(c)
    BY <2>3 DEF Current, Password
  <2> QED
    BY <2>2, <2>4 DEF Inv, CacheFits
<1> QED
  BY <1>1, StoreInvariant, PTL

=============================================================================
