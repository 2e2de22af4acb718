------------------------------ MODULE ConfigApply ------------------------------
(*****************************************************************************)
(* How the configuration file of a headless start meets the database         *)
(* (src/config.go): planSteps decides for every item of the file whether to  *)
(* create, override or keep what the database has, by the record             *)
(* config_applied keeps of the row and of the hash it last wrote, and        *)
(* applyConfig carries the decisions out one by one.  A save, its record and  *)
(* the password the entry names are separate writes: the process may die     *)
(* between them.                                                             *)
(*                                                                           *)
(* A connection is a row [name, val, auth, secret]: val is the hash of the   *)
(* item whose fields it holds, or Web once the web admin has edited it; auth *)
(* is how it logs in; secret is whose password the secret store keeps for it.*)
(*                                                                           *)
(* An item is [name, hash, auth, source]: auth Unset means that the entry     *)
(* does not give it, source is where its password comes from.  The source is *)
(* no part of the hash.  A password or passphrase that is only put in memory  *)
(* for this process is left out, and so is the endpoint of a row.            *)
(*****************************************************************************)
EXTENDS Naturals, Sequences, FiniteSets

CONSTANTS
  MaxId,   \* bound: connections ever made (IDs are never used twice)
  Names,   \* names of connections
  Files    \* the configuration files an operator may start with: records
           \* [conns, mcp, policy, enforce, prune]; conns is a sequence of
           \* items, mcp and policy are hashes (0: not in the file)

\* The content of a row or of settings as the web admin last saved it (no item's
\* hash).
Web == 0

\* No connection.
NoConn == 0

\* conn.usesPassword(), and what an entry says of it.
Auths == {"password", "key"}
Unset == "unset"

\* passwordEnv, passwordFile, or neither.
Sources == {"none", "env", "file"}

VARIABLES
  rows,      \* the connections table: ID -> row
  settings,  \* the MCP settings row: "mcp" and "policy" -> hash of the item or Web
  applied,   \* config_applied: key -> [id, hash]
  file,      \* the file of this start
  steps,     \* the plan
  at,        \* the step being carried out
  saved,     \* what that step saves or deletes is written, its record not yet
  lastId,    \* the ID given out last
  binding,   \* the step is written and recorded, the secret of its entry is next
  bound,     \* rows whose password an environment variable serves in this process
  matched    \* history: item key -> its hash when a step about it last finished,
             \* until the item is pruned

confVars == <<rows, settings, applied, file, steps, at, saved, binding, lastId, bound, matched>>

Ids == 1..MaxId
Parts == {"mcp", "policy"}

Items == [name : Names, hash : Nat \ {Web}, auth : Auths \union {Unset}, source : Sources]

\* What validateConfig lets through: no two connections have one name, and only
\* an entry of a password connection names a password.  The hash of an item is
\* none that means Web; the records of connections and of the two sections have
\* keys of different kinds.
ValidFile(f) ==
  /\ f \in [conns : Seq(Items), mcp : Nat, policy : Nat, enforce : BOOLEAN, prune : BOOLEAN]
  /\ \A i, j \in DOMAIN f.conns : f.conns[i].name = f.conns[j].name => i = j
  /\ \A i \in DOMAIN f.conns : f.conns[i].source # "none" => f.conns[i].auth = "password"

FilesAreValid == Names \cap Parts = {} /\ \A f \in Files : ValidFile(f)

ASSUME ConfigAssumption == FilesAreValid

NoFile == [conns |-> <<>>, mcp |-> 0, policy |-> 0, enforce |-> FALSE, prune |-> FALSE]

ConfInit ==
  /\ rows = << >>
  /\ settings = [p \in Parts |-> Web]
  /\ applied = << >>
  /\ file = NoFile
  /\ steps = << >>
  /\ at = 1
  /\ saved = FALSE
  /\ binding = FALSE
  /\ lastId = 0
  /\ bound = {}
  /\ matched = << >>

WithKey(f, k, v) == [x \in DOMAIN f \union {k} |-> IF x = k THEN v ELSE f[x]]
WithoutKey(f, k) == [x \in DOMAIN f \ {k} |-> f[x]]

-----------------------------------------------------------------------------
(* Planning: planSteps.  Nothing is written.                                 *)

\* The row of an item: the one config_applied names, else the one that has
\* its name.
byRecord(key) ==
  IF key \in DOMAIN applied /\ applied[key].id \in DOMAIN rows
    THEN applied[key].id ELSE NoConn

byName(key) ==
  LET named == {id \in DOMAIN rows : rows[id].name = key}
  IN  IF named = {} THEN NoConn ELSE CHOOSE id \in named : TRUE

Row(key) == IF byRecord(key) # NoConn THEN byRecord(key) ELSE byName(key)

\* A row serves one item only.
Unclaimed_Any(id, taken) == id
Unclaimed(id, taken) == IF id \in taken THEN NoConn ELSE id

Unchanged(f, key, hash) ==
  /\ key \in DOMAIN applied
  /\ applied[key].hash = hash
  /\ ~f.enforce

\* The rows the first n items of the file have claimed: each claims the row it
\* finds, or finds it claimed already.
claimed(f, n) == {Row(f.conns[i].name) : i \in 1..n} \ {NoConn}

\* The decision on a connection of the file.
Decide(f, i) ==
  LET item == f.conns[i]
      id   == Unclaimed(Row(item.name), claimed(f, i - 1))
  IN  [kind   |-> "connection", key |-> item.name, hash |-> item.hash, id |-> id,
       action |-> IF id = NoConn THEN "create"
                  ELSE IF Unchanged(f, item.name, item.hash) THEN "keep" ELSE "override"]

Listed(f) == [i \in DOMAIN f.conns |-> Decide(f, i)]

\* The records of connections the file no longer lists.  Their rows go with
\* prune, unless an item of the file has taken the row over.
gone(f) == {k \in DOMAIN applied \ Parts : \A i \in DOMAIN f.conns : f.conns[i].name # k}

PruneId(f, key) ==
  IF byRecord(key) \in claimed(f, Len(f.conns)) THEN NoConn ELSE byRecord(key)

\* They come in key order in the code, in any order here.
Orders(S) ==
  {s \in [1..Cardinality(S) -> S] : \A i, j \in DOMAIN s : s[i] = s[j] => i = j}

Gone(f, order) ==
  [i \in DOMAIN order |->
     [kind |-> "gone", key |-> order[i], hash |-> 0,
      id |-> IF f.prune THEN PruneId(f, order[i]) ELSE NoConn,
      action |-> IF f.prune THEN "prune" ELSE "removed"]]

\* The decision on the mcp or the policy section, if the file has it.
Section(f, p) ==
  IF f[p] = 0 THEN <<>>
  ELSE <<[kind |-> "settings", key |-> p, hash |-> f[p], id |-> NoConn,
          action |-> IF Unchanged(f, p, f[p]) THEN "keep" ELSE "override"]>>

planSteps(f, order) == Listed(f) \o Gone(f, order) \o Section(f, "mcp") \o Section(f, "policy")

-----------------------------------------------------------------------------
(* Applying: applyConfig, one write at a time.                               *)

\* The file is read and the plan made.
Plan(f) ==
  /\ file' = f
  /\ \E order \in Orders(gone(f)) : steps' = planSteps(f, order)
  /\ at' = 1
  /\ saved' = FALSE /\ binding' = FALSE
  /\ bound' = {}
  /\ UNCHANGED <<rows, settings, applied, lastId, matched>>

\* The file and the plan go when applyConfig returns.
Forget ==
  /\ file' = NoFile /\ steps' = <<>> /\ at' = 1 /\ saved' = FALSE /\ binding' = FALSE
  /\ UNCHANGED <<rows, settings, applied, lastId, bound, matched>>

step == steps[at]
StepsLeft == at <= Len(steps)

\* The entry of a step: the plan begins with the items of the file.
entry == file.conns[at]

\* A step begins with nothing written yet, and the next one follows it.
Begins == StepsLeft /\ ~saved /\ ~binding
Skip == at' = at + 1 /\ saved' = FALSE /\ binding' = FALSE

\* SaveConnection refuses a name that another row has, and a row that is gone.
saveConflict(id, name) ==
  \/ \E r \in DOMAIN rows : r # id /\ rows[r].name = name
  \/ id # NoConn /\ id \notin DOMAIN rows

\* The row with the fields the entry gives written over it (toConnection for a
\* new one, a key connection unless the entry says otherwise).  The password the
\* store keeps stays as long as the connection goes on using one.
Overlaid(id) ==
  LET auth  == IF entry.auth # Unset THEN entry.auth
               ELSE IF id = NoConn THEN "key" ELSE rows[id].auth
      keeps == id # NoConn /\ auth = "password" /\ rows[id].auth = "password"
  IN  [name |-> step.key, val |-> step.hash, auth |-> auth,
       secret |-> IF keeps THEN rows[id].secret ELSE "none"]

\* create, override: the first write.
Save ==
  /\ Begins /\ step.action \in {"create", "override"} /\ step.kind = "connection"
  /\ ~saveConflict(step.id, step.key)
  /\ step.id = NoConn => lastId < MaxId
  /\ LET id == IF step.id = NoConn THEN lastId + 1 ELSE step.id
     IN  /\ rows' = WithKey(rows, id, Overlaid(step.id))
         /\ steps' = [steps EXCEPT ![at].id = id]
         /\ lastId' = IF step.id = NoConn THEN id ELSE lastId
  /\ saved' = TRUE
  /\ UNCHANGED <<settings, applied, file, at, binding, bound, matched>>

\* create, override: the second write.
Record ==
  /\ StepsLeft /\ step.kind = "connection" /\ saved
  /\ applied' = WithKey(applied, step.key, [id |-> step.id, hash |-> step.hash])
  /\ matched' = WithKey(matched, step.key, step.hash)
  /\ saved' = FALSE /\ binding' = TRUE
  /\ UNCHANGED <<rows, settings, file, steps, at, lastId, bound>>

\* keep: nothing is written, the record keeps its ID.
Keep ==
  /\ Begins /\ step.action = "keep" /\ step.kind = "connection"
  /\ matched' = WithKey(matched, step.key, step.hash)
  /\ binding' = TRUE
  /\ UNCHANGED <<rows, settings, applied, file, steps, at, saved, lastId, bound>>

\* bindConfigSecrets, for every listed item, kept or not.  A row that uses a
\* password has its account bound to the variable of passwordEnv, set or not
\* (the save that follows writes nothing: Set of a bound account only compares),
\* or the password of passwordFile saved over the one the store has.
Bound == step.id \in DOMAIN rows /\ rows[step.id].auth = "password"

BindEnv ==
  /\ Bound /\ entry.source = "env"
  /\ bound' = bound \union {step.id}
  /\ UNCHANGED rows

BindFile ==
  /\ Bound /\ entry.source = "file"
  /\ rows' = [rows EXCEPT ![step.id].secret = "file"]
  /\ UNCHANGED bound

\* No password to bind, or passwordFile cannot be read, or its password not be
\* saved (it may still serve this process): a note, and the start goes on.
BindNothing ==
  /\ Bound => entry.source \in {"none", "file"}
  /\ UNCHANGED <<rows, bound>>

Bind ==
  /\ StepsLeft /\ binding
  /\ BindEnv \/ BindFile \/ BindNothing
  /\ Skip
  /\ UNCHANGED <<settings, applied, file, steps, lastId, matched>>

\* prune: the row is deleted, then its record; removed is only logged.
PruneRow ==
  /\ StepsLeft /\ step.action = "prune" /\ step.id \in DOMAIN rows
  /\ rows' = WithoutKey(rows, step.id)
  /\ saved' = TRUE
  /\ UNCHANGED <<settings, applied, file, steps, at, binding, lastId, bound, matched>>

PruneRecord ==
  /\ StepsLeft /\ step.action = "prune" /\ (saved \/ step.id = NoConn)
  /\ applied' = WithoutKey(applied, step.key)
  /\ matched' = WithoutKey(matched, step.key)
  /\ Skip
  /\ UNCHANGED <<rows, settings, file, steps, lastId, bound>>

Removed ==
  /\ StepsLeft /\ step.action = "removed"
  /\ Skip
  /\ UNCHANGED <<rows, settings, applied, file, steps, lastId, bound, matched>>

\* mcp, policy: the first section to be overridden saves the merged settings,
\* with what every overridden section changes, and each leaves its record.
Overridden_All == {steps[i].key : i \in {j \in DOMAIN steps : steps[j].kind = "settings"}}
Overridden ==
  {steps[i].key : i \in {j \in DOMAIN steps : steps[j].kind = "settings" /\ steps[j].action = "override"}}

\* The settings with the fields of the overridden sections written over them.
overlay == [p \in Parts |-> IF p \in Overridden THEN file[p] ELSE settings[p]]

mcpSaved == \E i \in 1..(at - 1) : steps[i].kind = "settings" /\ steps[i].action = "override"

SaveSettings ==
  /\ StepsLeft /\ step.kind = "settings" /\ step.action = "override" /\ ~saved /\ ~mcpSaved
  /\ settings' = overlay
  /\ saved' = TRUE
  /\ UNCHANGED <<rows, applied, file, steps, at, binding, lastId, bound, matched>>

RecordSettings ==
  /\ StepsLeft /\ step.kind = "settings" /\ step.action = "override"
  /\ saved \/ mcpSaved
  /\ applied' = WithKey(applied, step.key, [id |-> NoConn, hash |-> step.hash])
  /\ matched' = WithKey(matched, step.key, step.hash)
  /\ Skip
  /\ UNCHANGED <<rows, settings, file, steps, lastId, bound>>

KeepSettings ==
  /\ StepsLeft /\ step.kind = "settings" /\ step.action = "keep"
  /\ matched' = WithKey(matched, step.key, step.hash)
  /\ Skip
  /\ UNCHANGED <<rows, settings, applied, file, steps, lastId, bound>>

\* SaveConnection refuses to take a row that goes on using a password to a new
\* endpoint, since the entry brings no password along (password_required).  The
\* fields an entry changes may or may not be those of the endpoint.
mayNeedPassword ==
  /\ step.id \in DOMAIN rows
  /\ rows[step.id].auth = "password" /\ entry.auth # "key"
  /\ rows[step.id].val # step.hash

\* A step is refused: the save meets another row of that name or needs a
\* password, or the row to be pruned went with another record.  applyConfig
\* returns and the start fails.
Refused ==
  /\ Begins
  /\ \/ /\ step.action \in {"create", "override"} /\ step.kind = "connection"
        /\ saveConflict(step.id, step.key) \/ mayNeedPassword
     \/ step.action = "prune" /\ step.id # NoConn /\ step.id \notin DOMAIN rows

Apply ==
  \/ Save \/ Record \/ Keep \/ Bind \/ PruneRow \/ PruneRecord \/ Removed
  \/ SaveSettings \/ RecordSettings \/ KeepSettings

AppliedAll == ~StepsLeft

-----------------------------------------------------------------------------
(* What the web admin does to the same rows while the program serves.        *)

\* A typed password goes to the secret store; the variable of a bound account
\* cannot be changed there, so the save is refused.
SaveNew(name, auth, typed) ==
  /\ ~saveConflict(NoConn, name)
  /\ typed => auth = "password"
  /\ lastId < MaxId
  /\ rows' = WithKey(rows, lastId + 1,
                     [name |-> name, val |-> Web, auth |-> auth, secret |-> IF typed THEN "web" ELSE "none"])
  /\ lastId' = lastId + 1
  /\ UNCHANGED settings

\* An edit, of the name too.
SaveEdit(id, name, auth, typed) ==
  /\ id \in DOMAIN rows
  /\ ~saveConflict(id, name)
  /\ typed => auth = "password" /\ id \notin bound
  /\ rows' = [rows EXCEPT ![id] =
       [name |-> name, val |-> Web, auth |-> auth,
        secret |-> IF typed THEN "web"
                   ELSE IF auth = "password" /\ rows[id].auth = "password" THEN rows[id].secret
                   ELSE "none"]]
  /\ UNCHANGED <<settings, lastId>>

DeleteRow(id) ==
  /\ id \in DOMAIN rows
  /\ rows' = WithoutKey(rows, id)
  /\ UNCHANGED <<settings, lastId>>

SaveMCPSettings(p) ==
  /\ settings' = [settings EXCEPT ![p] = Web]
  /\ UNCHANGED <<rows, lastId>>

Edit ==
  /\ \/ \E n \in Names, a \in Auths, t \in BOOLEAN : SaveNew(n, a, t)
     \/ \E id \in Ids, n \in Names, a \in Auths, t \in BOOLEAN : SaveEdit(id, n, a, t)
     \/ \E id \in Ids : DeleteRow(id)
     \/ \E p \in Parts : SaveMCPSettings(p)
  /\ UNCHANGED <<applied, file, steps, at, saved, binding, bound, matched>>

-----------------------------------------------------------------------------
(* Properties                                                                *)

\* When the file is applied, every connection it lists has a row of its own
\* that exists, with its record current: no two items share a row, and prune
\* took none of theirs away (planSteps: claimed).
EveryItemHasItsRow ==
  LET listed == {i \in DOMAIN steps : steps[i].kind = "connection"}
  IN  AppliedAll =>
        /\ \A i \in listed :
             /\ steps[i].id \in DOMAIN rows
             /\ applied[steps[i].key].hash = steps[i].hash
        /\ \A i, j \in listed : steps[i].id = steps[j].id => i = j

\* A start does not undo what the web admin saved (seed mode): the item a step
\* is about changes nothing but a password when it has not changed since a step
\* about it last finished, whichever row it meets and also when an earlier start
\* died halfway.  The password is the exception the code makes on every start: one
\* the web admin saved is replaced by passwordFile's, and only in a row that
\* still uses a password.  An edited section stays in the same way.
EditsSurvive ==
  [][\/ ~Apply
     \/ file.enforce
     \/ /\ \A id \in DOMAIN rows \intersect DOMAIN rows' :
             \/ rows'[id] = rows[id]
             \/ step.key \notin DOMAIN matched \/ matched[step.key] # step.hash
             \/ /\ entry.source = "file" /\ entry.name = step.key /\ rows[id].auth = "password"
                /\ rows'[id] = [rows[id] EXCEPT !.secret = "file"]
        /\ \A p \in Parts :
             (settings[p] = Web /\ settings'[p] # Web)
               => p \notin DOMAIN matched \/ matched[p] # file[p]]_confVars

=============================================================================
