---------------------------- MODULE SessionProofs ----------------------------
(***************************************************************************)
(* However opens and closes of AI sessions overtake each other, no         *)
(* connection is left without an owner, the row of a session is closed by  *)
(* whoever comes last, and a retry is answered with a session that is      *)
(* there: for any number of calls, agents, keys, limits and failures.      *)
(***************************************************************************)
EXTENDS AISessions, TLAPS

PCs == {"idle", "waiting", "registered", "dialing", "dialed", "inserted", "late", "installing",
        "abandon", "opened", "announce", "awaiting", "cleanup", "clean", "returned", "dead"}
Closers == {"no", "notify", "handle", "await", "stuck", "settle", "finish", "record", "retire",
            "done"}
Links == {None, "held", "stored", "ended", "closed"}

Typed ==
    /\ up \in BOOLEAN
    /\ live \in SUBSET Calls
    /\ told \in SUBSET Calls
    /\ byIdem \in [Agents -> [Keys -> Calls \cup {None}]]
    /\ sstate \in [Calls -> {None, "opening", "idle", "closing", "closed"}]
    /\ transport \in [Calls -> Links]
    /\ once \in [Calls -> {None, "close", "open"}]
    /\ openDone \in [Calls -> BOOLEAN]
    /\ done \in [Calls -> BOOLEAN]
    /\ row \in [Calls -> {None, "open", "closed"}]
    /\ rowInserted \in [Calls -> BOOLEAN]
    /\ closeRecorded \in [Calls -> BOOLEAN]
    /\ pc \in [Calls -> PCs]
    /\ failed \in [Calls -> BOOLEAN]
    /\ ref \in [Calls -> Calls \cup {None}]
    /\ answer \in [Calls -> Calls \cup {None, "error"}]
    /\ closer \in [Calls -> Closers]
    /\ grabbed \in [Calls -> BOOLEAN]
    /\ faults \in Nat

(* Before its registration a session has nothing, and nobody knows it; a   *)
(* call that waits for another's session never gets one.                   *)
Unborn(s) ==
    pc[s] \in {"idle", "waiting"} =>
        /\ s \notin live \cup told
        /\ sstate[s] = None /\ closer[s] = "no" /\ once[s] = None
        /\ ~done[s] /\ ~openDone[s] /\ ~failed[s]
        /\ ~rowInserted[s] /\ ~closeRecorded[s]
        /\ answer[s] = None

(* The process is down for all or for none.                                *)
Life(s) ==
    /\ pc[s] = "dead" <=> ~up
    /\ s \in live \cup told => sstate[s] # None

(* Who has the connection, by where the open is.                           *)
Owned(s) ==
    /\ pc[s] \in {"idle", "waiting", "registered", "dialing"} => transport[s] = None /\ ~failed[s]
    /\ pc[s] \in {"dialed", "inserted", "late", "abandon"} => transport[s] = "held" /\ ~failed[s]
    /\ pc[s] = "installing" =>
          IF failed[s] THEN transport[s] \in {None, "closed"} ELSE transport[s] = "held"
    /\ pc[s] \in {"announce", "awaiting", "cleanup", "clean", "dead"} => transport[s] \in {None, "closed"}
    /\ pc[s] \in {"opened", "returned"} => transport[s] # "held"
    /\ pc[s] = "opened" => ~failed[s]
    /\ pc[s] \in {"cleanup", "clean"} => failed[s]

(* What close() knows: it is alone, the session is over, and a connection  *)
(* that was installed before is the one it grabbed.                        *)
Closing(s) ==
    /\ once[s] = "close" => closer[s] # "no" /\ (up => sstate[s] \in {"closing", "closed"})
    /\ up /\ closer[s] # "no" => once[s] = "close"
    /\ closer[s] \in {"finish", "record", "retire", "done"} => transport[s] \notin {"stored", "ended"}
    /\ closer[s] = "settle" /\ transport[s] \in {"stored", "ended"} => grabbed[s]
    /\ grabbed[s] => transport[s] \in {"stored", "ended", "closed"}
    /\ up /\ closer[s] \in {"record", "retire", "done"} => sstate[s] = "closed"
    /\ sstate[s] = "closed" /\ up => once[s] = "open" \/ closer[s] \in {"record", "retire", "done"}

(* A session with a connection is in the registry.                         *)
Registered(s) ==
    /\ transport[s] \in {"stored", "ended"} => s \in live
    /\ /\ sstate[s] = "opening"
       /\ pc[s] \in {"registered", "dialing", "dialed", "inserted", "late", "installing"}
       => s \in live

(* Where the session is, by where its open is.                             *)
Stages(s) ==
    /\ pc[s] \in {"registered", "dialing", "dialed", "inserted", "late", "installing"}
          => sstate[s] \in {"opening", "closing", "closed"}
    /\ pc[s] = "opened" => sstate[s] \in {"idle"} \cup Over
    /\ pc[s] \in {"abandon", "awaiting"} => sstate[s] \in Over
    /\ pc[s] = "announce" /\ ~failed[s] => sstate[s] \in Over
    /\ openDone[s] => pc[s] \in {"awaiting", "cleanup", "clean", "returned", "dead"}
    /\ openDone[s] /\ pc[s] = "returned" => sstate[s] \in {"idle"} \cup Over
    /\ once[s] = "open" => pc[s] \in {"clean", "returned", "dead"} /\ failed[s]
    /\ pc[s] = "clean" => once[s] = "open"
    /\ pc[s] = "returned" /\ once[s] = "open" => sstate[s] = "closed"

(* Who records the close.                                                  *)
Rows(s) ==
    /\ pc[s] \in {"idle", "waiting", "registered", "dialing", "dialed"} \/ failed[s] => row[s] = None
    /\ rowInserted[s] \/ pc[s] = "inserted" => row[s] # None
    /\ closeRecorded[s] => rowInserted[s]
    /\ row[s] # None => rowInserted[s] \/ pc[s] \in {"inserted", "dead"}
    /\ closeRecorded[s] /\ faults = 0 => row[s] = "closed" \/ pc[s] \in {"late", "dead"} \/ closer[s] = "record"
    /\ up /\ closer[s] \in {"retire", "done"} /\ rowInserted[s] => closeRecorded[s]
    /\ done[s] /\ up => once[s] = "open" \/ closer[s] = "done"
    /\ pc[s] = "late" \/ closer[s] = "record" => rowInserted[s] /\ closeRecorded[s]

Waits(c) == pc[c] = "waiting" => ref[c] \in Calls

SessionOK(s) ==
    Unborn(s) /\ Life(s) /\ Owned(s) /\ Closing(s) /\ Registered(s) /\ Stages(s) /\ Rows(s) /\ Waits(s)

SessionInv == Typed /\ \A s \in Calls : SessionOK(s)

(* A step that leaves session s alone.                                     *)
Same(s) ==
    /\ s \in live' <=> s \in live
    /\ s \in told' <=> s \in told
    /\ sstate'[s] = sstate[s]
    /\ transport'[s] = transport[s]
    /\ once'[s] = once[s]
    /\ openDone'[s] = openDone[s]
    /\ done'[s] = done[s]
    /\ row'[s] = row[s]
    /\ rowInserted'[s] = rowInserted[s]
    /\ closeRecorded'[s] = closeRecorded[s]
    /\ pc'[s] = pc[s]
    /\ failed'[s] = failed[s]
    /\ ref'[s] = ref[s]
    /\ answer'[s] = answer[s]
    /\ closer'[s] = closer[s]
    /\ grabbed'[s] = grabbed[s]

USE DEF None, Over, Set, managerVars, nameVars, sessionVars, rowVars, callVars, closerVars

-----------------------------------------------------------------------------
LEMMA SessionInit == Init => SessionInv
BY DEF Init, SessionInv, Typed, SessionOK, Unborn, Life, Owned, Closing, Registered, Stages, Rows,
   Waits, PCs, Closers, Links

LEMMA Elsewhere ==
    ASSUME SessionInv, NEW s \in Calls, Same(s), up' = up, faults' = 0 => faults = 0
    PROVE  SessionOK(s)'
BY DEF SessionInv, SessionOK, Same, Unborn, Life, Owned, Closing, Registered, Stages, Rows, Waits

(* A step of one session.                                                  *)
LEMMA OneSession ==
    ASSUME SessionInv, NEW c \in Calls, Typed', SessionOK(c)', \A s \in Calls \ {c} : Same(s),
           up' = up, faults' = 0 => faults = 0
    PROVE  SessionInv'
BY Elsewhere DEF SessionInv

LEMMA UnregisterTyped ==
    ASSUME Typed, NEW s \in Calls, Unregister(s)
    PROVE  live' \in SUBSET Calls /\ byIdem' \in [Agents -> [Keys -> Calls \cup {None}]]
BY DEF Typed, Unregister

LEMMA OpenKeeps ==
    ASSUME SessionInv, NEW c \in Calls, NEW a \in Agents, NEW k \in Keys \cup {None}, Open(c, a, k)
    PROVE  SessionInv'
<1>1. Typed'
  BY DEF SessionInv, Typed, PCs, Open
<1>2. SessionOK(c)'
  <2>1. Unborn(c)'
    BY DEF SessionInv, Typed, SessionOK, Unborn, Open
  <2>2. Life(c)'
    BY DEF SessionInv, Typed, SessionOK, Life, Unborn, Open
  <2>3. Owned(c)'
    BY DEF SessionInv, Typed, SessionOK, Owned, Stages, Open
  <2>4. Closing(c)'
    BY DEF SessionInv, Typed, SessionOK, Closing, Stages, Owned, Unborn, Life, Open
  <2>5. Registered(c)'
    BY DEF SessionInv, Typed, SessionOK, Registered, Owned, Closing, Unborn, Open
  <2>6. Stages(c)'
    BY DEF SessionInv, Typed, SessionOK, Stages, Closing, Unborn, Owned, Life, Open
  <2>7. Rows(c)'
    BY DEF SessionInv, Typed, SessionOK, Rows, Closing, Stages, Unborn, Owned, Life, Open
  <2>8. Waits(c)'
    BY DEF SessionInv, Typed, SessionOK, Waits, Open
  <2> QED
    BY <2>1, <2>2, <2>3, <2>4, <2>5, <2>6, <2>7, <2>8 DEF SessionOK
<1>3. \A s \in Calls \ {c} : Same(s)
  BY DEF SessionInv, Typed, Same, Open
<1>4. up' = up /\ (faults' = 0 => faults = 0)
  BY DEF SessionInv, Typed, Open
<1> QED
  BY <1>1, <1>2, <1>3, <1>4, OneSession

LEMMA OpenAgainKeeps ==
    ASSUME SessionInv, NEW c \in Calls, NEW a \in Agents, NEW k \in Keys \cup {None}, OpenAgain(c, a, k)
    PROVE  SessionInv'
<1>1. Typed'
  BY DEF SessionInv, Typed, PCs, OpenAgain, Earlier
<1>2. SessionOK(c)'
  <2>1. Closing(c)'
    BY DEF SessionInv, SessionOK, Closing, OpenAgain
  <2>2. Unborn(c)'
    BY DEF SessionInv, Typed, SessionOK, Unborn, OpenAgain, Earlier
  <2>3. Life(c)'
    BY DEF SessionInv, Typed, SessionOK, Life, Unborn, OpenAgain, Earlier
  <2>4. Owned(c)'
    BY DEF SessionInv, Typed, SessionOK, Owned, Stages, OpenAgain, Earlier
  <2>5. Registered(c)'
    BY DEF SessionInv, Typed, SessionOK, Registered, Owned, Closing, Unborn, OpenAgain, Earlier
  <2>6. Stages(c)'
    BY DEF SessionInv, Typed, SessionOK, Stages, Closing, Unborn, Owned, Life, OpenAgain, Earlier
  <2>7. Rows(c)'
    BY DEF SessionInv, Typed, SessionOK, Rows, Closing, Stages, Unborn, Owned, Life, OpenAgain,
       Earlier
  <2>8. Waits(c)'
    BY DEF SessionInv, Typed, SessionOK, Waits, OpenAgain, Earlier
  <2> QED
    BY <2>1, <2>2, <2>3, <2>4, <2>5, <2>6, <2>7, <2>8 DEF SessionOK
<1>3. \A s \in Calls \ {c} : Same(s)
  BY DEF SessionInv, Typed, Same, OpenAgain, Earlier
<1>4. up' = up /\ (faults' = 0 => faults = 0)
  BY DEF SessionInv, Typed, OpenAgain, Earlier
<1> QED
  BY <1>1, <1>2, <1>3, <1>4, OneSession

LEMMA DeduplicateKeeps ==
    ASSUME SessionInv, NEW c \in Calls, Deduplicate(c) PROVE SessionInv'
<1>1. Typed'
  BY DEF SessionInv, Typed, PCs, Deduplicate
<1>2. SessionOK(c)'
  <2>1. Closing(c)'
    BY DEF SessionInv, SessionOK, Closing, Deduplicate
  <2>2. Unborn(c)'
    BY DEF SessionInv, Typed, SessionOK, Unborn, Deduplicate
  <2>3. Life(c)'
    BY DEF SessionInv, Typed, SessionOK, Life, Unborn, Deduplicate
  <2>4. Owned(c)'
    BY DEF SessionInv, Typed, SessionOK, Owned, Stages, Deduplicate
  <2>5. Registered(c)'
    BY DEF SessionInv, Typed, SessionOK, Registered, Owned, Closing, Unborn, Deduplicate
  <2>6. Stages(c)'
    BY DEF SessionInv, Typed, SessionOK, Stages, Closing, Unborn, Owned, Life, Deduplicate
  <2>7. Rows(c)'
    BY DEF SessionInv, Typed, SessionOK, Rows, Closing, Stages, Unborn, Owned, Life, Deduplicate
  <2>8. Waits(c)'
    BY DEF SessionInv, Typed, SessionOK, Waits, Deduplicate
  <2> QED
    BY <2>1, <2>2, <2>3, <2>4, <2>5, <2>6, <2>7, <2>8 DEF SessionOK
<1>3. \A s \in Calls \ {c} : Same(s)
  BY DEF SessionInv, Typed, Same, Deduplicate
<1>4. up' = up /\ (faults' = 0 => faults = 0)
  BY DEF SessionInv, Typed, Deduplicate
<1> QED
  BY <1>1, <1>2, <1>3, <1>4, OneSession

LEMMA MakeOutputKeeps ==
    ASSUME SessionInv, NEW c \in Calls, MakeOutput(c) PROVE SessionInv'
<1>1. Typed'
  BY DEF SessionInv, Typed, PCs, MakeOutput
<1>2. SessionOK(c)'
  <2>1. Closing(c)'
    BY DEF SessionInv, SessionOK, Closing, MakeOutput
  <2>2. Unborn(c)'
    BY DEF SessionInv, Typed, SessionOK, Unborn, MakeOutput
  <2>3. Life(c)'
    BY DEF SessionInv, Typed, SessionOK, Life, Unborn, MakeOutput
  <2>4. Owned(c)'
    BY DEF SessionInv, Typed, SessionOK, Owned, Stages, MakeOutput
  <2>5. Registered(c)'
    BY DEF SessionInv, Typed, SessionOK, Registered, Owned, Closing, Unborn, MakeOutput
  <2>6. Stages(c)'
    BY DEF SessionInv, Typed, SessionOK, Stages, Closing, Unborn, Owned, Life, MakeOutput
  <2>7. Rows(c)'
    BY DEF SessionInv, Typed, SessionOK, Rows, Closing, Stages, Unborn, Owned, Life, MakeOutput
  <2>8. Waits(c)'
    BY DEF SessionInv, Typed, SessionOK, Waits, MakeOutput
  <2> QED
    BY <2>1, <2>2, <2>3, <2>4, <2>5, <2>6, <2>7, <2>8 DEF SessionOK
<1>3. \A s \in Calls \ {c} : Same(s)
  BY DEF SessionInv, Typed, Same, MakeOutput
<1>4. up' = up /\ (faults' = 0 => faults = 0)
  BY DEF SessionInv, Typed, MakeOutput
<1> QED
  BY <1>1, <1>2, <1>3, <1>4, OneSession

LEMMA DialKeeps ==
    ASSUME SessionInv, NEW c \in Calls, Dial(c) PROVE SessionInv'
<1>1. Typed'
  <2>1. pc' \in [Calls -> PCs]
    BY DEF SessionInv, Typed, PCs, Dial
  <2>2. transport' \in [Calls -> Links] /\ failed' \in [Calls -> BOOLEAN]
    BY SMTT(30), ZenonT(60) DEF SessionInv, Typed, Links, Dial
  <2> QED
    BY <2>1, <2>2 DEF SessionInv, Typed, Dial
<1>2. SessionOK(c)'
  <2>1. Unborn(c)'
    BY DEF SessionInv, Typed, SessionOK, Unborn, Dial
  <2>2. Life(c)'
    BY DEF SessionInv, Typed, SessionOK, Life, Unborn, Dial
  <2>3. Owned(c)'
    BY DEF SessionInv, Typed, SessionOK, Owned, Stages, Dial
  <2>4. Closing(c)'
    BY DEF SessionInv, Typed, SessionOK, Closing, Stages, Owned, Unborn, Life, Dial
  <2>5. Registered(c)'
    BY DEF SessionInv, Typed, SessionOK, Registered, Owned, Closing, Unborn, Dial
  <2>6. Stages(c)'
    BY DEF SessionInv, Typed, SessionOK, Stages, Closing, Unborn, Owned, Life, Dial
  <2>7. Rows(c)'
    BY DEF SessionInv, Typed, SessionOK, Rows, Closing, Stages, Unborn, Owned, Life, Dial
  <2>8. Waits(c)'
    BY DEF SessionInv, Typed, SessionOK, Waits, Dial
  <2> QED
    BY <2>1, <2>2, <2>3, <2>4, <2>5, <2>6, <2>7, <2>8 DEF SessionOK
<1>3. \A s \in Calls \ {c} : Same(s)
  BY DEF SessionInv, Typed, Same, Dial
<1>4. up' = up /\ (faults' = 0 => faults = 0)
  BY DEF SessionInv, Typed, Dial
<1> QED
  BY <1>1, <1>2, <1>3, <1>4, OneSession

LEMMA OnOpenKeeps ==
    ASSUME SessionInv, NEW c \in Calls, OnOpen(c) PROVE SessionInv'
<1>1. Typed'
  BY DEF SessionInv, Typed, PCs, Links, OnOpen, Stored
<1>2. SessionOK(c)'
  <2>1. Unborn(c)'
    BY DEF SessionInv, Typed, SessionOK, Unborn, OnOpen, Stored
  <2>2. Life(c)'
    BY DEF SessionInv, Typed, SessionOK, Life, Unborn, OnOpen, Stored
  <2>3. Owned(c)'
    BY DEF SessionInv, Typed, SessionOK, Unborn, Life, Owned, Closing, Registered, Stages, Rows,
       Waits, OnOpen, Stored
  <2>4. Closing(c)'
    BY DEF SessionInv, Typed, SessionOK, Closing, Stages, Owned, Unborn, Life, OnOpen, Stored
  <2>5. Registered(c)'
    BY DEF SessionInv, Typed, SessionOK, Registered, Owned, Closing, Unborn, OnOpen, Stored
  <2>6. Stages(c)'
    BY DEF SessionInv, Typed, SessionOK, Stages, Closing, Unborn, Owned, Life, OnOpen, Stored
  <2>7. Rows(c)'
    BY DEF SessionInv, Typed, SessionOK, Rows, Closing, Stages, Unborn, Owned, Life, OnOpen,
       Stored
  <2>8. Waits(c)'
    BY DEF SessionInv, Typed, SessionOK, Waits, OnOpen, Stored
  <2> QED
    BY <2>1, <2>2, <2>3, <2>4, <2>5, <2>6, <2>7, <2>8 DEF SessionOK
<1>3. \A s \in Calls \ {c} : Same(s)
  BY DEF SessionInv, Typed, Same, OnOpen, Stored
<1>4. up' = up /\ (faults' = 0 => faults = 0)
  BY DEF SessionInv, Typed, OnOpen, Stored
<1> QED
  BY <1>1, <1>2, <1>3, <1>4, OneSession

LEMMA NoteRowKeeps ==
    ASSUME SessionInv, NEW c \in Calls, NoteRow(c) PROVE SessionInv'
<1>1. Typed'
  BY DEF SessionInv, Typed, PCs, NoteRow
<1>2. SessionOK(c)'
  <2>1. Closing(c)'
    BY DEF SessionInv, SessionOK, Closing, NoteRow
  <2>2. Unborn(c)'
    BY DEF SessionInv, Typed, SessionOK, Unborn, NoteRow
  <2>3. Life(c)'
    BY DEF SessionInv, Typed, SessionOK, Life, Unborn, NoteRow
  <2>4. Owned(c)'
    BY DEF SessionInv, Typed, SessionOK, Owned, Stages, NoteRow
  <2>5. Registered(c)'
    BY DEF SessionInv, Typed, SessionOK, Registered, Owned, Closing, Unborn, NoteRow
  <2>6. Stages(c)'
    BY DEF SessionInv, Typed, SessionOK, Stages, Closing, Unborn, Owned, Life, NoteRow
  <2>7. Rows(c)'
    BY DEF SessionInv, Typed, SessionOK, Rows, Closing, Stages, Unborn, Owned, Life, NoteRow
  <2>8. Waits(c)'
    BY DEF SessionInv, Typed, SessionOK, Waits, NoteRow
  <2> QED
    BY <2>1, <2>2, <2>3, <2>4, <2>5, <2>6, <2>7, <2>8 DEF SessionOK
<1>3. \A s \in Calls \ {c} : Same(s)
  BY DEF SessionInv, Typed, Same, NoteRow
<1>4. up' = up /\ (faults' = 0 => faults = 0)
  BY DEF SessionInv, Typed, NoteRow
<1> QED
  BY <1>1, <1>2, <1>3, <1>4, OneSession

LEMMA RecordLateKeeps ==
    ASSUME SessionInv, NEW c \in Calls, RecordLate(c) PROVE SessionInv'
<1>1. Typed'
  BY DEF SessionInv, Typed, PCs, RecordLate, OnClose, Stored
<1>2. SessionOK(c)'
  <2>1. Closing(c)'
    BY DEF SessionInv, SessionOK, Closing, RecordLate
  <2>2. Unborn(c)'
    BY DEF SessionInv, Typed, SessionOK, Unborn, RecordLate, OnClose, Stored
  <2>3. Life(c)'
    BY DEF SessionInv, Typed, SessionOK, Life, Unborn, RecordLate, OnClose, Stored
  <2>4. Owned(c)'
    BY DEF SessionInv, Typed, SessionOK, Owned, Stages, RecordLate, OnClose, Stored
  <2>5. Registered(c)'
    BY DEF SessionInv, Typed, SessionOK, Registered, Owned, Closing, Unborn, RecordLate, OnClose,
       Stored
  <2>6. Stages(c)'
    BY DEF SessionInv, Typed, SessionOK, Stages, Closing, Unborn, Owned, Life, RecordLate,
       OnClose, Stored
  <2>7. Rows(c)'
    BY DEF SessionInv, Typed, SessionOK, Rows, Closing, Stages, Unborn, Owned, Life, RecordLate,
       OnClose, Stored
  <2>8. Waits(c)'
    BY DEF SessionInv, Typed, SessionOK, Waits, RecordLate, OnClose, Stored
  <2> QED
    BY <2>1, <2>2, <2>3, <2>4, <2>5, <2>6, <2>7, <2>8 DEF SessionOK
<1>3. \A s \in Calls \ {c} : Same(s)
  BY DEF SessionInv, Typed, Same, RecordLate, OnClose, Stored
<1>4. up' = up /\ (faults' = 0 => faults = 0)
  BY DEF SessionInv, Typed, RecordLate, OnClose, Stored
<1> QED
  BY <1>1, <1>2, <1>3, <1>4, OneSession

LEMMA InstallKeeps ==
    ASSUME SessionInv, NEW c \in Calls, Install(c) PROVE SessionInv'
<1>1. Typed'
  BY DEF SessionInv, Typed, PCs, Links, Install
<1>2. SessionOK(c)'
  <2>1. Unborn(c)'
    BY DEF SessionInv, Typed, SessionOK, Unborn, Install
  <2>2. Life(c)'
    BY DEF SessionInv, Typed, SessionOK, Life, Unborn, Install
  <2>3. Owned(c)'
    BY DEF SessionInv, Typed, SessionOK, Owned, Stages, Install
  <2>4. Closing(c)'
    BY DEF SessionInv, Typed, SessionOK, Closing, Stages, Owned, Unborn, Life, Install
  <2>5. Registered(c)'
    BY DEF SessionInv, Typed, SessionOK, Unborn, Life, Owned, Closing, Registered, Stages, Rows,
       Waits, Install
  <2>6. Stages(c)'
    BY DEF SessionInv, Typed, SessionOK, Stages, Closing, Unborn, Owned, Life, Install
  <2>7. Rows(c)'
    BY DEF SessionInv, Typed, SessionOK, Rows, Closing, Stages, Unborn, Owned, Life, Install
  <2>8. Waits(c)'
    BY DEF SessionInv, Typed, SessionOK, Waits, Install
  <2> QED
    BY <2>1, <2>2, <2>3, <2>4, <2>5, <2>6, <2>7, <2>8 DEF SessionOK
<1>3. \A s \in Calls \ {c} : Same(s)
  BY DEF SessionInv, Typed, Same, Install
<1>4. up' = up /\ (faults' = 0 => faults = 0)
  BY DEF SessionInv, Typed, Install
<1> QED
  BY <1>1, <1>2, <1>3, <1>4, OneSession

LEMMA AbandonKeeps ==
    ASSUME SessionInv, NEW c \in Calls, Abandon(c) PROVE SessionInv'
<1>1. Typed'
  BY DEF SessionInv, Typed, PCs, Links, Abandon
<1>2. SessionOK(c)'
  <2>1. Unborn(c)'
    BY DEF SessionInv, Typed, SessionOK, Unborn, Abandon
  <2>2. Life(c)'
    BY DEF SessionInv, Typed, SessionOK, Life, Unborn, Abandon
  <2>3. Owned(c)'
    BY DEF SessionInv, Typed, SessionOK, Owned, Stages, Abandon
  <2>4. Closing(c)'
    BY DEF SessionInv, Typed, SessionOK, Closing, Stages, Owned, Unborn, Life, Abandon
  <2>5. Registered(c)'
    BY DEF SessionInv, Typed, SessionOK, Registered, Owned, Closing, Unborn, Abandon
  <2>6. Stages(c)'
    BY DEF SessionInv, Typed, SessionOK, Stages, Closing, Unborn, Owned, Life, Abandon
  <2>7. Rows(c)'
    BY DEF SessionInv, Typed, SessionOK, Rows, Closing, Stages, Unborn, Owned, Life, Abandon
  <2>8. Waits(c)'
    BY DEF SessionInv, Typed, SessionOK, Waits, Abandon
  <2> QED
    BY <2>1, <2>2, <2>3, <2>4, <2>5, <2>6, <2>7, <2>8 DEF SessionOK
<1>3. \A s \in Calls \ {c} : Same(s)
  BY DEF SessionInv, Typed, Same, Abandon
<1>4. up' = up /\ (faults' = 0 => faults = 0)
  BY DEF SessionInv, Typed, Abandon
<1> QED
  BY <1>1, <1>2, <1>3, <1>4, OneSession

LEMMA AnnounceKeeps ==
    ASSUME SessionInv, NEW c \in Calls, Announce(c) PROVE SessionInv'
<1>1. Typed'
  BY DEF SessionInv, Typed, PCs, Announce
<1>2. SessionOK(c)'
  <2>1. Closing(c)'
    BY DEF SessionInv, SessionOK, Closing, Announce
  <2>2. Unborn(c)'
    BY DEF SessionInv, Typed, SessionOK, Unborn, Announce
  <2>3. Life(c)'
    BY DEF SessionInv, Typed, SessionOK, Life, Unborn, Announce
  <2>4. Owned(c)'
    BY DEF SessionInv, Typed, SessionOK, Owned, Stages, Announce
  <2>5. Registered(c)'
    BY DEF SessionInv, Typed, SessionOK, Registered, Owned, Closing, Unborn, Announce
  <2>6. Stages(c)'
    BY DEF SessionInv, Typed, SessionOK, Stages, Closing, Unborn, Owned, Life, Announce
  <2>7. Rows(c)'
    BY DEF SessionInv, Typed, SessionOK, Rows, Closing, Stages, Unborn, Owned, Life, Announce
  <2>8. Waits(c)'
    BY DEF SessionInv, Typed, SessionOK, Waits, Announce
  <2> QED
    BY <2>1, <2>2, <2>3, <2>4, <2>5, <2>6, <2>7, <2>8 DEF SessionOK
<1>3. \A s \in Calls \ {c} : Same(s)
  BY DEF SessionInv, Typed, Same, Announce
<1>4. up' = up /\ (faults' = 0 => faults = 0)
  BY DEF SessionInv, Typed, Announce
<1> QED
  BY <1>1, <1>2, <1>3, <1>4, OneSession

LEMMA AwaitCloseKeeps ==
    ASSUME SessionInv, NEW c \in Calls, AwaitClose(c) PROVE SessionInv'
<1>1. Typed'
  BY DEF SessionInv, Typed, PCs, AwaitClose
<1>2. SessionOK(c)'
  <2>1. Closing(c)'
    BY DEF SessionInv, SessionOK, Closing, AwaitClose
  <2>2. Unborn(c)'
    BY DEF SessionInv, Typed, SessionOK, Unborn, AwaitClose
  <2>3. Life(c)'
    BY DEF SessionInv, Typed, SessionOK, Life, Unborn, AwaitClose
  <2>4. Owned(c)'
    BY DEF SessionInv, Typed, SessionOK, Owned, Stages, AwaitClose
  <2>5. Registered(c)'
    BY DEF SessionInv, Typed, SessionOK, Registered, Owned, Closing, Unborn, AwaitClose
  <2>6. Stages(c)'
    BY DEF SessionInv, Typed, SessionOK, Stages, Closing, Unborn, Owned, Life, AwaitClose
  <2>7. Rows(c)'
    BY DEF SessionInv, Typed, SessionOK, Rows, Closing, Stages, Unborn, Owned, Life, AwaitClose
  <2>8. Waits(c)'
    BY DEF SessionInv, Typed, SessionOK, Waits, AwaitClose
  <2> QED
    BY <2>1, <2>2, <2>3, <2>4, <2>5, <2>6, <2>7, <2>8 DEF SessionOK
<1>3. \A s \in Calls \ {c} : Same(s)
  BY DEF SessionInv, Typed, Same, AwaitClose
<1>4. up' = up /\ (faults' = 0 => faults = 0)
  BY DEF SessionInv, Typed, AwaitClose
<1> QED
  BY <1>1, <1>2, <1>3, <1>4, OneSession

LEMMA CleanUpKeeps ==
    ASSUME SessionInv, NEW c \in Calls, CleanUp(c) PROVE SessionInv'
<1>1. Typed'
  <2>1. live' \in SUBSET Calls /\ byIdem' \in [Agents -> [Keys -> Calls \cup {None}]]
    BY UnregisterTyped DEF SessionInv, Typed, CleanUp
  <2>2. once' \in [Calls -> {None, "close", "open"}] /\ pc' \in [Calls -> PCs]
    BY DEF SessionInv, Typed, PCs, CleanUp
  <2>3. answer' \in [Calls -> Calls \cup {None, "error"}]
    BY DEF SessionInv, Typed, CleanUp
  <2> QED
    BY <2>1, <2>2, <2>3 DEF SessionInv, Typed, CleanUp
<1>2. SessionOK(c)'
  <2>1. Unborn(c)'
    BY DEF SessionInv, Typed, SessionOK, Unborn, CleanUp, Unregister
  <2>2. Life(c)'
    BY DEF SessionInv, Typed, SessionOK, Life, Unborn, CleanUp, Unregister
  <2>3. Owned(c)'
    BY DEF SessionInv, Typed, SessionOK, Owned, Stages, CleanUp, Unregister
  <2>4. Closing(c)'
    BY DEF SessionInv, Typed, SessionOK, Closing, Stages, Owned, Unborn, Life, CleanUp,
       Unregister
  <2>5. Registered(c)'
    BY DEF SessionInv, Typed, SessionOK, Registered, Owned, Closing, Unborn, CleanUp, Unregister
  <2>6. Stages(c)'
    BY DEF SessionInv, Typed, SessionOK, Stages, Closing, Unborn, Owned, Life, CleanUp,
       Unregister
  <2>7. Rows(c)'
    BY DEF SessionInv, Typed, SessionOK, Rows, Closing, Stages, Unborn, Owned, Life, CleanUp,
       Unregister
  <2>8. Waits(c)'
    BY DEF SessionInv, Typed, SessionOK, Waits, CleanUp, Unregister
  <2> QED
    BY <2>1, <2>2, <2>3, <2>4, <2>5, <2>6, <2>7, <2>8 DEF SessionOK
<1>3. \A s \in Calls \ {c} : Same(s)
  BY DEF SessionInv, Typed, Same, CleanUp, Unregister
<1>4. up' = up /\ (faults' = 0 => faults = 0)
  BY DEF SessionInv, Typed, CleanUp, Unregister
<1> QED
  BY <1>1, <1>2, <1>3, <1>4, OneSession

LEMMA CleanedUpKeeps ==
    ASSUME SessionInv, NEW c \in Calls, CleanedUp(c) PROVE SessionInv'
<1>1. Typed'
  BY DEF SessionInv, Typed, PCs, CleanedUp
<1>2. SessionOK(c)'
  <2>1. Unborn(c)'
    BY DEF SessionInv, Typed, SessionOK, Unborn, CleanedUp
  <2>2. Life(c)'
    BY DEF SessionInv, Typed, SessionOK, Life, Unborn, CleanedUp
  <2>3. Owned(c)'
    BY DEF SessionInv, Typed, SessionOK, Owned, Stages, CleanedUp
  <2>4. Closing(c)'
    BY DEF SessionInv, Typed, SessionOK, Closing, Stages, Owned, Unborn, Life, CleanedUp
  <2>5. Registered(c)'
    BY DEF SessionInv, Typed, SessionOK, Registered, Owned, Closing, Unborn, CleanedUp
  <2>6. Stages(c)'
    BY DEF SessionInv, Typed, SessionOK, Stages, Closing, Unborn, Owned, Life, CleanedUp
  <2>7. Rows(c)'
    BY DEF SessionInv, Typed, SessionOK, Rows, Closing, Stages, Unborn, Owned, Life, CleanedUp
  <2>8. Waits(c)'
    BY DEF SessionInv, Typed, SessionOK, Waits, CleanedUp
  <2> QED
    BY <2>1, <2>2, <2>3, <2>4, <2>5, <2>6, <2>7, <2>8 DEF SessionOK
<1>3. \A s \in Calls \ {c} : Same(s)
  BY DEF SessionInv, Typed, Same, CleanedUp
<1>4. up' = up /\ (faults' = 0 => faults = 0)
  BY DEF SessionInv, Typed, CleanedUp
<1> QED
  BY <1>1, <1>2, <1>3, <1>4, OneSession

LEMMA CloseToldKeeps ==
    ASSUME SessionInv, NEW c \in Calls, CloseTold(c) PROVE SessionInv'
<1>1. Typed'
  BY DEF SessionInv, Typed, Closers, CloseTold, BeginClose
<1>2. SessionOK(c)'
  <2>1. Owned(c)' /\ Waits(c)'
    BY DEF SessionInv, SessionOK, Owned, Waits, CloseTold
  <2>2. Unborn(c)'
    BY DEF SessionInv, Typed, SessionOK, Unborn, CloseTold, BeginClose
  <2>3. Life(c)'
    BY DEF SessionInv, Typed, SessionOK, Life, Unborn, CloseTold, BeginClose
  <2>4. Closing(c)'
    BY DEF SessionInv, Typed, SessionOK, Closing, Stages, Owned, Unborn, Life, CloseTold,
       BeginClose
  <2>5. Registered(c)'
    BY DEF SessionInv, Typed, SessionOK, Registered, Owned, Closing, Unborn, CloseTold,
       BeginClose
  <2>6. Stages(c)'
    BY DEF SessionInv, Typed, SessionOK, Stages, Closing, Unborn, Owned, Life, CloseTold,
       BeginClose
  <2>7. Rows(c)'
    BY DEF SessionInv, Typed, SessionOK, Rows, Closing, Stages, Unborn, Owned, Life, CloseTold,
       BeginClose
  <2> QED
    BY <2>1, <2>2, <2>3, <2>4, <2>5, <2>6, <2>7 DEF SessionOK
<1>3. \A s \in Calls \ {c} : Same(s)
  BY DEF SessionInv, Typed, Same, CloseTold, BeginClose
<1>4. up' = up /\ (faults' = 0 => faults = 0)
  BY DEF SessionInv, Typed, CloseTold, BeginClose
<1> QED
  BY <1>1, <1>2, <1>3, <1>4, OneSession

LEMMA CloseSessionKeeps ==
    ASSUME SessionInv, NEW c \in Calls, CloseSession(c) PROVE SessionInv'
<1>1. Typed'
  BY DEF SessionInv, Typed, Closers, CloseSession, BeginClose
<1>2. SessionOK(c)'
  <2>1. Owned(c)' /\ Waits(c)'
    BY DEF SessionInv, SessionOK, Owned, Waits, CloseSession
  <2>2. Unborn(c)'
    BY DEF SessionInv, Typed, SessionOK, Unborn, CloseSession, BeginClose
  <2>3. Life(c)'
    BY DEF SessionInv, Typed, SessionOK, Life, Unborn, CloseSession, BeginClose
  <2>4. Closing(c)'
    BY DEF SessionInv, Typed, SessionOK, Closing, Stages, Owned, Unborn, Life, CloseSession,
       BeginClose
  <2>5. Registered(c)'
    BY DEF SessionInv, Typed, SessionOK, Registered, Owned, Closing, Unborn, CloseSession,
       BeginClose
  <2>6. Stages(c)'
    BY DEF SessionInv, Typed, SessionOK, Stages, Closing, Unborn, Owned, Life, CloseSession,
       BeginClose
  <2>7. Rows(c)'
    BY DEF SessionInv, Typed, SessionOK, Rows, Closing, Stages, Unborn, Owned, Life,
       CloseSession, BeginClose
  <2> QED
    BY <2>1, <2>2, <2>3, <2>4, <2>5, <2>6, <2>7 DEF SessionOK
<1>3. \A s \in Calls \ {c} : Same(s)
  BY DEF SessionInv, Typed, Same, CloseSession, BeginClose
<1>4. up' = up /\ (faults' = 0 => faults = 0)
  BY DEF SessionInv, Typed, CloseSession, BeginClose
<1> QED
  BY <1>1, <1>2, <1>3, <1>4, OneSession

LEMMA WatchKeeps ==
    ASSUME SessionInv, NEW c \in Calls, Watch(c) PROVE SessionInv'
<1>1. Typed'
  BY DEF SessionInv, Typed, Closers, Watch, BeginClose
<1>2. SessionOK(c)'
  <2>1. Owned(c)' /\ Waits(c)'
    BY DEF SessionInv, SessionOK, Owned, Waits, Watch
  <2>2. Unborn(c)'
    BY DEF SessionInv, Typed, SessionOK, Unborn, Watch, BeginClose
  <2>3. Life(c)'
    BY DEF SessionInv, Typed, SessionOK, Life, Unborn, Watch, BeginClose
  <2>4. Closing(c)'
    BY DEF SessionInv, Typed, SessionOK, Closing, Stages, Owned, Unborn, Life, Watch, BeginClose
  <2>5. Registered(c)'
    BY DEF SessionInv, Typed, SessionOK, Registered, Owned, Closing, Unborn, Watch, BeginClose
  <2>6. Stages(c)'
    BY DEF SessionInv, Typed, SessionOK, Stages, Closing, Unborn, Owned, Life, Watch, BeginClose
  <2>7. Rows(c)'
    BY DEF SessionInv, Typed, SessionOK, Rows, Closing, Stages, Unborn, Owned, Life, Watch,
       BeginClose
  <2> QED
    BY <2>1, <2>2, <2>3, <2>4, <2>5, <2>6, <2>7 DEF SessionOK
<1>3. \A s \in Calls \ {c} : Same(s)
  BY DEF SessionInv, Typed, Same, Watch, BeginClose
<1>4. up' = up /\ (faults' = 0 => faults = 0)
  BY DEF SessionInv, Typed, Watch, BeginClose
<1> QED
  BY <1>1, <1>2, <1>3, <1>4, OneSession

LEMMA TransportEndsKeeps ==
    ASSUME SessionInv, NEW c \in Calls, TransportEnds(c) PROVE SessionInv'
<1>1. Typed'
  BY DEF SessionInv, Typed, Links, TransportEnds
<1>2. SessionOK(c)'
  <2>1. Unborn(c)' /\ Life(c)' /\ Stages(c)' /\ Rows(c)' /\ Waits(c)'
    BY DEF SessionInv, SessionOK, Unborn, Life, Stages, Rows, Waits, TransportEnds
  <2>2. Owned(c)'
    BY DEF SessionInv, Typed, SessionOK, Owned, Stages, TransportEnds
  <2>3. Closing(c)'
    BY DEF SessionInv, Typed, SessionOK, Closing, Stages, Owned, Unborn, Life, TransportEnds
  <2>4. Registered(c)'
    BY DEF SessionInv, Typed, SessionOK, Registered, Owned, Closing, Unborn, TransportEnds
  <2> QED
    BY <2>1, <2>2, <2>3, <2>4 DEF SessionOK
<1>3. \A s \in Calls \ {c} : Same(s)
  BY DEF SessionInv, Typed, Same, TransportEnds
<1>4. up' = up /\ (faults' = 0 => faults = 0)
  BY DEF SessionInv, Typed, TransportEnds
<1> QED
  BY <1>1, <1>2, <1>3, <1>4, OneSession

LEMMA CloseNotifyKeeps ==
    ASSUME SessionInv, NEW c \in Calls, CloseNotify(c) PROVE SessionInv'
<1>1. Typed'
  BY DEF SessionInv, Typed, Closers, CloseNotify
<1>2. SessionOK(c)'
  <2>1. Life(c)' /\ Owned(c)' /\ Registered(c)' /\ Stages(c)' /\ Waits(c)'
    BY DEF SessionInv, SessionOK, Life, Owned, Registered, Stages, Waits, CloseNotify
  <2>2. Unborn(c)'
    BY DEF SessionInv, Typed, SessionOK, Unborn, CloseNotify
  <2>3. Closing(c)'
    BY DEF SessionInv, Typed, SessionOK, Closing, Stages, Owned, Unborn, Life, CloseNotify
  <2>4. Rows(c)'
    BY DEF SessionInv, Typed, SessionOK, Rows, Closing, Stages, Unborn, Owned, Life, CloseNotify
  <2> QED
    BY <2>1, <2>2, <2>3, <2>4 DEF SessionOK
<1>3. \A s \in Calls \ {c} : Same(s)
  BY DEF SessionInv, Typed, Same, CloseNotify
<1>4. up' = up /\ (faults' = 0 => faults = 0)
  BY DEF SessionInv, Typed, CloseNotify
<1> QED
  BY <1>1, <1>2, <1>3, <1>4, OneSession

LEMMA RecoveredKeeps ==
    ASSUME SessionInv, NEW c \in Calls, Recovered(c) PROVE SessionInv'
<1>1. Typed'
  BY DEF SessionInv, Typed, Closers, Recovered
<1>2. SessionOK(c)'
  <2>1. Life(c)' /\ Owned(c)' /\ Registered(c)' /\ Stages(c)' /\ Waits(c)'
    BY DEF SessionInv, SessionOK, Life, Owned, Registered, Stages, Waits, Recovered
  <2>2. Unborn(c)'
    BY DEF SessionInv, Typed, SessionOK, Unborn, Recovered
  <2>3. Closing(c)'
    BY DEF SessionInv, Typed, SessionOK, Closing, Stages, Owned, Unborn, Life, Recovered
  <2>4. Rows(c)'
    BY DEF SessionInv, Typed, SessionOK, Rows, Closing, Stages, Unborn, Owned, Life, Recovered
  <2> QED
    BY <2>1, <2>2, <2>3, <2>4 DEF SessionOK
<1>3. \A s \in Calls \ {c} : Same(s)
  BY DEF SessionInv, Typed, Same, Recovered
<1>4. up' = up /\ (faults' = 0 => faults = 0)
  BY DEF SessionInv, Typed, Recovered
<1> QED
  BY <1>1, <1>2, <1>3, <1>4, OneSession

LEMMA CloseAwaitKeeps ==
    ASSUME SessionInv, NEW c \in Calls, CloseAwait(c) PROVE SessionInv'
<1>1. Typed'
  BY DEF SessionInv, Typed, Closers, CloseAwait
<1>2. SessionOK(c)'
  <2>1. Life(c)' /\ Owned(c)' /\ Registered(c)' /\ Stages(c)' /\ Waits(c)'
    BY DEF SessionInv, SessionOK, Life, Owned, Registered, Stages, Waits, CloseAwait
  <2>2. Unborn(c)'
    BY DEF SessionInv, Typed, SessionOK, Unborn, CloseAwait
  <2>3. Closing(c)'
    BY DEF SessionInv, Typed, SessionOK, Closing, Stages, Owned, Unborn, Life, CloseAwait
  <2>4. Rows(c)'
    BY DEF SessionInv, Typed, SessionOK, Rows, Closing, Stages, Unborn, Owned, Life, CloseAwait
  <2> QED
    BY <2>1, <2>2, <2>3, <2>4 DEF SessionOK
<1>3. \A s \in Calls \ {c} : Same(s)
  BY DEF SessionInv, Typed, Same, CloseAwait
<1>4. up' = up /\ (faults' = 0 => faults = 0)
  BY DEF SessionInv, Typed, CloseAwait
<1> QED
  BY <1>1, <1>2, <1>3, <1>4, OneSession

LEMMA CloseTransportKeeps ==
    ASSUME SessionInv, NEW c \in Calls, CloseTransport(c) PROVE SessionInv'
<1>1. Typed'
  BY DEF SessionInv, Typed, Closers, Links, CloseTransport
<1>2. SessionOK(c)'
  <2>1. Life(c)' /\ Stages(c)' /\ Waits(c)'
    BY DEF SessionInv, SessionOK, Life, Stages, Waits, CloseTransport
  <2>2. Unborn(c)'
    BY DEF SessionInv, Typed, SessionOK, Unborn, CloseTransport
  <2>3. Owned(c)'
    BY DEF SessionInv, Typed, SessionOK, Unborn, Life, Owned, Closing, Registered, Stages, Rows,
       Waits, CloseTransport
  <2>4. Closing(c)'
    BY DEF SessionInv, Typed, SessionOK, Closing, Stages, Owned, Unborn, Life, CloseTransport
  <2>5. Registered(c)'
    BY DEF SessionInv, Typed, SessionOK, Registered, Owned, Closing, Unborn, CloseTransport
  <2>6. Rows(c)'
    BY DEF SessionInv, Typed, SessionOK, Rows, Closing, Stages, Unborn, Owned, Life,
       CloseTransport
  <2> QED
    BY <2>1, <2>2, <2>3, <2>4, <2>5, <2>6 DEF SessionOK
<1>3. \A s \in Calls \ {c} : Same(s)
  BY DEF SessionInv, Typed, Same, CloseTransport
<1>4. up' = up /\ (faults' = 0 => faults = 0)
  BY DEF SessionInv, Typed, CloseTransport
<1> QED
  BY <1>1, <1>2, <1>3, <1>4, OneSession

LEMMA CloseFinishKeeps ==
    ASSUME SessionInv, NEW c \in Calls, CloseFinish(c) PROVE SessionInv'
<1>1. Typed'
  BY DEF SessionInv, Typed, Closers, CloseFinish
<1>2. SessionOK(c)'
  <2>1. Owned(c)' /\ Waits(c)'
    BY DEF SessionInv, SessionOK, Owned, Waits, CloseFinish
  <2>2. Unborn(c)'
    BY DEF SessionInv, Typed, SessionOK, Unborn, CloseFinish
  <2>3. Life(c)'
    BY DEF SessionInv, Typed, SessionOK, Life, Unborn, CloseFinish
  <2>4. Closing(c)'
    BY DEF SessionInv, Typed, SessionOK, Closing, Stages, Owned, Unborn, Life, CloseFinish
  <2>5. Registered(c)'
    BY DEF SessionInv, Typed, SessionOK, Registered, Owned, Closing, Unborn, CloseFinish
  <2>6. Stages(c)'
    BY DEF SessionInv, Typed, SessionOK, Stages, Closing, Unborn, Owned, Life, CloseFinish
  <2>7. Rows(c)'
    BY DEF SessionInv, Typed, SessionOK, Rows, Closing, Stages, Unborn, Owned, Life, CloseFinish
  <2> QED
    BY <2>1, <2>2, <2>3, <2>4, <2>5, <2>6, <2>7 DEF SessionOK
<1>3. \A s \in Calls \ {c} : Same(s)
  BY DEF SessionInv, Typed, Same, CloseFinish
<1>4. up' = up /\ (faults' = 0 => faults = 0)
  BY DEF SessionInv, Typed, CloseFinish
<1> QED
  BY <1>1, <1>2, <1>3, <1>4, OneSession

LEMMA CloseRecordKeeps ==
    ASSUME SessionInv, NEW c \in Calls, CloseRecord(c) PROVE SessionInv'
<1>1. Typed'
  BY DEF SessionInv, Typed, Closers, CloseRecord, OnClose, Stored
<1>2. SessionOK(c)'
  <2>1. Life(c)' /\ Owned(c)' /\ Registered(c)' /\ Stages(c)' /\ Waits(c)'
    BY DEF SessionInv, SessionOK, Life, Owned, Registered, Stages, Waits, CloseRecord
  <2>2. Unborn(c)'
    BY DEF SessionInv, Typed, SessionOK, Unborn, CloseRecord, OnClose, Stored
  <2>3. Closing(c)'
    BY DEF SessionInv, Typed, SessionOK, Closing, Stages, Owned, Unborn, Life, CloseRecord,
       OnClose, Stored
  <2>4. Rows(c)'
    BY DEF SessionInv, Typed, SessionOK, Rows, Closing, Stages, Unborn, Owned, Life, CloseRecord,
       OnClose, Stored
  <2> QED
    BY <2>1, <2>2, <2>3, <2>4 DEF SessionOK
<1>3. \A s \in Calls \ {c} : Same(s)
  BY DEF SessionInv, Typed, Same, CloseRecord, OnClose, Stored
<1>4. up' = up /\ (faults' = 0 => faults = 0)
  BY DEF SessionInv, Typed, CloseRecord, OnClose, Stored
<1> QED
  BY <1>1, <1>2, <1>3, <1>4, OneSession

LEMMA RetireKeeps ==
    ASSUME SessionInv, NEW c \in Calls, Retire(c) PROVE SessionInv'
<1>1. Typed'
  BY DEF SessionInv, Typed, Closers, Retire, Unregister
<1>2. SessionOK(c)'
  <2>1. Owned(c)' /\ Stages(c)' /\ Waits(c)'
    BY DEF SessionInv, SessionOK, Owned, Stages, Waits, Retire
  <2>2. Unborn(c)'
    BY DEF SessionInv, Typed, SessionOK, Unborn, Retire, Unregister
  <2>3. Life(c)'
    BY DEF SessionInv, Typed, SessionOK, Life, Unborn, Retire, Unregister
  <2>4. Closing(c)'
    BY DEF SessionInv, Typed, SessionOK, Closing, Stages, Owned, Unborn, Life, Retire, Unregister
  <2>5. Registered(c)'
    BY DEF SessionInv, Typed, SessionOK, Unborn, Life, Owned, Closing, Registered, Stages, Rows,
       Waits, Retire, Unregister
  <2>6. Rows(c)'
    BY DEF SessionInv, Typed, SessionOK, Rows, Closing, Stages, Unborn, Owned, Life, Retire,
       Unregister
  <2> QED
    BY <2>1, <2>2, <2>3, <2>4, <2>5, <2>6 DEF SessionOK
<1>3. \A s \in Calls \ {c} : Same(s)
  BY DEF SessionInv, Typed, Same, Retire, Unregister
<1>4. up' = up /\ (faults' = 0 => faults = 0)
  BY DEF SessionInv, Typed, Retire, Unregister
<1> QED
  BY <1>1, <1>2, <1>3, <1>4, OneSession

(* A nil dereference in a goroutine ends the process: every call is dead.  *)
LEMMA PanicKeeps ==
    ASSUME SessionInv, NEW c \in Calls, Panic(c) PROVE SessionInv'
<1>1. Typed'
  BY DEF SessionInv, Typed, Panic, PCs, Closers, Links
<1>2. ASSUME NEW s \in Calls PROVE SessionOK(s)'
  <2>1. Unborn(s)' /\ Life(s)' /\ Registered(s)' /\ Waits(s)'
    BY DEF Panic, Unborn, Life, Registered, Waits
  <2>2. Owned(s)'
    BY DEF SessionInv, Typed, Links, Panic, Owned
  <2>3. Closing(s)'
    BY DEF SessionInv, Typed, SessionOK, Links, Panic, Closing
  <2>4. Stages(s)'
    BY DEF SessionInv, SessionOK, Panic, Stages
  <2>5. Rows(s)'
    BY DEF SessionInv, SessionOK, Panic, Rows
  <2> QED
    BY <2>1, <2>2, <2>3, <2>4, <2>5 DEF SessionOK
<1> QED
  BY <1>1, <1>2 DEF SessionInv

(* A step that only tells sessions of the registry to close.               *)
LEMMA TellKeeps ==
    ASSUME SessionInv, NEW S \in SUBSET live, told' = told \cup S,
           UNCHANGED <<up, live, byIdem, sessionVars, rowVars, callVars, closerVars, faults>>
    PROVE  SessionInv'
<1>1. Typed'
  BY DEF SessionInv, Typed
<1>2. ASSUME NEW s \in Calls PROVE SessionOK(s)'
  <2>1. Unborn(s)' /\ Life(s)' /\ Registered(s)' /\ Waits(s)'
    BY DEF SessionInv, SessionOK, Unborn, Life, Registered, Waits
  <2>2. Owned(s)' /\ Closing(s)' /\ Stages(s)' /\ Rows(s)'
    BY DEF SessionInv, SessionOK, Owned, Closing, Stages, Rows
  <2> QED
    BY <2>1, <2>2 DEF SessionOK
<1> QED
  BY <1>1, <1>2 DEF SessionInv

LEMMA RecoverKeeps ==
    ASSUME SessionInv, Recover PROVE SessionInv'
<1>1. Typed'
  BY DEF SessionInv, Typed, Recover
<1>2. ASSUME NEW s \in Calls PROVE SessionOK(s)'
  <2>1. Unborn(s)' /\ Life(s)' /\ Registered(s)' /\ Waits(s)'
    BY DEF SessionInv, SessionOK, Recover, Unborn, Life, Registered, Waits
  <2>2. Owned(s)' /\ Closing(s)' /\ Stages(s)'
    BY DEF SessionInv, SessionOK, Recover, Owned, Closing, Stages
  <2>3. Rows(s)'
    BY DEF SessionInv, Typed, SessionOK, Recover, Rows
  <2> QED
    BY <2>1, <2>2, <2>3 DEF SessionOK
<1> QED
  BY <1>1, <1>2 DEF SessionInv

LEMMA SessionStep == SessionInv /\ [Next]_vars => SessionInv'
<1> SUFFICES ASSUME SessionInv, [Next]_vars PROVE SessionInv'
  OBVIOUS
<1>1. ASSUME NEW c \in Calls, OpenStep(c) PROVE SessionInv'
  BY <1>1, DeduplicateKeeps, MakeOutputKeeps, DialKeeps, OnOpenKeeps, NoteRowKeeps, RecordLateKeeps,
     InstallKeeps, AbandonKeeps, AnnounceKeeps, AwaitCloseKeeps, CleanUpKeeps, CleanedUpKeeps
     DEF OpenStep
<1>2. ASSUME NEW c \in Calls, CloseStep(c) PROVE SessionInv'
  BY <1>2, CloseNotifyKeeps, PanicKeeps, RecoveredKeeps, CloseAwaitKeeps, CloseTransportKeeps,
     CloseFinishKeeps, CloseRecordKeeps, RetireKeeps DEF CloseStep
<1>3. ASSUME NEW S \in SUBSET live, CloseWhere(S) PROVE SessionInv'
  BY <1>3, TellKeeps DEF CloseWhere
<1>4. ASSUME NEW on \in BOOLEAN, SaveSettings(on) PROVE SessionInv'
  <2>1. \E S \in SUBSET live : told' = told \cup S
    <3>1. told' = told \cup (IF on THEN {} ELSE live)
      BY <1>4 DEF SaveSettings
    <3> QED
      BY <3>1
  <2> QED
    BY <1>4, <2>1, TellKeeps DEF SaveSettings
<1>5. CASE Shutdown
  BY <1>5, TellKeeps DEF Shutdown
<1>6. CASE Forget \/ UNCHANGED vars
  <2>1. told' = told \cup {} /\ {} \in SUBSET live
    BY <1>6 DEF Forget, vars
  <2>2. UNCHANGED <<up, live, byIdem, sessionVars, rowVars, callVars, closerVars, faults>>
    BY <1>6 DEF Forget, vars
  <2> QED
    BY <2>1, <2>2, TellKeeps
<1>7. ASSUME NEW c \in Calls,
             CloseTold(c) \/ Watch(c) \/ CloseSession(c) \/ TransportEnds(c)
      PROVE  SessionInv'
  BY <1>7, CloseToldKeeps, WatchKeeps, CloseSessionKeeps, TransportEndsKeeps
<1> QED
  BY <1>1, <1>2, <1>3, <1>4, <1>5, <1>6, <1>7, OpenKeeps, OpenAgainKeeps, RecoverKeeps DEF Next

(* What an open and the close of its session know of each other at every   *)
(* point (aiSessionManager.open and close): the inductive invariant.       *)
THEOREM SessionInvHolds == Spec => []SessionInv
BY SessionInit, SessionStep, PTL DEF Spec

(* Every connection belongs to a session in the registry or to an open     *)
(* that has not returned (open, close, the failed open's clean-up).        *)
THEOREM TransportsAreOwned == Spec => []NoTransportLeaks
<1>1. SessionInv => NoTransportLeaks
  BY DEF SessionInv, SessionOK, Owned, Registered, NoTransportLeaks
<1> QED
  BY <1>1, SessionInvHolds, PTL

(* Whichever of close() and the opener comes last closes the row of the    *)
(* session (rowInserted, closeRecorded), unless SQLite refused a write.    *)
THEOREM RowsGetClosed == Spec => []RowsAreClosed
<1>1. SessionInv => RowsAreClosed
  BY DEF SessionInv, Typed, SessionOK, Rows, Closing, Stages, Life, RowsAreClosed
<1> QED
  BY <1>1, SessionInvHolds, PTL

(* A retried open_session is answered with a session that is open or whose *)
(* failed open is being cleaned up (open's wait for openDone).             *)
THEOREM RetriesGetTheSession == Spec => RetryGetsTheSession
<1> DEFINE Answered ==
             \A c \in Calls : pc[c] = "waiting" /\ answer'[c] \in Calls =>
               \/ sstate[answer'[c]] = "idle"
               \/ failed[answer'[c]] /\ pc[answer'[c]] \in {"cleanup", "clean"}
<1>1. SessionInv /\ Next => Answered
  <2> SUFFICES ASSUME SessionInv, Next, NEW c \in Calls, pc[c] = "waiting",
                      answer'[c] \in Calls
               PROVE  \/ sstate[answer'[c]] = "idle"
                      \/ failed[answer'[c]] /\ pc[answer'[c]] \in {"cleanup", "clean"}
    OBVIOUS
  <2>1. answer[c] \notin Calls
    BY SessionsAssumption DEF SessionInv, SessionOK, Unborn
  <2>2. Deduplicate(c)
    <3>1. \A d \in Calls : OpenStep(d) /\ ~Deduplicate(c) => answer'[c] = answer[c]
      BY DEF SessionInv, Typed, OpenStep, Deduplicate, MakeOutput, Dial, OnOpen, NoteRow,
         RecordLate, Install, Abandon, Announce, AwaitClose, CleanUp, CleanedUp
    <3>2. \A d \in Calls : CloseStep(d) => answer' = answer
      BY DEF CloseStep, CloseNotify, Panic, Recovered, CloseAwait, CloseTransport, CloseFinish,
         CloseRecord, Retire
    <3> QED
      BY <2>1, <3>1, <3>2 DEF Next, Open, OpenAgain, CloseTold, Watch, CloseSession,
         TransportEnds, CloseWhere, SaveSettings, Shutdown, Forget, Recover
  <2>3. ref[c] \in Calls /\ answer'[c] = ref[c] /\ openDone[ref[c]] /\ sstate[ref[c]] \notin Over
    <3>1. ref[c] \in Calls
      BY DEF SessionInv, SessionOK, Waits
    <3>2. answer'[c] = IF sstate[ref[c]] \in Over THEN "error" ELSE ref[c]
      BY <2>2 DEF SessionInv, Typed, Deduplicate
    <3>3. "error" \notin Calls
      BY SessionsAssumption
    <3> QED
      BY <2>2, <3>1, <3>2, <3>3 DEF Deduplicate
  <2>4. pc[ref[c]] # "dead"
    BY <2>3 DEF SessionInv, SessionOK, Life
  <2> QED
    BY <2>3, <2>4 DEF SessionInv, SessionOK, Stages, Owned
<1>2. SessionInv /\ UNCHANGED vars => Answered
  <2>1. SessionInv /\ UNCHANGED vars => \A c \in Calls : pc[c] = "waiting" => answer'[c] \notin Calls
    BY SessionsAssumption DEF SessionInv, SessionOK, Unborn, vars
  <2> QED
    BY <2>1
<1> QED
  BY <1>1, <1>2, SessionInvHolds, PTL DEF Spec, RetryGetsTheSession
=============================================================================
