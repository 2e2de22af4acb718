---------------------------- MODULE AuditLedger ----------------------------
(***************************************************************************)
(* What the command_requests table promises an auditor, apart from how    *)
(* ssh-gete keeps the promise.  A row is filed either for a human to       *)
(* decide or as an automatic run, is decided once, may be run once while   *)
(* it is open, is closed once and never changes afterwards.  It can be     *)
(* hidden from the history, but not while it is open for running, and it   *)
(* is never removed.                                                       *)
(***************************************************************************)
EXTENDS Naturals

CONSTANT Requests

VARIABLES row,     \* row[r]: the status of the durable record, or "none"
          hidden,  \* the rows removed from the history (deleted_at # 0)
          ran      \* ran[r]: how often the command of r was started

ledgerVars == <<row, hidden, ran>>

Open == {"running", "auto_running"}
Refused == {"rejected", "expired"}
RunClosed == {"succeeded", "failed", "interrupted", "auto_succeeded", "auto_failed"}

Closings(s) ==
    CASE s = "running" -> {"succeeded", "failed", "interrupted"}
      [] s = "auto_running" -> {"auto_succeeded", "auto_failed", "interrupted"}
      [] OTHER -> {}

LedgerInit ==
    /\ row = [r \in Requests |-> "none"]
    /\ hidden = {}
    /\ ran = [r \in Requests |-> 0]

File(r) ==
    /\ row[r] = "none"
    /\ \E s \in {"pending", "auto_running"} : row' = [row EXCEPT ![r] = s]
    /\ UNCHANGED <<hidden, ran>>

Decide(r) ==
    /\ row[r] = "pending"
    /\ r \notin hidden
    /\ \E s \in {"running"} \cup Refused : row' = [row EXCEPT ![r] = s]
    /\ UNCHANGED <<hidden, ran>>

RunOnce(r) ==
    /\ row[r] \in Open
    /\ ran[r] = 0
    /\ ran' = [ran EXCEPT ![r] = 1]
    /\ UNCHANGED <<row, hidden>>

Close(r) ==
    /\ \E s \in Closings(row[r]) : row' = [row EXCEPT ![r] = s]
    /\ UNCHANGED <<hidden, ran>>

Hide(r) ==
    /\ row[r] \notin Open \cup {"none"}
    /\ hidden' = hidden \cup {r}
    /\ UNCHANGED <<row, ran>>

(* A restart settles many rows in one go: open ones are interrupted, and  *)
(* pending ones past their deadline expire.                               *)
Settle ==
    /\ row' \in [Requests -> {"none", "pending", "interrupted"} \cup Open \cup Refused \cup RunClosed]
    /\ \A r \in Requests :
          \/ row'[r] = row[r]
          \/ row[r] \in Open /\ row'[r] = "interrupted"
          \/ row[r] = "pending" /\ r \notin hidden /\ row'[r] = "expired"
    /\ UNCHANGED <<hidden, ran>>

LedgerNext ==
    \/ \E r \in Requests : File(r) \/ Decide(r) \/ RunOnce(r) \/ Close(r) \/ Hide(r)
    \/ Settle

LedgerSpec == LedgerInit /\ [][LedgerNext]_ledgerVars
=============================================================================
