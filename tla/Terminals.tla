------------------------------ MODULE Terminals ------------------------------
(***************************************************************************)
(* Interactive terminal tabs (terminal.go, terminal_signal.go and the      *)
(* saving of serial settings in serial_mode.go) on unix.                   *)
(*                                                                         *)
(* A tab is opened by StartTerminal, which registers it under termMu,      *)
(* dials or opens the port without the lock, and commits.  Meanwhile and   *)
(* afterwards other calls close it, resize it, write to it, send a BREAK   *)
(* or change the line settings; its remote end may go away; its output     *)
(* passes through a bounded buffer with a goroutine of its own.  One       *)
(* action is one critical section or one blocking call.  A thread is a     *)
(* call of the front end, or the input pump while it writes.  Sizes and    *)
(* line settings are model values; ids, messages and lastErr are left out. *)
(***************************************************************************)
EXTENDS Naturals, FiniteSets

CONSTANTS
  Tabs,      \* terminalSession objects
  Devices,   \* serial devices, as reservation keys
  Threads,
  Values,    \* sizes of a window, settings of a line
  Default,   \* the size and the settings a tab starts with
  NoThread,
  None,
  Cap,       \* terminalPendingCap, in units of output
  Calls      \* bound: calls besides StartTerminal, and units of output

ASSUME TabsAssumption ==
  /\ Default \in Values /\ NoThread \notin Threads
  /\ None \notin Values /\ None \notin Tabs /\ None \notin Devices /\ None \notin Nat
  /\ Cap \in Nat \ {0} /\ Calls \in Nat

VARIABLES
  tab,      \* the tabs
  owner,    \* a.serialOwners
  th,       \* the threads
  calls     \* calls made and units of output so far

vars == <<tab, owner, th, calls>>

NoTab ==
  [kind |-> "none", dev |-> None, inMap |-> FALSE, status |-> "none",
   reason |-> "", canceled |-> FALSE, opened |-> FALSE,
   \* the transport: an ssh client, or the fd of a serialHandle
   link |-> "none", closed |-> FALSE, users |-> 0, drains |-> 0,
   writeMu |-> NoThread, applyMu |-> NoThread, resizeMu |-> NoThread,
   pump |-> FALSE,
   \* the end of the tab
   fin |-> "no", done |-> FALSE, exits |-> 0,
   \* the window
   size |-> Default, pty |-> None,
   \* the line
   settings |-> Default, mode |-> None, pending |-> None, gen |-> 0,
   latest |-> Default, disturbed |-> FALSE,
   \* the output
   outClosed |-> FALSE, buf |-> 0, dropped |-> 0, chunk |-> 0,
   accepted |-> 0, emitted |-> 0]

Rest == [pc |-> "rest", t |-> None, val |-> None, gen |-> None, ok |-> FALSE]

Init ==
  /\ tab = [t \in Tabs |-> NoTab]
  /\ owner = [d \in Devices |-> None]
  /\ th = [p \in Threads |-> Rest]
  /\ calls = 0

At(p, pc) == th[p].pc = pc
Tab(p) == tab[th[p].t]
Goto(p, pc) == th' = [th EXCEPT ![p].pc = pc]
Return(p) == th' = [th EXCEPT ![p] = Rest]
Set(t, rec) == tab' = [tab EXCEPT ![t] = rec]

\* A call of the front end that finds tab t in the map.
Call(p, t) == /\ At(p, "rest") /\ calls < Calls /\ calls' = calls + 1
              /\ tab[t].inMap

----------------------------------------------------------------------------
(* The fd of a serial port                                                 *)

Acquired(r) == [r EXCEPT !.users = @ + 1]

\* release: the last use of a closed handle closes the fd.
Released(r) ==
  [r EXCEPT !.users = @ - 1,
            !.link = IF r.closed /\ r.users = 1 THEN "closed" ELSE @]

closePort(r) ==
  [r EXCEPT !.closed = TRUE, !.link = IF r.users = 0 THEN "closed" ELSE @]

\* What a committed tab's closer does, and what closes a tab that never opened.
Closer(r) == IF r.kind = "serial" THEN closePort(r)
             ELSE [r EXCEPT !.link = "closed"]

\* The bug of a Drain that holds no use of its own.
Draining_NoUse(r) == IF r.closed THEN r ELSE [r EXCEPT !.drains = @ + 1]

\* drainWithTimeout starts a Drain that holds a use of its own.
Draining(r) == IF r.closed THEN r ELSE [Acquired(r) EXCEPT !.drains = @ + 1]

DrainEnds(t) ==
  /\ tab[t].drains > 0
  /\ Set(t, Released([tab[t] EXCEPT !.drains = @ - 1]))
  /\ UNCHANGED <<owner, th, calls>>

----------------------------------------------------------------------------
(* StartTerminal                                                           *)

\* Registration: the device is reserved with the same lock.
Register(p, t, kind, d) ==
  /\ At(p, "rest") /\ tab[t].kind = "none"
  /\ kind = "serial" => owner[d] = None
  /\ Set(t, [NoTab EXCEPT !.kind = kind, !.inMap = TRUE, !.status = "connecting",
                          !.dev = IF kind = "serial" THEN d ELSE None])
  /\ owner' = IF kind = "serial" THEN [owner EXCEPT ![d] = t] ELSE owner
  /\ th' = [th EXCEPT ![p] = [Rest EXCEPT !.pc = "dial", !.t = t]]
  /\ UNCHANGED calls

\* The dial, or the opening of the port with the settings read just before;
\* a cancel is honoured when it returns.
Dial(p, ok) ==
  LET t == th[p].t
      up == ok /\ ~tab[t].canceled
  IN  /\ At(p, "dial")
      /\ Set(t, IF up THEN [tab[t] EXCEPT !.link = "open",
                              !.mode = IF @ = None /\ tab[t].kind = "serial"
                                       THEN tab[t].settings ELSE @]
                ELSE tab[t])
      /\ Goto(p, IF ~up THEN "fail" ELSE IF tab[t].kind = "serial" THEN "commit" ELSE "size")
      /\ UNCHANGED <<owner, calls>>

\* The size is read, and the PTY requested with it; closing the tab in
\* between closes the client (AfterFunc), and so does any failure.
ReadSize(p) ==
  /\ At(p, "size")
  /\ th' = [th EXCEPT ![p].pc = "pty", ![p].val = Tab(p).size]
  /\ UNCHANGED <<tab, owner, calls>>

RequestPty(p, ok) ==
  LET t == th[p].t
      up == ok /\ ~tab[t].canceled
  IN  /\ At(p, "pty")
      /\ Set(t, IF up THEN [tab[t] EXCEPT !.pty = th[p].val]
                ELSE [tab[t] EXCEPT !.link = "closed"])
      /\ Goto(p, IF up THEN "commit" ELSE "fail")
      /\ UNCHANGED <<owner, calls>>

CommitOK(r) == r.reason # "user" /\ r.inMap

\* commitTerminal
Commit(p) ==
  LET t == th[p].t
      r == tab[t]
  IN  /\ At(p, "commit")
      /\ Set(t, IF CommitOK(r) THEN [r EXCEPT !.status = "open", !.opened = TRUE]
                ELSE Closer(r))
      /\ Goto(p, IF ~CommitOK(r) THEN "fail"
                 ELSE IF r.kind = "serial" THEN "pending" ELSE "resizeLock")
      /\ UNCHANGED <<owner, calls>>

\* failTerminalStart: the tab leaves the map, then the rest of the output goes.
FailStart(p) ==
  LET t == th[p].t
  IN  /\ At(p, "fail")
      /\ Set(t, [tab[t] EXCEPT !.inMap = FALSE, !.canceled = TRUE,
                               !.outClosed = TRUE, !.fin = "failed"])
      /\ owner' = [d \in Devices |-> IF owner[d] = t THEN None ELSE owner[d]]
      /\ Return(p)
      /\ UNCHANGED calls

\* The settings saved while the tab was connecting are applied after its open.
TakePending(p) ==
  LET t == th[p].t
  IN  /\ At(p, "pending")
      /\ Set(t, [tab[t] EXCEPT !.pending = None])
      /\ IF tab[t].pending = None THEN Return(p)
         ELSE th' = [th EXCEPT ![p].pc = "apply", ![p].val = tab[t].pending,
                               ![p].gen = tab[t].gen]
      /\ UNCHANGED <<owner, calls>>

----------------------------------------------------------------------------
(* Window size                                                             *)

\* ResizeTerminal stores the size ...
Resize(p, t, v) ==
  /\ Call(p, t)
  /\ Set(t, [tab[t] EXCEPT !.size = v])
  /\ th' = [th EXCEPT ![p] = [Rest EXCEPT !.pc = "resizeLock", !.t = t, !.val = v]]
  /\ UNCHANGED owner

SizeToApply(p) == Tab(p).size

\* ... and then, under resizeMu, reads what is stored by now ...
ResizeLock(p) ==
  LET t == th[p].t
  IN  /\ At(p, "resizeLock") /\ tab[t].resizeMu = NoThread
      /\ IF tab[t].kind = "ssh" /\ tab[t].opened
         THEN /\ Set(t, [tab[t] EXCEPT !.resizeMu = p])
              /\ th' = [th EXCEPT ![p].pc = "windowChange", ![p].val = SizeToApply(p)]
         ELSE UNCHANGED tab /\ Return(p)
      /\ UNCHANGED <<owner, calls>>

\* ... and applies it.
WindowChange(p) ==
  LET t == th[p].t
  IN  /\ At(p, "windowChange")
      /\ Set(t, [tab[t] EXCEPT !.resizeMu = NoThread,
                               !.pty = IF tab[t].link = "open" THEN th[p].val ELSE @])
      /\ Return(p)
      /\ UNCHANGED <<owner, calls>>

----------------------------------------------------------------------------
(* Operations on the line                                                  *)

\* The pump takes input from the queue, while the tab is not closing.
Write(p, t) ==
  /\ Call(p, t) /\ tab[t].status = "open" /\ tab[t].reason = ""
  /\ tab[t].kind = "serial" /\ ~tab[t].pump
  /\ Set(t, [tab[t] EXCEPT !.pump = TRUE])
  /\ th' = [th EXCEPT ![p] = [Rest EXCEPT !.pc = "writeLock", !.t = t]]
  /\ UNCHANGED owner

Break(p, t) ==
  /\ Call(p, t) /\ tab[t].status = "open" /\ tab[t].reason = ""
  /\ tab[t].kind = "serial"
  /\ th' = [th EXCEPT ![p] = [Rest EXCEPT !.pc = "breakLock", !.t = t]]
  /\ UNCHANGED <<tab, owner>>

\* A piece is written under writeMu with a use of the fd.
WriteLock(p) ==
  LET t == th[p].t
  IN  /\ At(p, "writeLock") /\ tab[t].writeMu = NoThread
      /\ IF tab[t].closed
         THEN Set(t, [tab[t] EXCEPT !.pump = FALSE]) /\ Return(p)
         ELSE Set(t, [Acquired(tab[t]) EXCEPT !.writeMu = p]) /\ Goto(p, "write")
      /\ UNCHANGED <<owner, calls>>

\* The write returns; one that fails ends the tab, unless it is closing.
WriteDone(p, ok) ==
  LET t == th[p].t
      r == [Released(tab[t]) EXCEPT !.writeMu = NoThread, !.pump = FALSE]
      ends == ~ok /\ r.reason = "" /\ r.fin = "no"
  IN  /\ At(p, "write")
      /\ Set(t, IF ends THEN [r EXCEPT !.reason = "lost", !.fin = "close"] ELSE r)
      /\ Return(p)
      /\ UNCHANGED <<owner, calls>>

\* sendSerialBreak drains before it takes its own use.
BreakLock(p) ==
  LET t == th[p].t
  IN  /\ At(p, "breakLock") /\ tab[t].writeMu = NoThread
      /\ Set(t, [Draining(tab[t]) EXCEPT !.writeMu = p])
      /\ Goto(p, "breakDrain")
      /\ UNCHANGED <<owner, calls>>

BreakDrained(p) ==
  LET t == th[p].t
  IN  /\ At(p, "breakDrain")
      /\ IF tab[t].closed
         THEN Set(t, [tab[t] EXCEPT !.writeMu = NoThread]) /\ Return(p)
         ELSE Set(t, Acquired(tab[t])) /\ Goto(p, "break")
      /\ UNCHANGED <<owner, calls>>

BreakDone(p) ==
  LET t == th[p].t
  IN  /\ At(p, "break")
      /\ Set(t, [Released(tab[t]) EXCEPT !.writeMu = NoThread])
      /\ Return(p)
      /\ UNCHANGED <<owner, calls>>

Applying(t) == \E p \in Threads : /\ th[p].t = t /\ th[p].gen = None
                                  /\ th[p].pc \in {"apply", "applyWrite",
                                                   "applyMode", "applied"}

\* The bug of an in-place change that leaves older pending settings alone.
Supersede_KeepsPending(r) == r

\* An in-place change is newer than anything saved while connecting.
Supersede(r) == [r EXCEPT !.pending = None, !.gen = @ + 1]

\* applySerialSettings, after a connection was saved.
SaveSettings(p, t, v) ==
  LET r == [tab[t] EXCEPT !.latest = v, !.disturbed = @ \/ Applying(t)]
  IN  /\ Call(p, t) /\ tab[t].kind = "serial" /\ tab[t].reason = ""
      /\ IF r.status = "connecting"
         THEN /\ Set(t, [r EXCEPT !.pending = v])
              /\ UNCHANGED th
         ELSE /\ Set(t, Supersede(r))
              /\ th' = [th EXCEPT ![p] = [Rest EXCEPT !.pc = "apply", !.t = t,
                                                      !.val = v]]
      /\ UNCHANGED owner

\* applyNowIf under applyMu: nothing to do when the settings are the same, or
\* when they are the pending ones and a newer change was asked for.
Apply(p) ==
  LET t == th[p].t
      stale == th[p].gen # None /\ th[p].gen # tab[t].gen
  IN  /\ At(p, "apply") /\ tab[t].applyMu = NoThread
      /\ IF stale \/ tab[t].settings = th[p].val
         THEN UNCHANGED tab /\ Return(p)
         ELSE Set(t, [tab[t] EXCEPT !.applyMu = p]) /\ Goto(p, "applyWrite")
      /\ UNCHANGED <<owner, calls>>

ApplyWrite(p) ==
  LET t == th[p].t
  IN  /\ At(p, "applyWrite") /\ tab[t].writeMu = NoThread
      /\ IF tab[t].closed
         THEN Set(t, [tab[t] EXCEPT !.applyMu = NoThread]) /\ Return(p)
         ELSE Set(t, [Draining(Acquired(tab[t])) EXCEPT !.writeMu = p])
              /\ Goto(p, "applyMode")
      /\ UNCHANGED <<owner, calls>>

\* SetMode, after the Drain ended or timed out; a failed one is rolled back.
ApplyMode(p, ok) ==
  LET t == th[p].t
  IN  /\ At(p, "applyMode")
      /\ Set(t, [Released(tab[t]) EXCEPT
                   !.mode = IF ok THEN th[p].val ELSE tab[t].settings,
                   !.disturbed = @ \/ ~ok, !.writeMu = NoThread])
      /\ th' = [th EXCEPT ![p].pc = "applied", ![p].ok = ok]
      /\ UNCHANGED <<owner, calls>>

Applied(p) ==
  LET t == th[p].t
  IN  /\ At(p, "applied")
      /\ Set(t, [tab[t] EXCEPT !.applyMu = NoThread,
                               !.settings = IF th[p].ok THEN th[p].val ELSE @])
      /\ Return(p)
      /\ UNCHANGED <<owner, calls>>

----------------------------------------------------------------------------
(* The end of a tab                                                        *)

\* closeTerminalSession: a connecting tab is cancelled, an open one finished.
Close(p, t) ==
  LET r == tab[t]
      why == IF r.reason = "" THEN "user" ELSE r.reason
  IN  /\ Call(p, t)
      /\ Set(t, IF r.status = "connecting"
                THEN [r EXCEPT !.reason = why, !.canceled = TRUE]
                ELSE [r EXCEPT !.reason = why, !.fin = IF @ = "no" THEN "close" ELSE @])
      /\ UNCHANGED <<owner, th>>

\* session.Wait or the read loop returns: the remote shell ended, the network
\* or the device went away.
RemoteEnds(t) ==
  /\ tab[t].opened /\ tab[t].fin = "no" /\ tab[t].reason = ""
  /\ Set(t, [tab[t] EXCEPT !.reason = "lost", !.fin = "close"])
  /\ UNCHANGED <<owner, th, calls>>

\* finishTerminal runs once: the closer ...
FinishClose(t) ==
  /\ tab[t].fin = "close"
  /\ Set(t, [Closer(tab[t]) EXCEPT !.canceled = TRUE, !.outClosed = TRUE,
                                   !.fin = "flush"])
  /\ UNCHANGED <<owner, th, calls>>

\* The bug of not waiting for the rest of the output.
Flushed_Now(r) == TRUE

\* ... out.close, which returns when the rest of the output was sent ...
Flushed(r) == r.buf = 0 /\ r.dropped = 0 /\ r.chunk = 0

\* The bug of a finished tab that keeps its device.
Freed_Keeps(t) == owner

Freed(t) == [d \in Devices |-> IF owner[d] = t THEN None ELSE owner[d]]

FinishDrop(t) ==
  /\ tab[t].fin = "flush" /\ Flushed(tab[t])
  /\ Set(t, [tab[t] EXCEPT !.inMap = FALSE, !.done = TRUE, !.fin = "exit"])
  /\ owner' = Freed(t)
  /\ UNCHANGED <<th, calls>>

\* ... and terminal:exit, outside every lock.
EmitExit(t) ==
  /\ tab[t].fin = "exit"
  /\ Set(t, [tab[t] EXCEPT !.exits = @ + 1, !.fin = "over"])
  /\ UNCHANGED <<owner, th, calls>>

\* The end of failTerminalStart: no terminal:exit is sent.
FailFlushed(t) ==
  /\ tab[t].fin = "failed" /\ Flushed(tab[t])
  /\ Set(t, [tab[t] EXCEPT !.done = TRUE, !.fin = "over"])
  /\ UNCHANGED <<owner, th, calls>>

----------------------------------------------------------------------------
(* The output buffer                                                       *)

\* A unit of output arrives; the oldest goes when the buffer is full.
Output(t) ==
  LET r == tab[t]
  IN  /\ r.link = "open" /\ ~r.outClosed
      /\ calls < Calls /\ calls' = calls + 1
      /\ Set(t, [r EXCEPT !.accepted = @ + 1,
                          !.buf = IF @ < Cap THEN @ + 1 ELSE @,
                          !.dropped = IF r.buf < Cap THEN @ ELSE @ + 1])
      /\ UNCHANGED <<owner, th>>

\* drain takes what is pending under the lock ...
TakeChunk(t) ==
  LET r == tab[t]
  IN  /\ r.chunk = 0 /\ r.buf + r.dropped > 0
      /\ Set(t, [r EXCEPT !.chunk = r.buf + r.dropped, !.buf = 0, !.dropped = 0])
      /\ UNCHANGED <<owner, th, calls>>

\* ... and emits it without: the data, and how much was dropped.
EmitChunk(t) ==
  /\ tab[t].chunk > 0
  /\ Set(t, [tab[t] EXCEPT !.emitted = @ + tab[t].chunk, !.chunk = 0])
  /\ UNCHANGED <<owner, th, calls>>

----------------------------------------------------------------------------
Start(p, t) ==
  \/ \E d \in Devices : Register(p, t, "serial", d)
  \/ Register(p, t, "ssh", None)

Request(p, t) ==
  \/ \E v \in Values : Resize(p, t, v) \/ SaveSettings(p, t, v)
  \/ Write(p, t) \/ Break(p, t) \/ Close(p, t)

Step(p) ==
  \/ \E ok \in BOOLEAN : Dial(p, ok) \/ RequestPty(p, ok) \/ ApplyMode(p, ok)
                         \/ WriteDone(p, ok)
  \/ ReadSize(p) \/ Commit(p) \/ FailStart(p) \/ TakePending(p)
  \/ ResizeLock(p) \/ WindowChange(p)
  \/ WriteLock(p) \/ BreakLock(p) \/ BreakDrained(p) \/ BreakDone(p)
  \/ Apply(p) \/ ApplyWrite(p) \/ Applied(p)

Background(t) ==
  \/ DrainEnds(t) \/ TakeChunk(t) \/ EmitChunk(t)
  \/ FinishClose(t) \/ FinishDrop(t) \/ EmitExit(t) \/ FailFlushed(t)

Next ==
  \/ \E p \in Threads, t \in Tabs : Start(p, t) \/ Request(p, t)
  \/ \E p \in Threads : Step(p)
  \/ \E t \in Tabs : Background(t) \/ RemoteEnds(t) \/ Output(t)

Spec == Init /\ [][Next]_vars

----------------------------------------------------------------------------
(* Properties                                                              *)

OnTheFd(t) ==
  tab[t].drains
    + Cardinality({p \in Threads : th[p].t = t /\ th[p].pc \in {"write", "break",
                                                                 "applyMode"}})

\* No Write, Drain, SetMode or Break runs on a port that was closed: the raw
\* fd may belong to another file by then.  A Drain that outlives its timeout
\* counts too.
NoUseAfterClose ==
  \A t \in Tabs :
    tab[t].kind = "serial" /\ OnTheFd(t) > 0 => tab[t].link = "open"

\* A tab that is gone is in no map, holds no device, and its connection is
\* closed as soon as the last operation on it has returned, whether it was
\* closed, lost, or cancelled at any point of its start; and a device is held
\* by the one tab in the map that is on it.
GoneLeavesNothing ==
  /\ \A t \in Tabs : tab[t].done =>
       /\ ~tab[t].inMap
       /\ tab[t].link = "open" => tab[t].kind = "serial" /\ OnTheFd(t) > 0
  /\ \A d \in Devices, t \in Tabs :
       owner[d] = t <=> tab[t].inMap /\ tab[t].dev = d

\* terminal:exit is sent once for a tab that was open and never for another;
\* by then every unit of output that was accepted has been emitted or reported
\* as dropped.
ExitIsLast ==
  \A t \in Tabs :
    LET r == tab[t]
    IN  /\ r.exits <= (IF r.opened THEN 1 ELSE 0)
        /\ r.fin = "over" => r.exits = IF r.opened THEN 1 ELSE 0
        /\ r.exits = 1 => r.emitted = r.accepted
        /\ r.accepted = r.emitted + r.chunk + r.buf + r.dropped

Quiet(t) == \A p \in Threads : th[p].t # t

\* Once no call is at work on an open tab, the latest wins.  An SSH window has
\* the size that was stored last, in whatever order the calls got to apply
\* theirs.  A serial port runs with the settings the tab shows, and they are
\* those saved last since the tab was registered (StartTerminal reads the
\* connection before that, and a save in between reaches no tab), unless
\* SetMode failed or two changes of the open tab overlapped, which no lock
\* orders.  Both hold also for what came while the tab was connecting.
LatestWins ==
  \A t \in Tabs :
    (tab[t].opened /\ Quiet(t)) =>
      /\ tab[t].kind = "ssh" /\ tab[t].link = "open" => tab[t].pty = tab[t].size
      /\ tab[t].kind = "serial" /\ tab[t].reason = "" =>
           /\ tab[t].mode = tab[t].settings
           /\ ~tab[t].disturbed => tab[t].settings = tab[t].latest

=============================================================================
