----------------------------- MODULE TerminalProofs -----------------------------
(***************************************************************************)
(* Whatever order opening, closing, losing, resizing and configuring a tab *)
(* come in: nothing uses a closed port, a tab that is gone leaves nothing  *)
(* behind, its exit comes last, and the latest size and settings win.      *)
(* Proved for any number of tabs, devices, threads and calls.              *)
(***************************************************************************)
EXTENDS Terminals, FiniteSetTheorems, TLAPS

Starting == {"dial", "size", "pty", "commit", "fail"}
OnFd == {"write", "break", "applyMode"}
Settling == {"applyWrite", "applyMode", "applied"}
OnLine == {"pending", "writeLock", "breakLock", "breakDrain", "apply"} \cup OnFd \cup Settling
PCs == {"rest", "resizeLock", "windowChange"} \cup Starting \cup OnLine
Mutexes == Threads \cup {NoThread}

\* The parts of a tab and of a thread.
Fields ==
  {"kind", "dev", "inMap", "status", "reason", "canceled", "opened", "link", "closed", "users",
   "drains", "writeMu", "applyMu", "resizeMu", "pump", "fin", "done", "exits", "size", "pty",
   "settings", "mode", "pending", "gen", "latest", "disturbed", "outClosed", "buf", "dropped",
   "chunk", "accepted", "emitted"}

LifeTyped(r) ==
  /\ r.kind \in {"none", "ssh", "serial"}
  /\ r.dev \in Devices \cup {None}
  /\ r.status \in {"none", "connecting", "open"}
  /\ r.reason \in {"", "user", "lost"}
  /\ r.link \in {"none", "open", "closed"}
  /\ r.fin \in {"no", "close", "flush", "exit", "over", "failed"}
  /\ r.inMap \in BOOLEAN /\ r.canceled \in BOOLEAN /\ r.opened \in BOOLEAN
  /\ r.closed \in BOOLEAN /\ r.done \in BOOLEAN /\ r.outClosed \in BOOLEAN

FdTyped(r) ==
  /\ r.pump \in BOOLEAN
  /\ r.writeMu \in Mutexes /\ r.applyMu \in Mutexes /\ r.resizeMu \in Mutexes

LineTyped(r) ==
  /\ r.size \in Values /\ r.settings \in Values /\ r.latest \in Values
  /\ r.pty \in Values \cup {None} /\ r.mode \in Values \cup {None}
  /\ r.pending \in Values \cup {None}
  /\ r.disturbed \in BOOLEAN

Numbers(r) ==
  /\ r.users \in Nat /\ r.drains \in Nat /\ r.exits \in Nat /\ r.gen \in Nat
  /\ r.buf \in Nat /\ r.dropped \in Nat /\ r.chunk \in Nat
  /\ r.accepted \in Nat /\ r.emitted \in Nat

IsTab(r) ==
  /\ DOMAIN r = Fields
  /\ LifeTyped(r) /\ FdTyped(r) /\ LineTyped(r) /\ Numbers(r)

IsThread(x) ==
  /\ DOMAIN x = {"pc", "t", "val", "gen", "ok"}
  /\ x.pc \in PCs
  /\ x.t \in Tabs \cup {None}
  /\ x.val \in Values \cup {None}
  /\ x.gen \in Nat \cup {None}
  /\ x.ok \in BOOLEAN

Typed ==
  /\ tab = [t \in Tabs |-> tab[t]] /\ \A t \in Tabs : IsTab(tab[t])
  /\ owner \in [Devices -> Tabs \cup {None}]
  /\ th = [p \in Threads |-> th[p]] /\ \A p \in Threads : IsThread(th[p])

On(p, t, places) == th[p].t = t /\ th[p].pc \in places

\* What a thread's place says of the tab it works on.
Works(p, x, r) ==
  /\ x.pc # "rest"
  /\ r.kind # "none"
  /\ x.pc \in Starting =>
       /\ ~r.opened /\ r.fin = "no"
       /\ x.pc # "fail" => ~r.closed
       /\ x.pc = "dial" => r.link = "none" /\ r.mode = None
       /\ x.pc \in {"size", "pty"} => r.kind = "ssh"
       /\ x.pc \in {"pty"} => x.val # None
       /\ x.pc \in {"size", "pty", "commit"} => r.link = "open"
       /\ x.pc = "commit" /\ r.kind = "serial" => r.mode = r.settings
       /\ x.pc = "fail" => r.link # "open"
  /\ x.pc \in OnLine => r.kind = "serial" /\ r.opened
  /\ x.pc = "windowChange" =>
       r.kind = "ssh" /\ r.opened /\ r.resizeMu = p /\ x.val # None
  /\ x.pc \in OnFd \cup {"breakDrain"} => r.writeMu = p
  /\ x.pc \in Settling => r.applyMu = p
  /\ x.pc \in Settling \cup {"apply"} => x.val # None
  /\ x.gen # None => x.gen \in Nat /\ x.gen <= r.gen

\* One thread opens a tab, and goes on to apply what was saved meanwhile.
Opens(p, t) ==
  \/ On(p, t, Starting \cup {"pending"})
  \/ On(p, t, Settling \cup {"apply"}) /\ th[p].gen # None

OneOpens(t) ==
  \A p, q \in Threads : Opens(p, t) /\ Opens(q, t) => p = q

\* The uses of the fd are counted, and it is open while there is one.
Busy(t) == \E p \in Threads : On(p, t, OnFd)

Fd(r, busy) ==
  /\ r.users = r.drains + IF busy THEN 1 ELSE 0
  /\ r.users > 0 => r.kind = "serial" /\ r.opened /\ r.link = "open"
  /\ r.kind = "serial" /\ r.opened /\ ~r.closed => r.link = "open"
  /\ r.closed /\ r.users = 0 => r.link = "closed"

\* The life of a tab.
Life(r) ==
  /\ r.kind = "none" => ~r.opened /\ r.fin = "no"
  /\ r.kind # "none" => r.status = IF r.opened THEN "open" ELSE "connecting"
  /\ r.inMap <=> r.kind # "none" /\ r.fin \in {"no", "close", "flush"}
  /\ r.done <=> r.fin \in {"exit", "over"}
  /\ r.opened => r.fin # "failed"
  /\ r.opened /\ r.reason = "" => r.fin = "no" /\ ~r.closed
  /\ r.opened /\ r.fin \in {"flush", "exit", "over"} =>
       IF r.kind = "serial" THEN r.closed ELSE r.link = "closed"
  /\ ~r.opened => r.fin \in {"no", "failed", "over"}
  /\ ~r.opened /\ r.fin # "no" => r.link # "open"
  /\ r.fin \in {"flush", "exit", "over", "failed"} => r.outClosed
  /\ r.exits = IF r.fin = "over" /\ r.opened THEN 1 ELSE 0

\* What was accepted is counted once.
Counted(r) ==
  /\ r.accepted = r.emitted + r.chunk + r.buf + r.dropped
  /\ r.fin \in {"exit", "over"} => r.buf = 0 /\ r.dropped = 0 /\ r.chunk = 0

\* Who has a device.
Owns(t) ==
  /\ tab[t].dev # None => tab[t].kind = "serial"
  /\ \A d \in Devices : owner[d] = t <=> tab[t].inMap /\ tab[t].dev = d

\* The window has the stored size, or somebody will give it to it.
Window(t) ==
  tab[t].kind = "ssh" /\ tab[t].opened /\ tab[t].link = "open" =>
    \/ \E p \in Threads : On(p, t, {"resizeLock"})
    \/ /\ \A p \in Threads : On(p, t, {"windowChange"}) => th[p].val = tab[t].size
       /\ \/ tab[t].pty = tab[t].size
          \/ \E p \in Threads : On(p, t, {"windowChange"})

\* The port has the settings of the tab, or the one who changed it will say so.
Line(t) ==
  tab[t].kind = "serial" /\ tab[t].opened =>
    /\ \A p \in Threads : On(p, t, {"applied"}) =>
         tab[t].mode = IF th[p].ok THEN th[p].val ELSE tab[t].settings
    /\ (\A p \in Threads : ~On(p, t, {"applied"})) => tab[t].mode = tab[t].settings

InPlace(p, t, places) == On(p, t, places) /\ th[p].gen = None
AtStart(p, t, places) == On(p, t, places) /\ th[p].gen # None

\* Who carries settings carries the latest, unless he will be overtaken.
Carried(t) ==
  /\ tab[t].pending # None => tab[t].pending = tab[t].latest
  /\ ~tab[t].opened /\ tab[t].pending = None => tab[t].settings = tab[t].latest
  /\ \A p \in Threads : InPlace(p, t, Settling \cup {"apply"}) => th[p].val = tab[t].latest
  /\ \A p \in Threads :
       AtStart(p, t, {"apply"}) /\ th[p].gen = tab[t].gen => th[p].val = tab[t].latest
  /\ \A p \in Threads : AtStart(p, t, Settling) =>
       th[p].val = tab[t].latest \/ \E q \in Threads : InPlace(q, t, {"apply"})
  /\ \A p \in Threads : On(p, t, {"applied"}) => th[p].ok

\* The settings are the latest, or somebody is on the way with them.
Brings(x, t, r) ==
  /\ x.t = t
  /\ \/ x.pc \in Settling \cup {"apply"} /\ x.gen = None
     \/ x.pc = "apply" /\ x.gen = r.gen
     \/ x.pc \in Settling /\ x.val = r.latest
     \/ x.pc = "pending" /\ r.pending # None

Coming(t) ==
  tab[t].opened /\ tab[t].settings # tab[t].latest =>
    \E p \in Threads : Brings(th[p], t, tab[t])

Undisturbed(r) == r.kind = "serial" /\ r.reason = "" /\ ~r.disturbed

Latest(t) == Undisturbed(tab[t]) => Carried(t) /\ Coming(t)

TabOK(t) ==
  /\ \A p \in Threads : th[p].t = t => Works(p, th[p], tab[t])
  /\ OneOpens(t) /\ Fd(tab[t], Busy(t)) /\ Life(tab[t]) /\ Counted(tab[t]) /\ Owns(t)
  /\ Window(t) /\ Line(t) /\ Latest(t)

TabsInv ==
  /\ Typed
  /\ \A p \in Threads : th[p].t = None => th[p] = Rest
  /\ \A t \in Tabs : TabOK(t)


----------------------------------------------------------------------------
(* Steps that leave a part of a tab alone                                  *)

SameLife(s, r) ==
  /\ s.kind = r.kind /\ s.dev = r.dev /\ s.inMap = r.inMap /\ s.status = r.status
  /\ s.reason = r.reason /\ s.canceled = r.canceled /\ s.opened = r.opened /\ s.link = r.link
  /\ s.closed = r.closed /\ s.fin = r.fin /\ s.done = r.done /\ s.exits = r.exits
  /\ s.outClosed = r.outClosed

SameFd(s, r) ==
  /\ s.users = r.users /\ s.drains = r.drains /\ s.writeMu = r.writeMu /\ s.applyMu = r.applyMu
  /\ s.resizeMu = r.resizeMu /\ s.pump = r.pump

SameLine(s, r) ==
  /\ s.size = r.size /\ s.pty = r.pty /\ s.settings = r.settings /\ s.mode = r.mode
  /\ s.pending = r.pending /\ s.gen = r.gen /\ s.latest = r.latest /\ s.disturbed = r.disturbed

SameOut(s, r) ==
  /\ s.buf = r.buf /\ s.dropped = r.dropped /\ s.chunk = r.chunk /\ s.accepted = r.accepted
  /\ s.emitted = r.emitted

USE DEF At, Goto, Return, Tab, Starting, OnFd, Settling, OnLine, PCs, Mutexes, On, InPlace, AtStart

LEMMA NoneIsNothing == None \notin Tabs /\ None \notin Values /\ None \notin Nat /\ NoThread \notin Threads
BY TabsAssumption

USE NoneIsNothing

LEMMA SameParts ==
  ASSUME NEW r, NEW s
  PROVE  /\ SameLife(s, r) /\ LifeTyped(r) => LifeTyped(s)
         /\ SameFd(s, r) /\ FdTyped(r) => FdTyped(s)
         /\ SameLine(s, r) /\ LineTyped(r) => LineTyped(s)
         /\ SameLife(s, r) /\ SameFd(s, r) /\ SameLine(s, r) /\ SameOut(s, r)
              /\ Numbers(r) => Numbers(s)
         /\ SameLife(s, r) /\ Life(r) => Life(s)
         /\ SameLife(s, r) /\ SameOut(s, r) /\ Counted(r) => Counted(s)
<1>1. SameLife(s, r) /\ LifeTyped(r) => LifeTyped(s)
  BY DEF SameLife, LifeTyped
<1>2. SameFd(s, r) /\ FdTyped(r) => FdTyped(s)
  BY DEF SameFd, FdTyped
<1>3. SameLine(s, r) /\ LineTyped(r) => LineTyped(s)
  BY DEF SameLine, LineTyped
<1>4. SameLife(s, r) /\ SameFd(s, r) /\ SameLine(s, r) /\ SameOut(s, r) /\ Numbers(r) => Numbers(s)
  BY DEF SameLife, SameFd, SameLine, SameOut, Numbers
<1>5. SameLife(s, r) /\ Life(r) => Life(s)
  BY DEF SameLife, Life
<1>6. SameLife(s, r) /\ SameOut(s, r) /\ Counted(r) => Counted(s)
  BY DEF SameLife, SameOut, Counted
<1> QED
  BY <1>1, <1>2, <1>3, <1>4, <1>5, <1>6

(* Who has no part in the sizes, or in the settings, does not disturb them. *)
OfWindow == {"resizeLock", "windowChange"}
OfLine == Settling \cup {"apply", "pending"}

LEMMA WindowKept ==
  ASSUME NEW t \in Tabs, Window(t), NEW r, NEW s, r = tab[t], s = tab'[t],
         s.size = r.size, s.pty = r.pty, s.kind = r.kind, s.opened = r.opened,
         s.link = r.link \/ s.link # "open",
         \A q \in Threads : \/ th'[q] = th[q]
                            \/ th[q].pc \notin OfWindow /\ th'[q].pc \notin OfWindow
  PROVE  Window(t)'
<1>1. \A q \in Threads :
        /\ th'[q].t = t /\ th'[q].pc \in OfWindow => th'[q] = th[q]
        /\ th[q].t = t /\ th[q].pc \in OfWindow => th'[q] = th[q]
  OBVIOUS
<1> QED
  BY <1>1 DEF Window, OfWindow

LEMMA LineKept ==
  ASSUME NEW t \in Tabs, Line(t), Latest(t), NEW r, NEW s, r = tab[t], s = tab'[t],
         s.settings = r.settings, s.mode = r.mode, s.pending = r.pending, s.gen = r.gen,
         s.latest = r.latest, s.disturbed = r.disturbed,
         s.kind = r.kind, s.opened = r.opened, s.reason = r.reason \/ s.reason # "",
         \A q \in Threads : \/ th'[q] = th[q]
                            \/ th[q].pc \notin OfLine /\ th'[q].pc \notin OfLine
  PROVE  Line(t)' /\ Latest(t)'
<1>3. \A q \in Threads :
        /\ th'[q].t = t /\ th'[q].pc \in OfLine => th'[q] = th[q]
        /\ th[q].t = t /\ th[q].pc \in OfLine => th'[q] = th[q]
  OBVIOUS
<1>5. Line(t)'
  BY <1>3 DEF Line, OfLine
<1>6. Undisturbed(s) => Undisturbed(r)
  BY DEF Undisturbed
<1>7. Carried(t) => Carried(t)'
  <2>1. \A q \in Threads : On(q, t, Settling \cup {"apply"})' => th'[q] = th[q]
    BY <1>3 DEF OfLine
  <2>2. \A q \in Threads : InPlace(q, t, {"apply"}) => InPlace(q, t, {"apply"})'
    BY <1>3 DEF OfLine
  <2> SUFFICES ASSUME Carried(t) PROVE Carried(t)'
    OBVIOUS
  <2>3. ASSUME NEW q \in Threads, th'[q].t = t, th'[q].pc \in Settling \cup {"apply"}
        PROVE  /\ th'[q].gen = None => th'[q].val = s.latest
               /\ th'[q].pc = "apply" /\ th'[q].gen # None /\ th'[q].gen = s.gen =>
                    th'[q].val = s.latest
               /\ th'[q].pc \in Settling /\ th'[q].gen # None =>
                    th'[q].val = s.latest \/ \E o \in Threads : InPlace(o, t, {"apply"})'
               /\ th'[q].pc = "applied" => th'[q].ok
    <3>1. th'[q] = th[q]
      BY <2>1, <2>3
    <3>2. th[q].t = t /\ th[q].pc \in Settling \cup {"apply"} /\ r.latest = tab[t].latest /\ r.gen = tab[t].gen
      BY <2>3, <3>1
    <3>3. /\ th[q].gen = None => th[q].val = r.latest
          /\ th[q].pc = "apply" /\ th[q].gen # None /\ th[q].gen = r.gen => th[q].val = r.latest
      BY <3>2 DEF Carried
    <3>4. /\ th[q].pc \in Settling /\ th[q].gen # None =>
                    th[q].val = r.latest \/ \E o \in Threads : InPlace(o, t, {"apply"})
          /\ th[q].pc = "applied" => th[q].ok
      BY <3>2 DEF Carried
    <3> QED
      BY <2>2, <3>1, <3>3, <3>4
  <2> QED
    BY <2>3 DEF Carried
<1>8. Coming(t) => Coming(t)'
  <2>1. \A q \in Threads : Brings(th[q], t, r) => Brings(th'[q], t, s)
    BY <1>3 DEF Brings, OfLine
  <2> QED
    BY <2>1 DEF Coming
<1> QED
  BY <1>5, <1>6, <1>7, <1>8 DEF Latest

LEMMA OffWindow ==
  ASSUME NEW t \in Tabs, NEW p \in Threads, Window(t), NEW r, NEW s, r = tab[t], s = tab'[t],
         s.size = r.size, s.pty = r.pty, s.kind = r.kind, s.opened = r.opened,
         s.link = r.link \/ s.link # "open",
         \A q \in Threads : q # p => th'[q] = th[q],
         th[p].pc \notin OfWindow, th'[p].pc \notin OfWindow
  PROVE  Window(t)'
<1>1. \A q \in Threads : \/ th'[q] = th[q]
                         \/ th[q].pc \notin OfWindow /\ th'[q].pc \notin OfWindow
  OBVIOUS
<1> QED
  BY <1>1, WindowKept

LEMMA OffLine ==
  ASSUME NEW t \in Tabs, NEW p \in Threads, Line(t), Latest(t),
         NEW r, NEW s, r = tab[t], s = tab'[t],
         s.settings = r.settings, s.mode = r.mode, s.pending = r.pending, s.gen = r.gen,
         s.latest = r.latest, s.disturbed = r.disturbed,
         s.kind = r.kind, s.opened = r.opened, s.reason = r.reason \/ s.reason # "",
         \A q \in Threads : q # p => th'[q] = th[q],
         th[p].pc \notin OfLine, th'[p].pc \notin OfLine
  PROVE  Line(t)' /\ Latest(t)'
<1>1. \A q \in Threads : \/ th'[q] = th[q]
                         \/ th[q].pc \notin OfLine /\ th'[q].pc \notin OfLine
  OBVIOUS
<1> QED
  BY <1>1, LineKept

(* A step on one tab changes no other.                                     *)
LEMMA OneTab ==
  ASSUME TabsInv, Typed', NEW t \in Tabs,
         \A u \in Tabs : u # t =>
           tab'[u] = tab[u] /\ \A d \in Devices : owner'[d] = u <=> owner[d] = u,
         \A p \in Threads : \/ th'[p] = th[p]
                            \/ th[p].t \in {t, None} /\ th'[p].t \in {t, None},
         \A p \in Threads : th'[p].t = None => th'[p] = Rest,
         TabOK(t)'
  PROVE  TabsInv'
<1>1. SUFFICES ASSUME NEW u \in Tabs, u # t PROVE TabOK(u)'
  BY DEF TabsInv
<1>3. \A p \in Threads : (th'[p].t = u <=> th[p].t = u) /\ (th[p].t = u => th'[p] = th[p])
  BY <1>1
<1>4. tab'[u] = tab[u] /\ TabOK(u) /\ \A d \in Devices : owner'[d] = u <=> owner[d] = u
  BY <1>1 DEF TabsInv
<1>5. (\A p \in Threads : th[p].t = u => Works(p, th[p], tab[u]))'
  BY <1>3, <1>4 DEF TabOK, Works
<1>6. OneOpens(u)' /\ (Busy(u)' <=> Busy(u))
  BY <1>3, <1>4 DEF TabOK, OneOpens, Opens, Busy
<1>61. Fd(tab[u], Busy(u))'
  BY <1>4, <1>6 DEF TabOK, Fd
<1>7. Life(tab[u])' /\ Counted(tab[u])'
  BY <1>4 DEF TabOK
<1>71. Owns(u)'
  BY <1>4 DEF TabOK, Owns
<1>8. Window(u)' /\ Line(u)'
  BY <1>3, <1>4 DEF TabOK, Window, Line
<1>9. Undisturbed(tab[u])' <=> Undisturbed(tab[u])
  BY <1>4
<1>10. Undisturbed(tab[u]) /\ Carried(u) => Carried(u)'
  BY <1>3, <1>4 DEF Carried
<1>11. Coming(u) => Coming(u)'
  BY <1>3, <1>4 DEF Coming, Brings
<1>12. Latest(u)'
  BY <1>4, <1>9, <1>10, <1>11 DEF TabOK, Latest
<1> QED
  BY <1>5, <1>6, <1>61, <1>7, <1>71, <1>8, <1>12 DEF TabOK

(* A step of a thread, and a step of the tab's own goroutines.             *)
Others(t) ==
  /\ owner' \in [Devices -> Tabs \cup {None}]
  /\ tab' = [u \in Tabs |-> tab'[u]] /\ th' = [q \in Threads |-> th'[q]]
  /\ \A u \in Tabs : u # t =>
       tab'[u] = tab[u] /\ \A d \in Devices : owner'[d] = u <=> owner[d] = u

LEMMA ThreadStep ==
  ASSUME TabsInv, NEW t \in Tabs, NEW p \in Threads, Others(t),
         \A q \in Threads : q # p => th'[q] = th[q],
         NEW s, NEW y, s = tab'[t], y = th'[p],
         IsTab(s), IsThread(y), th[p].t = t \/ th[p].t = None, y.t = t, Works(p, y, s),
         \A q \in Threads : q # p /\ th[q].t = t => Works(q, th[q], s),
         OneOpens(t)', Fd(s, Busy(t)'), Life(s), Counted(s), Owns(t)',
         Window(t)', Line(t)', Latest(t)'
  PROVE  TabsInv'
<1>1. Typed'
  BY DEF TabsInv, Typed, Others
<1>2. (\A q \in Threads : th[q].t = t => Works(q, th[q], tab[t]))'
  OBVIOUS
<1>3. TabOK(t)'
  BY <1>2 DEF TabOK
<1>4. \A q \in Threads : th'[q].t = None => th'[q] = Rest
  BY DEF TabsInv
<1>5. \A q \in Threads : \/ th'[q] = th[q]
                         \/ th[q].t \in {t, None} /\ th'[q].t \in {t, None}
  OBVIOUS
<1> QED
  BY <1>1, <1>3, <1>4, <1>5, OneTab DEF Others

LEMMA ReturnStep ==
  ASSUME TabsInv, NEW t \in Tabs, NEW p \in Threads, Others(t),
         \A q \in Threads : q # p => th'[q] = th[q],
         NEW s, s = tab'[t], IsTab(s), th[p].t = t \/ th[p].t = None, th'[p] = Rest,
         \A q \in Threads : q # p /\ th[q].t = t => Works(q, th[q], s),
         OneOpens(t)', Fd(s, Busy(t)'), Life(s), Counted(s), Owns(t)',
         Window(t)', Line(t)', Latest(t)'
  PROVE  TabsInv'
<1>0. Rest.t = None /\ IsThread(Rest)
  BY DEF Rest, IsThread
<1>1. Typed'
  BY <1>0 DEF TabsInv, Typed, Others
<1>2. (\A q \in Threads : th[q].t = t => Works(q, th[q], tab[t]))'
  BY <1>0
<1>3. TabOK(t)'
  BY <1>2 DEF TabOK
<1>4. \A q \in Threads : th'[q].t = None => th'[q] = Rest
  BY DEF TabsInv
<1>5. \A q \in Threads : \/ th'[q] = th[q]
                         \/ th[q].t \in {t, None} /\ th'[q].t \in {t, None}
  BY <1>0
<1> QED
  BY <1>1, <1>3, <1>4, <1>5, OneTab DEF Others

LEMMA TabStep ==
  ASSUME TabsInv, NEW t \in Tabs, Others(t), th' = th,
         NEW r, NEW s, r = tab[t], s = tab'[t],
         IsTab(s), \A q \in Threads : th[q].t = t => Works(q, th[q], s),
         Fd(s, Busy(t)), Life(s), Counted(s), Owns(t)',
         SameLine(s, r), s.kind = r.kind, s.opened = r.opened,
         s.reason = r.reason \/ s.reason # "", s.link = r.link \/ s.link # "open"
  PROVE  TabsInv'
<1>0. TabOK(t)
  BY DEF TabsInv
<1>1. Typed'
  BY DEF TabsInv, Typed, Others
<1>2. OneOpens(t)' /\ (Busy(t)' <=> Busy(t))
  BY <1>0 DEF TabOK, OneOpens, Opens, Busy
<1>3. Fd(tab[t], Busy(t))'
  BY <1>2 DEF Fd
<1>4. (\A q \in Threads : th[q].t = t => Works(q, th[q], tab[t]))'
  OBVIOUS
<1>5. /\ s.size = r.size /\ s.pty = r.pty /\ s.settings = r.settings /\ s.mode = r.mode
      /\ s.pending = r.pending /\ s.gen = r.gen /\ s.latest = r.latest
      /\ s.disturbed = r.disturbed
  BY DEF SameLine
<1>6. Window(t)'
  BY <1>0, <1>5, WindowKept DEF TabOK
<1>7. Line(t)' /\ Latest(t)'
  BY <1>0, <1>5, LineKept DEF TabOK
<1>8. TabOK(t)'
  BY <1>2, <1>3, <1>4, <1>6, <1>7 DEF TabOK
<1> QED
  BY <1>1, <1>8, OneTab DEF Others, TabsInv

(* The tab a thread works on.                                              *)
LEMMA Working ==
  ASSUME TabsInv, NEW p \in Threads, th[p].pc # "rest"
  PROVE  \E t \in Tabs : th[p].t = t /\ TabOK(t)
BY DEF TabsInv, Typed, IsThread, Rest

LEMMA Resting ==
  ASSUME TabsInv, NEW p \in Threads, th[p].pc = "rest"
  PROVE  th[p] = Rest /\ th[p].t = None
<1>1. th[p].t \notin Tabs
  BY DEF TabsInv, TabOK, Works
<1>2. th[p] = Rest
  BY <1>1 DEF TabsInv, Typed, IsThread
<1> QED
  BY <1>2 DEF Rest

LEMMA SetTab ==
  ASSUME TabsInv, NEW t \in Tabs, NEW rec, Set(t, rec)
  PROVE  tab'[t] = rec
BY DEF TabsInv, Typed, Set

(* The steps of StartTerminal. One thread opens a tab, so that no other is *)
(* disturbed by the link it makes.                                         *)
LEMMA DialStep ==
  ASSUME TabsInv, NEW p \in Threads, NEW ok \in BOOLEAN, Dial(p, ok)
  PROVE  TabsInv'
<1>1. PICK t \in Tabs : th[p].t = t /\ TabOK(t)
  BY Working DEF Dial
<1>2. PICK r, s, x, y : r = tab[t] /\ s = tab'[t] /\ x = th[p] /\ y = th'[p]
  OBVIOUS
<1>3. IsTab(r) /\ IsThread(x)
  BY <1>2 DEF TabsInv, Typed
<1>4. /\ \A u \in Tabs : u # t => tab'[u] = tab[u]
      /\ \A q \in Threads : q # p => th'[q] = th[q]
  BY <1>1 DEF Dial, TabsInv, Typed, Set
<1>9. tab' = [u \in Tabs |-> tab'[u]] /\ th' = [q \in Threads |-> th'[q]]
  BY <1>1 DEF Dial, TabsInv, Typed, Set
<1>5. Works(p, x, r) /\ x.pc = "dial"
  BY <1>1, <1>2 DEF TabOK, Dial
<1>6. Life(r) /\ Counted(r) /\ OneOpens(t) /\ Owns(t) /\ Window(t) /\ Line(t) /\ Latest(t)
  BY <1>1, <1>2 DEF TabOK
<1>7. Fd(r, Busy(t))
  BY <1>1, <1>2 DEF TabOK
<1>8. \A q \in Threads : th[q].t = t => Works(q, th[q], r)
  BY <1>1, <1>2 DEF TabOK
<1>A. CASE ok /\ ~r.canceled /\ r.kind = "serial"
  <2>1. s = [r EXCEPT !.link = "open", !.mode = r.settings]
    BY <1>1, <1>2, <1>A, SetTab, <1>3, <1>5 DEF Dial, TabsInv, Typed, Works
  <2>2. y = [x EXCEPT !.pc = "commit"]
    BY <1>1, <1>2, <1>A DEF Dial, TabsInv, Typed
  <2>3. s.kind = r.kind /\ s.dev = r.dev /\ s.inMap = r.inMap /\ s.status = r.status
        /\ s.reason = r.reason /\ s.canceled = r.canceled /\ s.opened = r.opened /\
        s.link = "open" /\ s.closed = r.closed /\ s.fin = r.fin /\ s.done = r.done
        /\ s.exits = r.exits /\ s.outClosed = r.outClosed
    BY <1>3, <2>1 DEF IsTab, Fields
  <2>4. s.size = r.size /\ s.pty = r.pty /\ s.settings = r.settings /\
        s.mode = r.settings /\ s.pending = r.pending /\ s.gen = r.gen /\
        s.latest = r.latest /\ s.disturbed = r.disturbed
    BY <1>3, <2>1 DEF IsTab, Fields
  <2>5. DOMAIN s = Fields /\ SameFd(s, r) /\ SameOut(s, r)
    BY <1>3, <2>1 DEF IsTab, Fields, SameFd, SameOut
  <2>6. IsThread(y) /\ y.pc = "commit" /\ y.t = t /\ y.val = x.val /\ y.gen = x.gen /\ y.ok = x.ok
    BY <1>1, <1>2, <1>3, <1>5, <2>2 DEF IsThread, Rest
  <2>7. Busy(t)' <=> Busy(t)
    BY <1>1, <1>2, <1>4, <1>5, <2>6 DEF Busy
  <2>8. LifeTyped(s)
    BY <1>3, <2>3 DEF IsTab, LifeTyped
  <2>9. LineTyped(s)
    BY <1>3, <2>4 DEF IsTab, LineTyped
  <2>10. Numbers(s)
    BY <1>3, <2>3, <2>5, <2>4 DEF IsTab, Numbers, SameFd, SameOut
  <2>11. IsTab(s)
    BY <1>3, <2>5, <2>10, <2>8, <2>9, SameParts DEF IsTab
  <2>12. Works(p, y, s)
    BY <1>5, <2>3, <2>5, <2>4, <1>A, <2>6 DEF Works, SameFd
  <2>13. \A q \in Threads : q # p /\ th[q].t = t => Works(q, th[q], s)
    BY <1>8, <1>5, <2>3, <2>5, <2>4, <1>A, <1>1, <1>2, <1>6 DEF Works, SameFd,
       OneOpens, Opens
  <2>14. OneOpens(t)'
    BY <1>6, <1>1, <1>2, <1>4, <1>5, <2>6 DEF OneOpens, Opens
  <2>15. Fd(s, Busy(t)')
    BY <1>3, <1>7, <1>A, <1>5, <2>3, <2>5, <2>7 DEF IsTab, Numbers, Fd, Works,
       SameFd
  <2>16. Life(s)
    BY <1>3, <1>6, <2>8, <1>A, <1>5, <2>3 DEF IsTab, Life, LifeTyped, Works
  <2>17. s.fin = r.fin
    BY <2>3
  <2>18. Counted(s)
    BY <1>3, <1>6, <1>A, <1>5, <2>17, <2>5 DEF IsTab, Numbers, Counted, SameOut
  <2>19. Owns(t)'
    BY <1>1, <1>2, <1>6, <2>3 DEF Dial, Owns
  <2>20. Window(t)'
    BY <1>6, <2>3, <2>4, <1>1, <1>2, <1>4, <1>5, <2>6 DEF Window, Works
  <2>21. Line(t)'
    BY <1>6, <2>3, <2>4, <1>1, <1>2, <1>4, <1>5, <2>6 DEF Line, Works
  <2>22. Undisturbed(s) => Carried(t) /\ Coming(t)
    BY <1>2, <1>6, <2>3, <2>4 DEF Latest, Undisturbed
  <2>23. Undisturbed(s) => Carried(t)'
    BY <2>22, <2>3, <2>4, <1>1, <1>2, <1>4, <1>5, <2>6 DEF Carried
  <2>24. Undisturbed(s) => Coming(t)'
    BY <2>22, <2>3, <2>4, <1>1, <1>2, <1>4, <1>5, <2>6 DEF Coming, Brings
  <2>25. Latest(t)'
    BY <1>2, <2>23, <2>24 DEF Latest
  <2>26. Others(t)
    BY <1>1, <1>4, <1>9 DEF Dial, Others, TabsInv, Typed
  <2> QED
    BY <1>1, <1>2, <1>4, <2>6, <2>12, <2>11, <2>13, <2>14, <2>15, <2>19, <2>26,
       <2>16, <2>18, <2>20, <2>21, <2>25, ThreadStep
<1>B. CASE ok /\ ~r.canceled /\ r.kind # "serial"
  <2>1. s = [r EXCEPT !.link = "open", !.mode = r.mode]
    BY <1>1, <1>2, <1>B, SetTab DEF Dial, TabsInv, Typed
  <2>2. y = [x EXCEPT !.pc = "size"]
    BY <1>1, <1>2, <1>B DEF Dial, TabsInv, Typed
  <2>3. s.kind = r.kind /\ s.dev = r.dev /\ s.inMap = r.inMap /\ s.status = r.status
        /\ s.reason = r.reason /\ s.canceled = r.canceled /\ s.opened = r.opened /\
        s.link = "open" /\ s.closed = r.closed /\ s.fin = r.fin /\ s.done = r.done
        /\ s.exits = r.exits /\ s.outClosed = r.outClosed
    BY <1>3, <2>1 DEF IsTab, Fields
  <2>4. DOMAIN s = Fields /\ SameFd(s, r) /\ SameLine(s, r) /\ SameOut(s, r)
    BY <1>3, <2>1 DEF IsTab, Fields, SameFd, SameLine, SameOut
  <2>5. IsThread(y) /\ y.pc = "size" /\ y.t = t /\ y.val = x.val /\ y.gen = x.gen /\ y.ok = x.ok
    BY <1>1, <1>2, <1>3, <1>5, <2>2 DEF IsThread, Rest
  <2>6. Busy(t)' <=> Busy(t)
    BY <1>1, <1>2, <1>4, <1>5, <2>5 DEF Busy
  <2>7. LifeTyped(s)
    BY <1>3, <2>3 DEF IsTab, LifeTyped
  <2>8. Numbers(s)
    BY <1>3, <2>3, <2>4 DEF IsTab, Numbers, SameFd, SameLine, SameOut
  <2>9. IsTab(s)
    BY <1>3, <2>4, <2>8, <2>7, SameParts DEF IsTab
  <2>10. Works(p, y, s)
    BY <1>5, <2>3, <2>4, <1>B, <2>5, <1>3, ZenonT(60) DEF Works, SameFd, SameLine, IsTab,
       LifeTyped
  <2>11. \A q \in Threads : q # p /\ th[q].t = t => Works(q, th[q], s)
    BY <1>8, <1>5, <2>3, <2>4, <1>B, <1>1, <1>2, <1>6 DEF Works, SameFd, SameLine,
       OneOpens, Opens
  <2>12. OneOpens(t)'
    BY <1>6, <1>1, <1>2, <1>4, <1>5, <2>5 DEF OneOpens, Opens
  <2>13. Fd(s, Busy(t)')
    BY <1>3, <1>7, <1>B, <1>5, <2>3, <2>4, <2>6 DEF IsTab, Numbers, Fd, Works,
       SameFd
  <2>14. Life(s)
    BY <1>3, <1>6, <2>7, <1>B, <1>5, <2>3 DEF IsTab, Life, LifeTyped, Works
  <2>15. s.fin = r.fin
    BY <2>3
  <2>16. Counted(s)
    BY <1>3, <1>6, <1>B, <1>5, <2>15, <2>4 DEF IsTab, Numbers, Counted, SameOut
  <2>17. Owns(t)'
    BY <1>1, <1>2, <1>6, <2>3 DEF Dial, Owns
  <2>18. th[p].pc \notin OfLine /\ th'[p].pc \notin OfLine
    BY <1>1, <1>2, <1>5, <2>5 DEF OfLine
  <2>19. Window(t)'
    BY <1>6, <2>3, <2>4, <1>1, <1>2, <1>4, <1>5, <2>5 DEF Window, SameLine, Works
  <2>20. Line(t)' /\ Latest(t)'
    BY <1>2, <1>4, <1>6, <2>18, <2>3, <2>4, OffLine, ZenonT(60) DEF SameLine
  <2>21. Others(t)
    BY <1>1, <1>4, <1>9 DEF Dial, Others, TabsInv, Typed
  <2> QED
    BY <1>1, <1>2, <1>4, <2>5, <2>10, <2>9, <2>11, <2>12, <2>13, <2>17, <2>21,
       <2>14, <2>16, <2>19, <2>20, ThreadStep
<1>C. CASE ~(ok /\ ~r.canceled)
  <2>1. s = r
    BY <1>1, <1>2, <1>C, SetTab DEF Dial, TabsInv, Typed
  <2>2. y = [x EXCEPT !.pc = "fail"]
    BY <1>1, <1>2, <1>C DEF Dial, TabsInv, Typed
  <2>3. DOMAIN s = Fields /\ SameLife(s, r) /\ SameFd(s, r) /\ SameLine(s, r) /\ SameOut(s, r)
    BY <1>3, <2>1 DEF IsTab, Fields, SameLife, SameFd, SameLine, SameOut
  <2>4. IsThread(y) /\ y.pc = "fail" /\ y.t = t /\ y.val = x.val /\ y.gen = x.gen /\ y.ok = x.ok
    BY <1>1, <1>2, <1>3, <1>5, <2>2 DEF IsThread, Rest
  <2>5. Busy(t)' <=> Busy(t)
    BY <1>1, <1>2, <1>4, <1>5, <2>4 DEF Busy
  <2>6. IsTab(s)
    BY <1>3, <2>1
  <2>7. Works(p, y, s)
    BY <1>5, <2>3, <1>C, <2>4 DEF Works, SameLife, SameFd, SameLine
  <2>8. \A q \in Threads : q # p /\ th[q].t = t => Works(q, th[q], s)
    BY <1>8, <1>5, <2>3, <1>C, <1>1, <1>2, <1>6 DEF Works, SameLife, SameFd,
       SameLine, OneOpens, Opens
  <2>9. OneOpens(t)'
    BY <1>6, <1>1, <1>2, <1>4, <1>5, <2>4 DEF OneOpens, Opens
  <2>10. Fd(s, Busy(t)')
    BY <1>3, <1>7, <1>C, <1>5, <2>3, <2>5 DEF IsTab, Numbers, Fd, Works, SameLife,
       SameFd
  <2>11. Life(s) /\ Counted(s)
    BY <1>6, <2>3, SameParts
  <2>12. Owns(t)'
    BY <1>1, <1>2, <1>6, <2>3 DEF Dial, Owns, SameLife
  <2>13. th[p].pc \notin OfWindow /\ th'[p].pc \notin OfWindow /\ th[p].pc \notin OfLine /\ th'[p].pc \notin OfLine
    BY <1>1, <1>2, <1>5, <2>4 DEF OfWindow, OfLine
  <2>14. Window(t)'
    BY <1>2, <1>4, <1>6, <2>13, <2>3, OffWindow DEF SameLife, SameLine
  <2>15. Line(t)' /\ Latest(t)'
    BY <1>2, <1>4, <1>6, <2>13, <2>3, OffLine, ZenonT(60) DEF SameLife, SameLine
  <2>16. Others(t)
    BY <1>1, <1>4, <1>9 DEF Dial, Others, TabsInv, Typed
  <2> QED
    BY <1>1, <1>2, <1>4, <2>4, <2>7, <2>6, <2>8, <2>9, <2>10, <2>12, <2>16, <2>11,
       <2>14, <2>15, ThreadStep
<1> QED
  BY <1>A, <1>B, <1>C

LEMMA ReadSizeStep ==
  ASSUME TabsInv, NEW p \in Threads, ReadSize(p)
  PROVE  TabsInv'
<1>1. PICK t \in Tabs : th[p].t = t /\ TabOK(t)
  BY Working DEF ReadSize
<1>2. PICK r, s, x, y : r = tab[t] /\ s = tab'[t] /\ x = th[p] /\ y = th'[p]
  OBVIOUS
<1>3. IsTab(r) /\ IsThread(x)
  BY <1>2 DEF TabsInv, Typed
<1>4. /\ \A u \in Tabs : u # t => tab'[u] = tab[u]
      /\ \A q \in Threads : q # p => th'[q] = th[q]
  BY <1>1 DEF ReadSize, TabsInv, Typed, Set
<1>9. tab' = [u \in Tabs |-> tab'[u]] /\ th' = [q \in Threads |-> th'[q]]
  BY <1>1 DEF ReadSize, TabsInv, Typed, Set
<1>5. Works(p, x, r) /\ x.pc = "size"
  BY <1>1, <1>2 DEF TabOK, ReadSize
<1>6. Life(r) /\ Counted(r) /\ OneOpens(t) /\ Owns(t) /\ Window(t) /\ Line(t) /\ Latest(t)
  BY <1>1, <1>2 DEF TabOK
<1>7. Fd(r, Busy(t))
  BY <1>1, <1>2 DEF TabOK
<1>8. \A q \in Threads : th[q].t = t => Works(q, th[q], r)
  BY <1>1, <1>2 DEF TabOK
<1>10. s = r
  BY <1>1, <1>2 DEF ReadSize
<1>11. y = [x EXCEPT !.pc = "pty", !.val = r.size]
  BY <1>1, <1>2 DEF ReadSize, TabsInv, Typed
<1>12. DOMAIN s = Fields /\ SameLife(s, r) /\ SameFd(s, r) /\ SameLine(s, r) /\ SameOut(s, r)
  BY <1>3, <1>10 DEF IsTab, Fields, SameLife, SameFd, SameLine, SameOut
<1>13. IsThread(y) /\ y.pc = "pty" /\ y.t = t /\ y.val = r.size /\ y.gen = x.gen /\ y.ok = x.ok
  BY <1>1, <1>2, <1>3, <1>5, <1>11 DEF IsThread, Rest, IsTab, LineTyped
<1>14. Busy(t)' <=> Busy(t)
  BY <1>1, <1>2, <1>4, <1>5, <1>13 DEF Busy
<1>15. IsTab(s)
  BY <1>3, <1>10
<1>16. Works(p, y, s)
  BY <1>5, <1>12, <1>13, <1>3 DEF Works, SameLife, SameFd, SameLine, IsTab,
     LineTyped
<1>17. \A q \in Threads : q # p /\ th[q].t = t => Works(q, th[q], s)
  BY <1>8, <1>5, <1>12 DEF Works, SameLife, SameFd, SameLine
<1>18. OneOpens(t)'
  BY <1>6, <1>1, <1>2, <1>4, <1>5, <1>13 DEF OneOpens, Opens
<1>19. Fd(s, Busy(t)')
  BY <1>3, <1>7, <1>5, <1>12, <1>14 DEF IsTab, Numbers, Fd, Works, SameLife, SameFd
<1>20. Life(s) /\ Counted(s)
  BY <1>6, <1>12, SameParts
<1>21. Owns(t)'
  BY <1>1, <1>2, <1>6, <1>12 DEF ReadSize, Owns, SameLife
<1>22. s.kind = r.kind /\ s.opened = r.opened /\ s.reason = r.reason /\ s.link = r.link /\ s.size = r.size /\ s.pty = r.pty
      /\ s.settings = r.settings /\ s.mode = r.mode /\ s.pending = r.pending /\ s.gen = r.gen /\ s.latest = r.latest /\ s.disturbed = r.disturbed
  BY <1>12 DEF SameLife, SameLine
<1>23. th[p].pc \notin OfWindow /\ th'[p].pc \notin OfWindow /\ th[p].pc \notin OfLine /\ th'[p].pc \notin OfLine
  BY <1>1, <1>2, <1>5, <1>13 DEF OfWindow, OfLine
<1>24. Window(t)'
  BY <1>2, <1>4, <1>6, <1>23, <1>22, OffWindow
<1>25. Line(t)' /\ Latest(t)'
  BY <1>2, <1>4, <1>6, <1>23, <1>22, OffLine, ZenonT(60)
<1>26. Others(t)
  BY <1>1, <1>4, <1>9 DEF ReadSize, Others, TabsInv, Typed
<1> QED
  BY <1>1, <1>2, <1>4, <1>13, <1>16, <1>15, <1>17, <1>18, <1>19, <1>21, <1>26,
     <1>20, <1>24, <1>25, ThreadStep

LEMMA RequestPtyStep ==
  ASSUME TabsInv, NEW p \in Threads, NEW ok \in BOOLEAN, RequestPty(p, ok)
  PROVE  TabsInv'
<1>1. PICK t \in Tabs : th[p].t = t /\ TabOK(t)
  BY Working DEF RequestPty
<1>2. PICK r, s, x, y : r = tab[t] /\ s = tab'[t] /\ x = th[p] /\ y = th'[p]
  OBVIOUS
<1>3. IsTab(r) /\ IsThread(x)
  BY <1>2 DEF TabsInv, Typed
<1>4. /\ \A u \in Tabs : u # t => tab'[u] = tab[u]
      /\ \A q \in Threads : q # p => th'[q] = th[q]
  BY <1>1 DEF RequestPty, TabsInv, Typed, Set
<1>9. tab' = [u \in Tabs |-> tab'[u]] /\ th' = [q \in Threads |-> th'[q]]
  BY <1>1 DEF RequestPty, TabsInv, Typed, Set
<1>5. Works(p, x, r) /\ x.pc = "pty"
  BY <1>1, <1>2 DEF TabOK, RequestPty
<1>6. Life(r) /\ Counted(r) /\ OneOpens(t) /\ Owns(t) /\ Window(t) /\ Line(t) /\ Latest(t)
  BY <1>1, <1>2 DEF TabOK
<1>7. Fd(r, Busy(t))
  BY <1>1, <1>2 DEF TabOK
<1>8. \A q \in Threads : th[q].t = t => Works(q, th[q], r)
  BY <1>1, <1>2 DEF TabOK
<1>A. CASE ok /\ ~r.canceled
  <2>1. s = [r EXCEPT !.pty = x.val]
    BY <1>1, <1>2, <1>A, SetTab DEF RequestPty, TabsInv, Typed
  <2>2. y = [x EXCEPT !.pc = "commit"]
    BY <1>1, <1>2, <1>A DEF RequestPty, TabsInv, Typed
  <2>3. s.size = r.size /\ s.pty = x.val /\ s.settings = r.settings /\
        s.mode = r.mode /\ s.pending = r.pending /\ s.gen = r.gen /\
        s.latest = r.latest /\ s.disturbed = r.disturbed
    BY <1>3, <2>1 DEF IsTab, Fields
  <2>4. DOMAIN s = Fields /\ SameLife(s, r) /\ SameFd(s, r) /\ SameOut(s, r)
    BY <1>3, <2>1 DEF IsTab, Fields, SameLife, SameFd, SameOut
  <2>5. IsThread(y) /\ y.pc = "commit" /\ y.t = t /\ y.val = x.val /\ y.gen = x.gen /\ y.ok = x.ok
    BY <1>1, <1>2, <1>3, <1>5, <2>2 DEF IsThread, Rest
  <2>6. Busy(t)' <=> Busy(t)
    BY <1>1, <1>2, <1>4, <1>5, <2>5 DEF Busy
  <2>7. LineTyped(s)
    BY <1>3, <2>3 DEF IsTab, LineTyped, IsThread
  <2>8. Numbers(s)
    BY <1>3, <2>4, <2>3 DEF IsTab, Numbers, SameLife, SameFd, SameOut
  <2>9. IsTab(s)
    BY <1>3, <2>4, <2>8, <2>7, SameParts DEF IsTab
  <2>10. Works(p, y, s)
    BY <1>5, <2>4, <2>3, <1>A, <2>5 DEF Works, SameLife, SameFd
  <2>11. \A q \in Threads : q # p /\ th[q].t = t => Works(q, th[q], s)
    BY <1>8, <1>5, <2>4, <2>3, <1>A, <1>1, <1>2, <1>6 DEF Works, SameLife, SameFd,
       OneOpens, Opens
  <2>12. OneOpens(t)'
    BY <1>6, <1>1, <1>2, <1>4, <1>5, <2>5 DEF OneOpens, Opens
  <2>13. Fd(s, Busy(t)')
    BY <1>3, <1>7, <1>A, <1>5, <2>4, <2>6 DEF IsTab, Numbers, Fd, Works, SameLife,
       SameFd
  <2>14. Life(s) /\ Counted(s)
    BY <1>6, <2>4, SameParts
  <2>15. Owns(t)'
    BY <1>1, <1>2, <1>6, <2>4 DEF RequestPty, Owns, SameLife
  <2>16. th[p].pc \notin OfLine /\ th'[p].pc \notin OfLine
    BY <1>1, <1>2, <1>5, <2>5 DEF OfLine
  <2>17. Window(t)'
    BY <1>6, <2>4, <2>3, <1>1, <1>2, <1>4, <1>5, <2>5 DEF Window, SameLife, Works
  <2>18. Line(t)' /\ Latest(t)'
    BY <1>2, <1>4, <1>6, <2>16, <2>4, <2>3, OffLine, ZenonT(60) DEF SameLife, Works
  <2>19. Others(t)
    BY <1>1, <1>4, <1>9 DEF RequestPty, Others, TabsInv, Typed
  <2> QED
    BY <1>1, <1>2, <1>4, <2>5, <2>10, <2>9, <2>11, <2>12, <2>13, <2>15, <2>19,
       <2>14, <2>17, <2>18, ThreadStep
<1>B. CASE ~(ok /\ ~r.canceled)
  <2>1. s = [r EXCEPT !.link = "closed"]
    BY <1>1, <1>2, <1>B, SetTab DEF RequestPty, TabsInv, Typed
  <2>2. y = [x EXCEPT !.pc = "fail"]
    BY <1>1, <1>2, <1>B DEF RequestPty, TabsInv, Typed
  <2>3. s.kind = r.kind /\ s.dev = r.dev /\ s.inMap = r.inMap /\ s.status = r.status
        /\ s.reason = r.reason /\ s.canceled = r.canceled /\ s.opened = r.opened /\
        s.link = "closed" /\ s.closed = r.closed /\ s.fin = r.fin /\ s.done = r.done
        /\ s.exits = r.exits /\ s.outClosed = r.outClosed
    BY <1>3, <2>1 DEF IsTab, Fields
  <2>4. DOMAIN s = Fields /\ SameFd(s, r) /\ SameLine(s, r) /\ SameOut(s, r)
    BY <1>3, <2>1 DEF IsTab, Fields, SameFd, SameLine, SameOut
  <2>5. IsThread(y) /\ y.pc = "fail" /\ y.t = t /\ y.val = x.val /\ y.gen = x.gen /\ y.ok = x.ok
    BY <1>1, <1>2, <1>3, <1>5, <2>2 DEF IsThread, Rest
  <2>6. Busy(t)' <=> Busy(t)
    BY <1>1, <1>2, <1>4, <1>5, <2>5 DEF Busy
  <2>7. LifeTyped(s)
    BY <1>3, <2>3 DEF IsTab, LifeTyped
  <2>8. Numbers(s)
    BY <1>3, <2>3, <2>4 DEF IsTab, Numbers, SameFd, SameLine, SameOut
  <2>9. IsTab(s)
    BY <1>3, <2>4, <2>8, <2>7, SameParts DEF IsTab
  <2>10. Works(p, y, s)
    BY <1>5, <2>3, <2>4, <1>B, <2>5 DEF Works, SameFd, SameLine
  <2>11. \A q \in Threads : q # p /\ th[q].t = t => Works(q, th[q], s)
    BY <1>8, <1>5, <2>3, <2>4, <1>B, <1>1, <1>2, <1>6 DEF Works, SameFd, SameLine,
       OneOpens, Opens
  <2>12. OneOpens(t)'
    BY <1>6, <1>1, <1>2, <1>4, <1>5, <2>5 DEF OneOpens, Opens
  <2>13. Fd(s, Busy(t)')
    BY <1>3, <1>7, <1>B, <1>5, <2>3, <2>4, <2>6 DEF IsTab, Numbers, Fd, Works,
       SameFd
  <2>14. Life(s)
    BY <1>3, <1>6, <2>7, <1>B, <1>5, <2>3, ZenonT(60) DEF IsTab, Life, LifeTyped
  <2>15. s.fin = r.fin
    BY <2>3
  <2>16. Counted(s)
    BY <1>3, <1>6, <1>B, <1>5, <2>15, <2>4 DEF IsTab, Numbers, Counted, SameOut
  <2>17. Owns(t)'
    BY <1>1, <1>2, <1>6, <2>3 DEF RequestPty, Owns
  <2>18. th[p].pc \notin OfWindow /\ th'[p].pc \notin OfWindow /\ th[p].pc \notin OfLine /\ th'[p].pc \notin OfLine
    BY <1>1, <1>2, <1>5, <2>5 DEF OfWindow, OfLine
  <2>19. Window(t)'
    BY <1>2, <1>4, <1>6, <2>18, <2>3, <2>4, OffWindow DEF SameLine
  <2>20. Line(t)' /\ Latest(t)'
    BY <1>2, <1>4, <1>6, <2>18, <2>3, <2>4, OffLine, ZenonT(60) DEF SameLine
  <2>21. Others(t)
    BY <1>1, <1>4, <1>9 DEF RequestPty, Others, TabsInv, Typed
  <2> QED
    BY <1>1, <1>2, <1>4, <2>5, <2>10, <2>9, <2>11, <2>12, <2>13, <2>17, <2>21,
       <2>14, <2>16, <2>19, <2>20, ThreadStep
<1> QED
  BY <1>A, <1>B

LEMMA CommitStep ==
  ASSUME TabsInv, NEW p \in Threads, Commit(p)
  PROVE  TabsInv'
<1>1. PICK t \in Tabs : th[p].t = t /\ TabOK(t)
  BY Working DEF Commit
<1>2. PICK r, s, x, y : r = tab[t] /\ s = tab'[t] /\ x = th[p] /\ y = th'[p]
  OBVIOUS
<1>3. IsTab(r) /\ IsThread(x)
  BY <1>2 DEF TabsInv, Typed
<1>4. /\ \A u \in Tabs : u # t => tab'[u] = tab[u]
      /\ \A q \in Threads : q # p => th'[q] = th[q]
  BY <1>1 DEF Commit, TabsInv, Typed, Set
<1>9. tab' = [u \in Tabs |-> tab'[u]] /\ th' = [q \in Threads |-> th'[q]]
  BY <1>1 DEF Commit, TabsInv, Typed, Set
<1>5. Works(p, x, r) /\ x.pc = "commit"
  BY <1>1, <1>2 DEF TabOK, Commit
<1>6. Life(r) /\ Counted(r) /\ OneOpens(t) /\ Owns(t) /\ Window(t) /\ Line(t) /\ Latest(t)
  BY <1>1, <1>2 DEF TabOK
<1>7. Fd(r, Busy(t))
  BY <1>1, <1>2 DEF TabOK
<1>8. \A q \in Threads : th[q].t = t => Works(q, th[q], r)
  BY <1>1, <1>2 DEF TabOK
<1>A. CASE CommitOK(r) /\ r.kind = "serial"
  <2>1. s = [r EXCEPT !.status = "open", !.opened = TRUE]
    BY <1>1, <1>2, <1>A, SetTab DEF Commit, TabsInv, Typed
  <2>2. y = [x EXCEPT !.pc = "pending"]
    BY <1>1, <1>2, <1>A DEF Commit, TabsInv, Typed
  <2>3. s.kind = r.kind /\ s.dev = r.dev /\ s.inMap = r.inMap /\ s.status = "open"
        /\ s.reason = r.reason /\ s.canceled = r.canceled /\ s.opened = TRUE /\
        s.link = r.link /\ s.closed = r.closed /\ s.fin = r.fin /\ s.done = r.done
        /\ s.exits = r.exits /\ s.outClosed = r.outClosed
    BY <1>3, <2>1 DEF IsTab, Fields
  <2>4. DOMAIN s = Fields /\ SameFd(s, r) /\ SameLine(s, r) /\ SameOut(s, r)
    BY <1>3, <2>1 DEF IsTab, Fields, SameFd, SameLine, SameOut
  <2>5. IsThread(y) /\ y.pc = "pending" /\ y.t = t /\ y.val = x.val /\ y.gen = x.gen /\ y.ok = x.ok
    BY <1>1, <1>2, <1>3, <1>5, <2>2 DEF IsThread, Rest
  <2>6. Busy(t)' <=> Busy(t)
    BY <1>1, <1>2, <1>4, <1>5, <2>5 DEF Busy
  <2>7. LifeTyped(s)
    BY <1>3, <2>3 DEF IsTab, LifeTyped
  <2>8. Numbers(s)
    BY <1>3, <2>3, <2>4 DEF IsTab, Numbers, SameFd, SameLine, SameOut
  <2>9. IsTab(s)
    BY <1>3, <2>4, <2>8, <2>7, SameParts DEF IsTab
  <2>10. Works(p, y, s)
    BY <1>5, <2>3, <2>4, <1>A, <2>5 DEF Works, SameFd, SameLine, CommitOK
  <2>11. \A q \in Threads : q # p /\ th[q].t = t => Works(q, th[q], s)
    BY <1>8, <1>5, <2>3, <2>4, <1>A, <1>1, <1>2, <1>6 DEF Works, SameFd, SameLine,
       OneOpens, Opens
  <2>12. OneOpens(t)'
    BY <1>6, <1>1, <1>2, <1>4, <1>5, <2>5 DEF OneOpens, Opens
  <2>13. Fd(s, Busy(t)')
    BY <1>3, <1>7, <1>A, <1>5, <2>3, <2>4, <2>6 DEF IsTab, Numbers, Fd, Works,
       SameFd
  <2>14. Life(s)
    BY <1>3, <1>6, <2>7, <1>A, <1>5, <2>3 DEF IsTab, Life, LifeTyped, CommitOK,
       Works
  <2>15. s.fin = r.fin
    BY <2>3
  <2>16. Counted(s)
    BY <1>3, <1>6, <1>A, <1>5, <2>15, <2>4 DEF IsTab, Numbers, Counted, SameOut
  <2>17. Owns(t)'
    BY <1>1, <1>2, <1>6, <2>3 DEF Commit, Owns
  <2>18. Window(t)'
    BY <1>6, <2>3, <2>4, <1>1, <1>2, <1>4, <1>5, <2>5, <1>A DEF Window, SameLine
  <2>19. Line(t)'
    BY <1>6, <2>3, <2>4, <1>1, <1>2, <1>4, <1>5, <2>5, <1>A, <1>8 DEF Line,
       SameLine, Works
  <2>20. Undisturbed(s) => Carried(t) /\ Coming(t)
    BY <1>2, <1>6, <2>3, <2>4 DEF Latest, Undisturbed, SameLine
  <2>21. Undisturbed(s) => r.settings = r.latest \/ r.pending # None
    BY <2>20, <1>2, <1>5 DEF Works, Carried
  <2>22. r.pending # None => Brings(y, t, s)
    BY <2>5, <2>4 DEF Brings, SameLine
  <2>23. Undisturbed(s) => Carried(t)'
    BY <2>20, <2>21, <2>22, <2>3, <2>4, <1>1, <1>2, <1>4, <1>5, <2>5 DEF Carried,
       SameLine
  <2>24. Undisturbed(s) => Coming(t)'
    BY <2>21, <2>22, <1>2, <2>4 DEF Coming, SameLine
  <2>25. Latest(t)'
    BY <1>2, <2>23, <2>24 DEF Latest
  <2>26. Others(t)
    BY <1>1, <1>4, <1>9 DEF Commit, Others, TabsInv, Typed
  <2> QED
    BY <1>1, <1>2, <1>4, <2>5, <2>10, <2>9, <2>11, <2>12, <2>13, <2>17, <2>26,
       <2>14, <2>16, <2>18, <2>19, <2>25, ThreadStep
<1>B. CASE CommitOK(r) /\ r.kind # "serial"
  <2>1. s = [r EXCEPT !.status = "open", !.opened = TRUE]
    BY <1>1, <1>2, <1>B, SetTab DEF Commit, TabsInv, Typed
  <2>2. y = [x EXCEPT !.pc = "resizeLock"]
    BY <1>1, <1>2, <1>B DEF Commit, TabsInv, Typed
  <2>3. s.kind = r.kind /\ s.dev = r.dev /\ s.inMap = r.inMap /\ s.status = "open"
        /\ s.reason = r.reason /\ s.canceled = r.canceled /\ s.opened = TRUE /\
        s.link = r.link /\ s.closed = r.closed /\ s.fin = r.fin /\ s.done = r.done
        /\ s.exits = r.exits /\ s.outClosed = r.outClosed
    BY <1>3, <2>1 DEF IsTab, Fields
  <2>4. DOMAIN s = Fields /\ SameFd(s, r) /\ SameLine(s, r) /\ SameOut(s, r)
    BY <1>3, <2>1 DEF IsTab, Fields, SameFd, SameLine, SameOut
  <2>5. IsThread(y) /\ y.pc = "resizeLock" /\ y.t = t /\ y.val = x.val /\ y.gen = x.gen /\ y.ok = x.ok
    BY <1>1, <1>2, <1>3, <1>5, <2>2 DEF IsThread, Rest
  <2>6. Busy(t)' <=> Busy(t)
    BY <1>1, <1>2, <1>4, <1>5, <2>5 DEF Busy
  <2>7. LifeTyped(s)
    BY <1>3, <2>3 DEF IsTab, LifeTyped
  <2>8. Numbers(s)
    BY <1>3, <2>3, <2>4 DEF IsTab, Numbers, SameFd, SameLine, SameOut
  <2>9. IsTab(s)
    BY <1>3, <2>4, <2>8, <2>7, SameParts DEF IsTab
  <2>10. Works(p, y, s)
    BY <1>5, <2>3, <2>4, <1>B, <2>5 DEF Works, SameFd, SameLine, CommitOK
  <2>11. \A q \in Threads : q # p /\ th[q].t = t => Works(q, th[q], s)
    BY <1>8, <1>5, <2>3, <2>4, <1>B, <1>1, <1>2, <1>6 DEF Works, SameFd, SameLine,
       OneOpens, Opens
  <2>12. OneOpens(t)'
    BY <1>6, <1>1, <1>2, <1>4, <1>5, <2>5 DEF OneOpens, Opens
  <2>13. Fd(s, Busy(t)')
    BY <1>3, <1>7, <1>B, <1>5, <2>3, <2>4, <2>6 DEF IsTab, Numbers, Fd, Works,
       SameFd
  <2>14. Life(s)
    BY <1>3, <1>6, <2>7, <1>B, <1>5, <2>3 DEF IsTab, Life, LifeTyped, CommitOK,
       Works
  <2>15. s.fin = r.fin
    BY <2>3
  <2>16. Counted(s)
    BY <1>3, <1>6, <1>B, <1>5, <2>15, <2>4 DEF IsTab, Numbers, Counted, SameOut
  <2>17. Owns(t)'
    BY <1>1, <1>2, <1>6, <2>3 DEF Commit, Owns
  <2>18. Window(t)'
    BY <1>6, <2>3, <2>4, <1>1, <1>2, <1>4, <1>5, <2>5 DEF Window, SameLine
  <2>19. Line(t)'
    BY <1>6, <2>3, <2>4, <1>1, <1>2, <1>4, <1>5, <2>5, <1>B DEF Line, SameLine
  <2>20. Undisturbed(s) => Carried(t) /\ Coming(t)
    BY <1>2, <1>6, <2>3, <2>4 DEF Latest, Undisturbed, SameLine
  <2>21. ~Undisturbed(s)
    BY <1>B, <2>3 DEF Undisturbed
  <2>22. Undisturbed(s) => Carried(t)'
    BY <2>21
  <2>23. Undisturbed(s) => Coming(t)'
    BY <2>21
  <2>24. Latest(t)'
    BY <1>2, <2>22, <2>23 DEF Latest
  <2>25. Others(t)
    BY <1>1, <1>4, <1>9 DEF Commit, Others, TabsInv, Typed
  <2> QED
    BY <1>1, <1>2, <1>4, <2>5, <2>10, <2>9, <2>11, <2>12, <2>13, <2>17, <2>25,
       <2>14, <2>16, <2>18, <2>19, <2>24, ThreadStep
<1>C. CASE ~CommitOK(r) /\ r.kind = "serial"
  <2>1. s = closePort(r)
    BY <1>1, <1>2, <1>C, SetTab DEF Commit, TabsInv, Typed, Closer
  <2>2. y = [x EXCEPT !.pc = "fail"]
    BY <1>1, <1>2, <1>C DEF Commit, TabsInv, Typed
  <2>3. s.kind = r.kind /\ s.dev = r.dev /\ s.inMap = r.inMap /\ s.status = r.status
        /\ s.reason = r.reason /\ s.canceled = r.canceled /\ s.opened = r.opened /\
        (s.link = IF r.users = 0 THEN "closed" ELSE r.link) /\ s.closed = TRUE /\
        s.fin = r.fin /\ s.done = r.done /\ s.exits = r.exits /\
        s.outClosed = r.outClosed
    BY <1>3, <2>1 DEF IsTab, Fields, closePort
  <2>4. DOMAIN s = Fields /\ SameFd(s, r) /\ SameLine(s, r) /\ SameOut(s, r)
    BY <1>3, <2>1 DEF IsTab, Fields, closePort, SameFd, SameLine, SameOut
  <2>5. IsThread(y) /\ y.pc = "fail" /\ y.t = t /\ y.val = x.val /\ y.gen = x.gen /\ y.ok = x.ok
    BY <1>1, <1>2, <1>3, <1>5, <2>2 DEF IsThread, Rest
  <2>6. Busy(t)' <=> Busy(t)
    BY <1>1, <1>2, <1>4, <1>5, <2>5 DEF Busy
  <2>7. LifeTyped(s)
    BY <1>3, <2>3 DEF IsTab, LifeTyped
  <2>8. Numbers(s)
    BY <1>3, <2>3, <2>4 DEF IsTab, Numbers, SameFd, SameLine, SameOut
  <2>9. IsTab(s)
    BY <1>3, <2>4, <2>8, <2>7, SameParts DEF IsTab
  <2>10. Works(p, y, s)
    BY <1>5, <2>3, <2>4, <1>C, <2>5, <1>3, <1>7 DEF Works, SameFd, SameLine, Fd,
       IsTab, Numbers
  <2>11. \A q \in Threads : q # p /\ th[q].t = t => Works(q, th[q], s)
    BY <1>8, <1>5, <2>3, <2>4, <1>C, <1>1, <1>2, <1>6 DEF Works, SameFd, SameLine,
       OneOpens, Opens
  <2>12. OneOpens(t)'
    BY <1>6, <1>1, <1>2, <1>4, <1>5, <2>5 DEF OneOpens, Opens
  <2>13. Fd(s, Busy(t)')
    BY <1>3, <1>7, <1>C, <1>5, <2>3, <2>4, <2>6 DEF IsTab, Numbers, Fd, Works,
       SameFd
  <2>14. Life(s)
    BY <1>3, <1>6, <2>7, <1>C, <1>5, <2>3, <1>7 DEF IsTab, Life, LifeTyped, Works,
       Fd
  <2>15. s.fin = r.fin
    BY <2>3
  <2>16. Counted(s)
    BY <1>3, <1>6, <1>C, <1>5, <2>15, <2>4 DEF IsTab, Numbers, Counted, SameOut
  <2>17. Owns(t)'
    BY <1>1, <1>2, <1>6, <2>3 DEF Commit, Owns
  <2>18. th[p].pc \notin OfWindow /\ th'[p].pc \notin OfWindow /\ th[p].pc \notin OfLine /\ th'[p].pc \notin OfLine
    BY <1>1, <1>2, <1>5, <2>5 DEF OfWindow, OfLine
  <2>19. Window(t)'
    BY <1>2, <1>4, <1>6, <2>18, <2>3, <2>4, OffWindow DEF SameLine
  <2>20. Line(t)' /\ Latest(t)'
    BY <1>2, <1>4, <1>6, <2>18, <2>3, <2>4, OffLine DEF SameLine
  <2>21. Others(t)
    BY <1>1, <1>4, <1>9 DEF Commit, Others, TabsInv, Typed
  <2> QED
    BY <1>1, <1>2, <1>4, <2>5, <2>10, <2>9, <2>11, <2>12, <2>13, <2>17, <2>21,
       <2>14, <2>16, <2>19, <2>20, ThreadStep
<1>D. CASE ~CommitOK(r) /\ r.kind # "serial"
  <2>1. s = [r EXCEPT !.link = "closed"]
    BY <1>1, <1>2, <1>D, SetTab DEF Commit, TabsInv, Typed, Closer
  <2>2. y = [x EXCEPT !.pc = "fail"]
    BY <1>1, <1>2, <1>D DEF Commit, TabsInv, Typed
  <2>3. s.kind = r.kind /\ s.dev = r.dev /\ s.inMap = r.inMap /\ s.status = r.status
        /\ s.reason = r.reason /\ s.canceled = r.canceled /\ s.opened = r.opened /\
        s.link = "closed" /\ s.closed = r.closed /\ s.fin = r.fin /\ s.done = r.done
        /\ s.exits = r.exits /\ s.outClosed = r.outClosed
    BY <1>3, <2>1 DEF IsTab, Fields
  <2>4. DOMAIN s = Fields /\ SameFd(s, r) /\ SameLine(s, r) /\ SameOut(s, r)
    BY <1>3, <2>1 DEF IsTab, Fields, SameFd, SameLine, SameOut
  <2>5. IsThread(y) /\ y.pc = "fail" /\ y.t = t /\ y.val = x.val /\ y.gen = x.gen /\ y.ok = x.ok
    BY <1>1, <1>2, <1>3, <1>5, <2>2 DEF IsThread, Rest
  <2>6. Busy(t)' <=> Busy(t)
    BY <1>1, <1>2, <1>4, <1>5, <2>5 DEF Busy
  <2>7. LifeTyped(s)
    BY <1>3, <2>3 DEF IsTab, LifeTyped
  <2>8. Numbers(s)
    BY <1>3, <2>3, <2>4 DEF IsTab, Numbers, SameFd, SameLine, SameOut
  <2>9. IsTab(s)
    BY <1>3, <2>4, <2>8, <2>7, SameParts DEF IsTab
  <2>10. Works(p, y, s)
    BY <1>5, <2>3, <2>4, <1>D, <2>5 DEF Works, SameFd, SameLine
  <2>11. \A q \in Threads : q # p /\ th[q].t = t => Works(q, th[q], s)
    BY <1>8, <1>5, <2>3, <2>4, <1>D, <1>1, <1>2, <1>6 DEF Works, SameFd, SameLine,
       OneOpens, Opens
  <2>12. OneOpens(t)'
    BY <1>6, <1>1, <1>2, <1>4, <1>5, <2>5 DEF OneOpens, Opens
  <2>13. Fd(s, Busy(t)')
    BY <1>3, <1>7, <1>D, <1>5, <2>3, <2>4, <2>6 DEF IsTab, Numbers, Fd, Works,
       SameFd
  <2>14. Life(s)
    BY <1>3, <1>6, <2>7, <1>D, <1>5, <2>3, ZenonT(60) DEF IsTab, Life, LifeTyped
  <2>15. s.fin = r.fin
    BY <2>3
  <2>16. Counted(s)
    BY <1>3, <1>6, <1>D, <1>5, <2>15, <2>4 DEF IsTab, Numbers, Counted, SameOut
  <2>17. Owns(t)'
    BY <1>1, <1>2, <1>6, <2>3 DEF Commit, Owns
  <2>18. th[p].pc \notin OfWindow /\ th'[p].pc \notin OfWindow /\ th[p].pc \notin OfLine /\ th'[p].pc \notin OfLine
    BY <1>1, <1>2, <1>5, <2>5 DEF OfWindow, OfLine
  <2>19. Window(t)'
    BY <1>2, <1>4, <1>6, <2>18, <2>3, <2>4, OffWindow DEF SameLine
  <2>20. Line(t)' /\ Latest(t)'
    BY <1>2, <1>4, <1>6, <2>18, <2>3, <2>4, OffLine, ZenonT(60) DEF SameLine
  <2>21. Others(t)
    BY <1>1, <1>4, <1>9 DEF Commit, Others, TabsInv, Typed
  <2> QED
    BY <1>1, <1>2, <1>4, <2>5, <2>10, <2>9, <2>11, <2>12, <2>13, <2>17, <2>21,
       <2>14, <2>16, <2>19, <2>20, ThreadStep
<1> QED
  BY <1>A, <1>B, <1>C, <1>D

LEMMA FailStartStep ==
  ASSUME TabsInv, NEW p \in Threads, FailStart(p)
  PROVE  TabsInv'
<1>1. PICK t \in Tabs : th[p].t = t /\ TabOK(t)
  BY Working DEF FailStart
<1>2. PICK r, s, x, y : r = tab[t] /\ s = tab'[t] /\ x = th[p] /\ y = th'[p]
  OBVIOUS
<1>3. IsTab(r) /\ IsThread(x)
  BY <1>2 DEF TabsInv, Typed
<1>4. /\ \A u \in Tabs : u # t => tab'[u] = tab[u]
      /\ \A q \in Threads : q # p => th'[q] = th[q]
  BY <1>1 DEF FailStart, TabsInv, Typed, Set
<1>9. tab' = [u \in Tabs |-> tab'[u]] /\ th' = [q \in Threads |-> th'[q]]
  BY <1>1 DEF FailStart, TabsInv, Typed, Set
<1>5. Works(p, x, r) /\ x.pc = "fail"
  BY <1>1, <1>2 DEF TabOK, FailStart
<1>6. Life(r) /\ Counted(r) /\ OneOpens(t) /\ Owns(t) /\ Window(t) /\ Line(t) /\ Latest(t)
  BY <1>1, <1>2 DEF TabOK
<1>7. Fd(r, Busy(t))
  BY <1>1, <1>2 DEF TabOK
<1>8. \A q \in Threads : th[q].t = t => Works(q, th[q], r)
  BY <1>1, <1>2 DEF TabOK
<1>10. s = [r EXCEPT !.inMap = FALSE, !.canceled = TRUE, !.outClosed = TRUE, !.fin = "failed"]
  BY <1>1, <1>2, SetTab DEF FailStart, TabsInv, Typed
<1>11. y = Rest
  BY <1>1, <1>2 DEF FailStart, TabsInv, Typed
<1>12. s.kind = r.kind /\ s.dev = r.dev /\ s.inMap = FALSE /\ s.status = r.status /\
      s.reason = r.reason /\ s.canceled = TRUE /\ s.opened = r.opened /\
      s.link = r.link /\ s.closed = r.closed /\ s.fin = "failed" /\ s.done = r.done
      /\ s.exits = r.exits /\ s.outClosed = TRUE
  BY <1>3, <1>10 DEF IsTab, Fields
<1>13. DOMAIN s = Fields /\ SameFd(s, r) /\ SameLine(s, r) /\ SameOut(s, r)
  BY <1>3, <1>10 DEF IsTab, Fields, SameFd, SameLine, SameOut
<1>14. IsThread(y) /\ y.pc = "rest" /\ y.t = None
  BY <1>1, <1>2, <1>3, <1>5, <1>11 DEF IsThread, Rest
<1>15. Busy(t)' <=> Busy(t)
  BY <1>1, <1>2, <1>4, <1>5, <1>14 DEF Busy
<1>16. LifeTyped(s)
  BY <1>3, <1>12 DEF IsTab, LifeTyped
<1>17. Numbers(s)
  BY <1>3, <1>12, <1>13 DEF IsTab, Numbers, SameFd, SameLine, SameOut
<1>18. IsTab(s)
  BY <1>3, <1>13, <1>17, <1>16, SameParts DEF IsTab
<1>19. \A q \in Threads : q # p /\ th[q].t = t => Works(q, th[q], s)
  BY <1>8, <1>5, <1>12, <1>13, <1>1, <1>2, <1>6 DEF Works, SameFd, SameLine,
     OneOpens, Opens
<1>20. OneOpens(t)'
  BY <1>6, <1>1, <1>2, <1>4, <1>5, <1>14 DEF OneOpens, Opens
<1>21. Fd(s, Busy(t)')
  BY <1>3, <1>7, <1>5, <1>12, <1>13, <1>15 DEF IsTab, Numbers, Fd, Works, SameFd
<1>22. Life(s)
  BY <1>3, <1>6, <1>16, <1>5, <1>12 DEF IsTab, Life, LifeTyped, Works
<1>23. s.fin = "failed"
  BY <1>12
<1>24. Counted(s)
  BY <1>3, <1>6, <1>5, <1>23, <1>13 DEF IsTab, Numbers, Counted, SameOut
<1>25. Owns(t)'
  BY <1>1, <1>2, <1>6, <1>12 DEF FailStart, Owns, TabsInv, Typed
<1>26. th[p].pc \notin OfWindow /\ th'[p].pc \notin OfWindow /\ th[p].pc \notin OfLine /\ th'[p].pc \notin OfLine
  BY <1>1, <1>2, <1>5, <1>14 DEF OfWindow, OfLine
<1>27. Window(t)'
  BY <1>2, <1>4, <1>6, <1>26, <1>12, <1>13, OffWindow DEF SameLine
<1>28. Line(t)' /\ Latest(t)'
  BY <1>2, <1>4, <1>6, <1>26, <1>12, <1>13, OffLine DEF SameLine
<1>29. Others(t)
  BY <1>1, <1>4, <1>9 DEF FailStart, Others, TabsInv, Typed
<1>30. (th[p].t = t \/ th[p].t = None) /\ th'[p] = Rest
  BY <1>1, <1>2, <1>11
<1> QED
  BY <1>2, <1>4, <1>30, <1>18, <1>19, <1>20, <1>21, <1>25, <1>29, <1>22, <1>24,
     <1>27, <1>28, ReturnStep

(* What was saved while connecting is carried to the line.                 *)
LEMMA TakePendingStep ==
  ASSUME TabsInv, NEW p \in Threads, TakePending(p)
  PROVE  TabsInv'
<1>1. PICK t \in Tabs : th[p].t = t /\ TabOK(t)
  BY Working DEF TakePending
<1>2. PICK r, s, x, y : r = tab[t] /\ s = tab'[t] /\ x = th[p] /\ y = th'[p]
  OBVIOUS
<1>3. IsTab(r) /\ IsThread(x)
  BY <1>2 DEF TabsInv, Typed
<1>4. /\ \A u \in Tabs : u # t => tab'[u] = tab[u]
      /\ \A q \in Threads : q # p => th'[q] = th[q]
  BY <1>1 DEF TakePending, TabsInv, Typed, Set
<1>9. tab' = [u \in Tabs |-> tab'[u]] /\ th' = [q \in Threads |-> th'[q]]
  BY <1>1 DEF TakePending, TabsInv, Typed, Set
<1>5. Works(p, x, r) /\ x.pc = "pending"
  BY <1>1, <1>2 DEF TabOK, TakePending
<1>6. Life(r) /\ Counted(r) /\ OneOpens(t) /\ Owns(t) /\ Window(t) /\ Line(t) /\ Latest(t)
  BY <1>1, <1>2 DEF TabOK
<1>7. Fd(r, Busy(t))
  BY <1>1, <1>2 DEF TabOK
<1>8. \A q \in Threads : th[q].t = t => Works(q, th[q], r)
  BY <1>1, <1>2 DEF TabOK
<1>A. CASE r.pending = None
  <2>1. s = [r EXCEPT !.pending = None]
    BY <1>1, <1>2, <1>A, SetTab DEF TakePending, TabsInv, Typed
  <2>2. y = Rest
    BY <1>1, <1>2, <1>A DEF TakePending, TabsInv, Typed
  <2>3. s.size = r.size /\ s.pty = r.pty /\ s.settings = r.settings /\
        s.mode = r.mode /\ s.pending = None /\ s.gen = r.gen /\ s.latest = r.latest
        /\ s.disturbed = r.disturbed
    BY <1>3, <2>1 DEF IsTab, Fields
  <2>4. DOMAIN s = Fields /\ SameLife(s, r) /\ SameFd(s, r) /\ SameOut(s, r)
    BY <1>3, <2>1 DEF IsTab, Fields, SameLife, SameFd, SameOut
  <2>5. IsThread(y) /\ y.pc = "rest" /\ y.t = None
    BY <1>1, <1>2, <1>3, <1>5, <2>2 DEF IsThread, Rest
  <2>6. Busy(t)' <=> Busy(t)
    BY <1>1, <1>2, <1>4, <1>5, <2>5 DEF Busy
  <2>7. LineTyped(s)
    BY <1>3, <2>3 DEF IsTab, LineTyped
  <2>8. Numbers(s)
    BY <1>3, <2>4, <2>3 DEF IsTab, Numbers, SameLife, SameFd, SameOut
  <2>9. IsTab(s)
    BY <1>3, <2>4, <2>8, <2>7, SameParts DEF IsTab
  <2>10. \A q \in Threads : q # p /\ th[q].t = t => Works(q, th[q], s)
    BY <1>8, <1>5, <2>4, <2>3, <1>A DEF Works, SameLife, SameFd
  <2>11. OneOpens(t)'
    BY <1>6, <1>1, <1>2, <1>4, <1>5, <2>5 DEF OneOpens, Opens
  <2>12. Fd(s, Busy(t)')
    BY <1>3, <1>7, <1>A, <1>5, <2>4, <2>6 DEF IsTab, Numbers, Fd, Works, SameLife,
       SameFd
  <2>13. Life(s) /\ Counted(s)
    BY <1>6, <2>4, SameParts
  <2>14. Owns(t)'
    BY <1>1, <1>2, <1>6, <2>4 DEF TakePending, Owns, SameLife
  <2>15. th[p].pc \notin OfWindow /\ th'[p].pc \notin OfWindow
    BY <1>1, <1>2, <1>5, <2>5 DEF OfWindow
  <2>16. Window(t)'
    BY <1>2, <1>4, <1>6, <2>15, <2>4, <2>3, OffWindow DEF SameLife
  <2>17. Line(t)'
    BY <1>6, <2>4, <2>3, <1>1, <1>2, <1>4, <1>5, <2>5 DEF Line, SameLife
  <2>18. Undisturbed(s) => Carried(t) /\ Coming(t)
    BY <1>2, <1>6, <2>4, <2>3 DEF Latest, Undisturbed, SameLife
  <2>19. Undisturbed(s) => Carried(t)'
    BY <2>18, <2>4, <2>3, <1>1, <1>2, <1>4, <1>5, <2>5, <1>A DEF Carried, SameLife
  <2>20. Undisturbed(s) => Coming(t)'
    BY <2>18, <2>4, <2>3, <1>1, <1>2, <1>4, <1>5, <2>5, <1>A DEF Coming, Brings,
       SameLife
  <2>21. Latest(t)'
    BY <1>2, <2>19, <2>20 DEF Latest
  <2>22. Others(t)
    BY <1>1, <1>4, <1>9 DEF TakePending, Others, TabsInv, Typed
  <2>23. (th[p].t = t \/ th[p].t = None) /\ th'[p] = Rest
    BY <1>1, <1>2, <2>2
  <2> QED
    BY <1>2, <1>4, <2>23, <2>9, <2>10, <2>11, <2>12, <2>14, <2>22, <2>13, <2>16,
       <2>17, <2>21, ReturnStep
<1>B. CASE r.pending # None
  <2>1. s = [r EXCEPT !.pending = None]
    BY <1>1, <1>2, <1>B, SetTab DEF TakePending, TabsInv, Typed
  <2>2. y = [x EXCEPT !.pc = "apply", !.val = r.pending, !.gen = r.gen]
    BY <1>1, <1>2, <1>B DEF TakePending, TabsInv, Typed
  <2>3. s.size = r.size /\ s.pty = r.pty /\ s.settings = r.settings /\
        s.mode = r.mode /\ s.pending = None /\ s.gen = r.gen /\ s.latest = r.latest
        /\ s.disturbed = r.disturbed
    BY <1>3, <2>1 DEF IsTab, Fields
  <2>4. DOMAIN s = Fields /\ SameLife(s, r) /\ SameFd(s, r) /\ SameOut(s, r)
    BY <1>3, <2>1 DEF IsTab, Fields, SameLife, SameFd, SameOut
  <2>5. IsThread(y) /\ y.pc = "apply" /\ y.t = t /\ y.val = r.pending /\ y.gen = r.gen /\ y.ok = x.ok
    BY <1>1, <1>2, <1>3, <1>5, <2>2, <1>B DEF IsThread, Rest, IsTab, LineTyped,
       Numbers
  <2>6. Busy(t)' <=> Busy(t)
    BY <1>1, <1>2, <1>4, <1>5, <2>5 DEF Busy
  <2>7. LineTyped(s)
    BY <1>3, <2>3 DEF IsTab, LineTyped
  <2>8. Numbers(s)
    BY <1>3, <2>4, <2>3 DEF IsTab, Numbers, SameLife, SameFd, SameOut
  <2>9. IsTab(s)
    BY <1>3, <2>4, <2>8, <2>7, SameParts DEF IsTab
  <2>10. Works(p, y, s)
    BY <1>5, <2>4, <2>3, <1>B, <2>5, <1>3 DEF Works, SameLife, SameFd, IsTab,
       LineTyped, Numbers
  <2>11. \A q \in Threads : q # p /\ th[q].t = t => Works(q, th[q], s)
    BY <1>8, <1>5, <2>4, <2>3, <1>B DEF Works, SameLife, SameFd
  <2>12. OneOpens(t)'
    BY <1>6, <1>1, <1>2, <1>4, <1>5, <2>5 DEF OneOpens, Opens
  <2>13. Fd(s, Busy(t)')
    BY <1>3, <1>7, <1>B, <1>5, <2>4, <2>6 DEF IsTab, Numbers, Fd, Works, SameLife,
       SameFd
  <2>14. Life(s) /\ Counted(s)
    BY <1>6, <2>4, SameParts
  <2>15. Owns(t)'
    BY <1>1, <1>2, <1>6, <2>4 DEF TakePending, Owns, SameLife
  <2>16. th[p].pc \notin OfWindow /\ th'[p].pc \notin OfWindow
    BY <1>1, <1>2, <1>5, <2>5 DEF OfWindow
  <2>17. Window(t)'
    BY <1>2, <1>4, <1>6, <2>16, <2>4, <2>3, OffWindow DEF SameLife
  <2>18. Line(t)'
    BY <1>6, <2>4, <2>3, <1>1, <1>2, <1>4, <1>5, <2>5 DEF Line, SameLife
  <2>19. Undisturbed(s) => Carried(t) /\ Coming(t)
    BY <1>2, <1>6, <2>4, <2>3 DEF Latest, Undisturbed, SameLife
  <2>20. Undisturbed(s) => Carried(t)'
    BY <2>19, <2>4, <2>3, <1>1, <1>2, <1>4, <1>5, <2>5, <1>B, <1>3, <1>8 DEF
       Carried, SameLife, Works, IsTab, Numbers
  <2>21. Undisturbed(s) => Coming(t)'
    BY <2>19, <2>4, <2>3, <1>1, <1>2, <1>4, <1>5, <2>5 DEF Coming, Brings, SameLife
  <2>22. Latest(t)'
    BY <1>2, <2>20, <2>21 DEF Latest
  <2>23. Others(t)
    BY <1>1, <1>4, <1>9 DEF TakePending, Others, TabsInv, Typed
  <2> QED
    BY <1>1, <1>2, <1>4, <2>5, <2>10, <2>9, <2>11, <2>12, <2>13, <2>15, <2>23,
       <2>14, <2>17, <2>18, <2>22, ThreadStep
<1> QED
  BY <1>A, <1>B

(* The window.                                                             *)
LEMMA ResizeStep ==
  ASSUME TabsInv, NEW p \in Threads, NEW t \in Tabs, NEW v \in Values, Resize(p, t, v)
  PROVE  TabsInv'
<1>1. TabOK(t) /\ th[p] = Rest /\ th[p].t = None
  BY Resting DEF TabsInv, Call, Resize
<1>2. PICK r, s, x, y : r = tab[t] /\ s = tab'[t] /\ x = th[p] /\ y = th'[p]
  OBVIOUS
<1>3. IsTab(r) /\ IsThread(x)
  BY <1>2 DEF TabsInv, Typed
<1>4. /\ \A u \in Tabs : u # t => tab'[u] = tab[u]
      /\ \A q \in Threads : q # p => th'[q] = th[q]
  BY <1>1 DEF Resize, TabsInv, Typed, Set
<1>9. tab' = [u \in Tabs |-> tab'[u]] /\ th' = [q \in Threads |-> th'[q]]
  BY <1>1 DEF Resize, TabsInv, Typed, Set
<1>5. r.inMap
  BY <1>1, <1>2 DEF Call, Resize
<1>6. Life(r) /\ Counted(r) /\ OneOpens(t) /\ Owns(t) /\ Window(t) /\ Line(t) /\ Latest(t)
  BY <1>1, <1>2 DEF TabOK
<1>7. Fd(r, Busy(t))
  BY <1>1, <1>2 DEF TabOK
<1>8. \A q \in Threads : th[q].t = t => Works(q, th[q], r)
  BY <1>1, <1>2 DEF TabOK
<1>10. s = [r EXCEPT !.size = v]
  BY <1>1, <1>2, SetTab DEF Resize, TabsInv, Typed
<1>11. y = [Rest EXCEPT !.pc = "resizeLock", !.t = t, !.val = v]
  BY <1>1, <1>2 DEF Resize, TabsInv, Typed
<1>12. s.size = v /\ s.pty = r.pty /\ s.settings = r.settings /\ s.mode = r.mode /\
      s.pending = r.pending /\ s.gen = r.gen /\ s.latest = r.latest /\
      s.disturbed = r.disturbed
  BY <1>3, <1>10 DEF IsTab, Fields
<1>13. DOMAIN s = Fields /\ SameLife(s, r) /\ SameFd(s, r) /\ SameOut(s, r)
  BY <1>3, <1>10 DEF IsTab, Fields, SameLife, SameFd, SameOut
<1>14. IsThread(y) /\ y.pc = "resizeLock" /\ y.t = t /\ y.val = v /\ y.gen = None /\ y.ok = FALSE
  BY <1>1, <1>2, <1>3, <1>5, <1>11 DEF IsThread, Rest
<1>15. Busy(t)' <=> Busy(t)
  BY <1>1, <1>2, <1>4, <1>5, <1>14 DEF Busy
<1>16. LineTyped(s)
  BY <1>3, <1>12 DEF IsTab, LineTyped
<1>17. Numbers(s)
  BY <1>3, <1>13, <1>12 DEF IsTab, Numbers, SameLife, SameFd, SameOut
<1>18. IsTab(s)
  BY <1>3, <1>13, <1>17, <1>16, SameParts DEF IsTab
<1>19. Works(p, y, s)
  BY <1>5, <1>13, <1>12, <1>14, <1>3, <1>6 DEF Works, SameLife, SameFd, Life, IsTab,
     LifeTyped
<1>20. \A q \in Threads : q # p /\ th[q].t = t => Works(q, th[q], s)
  BY <1>8, <1>5, <1>13, <1>12 DEF Works, SameLife, SameFd
<1>21. OneOpens(t)'
  BY <1>6, <1>1, <1>2, <1>4, <1>5, <1>14 DEF OneOpens, Opens
<1>22. Fd(s, Busy(t)')
  BY <1>3, <1>7, <1>5, <1>13, <1>15 DEF IsTab, Numbers, Fd, SameLife, SameFd
<1>23. Life(s) /\ Counted(s)
  BY <1>6, <1>13, SameParts
<1>24. Owns(t)'
  BY <1>1, <1>2, <1>6, <1>13 DEF Resize, Owns, SameLife
<1>25. th[p].pc \notin OfLine /\ th'[p].pc \notin OfLine
  BY <1>1, <1>2, <1>14 DEF OfLine, Rest
<1>26. Window(t)'
  BY <1>6, <1>13, <1>12, <1>1, <1>2, <1>4, <1>5, <1>14 DEF Window, SameLife
<1>27. Line(t)' /\ Latest(t)'
  BY <1>2, <1>4, <1>6, <1>25, <1>13, <1>12, OffLine, ZenonT(60) DEF SameLife
<1>28. Others(t)
  BY <1>1, <1>4, <1>9 DEF Resize, Others, TabsInv, Typed
<1> QED
  BY <1>1, <1>2, <1>4, <1>14, <1>19, <1>18, <1>20, <1>21, <1>22, <1>24, <1>28,
     <1>23, <1>26, <1>27, ThreadStep

LEMMA ResizeLockStep ==
  ASSUME TabsInv, NEW p \in Threads, ResizeLock(p)
  PROVE  TabsInv'
<1>1. PICK t \in Tabs : th[p].t = t /\ TabOK(t)
  BY Working DEF ResizeLock
<1>2. PICK r, s, x, y : r = tab[t] /\ s = tab'[t] /\ x = th[p] /\ y = th'[p]
  OBVIOUS
<1>3. IsTab(r) /\ IsThread(x)
  BY <1>2 DEF TabsInv, Typed
<1>4. /\ \A u \in Tabs : u # t => tab'[u] = tab[u]
      /\ \A q \in Threads : q # p => th'[q] = th[q]
  BY <1>1 DEF ResizeLock, TabsInv, Typed, Set
<1>9. tab' = [u \in Tabs |-> tab'[u]] /\ th' = [q \in Threads |-> th'[q]]
  BY <1>1 DEF ResizeLock, TabsInv, Typed, Set
<1>5. Works(p, x, r) /\ x.pc = "resizeLock" /\ r.resizeMu = NoThread
  BY <1>1, <1>2 DEF TabOK, ResizeLock
<1>6. Life(r) /\ Counted(r) /\ OneOpens(t) /\ Owns(t) /\ Window(t) /\ Line(t) /\ Latest(t)
  BY <1>1, <1>2 DEF TabOK
<1>7. Fd(r, Busy(t))
  BY <1>1, <1>2 DEF TabOK
<1>8. \A q \in Threads : th[q].t = t => Works(q, th[q], r)
  BY <1>1, <1>2 DEF TabOK
<1>A. CASE r.kind = "ssh" /\ r.opened
  <2>1. s = [r EXCEPT !.resizeMu = p]
    BY <1>1, <1>2, <1>A, SetTab DEF ResizeLock, TabsInv, Typed, SizeToApply
  <2>2. y = [x EXCEPT !.pc = "windowChange", !.val = r.size]
    BY <1>1, <1>2, <1>A DEF ResizeLock, TabsInv, Typed, SizeToApply
  <2>3. s.users = r.users /\ s.drains = r.drains /\ s.writeMu = r.writeMu /\
        s.applyMu = r.applyMu /\ s.resizeMu = p /\ s.pump = r.pump
    BY <1>3, <2>1 DEF IsTab, Fields
  <2>4. DOMAIN s = Fields /\ SameLife(s, r) /\ SameLine(s, r) /\ SameOut(s, r)
    BY <1>3, <2>1 DEF IsTab, Fields, SameLife, SameLine, SameOut
  <2>5. IsThread(y) /\ y.pc = "windowChange" /\ y.t = t /\ y.val = r.size /\ y.gen = x.gen /\ y.ok = x.ok
    BY <1>1, <1>2, <1>3, <1>5, <2>2 DEF IsThread, Rest, IsTab, LineTyped
  <2>6. Busy(t)' <=> Busy(t)
    BY <1>1, <1>2, <1>4, <1>5, <2>5 DEF Busy
  <2>7. FdTyped(s)
    BY <1>3, <2>3 DEF IsTab, FdTyped
  <2>8. Numbers(s)
    BY <1>3, <2>4, <2>3 DEF IsTab, Numbers, SameLife, SameLine, SameOut
  <2>9. IsTab(s)
    BY <1>3, <2>4, <2>8, <2>7, SameParts DEF IsTab
  <2>10. Works(p, y, s)
    BY <1>5, <2>4, <2>3, <1>A, <2>5, <1>3 DEF Works, SameLife, SameLine, IsTab,
       LineTyped
  <2>11. \A q \in Threads : q # p /\ th[q].t = t => Works(q, th[q], s)
    BY <1>8, <1>5, <2>4, <2>3, <1>A DEF Works, SameLife, SameLine
  <2>12. OneOpens(t)'
    BY <1>6, <1>1, <1>2, <1>4, <1>5, <2>5 DEF OneOpens, Opens
  <2>13. Fd(s, Busy(t)')
    BY <1>3, <1>7, <1>A, <1>5, <2>4, <2>3, <2>6 DEF IsTab, Numbers, Fd, Works,
       SameLife
  <2>14. Life(s) /\ Counted(s)
    BY <1>6, <2>4, SameParts
  <2>15. Owns(t)'
    BY <1>1, <1>2, <1>6, <2>4 DEF ResizeLock, Owns, SameLife
  <2>16. s.kind = r.kind /\ s.opened = r.opened /\ s.reason = r.reason /\ s.link = r.link /\ s.size = r.size /\ s.pty = r.pty
        /\ s.settings = r.settings /\ s.mode = r.mode /\ s.pending = r.pending /\ s.gen = r.gen /\ s.latest = r.latest /\ s.disturbed = r.disturbed
    BY <2>4 DEF SameLife, SameLine
  <2>17. th[p].pc \notin OfLine /\ th'[p].pc \notin OfLine
    BY <1>1, <1>2, <1>5, <2>5 DEF OfLine
  <2>18. Window(t)'
    BY <1>6, <2>4, <1>1, <1>2, <1>4, <1>5, <2>5, <1>8 DEF Window, SameLife,
       SameLine, Works
  <2>19. Line(t)' /\ Latest(t)'
    BY <1>2, <1>4, <1>6, <2>17, <2>16, OffLine, ZenonT(60)
  <2>20. Others(t)
    BY <1>1, <1>4, <1>9 DEF ResizeLock, Others, TabsInv, Typed
  <2> QED
    BY <1>1, <1>2, <1>4, <2>5, <2>10, <2>9, <2>11, <2>12, <2>13, <2>15, <2>20,
       <2>14, <2>18, <2>19, ThreadStep
<1>B. CASE ~(r.kind = "ssh" /\ r.opened)
  <2>1. s = r
    BY <1>1, <1>2, <1>B DEF ResizeLock
  <2>2. y = Rest
    BY <1>1, <1>2, <1>B DEF ResizeLock, TabsInv, Typed
  <2>3. DOMAIN s = Fields /\ SameLife(s, r) /\ SameFd(s, r) /\ SameLine(s, r) /\ SameOut(s, r)
    BY <1>3, <2>1 DEF IsTab, Fields, SameLife, SameFd, SameLine, SameOut
  <2>4. IsThread(y) /\ y.pc = "rest" /\ y.t = None
    BY <1>1, <1>2, <1>3, <1>5, <2>2 DEF IsThread, Rest
  <2>5. Busy(t)' <=> Busy(t)
    BY <1>1, <1>2, <1>4, <1>5, <2>4 DEF Busy
  <2>6. IsTab(s)
    BY <1>3, <2>1
  <2>7. \A q \in Threads : q # p /\ th[q].t = t => Works(q, th[q], s)
    BY <1>8, <1>5, <2>3, <1>B DEF Works, SameLife, SameFd, SameLine
  <2>8. OneOpens(t)'
    BY <1>6, <1>1, <1>2, <1>4, <1>5, <2>4 DEF OneOpens, Opens
  <2>9. Fd(s, Busy(t)')
    BY <1>3, <1>7, <1>B, <1>5, <2>3, <2>5 DEF IsTab, Numbers, Fd, Works, SameLife,
       SameFd
  <2>10. Life(s) /\ Counted(s)
    BY <1>6, <2>3, SameParts
  <2>11. Owns(t)'
    BY <1>1, <1>2, <1>6, <2>3 DEF ResizeLock, Owns, SameLife
  <2>12. s.kind = r.kind /\ s.opened = r.opened /\ s.reason = r.reason /\ s.link = r.link /\ s.size = r.size /\ s.pty = r.pty
        /\ s.settings = r.settings /\ s.mode = r.mode /\ s.pending = r.pending /\ s.gen = r.gen /\ s.latest = r.latest /\ s.disturbed = r.disturbed
    BY <2>3 DEF SameLife, SameLine
  <2>13. th[p].pc \notin OfLine /\ th'[p].pc \notin OfLine
    BY <1>1, <1>2, <1>5, <2>4 DEF OfLine
  <2>14. Window(t)'
    BY <1>6, <2>3, <1>1, <1>2, <1>4, <1>5, <2>4, <1>B DEF Window, SameLife, SameLine
  <2>15. Line(t)' /\ Latest(t)'
    BY <1>2, <1>4, <1>6, <2>13, <2>12, OffLine, ZenonT(60)
  <2>16. Others(t)
    BY <1>1, <1>4, <1>9 DEF ResizeLock, Others, TabsInv, Typed
  <2>17. (th[p].t = t \/ th[p].t = None) /\ th'[p] = Rest
    BY <1>1, <1>2, <2>2
  <2> QED
    BY <1>2, <1>4, <2>17, <2>6, <2>7, <2>8, <2>9, <2>11, <2>16, <2>10, <2>14, <2>15,
       ReturnStep
<1> QED
  BY <1>A, <1>B

LEMMA WindowChangeStep ==
  ASSUME TabsInv, NEW p \in Threads, WindowChange(p)
  PROVE  TabsInv'
<1>1. PICK t \in Tabs : th[p].t = t /\ TabOK(t)
  BY Working DEF WindowChange
<1>2. PICK r, s, x, y : r = tab[t] /\ s = tab'[t] /\ x = th[p] /\ y = th'[p]
  OBVIOUS
<1>3. IsTab(r) /\ IsThread(x)
  BY <1>2 DEF TabsInv, Typed
<1>4. /\ \A u \in Tabs : u # t => tab'[u] = tab[u]
      /\ \A q \in Threads : q # p => th'[q] = th[q]
  BY <1>1 DEF WindowChange, TabsInv, Typed, Set
<1>9. tab' = [u \in Tabs |-> tab'[u]] /\ th' = [q \in Threads |-> th'[q]]
  BY <1>1 DEF WindowChange, TabsInv, Typed, Set
<1>5. Works(p, x, r) /\ x.pc = "windowChange"
  BY <1>1, <1>2 DEF TabOK, WindowChange
<1>6. Life(r) /\ Counted(r) /\ OneOpens(t) /\ Owns(t) /\ Window(t) /\ Line(t) /\ Latest(t)
  BY <1>1, <1>2 DEF TabOK
<1>7. Fd(r, Busy(t))
  BY <1>1, <1>2 DEF TabOK
<1>8. \A q \in Threads : th[q].t = t => Works(q, th[q], r)
  BY <1>1, <1>2 DEF TabOK
<1>10. s = [r EXCEPT !.resizeMu = NoThread, !.pty = IF r.link = "open" THEN x.val ELSE r.pty]
  BY <1>1, <1>2, SetTab DEF WindowChange, TabsInv, Typed
<1>11. y = Rest
  BY <1>1, <1>2 DEF WindowChange, TabsInv, Typed
<1>12. s.users = r.users /\ s.drains = r.drains /\ s.writeMu = r.writeMu /\
      s.applyMu = r.applyMu /\ s.resizeMu = NoThread /\ s.pump = r.pump
  BY <1>3, <1>10 DEF IsTab, Fields
<1>13. s.size = r.size /\ (s.pty = IF r.link = "open" THEN x.val ELSE r.pty) /\
      s.settings = r.settings /\ s.mode = r.mode /\ s.pending = r.pending /\
      s.gen = r.gen /\ s.latest = r.latest /\ s.disturbed = r.disturbed
  BY <1>3, <1>10 DEF IsTab, Fields
<1>14. DOMAIN s = Fields /\ SameLife(s, r) /\ SameOut(s, r)
  BY <1>3, <1>10 DEF IsTab, Fields, SameLife, SameOut
<1>15. IsThread(y) /\ y.pc = "rest" /\ y.t = None
  BY <1>1, <1>2, <1>3, <1>5, <1>11 DEF IsThread, Rest
<1>16. Busy(t)' <=> Busy(t)
  BY <1>1, <1>2, <1>4, <1>5, <1>15 DEF Busy
<1>17. FdTyped(s)
  BY <1>3, <1>12 DEF IsTab, FdTyped
<1>18. LineTyped(s)
  BY <1>3, <1>13 DEF IsTab, LineTyped, IsThread
<1>19. Numbers(s)
  BY <1>3, <1>14, <1>12, <1>13 DEF IsTab, Numbers, SameLife, SameOut
<1>20. IsTab(s)
  BY <1>3, <1>14, <1>19, <1>17, <1>18, SameParts DEF IsTab
<1>21. \A q \in Threads : q # p /\ th[q].t = t => Works(q, th[q], s)
  BY <1>8, <1>5, <1>14, <1>12, <1>13 DEF Works, SameLife
<1>22. OneOpens(t)'
  BY <1>6, <1>1, <1>2, <1>4, <1>5, <1>15 DEF OneOpens, Opens
<1>23. Fd(s, Busy(t)')
  BY <1>3, <1>7, <1>5, <1>14, <1>12, <1>16 DEF IsTab, Numbers, Fd, Works, SameLife
<1>24. Life(s) /\ Counted(s)
  BY <1>6, <1>14, SameParts
<1>25. Owns(t)'
  BY <1>1, <1>2, <1>6, <1>14 DEF WindowChange, Owns, SameLife
<1>26. th[p].pc \notin OfLine /\ th'[p].pc \notin OfLine
  BY <1>1, <1>2, <1>5, <1>15 DEF OfLine
<1>27. Window(t)'
  BY <1>6, <1>14, <1>13, <1>1, <1>2, <1>4, <1>5, <1>15, <1>8 DEF Window, SameLife,
     Works
<1>28. Line(t)' /\ Latest(t)'
  BY <1>2, <1>4, <1>6, <1>26, <1>14, <1>13, OffLine, ZenonT(60) DEF SameLife
<1>29. Others(t)
  BY <1>1, <1>4, <1>9 DEF WindowChange, Others, TabsInv, Typed
<1>30. (th[p].t = t \/ th[p].t = None) /\ th'[p] = Rest
  BY <1>1, <1>2, <1>11
<1> QED
  BY <1>2, <1>4, <1>30, <1>20, <1>21, <1>22, <1>23, <1>25, <1>29, <1>24, <1>27,
     <1>28, ReturnStep

(* Operations on the line: writeMu has one holder, and the one holder has  *)
(* a use of the fd.                                                        *)
LEMMA WriteStep ==
  ASSUME TabsInv, NEW p \in Threads, NEW t \in Tabs, Write(p, t)
  PROVE  TabsInv'
<1>1. TabOK(t) /\ th[p] = Rest /\ th[p].t = None
  BY Resting DEF TabsInv, Call, Write
<1>2. PICK r, s, x, y : r = tab[t] /\ s = tab'[t] /\ x = th[p] /\ y = th'[p]
  OBVIOUS
<1>3. IsTab(r) /\ IsThread(x)
  BY <1>2 DEF TabsInv, Typed
<1>4. /\ \A u \in Tabs : u # t => tab'[u] = tab[u]
      /\ \A q \in Threads : q # p => th'[q] = th[q]
  BY <1>1 DEF Write, TabsInv, Typed, Set
<1>9. tab' = [u \in Tabs |-> tab'[u]] /\ th' = [q \in Threads |-> th'[q]]
  BY <1>1 DEF Write, TabsInv, Typed, Set
<1>5. r.inMap /\ r.status = "open" /\ r.kind = "serial"
  BY <1>1, <1>2 DEF Call, Write
<1>6. Life(r) /\ Counted(r) /\ OneOpens(t) /\ Owns(t) /\ Window(t) /\ Line(t) /\ Latest(t)
  BY <1>1, <1>2 DEF TabOK
<1>7. Fd(r, Busy(t))
  BY <1>1, <1>2 DEF TabOK
<1>8. \A q \in Threads : th[q].t = t => Works(q, th[q], r)
  BY <1>1, <1>2 DEF TabOK
<1>10. s = [r EXCEPT !.pump = TRUE]
  BY <1>1, <1>2, SetTab DEF Write, TabsInv, Typed
<1>11. y = [Rest EXCEPT !.pc = "writeLock", !.t = t]
  BY <1>1, <1>2 DEF Write, TabsInv, Typed
<1>12. s.users = r.users /\ s.drains = r.drains /\ s.writeMu = r.writeMu /\
      s.applyMu = r.applyMu /\ s.resizeMu = r.resizeMu /\ s.pump = TRUE
  BY <1>3, <1>10 DEF IsTab, Fields
<1>13. DOMAIN s = Fields /\ SameLife(s, r) /\ SameLine(s, r) /\ SameOut(s, r)
  BY <1>3, <1>10 DEF IsTab, Fields, SameLife, SameLine, SameOut
<1>14. IsThread(y) /\ y.pc = "writeLock" /\ y.t = t /\ y.val = None /\ y.gen = None /\ y.ok = FALSE
  BY <1>1, <1>2, <1>3, <1>5, <1>11 DEF IsThread, Rest
<1>15. Busy(t)' <=> Busy(t)
  BY <1>1, <1>2, <1>4, <1>5, <1>14 DEF Busy
<1>16. FdTyped(s)
  BY <1>3, <1>12 DEF IsTab, FdTyped
<1>17. Numbers(s)
  BY <1>3, <1>13, <1>12 DEF IsTab, Numbers, SameLife, SameLine, SameOut
<1>18. IsTab(s)
  BY <1>3, <1>13, <1>17, <1>16, SameParts DEF IsTab
<1>19. Works(p, y, s)
  BY <1>5, <1>13, <1>12, <1>14, <1>3, <1>6 DEF Works, SameLife, SameLine, Life,
     IsTab, LifeTyped
<1>20. \A q \in Threads : q # p /\ th[q].t = t => Works(q, th[q], s)
  BY <1>8, <1>5, <1>13, <1>12 DEF Works, SameLife, SameLine
<1>21. OneOpens(t)'
  BY <1>6, <1>1, <1>2, <1>4, <1>5, <1>14 DEF OneOpens, Opens
<1>22. Fd(s, Busy(t)')
  BY <1>3, <1>7, <1>5, <1>13, <1>12, <1>15 DEF IsTab, Numbers, Fd, SameLife
<1>23. Life(s) /\ Counted(s)
  BY <1>6, <1>13, SameParts
<1>24. Owns(t)'
  BY <1>1, <1>2, <1>6, <1>13 DEF Write, Owns, SameLife
<1>25. s.kind = r.kind /\ s.opened = r.opened /\ s.reason = r.reason /\ s.link = r.link /\ s.size = r.size /\ s.pty = r.pty
      /\ s.settings = r.settings /\ s.mode = r.mode /\ s.pending = r.pending /\ s.gen = r.gen /\ s.latest = r.latest /\ s.disturbed = r.disturbed
  BY <1>13 DEF SameLife, SameLine
<1>26. th[p].pc \notin OfWindow /\ th'[p].pc \notin OfWindow /\ th[p].pc \notin OfLine /\ th'[p].pc \notin OfLine
  BY <1>1, <1>2, <1>14 DEF OfWindow, OfLine, Rest
<1>27. Window(t)'
  BY <1>2, <1>4, <1>6, <1>26, <1>25, OffWindow
<1>28. Line(t)' /\ Latest(t)'
  BY <1>2, <1>4, <1>6, <1>26, <1>25, OffLine, ZenonT(60)
<1>29. Others(t)
  BY <1>1, <1>4, <1>9 DEF Write, Others, TabsInv, Typed
<1> QED
  BY <1>1, <1>2, <1>4, <1>14, <1>19, <1>18, <1>20, <1>21, <1>22, <1>24, <1>29,
     <1>23, <1>27, <1>28, ThreadStep

LEMMA BreakStep ==
  ASSUME TabsInv, NEW p \in Threads, NEW t \in Tabs, Break(p, t)
  PROVE  TabsInv'
<1>1. TabOK(t) /\ th[p] = Rest /\ th[p].t = None
  BY Resting DEF TabsInv, Call, Break
<1>2. PICK r, s, x, y : r = tab[t] /\ s = tab'[t] /\ x = th[p] /\ y = th'[p]
  OBVIOUS
<1>3. IsTab(r) /\ IsThread(x)
  BY <1>2 DEF TabsInv, Typed
<1>4. /\ \A u \in Tabs : u # t => tab'[u] = tab[u]
      /\ \A q \in Threads : q # p => th'[q] = th[q]
  BY <1>1 DEF Break, TabsInv, Typed, Set
<1>9. tab' = [u \in Tabs |-> tab'[u]] /\ th' = [q \in Threads |-> th'[q]]
  BY <1>1 DEF Break, TabsInv, Typed, Set
<1>5. r.inMap /\ r.status = "open" /\ r.kind = "serial"
  BY <1>1, <1>2 DEF Call, Break
<1>6. Life(r) /\ Counted(r) /\ OneOpens(t) /\ Owns(t) /\ Window(t) /\ Line(t) /\ Latest(t)
  BY <1>1, <1>2 DEF TabOK
<1>7. Fd(r, Busy(t))
  BY <1>1, <1>2 DEF TabOK
<1>8. \A q \in Threads : th[q].t = t => Works(q, th[q], r)
  BY <1>1, <1>2 DEF TabOK
<1>10. s = r
  BY <1>1, <1>2 DEF Break
<1>11. y = [Rest EXCEPT !.pc = "breakLock", !.t = t]
  BY <1>1, <1>2 DEF Break, TabsInv, Typed
<1>12. DOMAIN s = Fields /\ SameLife(s, r) /\ SameFd(s, r) /\ SameLine(s, r) /\ SameOut(s, r)
  BY <1>3, <1>10 DEF IsTab, Fields, SameLife, SameFd, SameLine, SameOut
<1>13. IsThread(y) /\ y.pc = "breakLock" /\ y.t = t /\ y.val = None /\ y.gen = None /\ y.ok = FALSE
  BY <1>1, <1>2, <1>3, <1>5, <1>11 DEF IsThread, Rest
<1>14. Busy(t)' <=> Busy(t)
  BY <1>1, <1>2, <1>4, <1>5, <1>13 DEF Busy
<1>15. IsTab(s)
  BY <1>3, <1>10
<1>16. Works(p, y, s)
  BY <1>5, <1>12, <1>13, <1>3, <1>6 DEF Works, SameLife, SameFd, SameLine, Life,
     IsTab, LifeTyped
<1>17. \A q \in Threads : q # p /\ th[q].t = t => Works(q, th[q], s)
  BY <1>8, <1>5, <1>12 DEF Works, SameLife, SameFd, SameLine
<1>18. OneOpens(t)'
  BY <1>6, <1>1, <1>2, <1>4, <1>5, <1>13 DEF OneOpens, Opens
<1>19. Fd(s, Busy(t)')
  BY <1>3, <1>7, <1>5, <1>12, <1>14 DEF IsTab, Numbers, Fd, SameLife, SameFd
<1>20. Life(s) /\ Counted(s)
  BY <1>6, <1>12, SameParts
<1>21. Owns(t)'
  BY <1>1, <1>2, <1>6, <1>12 DEF Break, Owns, SameLife
<1>22. s.kind = r.kind /\ s.opened = r.opened /\ s.reason = r.reason /\ s.link = r.link /\ s.size = r.size /\ s.pty = r.pty
      /\ s.settings = r.settings /\ s.mode = r.mode /\ s.pending = r.pending /\ s.gen = r.gen /\ s.latest = r.latest /\ s.disturbed = r.disturbed
  BY <1>12 DEF SameLife, SameLine
<1>23. th[p].pc \notin OfWindow /\ th'[p].pc \notin OfWindow /\ th[p].pc \notin OfLine /\ th'[p].pc \notin OfLine
  BY <1>1, <1>2, <1>13 DEF OfWindow, OfLine, Rest
<1>24. Window(t)'
  BY <1>2, <1>4, <1>6, <1>23, <1>22, OffWindow
<1>25. Line(t)' /\ Latest(t)'
  BY <1>2, <1>4, <1>6, <1>23, <1>22, OffLine, ZenonT(60)
<1>26. Others(t)
  BY <1>1, <1>4, <1>9 DEF Break, Others, TabsInv, Typed
<1> QED
  BY <1>1, <1>2, <1>4, <1>13, <1>16, <1>15, <1>17, <1>18, <1>19, <1>21, <1>26,
     <1>20, <1>24, <1>25, ThreadStep

LEMMA WriteLockStep ==
  ASSUME TabsInv, NEW p \in Threads, WriteLock(p)
  PROVE  TabsInv'
<1>1. PICK t \in Tabs : th[p].t = t /\ TabOK(t)
  BY Working DEF WriteLock
<1>2. PICK r, s, x, y : r = tab[t] /\ s = tab'[t] /\ x = th[p] /\ y = th'[p]
  OBVIOUS
<1>3. IsTab(r) /\ IsThread(x)
  BY <1>2 DEF TabsInv, Typed
<1>4. /\ \A u \in Tabs : u # t => tab'[u] = tab[u]
      /\ \A q \in Threads : q # p => th'[q] = th[q]
  BY <1>1 DEF WriteLock, TabsInv, Typed, Set
<1>9. tab' = [u \in Tabs |-> tab'[u]] /\ th' = [q \in Threads |-> th'[q]]
  BY <1>1 DEF WriteLock, TabsInv, Typed, Set
<1>5. Works(p, x, r) /\ x.pc = "writeLock" /\ r.writeMu = NoThread
  BY <1>1, <1>2 DEF TabOK, WriteLock
<1>6. Life(r) /\ Counted(r) /\ OneOpens(t) /\ Owns(t) /\ Window(t) /\ Line(t) /\ Latest(t)
  BY <1>1, <1>2 DEF TabOK
<1>7. Fd(r, Busy(t))
  BY <1>1, <1>2 DEF TabOK
<1>8. \A q \in Threads : th[q].t = t => Works(q, th[q], r)
  BY <1>1, <1>2 DEF TabOK
<1>A. CASE r.closed
  <2>1. s = [r EXCEPT !.pump = FALSE]
    BY <1>1, <1>2, <1>A, SetTab DEF WriteLock, TabsInv, Typed
  <2>2. y = Rest
    BY <1>1, <1>2, <1>A DEF WriteLock, TabsInv, Typed
  <2>3. s.users = r.users /\ s.drains = r.drains /\ s.writeMu = r.writeMu /\
        s.applyMu = r.applyMu /\ s.resizeMu = r.resizeMu /\ s.pump = FALSE
    BY <1>3, <2>1 DEF IsTab, Fields, Acquired
  <2>4. DOMAIN s = Fields /\ SameLife(s, r) /\ SameLine(s, r) /\ SameOut(s, r)
    BY <1>3, <2>1 DEF IsTab, Fields, Acquired, SameLife, SameLine, SameOut
  <2>5. IsThread(y) /\ y.pc = "rest" /\ y.t = None
    BY <1>1, <1>2, <1>3, <1>5, <2>2 DEF IsThread, Rest
  <2>6. Busy(t)' <=> Busy(t)
    BY <1>1, <1>2, <1>4, <1>5, <2>5 DEF Busy
  <2>7. FdTyped(s)
    BY <1>3, <2>3 DEF IsTab, FdTyped
  <2>8. Numbers(s)
    BY <1>3, <2>4, <2>3 DEF IsTab, Numbers, SameLife, SameLine, SameOut
  <2>9. IsTab(s)
    BY <1>3, <2>4, <2>8, <2>7, SameParts DEF IsTab
  <2>10. \A q \in Threads : q # p /\ th[q].t = t => Works(q, th[q], s)
    BY <1>8, <1>5, <2>4, <2>3, <1>A DEF Works, SameLife, SameLine
  <2>11. OneOpens(t)'
    BY <1>6, <1>1, <1>2, <1>4, <1>5, <2>5 DEF OneOpens, Opens
  <2>12. Fd(s, Busy(t)')
    BY <1>3, <1>7, <1>A, <1>5, <2>4, <2>3, <2>6 DEF IsTab, Numbers, Fd, Works,
       SameLife
  <2>13. Life(s) /\ Counted(s)
    BY <1>6, <2>4, SameParts
  <2>14. Owns(t)'
    BY <1>1, <1>2, <1>6, <2>4 DEF WriteLock, Owns, SameLife
  <2>15. th[p].pc \notin OfWindow /\ th'[p].pc \notin OfWindow /\ th[p].pc \notin OfLine /\ th'[p].pc \notin OfLine
    BY <1>1, <1>2, <1>5, <2>5 DEF OfWindow, OfLine
  <2>16. Window(t)'
    BY <1>2, <1>4, <1>6, <2>15, <2>4, OffWindow DEF SameLife, SameLine
  <2>17. Line(t)' /\ Latest(t)'
    BY <1>2, <1>4, <1>6, <2>15, <2>4, OffLine, ZenonT(60) DEF SameLife, SameLine
  <2>18. Others(t)
    BY <1>1, <1>4, <1>9 DEF WriteLock, Others, TabsInv, Typed
  <2>19. (th[p].t = t \/ th[p].t = None) /\ th'[p] = Rest
    BY <1>1, <1>2, <2>2
  <2> QED
    BY <1>2, <1>4, <2>19, <2>9, <2>10, <2>11, <2>12, <2>14, <2>18, <2>13, <2>16,
       <2>17, ReturnStep
<1>B. CASE ~r.closed
  <2>1. s = [Acquired(r) EXCEPT !.writeMu = p]
    BY <1>1, <1>2, <1>B, SetTab DEF WriteLock, TabsInv, Typed
  <2>2. y = [x EXCEPT !.pc = "write"]
    BY <1>1, <1>2, <1>B DEF WriteLock, TabsInv, Typed
  <2>3. s.users = r.users + 1 /\ s.drains = r.drains /\ s.writeMu = p /\
        s.applyMu = r.applyMu /\ s.resizeMu = r.resizeMu /\ s.pump = r.pump
    BY <1>3, <2>1 DEF IsTab, Fields, Acquired
  <2>4. DOMAIN s = Fields /\ SameLife(s, r) /\ SameLine(s, r) /\ SameOut(s, r)
    BY <1>3, <2>1 DEF IsTab, Fields, Acquired, SameLife, SameLine, SameOut
  <2>5. IsThread(y) /\ y.pc = "write" /\ y.t = t /\ y.val = x.val /\ y.gen = x.gen /\ y.ok = x.ok
    BY <1>1, <1>2, <1>3, <1>5, <2>2 DEF IsThread, Rest
  <2>6. Busy(t)' /\ ~Busy(t)
    BY <1>1, <1>2, <1>4, <1>5, <2>5, <1>8 DEF Busy, Works
  <2>7. FdTyped(s)
    BY <1>3, <2>3 DEF IsTab, FdTyped
  <2>8. Numbers(s)
    BY <1>3, <2>4, <2>3 DEF IsTab, Numbers, SameLife, SameLine, SameOut
  <2>9. IsTab(s)
    BY <1>3, <2>4, <2>8, <2>7, SameParts DEF IsTab
  <2>10. Works(p, y, s)
    BY <1>5, <2>4, <2>3, <1>B, <2>5 DEF Works, SameLife, SameLine
  <2>11. \A q \in Threads : q # p /\ th[q].t = t => Works(q, th[q], s)
    BY <1>8, <1>5, <2>4, <2>3, <1>B DEF Works, SameLife, SameLine
  <2>12. OneOpens(t)'
    BY <1>6, <1>1, <1>2, <1>4, <1>5, <2>5 DEF OneOpens, Opens
  <2>13. Fd(s, Busy(t)')
    BY <1>3, <1>7, <1>B, <1>5, <2>4, <2>3, <2>6 DEF IsTab, Numbers, Fd, Works,
       SameLife
  <2>14. Life(s) /\ Counted(s)
    BY <1>6, <2>4, SameParts
  <2>15. Owns(t)'
    BY <1>1, <1>2, <1>6, <2>4 DEF WriteLock, Owns, SameLife
  <2>16. th[p].pc \notin OfWindow /\ th'[p].pc \notin OfWindow /\ th[p].pc \notin OfLine /\ th'[p].pc \notin OfLine
    BY <1>1, <1>2, <1>5, <2>5 DEF OfWindow, OfLine
  <2>17. Window(t)'
    BY <1>2, <1>4, <1>6, <2>16, <2>4, OffWindow DEF SameLife, SameLine
  <2>18. Line(t)' /\ Latest(t)'
    BY <1>2, <1>4, <1>6, <2>16, <2>4, OffLine, ZenonT(60) DEF SameLife, SameLine
  <2>19. Others(t)
    BY <1>1, <1>4, <1>9 DEF WriteLock, Others, TabsInv, Typed
  <2> QED
    BY <1>1, <1>2, <1>4, <2>5, <2>10, <2>9, <2>11, <2>12, <2>13, <2>15, <2>19,
       <2>14, <2>17, <2>18, ThreadStep
<1> QED
  BY <1>A, <1>B

LEMMA WriteDoneStep ==
  ASSUME TabsInv, NEW p \in Threads, NEW ok \in BOOLEAN, WriteDone(p, ok)
  PROVE  TabsInv'
<1>1. PICK t \in Tabs : th[p].t = t /\ TabOK(t)
  BY Working DEF WriteDone
<1>2. PICK r, s, x, y : r = tab[t] /\ s = tab'[t] /\ x = th[p] /\ y = th'[p]
  OBVIOUS
<1>3. IsTab(r) /\ IsThread(x)
  BY <1>2 DEF TabsInv, Typed
<1>4. /\ \A u \in Tabs : u # t => tab'[u] = tab[u]
      /\ \A q \in Threads : q # p => th'[q] = th[q]
  BY <1>1 DEF WriteDone, TabsInv, Typed, Set
<1>9. tab' = [u \in Tabs |-> tab'[u]] /\ th' = [q \in Threads |-> th'[q]]
  BY <1>1 DEF WriteDone, TabsInv, Typed, Set
<1>5. Works(p, x, r) /\ x.pc = "write"
  BY <1>1, <1>2 DEF TabOK, WriteDone
<1>6. Life(r) /\ Counted(r) /\ OneOpens(t) /\ Owns(t) /\ Window(t) /\ Line(t) /\ Latest(t)
  BY <1>1, <1>2 DEF TabOK
<1>7. Fd(r, Busy(t))
  BY <1>1, <1>2 DEF TabOK
<1>8. \A q \in Threads : th[q].t = t => Works(q, th[q], r)
  BY <1>1, <1>2 DEF TabOK
<1>A. CASE ~ok /\ r.reason = "" /\ r.fin = "no"
  <2>1. /\ [Released(r) EXCEPT !.writeMu = NoThread, !.pump = FALSE].reason = r.reason
          /\ [Released(r) EXCEPT !.writeMu = NoThread, !.pump = FALSE].fin = r.fin
    BY <1>3 DEF Released, IsTab, Fields
  <2>2. s = [[Released(r) EXCEPT !.writeMu = NoThread, !.pump = FALSE] EXCEPT !.reason = "lost", !.fin = "close"]
    BY <1>1, <1>2, <1>A, <2>1, SetTab DEF WriteDone, TabsInv, Typed
  <2>3. y = Rest
    BY <1>1, <1>2, <1>A, <2>1 DEF WriteDone, TabsInv, Typed
  <2>4. s.kind = r.kind /\ s.dev = r.dev /\ s.inMap = r.inMap /\ s.status = r.status
        /\ s.reason = "lost" /\ s.canceled = r.canceled /\ s.opened = r.opened /\
        (s.link = IF r.closed /\ r.users = 1 THEN "closed" ELSE r.link) /\
        s.closed = r.closed /\ s.fin = "close" /\ s.done = r.done /\
        s.exits = r.exits /\ s.outClosed = r.outClosed
    BY <1>3, <2>2, <2>1 DEF IsTab, Fields, Released
  <2>5. s.users = r.users - 1 /\ s.drains = r.drains /\ s.writeMu = NoThread /\
        s.applyMu = r.applyMu /\ s.resizeMu = r.resizeMu /\ s.pump = FALSE
    BY <1>3, <2>2, <2>1 DEF IsTab, Fields, Released
  <2>6. DOMAIN s = Fields /\ SameLine(s, r) /\ SameOut(s, r)
    BY <1>3, <2>2, <2>1 DEF IsTab, Fields, Released, SameLine, SameOut
  <2>7. IsThread(y) /\ y.pc = "rest" /\ y.t = None
    BY <1>1, <1>2, <1>3, <1>5, <2>3 DEF IsThread, Rest
  <2>8. ~Busy(t)' /\ Busy(t)
    BY <1>1, <1>2, <1>4, <1>5, <2>7, <1>8 DEF Busy, Works
  <2>9. r.users = r.drains + 1 /\ r.drains \in Nat /\ r.kind = "serial" /\ r.opened /\ r.link = "open"
    BY <1>3, <1>7, <2>8 DEF IsTab, Numbers, Fd
  <2>10. LifeTyped(s)
    BY <1>3, <2>4 DEF IsTab, LifeTyped
  <2>11. FdTyped(s)
    BY <1>3, <2>5 DEF IsTab, FdTyped
  <2>12. Numbers(s)
    BY <1>3, <2>4, <2>5, <2>6, <2>9 DEF IsTab, Numbers, SameLine, SameOut
  <2>13. IsTab(s)
    BY <1>3, <2>6, <2>12, <2>10, <2>11, SameParts DEF IsTab
  <2>14. \A q \in Threads : q # p /\ th[q].t = t => Works(q, th[q], s)
    BY <1>8, <1>5, <2>4, <2>5, <2>6, <1>A, <2>1, ZenonT(60) DEF Works, SameLine
  <2>15. OneOpens(t)'
    BY <1>6, <1>1, <1>2, <1>4, <1>5, <2>7 DEF OneOpens, Opens
  <2>16. Fd(s, Busy(t)')
    BY <1>7, <2>4, <2>5, <2>8, <2>9 DEF Fd
  <2>17. Life(s)
    BY <1>3, <1>6, <2>10, <1>A, <2>1, <1>5, <2>4 DEF IsTab, Life, LifeTyped, Works
  <2>18. s.fin = "close"
    BY <2>4
  <2>19. Counted(s)
    BY <1>3, <1>6, <1>A, <2>1, <1>5, <2>18, <2>6 DEF IsTab, Numbers, Counted,
       SameOut
  <2>20. Owns(t)'
    BY <1>1, <1>2, <1>6, <2>4, ZenonT(60) DEF WriteDone, Owns
  <2>21. th[p].pc \notin OfWindow /\ th'[p].pc \notin OfWindow /\ th[p].pc \notin OfLine /\ th'[p].pc \notin OfLine
    BY <1>1, <1>2, <1>5, <2>7 DEF OfWindow, OfLine
  <2>22. Window(t)'
    BY <1>2, <1>4, <1>6, <2>21, <2>4, <2>6, OffWindow DEF SameLine
  <2>23. Line(t)' /\ Latest(t)'
    BY <1>2, <1>4, <1>6, <2>21, <2>4, <2>6, OffLine, ZenonT(60) DEF SameLine
  <2>24. Others(t)
    BY <1>1, <1>4, <1>9 DEF WriteDone, Others, TabsInv, Typed
  <2>25. (th[p].t = t \/ th[p].t = None) /\ th'[p] = Rest
    BY <1>1, <1>2, <2>3
  <2> QED
    BY <1>2, <1>4, <2>25, <2>13, <2>14, <2>15, <2>16, <2>20, <2>24, <2>17, <2>19,
       <2>22, <2>23, ReturnStep
<1>B. CASE ~(~ok /\ r.reason = "" /\ r.fin = "no")
  <2>1. /\ [Released(r) EXCEPT !.writeMu = NoThread, !.pump = FALSE].reason = r.reason
          /\ [Released(r) EXCEPT !.writeMu = NoThread, !.pump = FALSE].fin = r.fin
    BY <1>3 DEF Released, IsTab, Fields
  <2>2. s = [Released(r) EXCEPT !.writeMu = NoThread, !.pump = FALSE]
    BY <1>1, <1>2, <1>B, <2>1, SetTab DEF WriteDone, TabsInv, Typed
  <2>3. y = Rest
    BY <1>1, <1>2, <1>B, <2>1 DEF WriteDone, TabsInv, Typed
  <2>4. s.kind = r.kind /\ s.dev = r.dev /\ s.inMap = r.inMap /\ s.status = r.status
        /\ s.reason = r.reason /\ s.canceled = r.canceled /\ s.opened = r.opened /\
        (s.link = IF r.closed /\ r.users = 1 THEN "closed" ELSE r.link) /\
        s.closed = r.closed /\ s.fin = r.fin /\ s.done = r.done /\ s.exits = r.exits
        /\ s.outClosed = r.outClosed
    BY <1>3, <2>2, <2>1 DEF IsTab, Fields, Released
  <2>5. s.users = r.users - 1 /\ s.drains = r.drains /\ s.writeMu = NoThread /\
        s.applyMu = r.applyMu /\ s.resizeMu = r.resizeMu /\ s.pump = FALSE
    BY <1>3, <2>2, <2>1 DEF IsTab, Fields, Released
  <2>6. DOMAIN s = Fields /\ SameLine(s, r) /\ SameOut(s, r)
    BY <1>3, <2>2, <2>1 DEF IsTab, Fields, Released, SameLine, SameOut
  <2>7. IsThread(y) /\ y.pc = "rest" /\ y.t = None
    BY <1>1, <1>2, <1>3, <1>5, <2>3 DEF IsThread, Rest
  <2>8. ~Busy(t)' /\ Busy(t)
    BY <1>1, <1>2, <1>4, <1>5, <2>7, <1>8 DEF Busy, Works
  <2>9. r.users = r.drains + 1 /\ r.drains \in Nat /\ r.kind = "serial" /\ r.opened /\ r.link = "open"
    BY <1>3, <1>7, <2>8 DEF IsTab, Numbers, Fd
  <2>10. LifeTyped(s)
    BY <1>3, <2>4 DEF IsTab, LifeTyped
  <2>11. FdTyped(s)
    BY <1>3, <2>5 DEF IsTab, FdTyped
  <2>12. Numbers(s)
    BY <1>3, <2>4, <2>5, <2>6, <2>9 DEF IsTab, Numbers, SameLine, SameOut
  <2>13. IsTab(s)
    BY <1>3, <2>6, <2>12, <2>10, <2>11, SameParts DEF IsTab
  <2>14. \A q \in Threads : q # p /\ th[q].t = t => Works(q, th[q], s)
    BY <1>8, <1>5, <2>4, <2>5, <2>6, <1>B, <2>1 DEF Works, SameLine
  <2>15. OneOpens(t)'
    BY <1>6, <1>1, <1>2, <1>4, <1>5, <2>7 DEF OneOpens, Opens
  <2>16. Fd(s, Busy(t)')
    BY <1>7, <2>4, <2>5, <2>8, <2>9 DEF Fd
  <2>17. Life(s)
    BY <1>3, <1>6, <2>10, <1>B, <2>1, <1>5, <2>4 DEF IsTab, Life, LifeTyped, Works
  <2>18. s.fin = r.fin
    BY <2>4
  <2>19. Counted(s)
    BY <1>3, <1>6, <1>B, <2>1, <1>5, <2>18, <2>6 DEF IsTab, Numbers, Counted,
       SameOut
  <2>20. Owns(t)'
    BY <1>1, <1>2, <1>6, <2>4, ZenonT(60) DEF WriteDone, Owns
  <2>21. th[p].pc \notin OfWindow /\ th'[p].pc \notin OfWindow /\ th[p].pc \notin OfLine /\ th'[p].pc \notin OfLine
    BY <1>1, <1>2, <1>5, <2>7 DEF OfWindow, OfLine
  <2>22. Window(t)'
    BY <1>2, <1>4, <1>6, <2>21, <2>4, <2>6, OffWindow DEF SameLine
  <2>23. Line(t)' /\ Latest(t)'
    BY <1>2, <1>4, <1>6, <2>21, <2>4, <2>6, OffLine, ZenonT(60) DEF SameLine
  <2>24. Others(t)
    BY <1>1, <1>4, <1>9 DEF WriteDone, Others, TabsInv, Typed
  <2>25. (th[p].t = t \/ th[p].t = None) /\ th'[p] = Rest
    BY <1>1, <1>2, <2>3
  <2> QED
    BY <1>2, <1>4, <2>25, <2>13, <2>14, <2>15, <2>16, <2>20, <2>24, <2>17, <2>19,
       <2>22, <2>23, ReturnStep
<1> QED
  BY <1>A, <1>B

LEMMA BreakLockStep ==
  ASSUME TabsInv, NEW p \in Threads, BreakLock(p)
  PROVE  TabsInv'
<1>1. PICK t \in Tabs : th[p].t = t /\ TabOK(t)
  BY Working DEF BreakLock
<1>2. PICK r, s, x, y : r = tab[t] /\ s = tab'[t] /\ x = th[p] /\ y = th'[p]
  OBVIOUS
<1>3. IsTab(r) /\ IsThread(x)
  BY <1>2 DEF TabsInv, Typed
<1>4. /\ \A u \in Tabs : u # t => tab'[u] = tab[u]
      /\ \A q \in Threads : q # p => th'[q] = th[q]
  BY <1>1 DEF BreakLock, TabsInv, Typed, Set
<1>9. tab' = [u \in Tabs |-> tab'[u]] /\ th' = [q \in Threads |-> th'[q]]
  BY <1>1 DEF BreakLock, TabsInv, Typed, Set
<1>5. Works(p, x, r) /\ x.pc = "breakLock" /\ r.writeMu = NoThread
  BY <1>1, <1>2 DEF TabOK, BreakLock
<1>6. Life(r) /\ Counted(r) /\ OneOpens(t) /\ Owns(t) /\ Window(t) /\ Line(t) /\ Latest(t)
  BY <1>1, <1>2 DEF TabOK
<1>7. Fd(r, Busy(t))
  BY <1>1, <1>2 DEF TabOK
<1>8. \A q \in Threads : th[q].t = t => Works(q, th[q], r)
  BY <1>1, <1>2 DEF TabOK
<1>A. CASE r.closed
  <2>1. s = [r EXCEPT !.writeMu = p]
    BY <1>1, <1>2, <1>A, SetTab DEF BreakLock, TabsInv, Typed, Draining
  <2>2. y = [x EXCEPT !.pc = "breakDrain"]
    BY <1>1, <1>2, <1>A DEF BreakLock, TabsInv, Typed
  <2>3. s.users = r.users /\ s.drains = r.drains /\ s.writeMu = p /\
        s.applyMu = r.applyMu /\ s.resizeMu = r.resizeMu /\ s.pump = r.pump
    BY <1>3, <2>1 DEF IsTab, Fields, Acquired
  <2>4. DOMAIN s = Fields /\ SameLife(s, r) /\ SameLine(s, r) /\ SameOut(s, r)
    BY <1>3, <2>1 DEF IsTab, Fields, Acquired, SameLife, SameLine, SameOut
  <2>5. IsThread(y) /\ y.pc = "breakDrain" /\ y.t = t /\ y.val = x.val /\ y.gen = x.gen /\ y.ok = x.ok
    BY <1>1, <1>2, <1>3, <1>5, <2>2 DEF IsThread, Rest
  <2>6. Busy(t)' <=> Busy(t)
    BY <1>1, <1>2, <1>4, <1>5, <2>5 DEF Busy
  <2>7. FdTyped(s)
    BY <1>3, <2>3 DEF IsTab, FdTyped
  <2>8. Numbers(s)
    BY <1>3, <2>4, <2>3 DEF IsTab, Numbers, SameLife, SameLine, SameOut
  <2>9. IsTab(s)
    BY <1>3, <2>4, <2>8, <2>7, SameParts DEF IsTab
  <2>10. Works(p, y, s)
    BY <1>5, <2>4, <2>3, <1>A, <2>5 DEF Works, SameLife, SameLine
  <2>11. \A q \in Threads : q # p /\ th[q].t = t => Works(q, th[q], s)
    BY <1>8, <1>5, <2>4, <2>3, <1>A DEF Works, SameLife, SameLine
  <2>12. OneOpens(t)'
    BY <1>6, <1>1, <1>2, <1>4, <1>5, <2>5 DEF OneOpens, Opens
  <2>13. Fd(s, Busy(t)')
    BY <1>3, <1>7, <1>A, <1>5, <2>4, <2>3, <2>6 DEF IsTab, Numbers, Fd, Works,
       SameLife
  <2>14. Life(s) /\ Counted(s)
    BY <1>6, <2>4, SameParts
  <2>15. Owns(t)'
    BY <1>1, <1>2, <1>6, <2>4 DEF BreakLock, Owns, SameLife
  <2>16. th[p].pc \notin OfWindow /\ th'[p].pc \notin OfWindow /\ th[p].pc \notin OfLine /\ th'[p].pc \notin OfLine
    BY <1>1, <1>2, <1>5, <2>5 DEF OfWindow, OfLine
  <2>17. Window(t)'
    BY <1>2, <1>4, <1>6, <2>16, <2>4, OffWindow DEF SameLife, SameLine
  <2>18. Line(t)' /\ Latest(t)'
    BY <1>2, <1>4, <1>6, <2>16, <2>4, OffLine, ZenonT(60) DEF SameLife, SameLine
  <2>19. Others(t)
    BY <1>1, <1>4, <1>9 DEF BreakLock, Others, TabsInv, Typed
  <2> QED
    BY <1>1, <1>2, <1>4, <2>5, <2>10, <2>9, <2>11, <2>12, <2>13, <2>15, <2>19,
       <2>14, <2>17, <2>18, ThreadStep
<1>B. CASE ~r.closed
  <2>1. s = [[Acquired(r) EXCEPT !.drains = Acquired(r).drains + 1] EXCEPT !.writeMu = p]
    BY <1>1, <1>2, <1>B, SetTab DEF BreakLock, TabsInv, Typed, Draining
  <2>2. y = [x EXCEPT !.pc = "breakDrain"]
    BY <1>1, <1>2, <1>B DEF BreakLock, TabsInv, Typed
  <2>3. s.users = r.users + 1 /\ s.drains = r.drains + 1 /\ s.writeMu = p /\
        s.applyMu = r.applyMu /\ s.resizeMu = r.resizeMu /\ s.pump = r.pump
    BY <1>3, <2>1 DEF IsTab, Fields, Acquired
  <2>4. DOMAIN s = Fields /\ SameLife(s, r) /\ SameLine(s, r) /\ SameOut(s, r)
    BY <1>3, <2>1 DEF IsTab, Fields, Acquired, SameLife, SameLine, SameOut
  <2>5. IsThread(y) /\ y.pc = "breakDrain" /\ y.t = t /\ y.val = x.val /\ y.gen = x.gen /\ y.ok = x.ok
    BY <1>1, <1>2, <1>3, <1>5, <2>2 DEF IsThread, Rest
  <2>6. Busy(t)' <=> Busy(t)
    BY <1>1, <1>2, <1>4, <1>5, <2>5 DEF Busy
  <2>7. FdTyped(s)
    BY <1>3, <2>3 DEF IsTab, FdTyped
  <2>8. Numbers(s)
    BY <1>3, <2>4, <2>3 DEF IsTab, Numbers, SameLife, SameLine, SameOut
  <2>9. IsTab(s)
    BY <1>3, <2>4, <2>8, <2>7, SameParts DEF IsTab
  <2>10. Works(p, y, s)
    BY <1>5, <2>4, <2>3, <1>B, <2>5 DEF Works, SameLife, SameLine
  <2>11. \A q \in Threads : q # p /\ th[q].t = t => Works(q, th[q], s)
    BY <1>8, <1>5, <2>4, <2>3, <1>B DEF Works, SameLife, SameLine
  <2>12. OneOpens(t)'
    BY <1>6, <1>1, <1>2, <1>4, <1>5, <2>5 DEF OneOpens, Opens
  <2>13. Fd(s, Busy(t)')
    BY <1>3, <1>7, <1>B, <1>5, <2>4, <2>3, <2>6 DEF IsTab, Numbers, Fd, Works,
       SameLife
  <2>14. Life(s) /\ Counted(s)
    BY <1>6, <2>4, SameParts
  <2>15. Owns(t)'
    BY <1>1, <1>2, <1>6, <2>4 DEF BreakLock, Owns, SameLife
  <2>16. th[p].pc \notin OfWindow /\ th'[p].pc \notin OfWindow /\ th[p].pc \notin OfLine /\ th'[p].pc \notin OfLine
    BY <1>1, <1>2, <1>5, <2>5 DEF OfWindow, OfLine
  <2>17. Window(t)'
    BY <1>2, <1>4, <1>6, <2>16, <2>4, OffWindow DEF SameLife, SameLine
  <2>18. Line(t)' /\ Latest(t)'
    BY <1>2, <1>4, <1>6, <2>16, <2>4, OffLine, ZenonT(60) DEF SameLife, SameLine
  <2>19. Others(t)
    BY <1>1, <1>4, <1>9 DEF BreakLock, Others, TabsInv, Typed
  <2> QED
    BY <1>1, <1>2, <1>4, <2>5, <2>10, <2>9, <2>11, <2>12, <2>13, <2>15, <2>19,
       <2>14, <2>17, <2>18, ThreadStep
<1> QED
  BY <1>A, <1>B

LEMMA BreakDrainedStep ==
  ASSUME TabsInv, NEW p \in Threads, BreakDrained(p)
  PROVE  TabsInv'
<1>1. PICK t \in Tabs : th[p].t = t /\ TabOK(t)
  BY Working DEF BreakDrained
<1>2. PICK r, s, x, y : r = tab[t] /\ s = tab'[t] /\ x = th[p] /\ y = th'[p]
  OBVIOUS
<1>3. IsTab(r) /\ IsThread(x)
  BY <1>2 DEF TabsInv, Typed
<1>4. /\ \A u \in Tabs : u # t => tab'[u] = tab[u]
      /\ \A q \in Threads : q # p => th'[q] = th[q]
  BY <1>1 DEF BreakDrained, TabsInv, Typed, Set
<1>9. tab' = [u \in Tabs |-> tab'[u]] /\ th' = [q \in Threads |-> th'[q]]
  BY <1>1 DEF BreakDrained, TabsInv, Typed, Set
<1>5. Works(p, x, r) /\ x.pc = "breakDrain"
  BY <1>1, <1>2 DEF TabOK, BreakDrained
<1>6. Life(r) /\ Counted(r) /\ OneOpens(t) /\ Owns(t) /\ Window(t) /\ Line(t) /\ Latest(t)
  BY <1>1, <1>2 DEF TabOK
<1>7. Fd(r, Busy(t))
  BY <1>1, <1>2 DEF TabOK
<1>8. \A q \in Threads : th[q].t = t => Works(q, th[q], r)
  BY <1>1, <1>2 DEF TabOK
<1>A. CASE r.closed
  <2>1. s = [r EXCEPT !.writeMu = NoThread]
    BY <1>1, <1>2, <1>A, SetTab DEF BreakDrained, TabsInv, Typed
  <2>2. y = Rest
    BY <1>1, <1>2, <1>A DEF BreakDrained, TabsInv, Typed
  <2>3. s.users = r.users /\ s.drains = r.drains /\ s.writeMu = NoThread /\
        s.applyMu = r.applyMu /\ s.resizeMu = r.resizeMu /\ s.pump = r.pump
    BY <1>3, <2>1 DEF IsTab, Fields, Acquired
  <2>4. DOMAIN s = Fields /\ SameLife(s, r) /\ SameLine(s, r) /\ SameOut(s, r)
    BY <1>3, <2>1 DEF IsTab, Fields, Acquired, SameLife, SameLine, SameOut
  <2>5. IsThread(y) /\ y.pc = "rest" /\ y.t = None
    BY <1>1, <1>2, <1>3, <1>5, <2>2 DEF IsThread, Rest
  <2>6. Busy(t)' <=> Busy(t)
    BY <1>1, <1>2, <1>4, <1>5, <2>5 DEF Busy
  <2>7. FdTyped(s)
    BY <1>3, <2>3 DEF IsTab, FdTyped
  <2>8. Numbers(s)
    BY <1>3, <2>4, <2>3 DEF IsTab, Numbers, SameLife, SameLine, SameOut
  <2>9. IsTab(s)
    BY <1>3, <2>4, <2>8, <2>7, SameParts DEF IsTab
  <2>10. \A q \in Threads : q # p /\ th[q].t = t => Works(q, th[q], s)
    BY <1>8, <1>5, <2>4, <2>3, <1>A DEF Works, SameLife, SameLine
  <2>11. OneOpens(t)'
    BY <1>6, <1>1, <1>2, <1>4, <1>5, <2>5 DEF OneOpens, Opens
  <2>12. Fd(s, Busy(t)')
    BY <1>3, <1>7, <1>A, <1>5, <2>4, <2>3, <2>6 DEF IsTab, Numbers, Fd, Works,
       SameLife
  <2>13. Life(s) /\ Counted(s)
    BY <1>6, <2>4, SameParts
  <2>14. Owns(t)'
    BY <1>1, <1>2, <1>6, <2>4 DEF BreakDrained, Owns, SameLife
  <2>15. th[p].pc \notin OfWindow /\ th'[p].pc \notin OfWindow /\ th[p].pc \notin OfLine /\ th'[p].pc \notin OfLine
    BY <1>1, <1>2, <1>5, <2>5 DEF OfWindow, OfLine
  <2>16. Window(t)'
    BY <1>2, <1>4, <1>6, <2>15, <2>4, OffWindow DEF SameLife, SameLine
  <2>17. Line(t)' /\ Latest(t)'
    BY <1>2, <1>4, <1>6, <2>15, <2>4, OffLine, ZenonT(60) DEF SameLife, SameLine
  <2>18. Others(t)
    BY <1>1, <1>4, <1>9 DEF BreakDrained, Others, TabsInv, Typed
  <2>19. (th[p].t = t \/ th[p].t = None) /\ th'[p] = Rest
    BY <1>1, <1>2, <2>2
  <2> QED
    BY <1>2, <1>4, <2>19, <2>9, <2>10, <2>11, <2>12, <2>14, <2>18, <2>13, <2>16,
       <2>17, ReturnStep
<1>B. CASE ~r.closed
  <2>1. s = Acquired(r)
    BY <1>1, <1>2, <1>B, SetTab DEF BreakDrained, TabsInv, Typed
  <2>2. y = [x EXCEPT !.pc = "break"]
    BY <1>1, <1>2, <1>B DEF BreakDrained, TabsInv, Typed
  <2>3. s.users = r.users + 1 /\ s.drains = r.drains /\ s.writeMu = r.writeMu /\
        s.applyMu = r.applyMu /\ s.resizeMu = r.resizeMu /\ s.pump = r.pump
    BY <1>3, <2>1 DEF IsTab, Fields, Acquired
  <2>4. DOMAIN s = Fields /\ SameLife(s, r) /\ SameLine(s, r) /\ SameOut(s, r)
    BY <1>3, <2>1 DEF IsTab, Fields, Acquired, SameLife, SameLine, SameOut
  <2>5. IsThread(y) /\ y.pc = "break" /\ y.t = t /\ y.val = x.val /\ y.gen = x.gen /\ y.ok = x.ok
    BY <1>1, <1>2, <1>3, <1>5, <2>2 DEF IsThread, Rest
  <2>6. Busy(t)' /\ ~Busy(t)
    BY <1>1, <1>2, <1>4, <1>5, <2>5, <1>8 DEF Busy, Works
  <2>7. FdTyped(s)
    BY <1>3, <2>3 DEF IsTab, FdTyped
  <2>8. Numbers(s)
    BY <1>3, <2>4, <2>3 DEF IsTab, Numbers, SameLife, SameLine, SameOut
  <2>9. IsTab(s)
    BY <1>3, <2>4, <2>8, <2>7, SameParts DEF IsTab
  <2>10. Works(p, y, s)
    BY <1>5, <2>4, <2>3, <1>B, <2>5 DEF Works, SameLife, SameLine
  <2>11. \A q \in Threads : q # p /\ th[q].t = t => Works(q, th[q], s)
    BY <1>8, <1>5, <2>4, <2>3, <1>B DEF Works, SameLife, SameLine
  <2>12. OneOpens(t)'
    BY <1>6, <1>1, <1>2, <1>4, <1>5, <2>5 DEF OneOpens, Opens
  <2>13. Fd(s, Busy(t)')
    BY <1>3, <1>7, <1>B, <1>5, <2>4, <2>3, <2>6 DEF IsTab, Numbers, Fd, Works,
       SameLife
  <2>14. Life(s) /\ Counted(s)
    BY <1>6, <2>4, SameParts
  <2>15. Owns(t)'
    BY <1>1, <1>2, <1>6, <2>4 DEF BreakDrained, Owns, SameLife
  <2>16. th[p].pc \notin OfWindow /\ th'[p].pc \notin OfWindow /\ th[p].pc \notin OfLine /\ th'[p].pc \notin OfLine
    BY <1>1, <1>2, <1>5, <2>5 DEF OfWindow, OfLine
  <2>17. Window(t)'
    BY <1>2, <1>4, <1>6, <2>16, <2>4, OffWindow DEF SameLife, SameLine
  <2>18. Line(t)' /\ Latest(t)'
    BY <1>2, <1>4, <1>6, <2>16, <2>4, OffLine, ZenonT(60) DEF SameLife, SameLine
  <2>19. Others(t)
    BY <1>1, <1>4, <1>9 DEF BreakDrained, Others, TabsInv, Typed
  <2> QED
    BY <1>1, <1>2, <1>4, <2>5, <2>10, <2>9, <2>11, <2>12, <2>13, <2>15, <2>19,
       <2>14, <2>17, <2>18, ThreadStep
<1> QED
  BY <1>A, <1>B

LEMMA BreakDoneStep ==
  ASSUME TabsInv, NEW p \in Threads, BreakDone(p)
  PROVE  TabsInv'
<1>1. PICK t \in Tabs : th[p].t = t /\ TabOK(t)
  BY Working DEF BreakDone
<1>2. PICK r, s, x, y : r = tab[t] /\ s = tab'[t] /\ x = th[p] /\ y = th'[p]
  OBVIOUS
<1>3. IsTab(r) /\ IsThread(x)
  BY <1>2 DEF TabsInv, Typed
<1>4. /\ \A u \in Tabs : u # t => tab'[u] = tab[u]
      /\ \A q \in Threads : q # p => th'[q] = th[q]
  BY <1>1 DEF BreakDone, TabsInv, Typed, Set
<1>9. tab' = [u \in Tabs |-> tab'[u]] /\ th' = [q \in Threads |-> th'[q]]
  BY <1>1 DEF BreakDone, TabsInv, Typed, Set
<1>5. Works(p, x, r) /\ x.pc = "break"
  BY <1>1, <1>2 DEF TabOK, BreakDone
<1>6. Life(r) /\ Counted(r) /\ OneOpens(t) /\ Owns(t) /\ Window(t) /\ Line(t) /\ Latest(t)
  BY <1>1, <1>2 DEF TabOK
<1>7. Fd(r, Busy(t))
  BY <1>1, <1>2 DEF TabOK
<1>8. \A q \in Threads : th[q].t = t => Works(q, th[q], r)
  BY <1>1, <1>2 DEF TabOK
<1>10. s = [Released(r) EXCEPT !.writeMu = NoThread]
  BY <1>1, <1>2, SetTab DEF BreakDone, TabsInv, Typed
<1>11. y = Rest
  BY <1>1, <1>2 DEF BreakDone, TabsInv, Typed
<1>12. s.kind = r.kind /\ s.dev = r.dev /\ s.inMap = r.inMap /\ s.status = r.status
      /\ s.reason = r.reason /\ s.canceled = r.canceled /\ s.opened = r.opened /\
      (s.link = IF r.closed /\ r.users = 1 THEN "closed" ELSE r.link) /\
      s.closed = r.closed /\ s.fin = r.fin /\ s.done = r.done /\ s.exits = r.exits
      /\ s.outClosed = r.outClosed
  BY <1>3, <1>10 DEF IsTab, Fields, Released
<1>13. s.users = r.users - 1 /\ s.drains = r.drains /\ s.writeMu = NoThread /\
      s.applyMu = r.applyMu /\ s.resizeMu = r.resizeMu /\ s.pump = r.pump
  BY <1>3, <1>10 DEF IsTab, Fields, Released
<1>14. DOMAIN s = Fields /\ SameLine(s, r) /\ SameOut(s, r)
  BY <1>3, <1>10 DEF IsTab, Fields, Released, SameLine, SameOut
<1>15. IsThread(y) /\ y.pc = "rest" /\ y.t = None
  BY <1>1, <1>2, <1>3, <1>5, <1>11 DEF IsThread, Rest
<1>16. ~Busy(t)' /\ Busy(t)
  BY <1>1, <1>2, <1>4, <1>5, <1>15, <1>8 DEF Busy, Works
<1>17. r.users = r.drains + 1 /\ r.drains \in Nat /\ r.kind = "serial" /\ r.opened /\ r.link = "open"
  BY <1>3, <1>7, <1>16 DEF IsTab, Numbers, Fd
<1>18. LifeTyped(s)
  BY <1>3, <1>12 DEF IsTab, LifeTyped
<1>19. FdTyped(s)
  BY <1>3, <1>13 DEF IsTab, FdTyped
<1>20. Numbers(s)
  BY <1>3, <1>12, <1>13, <1>14, <1>17 DEF IsTab, Numbers, SameLine, SameOut
<1>21. IsTab(s)
  BY <1>3, <1>14, <1>20, <1>18, <1>19, SameParts DEF IsTab
<1>22. \A q \in Threads : q # p /\ th[q].t = t => Works(q, th[q], s)
  BY <1>8, <1>5, <1>12, <1>13, <1>14 DEF Works, SameLine
<1>23. OneOpens(t)'
  BY <1>6, <1>1, <1>2, <1>4, <1>5, <1>15 DEF OneOpens, Opens
<1>24. Fd(s, Busy(t)')
  BY <1>7, <1>12, <1>13, <1>16, <1>17 DEF Fd
<1>25. Life(s)
  BY <1>3, <1>6, <1>18, <1>5, <1>12, ZenonT(60) DEF IsTab, Life, LifeTyped, Works
<1>26. s.fin = r.fin
  BY <1>12
<1>27. Counted(s)
  BY <1>3, <1>6, <1>5, <1>26, <1>14 DEF IsTab, Numbers, Counted, SameOut
<1>28. Owns(t)'
  BY <1>1, <1>2, <1>6, <1>12 DEF BreakDone, Owns
<1>29. th[p].pc \notin OfWindow /\ th'[p].pc \notin OfWindow /\ th[p].pc \notin OfLine /\ th'[p].pc \notin OfLine
  BY <1>1, <1>2, <1>5, <1>15 DEF OfWindow, OfLine
<1>30. Window(t)'
  BY <1>2, <1>4, <1>6, <1>29, <1>12, <1>14, OffWindow DEF SameLine
<1>31. Line(t)' /\ Latest(t)'
  BY <1>2, <1>4, <1>6, <1>29, <1>12, <1>14, OffLine, ZenonT(60) DEF SameLine
<1>32. Others(t)
  BY <1>1, <1>4, <1>9 DEF BreakDone, Others, TabsInv, Typed
<1>33. (th[p].t = t \/ th[p].t = None) /\ th'[p] = Rest
  BY <1>1, <1>2, <1>11
<1> QED
  BY <1>2, <1>4, <1>33, <1>21, <1>22, <1>23, <1>24, <1>28, <1>32, <1>25, <1>27,
     <1>30, <1>31, ReturnStep

(* Changing the settings in place overtakes whoever carries older ones.    *)
LEMMA SaveSettingsStep ==
  ASSUME TabsInv, NEW p \in Threads, NEW t \in Tabs, NEW v \in Values, SaveSettings(p, t, v)
  PROVE  TabsInv'
<1>1. TabOK(t) /\ th[p] = Rest /\ th[p].t = None
  BY Resting DEF TabsInv, Call, SaveSettings
<1>2. PICK r, s, x, y : r = tab[t] /\ s = tab'[t] /\ x = th[p] /\ y = th'[p]
  OBVIOUS
<1>3. IsTab(r) /\ IsThread(x)
  BY <1>2 DEF TabsInv, Typed
<1>4. /\ \A u \in Tabs : u # t => tab'[u] = tab[u]
      /\ \A q \in Threads : q # p => th'[q] = th[q]
  BY <1>1 DEF SaveSettings, TabsInv, Typed, Set
<1>9. tab' = [u \in Tabs |-> tab'[u]] /\ th' = [q \in Threads |-> th'[q]]
  BY <1>1 DEF SaveSettings, TabsInv, Typed, Set
<1>5. r.inMap /\ r.kind = "serial"
  BY <1>1, <1>2 DEF Call, SaveSettings
<1>6. Life(r) /\ Counted(r) /\ OneOpens(t) /\ Owns(t) /\ Window(t) /\ Line(t) /\ Latest(t)
  BY <1>1, <1>2 DEF TabOK
<1>7. Fd(r, Busy(t))
  BY <1>1, <1>2 DEF TabOK
<1>8. \A q \in Threads : th[q].t = t => Works(q, th[q], r)
  BY <1>1, <1>2 DEF TabOK
<1>A. CASE r.status = "connecting"
  <2>1. [r EXCEPT !.latest = v, !.disturbed = r.disturbed \/ Applying(t)].status = r.status
    BY <1>3 DEF IsTab, Fields
  <2>2. s = [[r EXCEPT !.latest = v, !.disturbed = r.disturbed \/ Applying(t)] EXCEPT !.pending = v]
    BY <1>1, <1>2, <1>A, <2>1, SetTab DEF SaveSettings, TabsInv, Typed
  <2>3. y = x
    BY <1>1, <1>2, <1>A, <2>1 DEF SaveSettings, TabsInv, Typed
  <2>4. s.size = r.size /\ s.pty = r.pty /\ s.settings = r.settings /\
        s.mode = r.mode /\ s.pending = v /\ s.gen = r.gen /\ s.latest = v /\
        s.disturbed = (r.disturbed \/ Applying(t))
    BY <1>3, <2>2, <2>1 DEF IsTab, Fields
  <2>5. DOMAIN s = Fields /\ SameLife(s, r) /\ SameFd(s, r) /\ SameOut(s, r)
    BY <1>3, <2>2, <2>1 DEF IsTab, Fields, SameLife, SameFd, SameOut
  <2>6. IsThread(y) /\ y.pc = "rest" /\ y.t = None
    BY <1>1, <1>2, <1>3, <1>5, <2>3 DEF IsThread, Rest
  <2>7. Busy(t)' <=> Busy(t)
    BY <1>1, <1>2, <1>4, <1>5, <2>6 DEF Busy
  <2>8. LineTyped(s)
    BY <1>3, <2>4 DEF IsTab, LineTyped
  <2>9. Numbers(s)
    BY <1>3, <2>5, <2>4 DEF IsTab, Numbers, SameLife, SameFd, SameOut
  <2>10. IsTab(s)
    BY <1>3, <2>5, <2>9, <2>8, SameParts DEF IsTab
  <2>11. \A q \in Threads : q # p /\ th[q].t = t => Works(q, th[q], s)
    BY <1>8, <1>5, <2>5, <2>4, <1>A, <2>1 DEF Works, SameLife, SameFd
  <2>12. OneOpens(t)'
    BY <1>6, <1>1, <1>2, <1>4, <1>5, <2>6 DEF OneOpens, Opens
  <2>13. Fd(s, Busy(t)')
    BY <1>3, <1>7, <1>A, <2>1, <1>5, <2>5, <2>7 DEF IsTab, Numbers, Fd, SameLife,
       SameFd
  <2>14. Life(s) /\ Counted(s)
    BY <1>6, <2>5, SameParts
  <2>15. Owns(t)'
    BY <1>1, <1>2, <1>6, <2>5, ZenonT(60) DEF SaveSettings, Owns, SameLife
  <2>16. th[p].pc \notin OfWindow /\ th'[p].pc \notin OfWindow
    BY <1>1, <1>2, <2>6 DEF OfWindow, Rest
  <2>17. Window(t)'
    BY <1>2, <1>4, <1>6, <2>16, <2>5, <2>4, OffWindow DEF SameLife
  <2>18. Line(t)'
    BY <1>6, <2>5, <2>4, <1>1, <1>2, <1>4, <1>5, <2>6 DEF Line, SameLife
  <2>19. Undisturbed(s) => Carried(t) /\ Coming(t)
    BY <1>2, <1>6, <2>5, <2>4 DEF Latest, Undisturbed, SameLife
  <2>20. ~r.opened
    BY <1>A, <1>3, <1>5, <1>6 DEF IsTab, LifeTyped, Life
  <2>21. \A q \in Threads : th[q].t = t => th[q].pc \notin OnLine
    BY <1>8, <2>20 DEF Works
  <2>22. Undisturbed(s) => Carried(t)'
    BY <2>19, <2>20, <2>21, <2>5, <2>4, <1>1, <1>2, <1>4, <1>5, <2>6 DEF Carried,
       SameLife
  <2>23. Undisturbed(s) => Coming(t)'
    BY <2>19, <2>20, <2>21, <2>5, <2>4, <1>1, <1>2, <1>4, <1>5, <2>6 DEF Coming,
       Brings, SameLife
  <2>24. Latest(t)'
    BY <1>2, <2>22, <2>23 DEF Latest
  <2>25. Others(t)
    BY <1>1, <1>4, <1>9 DEF SaveSettings, Others, TabsInv, Typed
  <2>26. (th[p].t = t \/ th[p].t = None) /\ th'[p] = Rest
    BY <1>1, <1>2, <2>3
  <2> QED
    BY <1>2, <1>4, <2>26, <2>10, <2>11, <2>12, <2>13, <2>15, <2>25, <2>14, <2>17,
       <2>18, <2>24, ReturnStep
<1>B. CASE r.status # "connecting"
  <2>1. [r EXCEPT !.latest = v, !.disturbed = r.disturbed \/ Applying(t)].status = r.status
    BY <1>3 DEF IsTab, Fields
  <2>2. s = Supersede([r EXCEPT !.latest = v, !.disturbed = r.disturbed \/ Applying(t)])
    BY <1>1, <1>2, <1>B, <2>1, SetTab DEF SaveSettings, TabsInv, Typed
  <2>3. y = [Rest EXCEPT !.pc = "apply", !.t = t, !.val = v]
    BY <1>1, <1>2, <1>B, <2>1 DEF SaveSettings, TabsInv, Typed
  <2>4. s.size = r.size /\ s.pty = r.pty /\ s.settings = r.settings /\
        s.mode = r.mode /\ s.pending = None /\ s.gen = r.gen + 1 /\ s.latest = v /\
        s.disturbed = (r.disturbed \/ Applying(t))
    BY <1>3, <2>2, <2>1 DEF IsTab, Fields, Supersede
  <2>5. DOMAIN s = Fields /\ SameLife(s, r) /\ SameFd(s, r) /\ SameOut(s, r)
    BY <1>3, <2>2, <2>1 DEF IsTab, Fields, Supersede, SameLife, SameFd, SameOut
  <2>6. IsThread(y) /\ y.pc = "apply" /\ y.t = t /\ y.val = v /\ y.gen = None /\ y.ok = FALSE
    BY <1>1, <1>2, <1>3, <1>5, <2>3 DEF IsThread, Rest
  <2>7. Busy(t)' <=> Busy(t)
    BY <1>1, <1>2, <1>4, <1>5, <2>6 DEF Busy
  <2>8. LineTyped(s)
    BY <1>3, <2>4 DEF IsTab, LineTyped
  <2>9. Numbers(s)
    BY <1>3, <2>5, <2>4 DEF IsTab, Numbers, SameLife, SameFd, SameOut
  <2>10. IsTab(s)
    BY <1>3, <2>5, <2>9, <2>8, SameParts DEF IsTab
  <2>11. Works(p, y, s)
    BY <1>5, <2>5, <2>4, <1>B, <2>1, <2>6, <1>3, <1>6, ZenonT(60) DEF Works, SameLife,
       SameFd, Life, IsTab, LifeTyped
  <2>12. s.settings = r.settings /\ s.mode = r.mode
    BY <2>4
  <2>13. \A n \in Nat : n <= r.gen => n <= s.gen
    BY <2>4, <1>3 DEF IsTab, Numbers
  <2>14. \A q \in Threads : q # p /\ th[q].t = t => Works(q, th[q], s)
    BY <1>8, <2>5, <2>12, <2>13 DEF Works, SameLife, SameFd
  <2>15. OneOpens(t)'
    BY <1>6, <1>1, <1>2, <1>4, <1>5, <2>6 DEF OneOpens, Opens
  <2>16. Fd(s, Busy(t)')
    BY <1>3, <1>7, <1>B, <2>1, <1>5, <2>5, <2>7 DEF IsTab, Numbers, Fd, SameLife,
       SameFd
  <2>17. Life(s) /\ Counted(s)
    BY <1>6, <2>5, SameParts
  <2>18. Owns(t)'
    BY <1>1, <1>2, <1>6, <2>5, ZenonT(60) DEF SaveSettings, Owns, SameLife
  <2>19. th[p].pc \notin OfWindow /\ th'[p].pc \notin OfWindow
    BY <1>1, <1>2, <2>6 DEF OfWindow, Rest
  <2>20. Window(t)'
    BY <1>2, <1>4, <1>6, <2>19, <2>5, <2>4, OffWindow DEF SameLife
  <2>21. Line(t)'
    BY <1>6, <2>5, <2>4, <1>1, <1>2, <1>4, <1>5, <2>6 DEF Line, SameLife
  <2>22. Undisturbed(s) => Carried(t) /\ Coming(t)
    BY <1>2, <1>6, <2>5, <2>4 DEF Latest, Undisturbed, SameLife
  <2>23. Undisturbed(s) => \A q \in Threads : q # p => ~InPlace(q, t, Settling \cup {"apply"})
    BY <2>4 DEF Undisturbed, Applying
  <2>24. s.opened
    BY <1>B, <1>3, <1>5, <1>6, <2>5 DEF IsTab, LifeTyped, Life, SameLife
  <2>25. \A q \in Threads : AtStart(q, t, {"apply"}) => th[q].gen # s.gen
    BY <1>8, <2>4, <1>3 DEF Works, IsTab, Numbers
  <2>26. s.pending = None /\ s.latest = v
    BY <2>4
  <2>27. InPlace(p, t, {"apply"})'
    BY <1>2, <2>6
  <2>28. Undisturbed(s) => Carried(t)'
    BY <2>22, <1>2, <1>4, <2>23, <2>24, <2>25, <2>26, <2>27, <2>6 DEF Carried
  <2>29. Undisturbed(s) => Coming(t)'
    BY <2>22, <2>23, <2>24, <2>25, <2>26, <2>27, <2>5, <2>4, <1>1, <1>2, <1>4, <1>5,
       <2>6 DEF Coming, Brings, SameLife
  <2>30. Latest(t)'
    BY <1>2, <2>28, <2>29 DEF Latest
  <2>31. Others(t)
    BY <1>1, <1>4, <1>9 DEF SaveSettings, Others, TabsInv, Typed
  <2> QED
    BY <1>1, <1>2, <1>4, <2>6, <2>11, <2>10, <2>14, <2>15, <2>16, <2>18, <2>31,
       <2>17, <2>20, <2>21, <2>30, ThreadStep
<1> QED
  BY <1>A, <1>B

LEMMA ApplyStep ==
  ASSUME TabsInv, NEW p \in Threads, Apply(p)
  PROVE  TabsInv'
<1>1. PICK t \in Tabs : th[p].t = t /\ TabOK(t)
  BY Working DEF Apply
<1>2. PICK r, s, x, y : r = tab[t] /\ s = tab'[t] /\ x = th[p] /\ y = th'[p]
  OBVIOUS
<1>3. IsTab(r) /\ IsThread(x)
  BY <1>2 DEF TabsInv, Typed
<1>4. /\ \A u \in Tabs : u # t => tab'[u] = tab[u]
      /\ \A q \in Threads : q # p => th'[q] = th[q]
  BY <1>1 DEF Apply, TabsInv, Typed, Set
<1>9. tab' = [u \in Tabs |-> tab'[u]] /\ th' = [q \in Threads |-> th'[q]]
  BY <1>1 DEF Apply, TabsInv, Typed, Set
<1>5. Works(p, x, r) /\ x.pc = "apply" /\ r.applyMu = NoThread
  BY <1>1, <1>2 DEF TabOK, Apply
<1>6. Life(r) /\ Counted(r) /\ OneOpens(t) /\ Owns(t) /\ Window(t) /\ Line(t) /\ Latest(t)
  BY <1>1, <1>2 DEF TabOK
<1>7. Fd(r, Busy(t))
  BY <1>1, <1>2 DEF TabOK
<1>8. \A q \in Threads : th[q].t = t => Works(q, th[q], r)
  BY <1>1, <1>2 DEF TabOK
<1>A. CASE (x.gen # None /\ x.gen # r.gen) \/ r.settings = x.val
  <2>1. s = r
    BY <1>1, <1>2, <1>A DEF Apply
  <2>2. y = Rest
    BY <1>1, <1>2, <1>A DEF Apply, TabsInv, Typed
  <2>3. DOMAIN s = Fields /\ SameLife(s, r) /\ SameFd(s, r) /\ SameLine(s, r) /\ SameOut(s, r)
    BY <1>3, <2>1 DEF IsTab, Fields, SameLife, SameFd, SameLine, SameOut
  <2>4. IsThread(y) /\ y.pc = "rest" /\ y.t = None
    BY <1>1, <1>2, <1>3, <1>5, <2>2 DEF IsThread, Rest
  <2>5. Busy(t)' <=> Busy(t)
    BY <1>1, <1>2, <1>4, <1>5, <2>4 DEF Busy
  <2>6. IsTab(s)
    BY <1>3, <2>1
  <2>7. \A q \in Threads : q # p /\ th[q].t = t => Works(q, th[q], s)
    BY <1>8, <1>5, <2>3, <1>A DEF Works, SameLife, SameFd, SameLine
  <2>8. OneOpens(t)'
    BY <1>6, <1>1, <1>2, <1>4, <1>5, <2>4 DEF OneOpens, Opens
  <2>9. Fd(s, Busy(t)')
    BY <1>3, <1>7, <1>A, <1>5, <2>3, <2>5 DEF IsTab, Numbers, Fd, Works, SameLife,
       SameFd
  <2>10. Life(s) /\ Counted(s)
    BY <1>6, <2>3, SameParts
  <2>11. Owns(t)'
    BY <1>1, <1>2, <1>6, <2>3 DEF Apply, Owns, SameLife
  <2>12. th[p].pc \notin OfWindow /\ th'[p].pc \notin OfWindow
    BY <1>1, <1>2, <1>5, <2>4 DEF OfWindow
  <2>13. Window(t)'
    BY <1>2, <1>4, <1>6, <2>12, <2>3, OffWindow DEF SameLife, SameLine
  <2>14. Line(t)'
    BY <1>6, <2>3, <1>1, <1>2, <1>4, <1>5, <2>4 DEF Line, SameLife, SameLine
  <2>15. Undisturbed(s) => Carried(t) /\ Coming(t)
    BY <1>2, <1>6, <2>3 DEF Latest, Undisturbed, SameLife, SameLine
  <2>16. Undisturbed(s) => Carried(t)'
    BY <2>15, <2>3, <1>1, <1>2, <1>4, <1>5, <2>4, <1>8 DEF Carried, SameLife,
       SameLine, Works
  <2>17. Undisturbed(s) => Coming(t)'
    BY <2>15, <2>3, <1>1, <1>2, <1>4, <1>5, <2>4, <1>A DEF Coming, Brings, SameLife,
       SameLine, Carried
  <2>18. Latest(t)'
    BY <1>2, <2>16, <2>17 DEF Latest
  <2>19. Others(t)
    BY <1>1, <1>4, <1>9 DEF Apply, Others, TabsInv, Typed
  <2>20. (th[p].t = t \/ th[p].t = None) /\ th'[p] = Rest
    BY <1>1, <1>2, <2>2
  <2> QED
    BY <1>2, <1>4, <2>20, <2>6, <2>7, <2>8, <2>9, <2>11, <2>19, <2>10, <2>13, <2>14,
       <2>18, ReturnStep
<1>B. CASE ~((x.gen # None /\ x.gen # r.gen) \/ r.settings = x.val)
  <2>1. s = [r EXCEPT !.applyMu = p]
    BY <1>1, <1>2, <1>B, SetTab DEF Apply, TabsInv, Typed
  <2>2. y = [x EXCEPT !.pc = "applyWrite"]
    BY <1>1, <1>2, <1>B DEF Apply, TabsInv, Typed
  <2>3. s.users = r.users /\ s.drains = r.drains /\ s.writeMu = r.writeMu /\
        s.applyMu = p /\ s.resizeMu = r.resizeMu /\ s.pump = r.pump
    BY <1>3, <2>1 DEF IsTab, Fields
  <2>4. DOMAIN s = Fields /\ SameLife(s, r) /\ SameLine(s, r) /\ SameOut(s, r)
    BY <1>3, <2>1 DEF IsTab, Fields, SameLife, SameLine, SameOut
  <2>5. IsThread(y) /\ y.pc = "applyWrite" /\ y.t = t /\ y.val = x.val /\ y.gen = x.gen /\ y.ok = x.ok
    BY <1>1, <1>2, <1>3, <1>5, <2>2 DEF IsThread, Rest
  <2>6. Busy(t)' <=> Busy(t)
    BY <1>1, <1>2, <1>4, <1>5, <2>5 DEF Busy
  <2>7. FdTyped(s)
    BY <1>3, <2>3 DEF IsTab, FdTyped
  <2>8. Numbers(s)
    BY <1>3, <2>4, <2>3 DEF IsTab, Numbers, SameLife, SameLine, SameOut
  <2>9. IsTab(s)
    BY <1>3, <2>4, <2>8, <2>7, SameParts DEF IsTab
  <2>10. Works(p, y, s)
    BY <1>5, <2>4, <2>3, <1>B, <2>5 DEF Works, SameLife, SameLine
  <2>11. \A q \in Threads : q # p /\ th[q].t = t => Works(q, th[q], s)
    BY <1>8, <1>5, <2>4, <2>3, <1>B DEF Works, SameLife, SameLine
  <2>12. OneOpens(t)'
    BY <1>6, <1>1, <1>2, <1>4, <1>5, <2>5 DEF OneOpens, Opens
  <2>13. Fd(s, Busy(t)')
    BY <1>3, <1>7, <1>B, <1>5, <2>4, <2>3, <2>6 DEF IsTab, Numbers, Fd, Works,
       SameLife
  <2>14. Life(s) /\ Counted(s)
    BY <1>6, <2>4, SameParts
  <2>15. Owns(t)'
    BY <1>1, <1>2, <1>6, <2>4 DEF Apply, Owns, SameLife
  <2>16. th[p].pc \notin OfWindow /\ th'[p].pc \notin OfWindow
    BY <1>1, <1>2, <1>5, <2>5 DEF OfWindow
  <2>17. Window(t)'
    BY <1>2, <1>4, <1>6, <2>16, <2>4, OffWindow DEF SameLife, SameLine
  <2>18. Line(t)'
    BY <1>6, <2>4, <1>1, <1>2, <1>4, <1>5, <2>5 DEF Line, SameLife, SameLine
  <2>19. Undisturbed(s) => Carried(t) /\ Coming(t)
    BY <1>2, <1>6, <2>4 DEF Latest, Undisturbed, SameLife, SameLine
  <2>20. Undisturbed(s) => Carried(t)'
    BY <2>19, <2>4, <1>1, <1>2, <1>4, <1>5, <2>5, <1>B, <1>8 DEF Carried, SameLife,
       SameLine, Works
  <2>21. Undisturbed(s) => Coming(t)'
    BY <2>19, <2>4, <1>1, <1>2, <1>4, <1>5, <2>5, <1>B DEF Coming, Brings, SameLife,
       SameLine, Carried
  <2>22. Latest(t)'
    BY <1>2, <2>20, <2>21 DEF Latest
  <2>23. Others(t)
    BY <1>1, <1>4, <1>9 DEF Apply, Others, TabsInv, Typed
  <2> QED
    BY <1>1, <1>2, <1>4, <2>5, <2>10, <2>9, <2>11, <2>12, <2>13, <2>15, <2>23,
       <2>14, <2>17, <2>18, <2>22, ThreadStep
<1> QED
  BY <1>A, <1>B

LEMMA ApplyWriteStep ==
  ASSUME TabsInv, NEW p \in Threads, ApplyWrite(p)
  PROVE  TabsInv'
<1>1. PICK t \in Tabs : th[p].t = t /\ TabOK(t)
  BY Working DEF ApplyWrite
<1>2. PICK r, s, x, y : r = tab[t] /\ s = tab'[t] /\ x = th[p] /\ y = th'[p]
  OBVIOUS
<1>3. IsTab(r) /\ IsThread(x)
  BY <1>2 DEF TabsInv, Typed
<1>4. /\ \A u \in Tabs : u # t => tab'[u] = tab[u]
      /\ \A q \in Threads : q # p => th'[q] = th[q]
  BY <1>1 DEF ApplyWrite, TabsInv, Typed, Set
<1>9. tab' = [u \in Tabs |-> tab'[u]] /\ th' = [q \in Threads |-> th'[q]]
  BY <1>1 DEF ApplyWrite, TabsInv, Typed, Set
<1>5. Works(p, x, r) /\ x.pc = "applyWrite" /\ r.writeMu = NoThread
  BY <1>1, <1>2 DEF TabOK, ApplyWrite
<1>6. Life(r) /\ Counted(r) /\ OneOpens(t) /\ Owns(t) /\ Window(t) /\ Line(t) /\ Latest(t)
  BY <1>1, <1>2 DEF TabOK
<1>7. Fd(r, Busy(t))
  BY <1>1, <1>2 DEF TabOK
<1>8. \A q \in Threads : th[q].t = t => Works(q, th[q], r)
  BY <1>1, <1>2 DEF TabOK
<1>A. CASE r.closed
  <2>1. s = [r EXCEPT !.applyMu = NoThread]
    BY <1>1, <1>2, <1>A, SetTab DEF ApplyWrite, TabsInv, Typed
  <2>2. y = Rest
    BY <1>1, <1>2, <1>A DEF ApplyWrite, TabsInv, Typed
  <2>3. s.users = r.users /\ s.drains = r.drains /\ s.writeMu = r.writeMu /\
        s.applyMu = NoThread /\ s.resizeMu = r.resizeMu /\ s.pump = r.pump
    BY <1>3, <2>1 DEF IsTab, Fields, Acquired
  <2>4. DOMAIN s = Fields /\ SameLife(s, r) /\ SameLine(s, r) /\ SameOut(s, r)
    BY <1>3, <2>1 DEF IsTab, Fields, Acquired, SameLife, SameLine, SameOut
  <2>5. IsThread(y) /\ y.pc = "rest" /\ y.t = None
    BY <1>1, <1>2, <1>3, <1>5, <2>2 DEF IsThread, Rest
  <2>6. Busy(t)' <=> Busy(t)
    BY <1>1, <1>2, <1>4, <1>5, <2>5 DEF Busy
  <2>7. FdTyped(s)
    BY <1>3, <2>3 DEF IsTab, FdTyped
  <2>8. Numbers(s)
    BY <1>3, <2>4, <2>3 DEF IsTab, Numbers, SameLife, SameLine, SameOut
  <2>9. IsTab(s)
    BY <1>3, <2>4, <2>8, <2>7, SameParts DEF IsTab
  <2>10. \A q \in Threads : q # p /\ th[q].t = t => Works(q, th[q], s)
    BY <1>8, <1>5, <2>4, <2>3, <1>A DEF Works, SameLife, SameLine
  <2>11. OneOpens(t)'
    BY <1>6, <1>1, <1>2, <1>4, <1>5, <2>5 DEF OneOpens, Opens
  <2>12. Fd(s, Busy(t)')
    BY <1>3, <1>7, <1>A, <1>5, <2>4, <2>3, <2>6 DEF IsTab, Numbers, Fd, Works,
       SameLife
  <2>13. Life(s) /\ Counted(s)
    BY <1>6, <2>4, SameParts
  <2>14. Owns(t)'
    BY <1>1, <1>2, <1>6, <2>4 DEF ApplyWrite, Owns, SameLife
  <2>15. th[p].pc \notin OfWindow /\ th'[p].pc \notin OfWindow
    BY <1>1, <1>2, <1>5, <2>5 DEF OfWindow
  <2>16. Window(t)'
    BY <1>2, <1>4, <1>6, <2>15, <2>4, OffWindow DEF SameLife, SameLine
  <2>17. Line(t)'
    BY <1>6, <2>4, <1>1, <1>2, <1>4, <1>5, <2>5 DEF Line, SameLife, SameLine
  <2>18. Undisturbed(s) => Carried(t) /\ Coming(t)
    BY <1>2, <1>6, <2>4 DEF Latest, Undisturbed, SameLife, SameLine
  <2>19. ~Undisturbed(s)
    BY <1>5, <1>6, <1>A, <2>4 DEF Works, Life, Undisturbed, SameLife
  <2>20. Undisturbed(s) => Carried(t)'
    BY <2>19
  <2>21. Undisturbed(s) => Coming(t)'
    BY <2>19
  <2>22. Latest(t)'
    BY <1>2, <2>20, <2>21 DEF Latest
  <2>23. Others(t)
    BY <1>1, <1>4, <1>9 DEF ApplyWrite, Others, TabsInv, Typed
  <2>24. (th[p].t = t \/ th[p].t = None) /\ th'[p] = Rest
    BY <1>1, <1>2, <2>2
  <2> QED
    BY <1>2, <1>4, <2>24, <2>9, <2>10, <2>11, <2>12, <2>14, <2>23, <2>13, <2>16,
       <2>17, <2>22, ReturnStep
<1>B. CASE ~r.closed
  <2>1. s = [Draining(Acquired(r)) EXCEPT !.writeMu = p]
    BY <1>1, <1>2, <1>B, SetTab DEF ApplyWrite, TabsInv, Typed
  <2>2. y = [x EXCEPT !.pc = "applyMode"]
    BY <1>1, <1>2, <1>B DEF ApplyWrite, TabsInv, Typed
  <2>3. s.users = r.users + 1 + 1 /\ s.drains = r.drains + 1 /\ s.writeMu = p /\
        s.applyMu = r.applyMu /\ s.resizeMu = r.resizeMu /\ s.pump = r.pump
    BY <1>3, <2>1, <1>B DEF IsTab, Fields, Draining, Acquired
  <2>4. DOMAIN s = Fields /\ SameLife(s, r) /\ SameLine(s, r) /\ SameOut(s, r)
    BY <1>3, <2>1, <1>B DEF IsTab, Fields, Draining, Acquired, SameLife, SameLine,
       SameOut
  <2>5. IsThread(y) /\ y.pc = "applyMode" /\ y.t = t /\ y.val = x.val /\ y.gen = x.gen /\ y.ok = x.ok
    BY <1>1, <1>2, <1>3, <1>5, <2>2 DEF IsThread, Rest
  <2>6. Busy(t)' /\ ~Busy(t)
    BY <1>1, <1>2, <1>4, <1>5, <2>5, <1>8 DEF Busy, Works
  <2>7. FdTyped(s)
    BY <1>3, <2>3 DEF IsTab, FdTyped
  <2>8. Numbers(s)
    BY <1>3, <2>4, <2>3 DEF IsTab, Numbers, SameLife, SameLine, SameOut
  <2>9. IsTab(s)
    BY <1>3, <2>4, <2>8, <2>7, SameParts DEF IsTab
  <2>10. Works(p, y, s)
    BY <1>5, <2>4, <2>3, <1>B, <2>5 DEF Works, SameLife, SameLine
  <2>11. \A q \in Threads : q # p /\ th[q].t = t => Works(q, th[q], s)
    BY <1>8, <1>5, <2>4, <2>3, <1>B DEF Works, SameLife, SameLine
  <2>12. OneOpens(t)'
    BY <1>6, <1>1, <1>2, <1>4, <1>5, <2>5 DEF OneOpens, Opens
  <2>13. Fd(s, Busy(t)')
    BY <1>3, <1>7, <1>B, <1>5, <2>4, <2>3, <2>6 DEF IsTab, Numbers, Fd, Works,
       SameLife
  <2>14. Life(s) /\ Counted(s)
    BY <1>6, <2>4, SameParts
  <2>15. Owns(t)'
    BY <1>1, <1>2, <1>6, <2>4 DEF ApplyWrite, Owns, SameLife
  <2>16. th[p].pc \notin OfWindow /\ th'[p].pc \notin OfWindow
    BY <1>1, <1>2, <1>5, <2>5 DEF OfWindow
  <2>17. Window(t)'
    BY <1>2, <1>4, <1>6, <2>16, <2>4, OffWindow DEF SameLife, SameLine
  <2>18. Line(t)'
    BY <1>6, <2>4, <1>1, <1>2, <1>4, <1>5, <2>5 DEF Line, SameLife, SameLine
  <2>19. Undisturbed(s) => Carried(t) /\ Coming(t)
    BY <1>2, <1>6, <2>4 DEF Latest, Undisturbed, SameLife, SameLine
  <2>20. \A q \in Threads : On(q, t, Settling)' <=> On(q, t, Settling)
    BY <1>1, <1>2, <1>4, <1>5, <2>5
  <2>21. \A q \in Threads : On(q, t, {"apply"})' <=> On(q, t, {"apply"})
    BY <1>1, <1>2, <1>4, <1>5, <2>5
  <2>22. \A q \in Threads : On(q, t, {"applied"})' <=> On(q, t, {"applied"})
    BY <1>1, <1>2, <1>4, <1>5, <2>5
  <2>23. \A q \in Threads : th'[q].gen = th[q].gen /\ th'[q].val = th[q].val /\ th'[q].ok = th[q].ok
    BY <1>1, <1>2, <1>4, <1>5, <2>5
  <2>24. \A q \in Threads : Brings(th[q], t, r) => Brings(th'[q], t, s)
    BY <1>1, <1>2, <1>4, <1>5, <2>5, <2>4 DEF Brings, SameLine
  <2>25. Undisturbed(s) => Carried(t)'
    BY <2>19, <1>2, <2>4, <2>20, <2>21, <2>22, <2>23 DEF Carried, SameLife, SameLine
  <2>26. Undisturbed(s) => Coming(t)'
    BY <2>19, <1>2, <2>4, <2>24 DEF Coming, SameLife, SameLine
  <2>27. Latest(t)'
    BY <1>2, <2>25, <2>26 DEF Latest
  <2>28. Others(t)
    BY <1>1, <1>4, <1>9 DEF ApplyWrite, Others, TabsInv, Typed
  <2> QED
    BY <1>1, <1>2, <1>4, <2>5, <2>10, <2>9, <2>11, <2>12, <2>13, <2>15, <2>28,
       <2>14, <2>17, <2>18, <2>27, ThreadStep
<1> QED
  BY <1>A, <1>B

LEMMA ApplyModeStep ==
  ASSUME TabsInv, NEW p \in Threads, NEW ok \in BOOLEAN, ApplyMode(p, ok)
  PROVE  TabsInv'
<1>1. PICK t \in Tabs : th[p].t = t /\ TabOK(t)
  BY Working DEF ApplyMode
<1>2. PICK r, s, x, y : r = tab[t] /\ s = tab'[t] /\ x = th[p] /\ y = th'[p]
  OBVIOUS
<1>3. IsTab(r) /\ IsThread(x)
  BY <1>2 DEF TabsInv, Typed
<1>4. /\ \A u \in Tabs : u # t => tab'[u] = tab[u]
      /\ \A q \in Threads : q # p => th'[q] = th[q]
  BY <1>1 DEF ApplyMode, TabsInv, Typed, Set
<1>9. tab' = [u \in Tabs |-> tab'[u]] /\ th' = [q \in Threads |-> th'[q]]
  BY <1>1 DEF ApplyMode, TabsInv, Typed, Set
<1>5. Works(p, x, r) /\ x.pc = "applyMode"
  BY <1>1, <1>2 DEF TabOK, ApplyMode
<1>6. Life(r) /\ Counted(r) /\ OneOpens(t) /\ Owns(t) /\ Window(t) /\ Line(t) /\ Latest(t)
  BY <1>1, <1>2 DEF TabOK
<1>7. Fd(r, Busy(t))
  BY <1>1, <1>2 DEF TabOK
<1>8. \A q \in Threads : th[q].t = t => Works(q, th[q], r)
  BY <1>1, <1>2 DEF TabOK
<1>A. CASE ok
  <2>1. Released(r).disturbed = r.disturbed
    BY <1>3 DEF Released, IsTab, Fields
  <2>2. s = [Released(r) EXCEPT !.mode = x.val, !.disturbed = r.disturbed \/ ~ok, !.writeMu = NoThread]
    BY <1>1, <1>2, <1>A, <2>1, SetTab DEF ApplyMode, TabsInv, Typed
  <2>3. y = [x EXCEPT !.pc = "applied", !.ok = ok]
    BY <1>1, <1>2, <1>A, <2>1 DEF ApplyMode, TabsInv, Typed
  <2>4. s.kind = r.kind /\ s.dev = r.dev /\ s.inMap = r.inMap /\ s.status = r.status
        /\ s.reason = r.reason /\ s.canceled = r.canceled /\ s.opened = r.opened /\
        (s.link = IF r.closed /\ r.users = 1 THEN "closed" ELSE r.link) /\
        s.closed = r.closed /\ s.fin = r.fin /\ s.done = r.done /\ s.exits = r.exits
        /\ s.outClosed = r.outClosed
    BY <1>3, <2>2, <2>1 DEF IsTab, Fields, Released
  <2>5. s.users = r.users - 1 /\ s.drains = r.drains /\ s.writeMu = NoThread /\
        s.applyMu = r.applyMu /\ s.resizeMu = r.resizeMu /\ s.pump = r.pump
    BY <1>3, <2>2, <2>1 DEF IsTab, Fields, Released
  <2>6. s.size = r.size /\ s.pty = r.pty /\ s.settings = r.settings /\
        s.mode = x.val /\ s.pending = r.pending /\ s.gen = r.gen /\
        s.latest = r.latest /\ s.disturbed = (r.disturbed \/ ~ok)
    BY <1>3, <2>2, <2>1 DEF IsTab, Fields, Released, LineTyped
  <2>7. DOMAIN s = Fields /\ SameOut(s, r)
    BY <1>3, <2>2, <2>1 DEF IsTab, Fields, Released, SameOut
  <2>8. IsThread(y) /\ y.pc = "applied" /\ y.t = t /\ y.val = x.val /\ y.gen = x.gen /\ y.ok = ok
    BY <1>1, <1>2, <1>3, <1>5, <2>3 DEF IsThread, Rest
  <2>9. ~Busy(t)' /\ Busy(t)
    BY <1>1, <1>2, <1>4, <1>5, <2>8, <1>8 DEF Busy, Works
  <2>10. r.users = r.drains + 1 /\ r.drains \in Nat /\ r.kind = "serial" /\ r.opened /\ r.link = "open"
    BY <1>3, <1>7, <2>9 DEF IsTab, Numbers, Fd
  <2>11. LifeTyped(s)
    BY <1>3, <2>4 DEF IsTab, LifeTyped
  <2>12. FdTyped(s)
    BY <1>3, <2>5 DEF IsTab, FdTyped
  <2>13. LineTyped(s)
    BY <1>3, <2>6 DEF IsTab, LineTyped, IsThread
  <2>14. Numbers(s)
    BY <1>3, <2>4, <2>5, <2>6, <2>7, <2>10 DEF IsTab, Numbers, SameOut
  <2>15. IsTab(s)
    BY <1>3, <2>7, <2>14, <2>11, <2>12, <2>13, SameParts DEF IsTab
  <2>16. Works(p, y, s)
    BY <1>5, <2>4, <2>5, <2>6, <1>A, <2>1, <2>8 DEF Works
  <2>17. \A q \in Threads : q # p /\ th[q].t = t => Works(q, th[q], s)
    BY <1>8, <1>5, <2>4, <2>5, <2>6, <1>A, <2>1 DEF Works
  <2>18. OneOpens(t)'
    BY <1>6, <1>1, <1>2, <1>4, <1>5, <2>8 DEF OneOpens, Opens
  <2>19. Fd(s, Busy(t)')
    BY <1>7, <2>4, <2>5, <2>9, <2>10 DEF Fd
  <2>20. Life(s)
    BY <1>3, <1>6, <2>11, <1>A, <2>1, <1>5, <2>4 DEF IsTab, Life, LifeTyped, Works
  <2>21. s.fin = r.fin
    BY <2>4
  <2>22. Counted(s)
    BY <1>3, <1>6, <1>A, <2>1, <1>5, <2>21, <2>7 DEF IsTab, Numbers, Counted,
       SameOut
  <2>23. Owns(t)'
    BY <1>1, <1>2, <1>6, <2>4 DEF ApplyMode, Owns
  <2>24. th[p].pc \notin OfWindow /\ th'[p].pc \notin OfWindow
    BY <1>1, <1>2, <1>5, <2>8 DEF OfWindow
  <2>25. Window(t)'
    BY <1>2, <1>4, <1>6, <2>24, <2>4, <2>6, OffWindow
  <2>26. \A q \in Threads : q # p => ~On(q, t, {"applied"})'
    BY <1>4, <1>5, <1>8 DEF Works
  <2>27. On(p, t, {"applied"})' /\ s.mode = IF y.ok THEN y.val ELSE s.settings
    BY <1>2, <1>A, <2>6, <2>8
  <2>28. Line(t)'
    BY <2>26, <2>27, <1>2 DEF Line
  <2>29. Undisturbed(s) => Carried(t) /\ Coming(t)
    BY <1>2, <1>6, <2>4, <2>6 DEF Latest, Undisturbed
  <2>30. \A q \in Threads : Brings(th[q], t, r) => Brings(th'[q], t, s)
    BY <1>1, <1>2, <1>4, <1>5, <2>8, <2>6 DEF Brings
  <2>31. \A q \in Threads : On(q, t, Settling)' <=> On(q, t, Settling)
    BY <1>1, <1>2, <1>4, <1>5, <2>8
  <2>32. \A q \in Threads : On(q, t, {"apply"})' <=> On(q, t, {"apply"})
    BY <1>1, <1>2, <1>4, <1>5, <2>8
  <2>33. \A q \in Threads : On(q, t, {"applied"})' => th'[q].ok
    BY <1>A, <1>2, <2>26, <2>8
  <2>34. \A q \in Threads : th'[q].gen = th[q].gen /\ th'[q].val = th[q].val
    BY <1>1, <1>2, <1>4, <1>5, <2>8
  <2>35. s.pending = r.pending /\ s.latest = r.latest /\ s.gen = r.gen /\ s.settings = r.settings /\ s.opened = r.opened
    BY <2>4, <2>6
  <2>36. Undisturbed(s) => Carried(t)'
    BY <2>29, <1>2, <2>31, <2>32, <2>33, <2>34, <2>35 DEF Carried
  <2>37. Undisturbed(s) => Coming(t)'
    BY <2>29, <2>30, <2>31, <2>32, <2>33, <2>34, <2>35, <2>4, <2>6, <1>1, <1>2,
       <1>4, <1>5, <2>8 DEF Coming, Brings
  <2>38. Latest(t)'
    BY <1>2, <2>36, <2>37 DEF Latest
  <2>39. Others(t)
    BY <1>1, <1>4, <1>9 DEF ApplyMode, Others, TabsInv, Typed
  <2> QED
    BY <1>1, <1>2, <1>4, <2>8, <2>16, <2>15, <2>17, <2>18, <2>19, <2>23, <2>39,
       <2>20, <2>22, <2>25, <2>28, <2>38, ThreadStep
<1>B. CASE ~ok
  <2>1. Released(r).disturbed = r.disturbed
    BY <1>3 DEF Released, IsTab, Fields
  <2>2. s = [Released(r) EXCEPT !.mode = r.settings, !.disturbed = r.disturbed \/ ~ok, !.writeMu = NoThread]
    BY <1>1, <1>2, <1>B, <2>1, SetTab DEF ApplyMode, TabsInv, Typed
  <2>3. y = [x EXCEPT !.pc = "applied", !.ok = ok]
    BY <1>1, <1>2, <1>B, <2>1 DEF ApplyMode, TabsInv, Typed
  <2>4. s.kind = r.kind /\ s.dev = r.dev /\ s.inMap = r.inMap /\ s.status = r.status
        /\ s.reason = r.reason /\ s.canceled = r.canceled /\ s.opened = r.opened /\
        (s.link = IF r.closed /\ r.users = 1 THEN "closed" ELSE r.link) /\
        s.closed = r.closed /\ s.fin = r.fin /\ s.done = r.done /\ s.exits = r.exits
        /\ s.outClosed = r.outClosed
    BY <1>3, <2>2, <2>1 DEF IsTab, Fields, Released
  <2>5. s.users = r.users - 1 /\ s.drains = r.drains /\ s.writeMu = NoThread /\
        s.applyMu = r.applyMu /\ s.resizeMu = r.resizeMu /\ s.pump = r.pump
    BY <1>3, <2>2, <2>1 DEF IsTab, Fields, Released
  <2>6. s.size = r.size /\ s.pty = r.pty /\ s.settings = r.settings /\
        s.mode = r.settings /\ s.pending = r.pending /\ s.gen = r.gen /\
        s.latest = r.latest /\ s.disturbed = (r.disturbed \/ ~ok)
    BY <1>3, <2>2, <2>1 DEF IsTab, Fields, Released, LineTyped
  <2>7. DOMAIN s = Fields /\ SameOut(s, r)
    BY <1>3, <2>2, <2>1 DEF IsTab, Fields, Released, SameOut
  <2>8. IsThread(y) /\ y.pc = "applied" /\ y.t = t /\ y.val = x.val /\ y.gen = x.gen /\ y.ok = ok
    BY <1>1, <1>2, <1>3, <1>5, <2>3 DEF IsThread, Rest
  <2>9. ~Busy(t)' /\ Busy(t)
    BY <1>1, <1>2, <1>4, <1>5, <2>8, <1>8 DEF Busy, Works
  <2>10. r.users = r.drains + 1 /\ r.drains \in Nat /\ r.kind = "serial" /\ r.opened /\ r.link = "open"
    BY <1>3, <1>7, <2>9 DEF IsTab, Numbers, Fd
  <2>11. LifeTyped(s)
    BY <1>3, <2>4 DEF IsTab, LifeTyped
  <2>12. FdTyped(s)
    BY <1>3, <2>5 DEF IsTab, FdTyped
  <2>13. LineTyped(s)
    BY <1>3, <2>6 DEF IsTab, LineTyped, IsThread
  <2>14. Numbers(s)
    BY <1>3, <2>4, <2>5, <2>6, <2>7, <2>10 DEF IsTab, Numbers, SameOut
  <2>15. IsTab(s)
    BY <1>3, <2>7, <2>14, <2>11, <2>12, <2>13, SameParts DEF IsTab
  <2>16. Works(p, y, s)
    BY <1>5, <2>4, <2>5, <2>6, <1>B, <2>1, <2>8 DEF Works
  <2>17. \A q \in Threads : q # p /\ th[q].t = t => Works(q, th[q], s)
    BY <1>8, <1>5, <2>4, <2>5, <2>6, <1>B, <2>1 DEF Works
  <2>18. OneOpens(t)'
    BY <1>6, <1>1, <1>2, <1>4, <1>5, <2>8 DEF OneOpens, Opens
  <2>19. Fd(s, Busy(t)')
    BY <1>7, <2>4, <2>5, <2>9, <2>10 DEF Fd
  <2>20. Life(s)
    BY <1>3, <1>6, <2>11, <1>B, <2>1, <1>5, <2>4 DEF IsTab, Life, LifeTyped, Works
  <2>21. s.fin = r.fin
    BY <2>4
  <2>22. Counted(s)
    BY <1>3, <1>6, <1>B, <2>1, <1>5, <2>21, <2>7 DEF IsTab, Numbers, Counted,
       SameOut
  <2>23. Owns(t)'
    BY <1>1, <1>2, <1>6, <2>4 DEF ApplyMode, Owns
  <2>24. th[p].pc \notin OfWindow /\ th'[p].pc \notin OfWindow
    BY <1>1, <1>2, <1>5, <2>8 DEF OfWindow
  <2>25. Window(t)'
    BY <1>2, <1>4, <1>6, <2>24, <2>4, <2>6, OffWindow
  <2>26. \A q \in Threads : q # p => ~On(q, t, {"applied"})'
    BY <1>4, <1>5, <1>8 DEF Works
  <2>27. On(p, t, {"applied"})' /\ s.mode = IF y.ok THEN y.val ELSE s.settings
    BY <1>2, <1>B, <2>6, <2>8
  <2>28. Line(t)'
    BY <2>26, <2>27, <1>2 DEF Line
  <2>29. Undisturbed(s) => Carried(t) /\ Coming(t)
    BY <1>2, <1>6, <2>4, <2>6 DEF Latest, Undisturbed
  <2>30. ~Undisturbed(s)
    BY <1>B, <2>6 DEF Undisturbed
  <2>31. Undisturbed(s) => Carried(t)'
    BY <2>30
  <2>32. Undisturbed(s) => Coming(t)'
    BY <2>30
  <2>33. Latest(t)'
    BY <1>2, <2>31, <2>32 DEF Latest
  <2>34. Others(t)
    BY <1>1, <1>4, <1>9 DEF ApplyMode, Others, TabsInv, Typed
  <2> QED
    BY <1>1, <1>2, <1>4, <2>8, <2>16, <2>15, <2>17, <2>18, <2>19, <2>23, <2>34,
       <2>20, <2>22, <2>25, <2>28, <2>33, ThreadStep
<1> QED
  BY <1>A, <1>B

LEMMA AppliedStep ==
  ASSUME TabsInv, NEW p \in Threads, Applied(p)
  PROVE  TabsInv'
<1>1. PICK t \in Tabs : th[p].t = t /\ TabOK(t)
  BY Working DEF Applied
<1>2. PICK r, s, x, y : r = tab[t] /\ s = tab'[t] /\ x = th[p] /\ y = th'[p]
  OBVIOUS
<1>3. IsTab(r) /\ IsThread(x)
  BY <1>2 DEF TabsInv, Typed
<1>4. /\ \A u \in Tabs : u # t => tab'[u] = tab[u]
      /\ \A q \in Threads : q # p => th'[q] = th[q]
  BY <1>1 DEF Applied, TabsInv, Typed, Set
<1>9. tab' = [u \in Tabs |-> tab'[u]] /\ th' = [q \in Threads |-> th'[q]]
  BY <1>1 DEF Applied, TabsInv, Typed, Set
<1>5. Works(p, x, r) /\ x.pc = "applied"
  BY <1>1, <1>2 DEF TabOK, Applied
<1>6. Life(r) /\ Counted(r) /\ OneOpens(t) /\ Owns(t) /\ Window(t) /\ Line(t) /\ Latest(t)
  BY <1>1, <1>2 DEF TabOK
<1>7. Fd(r, Busy(t))
  BY <1>1, <1>2 DEF TabOK
<1>8. \A q \in Threads : th[q].t = t => Works(q, th[q], r)
  BY <1>1, <1>2 DEF TabOK
<1>10. s = [r EXCEPT !.applyMu = NoThread, !.settings = IF x.ok THEN x.val ELSE r.settings]
  BY <1>1, <1>2, SetTab DEF Applied, TabsInv, Typed
<1>11. y = Rest
  BY <1>1, <1>2 DEF Applied, TabsInv, Typed
<1>12. s.users = r.users /\ s.drains = r.drains /\ s.writeMu = r.writeMu /\
      s.applyMu = NoThread /\ s.resizeMu = r.resizeMu /\ s.pump = r.pump
  BY <1>3, <1>10 DEF IsTab, Fields
<1>13. s.size = r.size /\ s.pty = r.pty /\
      (s.settings = IF x.ok THEN x.val ELSE r.settings) /\ s.mode = r.mode /\
      s.pending = r.pending /\ s.gen = r.gen /\ s.latest = r.latest /\
      s.disturbed = r.disturbed
  BY <1>3, <1>10 DEF IsTab, Fields
<1>14. DOMAIN s = Fields /\ SameLife(s, r) /\ SameOut(s, r)
  BY <1>3, <1>10 DEF IsTab, Fields, SameLife, SameOut
<1>15. IsThread(y) /\ y.pc = "rest" /\ y.t = None
  BY <1>1, <1>2, <1>3, <1>5, <1>11 DEF IsThread, Rest
<1>16. Busy(t)' <=> Busy(t)
  BY <1>1, <1>2, <1>4, <1>5, <1>15 DEF Busy
<1>17. FdTyped(s)
  BY <1>3, <1>12 DEF IsTab, FdTyped
<1>18. LineTyped(s)
  BY <1>3, <1>13, <1>5 DEF IsTab, LineTyped, IsThread, Works
<1>19. Numbers(s)
  BY <1>3, <1>14, <1>12, <1>13 DEF IsTab, Numbers, SameLife, SameOut
<1>20. IsTab(s)
  BY <1>3, <1>14, <1>19, <1>17, <1>18, SameParts DEF IsTab
<1>21. \A q \in Threads : q # p /\ th[q].t = t => Works(q, th[q], s)
  BY <1>8, <1>5, <1>14, <1>12, <1>13 DEF Works, SameLife
<1>22. OneOpens(t)'
  BY <1>6, <1>1, <1>2, <1>4, <1>5, <1>15 DEF OneOpens, Opens
<1>23. Fd(s, Busy(t)')
  BY <1>3, <1>7, <1>5, <1>14, <1>12, <1>16 DEF IsTab, Numbers, Fd, Works, SameLife
<1>24. Life(s) /\ Counted(s)
  BY <1>6, <1>14, SameParts
<1>25. Owns(t)'
  BY <1>1, <1>2, <1>6, <1>14 DEF Applied, Owns, SameLife
<1>26. th[p].pc \notin OfWindow /\ th'[p].pc \notin OfWindow
  BY <1>1, <1>2, <1>5, <1>15 DEF OfWindow
<1>27. Window(t)'
  BY <1>2, <1>4, <1>6, <1>26, <1>14, <1>13, OffWindow DEF SameLife
<1>28. Line(t)'
  BY <1>6, <1>14, <1>13, <1>1, <1>2, <1>4, <1>5, <1>15, <1>8 DEF Line, SameLife,
     Works
<1>29. Undisturbed(s) => Carried(t) /\ Coming(t)
  BY <1>2, <1>6, <1>14, <1>13 DEF Latest, Undisturbed, SameLife
<1>30. Undisturbed(s) => Carried(t)'
  BY <1>29, <1>14, <1>13, <1>1, <1>2, <1>4, <1>5, <1>15, <1>8 DEF Carried, SameLife,
     Works
<1>31. Undisturbed(s) => Coming(t)'
  BY <1>29, <1>14, <1>13, <1>1, <1>2, <1>4, <1>5, <1>15 DEF Coming, Brings,
     SameLife, Carried
<1>32. Latest(t)'
  BY <1>2, <1>30, <1>31 DEF Latest
<1>33. Others(t)
  BY <1>1, <1>4, <1>9 DEF Applied, Others, TabsInv, Typed
<1>34. (th[p].t = t \/ th[p].t = None) /\ th'[p] = Rest
  BY <1>1, <1>2, <1>11
<1> QED
  BY <1>2, <1>4, <1>34, <1>20, <1>21, <1>22, <1>23, <1>25, <1>33, <1>24, <1>27,
     <1>28, <1>32, ReturnStep

(* The end of a tab.                                                       *)
LEMMA CloseStep ==
  ASSUME TabsInv, NEW t \in Tabs, NEW p \in Threads, Close(p, t)
  PROVE  TabsInv'
<1>1. TabOK(t)
  BY DEF TabsInv
<1>2. PICK r, s : r = tab[t] /\ s = tab'[t]
  OBVIOUS
<1>3. IsTab(r)
  BY <1>2 DEF TabsInv, Typed
<1>4. /\ \A u \in Tabs : u # t => tab'[u] = tab[u]
      /\ th' = th
  BY <1>1 DEF Close, TabsInv, Typed, Set
<1>9. tab' = [u \in Tabs |-> tab'[u]] /\ th' = [q \in Threads |-> th'[q]]
  BY <1>1 DEF Close, TabsInv, Typed, Set
<1>5. r.inMap
  BY <1>1, <1>2 DEF Close, Call
<1>6. Life(r) /\ Counted(r) /\ OneOpens(t) /\ Owns(t) /\ Window(t) /\ Line(t) /\ Latest(t)
  BY <1>1, <1>2 DEF TabOK
<1>7. Fd(r, Busy(t))
  BY <1>1, <1>2 DEF TabOK
<1>8. \A q \in Threads : th[q].t = t => Works(q, th[q], r)
  BY <1>1, <1>2 DEF TabOK
<1>A. CASE r.status = "connecting"
  <2>1. s = [r EXCEPT !.reason = IF r.reason = "" THEN "user" ELSE r.reason, !.canceled = TRUE]
    BY <1>1, <1>2, <1>A, SetTab DEF Close, TabsInv, Typed
  <2>2. s.kind = r.kind /\ s.dev = r.dev /\ s.inMap = r.inMap /\ s.status = r.status
        /\ (s.reason = IF r.reason = "" THEN "user" ELSE r.reason) /\
        s.canceled = TRUE /\ s.opened = r.opened /\ s.link = r.link /\
        s.closed = r.closed /\ s.fin = r.fin /\ s.done = r.done /\ s.exits = r.exits
        /\ s.outClosed = r.outClosed
    BY <1>3, <2>1 DEF IsTab, Fields
  <2>3. DOMAIN s = Fields /\ SameFd(s, r) /\ SameLine(s, r) /\ SameOut(s, r)
    BY <1>3, <2>1 DEF IsTab, Fields, SameFd, SameLine, SameOut
  <2>4. LifeTyped(s)
    BY <1>3, <2>2 DEF IsTab, LifeTyped
  <2>5. Numbers(s)
    BY <1>3, <2>2, <2>3 DEF IsTab, Numbers, SameFd, SameLine, SameOut
  <2>6. IsTab(s)
    BY <1>3, <2>3, <2>5, <2>4, SameParts DEF IsTab
  <2>7. s.kind = r.kind /\ s.opened = r.opened /\ s.fin = r.fin /\ s.closed = r.closed /\ s.link = r.link
    BY <2>2
  <2>8. \A q \in Threads : th[q].t = t => Works(q, th[q], s)
    BY <1>8, <2>3, <2>7 DEF Works, SameFd, SameLine
  <2>9. Fd(s, Busy(t))
    BY <1>3, <1>7, <1>A, <1>5, <2>2, <2>3 DEF IsTab, Numbers, Fd, SameFd
  <2>10. Life(s)
    BY <1>3, <1>6, <2>4, <1>A, <1>5, <2>2 DEF IsTab, Life, LifeTyped
  <2>11. s.fin = r.fin
    BY <2>2
  <2>12. Counted(s)
    BY <1>3, <1>6, <1>A, <1>5, <2>11, <2>3 DEF IsTab, Numbers, Counted, SameOut
  <2>13. Owns(t)'
    BY <1>1, <1>2, <1>6, <2>2 DEF Close, Owns
  <2>14. s.kind = r.kind /\ s.opened = r.opened /\ (s.reason = r.reason \/ s.reason # "") /\ (s.link = r.link \/ s.link # "open")
    BY <2>2
  <2>15. Others(t)
    BY <1>1, <1>4, <1>9 DEF Close, Others, TabsInv, Typed
  <2> QED
    BY <1>2, <1>4, <2>3, <2>6, <2>8, <2>9, <2>13, <2>15, <2>10, <2>12, <2>14,
       TabStep
<1>B. CASE r.status # "connecting"
  <2>1. s = [r EXCEPT !.reason = IF r.reason = "" THEN "user" ELSE r.reason, !.fin = IF r.fin = "no" THEN "close" ELSE r.fin]
    BY <1>1, <1>2, <1>B, SetTab DEF Close, TabsInv, Typed
  <2>2. s.kind = r.kind /\ s.dev = r.dev /\ s.inMap = r.inMap /\ s.status = r.status
        /\ (s.reason = IF r.reason = "" THEN "user" ELSE r.reason) /\
        s.canceled = r.canceled /\ s.opened = r.opened /\ s.link = r.link /\
        s.closed = r.closed /\ (s.fin = IF r.fin = "no" THEN "close" ELSE r.fin) /\
        s.done = r.done /\ s.exits = r.exits /\ s.outClosed = r.outClosed
    BY <1>3, <2>1 DEF IsTab, Fields
  <2>3. DOMAIN s = Fields /\ SameFd(s, r) /\ SameLine(s, r) /\ SameOut(s, r)
    BY <1>3, <2>1 DEF IsTab, Fields, SameFd, SameLine, SameOut
  <2>4. LifeTyped(s)
    BY <1>3, <2>2 DEF IsTab, LifeTyped
  <2>5. Numbers(s)
    BY <1>3, <2>2, <2>3 DEF IsTab, Numbers, SameFd, SameLine, SameOut
  <2>6. IsTab(s)
    BY <1>3, <2>3, <2>5, <2>4, SameParts DEF IsTab
  <2>7. \A q \in Threads : th[q].t = t => Works(q, th[q], s)
    BY <1>8, <1>5, <2>2, <2>3, <1>B, <1>3, <1>6, ZenonT(60) DEF Works, SameFd, SameLine,
       Life, IsTab, LifeTyped
  <2>8. Fd(s, Busy(t))
    BY <1>3, <1>7, <1>B, <1>5, <2>2, <2>3 DEF IsTab, Numbers, Fd, SameFd
  <2>9. Life(s)
    BY <1>3, <1>6, <2>4, <1>B, <1>5, <2>2 DEF IsTab, Life, LifeTyped
  <2>10. (s.fin = IF r.fin = "no" THEN "close" ELSE r.fin)
    BY <2>2
  <2>11. Counted(s)
    BY <1>3, <1>6, <1>B, <1>5, <2>10, <2>3 DEF IsTab, Numbers, Counted, SameOut
  <2>12. Owns(t)'
    BY <1>1, <1>2, <1>6, <2>2 DEF Close, Owns
  <2>13. s.kind = r.kind /\ s.opened = r.opened /\ (s.reason = r.reason \/ s.reason # "") /\ (s.link = r.link \/ s.link # "open")
    BY <2>2
  <2>14. Others(t)
    BY <1>1, <1>4, <1>9 DEF Close, Others, TabsInv, Typed
  <2> QED
    BY <1>2, <1>4, <2>3, <2>6, <2>7, <2>8, <2>12, <2>14, <2>9, <2>11, <2>13, TabStep
<1> QED
  BY <1>A, <1>B

LEMMA RemoteEndsStep ==
  ASSUME TabsInv, NEW t \in Tabs, RemoteEnds(t)
  PROVE  TabsInv'
<1>1. TabOK(t)
  BY DEF TabsInv
<1>2. PICK r, s : r = tab[t] /\ s = tab'[t]
  OBVIOUS
<1>3. IsTab(r)
  BY <1>2 DEF TabsInv, Typed
<1>4. /\ \A u \in Tabs : u # t => tab'[u] = tab[u]
      /\ th' = th
  BY <1>1 DEF RemoteEnds, TabsInv, Typed, Set
<1>9. tab' = [u \in Tabs |-> tab'[u]] /\ th' = [q \in Threads |-> th'[q]]
  BY <1>1 DEF RemoteEnds, TabsInv, Typed, Set
<1>5. r.opened /\ r.fin = "no" /\ r.reason = ""
  BY <1>1, <1>2 DEF RemoteEnds
<1>6. Life(r) /\ Counted(r) /\ OneOpens(t) /\ Owns(t) /\ Window(t) /\ Line(t) /\ Latest(t)
  BY <1>1, <1>2 DEF TabOK
<1>7. Fd(r, Busy(t))
  BY <1>1, <1>2 DEF TabOK
<1>8. \A q \in Threads : th[q].t = t => Works(q, th[q], r)
  BY <1>1, <1>2 DEF TabOK
<1>10. s = [r EXCEPT !.reason = "lost", !.fin = "close"]
  BY <1>1, <1>2, SetTab DEF RemoteEnds, TabsInv, Typed
<1>11. s.kind = r.kind /\ s.dev = r.dev /\ s.inMap = r.inMap /\ s.status = r.status
      /\ s.reason = "lost" /\ s.canceled = r.canceled /\ s.opened = r.opened /\
      s.link = r.link /\ s.closed = r.closed /\ s.fin = "close" /\ s.done = r.done
      /\ s.exits = r.exits /\ s.outClosed = r.outClosed
  BY <1>3, <1>10 DEF IsTab, Fields
<1>12. DOMAIN s = Fields /\ SameFd(s, r) /\ SameLine(s, r) /\ SameOut(s, r)
  BY <1>3, <1>10 DEF IsTab, Fields, SameFd, SameLine, SameOut
<1>13. LifeTyped(s)
  BY <1>3, <1>11 DEF IsTab, LifeTyped
<1>14. Numbers(s)
  BY <1>3, <1>11, <1>12 DEF IsTab, Numbers, SameFd, SameLine, SameOut
<1>15. IsTab(s)
  BY <1>3, <1>12, <1>14, <1>13, SameParts DEF IsTab
<1>16. \A q \in Threads : th[q].t = t => Works(q, th[q], s)
  BY <1>8, <1>5, <1>11, <1>12, ZenonT(60) DEF Works, SameFd, SameLine
<1>17. Fd(s, Busy(t))
  BY <1>3, <1>7, <1>5, <1>11, <1>12 DEF IsTab, Numbers, Fd, SameFd
<1>18. Life(s)
  BY <1>3, <1>6, <1>13, <1>5, <1>11 DEF IsTab, Life, LifeTyped
<1>19. s.fin = "close"
  BY <1>11
<1>20. Counted(s)
  BY <1>3, <1>6, <1>5, <1>19, <1>12 DEF IsTab, Numbers, Counted, SameOut
<1>21. Owns(t)'
  BY <1>1, <1>2, <1>6, <1>11, ZenonT(60) DEF RemoteEnds, Owns
<1>22. s.kind = r.kind /\ s.opened = r.opened /\ (s.reason = r.reason \/ s.reason # "") /\ (s.link = r.link \/ s.link # "open")
  BY <1>11
<1>23. Others(t)
  BY <1>1, <1>4, <1>9 DEF RemoteEnds, Others, TabsInv, Typed
<1> QED
  BY <1>2, <1>4, <1>12, <1>15, <1>16, <1>17, <1>21, <1>23, <1>18, <1>20, <1>22,
     TabStep

LEMMA FinishCloseStep ==
  ASSUME TabsInv, NEW t \in Tabs, FinishClose(t)
  PROVE  TabsInv'
<1>1. TabOK(t)
  BY DEF TabsInv
<1>2. PICK r, s : r = tab[t] /\ s = tab'[t]
  OBVIOUS
<1>3. IsTab(r)
  BY <1>2 DEF TabsInv, Typed
<1>4. /\ \A u \in Tabs : u # t => tab'[u] = tab[u]
      /\ th' = th
  BY <1>1 DEF FinishClose, TabsInv, Typed, Set
<1>9. tab' = [u \in Tabs |-> tab'[u]] /\ th' = [q \in Threads |-> th'[q]]
  BY <1>1 DEF FinishClose, TabsInv, Typed, Set
<1>5. r.fin = "close"
  BY <1>1, <1>2 DEF FinishClose
<1>6. Life(r) /\ Counted(r) /\ OneOpens(t) /\ Owns(t) /\ Window(t) /\ Line(t) /\ Latest(t)
  BY <1>1, <1>2 DEF TabOK
<1>7. Fd(r, Busy(t))
  BY <1>1, <1>2 DEF TabOK
<1>8. \A q \in Threads : th[q].t = t => Works(q, th[q], r)
  BY <1>1, <1>2 DEF TabOK
<1>A. CASE r.kind = "serial"
  <2>1. s = [closePort(r) EXCEPT !.canceled = TRUE, !.outClosed = TRUE, !.fin = "flush"]
    BY <1>1, <1>2, <1>A, SetTab DEF FinishClose, TabsInv, Typed, Closer
  <2>2. s.kind = r.kind /\ s.dev = r.dev /\ s.inMap = r.inMap /\ s.status = r.status
        /\ s.reason = r.reason /\ s.canceled = TRUE /\ s.opened = r.opened /\
        (s.link = IF r.users = 0 THEN "closed" ELSE r.link) /\ s.closed = TRUE /\
        s.fin = "flush" /\ s.done = r.done /\ s.exits = r.exits /\
        s.outClosed = TRUE
    BY <1>3, <2>1 DEF IsTab, Fields, closePort
  <2>3. DOMAIN s = Fields /\ SameFd(s, r) /\ SameLine(s, r) /\ SameOut(s, r)
    BY <1>3, <2>1 DEF IsTab, Fields, closePort, SameFd, SameLine, SameOut
  <2>4. LifeTyped(s)
    BY <1>3, <2>2 DEF IsTab, LifeTyped
  <2>5. Numbers(s)
    BY <1>3, <2>2, <2>3 DEF IsTab, Numbers, SameFd, SameLine, SameOut
  <2>6. IsTab(s)
    BY <1>3, <2>3, <2>5, <2>4, SameParts DEF IsTab
  <2>7. \A q \in Threads : th[q].t = t => Works(q, th[q], s)
    BY <1>8, <1>5, <2>2, <2>3, <1>A, <1>6 DEF Works, SameFd, SameLine, Life
  <2>8. Fd(s, Busy(t))
    BY <1>3, <1>7, <1>A, <1>5, <2>2, <2>3 DEF IsTab, Numbers, Fd, SameFd
  <2>9. Life(s)
    BY <1>3, <1>6, <2>4, <1>A, <1>5, <2>2, <1>7 DEF IsTab, Life, LifeTyped, Fd
  <2>10. s.fin = "flush"
    BY <2>2
  <2>11. Counted(s)
    BY <1>3, <1>6, <1>A, <1>5, <2>10, <2>3 DEF IsTab, Numbers, Counted, SameOut
  <2>12. Owns(t)'
    BY <1>1, <1>2, <1>6, <2>2 DEF FinishClose, Owns
  <2>13. s.kind = r.kind /\ s.opened = r.opened /\ (s.reason = r.reason \/ s.reason # "") /\ (s.link = r.link \/ s.link # "open")
    BY <2>2
  <2>14. Others(t)
    BY <1>1, <1>4, <1>9 DEF FinishClose, Others, TabsInv, Typed
  <2> QED
    BY <1>2, <1>4, <2>3, <2>6, <2>7, <2>8, <2>12, <2>14, <2>9, <2>11, <2>13, TabStep
<1>B. CASE r.kind # "serial"
  <2>1. s = [[r EXCEPT !.link = "closed"] EXCEPT !.canceled = TRUE, !.outClosed = TRUE, !.fin = "flush"]
    BY <1>1, <1>2, <1>B, SetTab DEF FinishClose, TabsInv, Typed, Closer
  <2>2. s.kind = r.kind /\ s.dev = r.dev /\ s.inMap = r.inMap /\ s.status = r.status
        /\ s.reason = r.reason /\ s.canceled = TRUE /\ s.opened = r.opened /\
        s.link = "closed" /\ s.closed = r.closed /\ s.fin = "flush" /\
        s.done = r.done /\ s.exits = r.exits /\ s.outClosed = TRUE
    BY <1>3, <2>1 DEF IsTab, Fields
  <2>3. DOMAIN s = Fields /\ SameFd(s, r) /\ SameLine(s, r) /\ SameOut(s, r)
    BY <1>3, <2>1 DEF IsTab, Fields, SameFd, SameLine, SameOut
  <2>4. LifeTyped(s)
    BY <1>3, <2>2 DEF IsTab, LifeTyped
  <2>5. Numbers(s)
    BY <1>3, <2>2, <2>3 DEF IsTab, Numbers, SameFd, SameLine, SameOut
  <2>6. IsTab(s)
    BY <1>3, <2>3, <2>5, <2>4, SameParts DEF IsTab
  <2>7. \A q \in Threads : th[q].t = t => Works(q, th[q], s)
    BY <1>8, <1>5, <2>2, <2>3, <1>B, <1>6, ZenonT(60) DEF Works, SameFd, SameLine, Life
  <2>8. Fd(s, Busy(t))
    BY <1>3, <1>7, <1>B, <1>5, <2>2, <2>3 DEF IsTab, Numbers, Fd, SameFd
  <2>9. Life(s)
    BY <1>3, <1>6, <2>4, <1>B, <1>5, <2>2 DEF IsTab, Life, LifeTyped
  <2>10. s.fin = "flush"
    BY <2>2
  <2>11. Counted(s)
    BY <1>3, <1>6, <1>B, <1>5, <2>10, <2>3 DEF IsTab, Numbers, Counted, SameOut
  <2>12. Owns(t)'
    BY <1>1, <1>2, <1>6, <2>2 DEF FinishClose, Owns
  <2>13. s.kind = r.kind /\ s.opened = r.opened /\ (s.reason = r.reason \/ s.reason # "") /\ (s.link = r.link \/ s.link # "open")
    BY <2>2
  <2>14. Others(t)
    BY <1>1, <1>4, <1>9 DEF FinishClose, Others, TabsInv, Typed
  <2> QED
    BY <1>2, <1>4, <2>3, <2>6, <2>7, <2>8, <2>12, <2>14, <2>9, <2>11, <2>13, TabStep
<1> QED
  BY <1>A, <1>B

LEMMA FinishDropStep ==
  ASSUME TabsInv, NEW t \in Tabs, FinishDrop(t)
  PROVE  TabsInv'
<1>1. TabOK(t)
  BY DEF TabsInv
<1>2. PICK r, s : r = tab[t] /\ s = tab'[t]
  OBVIOUS
<1>3. IsTab(r)
  BY <1>2 DEF TabsInv, Typed
<1>4. /\ \A u \in Tabs : u # t => tab'[u] = tab[u]
      /\ th' = th
  BY <1>1 DEF FinishDrop, TabsInv, Typed, Set
<1>9. tab' = [u \in Tabs |-> tab'[u]] /\ th' = [q \in Threads |-> th'[q]]
  BY <1>1 DEF FinishDrop, TabsInv, Typed, Set
<1>5. r.fin = "flush" /\ Flushed(r)
  BY <1>1, <1>2 DEF FinishDrop
<1>6. Life(r) /\ Counted(r) /\ OneOpens(t) /\ Owns(t) /\ Window(t) /\ Line(t) /\ Latest(t)
  BY <1>1, <1>2 DEF TabOK
<1>7. Fd(r, Busy(t))
  BY <1>1, <1>2 DEF TabOK
<1>8. \A q \in Threads : th[q].t = t => Works(q, th[q], r)
  BY <1>1, <1>2 DEF TabOK
<1>10. s = [r EXCEPT !.inMap = FALSE, !.done = TRUE, !.fin = "exit"]
  BY <1>1, <1>2, SetTab DEF FinishDrop, TabsInv, Typed
<1>11. s.kind = r.kind /\ s.dev = r.dev /\ s.inMap = FALSE /\ s.status = r.status /\
      s.reason = r.reason /\ s.canceled = r.canceled /\ s.opened = r.opened /\
      s.link = r.link /\ s.closed = r.closed /\ s.fin = "exit" /\ s.done = TRUE /\
      s.exits = r.exits /\ s.outClosed = r.outClosed
  BY <1>3, <1>10 DEF IsTab, Fields
<1>12. DOMAIN s = Fields /\ SameFd(s, r) /\ SameLine(s, r) /\ SameOut(s, r)
  BY <1>3, <1>10 DEF IsTab, Fields, SameFd, SameLine, SameOut
<1>13. LifeTyped(s)
  BY <1>3, <1>11 DEF IsTab, LifeTyped
<1>14. Numbers(s)
  BY <1>3, <1>11, <1>12 DEF IsTab, Numbers, SameFd, SameLine, SameOut
<1>15. IsTab(s)
  BY <1>3, <1>12, <1>14, <1>13, SameParts DEF IsTab
<1>16. \A q \in Threads : th[q].t = t => Works(q, th[q], s)
  BY <1>8, <1>5, <1>11, <1>12, <1>6, ZenonT(60) DEF Works, SameFd, SameLine, Life
<1>17. Fd(s, Busy(t))
  BY <1>3, <1>7, <1>5, <1>11, <1>12 DEF IsTab, Numbers, Fd, SameFd
<1>18. Life(s)
  BY <1>3, <1>6, <1>13, <1>5, <1>11 DEF IsTab, Life, LifeTyped
<1>19. s.fin = "exit"
  BY <1>11
<1>20. Counted(s)
  BY <1>3, <1>6, <1>5, <1>19, <1>12 DEF IsTab, Numbers, Counted, SameOut, Flushed
<1>21. Owns(t)'
  BY <1>1, <1>2, <1>6, <1>11 DEF FinishDrop, Owns, TabsInv, Typed, Freed
<1>22. s.kind = r.kind /\ s.opened = r.opened /\ (s.reason = r.reason \/ s.reason # "") /\ (s.link = r.link \/ s.link # "open")
  BY <1>11
<1>23. Others(t)
  BY <1>1, <1>4, <1>9 DEF FinishDrop, Others, TabsInv, Typed, Freed
<1> QED
  BY <1>2, <1>4, <1>12, <1>15, <1>16, <1>17, <1>21, <1>23, <1>18, <1>20, <1>22,
     TabStep

LEMMA EmitExitStep ==
  ASSUME TabsInv, NEW t \in Tabs, EmitExit(t)
  PROVE  TabsInv'
<1>1. TabOK(t)
  BY DEF TabsInv
<1>2. PICK r, s : r = tab[t] /\ s = tab'[t]
  OBVIOUS
<1>3. IsTab(r)
  BY <1>2 DEF TabsInv, Typed
<1>4. /\ \A u \in Tabs : u # t => tab'[u] = tab[u]
      /\ th' = th
  BY <1>1 DEF EmitExit, TabsInv, Typed, Set
<1>9. tab' = [u \in Tabs |-> tab'[u]] /\ th' = [q \in Threads |-> th'[q]]
  BY <1>1 DEF EmitExit, TabsInv, Typed, Set
<1>5. r.fin = "exit"
  BY <1>1, <1>2 DEF EmitExit
<1>6. Life(r) /\ Counted(r) /\ OneOpens(t) /\ Owns(t) /\ Window(t) /\ Line(t) /\ Latest(t)
  BY <1>1, <1>2 DEF TabOK
<1>7. Fd(r, Busy(t))
  BY <1>1, <1>2 DEF TabOK
<1>8. \A q \in Threads : th[q].t = t => Works(q, th[q], r)
  BY <1>1, <1>2 DEF TabOK
<1>10. r.exits = 0
  BY <1>5, <1>6 DEF Life
<1>11. s = [r EXCEPT !.exits = r.exits + 1, !.fin = "over"]
  BY <1>1, <1>2, <1>10, SetTab DEF EmitExit, TabsInv, Typed
<1>12. s.kind = r.kind /\ s.dev = r.dev /\ s.inMap = r.inMap /\ s.status = r.status
      /\ s.reason = r.reason /\ s.canceled = r.canceled /\ s.opened = r.opened /\
      s.link = r.link /\ s.closed = r.closed /\ s.fin = "over" /\ s.done = r.done /\
      s.exits = 1 /\ s.outClosed = r.outClosed
  BY <1>3, <1>11, <1>10 DEF IsTab, Fields
<1>13. DOMAIN s = Fields /\ SameFd(s, r) /\ SameLine(s, r) /\ SameOut(s, r)
  BY <1>3, <1>11, <1>10 DEF IsTab, Fields, SameFd, SameLine, SameOut
<1>14. LifeTyped(s)
  BY <1>3, <1>12 DEF IsTab, LifeTyped
<1>15. Numbers(s)
  BY <1>3, <1>12, <1>13 DEF IsTab, Numbers, SameFd, SameLine, SameOut
<1>16. IsTab(s)
  BY <1>3, <1>13, <1>15, <1>14, SameParts DEF IsTab
<1>17. \A q \in Threads : th[q].t = t => Works(q, th[q], s)
  BY <1>8, <1>5, <1>12, <1>13, <1>10, <1>6, ZenonT(60) DEF Works, SameFd, SameLine, Life
<1>18. Fd(s, Busy(t))
  BY <1>3, <1>7, <1>10, <1>5, <1>12, <1>13 DEF IsTab, Numbers, Fd, SameFd
<1>19. Life(s)
  BY <1>3, <1>6, <1>14, <1>10, <1>5, <1>12 DEF IsTab, Life, LifeTyped
<1>20. s.fin = "over"
  BY <1>12
<1>21. Counted(s)
  BY <1>3, <1>6, <1>10, <1>5, <1>20, <1>13 DEF IsTab, Numbers, Counted, SameOut
<1>22. Owns(t)'
  BY <1>1, <1>2, <1>6, <1>12 DEF EmitExit, Owns
<1>23. s.kind = r.kind /\ s.opened = r.opened /\ (s.reason = r.reason \/ s.reason # "") /\ (s.link = r.link \/ s.link # "open")
  BY <1>12
<1>24. Others(t)
  BY <1>1, <1>4, <1>9 DEF EmitExit, Others, TabsInv, Typed
<1> QED
  BY <1>2, <1>4, <1>13, <1>16, <1>17, <1>18, <1>22, <1>24, <1>19, <1>21, <1>23,
     TabStep

LEMMA FailFlushedStep ==
  ASSUME TabsInv, NEW t \in Tabs, FailFlushed(t)
  PROVE  TabsInv'
<1>1. TabOK(t)
  BY DEF TabsInv
<1>2. PICK r, s : r = tab[t] /\ s = tab'[t]
  OBVIOUS
<1>3. IsTab(r)
  BY <1>2 DEF TabsInv, Typed
<1>4. /\ \A u \in Tabs : u # t => tab'[u] = tab[u]
      /\ th' = th
  BY <1>1 DEF FailFlushed, TabsInv, Typed, Set
<1>9. tab' = [u \in Tabs |-> tab'[u]] /\ th' = [q \in Threads |-> th'[q]]
  BY <1>1 DEF FailFlushed, TabsInv, Typed, Set
<1>5. r.fin = "failed" /\ Flushed(r)
  BY <1>1, <1>2 DEF FailFlushed
<1>6. Life(r) /\ Counted(r) /\ OneOpens(t) /\ Owns(t) /\ Window(t) /\ Line(t) /\ Latest(t)
  BY <1>1, <1>2 DEF TabOK
<1>7. Fd(r, Busy(t))
  BY <1>1, <1>2 DEF TabOK
<1>8. \A q \in Threads : th[q].t = t => Works(q, th[q], r)
  BY <1>1, <1>2 DEF TabOK
<1>10. s = [r EXCEPT !.done = TRUE, !.fin = "over"]
  BY <1>1, <1>2, SetTab DEF FailFlushed, TabsInv, Typed
<1>11. s.kind = r.kind /\ s.dev = r.dev /\ s.inMap = r.inMap /\ s.status = r.status
      /\ s.reason = r.reason /\ s.canceled = r.canceled /\ s.opened = r.opened /\
      s.link = r.link /\ s.closed = r.closed /\ s.fin = "over" /\ s.done = TRUE /\
      s.exits = r.exits /\ s.outClosed = r.outClosed
  BY <1>3, <1>10 DEF IsTab, Fields
<1>12. DOMAIN s = Fields /\ SameFd(s, r) /\ SameLine(s, r) /\ SameOut(s, r)
  BY <1>3, <1>10 DEF IsTab, Fields, SameFd, SameLine, SameOut
<1>13. LifeTyped(s)
  BY <1>3, <1>11 DEF IsTab, LifeTyped
<1>14. Numbers(s)
  BY <1>3, <1>11, <1>12 DEF IsTab, Numbers, SameFd, SameLine, SameOut
<1>15. IsTab(s)
  BY <1>3, <1>12, <1>14, <1>13, SameParts DEF IsTab
<1>16. \A q \in Threads : th[q].t = t => Works(q, th[q], s)
  BY <1>8, <1>5, <1>11, <1>12, <1>6 DEF Works, SameFd, SameLine, Life
<1>17. Fd(s, Busy(t))
  BY <1>3, <1>7, <1>5, <1>11, <1>12 DEF IsTab, Numbers, Fd, SameFd
<1>18. Life(s)
  BY <1>3, <1>6, <1>13, <1>5, <1>11 DEF IsTab, Life, LifeTyped
<1>19. s.fin = "over"
  BY <1>11
<1>20. Counted(s)
  BY <1>3, <1>6, <1>5, <1>19, <1>12 DEF IsTab, Numbers, Counted, SameOut, Flushed
<1>21. Owns(t)'
  BY <1>1, <1>2, <1>6, <1>11 DEF FailFlushed, Owns
<1>22. s.kind = r.kind /\ s.opened = r.opened /\ (s.reason = r.reason \/ s.reason # "") /\ (s.link = r.link \/ s.link # "open")
  BY <1>11
<1>23. Others(t)
  BY <1>1, <1>4, <1>9 DEF FailFlushed, Others, TabsInv, Typed
<1> QED
  BY <1>2, <1>4, <1>12, <1>15, <1>16, <1>17, <1>21, <1>23, <1>18, <1>20, <1>22,
     TabStep

(* The output.                                                             *)
LEMMA OutputStep ==
  ASSUME TabsInv, NEW t \in Tabs, Output(t)
  PROVE  TabsInv'
<1>1. TabOK(t)
  BY DEF TabsInv
<1>2. PICK r, s : r = tab[t] /\ s = tab'[t]
  OBVIOUS
<1>3. IsTab(r)
  BY <1>2 DEF TabsInv, Typed
<1>4. /\ \A u \in Tabs : u # t => tab'[u] = tab[u]
      /\ th' = th
  BY <1>1 DEF Output, TabsInv, Typed, Set
<1>9. tab' = [u \in Tabs |-> tab'[u]] /\ th' = [q \in Threads |-> th'[q]]
  BY <1>1 DEF Output, TabsInv, Typed, Set
<1>5. r.link = "open" /\ ~r.outClosed
  BY <1>1, <1>2 DEF Output
<1>6. Life(r) /\ Counted(r) /\ OneOpens(t) /\ Owns(t) /\ Window(t) /\ Line(t) /\ Latest(t)
  BY <1>1, <1>2 DEF TabOK
<1>7. Fd(r, Busy(t))
  BY <1>1, <1>2 DEF TabOK
<1>8. \A q \in Threads : th[q].t = t => Works(q, th[q], r)
  BY <1>1, <1>2 DEF TabOK
<1>A. CASE r.buf < Cap
  <2>1. r.fin \notin {"exit", "over"}
    BY <1>5, <1>6 DEF Life
  <2>2. s = [r EXCEPT !.accepted = r.accepted + 1, !.buf = r.buf + 1, !.dropped = r.dropped]
    BY <1>1, <1>2, <1>A, <2>1, SetTab DEF Output, TabsInv, Typed
  <2>3. s.buf = r.buf + 1 /\ s.dropped = r.dropped /\ s.chunk = r.chunk /\
        s.accepted = r.accepted + 1 /\ s.emitted = r.emitted
    BY <1>3, <2>2, <2>1 DEF IsTab, Fields
  <2>4. DOMAIN s = Fields /\ SameLife(s, r) /\ SameFd(s, r) /\ SameLine(s, r)
    BY <1>3, <2>2, <2>1 DEF IsTab, Fields, SameLife, SameFd, SameLine
  <2>5. Numbers(s)
    BY <1>3, <2>4, <2>3 DEF IsTab, Numbers, SameLife, SameFd, SameLine
  <2>6. IsTab(s)
    BY <1>3, <2>4, <2>5, SameParts DEF IsTab
  <2>7. \A q \in Threads : th[q].t = t => Works(q, th[q], s)
    BY <1>8, <1>5, <2>4, <1>A, <2>1 DEF Works, SameLife, SameFd, SameLine
  <2>8. Fd(s, Busy(t))
    BY <1>3, <1>7, <1>A, <2>1, <1>5, <2>4 DEF IsTab, Numbers, Fd, SameLife, SameFd
  <2>9. Life(s)
    BY <1>6, <2>4, SameParts
  <2>10. Counted(s)
    BY <1>3, <1>6, <1>A, <2>1, <1>5, <2>4, <2>3 DEF IsTab, Numbers, Counted,
       SameLife
  <2>11. Owns(t)'
    BY <1>1, <1>2, <1>6, <2>4 DEF Output, Owns, SameLife
  <2>12. s.kind = r.kind /\ s.opened = r.opened /\ (s.reason = r.reason \/ s.reason # "") /\ (s.link = r.link \/ s.link # "open")
    BY <2>4 DEF SameLife
  <2>13. Others(t)
    BY <1>1, <1>4, <1>9 DEF Output, Others, TabsInv, Typed
  <2> QED
    BY <1>2, <1>4, <2>4, <2>6, <2>7, <2>8, <2>11, <2>13, <2>9, <2>10, <2>12, TabStep
<1>B. CASE ~(r.buf < Cap)
  <2>1. r.fin \notin {"exit", "over"}
    BY <1>5, <1>6 DEF Life
  <2>2. s = [r EXCEPT !.accepted = r.accepted + 1, !.buf = r.buf, !.dropped = r.dropped + 1]
    BY <1>1, <1>2, <1>B, <2>1, SetTab DEF Output, TabsInv, Typed
  <2>3. s.buf = r.buf /\ s.dropped = r.dropped + 1 /\ s.chunk = r.chunk /\
        s.accepted = r.accepted + 1 /\ s.emitted = r.emitted
    BY <1>3, <2>2, <2>1 DEF IsTab, Fields
  <2>4. DOMAIN s = Fields /\ SameLife(s, r) /\ SameFd(s, r) /\ SameLine(s, r)
    BY <1>3, <2>2, <2>1 DEF IsTab, Fields, SameLife, SameFd, SameLine
  <2>5. Numbers(s)
    BY <1>3, <2>4, <2>3 DEF IsTab, Numbers, SameLife, SameFd, SameLine
  <2>6. IsTab(s)
    BY <1>3, <2>4, <2>5, SameParts DEF IsTab
  <2>7. \A q \in Threads : th[q].t = t => Works(q, th[q], s)
    BY <1>8, <1>5, <2>4, <1>B, <2>1 DEF Works, SameLife, SameFd, SameLine
  <2>8. Fd(s, Busy(t))
    BY <1>3, <1>7, <1>B, <2>1, <1>5, <2>4 DEF IsTab, Numbers, Fd, SameLife, SameFd
  <2>9. Life(s)
    BY <1>6, <2>4, SameParts
  <2>10. Counted(s)
    BY <1>3, <1>6, <1>B, <2>1, <1>5, <2>4, <2>3 DEF IsTab, Numbers, Counted,
       SameLife
  <2>11. Owns(t)'
    BY <1>1, <1>2, <1>6, <2>4 DEF Output, Owns, SameLife
  <2>12. s.kind = r.kind /\ s.opened = r.opened /\ (s.reason = r.reason \/ s.reason # "") /\ (s.link = r.link \/ s.link # "open")
    BY <2>4 DEF SameLife
  <2>13. Others(t)
    BY <1>1, <1>4, <1>9 DEF Output, Others, TabsInv, Typed
  <2> QED
    BY <1>2, <1>4, <2>4, <2>6, <2>7, <2>8, <2>11, <2>13, <2>9, <2>10, <2>12, TabStep
<1> QED
  BY <1>A, <1>B

LEMMA TakeChunkStep ==
  ASSUME TabsInv, NEW t \in Tabs, TakeChunk(t)
  PROVE  TabsInv'
<1>1. TabOK(t)
  BY DEF TabsInv
<1>2. PICK r, s : r = tab[t] /\ s = tab'[t]
  OBVIOUS
<1>3. IsTab(r)
  BY <1>2 DEF TabsInv, Typed
<1>4. /\ \A u \in Tabs : u # t => tab'[u] = tab[u]
      /\ th' = th
  BY <1>1 DEF TakeChunk, TabsInv, Typed, Set
<1>9. tab' = [u \in Tabs |-> tab'[u]] /\ th' = [q \in Threads |-> th'[q]]
  BY <1>1 DEF TakeChunk, TabsInv, Typed, Set
<1>5. r.chunk = 0 /\ r.buf + r.dropped > 0
  BY <1>1, <1>2 DEF TakeChunk
<1>6. Life(r) /\ Counted(r) /\ OneOpens(t) /\ Owns(t) /\ Window(t) /\ Line(t) /\ Latest(t)
  BY <1>1, <1>2 DEF TabOK
<1>7. Fd(r, Busy(t))
  BY <1>1, <1>2 DEF TabOK
<1>8. \A q \in Threads : th[q].t = t => Works(q, th[q], r)
  BY <1>1, <1>2 DEF TabOK
<1>10. s = [r EXCEPT !.chunk = r.buf + r.dropped, !.buf = 0, !.dropped = 0]
  BY <1>1, <1>2, SetTab DEF TakeChunk, TabsInv, Typed
<1>11. s.buf = 0 /\ s.dropped = 0 /\ s.chunk = r.buf + r.dropped /\
      s.accepted = r.accepted /\ s.emitted = r.emitted
  BY <1>3, <1>10 DEF IsTab, Fields
<1>12. DOMAIN s = Fields /\ SameLife(s, r) /\ SameFd(s, r) /\ SameLine(s, r)
  BY <1>3, <1>10 DEF IsTab, Fields, SameLife, SameFd, SameLine
<1>13. Numbers(s)
  BY <1>3, <1>12, <1>11 DEF IsTab, Numbers, SameLife, SameFd, SameLine
<1>14. IsTab(s)
  BY <1>3, <1>12, <1>13, SameParts DEF IsTab
<1>15. \A q \in Threads : th[q].t = t => Works(q, th[q], s)
  BY <1>8, <1>5, <1>12 DEF Works, SameLife, SameFd, SameLine
<1>16. Fd(s, Busy(t))
  BY <1>3, <1>7, <1>5, <1>12 DEF IsTab, Numbers, Fd, SameLife, SameFd
<1>17. Life(s)
  BY <1>6, <1>12, SameParts
<1>18. Counted(s)
  BY <1>3, <1>6, <1>5, <1>12, <1>11 DEF IsTab, Numbers, Counted, SameLife
<1>19. Owns(t)'
  BY <1>1, <1>2, <1>6, <1>12 DEF TakeChunk, Owns, SameLife
<1>20. s.kind = r.kind /\ s.opened = r.opened /\ (s.reason = r.reason \/ s.reason # "") /\ (s.link = r.link \/ s.link # "open")
  BY <1>12 DEF SameLife
<1>21. Others(t)
  BY <1>1, <1>4, <1>9 DEF TakeChunk, Others, TabsInv, Typed
<1> QED
  BY <1>2, <1>4, <1>12, <1>14, <1>15, <1>16, <1>19, <1>21, <1>17, <1>18, <1>20,
     TabStep

LEMMA EmitChunkStep ==
  ASSUME TabsInv, NEW t \in Tabs, EmitChunk(t)
  PROVE  TabsInv'
<1>1. TabOK(t)
  BY DEF TabsInv
<1>2. PICK r, s : r = tab[t] /\ s = tab'[t]
  OBVIOUS
<1>3. IsTab(r)
  BY <1>2 DEF TabsInv, Typed
<1>4. /\ \A u \in Tabs : u # t => tab'[u] = tab[u]
      /\ th' = th
  BY <1>1 DEF EmitChunk, TabsInv, Typed, Set
<1>9. tab' = [u \in Tabs |-> tab'[u]] /\ th' = [q \in Threads |-> th'[q]]
  BY <1>1 DEF EmitChunk, TabsInv, Typed, Set
<1>5. r.chunk > 0
  BY <1>1, <1>2 DEF EmitChunk
<1>6. Life(r) /\ Counted(r) /\ OneOpens(t) /\ Owns(t) /\ Window(t) /\ Line(t) /\ Latest(t)
  BY <1>1, <1>2 DEF TabOK
<1>7. Fd(r, Busy(t))
  BY <1>1, <1>2 DEF TabOK
<1>8. \A q \in Threads : th[q].t = t => Works(q, th[q], r)
  BY <1>1, <1>2 DEF TabOK
<1>10. s = [r EXCEPT !.emitted = r.emitted + r.chunk, !.chunk = 0]
  BY <1>1, <1>2, SetTab DEF EmitChunk, TabsInv, Typed
<1>11. s.buf = r.buf /\ s.dropped = r.dropped /\ s.chunk = 0 /\
      s.accepted = r.accepted /\ s.emitted = r.emitted + r.chunk
  BY <1>3, <1>10 DEF IsTab, Fields
<1>12. DOMAIN s = Fields /\ SameLife(s, r) /\ SameFd(s, r) /\ SameLine(s, r)
  BY <1>3, <1>10 DEF IsTab, Fields, SameLife, SameFd, SameLine
<1>13. Numbers(s)
  BY <1>3, <1>12, <1>11 DEF IsTab, Numbers, SameLife, SameFd, SameLine
<1>14. IsTab(s)
  BY <1>3, <1>12, <1>13, SameParts DEF IsTab
<1>15. \A q \in Threads : th[q].t = t => Works(q, th[q], s)
  BY <1>8, <1>5, <1>12 DEF Works, SameLife, SameFd, SameLine
<1>16. Fd(s, Busy(t))
  BY <1>3, <1>7, <1>5, <1>12 DEF IsTab, Numbers, Fd, SameLife, SameFd
<1>17. Life(s)
  BY <1>6, <1>12, SameParts
<1>18. Counted(s)
  BY <1>3, <1>6, <1>5, <1>12, <1>11 DEF IsTab, Numbers, Counted, SameLife
<1>19. Owns(t)'
  BY <1>1, <1>2, <1>6, <1>12 DEF EmitChunk, Owns, SameLife
<1>20. s.kind = r.kind /\ s.opened = r.opened /\ (s.reason = r.reason \/ s.reason # "") /\ (s.link = r.link \/ s.link # "open")
  BY <1>12 DEF SameLife
<1>21. Others(t)
  BY <1>1, <1>4, <1>9 DEF EmitChunk, Others, TabsInv, Typed
<1> QED
  BY <1>2, <1>4, <1>12, <1>14, <1>15, <1>16, <1>19, <1>21, <1>17, <1>18, <1>20,
     TabStep

(* A Drain ends.                                                           *)
LEMMA DrainEndsStep ==
  ASSUME TabsInv, NEW t \in Tabs, DrainEnds(t)
  PROVE  TabsInv'
<1>1. TabOK(t)
  BY DEF TabsInv
<1>2. PICK r, s : r = tab[t] /\ s = tab'[t]
  OBVIOUS
<1>3. IsTab(r)
  BY <1>2 DEF TabsInv, Typed
<1>4. /\ \A u \in Tabs : u # t => tab'[u] = tab[u]
      /\ th' = th
  BY <1>1 DEF DrainEnds, TabsInv, Typed, Set
<1>9. tab' = [u \in Tabs |-> tab'[u]] /\ th' = [q \in Threads |-> th'[q]]
  BY <1>1 DEF DrainEnds, TabsInv, Typed, Set
<1>5. r.drains > 0
  BY <1>1, <1>2 DEF DrainEnds
<1>6. Life(r) /\ Counted(r) /\ OneOpens(t) /\ Owns(t) /\ Window(t) /\ Line(t) /\ Latest(t)
  BY <1>1, <1>2 DEF TabOK
<1>7. Fd(r, Busy(t))
  BY <1>1, <1>2 DEF TabOK
<1>8. \A q \in Threads : th[q].t = t => Works(q, th[q], r)
  BY <1>1, <1>2 DEF TabOK
<1>10. s = Released([r EXCEPT !.drains = r.drains - 1])
  BY <1>1, <1>2, SetTab DEF DrainEnds, TabsInv, Typed
<1>11. s.kind = r.kind /\ s.dev = r.dev /\ s.inMap = r.inMap /\ s.status = r.status
      /\ s.reason = r.reason /\ s.canceled = r.canceled /\ s.opened = r.opened /\
      (s.link = IF r.closed /\ r.users = 1 THEN "closed" ELSE r.link) /\
      s.closed = r.closed /\ s.fin = r.fin /\ s.done = r.done /\ s.exits = r.exits
      /\ s.outClosed = r.outClosed
  BY <1>3, <1>10 DEF IsTab, Fields, Released
<1>12. s.users = r.users - 1 /\ s.drains = r.drains - 1 /\ s.writeMu = r.writeMu /\
      s.applyMu = r.applyMu /\ s.resizeMu = r.resizeMu /\ s.pump = r.pump
  BY <1>3, <1>10 DEF IsTab, Fields, Released
<1>13. DOMAIN s = Fields /\ SameLine(s, r) /\ SameOut(s, r)
  BY <1>3, <1>10 DEF IsTab, Fields, Released, SameLine, SameOut
<1>14. LifeTyped(s)
  BY <1>3, <1>11 DEF IsTab, LifeTyped
<1>15. FdTyped(s)
  BY <1>3, <1>12 DEF IsTab, FdTyped
<1>16. Numbers(s)
  BY <1>3, <1>11, <1>12, <1>13, <1>5, <1>7 DEF IsTab, Numbers, SameLine, SameOut, Fd
<1>17. IsTab(s)
  BY <1>3, <1>13, <1>16, <1>14, <1>15, SameParts DEF IsTab
<1>18. \A q \in Threads : th[q].t = t => Works(q, th[q], s)
  BY <1>8, <1>5, <1>11, <1>12, <1>13, <1>3, <1>7 DEF Works, SameLine, Fd, IsTab,
     Numbers
<1>19. Fd(s, Busy(t))
  BY <1>3, <1>7, <1>5, <1>11, <1>12, SMTT(30) DEF IsTab, Numbers, Fd
<1>20. Life(s)
  BY <1>3, <1>6, <1>14, <1>5, <1>11, <1>7, ZenonT(60) DEF IsTab, Life, LifeTyped, Fd,
     Numbers
<1>21. s.fin = r.fin
  BY <1>11
<1>22. Counted(s)
  BY <1>3, <1>6, <1>5, <1>21, <1>13 DEF IsTab, Numbers, Counted, SameOut
<1>23. Owns(t)'
  BY <1>1, <1>2, <1>6, <1>11 DEF DrainEnds, Owns
<1>24. s.kind = r.kind /\ s.opened = r.opened /\ (s.reason = r.reason \/ s.reason # "") /\ (s.link = r.link \/ s.link # "open")
  BY <1>11
<1>25. Others(t)
  BY <1>1, <1>4, <1>9 DEF DrainEnds, Others, TabsInv, Typed
<1> QED
  BY <1>2, <1>4, <1>13, <1>17, <1>18, <1>19, <1>23, <1>25, <1>20, <1>22, <1>24,
     TabStep

(* Registration: nobody works on a tab that was never opened.              *)
LEMMA RegisterSerialStep ==
  ASSUME TabsInv, NEW p \in Threads, NEW t \in Tabs, NEW d \in Devices, Register(p, t, "serial", d)
  PROVE  TabsInv'
<1>1. TabOK(t) /\ th[p] = Rest /\ th[p].t = None
  BY Resting DEF TabsInv, Call, Register
<1>2. PICK r, s, x, y : r = tab[t] /\ s = tab'[t] /\ x = th[p] /\ y = th'[p]
  OBVIOUS
<1>3. IsTab(r) /\ IsThread(x)
  BY <1>2 DEF TabsInv, Typed
<1>4. /\ \A u \in Tabs : u # t => tab'[u] = tab[u]
      /\ \A q \in Threads : q # p => th'[q] = th[q]
  BY <1>1 DEF Register, TabsInv, Typed, Set
<1>9. tab' = [u \in Tabs |-> tab'[u]] /\ th' = [q \in Threads |-> th'[q]]
  BY <1>1 DEF Register, TabsInv, Typed, Set
<1>5. r.kind = "none"
  BY <1>1, <1>2 DEF Call, Register
<1>6. Life(r) /\ Counted(r) /\ OneOpens(t) /\ Owns(t) /\ Window(t) /\ Line(t) /\ Latest(t)
  BY <1>1, <1>2 DEF TabOK
<1>7. Fd(r, Busy(t))
  BY <1>1, <1>2 DEF TabOK
<1>8. \A q \in Threads : th[q].t = t => Works(q, th[q], r)
  BY <1>1, <1>2 DEF TabOK
<1>10. ~r.inMap
  BY <1>5, <1>6 DEF Life
<1>11. s = [NoTab EXCEPT !.kind = "serial", !.inMap = TRUE, !.status = "connecting", !.dev = d]
  BY <1>1, <1>2, <1>10, SetTab DEF Register, TabsInv, Typed
<1>12. y = [Rest EXCEPT !.pc = "dial", !.t = t]
  BY <1>1, <1>2, <1>10 DEF Register, TabsInv, Typed
<1>13. s.kind = "serial" /\ s.dev = d /\ s.inMap = TRUE /\ s.status = "connecting" /\
      s.reason = "" /\ s.canceled = FALSE /\ s.opened = FALSE /\ s.link = "none" /\
      s.closed = FALSE /\ s.fin = "no" /\ s.done = FALSE /\ s.exits = 0 /\
      s.outClosed = FALSE
  BY <1>3, <1>11, <1>10 DEF IsTab, Fields, NoTab
<1>14. s.users = 0 /\ s.drains = 0 /\ s.writeMu = NoThread /\ s.applyMu = NoThread /\
      s.resizeMu = NoThread /\ s.pump = FALSE
  BY <1>3, <1>11, <1>10 DEF IsTab, Fields, NoTab
<1>15. s.size = Default /\ s.pty = None /\ s.settings = Default /\ s.mode = None /\
      s.pending = None /\ s.gen = 0 /\ s.latest = Default /\ s.disturbed = FALSE
  BY <1>3, <1>11, <1>10 DEF IsTab, Fields, NoTab
<1>16. s.buf = 0 /\ s.dropped = 0 /\ s.chunk = 0 /\ s.accepted = 0 /\ s.emitted = 0
  BY <1>3, <1>11, <1>10 DEF IsTab, Fields, NoTab
<1>17. DOMAIN s = Fields
  BY <1>3, <1>11, <1>10 DEF IsTab, Fields, NoTab
<1>18. IsThread(y) /\ y.pc = "dial" /\ y.t = t /\ y.val = None /\ y.gen = None /\ y.ok = FALSE
  BY <1>1, <1>2, <1>3, <1>5, <1>12 DEF IsThread, Rest
<1>19. ~Busy(t)'
  BY <1>1, <1>2, <1>4, <1>5, <1>18, <1>8 DEF Busy, Works
<1>20. LifeTyped(s)
  BY <1>13 DEF LifeTyped
<1>21. FdTyped(s)
  BY <1>14 DEF FdTyped
<1>22. LineTyped(s)
  BY <1>15, TabsAssumption DEF LineTyped
<1>23. s.users = 0 /\ s.drains = 0 /\ s.exits = 0 /\ s.gen = 0 /\ s.buf = 0 /\ s.dropped = 0 /\ s.chunk = 0 /\ s.accepted = 0 /\ s.emitted = 0
  BY <1>13, <1>14, <1>15, <1>16
<1>24. Numbers(s)
  BY <1>23 DEF Numbers
<1>25. IsTab(s)
  BY <1>3, <1>17, <1>24, <1>20, <1>21, <1>22, SameParts DEF IsTab
<1>26. Works(p, y, s)
  BY <1>5, <1>13, <1>14, <1>15, <1>10, <1>18 DEF Works
<1>27. \A q \in Threads : q # p /\ th[q].t = t => Works(q, th[q], s)
  BY <1>8, <1>5, <1>13, <1>14, <1>15, <1>10 DEF Works
<1>28. OneOpens(t)'
  BY <1>6, <1>1, <1>2, <1>4, <1>5, <1>18, <1>8 DEF OneOpens, Opens, Works
<1>29. ~s.opened /\ ~s.closed
  BY <1>13
<1>30. Fd(s, Busy(t)')
  BY <1>29, <1>14, <1>19 DEF Fd
<1>31. Life(s)
  BY <1>3, <1>6, <1>20, <1>10, <1>5, <1>13 DEF IsTab, Life, LifeTyped
<1>32. s.fin = "no"
  BY <1>13
<1>33. Counted(s)
  BY <1>32, <1>16 DEF Counted
<1>34. Owns(t)'
  BY <1>1, <1>2, <1>6, <1>13, TabsAssumption, <1>10 DEF Register, Owns, TabsInv,
     Typed
<1>35. Window(t)'
  BY <1>6, <1>13, <1>15, <1>1, <1>2, <1>4, <1>5, <1>18, <1>8 DEF Window, Works
<1>36. Line(t)'
  BY <1>6, <1>13, <1>15, <1>1, <1>2, <1>4, <1>5, <1>18, <1>8 DEF Line, Works
<1>37. \A q \in Threads : th[q].t # t
  BY <1>5, <1>8 DEF Works
<1>38. \A q \in Threads : th'[q].t = t => th'[q].pc = "dial"
  BY <1>2, <1>4, <1>18, <1>37
<1>39. Undisturbed(s) => Carried(t)'
  BY <1>38, <1>2, <1>13, <1>15 DEF Carried
<1>40. Undisturbed(s) => Coming(t)'
  BY <1>37, <1>38, <1>13, <1>15, <1>1, <1>2, <1>4, <1>5, <1>18 DEF Coming, Brings
<1>41. Latest(t)'
  BY <1>2, <1>39, <1>40 DEF Latest
<1>42. Others(t)
  BY <1>1, <1>4, <1>9 DEF Register, Others, TabsInv, Typed
<1> QED
  BY <1>1, <1>2, <1>4, <1>18, <1>26, <1>25, <1>27, <1>28, <1>30, <1>34, <1>42,
     <1>31, <1>33, <1>35, <1>36, <1>41, ThreadStep

LEMMA RegisterSshStep ==
  ASSUME TabsInv, NEW p \in Threads, NEW t \in Tabs, Register(p, t, "ssh", None)
  PROVE  TabsInv'
<1>1. TabOK(t) /\ th[p] = Rest /\ th[p].t = None
  BY Resting DEF TabsInv, Call, Register
<1>2. PICK r, s, x, y : r = tab[t] /\ s = tab'[t] /\ x = th[p] /\ y = th'[p]
  OBVIOUS
<1>3. IsTab(r) /\ IsThread(x)
  BY <1>2 DEF TabsInv, Typed
<1>4. /\ \A u \in Tabs : u # t => tab'[u] = tab[u]
      /\ \A q \in Threads : q # p => th'[q] = th[q]
  BY <1>1 DEF Register, TabsInv, Typed, Set
<1>9. tab' = [u \in Tabs |-> tab'[u]] /\ th' = [q \in Threads |-> th'[q]]
  BY <1>1 DEF Register, TabsInv, Typed, Set
<1>5. r.kind = "none"
  BY <1>1, <1>2 DEF Call, Register
<1>6. Life(r) /\ Counted(r) /\ OneOpens(t) /\ Owns(t) /\ Window(t) /\ Line(t) /\ Latest(t)
  BY <1>1, <1>2 DEF TabOK
<1>7. Fd(r, Busy(t))
  BY <1>1, <1>2 DEF TabOK
<1>8. \A q \in Threads : th[q].t = t => Works(q, th[q], r)
  BY <1>1, <1>2 DEF TabOK
<1>10. ~r.inMap
  BY <1>5, <1>6 DEF Life
<1>11. s = [NoTab EXCEPT !.kind = "ssh", !.inMap = TRUE, !.status = "connecting", !.dev = None]
  BY <1>1, <1>2, <1>10, SetTab DEF Register, TabsInv, Typed
<1>12. y = [Rest EXCEPT !.pc = "dial", !.t = t]
  BY <1>1, <1>2, <1>10 DEF Register, TabsInv, Typed
<1>13. s.kind = "ssh" /\ s.dev = None /\ s.inMap = TRUE /\ s.status = "connecting" /\
      s.reason = "" /\ s.canceled = FALSE /\ s.opened = FALSE /\ s.link = "none" /\
      s.closed = FALSE /\ s.fin = "no" /\ s.done = FALSE /\ s.exits = 0 /\
      s.outClosed = FALSE
  BY <1>3, <1>11, <1>10 DEF IsTab, Fields, NoTab
<1>14. s.users = 0 /\ s.drains = 0 /\ s.writeMu = NoThread /\ s.applyMu = NoThread /\
      s.resizeMu = NoThread /\ s.pump = FALSE
  BY <1>3, <1>11, <1>10 DEF IsTab, Fields, NoTab
<1>15. s.size = Default /\ s.pty = None /\ s.settings = Default /\ s.mode = None /\
      s.pending = None /\ s.gen = 0 /\ s.latest = Default /\ s.disturbed = FALSE
  BY <1>3, <1>11, <1>10 DEF IsTab, Fields, NoTab
<1>16. s.buf = 0 /\ s.dropped = 0 /\ s.chunk = 0 /\ s.accepted = 0 /\ s.emitted = 0
  BY <1>3, <1>11, <1>10 DEF IsTab, Fields, NoTab
<1>17. DOMAIN s = Fields
  BY <1>3, <1>11, <1>10 DEF IsTab, Fields, NoTab
<1>18. IsThread(y) /\ y.pc = "dial" /\ y.t = t /\ y.val = None /\ y.gen = None /\ y.ok = FALSE
  BY <1>1, <1>2, <1>3, <1>5, <1>12 DEF IsThread, Rest
<1>19. ~Busy(t)'
  BY <1>1, <1>2, <1>4, <1>5, <1>18, <1>8 DEF Busy, Works
<1>20. LifeTyped(s)
  BY <1>13 DEF LifeTyped
<1>21. FdTyped(s)
  BY <1>14 DEF FdTyped
<1>22. LineTyped(s)
  BY <1>15, TabsAssumption DEF LineTyped
<1>23. s.users = 0 /\ s.drains = 0 /\ s.exits = 0 /\ s.gen = 0 /\ s.buf = 0 /\ s.dropped = 0 /\ s.chunk = 0 /\ s.accepted = 0 /\ s.emitted = 0
  BY <1>13, <1>14, <1>15, <1>16
<1>24. Numbers(s)
  BY <1>23 DEF Numbers
<1>25. IsTab(s)
  BY <1>3, <1>17, <1>24, <1>20, <1>21, <1>22, SameParts DEF IsTab
<1>26. Works(p, y, s)
  BY <1>5, <1>13, <1>14, <1>15, <1>10, <1>18 DEF Works
<1>27. \A q \in Threads : q # p /\ th[q].t = t => Works(q, th[q], s)
  BY <1>8, <1>5, <1>13, <1>14, <1>15, <1>10 DEF Works
<1>28. OneOpens(t)'
  BY <1>6, <1>1, <1>2, <1>4, <1>5, <1>18, <1>8 DEF OneOpens, Opens, Works
<1>29. ~s.opened /\ ~s.closed
  BY <1>13
<1>30. Fd(s, Busy(t)')
  BY <1>29, <1>14, <1>19 DEF Fd
<1>31. Life(s)
  BY <1>3, <1>6, <1>20, <1>10, <1>5, <1>13 DEF IsTab, Life, LifeTyped
<1>32. s.fin = "no"
  BY <1>13
<1>33. Counted(s)
  BY <1>32, <1>16 DEF Counted
<1>34. Owns(t)'
  BY <1>1, <1>2, <1>6, <1>13, TabsAssumption, <1>10 DEF Register, Owns, TabsInv,
     Typed
<1>35. Window(t)'
  BY <1>6, <1>13, <1>15, <1>1, <1>2, <1>4, <1>5, <1>18, <1>8 DEF Window, Works
<1>36. Line(t)'
  BY <1>6, <1>13, <1>15, <1>1, <1>2, <1>4, <1>5, <1>18, <1>8 DEF Line, Works
<1>37. \A q \in Threads : th[q].t # t
  BY <1>5, <1>8 DEF Works
<1>38. \A q \in Threads : th'[q].t = t => th'[q].pc = "dial"
  BY <1>2, <1>4, <1>18, <1>37
<1>39. Undisturbed(s) => Carried(t)'
  BY <1>38, <1>2, <1>13, <1>15 DEF Carried
<1>40. Undisturbed(s) => Coming(t)'
  BY <1>37, <1>38, <1>13, <1>15, <1>1, <1>2, <1>4, <1>5, <1>18 DEF Coming, Brings
<1>41. Latest(t)'
  BY <1>2, <1>39, <1>40 DEF Latest
<1>42. Others(t)
  BY <1>1, <1>4, <1>9 DEF Register, Others, TabsInv, Typed
<1> QED
  BY <1>1, <1>2, <1>4, <1>18, <1>26, <1>25, <1>27, <1>28, <1>30, <1>34, <1>42,
     <1>31, <1>33, <1>35, <1>36, <1>41, ThreadStep

----------------------------------------------------------------------------
(* The theorems                                                            *)

LEMMA TabsInit == Init => TabsInv
<1> SUFFICES ASSUME Init PROVE TabsInv
  OBVIOUS
<1>1. \A p \in Threads : th[p] = Rest
  BY DEF Init
<1>2. Rest.t = None /\ Rest.pc = "rest" /\ IsThread(Rest)
  BY DEF Rest, IsThread
<1>3. \A t \in Tabs : tab[t] = NoTab
  BY DEF Init
<1>4. /\ NoTab.kind = "none" /\ NoTab.dev = None /\ NoTab.inMap = FALSE
      /\ NoTab.status = "none" /\ NoTab.reason = "" /\ NoTab.canceled = FALSE
      /\ NoTab.opened = FALSE /\ NoTab.link = "none" /\ NoTab.closed = FALSE
      /\ NoTab.fin = "no" /\ NoTab.done = FALSE /\ NoTab.exits = 0
      /\ NoTab.outClosed = FALSE
  BY DEF NoTab
<1>5. /\ NoTab.users = 0 /\ NoTab.drains = 0 /\ NoTab.gen = 0 /\ NoTab.buf = 0
      /\ NoTab.dropped = 0 /\ NoTab.chunk = 0 /\ NoTab.accepted = 0 /\ NoTab.emitted = 0
      /\ NoTab.exits = 0
  BY DEF NoTab
<1>6. /\ NoTab.size = Default /\ NoTab.pty = None /\ NoTab.settings = Default
      /\ NoTab.mode = None /\ NoTab.pending = None /\ NoTab.latest = Default
      /\ NoTab.disturbed = FALSE
  BY DEF NoTab
<1>7. IsTab(NoTab)
  <2>1. DOMAIN NoTab = Fields
    BY DEF NoTab, Fields
  <2>2. LifeTyped(NoTab)
    BY <1>4 DEF LifeTyped
  <2>3. FdTyped(NoTab)
    BY DEF NoTab, FdTyped
  <2>4. LineTyped(NoTab)
    BY <1>6, TabsAssumption DEF LineTyped
  <2>5. Numbers(NoTab)
    BY <1>5 DEF Numbers
  <2> QED
    BY <2>1, <2>2, <2>3, <2>4, <2>5 DEF IsTab
<1>8. Typed
  BY <1>1, <1>2, <1>3, <1>7 DEF Init, Typed
<1>9. ASSUME NEW t \in Tabs PROVE TabOK(t)
  <2>1. \A p \in Threads : th[p].t # t
    BY <1>1, <1>2
  <2>2. OneOpens(t)
    BY <2>1 DEF OneOpens, Opens
  <2>3. Fd(tab[t], Busy(t))
    <3>1. ~Busy(t)
      BY <2>1 DEF Busy
    <3>2. NoTab.opened = FALSE /\ NoTab.closed = FALSE
      BY <1>4
    <3> QED
      BY <1>3, <1>5, <3>1, <3>2 DEF Fd
  <2>4. Life(tab[t])
    BY <1>3, <1>4 DEF Life
  <2>5. Counted(tab[t])
    <3>1. NoTab.fin = "no"
      BY <1>4
    <3> QED
      BY <1>3, <1>5, <3>1 DEF Counted
  <2>6. Owns(t)
    BY <1>3, <1>4 DEF Owns, Init
  <2>7. Window(t) /\ Line(t) /\ Latest(t)
    BY <1>3, <1>4 DEF Window, Line, Latest, Undisturbed
  <2> QED
    BY <2>1, <2>2, <2>3, <2>4, <2>5, <2>6, <2>7 DEF TabOK
<1> QED
  BY <1>1, <1>8, <1>9 DEF TabsInv

LEMMA TabsNext == TabsInv /\ [Next]_vars => TabsInv'
<1> SUFFICES ASSUME TabsInv, [Next]_vars PROVE TabsInv'
  OBVIOUS
<1>1. ASSUME NEW p \in Threads, NEW t \in Tabs, Start(p, t) PROVE TabsInv'
  BY <1>1, RegisterSerialStep, RegisterSshStep DEF Start
<1>2. ASSUME NEW p \in Threads, NEW t \in Tabs, Request(p, t) PROVE TabsInv'
  BY <1>2, ResizeStep, SaveSettingsStep, WriteStep, BreakStep, CloseStep DEF Request
<1>3. ASSUME NEW p \in Threads, Step(p) PROVE TabsInv'
  <2>1. CASE \E ok \in BOOLEAN : Dial(p, ok) \/ RequestPty(p, ok) \/ ApplyMode(p, ok)
                                 \/ WriteDone(p, ok)
    BY <2>1, DialStep, RequestPtyStep, ApplyModeStep, WriteDoneStep
  <2>2. CASE ReadSize(p) \/ Commit(p) \/ FailStart(p) \/ TakePending(p)
    BY <2>2, ReadSizeStep, CommitStep, FailStartStep, TakePendingStep
  <2>3. CASE ResizeLock(p) \/ WindowChange(p) \/ WriteLock(p) \/ BreakLock(p)
             \/ BreakDrained(p) \/ BreakDone(p)
    BY <2>3, ResizeLockStep, WindowChangeStep, WriteLockStep, BreakLockStep,
       BreakDrainedStep, BreakDoneStep
  <2>4. CASE Apply(p) \/ ApplyWrite(p) \/ Applied(p)
    BY <2>4, ApplyStep, ApplyWriteStep, AppliedStep
  <2> QED
    BY <1>3, <2>1, <2>2, <2>3, <2>4 DEF Step
<1>4. ASSUME NEW t \in Tabs, Background(t) \/ RemoteEnds(t) \/ Output(t) PROVE TabsInv'
  BY <1>4, DrainEndsStep, TakeChunkStep, EmitChunkStep, FinishCloseStep, FinishDropStep,
     EmitExitStep, FailFlushedStep, RemoteEndsStep, OutputStep DEF Background
<1>5. CASE UNCHANGED vars
  <2>1. tab' = tab /\ owner' = owner /\ th' = th
    BY <1>5 DEF vars
  <2>2. Typed'
    BY <2>1 DEF TabsInv, Typed
  <2>3. ASSUME NEW t \in Tabs PROVE TabOK(t)'
    <3>1. TabOK(t)
      BY DEF TabsInv
    <3>2. (Busy(t)' <=> Busy(t)) /\ OneOpens(t)' /\ Owns(t)' /\ Window(t)' /\ Line(t)'
      BY <2>1, <3>1 DEF TabOK, Busy, OneOpens, Opens, Owns, Window, Line
    <3>3. Fd(tab[t], Busy(t))'
      BY <2>1, <3>1, <3>2 DEF TabOK, Fd
    <3>4. Latest(t)'
      BY <2>1, <3>1 DEF TabOK, Latest, Carried, Coming
    <3> QED
      BY <2>1, <3>1, <3>2, <3>3, <3>4 DEF TabOK
  <2> QED
    BY <2>1, <2>2, <2>3 DEF TabsInv
<1> QED
  BY <1>1, <1>2, <1>3, <1>4, <1>5 DEF Next

(* The invariant of terminal.go and terminal_signal.go: what every call    *)
(* that holds no lock may still rely on, at each of its steps.             *)
THEOREM TabsInvHolds == Spec => []TabsInv
BY TabsInit, TabsNext, PTL DEF Spec

(* At most one call is on the fd at a time besides the Drains: the one that *)
(* has writeMu.                                                            *)
LEMMA CountOnFd ==
  ASSUME TabsInv, NEW t \in Tabs
  PROVE  OnTheFd(t) = tab[t].users
<1> DEFINE S == {p \in Threads : th[p].t = t /\ th[p].pc \in {"write", "break", "applyMode"}}
<1>1. TabOK(t) /\ tab[t].drains \in Nat
  BY DEF TabsInv, Typed, IsTab, Numbers
<1>2. OnTheFd(t) = tab[t].drains + Cardinality(S)
  BY DEF OnTheFd
<1>3. Busy(t) <=> S # {}
  BY DEF Busy
<1>4. tab[t].users = tab[t].drains + IF S # {} THEN 1 ELSE 0
  BY <1>1, <1>3 DEF TabOK, Fd
<1>5. CASE S = {}
  <2>1. Cardinality(S) = 0
    BY <1>5, FS_EmptySet
  <2> QED
    BY <1>1, <1>2, <1>4, <1>5, <2>1
<1>6. CASE S # {}
  <2>1. PICK p : p \in S
    BY <1>6
  <2>2. \A q \in S : q = p
    BY <1>1, <2>1 DEF TabOK, Works
  <2>3. S = {p}
    BY <2>1, <2>2
  <2>4. Cardinality(S) = 1
    BY <2>3, FS_Singleton
  <2> QED
    BY <1>1, <1>2, <1>4, <1>6, <2>4
<1> QED
  BY <1>5, <1>6

(* However Write, Break, Drain and the settings interleave with closePort  *)
(* and release, none of them runs on a port whose fd was closed.           *)
THEOREM ClosedPortsAreNotUsed == Spec => []NoUseAfterClose
<1>1. TabsInv => NoUseAfterClose
  <2> SUFFICES ASSUME TabsInv, NEW t \in Tabs, OnTheFd(t) > 0 PROVE tab[t].link = "open"
    BY DEF NoUseAfterClose
  <2>1. Fd(tab[t], Busy(t)) /\ tab[t].users > 0
    BY CountOnFd DEF TabsInv, TabOK
  <2> QED
    BY <2>1 DEF Fd
<1> QED
  BY <1>1, TabsInvHolds, PTL

(* finishTerminal and failTerminalStart leave no map entry, no reservation *)
(* and no open connection, wherever the start or the close was when the tab *)
(* ended; and serialOwners names the tab that is on the device.            *)
THEOREM GoneTabsLeaveNothing == Spec => []GoneLeavesNothing
<1>1. TabsInv => GoneLeavesNothing
  <2> SUFFICES ASSUME TabsInv PROVE GoneLeavesNothing
    OBVIOUS
  <2>1. ASSUME NEW t \in Tabs, tab[t].done
        PROVE  ~tab[t].inMap /\ (tab[t].link = "open" =>
                 tab[t].kind = "serial" /\ OnTheFd(t) > 0)
    <3>1. /\ Life(tab[t]) /\ Fd(tab[t], Busy(t)) /\ LifeTyped(tab[t])
          /\ tab[t].users \in Nat
      BY DEF TabsInv, TabOK, Typed, IsTab, Numbers
    <3>2. tab[t].fin \in {"exit", "over"}
      BY <2>1, <3>1 DEF Life
    <3>3. ~tab[t].inMap
      BY <3>1, <3>2 DEF Life
    <3>4. tab[t].link = "open" => tab[t].kind = "serial" /\ tab[t].closed
      BY <3>1, <3>2 DEF Life
    <3>5. tab[t].closed /\ tab[t].link = "open" => tab[t].users # 0
      BY <3>1 DEF Fd
    <3> QED
      BY <3>1, <3>3, <3>4, <3>5, CountOnFd
  <2>2. \A d \in Devices, t \in Tabs : owner[d] = t <=> tab[t].inMap /\ tab[t].dev = d
    BY DEF TabsInv, TabOK, Owns
  <2> QED
    BY <2>1, <2>2 DEF GoneLeavesNothing
<1> QED
  BY <1>1, TabsInvHolds, PTL

(* terminal:exit comes once, for a tab that was open, and after the output: *)
(* out.close returns when nothing is pending, and nothing is accepted after *)
(* it.                                                                     *)
THEOREM ExitsComeLast == Spec => []ExitIsLast
<1>1. TabsInv => ExitIsLast
  <2> SUFFICES ASSUME TabsInv, NEW t \in Tabs, NEW r, r = tab[t]
               PROVE  /\ r.exits <= (IF r.opened THEN 1 ELSE 0)
                      /\ r.fin = "over" => r.exits = IF r.opened THEN 1 ELSE 0
                      /\ r.exits = 1 => r.emitted = r.accepted
                      /\ r.accepted = r.emitted + r.chunk + r.buf + r.dropped
    BY DEF ExitIsLast
  <2>1. Life(r) /\ Counted(r) /\ Numbers(r)
    BY DEF TabsInv, TabOK, Typed, IsTab
  <2>2. r.exits = IF r.fin = "over" /\ r.opened THEN 1 ELSE 0
    BY <2>1 DEF Life
  <2>3. r.fin = "over" => r.buf = 0 /\ r.dropped = 0 /\ r.chunk = 0
    BY <2>1 DEF Counted
  <2>4. r.accepted = r.emitted + r.chunk + r.buf + r.dropped
    BY <2>1 DEF Counted
  <2> QED
    BY <2>1, <2>2, <2>3, <2>4 DEF Numbers
<1> QED
  BY <1>1, TabsInvHolds, PTL

(* Whatever order ResizeTerminal and applySerialSettings reach their locks *)
(* in, and whichever of them came while the tab was connecting: when nobody *)
(* is at work on the tab, the window has the size stored last and the port *)
(* the settings saved last.                                                *)
THEOREM TheLatestWins == Spec => []LatestWins
<1>1. TabsInv => LatestWins
  <2> SUFFICES ASSUME TabsInv, NEW t \in Tabs, tab[t].opened, Quiet(t)
               PROVE  /\ tab[t].kind = "ssh" /\ tab[t].link = "open" => tab[t].pty = tab[t].size
                      /\ tab[t].kind = "serial" /\ tab[t].reason = "" =>
                           /\ tab[t].mode = tab[t].settings
                           /\ ~tab[t].disturbed => tab[t].settings = tab[t].latest
    BY DEF LatestWins
  <2>1. (\A p \in Threads : th[p].t # t) /\ TabOK(t)
    BY DEF Quiet, TabsInv
  <2>2. tab[t].kind = "ssh" /\ tab[t].link = "open" => tab[t].pty = tab[t].size
    BY <2>1 DEF TabOK, Window
  <2>3. tab[t].kind = "serial" => tab[t].mode = tab[t].settings
    BY <2>1 DEF TabOK, Line
  <2>4. tab[t].kind = "serial" /\ tab[t].reason = "" /\ ~tab[t].disturbed =>
          tab[t].settings = tab[t].latest
    BY <2>1 DEF TabOK, Latest, Undisturbed, Coming, Brings
  <2> QED
    BY <2>2, <2>3, <2>4
<1> QED
  BY <1>1, TabsInvHolds, PTL

=============================================================================
