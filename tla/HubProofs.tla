------------------------------ MODULE HubProofs ------------------------------
(***************************************************************************)
(* Whatever streams are opened, replaced, cut, closed as too slow or       *)
(* resumed, for any number of browsers, streams, sessions and terminals    *)
(* and any sizes of the queues and of the ring: a browser misses no event  *)
(* without being told, and a stream with nothing left to write has brought *)
(* its browser up to date.                                                 *)
(***************************************************************************)
EXTENDS EventHub, TLAPS

(* What is sent, and what is kept of a stream and of a browser.            *)
Id == [epoch : Nat, seq : Nat]
Maps == UNION {[T -> Nat] : T \in SUBSET Terminals}

EventFrame == [id : Id, kind : {"data", "exit"}, t : Terminals, off : Nat]
ResyncFrame == [id : Id, kind : {"resync"}, known : Maps, gone : SUBSET Terminals]
HeadFrame == EventFrame \cup ResyncFrame

StreamRec ==
  [pc : {"admitted", "head", "serve"}, browser : Browsers, session : Sessions,
   last : Id, heard : BOOLEAN, open : BOOLEAN,
   reason : {"", "slow", "limit", "session", "shutdown"}, late : BOOLEAN,
   queue : Seq(EventFrame), head : Seq(HeadFrame)]

ViewRec ==
  [id : Id, hole : BOOLEAN, known : Maps, gone : SUBSET Terminals, mine : SUBSET Terminals]

HubTyped ==
  /\ epoch \in Nat \ {0} /\ seq \in Nat
  /\ ring \in Seq(EventFrame)
  /\ offsets \in Maps
  /\ exits \in Seq(Terminals)
  /\ stopped \in BOOLEAN
  /\ term \in [Terminals -> {"none", "live", "gone"}]

StreamsTyped == stream \in [Streams -> StreamRec \cup {Free}]

(* A page knows no terminal that it saw exit, and every running one of its *)
(* own.                                                                    *)
Tidy(v) ==
  /\ DOMAIN v.known \cap v.gone = {}
  /\ \A t \in v.mine : term[t] # "none" /\ (term[t] = "live" => t \in DOMAIN v.known)

ViewsTyped ==
  /\ view \in [Browsers -> ViewRec]
  /\ \A b \in Browsers : view[b].id.epoch <= epoch /\ Tidy(view[b])

(* Only streams past attach are listed, and none once the hub is stopped.  *)
ClientsServed ==
  /\ clients \subseteq {s \in Streams : stream[s].pc \in {"head", "serve"}}
  /\ stopped => clients = {}

(* A stream says goodbye only when the hub is stopped.                     *)
GoodbyeIsTrue ==
  \A s \in Streams :
    (stream[s].pc # "free" /\ stream[s].reason = "shutdown") => stopped

(* A browser listens to one stream.                                        *)
OneHeard ==
  \A r, s \in Streams :
    (/\ stream[r].pc # "free" /\ stream[r].heard
     /\ stream[s].pc # "free" /\ stream[s].heard
     /\ stream[r].browser = stream[s].browser) => r = s

(* The last event id a request carries is still that of its browser.       *)
LastIsFresh ==
  \A s \in Streams :
    (stream[s].pc = "admitted" /\ stream[s].heard) => stream[s].last = view[stream[s].browser].id

(* L is the history of this epoch: L[n] is the event with number n, with   *)
(* the offsets after it and the terminals that have ended by then.         *)
Logged(L) ==
  /\ L[seq].known = offsets
  /\ ToSet(exits) \subseteq L[seq].gone
  /\ DOMAIN offsets \subseteq {t \in Terminals : term[t] = "live"}
  /\ \A n \in 0..seq : /\ L[n].gone \subseteq {t \in Terminals : term[t] = "gone"}
                       /\ DOMAIN L[n].known \subseteq {t \in Terminals : term[t] # "none"}
  /\ \A n \in 1..seq : L[n].event.kind = "data" => L[n].event.t \notin L[n - 1].gone
  /\ \A n \in 1..seq :
       /\ L[n].event \in EventFrame
       /\ L[n].event.id = [epoch |-> epoch, seq |-> n]
       /\ L[n].known = Counted(L[n - 1].known, L[n].event.kind, L[n].event.t, L[n].event.off)
       /\ L[n].gone = IF L[n].event.kind = "exit"
                      THEN L[n - 1].gone \cup {L[n].event.t} ELSE L[n - 1].gone

(* The frames of q are the events after number n.                          *)
Follow(L, n, q) ==
  /\ n \in Nat /\ n + Len(q) <= seq
  /\ \A i \in 1..Len(q) : q[i] = L[n + i].event

(* The ring is the end of the history.                                     *)
RingFits(L) == Len(ring) <= seq /\ Follow(L, seq - Len(ring), ring)

(* What a resync brings: the number of event n, the output of every        *)
(* terminal up to it, and the ends that are still kept.                    *)
Knows(L, n, known, gone) ==
  /\ n \in 0..seq
  /\ known = L[n].known
  /\ ToSet(exits) \cap L[n].gone \subseteq gone
  /\ gone \subseteq {t \in Terminals : term[t] = "gone"}

(* What a page makes of the events up to its last: the output of the       *)
(* terminals it knows, none of which has ended that are still kept.        *)
Sees(L, v) ==
  /\ v.id.seq \in 0..seq
  /\ \A t \in DOMAIN v.known \cap DOMAIN L[v.id.seq].known :
       v.known[t] = L[v.id.seq].known[t]
  /\ (ToSet(exits) \cap L[v.id.seq].gone) \cap DOMAIN v.known = {}

(* What the queue of stream s holds after number n; nothing is missing     *)
(* while the stream is listed.                                             *)
QueueFits(L, s, n) ==
  /\ Follow(L, n, stream[s].queue)
  /\ s \in clients => n + Len(stream[s].queue) = seq

(* A resync is still to be written, and the queue goes on after it.        *)
ResyncPending(L, s) ==
  LET c == stream[s]
      r == c.head[1]
  IN  /\ c.pc = "head" /\ Len(c.head) = 1
      /\ r.kind = "resync" /\ r.id.epoch = epoch
      /\ Knows(L, r.id.seq, r.known, r.gone)
      /\ QueueFits(L, s, r.id.seq)

(* Head and queue go on where the browser is.                              *)
EventsPending(L, s) ==
  LET c == stream[s]
      v == view[c.browser]
  IN  /\ v.id.epoch = epoch
      /\ Follow(L, v.id.seq, c.head)
      /\ QueueFits(L, s, v.id.seq + Len(c.head))
      /\ c.pc = "serve" => c.head = <<>>

(* Every stream that is heard leads its browser up to its last frame.      *)
StreamsFit(L) ==
  \A s \in Streams :
    (stream[s].pc \in {"head", "serve"} /\ stream[s].heard)
      => ResyncPending(L, s) \/ EventsPending(L, s)

(* What the browsers of this epoch know, unless a shutdown was announced.  *)
ViewsFit(L) ==
  ~stopped =>
    \A b \in Browsers :
      view[b].id.epoch = epoch
        => ~view[b].hole /\ Sees(L, view[b])

HistoryFits(L) == Logged(L) /\ RingFits(L) /\ StreamsFit(L) /\ ViewsFit(L)

(* The inductive invariant.  Logged's history is not a variable of the     *)
(* hub, which forgets events: that there is one is what the steps keep.    *)
HubInv ==
  /\ HubTyped /\ StreamsTyped /\ ViewsTyped
  /\ ClientsServed /\ GoodbyeIsTrue /\ OneHeard /\ LastIsFresh /\ OnlyLateStreamsSurvive
  /\ \E L : HistoryFits(L)

-----------------------------------------------------------------------------
(* A request that is not over has all the fields of a stream.              *)
LEMMA StreamHasFields ==
  ASSUME StreamsTyped, NEW s \in Streams, stream[s].pc # "free"
  PROVE  stream[s] \in StreamRec
<1>1. stream[s] \in StreamRec \/ stream[s] = Free
  BY DEF StreamsTyped
<1> QED BY <1>1 DEF Free

(* kickLocked keeps everything of a stream but open and reason.            *)
LEMMA KickedStream ==
  ASSUME NEW st \in [Streams -> StreamRec \cup {Free}], NEW S \in SUBSET Streams,
         NEW why \in {"slow", "limit", "session", "shutdown"},
         \A s \in S : st[s] \in StreamRec
  PROVE  /\ Kick(st, S, why) \in [Streams -> StreamRec \cup {Free}]
         /\ \A s \in Streams :
              /\ Kick(st, S, why)[s].pc = st[s].pc
              /\ st[s].pc = "free" => Kick(st, S, why)[s] = Free
              /\ st[s].pc # "free" =>
                   LET k == Kick(st, S, why)[s]
                       c == st[s]
                   IN  /\ k.browser = c.browser /\ k.session = c.session
                       /\ k.last = c.last /\ k.heard = c.heard /\ k.late = c.late
                       /\ k.queue = c.queue /\ k.head = c.head
                       /\ k.reason \in {c.reason, why}
<1> DEFINE K == Kick(st, S, why)
<1>1. SUFFICES ASSUME NEW s \in Streams
      PROVE  /\ K[s] \in StreamRec \cup {Free}
             /\ K[s].pc = st[s].pc
             /\ st[s].pc = "free" => K[s] = Free
             /\ st[s].pc # "free" =>
                  /\ K[s].browser = st[s].browser /\ K[s].session = st[s].session
                  /\ K[s].last = st[s].last /\ K[s].heard = st[s].heard /\ K[s].late = st[s].late
                  /\ K[s].queue = st[s].queue /\ K[s].head = st[s].head
                  /\ K[s].reason \in {st[s].reason, why}
  <2>1. K = [s1 \in Streams |-> K[s1]]
    BY DEF Kick
  <2> QED BY <1>1, <2>1, Zenon
<1>2. CASE s \in S /\ st[s].open
  <2>1. K[s] = [st[s] EXCEPT !.open = FALSE, !.reason = why]
    BY <1>2 DEF Kick
  <2>2. st[s] \in StreamRec
    BY <1>2
  <2>3. PICK c \in StreamRec : c = st[s]
    BY <2>2
  <2>4. K[s] = [c EXCEPT !.open = FALSE, !.reason = why]
    BY <2>1, <2>3
  <2> HIDE DEF K
  <2>5. K[s] \in StreamRec /\ K[s].pc = c.pc
    BY <2>4 DEF StreamRec
  <2>6. /\ K[s].browser = c.browser /\ K[s].session = c.session
        /\ K[s].last = c.last /\ K[s].heard = c.heard /\ K[s].late = c.late
        /\ K[s].queue = c.queue /\ K[s].head = c.head
        /\ K[s].reason \in {c.reason, why}
    BY <2>4 DEF StreamRec
  <2>7. c.pc # "free"
    BY DEF StreamRec
  <2> QED BY <2>3, <2>5, <2>6, <2>7
<1>3. CASE ~(s \in S /\ st[s].open)
  <2>1. K[s] = st[s]
    BY <1>3 DEF Kick
  <2>2. st[s] \in StreamRec \/ st[s] = Free
    OBVIOUS
  <2>3. st[s].pc = "free" => st[s] = Free
    BY <2>2 DEF StreamRec
  <2> QED BY <2>1, <2>2, <2>3
<1> QED BY <1>2, <1>3

(* The offsets stay a map from terminals.                                  *)
LEMMA MapsStay ==
  ASSUME NEW f \in Maps, NEW t \in Terminals
  PROVE  /\ \A n \in Nat : With(f, t, n) \in Maps
         /\ Less(f, t) \in Maps
<1>1. PICK T \in SUBSET Terminals : f \in [T -> Nat]
  BY DEF Maps
<1>2. ASSUME NEW n \in Nat PROVE With(f, t, n) \in Maps
  <2>1. With(f, t, n) \in [T \cup {t} -> Nat]
    BY <1>1 DEF With
  <2>2. T \cup {t} \in SUBSET Terminals
    OBVIOUS
  <2> QED BY <2>1, <2>2 DEF Maps
<1>3. Less(f, t) \in Maps
  <2>1. Less(f, t) \in [T \ {t} -> Nat]
    BY <1>1 DEF Less
  <2>2. T \ {t} \in SUBSET Terminals
    OBVIOUS
  <2> QED BY <2>1, <2>2 DEF Maps
<1> QED BY <1>2, <1>3

(* A map of no terminals.                                                  *)
LEMMA EmptyMap == <<>> \in Maps
<1>1. <<>> \in [{} -> Nat]
  OBVIOUS
<1> QED BY <1>1 DEF Maps

-----------------------------------------------------------------------------
(* Steps that publish nothing.                                             *)
Steady ==
  /\ UNCHANGED <<epoch, seq, ring, offsets>>
  /\ exits' \in Seq(Terminals) /\ ToSet(exits') \subseteq ToSet(exits)
  /\ stopped' \in BOOLEAN
  /\ term' \in [Terminals -> {"none", "live", "gone"}]
  /\ \A t \in Terminals : term[t] # "none" => term'[t] = term[t]

(* The history is what it was.                                             *)
LEMMA SteadyLog ==
  ASSUME Steady, HubTyped, NEW L, Logged(L), RingFits(L)
  PROVE  /\ HubTyped' /\ Logged(L)' /\ RingFits(L)'
         /\ \A n, known, gone : Knows(L, n, known, gone) => Knows(L, n, known, gone)'
         /\ \A w : Sees(L, w) => Sees(L, w)'
         /\ \A w \in ViewRec : Tidy(w) => Tidy(w)'
<1>1. HubTyped'
  BY DEF HubTyped, Steady
<1>2. RingFits(L)'
  BY DEF RingFits, Follow, Steady
<1>3. \A n, known, gone : Knows(L, n, known, gone) => Knows(L, n, known, gone)'
  <2>1. SUFFICES ASSUME NEW n, NEW known, NEW gone, Knows(L, n, known, gone)
        PROVE  Knows(L, n, known, gone)'
    OBVIOUS
  <2> QED BY <2>1 DEF Knows, Steady
<1>7. \A w : Sees(L, w) => Sees(L, w)'
  <2>1. SUFFICES ASSUME NEW w, Sees(L, w) PROVE Sees(L, w)'
    OBVIOUS
  <2> QED BY <2>1 DEF Sees, Steady
<1>8. \A w \in ViewRec : Tidy(w) => Tidy(w)'
  <2>1. SUFFICES ASSUME NEW w \in ViewRec, Tidy(w) PROVE Tidy(w)'
    OBVIOUS
  <2>2. w.mine \subseteq Terminals
    BY DEF ViewRec
  <2> QED BY <2>1, <2>2 DEF Tidy, Steady
<1>4. L[seq'].known = offsets' /\ ToSet(exits') \subseteq L[seq'].gone
  BY DEF Logged, Steady
<1>5. DOMAIN offsets' \subseteq {t \in Terminals : term'[t] = "live"}
  BY DEF Logged, Steady
<1>6. \A n \in 0..seq' : /\ L[n].gone \subseteq {t \in Terminals : term'[t] = "gone"}
                         /\ DOMAIN L[n].known \subseteq {t \in Terminals : term'[t] # "none"}
  <2>1. SUFFICES ASSUME NEW n \in 0..seq
        PROVE  /\ L[n].gone \subseteq {t \in Terminals : term'[t] = "gone"}
               /\ DOMAIN L[n].known \subseteq {t \in Terminals : term'[t] # "none"}
    BY DEF Steady
  <2> QED BY <2>1 DEF Logged, Steady
<1> QED BY <1>1, <1>2, <1>3, <1>4, <1>5, <1>6, <1>7, <1>8 DEF Logged, Steady

(* Stream s, if it is not over, is the one it was, perhaps no longer heard *)
(* and no longer listed.                                                   *)
Kept(s) ==
  stream'[s].pc # "free" =>
    /\ stream'[s].pc = stream[s].pc
    /\ stream'[s].browser = stream[s].browser
    /\ stream'[s].session = stream[s].session
    /\ stream'[s].last = stream[s].last
    /\ stream'[s].late = stream[s].late
    /\ stream'[s].queue = stream[s].queue
    /\ stream'[s].head = stream[s].head
    /\ stream'[s].heard => stream[s].heard
    /\ s \in clients' => s \in clients

(* The browser that listens to s knows what it knew.                       *)
SameView(s) ==
  stream'[s].pc # "free" /\ stream'[s].heard =>
    view'[stream[s].browser].id = view[stream[s].browser].id

(* A stream that stays the same still leads up to the last event.          *)
LEMMA KeptStreamFits ==
  ASSUME Steady, NEW L, StreamsFit(L), NEW s \in Streams, Kept(s), SameView(s),
         \A n, known, gone : Knows(L, n, known, gone) => Knows(L, n, known, gone)',
         stream'[s].pc \in {"head", "serve"}, stream'[s].heard
  PROVE  (ResyncPending(L, s) \/ EventsPending(L, s))'
<1>1. /\ stream'[s].pc = stream[s].pc /\ stream'[s].browser = stream[s].browser
      /\ stream'[s].queue = stream[s].queue /\ stream'[s].head = stream[s].head
      /\ stream[s].heard /\ (s \in clients' => s \in clients)
      /\ stream[s].pc # "free"
  BY DEF Kept
<1>2. epoch' = epoch /\ seq' = seq
  BY DEF Steady
<1>3. \A n : QueueFits(L, s, n) => QueueFits(L, s, n)'
  BY <1>1, <1>2 DEF QueueFits, Follow
<1>4. ResyncPending(L, s) \/ EventsPending(L, s)
  BY <1>1 DEF StreamsFit
<1>5. CASE ResyncPending(L, s)
  <2>1. Knows(L, stream[s].head[1].id.seq, stream[s].head[1].known, stream[s].head[1].gone)'
    <3> DEFINE r == stream[s].head[1]
    <3>1. r.id.seq' = r.id.seq /\ r.known' = r.known /\ r.gone' = r.gone
      BY <1>1
    <3>2. Knows(L, r.id.seq, r.known, r.gone)
      BY <1>5 DEF ResyncPending
    <3> HIDE DEF r
    <3>3. PICK n, known, gone : n = r.id.seq /\ known = r.known /\ gone = r.gone
      OBVIOUS
    <3>4. Knows(L, n, known, gone)'
      BY <3>2, <3>3
    <3> QED BY <3>1, <3>3, <3>4 DEF r, Knows
  <2>2. QueueFits(L, s, stream[s].head[1].id.seq)'
    <3>1. PICK n : n = stream[s].head[1].id.seq
      OBVIOUS
    <3>2. QueueFits(L, s, n)'
      BY <1>3, <1>5, <3>1 DEF ResyncPending
    <3> QED BY <1>1, <3>1, <3>2
  <2> QED BY <1>1, <1>2, <1>5, <2>1, <2>2 DEF ResyncPending
<1>6. CASE EventsPending(L, s)
  <2>1. view'[stream'[s].browser].id = view[stream[s].browser].id
    BY <1>1 DEF SameView
  <2>2. Follow(L, view[stream[s].browser].id.seq, stream[s].head)'
    BY <1>1, <1>2, <1>6, <2>1 DEF EventsPending, Follow
  <2>3. QueueFits(L, s, view[stream[s].browser].id.seq + Len(stream[s].head))'
    <3>1. PICK n : n = view[stream[s].browser].id.seq + Len(stream[s].head)
      OBVIOUS
    <3>2. QueueFits(L, s, n)'
      BY <1>3, <1>6, <3>1 DEF EventsPending
    <3> QED BY <1>1, <2>1, <3>1, <3>2
  <2> QED BY <1>1, <1>2, <1>6, <2>1, <2>2, <2>3 DEF EventsPending
<1> QED BY <1>4, <1>5, <1>6

(* One browser listens to one stream, and a request's id stays fresh, when *)
(* the streams stay and the browsers that listen to them know no more.     *)
LEMMA KeptStreams ==
  ASSUME StreamsTyped, OneHeard, LastIsFresh, \A s \in Streams : Kept(s) /\ SameView(s)
  PROVE  OneHeard' /\ LastIsFresh'
<1>1. OneHeard'
  <2>1. SUFFICES ASSUME NEW r \in Streams, NEW s \in Streams,
                        stream'[r].pc # "free", stream'[r].heard,
                        stream'[s].pc # "free", stream'[s].heard,
                        stream'[r].browser = stream'[s].browser
        PROVE  r = s
    BY DEF OneHeard
  <2> QED BY <2>1 DEF OneHeard, Kept
<1>2. LastIsFresh'
  <2>1. SUFFICES ASSUME NEW s \in Streams, stream'[s].pc = "admitted", stream'[s].heard
        PROVE  stream'[s].last = view'[stream'[s].browser].id
    BY DEF LastIsFresh
  <2>2. /\ stream[s].pc = "admitted" /\ stream[s].heard /\ stream'[s].last = stream[s].last
        /\ stream'[s].browser = stream[s].browser
    BY <2>1 DEF Kept
  <2>3. view'[stream[s].browser].id = view[stream[s].browser].id
    BY <2>1 DEF SameView
  <2> QED BY <2>2, <2>3 DEF LastIsFresh
<1> QED BY <1>1, <1>2

(* A step that changes no stream but to close, end or mute it, lets no     *)
(* page hear anything and publishes nothing.                               *)
LEMMA MutedHubStep ==
  ASSUME HubInv, Steady, NEW L, HistoryFits(L), ViewsTyped', ViewsFit(L)',
         \A s \in Streams : Kept(s) /\ SameView(s),
         StreamsTyped', GoodbyeIsTrue', clients' \subseteq clients,
         \A s \in clients' : stream'[s].pc # "free",
         \A s \in clients' : stream[s].session \in told' => stream[s].session \in told,
         stopped' => clients' = {}
  PROVE  HubInv'
<1>2. /\ HubTyped' /\ Logged(L)' /\ RingFits(L)'
      /\ \A n, known, gone : Knows(L, n, known, gone) => Knows(L, n, known, gone)'
  BY SteadyLog DEF HubInv, HistoryFits
<1>4. StreamsFit(L)'
  <2>1. SUFFICES ASSUME NEW s \in Streams, stream'[s].pc \in {"head", "serve"}, stream'[s].heard
        PROVE  (ResyncPending(L, s) \/ EventsPending(L, s))'
    BY DEF StreamsFit
  <2> QED BY <1>2, <2>1, KeptStreamFits DEF HistoryFits
<1>6. OneHeard' /\ LastIsFresh'
  BY KeptStreams DEF HubInv
<1>8. ClientsServed'
  BY DEF HubInv, ClientsServed, Kept
<1>9. OnlyLateStreamsSurvive'
  BY DEF HubInv, OnlyLateStreamsSurvive, ClientsServed, Kept
<1> QED BY <1>2, <1>4, <1>6, <1>8, <1>9 DEF HubInv, HistoryFits

(* Pages that hear nothing still hold what they held.                      *)
LEMMA SameViewsTyped ==
  ASSUME HubInv, Steady, NEW L, HistoryFits(L), view' = view
  PROVE  ViewsTyped'
<1>1. \A w \in ViewRec : Tidy(w) => Tidy(w)'
  BY SteadyLog DEF HubInv, HistoryFits
<1>2. SUFFICES ASSUME NEW b \in Browsers PROVE Tidy(view[b])'
  BY DEF HubInv, ViewsTyped, Steady
<1>3. PICK w \in ViewRec : w = view[b] /\ Tidy(w)
  BY DEF HubInv, ViewsTyped
<1>4. Tidy(w)'
  BY <1>1, <1>3
<1> QED BY <1>3, <1>4 DEF Tidy

(* Pages that know no more still know enough.                              *)
LEMMA SameViewsFit ==
  ASSUME Steady, NEW L, ViewsFit(L), stopped => stopped', view' = view,
         \A w : Sees(L, w) => Sees(L, w)'
  PROVE  ViewsFit(L)'
<1>1. SUFFICES ASSUME ~stopped', NEW b \in Browsers, view[b].id.epoch = epoch
      PROVE  ~view[b].hole /\ Sees(L, view[b])'
  BY DEF ViewsFit, Steady
<1>2. ~view[b].hole /\ Sees(L, view[b])
  BY <1>1 DEF ViewsFit
<1>3. PICK w : w = view[b]
  OBVIOUS
<1>4. Sees(L, w)'
  BY <1>2, <1>3
<1> QED BY <1>2, <1>3, <1>4 DEF Sees

(* As MutedHubStep, when no page changes.                                  *)
LEMMA QuietHubStep ==
  ASSUME HubInv, Steady, view' = view, \A s \in Streams : Kept(s),
         StreamsTyped', GoodbyeIsTrue', clients' \subseteq clients,
         \A s \in clients' : stream'[s].pc # "free",
         \A s \in clients' : stream[s].session \in told' => stream[s].session \in told,
         stopped => stopped', stopped' => clients' = {}
  PROVE  HubInv'
<1>1. PICK L : HistoryFits(L)
  BY DEF HubInv
<1>2. \A w : Sees(L, w) => Sees(L, w)'
  BY <1>1, SteadyLog DEF HubInv, HistoryFits
<1>3. \A s \in Streams : SameView(s)
  BY DEF SameView
<1>4. ViewsFit(L)'
  BY <1>1, <1>2, SameViewsFit DEF HistoryFits
<1>5. ViewsTyped'
  BY <1>1, SameViewsTyped
<1> QED BY <1>1, <1>3, <1>4, <1>5, MutedHubStep

(* Steps of single streams and of sessions that tell no browser anything.  *)

(* The streams of S are closed by kickLocked and compactLocked.            *)
LEMMA KickStep ==
  ASSUME HubInv, Steady, view' = view, NEW S \in SUBSET clients,
         NEW why \in {"slow", "limit", "session", "shutdown"},
         stream' = Kick(stream, S, why), clients' = clients \ S,
         \A s \in clients' : stream[s].session \in told' => stream[s].session \in told,
         stopped => stopped', stopped' => clients' = {},
         why = "shutdown" => stopped'
  PROVE  HubInv'
<1>1. \A s \in clients : stream[s] \in StreamRec
  BY StreamHasFields DEF HubInv, ClientsServed
<1>2. S \subseteq Streams
  BY DEF HubInv, ClientsServed
<1>3. stream \in [Streams -> StreamRec \cup {Free}]
  BY DEF HubInv, StreamsTyped
<1>4. /\ stream' \in [Streams -> StreamRec \cup {Free}]
      /\ \A s \in Streams :
           /\ stream'[s].pc = stream[s].pc
           /\ stream[s].pc # "free" =>
                /\ stream'[s].browser = stream[s].browser /\ stream'[s].session = stream[s].session
                /\ stream'[s].last = stream[s].last /\ stream'[s].heard = stream[s].heard
                /\ stream'[s].late = stream[s].late
                /\ stream'[s].queue = stream[s].queue /\ stream'[s].head = stream[s].head
                /\ stream'[s].reason \in {stream[s].reason, why}
  <2>1. \A s \in S : stream[s] \in StreamRec
    BY <1>1
  <2> HIDE DEF StreamRec, Free
  <2> QED BY <1>2, <1>3, <2>1, KickedStream
<1>5. \A s \in Streams : Kept(s)
  BY <1>4 DEF Kept
<1>6. GoodbyeIsTrue'
  BY <1>4 DEF HubInv, GoodbyeIsTrue
<1>7. \A s \in clients' : stream'[s].pc # "free"
  BY <1>4 DEF HubInv, ClientsServed
<1>8. StreamsTyped'
  BY <1>4 DEF StreamsTyped
<1> QED BY <1>5, <1>6, <1>7, <1>8, QuietHubStep

(* closeSession                                                            *)
LEMMA CloseSessionKeeps ==
  ASSUME HubInv, NEW x \in Sessions, CloseSession(x)
  PROVE  HubInv'
<1>1. Steady
  BY DEF HubInv, HubTyped, Steady, CloseSession
<1>2. /\ view' = view /\ stopped' = stopped /\ clients' = clients \ Owned(x)
      /\ stream' = Kick(stream, Owned(x), "session") /\ told' = told \cup {x}
  BY DEF CloseSession, Without
<1>3. Owned(x) \in SUBSET clients
  BY DEF Owned
<1>4. \A s \in clients' : stream[s].session \in told' => stream[s].session \in told
  BY <1>2 DEF Owned
<1>5. stopped' => clients' = {}
  BY <1>2 DEF HubInv, ClientsServed
<1> QED BY <1>1, <1>2, <1>3, <1>4, <1>5, KickStep

(* shutdown                                                                *)
LEMMA ShutdownKeeps ==
  ASSUME HubInv, Shutdown
  PROVE  HubInv'
<1>1. Steady
  BY DEF HubInv, HubTyped, Steady, Shutdown
<1>2. /\ view' = view /\ stopped' = TRUE /\ clients' = clients \ clients /\ clients' = {}
      /\ stream' = Kick(stream, clients, "shutdown") /\ told' = told
  BY DEF Shutdown
<1> QED BY <1>1, <1>2, KickStep

(* A stream ends, written or refused: its record is free again.            *)
LEMMA StreamsWithout ==
  ASSUME HubInv, NEW s \in Streams, stream' = [stream EXCEPT ![s] = Free],
         clients' \subseteq clients \ {s}, stopped' = stopped
  PROVE  /\ StreamsTyped' /\ GoodbyeIsTrue' /\ ClientsServed'
         /\ \A r \in Streams : Kept(r)
         /\ stream'[s] = Free /\ \A r \in Streams \ {s} : stream'[r] = stream[r]
<1>1. stream'[s] = Free /\ \A r \in Streams \ {s} : stream'[r] = stream[r]
  BY DEF HubInv, StreamsTyped
<1>2. StreamsTyped'
  BY DEF HubInv, StreamsTyped
<1>3. stream'[s].pc = "free"
  BY <1>1 DEF Free
<1>4. GoodbyeIsTrue'
  BY <1>1, <1>3 DEF HubInv, GoodbyeIsTrue
<1>5. ClientsServed'
  BY <1>1 DEF HubInv, ClientsServed
<1>6. ASSUME NEW r \in Streams PROVE Kept(r)
  BY <1>1, <1>3 DEF Kept
<1> QED BY <1>1, <1>2, <1>4, <1>5, <1>6

(* The handler of a stream returns after a failed write.                   *)
LEMMA WriteFailsKeeps ==
  ASSUME HubInv, NEW s \in Streams, WriteFails(s)
  PROVE  HubInv'
<1>1. Steady
  BY DEF HubInv, HubTyped, Steady, WriteFails, End
<1>2. /\ view' = view /\ stopped' = stopped /\ told' = told
      /\ clients' = clients \ {s} /\ stream' = [stream EXCEPT ![s] = Free]
  BY DEF WriteFails, End, Without
<1>3. /\ StreamsTyped' /\ GoodbyeIsTrue' /\ ClientsServed'
      /\ \A r \in Streams : Kept(r)
  BY <1>2, StreamsWithout
<1>4. \A r \in clients' : stream'[r].pc # "free"
  BY <1>3 DEF ClientsServed
<1>5. stopped' => clients' = {}
  BY <1>3 DEF ClientsServed
<1> QED BY <1>1, <1>2, <1>3, <1>4, <1>5, QuietHubStep

(* attach refuses.                                                         *)
LEMMA RefuseKeeps ==
  ASSUME HubInv, NEW s \in Streams, Refuse(s)
  PROVE  HubInv'
<1>1. Steady
  BY DEF HubInv, HubTyped, Steady, Refuse, hub
<1>2. /\ view' = view /\ stopped' = stopped /\ told' = told
      /\ clients' = clients /\ stream' = [stream EXCEPT ![s] = Free]
  BY DEF Refuse, hub, registry
<1>3. s \notin clients
  BY DEF HubInv, ClientsServed, Refuse
<1>4. /\ StreamsTyped' /\ GoodbyeIsTrue' /\ ClientsServed'
      /\ \A r \in Streams : Kept(r)
  BY <1>2, <1>3, StreamsWithout
<1>5. \A r \in clients' : stream'[r].pc # "free"
  BY <1>4 DEF ClientsServed
<1>6. stopped' => clients' = {}
  BY <1>4 DEF ClientsServed
<1> QED BY <1>1, <1>2, <1>4, <1>5, <1>6, QuietHubStep

(* A session ends in adminAuth.                                            *)
LEMMA EndSessionKeeps ==
  ASSUME HubInv, NEW x \in Sessions, EndSession(x)
  PROVE  HubInv'
<1>1. UNCHANGED hub /\ stream' = stream /\ told' = told /\ view' = view /\ term' = term
  BY DEF EndSession
<1>2. /\ epoch' = epoch /\ seq' = seq /\ ring' = ring /\ offsets' = offsets
      /\ clients' = clients /\ stopped' = stopped /\ exits' = exits
  BY <1>1 DEF hub, registry
<1>4. Steady
  BY <1>1, <1>2 DEF HubInv, HubTyped, Steady
<1>5. StreamsTyped' /\ GoodbyeIsTrue' /\ ClientsServed'
  BY <1>1, <1>2 DEF HubInv, StreamsTyped, GoodbyeIsTrue, ClientsServed
<1>6. \A s \in Streams : Kept(s)
  BY <1>1, <1>2 DEF Kept
<1>7. \A s \in clients' : stream'[s].pc # "free"
  BY <1>5 DEF ClientsServed
<1>8. stopped' => clients' = {}
  BY <1>5 DEF ClientsServed
<1> QED BY <1>1, <1>2, <1>4, <1>5, <1>6, <1>7, <1>8, QuietHubStep

(* A page that changes by itself, hearing nothing, leaves the others.      *)
LEMMA ChangedView ==
  ASSUME HubInv, Steady, NEW L, HistoryFits(L), stopped' = stopped,
         NEW b \in Browsers, NEW u \in ViewRec, view' = [view EXCEPT ![b] = u],
         u.id.epoch <= epoch, Tidy(u)',
         ~stopped /\ u.id.epoch = epoch => ~u.hole /\ Sees(L, u)'
  PROVE  ViewsTyped' /\ ViewsFit(L)'
<1>1. /\ \A w : Sees(L, w) => Sees(L, w)'
      /\ \A w \in ViewRec : Tidy(w) => Tidy(w)'
  BY SteadyLog DEF HubInv, HistoryFits
<1>2. view'[b] = u /\ \A d \in Browsers \ {b} : view'[d] = view[d]
  BY DEF HubInv, ViewsTyped
<1>3. epoch' = epoch
  BY DEF Steady
<1>4. ASSUME NEW d \in Browsers
      PROVE  /\ view'[d] \in ViewRec /\ view'[d].id.epoch <= epoch' /\ Tidy(view[d])'
             /\ ~stopped /\ view'[d].id.epoch = epoch => ~view'[d].hole /\ Sees(L, view[d])'
  <2>1. CASE d = b
    BY <1>2, <1>3, <2>1 DEF Tidy, Sees
  <2>2. CASE d # b
    <3>1. PICK w \in ViewRec : w = view[d] /\ w = view'[d] /\ Tidy(w) /\ w.id.epoch <= epoch
      BY <1>2, <2>2 DEF HubInv, ViewsTyped
    <3>2. ~stopped /\ w.id.epoch = epoch => ~w.hole /\ Sees(L, w)
      BY <3>1 DEF HistoryFits, ViewsFit
    <3>3. Tidy(w)' /\ (Sees(L, w) => Sees(L, w)')
      BY <1>1, <3>1
    <3> QED BY <1>3, <3>1, <3>2, <3>3 DEF Tidy, Sees
  <2> QED BY <2>1, <2>2
<1>5. ViewsTyped'
  <2>1. view' \in [Browsers -> ViewRec]
    BY DEF HubInv, ViewsTyped
  <2> QED BY <1>4, <2>1 DEF ViewsTyped
<1> QED BY <1>3, <1>4, <1>5 DEF ViewsFit

(* A page asks for a terminal and tracks it.                               *)
LEMMA StartTerminalKeeps ==
  ASSUME HubInv, NEW b \in Browsers, NEW t \in Terminals, StartTerminal(b, t)
  PROVE  HubInv'
<1>1. PICK L : HistoryFits(L)
  BY DEF HubInv
<1>2. /\ UNCHANGED hub /\ stream' = stream /\ told' = told
      /\ term[t] = "none" /\ term' = [term EXCEPT ![t] = "live"]
  BY DEF StartTerminal
<1>3. /\ epoch' = epoch /\ seq' = seq /\ ring' = ring /\ offsets' = offsets
      /\ clients' = clients /\ stopped' = stopped /\ exits' = exits
  BY <1>2 DEF hub, registry
<1>4. term' \in [Terminals -> {"none", "live", "gone"}] /\ term'[t] = "live"
      /\ \A x \in Terminals \ {t} : term'[x] = term[x]
  BY <1>2 DEF HubInv, HubTyped
<1>5. Steady
  BY <1>2, <1>3, <1>4 DEF HubInv, HubTyped, Steady
<1>6. PICK v \in ViewRec : v = view[b] /\ Tidy(v) /\ v.id.epoch <= epoch
  BY DEF HubInv, ViewsTyped
<1> DEFINE known == With(v.known, t, 0)
           u == [v EXCEPT !.known = known, !.gone = @ \ {t}, !.mine = @ \cup {t}]
<1>7. view' = [view EXCEPT ![b] = u]
  <2>1. view' = [view EXCEPT ![b].known = With(@, t, 0), ![b].gone = @ \ {t},
                            ![b].mine = @ \cup {t}]
    BY DEF StartTerminal
  <2> QED BY <1>6, <2>1 DEF HubInv, ViewsTyped
<1>8. known \in Maps /\ DOMAIN known = DOMAIN v.known \cup {t}
      /\ \A x \in DOMAIN v.known \ {t} : known[x] = v.known[x]
  <2>1. v.known \in Maps
    BY DEF ViewRec
  <2>2. known \in Maps
    BY <2>1, MapsStay
  <2> QED BY <2>2 DEF With
<1> HIDE DEF known
<1>9. /\ u \in ViewRec /\ u.id = v.id /\ u.hole = v.hole /\ u.known = known
      /\ u.gone = v.gone \ {t} /\ u.mine = v.mine \cup {t}
  BY <1>8 DEF ViewRec
<1> HIDE DEF u
<1>10. Tidy(u)'
  <2>1. DOMAIN u.known \cap u.gone = {}
    BY <1>6, <1>8, <1>9 DEF Tidy
  <2>2. v.mine \subseteq Terminals
    BY DEF ViewRec
  <2>3. \A x \in u.mine : term'[x] # "none" /\ (term'[x] = "live" => x \in DOMAIN u.known)
    BY <1>4, <1>6, <1>8, <1>9, <2>2 DEF Tidy
  <2> QED BY <2>1, <2>3 DEF Tidy
<1>11. ASSUME ~stopped, u.id.epoch = epoch PROVE ~u.hole /\ Sees(L, u)'
  <2>1. ~v.hole /\ Sees(L, v)
    BY <1>1, <1>6, <1>9, <1>11 DEF HistoryFits, ViewsFit
  <2>2. PICK n \in 0..seq : n = v.id.seq
    BY <2>1 DEF Sees
  <2>3. t \notin DOMAIN L[n].known /\ t \notin L[n].gone
    BY <1>1, <1>2, <2>2 DEF HistoryFits, Logged
  <2>4. /\ \A x \in DOMAIN v.known \cap DOMAIN L[n].known : v.known[x] = L[n].known[x]
        /\ (ToSet(exits) \cap L[n].gone) \cap DOMAIN v.known = {}
    BY <2>1, <2>2 DEF Sees
  <2>5. /\ \A x \in DOMAIN u.known \cap DOMAIN L[n].known : u.known[x] = L[n].known[x]
        /\ (ToSet(exits) \cap L[n].gone) \cap DOMAIN u.known = {}
    BY <1>8, <1>9, <2>3, <2>4
  <2> QED BY <1>3, <1>9, <2>1, <2>2, <2>5 DEF Sees
<1>12. ViewsTyped' /\ ViewsFit(L)'
  BY <1>1, <1>3, <1>5, <1>6, <1>7, <1>9, <1>10, <1>11, ChangedView
<1>13. StreamsTyped' /\ GoodbyeIsTrue' /\ ClientsServed'
  BY <1>2, <1>3 DEF HubInv, StreamsTyped, GoodbyeIsTrue, ClientsServed
<1>14. \A d \in Browsers : view'[d].id = view[d].id
  BY <1>6, <1>7, <1>9 DEF HubInv, ViewsTyped
<1>15. ASSUME NEW s \in Streams PROVE Kept(s) /\ SameView(s)
  <2>1. stream[s].pc # "free" => stream[s].browser \in Browsers
    BY StreamHasFields DEF HubInv, StreamRec
  <2> QED BY <1>2, <1>3, <1>14, <2>1 DEF Kept, SameView
<1>16. (\A s \in clients' : stream'[s].pc # "free") /\ (stopped' => clients' = {})
  BY <1>13 DEF ClientsServed
<1> QED BY <1>1, <1>2, <1>3, <1>5, <1>12, <1>13, <1>15, <1>16, MutedHubStep

(* A page that is loaded knows nothing and belongs to no epoch.            *)
LEMMA NewViewIsTidy == NewView \in ViewRec /\ NewView.id.epoch = 0 /\ Tidy(NewView)
<1>1. NoId \in Id /\ NoId.epoch = 0
  BY DEF NoId, Id
<1>2. NewView = [id |-> NoId, hole |-> FALSE, known |-> <<>>, gone |-> {}, mine |-> {}]
  BY DEF NewView
<1> HIDE DEF NoId
<1>3. NewView \in ViewRec /\ NewView.id.epoch = 0
  BY <1>1, <1>2, EmptyMap DEF ViewRec
<1>4. NewView.gone = {} /\ NewView.mine = {}
  BY <1>2
<1> QED BY <1>3, <1>4 DEF Tidy

(* A page is loaded anew.                                                  *)
LEMMA ReloadKeeps ==
  ASSUME HubInv, NEW b \in Browsers, Reload(b)
  PROVE  HubInv'
<1>1. PICK L : HistoryFits(L)
  BY DEF HubInv
<1>2. /\ UNCHANGED hub /\ told' = told /\ term' = term /\ view' = [view EXCEPT ![b] = NewView]
  BY DEF Reload
<1>3. /\ epoch' = epoch /\ seq' = seq /\ ring' = ring /\ offsets' = offsets
      /\ clients' = clients /\ stopped' = stopped /\ exits' = exits
  BY <1>2 DEF hub, registry
<1>4. Steady
  BY <1>2, <1>3 DEF HubInv, HubTyped, Steady
<1>5. NewView \in ViewRec /\ NewView.id.epoch = 0 /\ Tidy(NewView)
  BY NewViewIsTidy
<1>6. Tidy(NewView)'
  BY <1>2, <1>5 DEF Tidy
<1>7. ViewsTyped' /\ ViewsFit(L)'
  <2>1. NewView.id.epoch <= epoch /\ NewView.id.epoch # epoch
    BY <1>5 DEF HubInv, HubTyped
  <2> HIDE DEF NewView
  <2> QED BY <1>1, <1>2, <1>3, <1>4, <1>5, <1>6, <2>1, ChangedView
<1>8. ASSUME NEW r \in Streams
      PROVE  /\ stream'[r] \in StreamRec \cup {Free}
             /\ Kept(r) /\ SameView(r)
             /\ stream'[r].pc # "free" => stream'[r].reason = stream[r].reason
             /\ stream'[r].pc = stream[r].pc
  <2>1. CASE stream[r].pc # "free" /\ stream[r].browser = b
    <3>1. PICK c \in StreamRec : c = stream[r]
      BY <2>1, StreamHasFields DEF HubInv
    <3>2. stream'[r] = [c EXCEPT !.heard = FALSE]
      BY <2>1, <3>1 DEF Reload
    <3>3. /\ stream'[r] \in StreamRec /\ stream'[r].pc = c.pc /\ stream'[r].heard = FALSE
          /\ stream'[r].browser = c.browser /\ stream'[r].session = c.session
          /\ stream'[r].last = c.last /\ stream'[r].late = c.late
          /\ stream'[r].queue = c.queue /\ stream'[r].head = c.head
          /\ stream'[r].reason = c.reason
      BY <3>2 DEF StreamRec
    <3> QED BY <1>3, <3>1, <3>3 DEF Kept, SameView
  <2>2. CASE ~(stream[r].pc # "free" /\ stream[r].browser = b)
    <3>1. stream'[r] = stream[r]
      BY <2>2 DEF Reload
    <3>2. stream'[r] \in StreamRec \cup {Free}
      BY <3>1 DEF HubInv, StreamsTyped
    <3>3. stream[r].pc # "free" => view'[stream[r].browser] = view[stream[r].browser]
      <4>1. stream[r].pc # "free" => stream[r].browser \in Browsers
        BY StreamHasFields DEF HubInv, StreamRec
      <4> QED BY <1>2, <2>2, <4>1 DEF HubInv, ViewsTyped
    <3> QED BY <1>3, <2>2, <3>1, <3>2, <3>3 DEF Kept, SameView
  <2> QED BY <2>1, <2>2
<1>9. StreamsTyped'
  <2>1. stream' = [r \in Streams |-> stream'[r]]
    BY DEF Reload
  <2> QED BY <1>8, <2>1 DEF StreamsTyped
<1>10. GoodbyeIsTrue'
  BY <1>3, <1>8 DEF HubInv, GoodbyeIsTrue
<1>11. (\A r \in clients' : stream'[r].pc # "free") /\ (stopped' => clients' = {})
  BY <1>3, <1>8 DEF HubInv, ClientsServed
<1> QED BY <1>1, <1>2, <1>3, <1>4, <1>7, <1>8, <1>9, <1>10, <1>11, MutedHubStep

-----------------------------------------------------------------------------
(* Steps of one stream.                                                    *)

(* All streams but s0 stay; what is left to show is about s0 and about the *)
(* browser that listens to it.                                             *)
LEMMA StreamStep ==
  ASSUME HubInv, Steady, NEW L, HistoryFits(L), NEW s0 \in Streams,
         \A s \in Streams \ {s0} : Kept(s) /\ SameView(s),
         StreamsTyped', ViewsTyped', GoodbyeIsTrue', ViewsFit(L)',
         clients' \subseteq clients \cup {s0}, stopped' => clients' = {},
         \A s \in clients' : stream'[s].pc \in {"head", "serve"},
         told' = told,
         s0 \in clients' /\ stream'[s0].session \in told => stream'[s0].late,
         stream'[s0].pc \in {"head", "serve"} /\ stream'[s0].heard
           => (ResyncPending(L, s0) \/ EventsPending(L, s0))',
         stream'[s0].pc = "admitted" /\ stream'[s0].heard
           => stream'[s0].last = view'[stream'[s0].browser].id,
         \A s \in Streams \ {s0} :
           /\ stream'[s0].pc # "free" /\ stream'[s0].heard
           /\ stream'[s].pc # "free" /\ stream'[s].heard
           => stream'[s].browser # stream'[s0].browser
  PROVE  HubInv'
<1>1. /\ HubTyped' /\ Logged(L)' /\ RingFits(L)'
      /\ \A n, known, gone : Knows(L, n, known, gone) => Knows(L, n, known, gone)'
  BY SteadyLog DEF HubInv, HistoryFits
<1>2. StreamsFit(L)'
  <2>1. SUFFICES ASSUME NEW s \in Streams, stream'[s].pc \in {"head", "serve"}, stream'[s].heard
        PROVE  (ResyncPending(L, s) \/ EventsPending(L, s))'
    BY DEF StreamsFit
  <2>2. CASE s = s0
    BY <2>1, <2>2
  <2>3. CASE s # s0
    BY <1>1, <2>1, <2>3, KeptStreamFits DEF HistoryFits
  <2> QED BY <2>2, <2>3
<1>3. OneHeard'
  <2>1. SUFFICES ASSUME NEW r \in Streams, NEW s \in Streams,
                        stream'[r].pc # "free", stream'[r].heard,
                        stream'[s].pc # "free", stream'[s].heard,
                        stream'[r].browser = stream'[s].browser
        PROVE  r = s
    BY DEF OneHeard
  <2>2. CASE r = s0 \/ s = s0
    BY <2>1, <2>2
  <2>3. CASE r # s0 /\ s # s0
    BY <2>1, <2>3 DEF HubInv, OneHeard, Kept
  <2> QED BY <2>2, <2>3
<1>4. LastIsFresh'
  <2>1. SUFFICES ASSUME NEW s \in Streams, stream'[s].pc = "admitted", stream'[s].heard
        PROVE  stream'[s].last = view'[stream'[s].browser].id
    BY DEF LastIsFresh
  <2>2. CASE s = s0
    BY <2>1, <2>2
  <2>3. CASE s # s0
    <3>1. /\ stream[s].pc = "admitted" /\ stream[s].heard /\ stream'[s].last = stream[s].last
          /\ stream'[s].browser = stream[s].browser
      BY <2>1, <2>3 DEF Kept
    <3>2. view'[stream[s].browser].id = view[stream[s].browser].id
      BY <2>1, <2>3 DEF SameView
    <3> QED BY <3>1, <3>2 DEF HubInv, LastIsFresh
  <2> QED BY <2>2, <2>3
<1>5. ClientsServed'
  BY DEF HubInv, ClientsServed
<1>6. OnlyLateStreamsSurvive'
  <2>1. SUFFICES ASSUME NEW s \in clients', stream'[s].session \in told
        PROVE  stream'[s].late
    BY DEF OnlyLateStreamsSurvive
  <2>2. CASE s = s0
    BY <2>1, <2>2
  <2>3. CASE s # s0
    <3>1. s \in clients /\ s \in Streams
      BY <2>3 DEF HubInv, ClientsServed
    <3>2. stream'[s].session = stream[s].session /\ stream'[s].late = stream[s].late
      BY <2>3, <3>1 DEF Kept
    <3> QED BY <2>1, <3>1, <3>2 DEF HubInv, OnlyLateStreamsSurvive
  <2> QED BY <2>2, <2>3
<1> QED BY <1>1, <1>2, <1>3, <1>4, <1>5, <1>6 DEF HubInv, HistoryFits

(* The head is written: what is left is the queue.                         *)
LEMMA HeadWrittenKeeps ==
  ASSUME HubInv, NEW s \in Streams, HeadWritten(s)
  PROVE  HubInv'
<1>1. PICK L : HistoryFits(L)
  BY DEF HubInv
<1>2. /\ UNCHANGED hub /\ told' = told /\ view' = view /\ term' = term
      /\ stream' = [stream EXCEPT ![s].pc = "serve"]
      /\ stream[s].pc = "head" /\ stream[s].head = <<>>
  BY DEF HeadWritten
<1>3. /\ epoch' = epoch /\ seq' = seq /\ ring' = ring /\ offsets' = offsets
      /\ clients' = clients /\ stopped' = stopped /\ exits' = exits
  BY <1>2 DEF hub, registry
<1>4. Steady
  BY <1>2, <1>3 DEF HubInv, HubTyped, Steady
<1>5. PICK c \in StreamRec : c = stream[s]
  BY <1>2, StreamHasFields DEF HubInv
<1>6. stream'[s] = [c EXCEPT !.pc = "serve"] /\ \A r \in Streams \ {s} : stream'[r] = stream[r]
  BY <1>2, <1>5 DEF HubInv, StreamsTyped
<1>7. /\ stream'[s] \in StreamRec /\ stream'[s].pc = "serve"
      /\ stream'[s].browser = c.browser /\ stream'[s].heard = c.heard
      /\ stream'[s].session = c.session /\ stream'[s].late = c.late
      /\ stream'[s].queue = c.queue /\ stream'[s].head = c.head /\ stream'[s].reason = c.reason
  BY <1>6 DEF StreamRec
<1>8. StreamsTyped'
  BY <1>2, <1>6, <1>7 DEF HubInv, StreamsTyped
<1>9. GoodbyeIsTrue'
  BY <1>2, <1>3, <1>5, <1>6, <1>7 DEF HubInv, GoodbyeIsTrue
<1>10. \A r \in Streams \ {s} : Kept(r) /\ SameView(r)
  BY <1>2, <1>3, <1>6 DEF Kept, SameView
<1>11. ViewsTyped'
  BY <1>1, <1>2, <1>4, SameViewsTyped
<1>12. ViewsFit(L)'
  BY <1>1, <1>2, <1>3, <1>4, SteadyLog, SameViewsFit DEF HubInv, HistoryFits
<1>13. \A r \in clients' : stream'[r].pc \in {"head", "serve"}
  BY <1>3, <1>6, <1>7 DEF HubInv, ClientsServed
<1>14. s \in clients' /\ stream'[s].session \in told => stream'[s].late
  BY <1>3, <1>5, <1>7 DEF HubInv, OnlyLateStreamsSurvive
<1>15. stream'[s].heard => EventsPending(L, s)'
  <2>1. SUFFICES ASSUME stream'[s].heard PROVE EventsPending(L, s)'
    OBVIOUS
  <2>2. ~ResyncPending(L, s)
    BY <1>2 DEF ResyncPending
  <2>3. EventsPending(L, s)
    BY <1>1, <1>2, <1>5, <1>7, <2>1, <2>2 DEF HistoryFits, StreamsFit
  <2>4. /\ stream'[s].browser = stream[s].browser /\ stream'[s].queue = stream[s].queue
        /\ stream'[s].head = stream[s].head /\ stream'[s].head = <<>>
    BY <1>2, <1>5, <1>7
  <2> QED BY <1>2, <1>3, <2>3, <2>4 DEF EventsPending, Follow, QueueFits
<1>16. \A r \in Streams \ {s} :
         (stream'[s].heard /\ stream'[r].pc # "free" /\ stream'[r].heard)
           => stream'[r].browser # stream'[s].browser
  BY <1>2, <1>5, <1>6, <1>7 DEF HubInv, OneHeard
<1>17. stopped' => clients' = {}
  BY <1>3 DEF HubInv, ClientsServed
<1> QED
  BY <1>1, <1>2, <1>3, <1>4, <1>7, <1>8, <1>9, <1>10, <1>11, <1>12, <1>13, <1>14, <1>15,
     <1>16, <1>17, StreamStep

(* A request passes requireSession; its browser leaves the stream it had.  *)
LEMMA RequestKeeps ==
  ASSUME HubInv, NEW s \in Streams, NEW b \in Browsers, NEW x \in Sessions, Request(s, b, x)
  PROVE  HubInv'
<1>1. PICK L : HistoryFits(L)
  BY DEF HubInv
<1>2. /\ UNCHANGED hub /\ told' = told /\ view' = view /\ term' = term
      /\ stream[s].pc = "free"
  BY DEF Request
<1>3. /\ epoch' = epoch /\ seq' = seq /\ ring' = ring /\ offsets' = offsets
      /\ clients' = clients /\ stopped' = stopped /\ exits' = exits
  BY <1>2 DEF hub, registry
<1>4. Steady
  BY <1>2, <1>3 DEF HubInv, HubTyped, Steady
<1>5. stream'[s] = [pc |-> "admitted", browser |-> b, session |-> x,
                    last |-> view[b].id, heard |-> TRUE, open |-> FALSE,
                    reason |-> "", late |-> FALSE, queue |-> <<>>, head |-> <<>>]
  BY DEF Request
<1>6. stream'[s] \in StreamRec
  <2>1. <<>> \in Seq(EventFrame) /\ <<>> \in Seq(HeadFrame)
    OBVIOUS
  <2>2. view[b].id \in Id
    BY DEF HubInv, ViewsTyped, ViewRec
  <2>3. [pc |-> "admitted", browser |-> b, session |-> x,
         last |-> view[b].id, heard |-> TRUE, open |-> FALSE,
         reason |-> "", late |-> FALSE, queue |-> <<>>, head |-> <<>>] \in StreamRec
    BY <2>1, <2>2 DEF StreamRec
  <2> QED BY <1>5, <2>3
<1>7. /\ stream'[s].pc = "admitted" /\ stream'[s].heard /\ stream'[s].last = view[b].id
      /\ stream'[s].browser = b /\ stream'[s].reason = ""
  <2> DEFINE q == stream'[s]
  <2>1. q = [pc |-> "admitted", browser |-> b, session |-> x,
             last |-> view[b].id, heard |-> TRUE, open |-> FALSE,
             reason |-> "", late |-> FALSE, queue |-> <<>>, head |-> <<>>]
    BY <1>5, Zenon
  <2> HIDE DEF q
  <2>2. q.heard = TRUE
    BY <2>1
  <2>3. q.pc = "admitted" /\ q.last = view[b].id
    BY <2>1
  <2>4. q.browser = b /\ q.reason = ""
    BY <2>1
  <2> QED BY <2>2, <2>3, <2>4 DEF q
<1>8. ASSUME NEW r \in Streams \ {s}
      PROVE  /\ stream'[r] \in StreamRec \cup {Free}
             /\ Kept(r) /\ SameView(r)
             /\ stream'[r].pc # "free" => stream'[r].reason = stream[r].reason
             /\ stream'[r].pc = stream[r].pc
             /\ (stream'[r].pc # "free" /\ stream'[r].heard) => stream'[r].browser # b
  <2>1. CASE stream[r].pc # "free" /\ stream[r].browser = b
    <3>1. PICK c \in StreamRec : c = stream[r]
      BY <2>1, StreamHasFields DEF HubInv
    <3>2. stream'[r] = [c EXCEPT !.heard = FALSE]
      BY <2>1, <3>1 DEF Request
    <3>3. /\ stream'[r] \in StreamRec /\ stream'[r].pc = c.pc /\ stream'[r].heard = FALSE
          /\ stream'[r].browser = c.browser /\ stream'[r].session = c.session
          /\ stream'[r].last = c.last /\ stream'[r].late = c.late
          /\ stream'[r].queue = c.queue /\ stream'[r].head = c.head
          /\ stream'[r].reason = c.reason
      BY <3>2 DEF StreamRec
    <3> QED BY <1>2, <1>3, <3>1, <3>3 DEF Kept, SameView
  <2>2. CASE ~(stream[r].pc # "free" /\ stream[r].browser = b)
    <3>1. stream'[r] = stream[r]
      BY <2>2 DEF Request
    <3>2. stream'[r] \in StreamRec \cup {Free}
      BY <3>1 DEF HubInv, StreamsTyped
    <3> QED BY <1>2, <1>3, <2>2, <3>1, <3>2 DEF Kept, SameView
  <2> QED BY <2>1, <2>2
<1>9. StreamsTyped'
  <2>1. stream' = [r \in Streams |-> stream'[r]]
    BY DEF Request
  <2> QED BY <1>6, <1>8, <2>1 DEF StreamsTyped
<1>10. GoodbyeIsTrue'
  BY <1>3, <1>7, <1>8 DEF HubInv, GoodbyeIsTrue
<1>11. ViewsTyped'
  BY <1>1, <1>2, <1>4, SameViewsTyped
<1>12. ViewsFit(L)'
  BY <1>1, <1>2, <1>3, <1>4, SteadyLog, SameViewsFit DEF HubInv, HistoryFits
<1>13. s \notin clients'
  BY <1>2, <1>3 DEF HubInv, ClientsServed
<1>14. \A r \in clients' : stream'[r].pc \in {"head", "serve"}
  BY <1>3, <1>8, <1>13 DEF HubInv, ClientsServed
<1>15. stopped' => clients' = {}
  BY <1>3 DEF HubInv, ClientsServed
<1> QED
  BY <1>1, <1>2, <1>3, <1>4, <1>7, <1>8, <1>9, <1>10, <1>11, <1>12, <1>13, <1>14, <1>15, StreamStep

-----------------------------------------------------------------------------
(* What a browser makes of a frame.                                        *)

(* The next event of the history brings a page one event further.          *)
LEMMA ReceivesNext ==
  ASSUME HubTyped, NEW L, Logged(L), NEW v \in ViewRec, Tidy(v),
         v.id.epoch = epoch, v.id.seq < seq
  PROVE  LET e == L[v.id.seq + 1].event
             u == Received(v, e)
         IN  /\ u \in ViewRec /\ Tidy(u) /\ u.id.epoch = epoch /\ u.id.seq = v.id.seq + 1
             /\ (~v.hole /\ Sees(L, v)) => (~u.hole /\ Sees(L, u))
<1> DEFINE n == v.id.seq
           e == L[n + 1].event
           u == Received(v, e)
           known == IF e.t \in v.gone THEN v.known ELSE Counted(v.known, e.kind, e.t, e.off)
           gone == IF e.kind = "exit" THEN v.gone \cup {e.t} ELSE v.gone
<1>1. /\ v.id \in Id /\ n \in Nat /\ v.hole \in BOOLEAN /\ v.known \in Maps
      /\ v.gone \in SUBSET Terminals /\ v.mine \in SUBSET Terminals
  BY DEF ViewRec, Id
<1>2. n + 1 \in 1..seq /\ (n + 1) - 1 = n
  BY <1>1 DEF HubTyped
<1>3. /\ e \in EventFrame /\ e.id = [epoch |-> epoch, seq |-> n + 1]
      /\ L[n + 1].known = Counted(L[n].known, e.kind, e.t, e.off)
      /\ L[n + 1].gone = IF e.kind = "exit" THEN L[n].gone \cup {e.t} ELSE L[n].gone
      /\ e.kind = "data" => e.t \notin L[n].gone
      /\ L[n + 1].gone \subseteq {t \in Terminals : term[t] = "gone"}
  <2>1. PICK m \in 1..seq : m = n + 1
    BY <1>2
  <2>2. m - 1 = n /\ m \in 0..seq
    BY <1>1, <2>1 DEF HubTyped
  <2>3. /\ L[m].event \in EventFrame /\ L[m].event.id = [epoch |-> epoch, seq |-> m]
        /\ L[m].known = Counted(L[m - 1].known, L[m].event.kind, L[m].event.t, L[m].event.off)
        /\ L[m].gone = IF L[m].event.kind = "exit"
                       THEN L[m - 1].gone \cup {L[m].event.t} ELSE L[m - 1].gone
        /\ L[m].event.kind = "data" => L[m].event.t \notin L[m - 1].gone
        /\ L[m].gone \subseteq {t \in Terminals : term[t] = "gone"}
    BY <2>2 DEF Logged
  <2> HIDE DEF n
  <2> QED BY <2>1, <2>2, <2>3, Zenon
<1>4. e.kind \in {"data", "exit"} /\ e.t \in Terminals /\ e.off \in Nat
  BY <1>3 DEF EventFrame
<1>5. e.id = [v.id EXCEPT !.seq = @ + 1]
  BY <1>1, <1>3 DEF Id
<1>6. u = [v EXCEPT !.id = e.id, !.hole = @ \/ e.id # [v.id EXCEPT !.seq = @ + 1],
                    !.known = known, !.gone = gone]
  <2>1. e.kind # "resync" /\ e.kind # "shutdown"
    BY <1>4
  <2> HIDE DEF e
  <2> QED BY <2>1 DEF Received, ViewRec
<1>9. /\ known \in Maps /\ gone \in SUBSET Terminals
      /\ DOMAIN known \cap gone = {}
      /\ \A t \in DOMAIN v.known : t # e.t => t \in DOMAIN known /\ known[t] = v.known[t]
      /\ \A t \in DOMAIN known : t # e.t => t \in DOMAIN v.known
      /\ e.kind = "data" => (e.t \in DOMAIN known => known[e.t] = e.off) 
      /\ e.kind = "data" => DOMAIN v.known \subseteq DOMAIN known
      /\ e.kind = "exit" => e.t \notin DOMAIN known
  <2>1. With(v.known, e.t, e.off) \in Maps /\ Less(v.known, e.t) \in Maps
    BY <1>1, <1>4, MapsStay
  <2>2. known \in Maps /\ gone \in SUBSET Terminals
    BY <1>1, <1>4, <2>1 DEF known, gone, Counted
  <2> HIDE DEF e
  <2>3. DOMAIN v.known \cap v.gone = {}
    BY DEF Tidy
  <2>4. CASE e.t \in v.gone
    BY <1>4, <2>2, <2>3, <2>4 DEF known, gone
  <2>5. CASE e.t \notin v.gone /\ e.kind = "data"
    <3>1. known = With(v.known, e.t, e.off) /\ gone = v.gone
      BY <2>5 DEF known, gone, Counted
    <3> QED BY <2>2, <2>3, <2>5, <3>1 DEF With
  <2>6. CASE e.t \notin v.gone /\ e.kind = "exit"
    <3>1. known = Less(v.known, e.t) /\ gone = v.gone \cup {e.t}
      BY <2>6 DEF known, gone, Counted
    <3> QED BY <2>2, <2>3, <2>6, <3>1 DEF Less
  <2> QED BY <1>4, <2>4, <2>5, <2>6
<1>10. e.id \in Id
  BY <1>3 DEF EventFrame
<1> HIDE DEF u, known, gone, e, n
<1>11. u \in ViewRec /\ u.id = e.id /\ u.known = known /\ u.gone = gone /\ u.mine = v.mine
  <2>1. (v.hole \/ e.id # [v.id EXCEPT !.seq = @ + 1]) \in BOOLEAN
    OBVIOUS
  <2> QED BY <1>6, <1>9, <1>10, <2>1 DEF ViewRec
<1>8. u.hole = v.hole
  <2>1. u.hole = (v.hole \/ e.id # [v.id EXCEPT !.seq = @ + 1])
    BY <1>6 DEF ViewRec
  <2> QED BY <1>1, <1>5, <2>1, Zenon
<1>12. u.id.epoch = epoch /\ u.id.seq = n + 1
  BY <1>3, <1>11
<1>7. Tidy(u)
  <2>1. e.kind = "exit" => term[e.t] = "gone"
    BY <1>3, <1>4
  <2>2. SUFFICES ASSUME NEW t \in v.mine, term[t] = "live" PROVE t \in DOMAIN known
    BY <1>9, <1>11 DEF Tidy
  <2>3. t \in DOMAIN v.known
    BY <2>2 DEF Tidy
  <2> QED BY <1>4, <1>9, <2>1, <2>2, <2>3
<1>13. ASSUME Sees(L, v) PROVE Sees(L, u)
  <2>1. /\ \A t \in DOMAIN v.known \cap DOMAIN L[n].known : v.known[t] = L[n].known[t]
        /\ (ToSet(exits) \cap L[n].gone) \cap DOMAIN v.known = {}
    BY <1>13 DEF Sees, n
  <2>2. /\ \A t \in DOMAIN L[n + 1].known : t # e.t =>
             t \in DOMAIN L[n].known /\ L[n + 1].known[t] = L[n].known[t]
        /\ e.kind = "data" => L[n + 1].known[e.t] = e.off
        /\ e.kind = "exit" => e.t \notin DOMAIN L[n + 1].known
    <3>1. CASE e.kind = "data"
      <4>1. L[n + 1].known = With(L[n].known, e.t, e.off)
        BY <1>3, <3>1 DEF Counted
      <4> QED BY <3>1, <4>1 DEF With
    <3>2. CASE e.kind = "exit"
      <4>1. L[n + 1].known = Less(L[n].known, e.t)
        BY <1>3, <3>2 DEF Counted
      <4> QED BY <3>2, <4>1 DEF Less
    <3> QED BY <1>4, <3>1, <3>2
  <2>3. \A t \in DOMAIN known \cap DOMAIN L[n + 1].known : known[t] = L[n + 1].known[t]
    BY <1>4, <1>9, <2>1, <2>2
  <2>4. (ToSet(exits) \cap L[n + 1].gone) \cap DOMAIN known = {}
    BY <1>3, <1>4, <1>9, <2>1
  <2>5. n + 1 \in 0..seq
    BY <1>2
  <2> QED BY <1>11, <1>12, <2>3, <2>4, <2>5 DEF Sees
<1> QED BY <1>7, <1>8, <1>11, <1>12, <1>13 DEF u, e, n

(* A resync brings what was missed of the terminals the page knows.        *)
LEMMA ReceivesResync ==
  ASSUME HubTyped, NEW L, NEW v \in ViewRec, Tidy(v), NEW r \in ResyncFrame,
         Knows(L, r.id.seq, r.known, r.gone)
  PROVE  LET u == Received(v, r)
         IN  /\ u \in ViewRec /\ Tidy(u) /\ u.id = r.id
             /\ ~u.hole /\ Sees(L, u)
<1> DEFINE u == Received(v, r)
           known == Restrict(Resynced(v.known, r.known), DOMAIN v.known \ r.gone)
           gone == v.gone \cup (r.gone \cap DOMAIN v.known)
<1>1. /\ r.kind = "resync" /\ r.id \in Id /\ r.known \in Maps /\ r.gone \in SUBSET Terminals
      /\ v.known \in Maps /\ v.gone \in SUBSET Terminals /\ v.mine \in SUBSET Terminals
  BY DEF ResyncFrame, ViewRec
<1>2. u = [v EXCEPT !.id = r.id, !.hole = FALSE, !.known = known, !.gone = gone]
  BY <1>1 DEF Received, ViewRec
<1>3. PICK T \in SUBSET Terminals, R \in SUBSET Terminals :
        v.known \in [T -> Nat] /\ r.known \in [R -> Nat]
  BY <1>1 DEF Maps
<1>4. /\ known \in [T \ r.gone -> Nat] /\ DOMAIN v.known = T /\ DOMAIN known = T \ r.gone
      /\ \A t \in DOMAIN known : t \in DOMAIN r.known => known[t] = r.known[t]
  BY <1>3 DEF Restrict, Resynced
<1>5. known \in Maps /\ gone \in SUBSET Terminals
  <2>1. T \ r.gone \in SUBSET Terminals
    OBVIOUS
  <2>2. known \in Maps
    BY <1>4, <2>1 DEF Maps
  <2> QED BY <1>1, <2>2
<1> HIDE DEF u, known
<1>6. /\ u \in ViewRec /\ u.id = r.id /\ u.hole = FALSE /\ u.known = known /\ u.gone = gone
      /\ u.mine = v.mine
  BY <1>1, <1>2, <1>5 DEF ViewRec
<1>7. /\ r.id.seq \in 0..seq /\ r.known = L[r.id.seq].known
      /\ ToSet(exits) \cap L[r.id.seq].gone \subseteq r.gone
      /\ r.gone \subseteq {t \in Terminals : term[t] = "gone"}
  BY DEF Knows
<1>8. Tidy(u)
  <2>1. DOMAIN u.known \cap u.gone = {}
    BY <1>4, <1>6 DEF Tidy
  <2>2. \A t \in u.mine : term[t] # "none" /\ (term[t] = "live" => t \in DOMAIN u.known)
    BY <1>4, <1>6, <1>7 DEF Tidy
  <2> QED BY <2>1, <2>2 DEF Tidy
<1>9. Sees(L, u)
  BY <1>4, <1>6, <1>7 DEF Sees
<1> QED BY <1>6, <1>8, <1>9 DEF u

(* A frame of a stream that is heard changes one browser, and no other     *)
(* stream is heard by it; a frame nobody hears changes none.               *)
HeardAs(s, u) ==
  view' = IF stream[s].heard THEN [view EXCEPT ![stream[s].browser] = u] ELSE view

(* What follows for the browsers, and for the other streams.               *)
LEMMA HeardViews ==
  ASSUME HubInv, Steady, stopped' = stopped, NEW L, HistoryFits(L), NEW s \in Streams,
         stream[s].pc # "free",
         NEW u, HeardAs(s, u),
         stream[s].heard =>
           /\ u \in ViewRec /\ Tidy(u) /\ u.id.epoch = epoch
           /\ ~stopped => (~u.hole /\ Sees(L, u)),
         \A r \in Streams \ {s} : stream'[r] = stream[r]
  PROVE  /\ ViewsTyped' /\ ViewsFit(L)'
         /\ \A r \in Streams \ {s} : SameView(r)
         /\ stream[s].heard => view'[stream[s].browser] = u
<1>1. /\ \A w : Sees(L, w) => Sees(L, w)'
      /\ \A w \in ViewRec : Tidy(w) => Tidy(w)'
  BY SteadyLog DEF HubInv, HistoryFits
<1>2. CASE ~stream[s].heard
  <2>1. view' = view
    BY <1>2 DEF HeardAs
  <2>2. ViewsTyped'
    BY <2>1, SameViewsTyped
  <2>3. ViewsFit(L)'
    BY <1>1, <2>1, SameViewsFit DEF HistoryFits
  <2>4. \A r \in Streams : SameView(r)
    BY <2>1 DEF SameView
  <2> QED BY <1>2, <2>2, <2>3, <2>4
<1>3. CASE stream[s].heard
  <2>1. PICK b \in Browsers : b = stream[s].browser
    BY StreamHasFields DEF HubInv, StreamRec
  <2>2. /\ view'[b] = u /\ \A d \in Browsers \ {b} : view'[d] = view[d]
        /\ view' = [view EXCEPT ![b] = u]
    BY <1>3, <2>1 DEF HeardAs, HubInv, ViewsTyped
  <2>3. u.id.epoch <= epoch /\ Tidy(u)'
    BY <1>1, <1>3 DEF HubInv, HubTyped
  <2>4. ViewsTyped' /\ ViewsFit(L)'
    <3>1. ~stopped => ~u.hole /\ Sees(L, u)'
      BY <1>1, <1>3
    <3> QED BY <1>3, <2>2, <2>3, <3>1, ChangedView
  <2>5. ASSUME NEW r \in Streams \ {s} PROVE SameView(r)
    <3>1. SUFFICES ASSUME stream[r].pc # "free", stream[r].heard
          PROVE  view'[stream[r].browser].id = view[stream[r].browser].id
      BY DEF SameView
    <3>2. stream[r].browser # b
      BY <1>3, <2>1, <3>1 DEF HubInv, OneHeard
    <3>3. stream[r].browser \in Browsers
      BY <3>1, StreamHasFields DEF HubInv, StreamRec
    <3> QED BY <2>2, <3>2, <3>3
  <2> QED BY <2>1, <2>2, <2>4, <2>5
<1> QED BY <1>2, <1>3

(* A stream writes one frame, of its head or of its queue.                 *)
LEMMA WriteStep ==
  ASSUME HubInv, NEW L, HistoryFits(L), NEW s \in Streams,
         stream[s].pc \in {"head", "serve"}, NEW e, Hear(s, e),
         UNCHANGED <<hub, ended, told, term>>,
         NEW c \in StreamRec, c.pc = stream[s].pc, c.browser = stream[s].browser,
         c.session = stream[s].session, c.heard = stream[s].heard, c.late = stream[s].late,
         c.reason = stream[s].reason, stream' = [stream EXCEPT ![s] = c],
         stream[s].heard =>
           LET u == Received(view[stream[s].browser], e)
           IN  /\ u \in ViewRec /\ Tidy(u) /\ u.id.epoch = epoch
               /\ ~stopped => (~u.hole /\ Sees(L, u))
               /\ view'[stream[s].browser] = u => EventsPending(L, s)'
  PROVE  HubInv'
<1>1. /\ epoch' = epoch /\ seq' = seq /\ ring' = ring /\ offsets' = offsets
      /\ clients' = clients /\ stopped' = stopped /\ exits' = exits
      /\ told' = told /\ term' = term
  BY DEF hub, registry
<1>2. Steady
  BY <1>1 DEF HubInv, HubTyped, Steady
<1>3. stream'[s] = c /\ \A r \in Streams \ {s} : stream'[r] = stream[r]
  BY DEF HubInv, StreamsTyped
<1>4. StreamsTyped'
  BY DEF HubInv, StreamsTyped
<1>5. GoodbyeIsTrue'
  BY <1>1, <1>3 DEF HubInv, GoodbyeIsTrue
<1> DEFINE b == stream[s].browser
           u == Received(view[b], e)
<1>6. HeardAs(s, u)
  BY DEF HeardAs, Hear
<1>7. /\ ViewsTyped' /\ ViewsFit(L)'
      /\ \A r \in Streams \ {s} : SameView(r)
      /\ stream[s].heard => view'[b] = u
  <2>1. stream[s].pc # "free"
    OBVIOUS
  <2>2. stream[s].heard =>
          /\ u \in ViewRec /\ Tidy(u) /\ u.id.epoch = epoch
          /\ ~stopped => (~u.hole /\ Sees(L, u))
    OBVIOUS
  <2> HIDE DEF u
  <2> QED BY <1>1, <1>2, <1>3, <1>6, <2>1, <2>2, HeardViews
<1>8. stream[s].heard => EventsPending(L, s)'
  BY <1>7
<1>9. \A r \in Streams \ {s} : Kept(r)
  BY <1>1, <1>3 DEF Kept
<1>10. \A r \in clients' : stream'[r].pc \in {"head", "serve"}
  BY <1>1, <1>3 DEF HubInv, ClientsServed
<1>11. s \in clients' /\ stream'[s].session \in told => stream'[s].late
  BY <1>1, <1>3 DEF HubInv, OnlyLateStreamsSurvive
<1>12. \A r \in Streams \ {s} :
         (stream'[s].heard /\ stream'[r].pc # "free" /\ stream'[r].heard)
           => stream'[r].browser # stream'[s].browser
  <2>1. SUFFICES ASSUME NEW r \in Streams \ {s}, c.heard, stream[r].pc # "free", stream[r].heard
        PROVE  stream[r].browser # c.browser
    BY <1>3
  <2>2. stream[s].pc # "free" /\ stream[s].heard
    BY <2>1
  <2> QED BY <2>1, <2>2 DEF HubInv, OneHeard
<1>13. stopped' => clients' = {}
  BY <1>1 DEF HubInv, ClientsServed
<1> HIDE DEF u, b
<1> QED
  BY <1>1, <1>2, <1>3, <1>4, <1>5, <1>7, <1>8, <1>9, <1>10, <1>11, <1>12, <1>13, StreamStep

(* The next event, from the head or the queue, of a stream that is heard.  *)
LEMMA NextFrame ==
  ASSUME HubInv, NEW L, HistoryFits(L), NEW b \in Browsers,
         view[b].id.epoch = epoch, view[b].id.seq < seq
  PROVE  LET e == L[view[b].id.seq + 1].event
             u == Received(view[b], e)
         IN  /\ u \in ViewRec /\ Tidy(u) /\ u.id.epoch = epoch /\ u.id.seq = view[b].id.seq + 1
             /\ ~stopped => (~u.hole /\ Sees(L, u))
<1>1. PICK v \in ViewRec : v = view[b] /\ Tidy(v)
  BY DEF HubInv, ViewsTyped
<1> DEFINE e == L[v.id.seq + 1].event
           u == Received(v, e)
<1>2. /\ u \in ViewRec /\ Tidy(u) /\ u.id.epoch = epoch /\ u.id.seq = v.id.seq + 1
      /\ (~v.hole /\ Sees(L, v)) => (~u.hole /\ Sees(L, u))
  <2>1. HubTyped /\ Logged(L) /\ v.id.epoch = epoch /\ v.id.seq < seq
    BY <1>1 DEF HubInv, HistoryFits
  <2> QED BY <1>1, <2>1, ReceivesNext
<1>3. ~stopped => (~v.hole /\ Sees(L, v))
  BY <1>1 DEF HistoryFits, ViewsFit
<1> HIDE DEF u
<1>4. ~stopped => (~u.hole /\ Sees(L, u))
  BY <1>2, <1>3
<1> QED BY <1>1, <1>2, <1>4 DEF u

(* A sequence without elements is the empty one.                           *)
LEMMA NothingLeft ==
  ASSUME NEW S, NEW q \in Seq(S), Len(q) = 0
  PROVE  q = <<>>
OBVIOUS

(* The resync frame or a frame of the ring is written.                     *)
LEMMA WriteHeadKeeps ==
  ASSUME HubInv, NEW s \in Streams, WriteHead(s)
  PROVE  HubInv'
<1>1. PICK L : HistoryFits(L)
  BY DEF HubInv
<1>2. /\ stream[s].pc = "head" /\ stream[s].head # <<>> /\ Hear(s, Head(stream[s].head))
      /\ UNCHANGED <<hub, ended, told, term>>
  BY DEF WriteHead
<1>3. PICK o \in StreamRec : o = stream[s]
  BY <1>2, StreamHasFields DEF HubInv
<1> DEFINE c == [o EXCEPT !.head = Tail(@)]
           e == Head(o.head)
           b == o.browser
           v == view[b]
           u == Received(v, e)
<1>4. stream' = [stream EXCEPT ![s] = c]
  BY <1>3 DEF WriteHead, HubInv, StreamsTyped
<1>5. /\ o.head \in Seq(HeadFrame) /\ o.queue \in Seq(EventFrame) /\ o.head # <<>>
      /\ b \in Browsers
  BY <1>2, <1>3 DEF StreamRec
<1>6. /\ e = o.head[1] /\ e \in HeadFrame /\ Len(o.head) \in Nat \ {0}
      /\ Tail(o.head) \in Seq(HeadFrame) /\ Len(Tail(o.head)) = Len(o.head) - 1
      /\ \A i \in 1..(Len(o.head) - 1) : Tail(o.head)[i] = o.head[i + 1]
  BY <1>5
<1>7. /\ c \in StreamRec /\ c.pc = o.pc /\ c.browser = o.browser /\ c.session = o.session
      /\ c.heard = o.heard /\ c.late = o.late /\ c.reason = o.reason
      /\ c.head = Tail(o.head) /\ c.queue = o.queue
  BY <1>6 DEF StreamRec
<1>8. stream'[s] = c
  BY <1>4 DEF HubInv, StreamsTyped
<1>9. epoch' = epoch /\ seq' = seq /\ clients' = clients
  BY <1>2 DEF hub, registry
<1>10. seq \in Nat /\ v \in ViewRec /\ v.id.seq \in Nat
  BY <1>5 DEF HubInv, HubTyped, ViewsTyped, ViewRec, Id
<1> HIDE DEF c, e
<1>11. ASSUME o.heard
       PROVE  /\ u \in ViewRec /\ Tidy(u) /\ u.id.epoch = epoch
              /\ ~stopped => (~u.hole /\ Sees(L, u))
              /\ view'[b] = u => EventsPending(L, s)'
  <2>1. ResyncPending(L, s) \/ EventsPending(L, s)
    BY <1>1, <1>2, <1>3, <1>11 DEF HistoryFits, StreamsFit
  <2>2. CASE ResyncPending(L, s)
    <3>1. /\ Len(o.head) = 1 /\ e.kind = "resync" /\ e.id.epoch = epoch
          /\ Knows(L, e.id.seq, e.known, e.gone) /\ QueueFits(L, s, e.id.seq)
      BY <1>3, <1>6, <2>2 DEF ResyncPending
    <3>2. e \in ResyncFrame
      BY <1>6, <3>1 DEF HeadFrame, EventFrame
    <3>3. u \in ViewRec /\ Tidy(u) /\ u.id = e.id /\ ~u.hole /\ Sees(L, u)
      <4>1. Tidy(v)
        BY <1>5 DEF HubInv, ViewsTyped
      <4> QED BY <1>10, <3>1, <3>2, <4>1, ReceivesResync DEF HubInv
    <3>4. ASSUME view'[b] = u PROVE EventsPending(L, s)'
      <4>1. c.head = <<>> /\ Len(c.head) = 0
        <5>1. Len(Tail(o.head)) = 0
          BY <1>6, <3>1
        <5>2. Tail(o.head) = <<>>
          BY <1>6, <5>1, NothingLeft
        <5> QED BY <1>7, <5>1, <5>2
      <4>2. e.id.seq \in Nat /\ e.id.seq <= seq
        BY <1>10, <3>1 DEF Knows
      <4>3. view'[stream'[s].browser].id = e.id
        BY <1>7, <1>8, <3>3, <3>4
      <4>4. Follow(L, view[stream[s].browser].id.seq, stream[s].head)'
        BY <1>8, <1>9, <4>1, <4>2, <4>3 DEF Follow
      <4>5. QueueFits(L, s, view[stream[s].browser].id.seq + Len(stream[s].head))'
        <5>1. PICK n \in Nat : n = e.id.seq
          BY <4>2
        <5>2. QueueFits(L, s, n)'
          BY <1>3, <1>7, <1>8, <1>9, <3>1, <5>1 DEF QueueFits, Follow
        <5>3. view'[stream'[s].browser].id.seq + Len(stream'[s].head) = n
          BY <1>8, <4>1, <4>3, <5>1
        <5> QED BY <5>2, <5>3
      <4> QED BY <1>8, <1>9, <3>1, <4>1, <4>3, <4>4, <4>5 DEF EventsPending
    <3> QED BY <3>1, <3>3, <3>4
  <2>3. CASE EventsPending(L, s)
    <3>1. /\ v.id.epoch = epoch /\ Follow(L, v.id.seq, o.head)
          /\ QueueFits(L, s, v.id.seq + Len(o.head))
      BY <1>3, <2>3 DEF EventsPending
    <3>2. v.id.seq < seq /\ e = L[v.id.seq + 1].event
      BY <1>6, <1>10, <3>1 DEF Follow
    <3>3. /\ u \in ViewRec /\ Tidy(u) /\ u.id.epoch = epoch /\ u.id.seq = v.id.seq + 1
          /\ ~stopped => (~u.hole /\ Sees(L, u))
      BY <1>1, <1>5, <3>1, <3>2, NextFrame
    <3>4. ASSUME view'[b] = u PROVE EventsPending(L, s)'
      <4>1. /\ view'[stream'[s].browser].id.epoch = epoch
            /\ view'[stream'[s].browser].id.seq = v.id.seq + 1
        BY <1>7, <1>8, <3>3, <3>4
      <4>2. PICK n \in Nat : n = v.id.seq
        BY <1>10
      <4>3. PICK k \in Nat : k = Len(o.head) - 1 /\ Len(o.head) = k + 1
        <5>1. PICK m \in Nat \ {0} : m = Len(o.head)
          BY <1>6
        <5>2. m - 1 \in Nat /\ m = (m - 1) + 1
          OBVIOUS
        <5> QED BY <5>1, <5>2
      <4>4. Follow(L, n + 1, c.head)'
        <5>1. n + (k + 1) <= seq /\ \A i \in 1..(k + 1) : o.head[i] = L[n + i].event
          BY <3>1, <4>2, <4>3, <1>6 DEF Follow
        <5>2. Len(c.head) = k
          BY <1>6, <1>7, <4>3
        <5>3. ASSUME NEW i \in 1..k PROVE c.head[i] = L[(n + 1) + i].event
          <6>1. c.head[i] = o.head[i + 1]
            BY <1>6, <1>7, <4>3
          <6>2. i + 1 \in 1..(k + 1) /\ n + (i + 1) = (n + 1) + i
            OBVIOUS
          <6> QED BY <5>1, <6>1, <6>2
        <5>4. (n + 1) + k <= seq
          BY <1>10, <5>1
        <5> QED BY <1>9, <5>2, <5>3, <5>4 DEF Follow
      <4>5. QueueFits(L, s, (n + 1) + k)'
        <5>1. QueueFits(L, s, (n + 1) + k)
          <6>1. n + (k + 1) = (n + 1) + k
            OBVIOUS
          <6> QED BY <3>1, <4>2, <4>3, <6>1
        <5> QED BY <1>3, <1>7, <1>8, <1>9, <5>1 DEF QueueFits, Follow
      <4>6. Len(c.head) = k
        BY <1>6, <1>7, <4>3
      <4>7. stream'[s].pc # "serve"
        BY <1>2, <1>3, <1>7, <1>8
      <4>8. Follow(L, view[stream[s].browser].id.seq, stream[s].head)'
        BY <1>8, <4>1, <4>2, <4>4
      <4>9. QueueFits(L, s, view[stream[s].browser].id.seq + Len(stream[s].head))'
        BY <1>8, <4>1, <4>2, <4>5, <4>6
      <4> QED BY <1>9, <4>1, <4>7, <4>8, <4>9 DEF EventsPending
    <3> QED BY <3>3, <3>4
  <2> QED BY <2>1, <2>2, <2>3
<1>12. Hear(s, e)
  BY <1>2, <1>3 DEF e
<1>13. stream[s].heard =>
         /\ u \in ViewRec /\ Tidy(u) /\ u.id.epoch = epoch
         /\ ~stopped => (~u.hole /\ Sees(L, u))
         /\ view'[stream[s].browser] = u => EventsPending(L, s)'
  BY <1>3, <1>11
<1> QED
  BY <1>1, <1>2, <1>3, <1>4, <1>7, <1>12, <1>13, WriteStep

(* A frame of the queue is written.                                        *)
LEMMA WriteQueuedKeeps ==
  ASSUME HubInv, NEW s \in Streams, WriteQueued(s)
  PROVE  HubInv'
<1>1. PICK L : HistoryFits(L)
  BY DEF HubInv
<1>2. /\ stream[s].pc = "serve" /\ stream[s].queue # <<>> /\ Hear(s, Head(stream[s].queue))
      /\ UNCHANGED <<hub, ended, told, term>>
  BY DEF WriteQueued
<1>3. PICK o \in StreamRec : o = stream[s]
  BY <1>2, StreamHasFields DEF HubInv
<1> DEFINE c == [o EXCEPT !.queue = Tail(@)]
           e == Head(o.queue)
           b == o.browser
           v == view[b]
           u == Received(v, e)
<1>4. stream' = [stream EXCEPT ![s] = c]
  BY <1>3 DEF WriteQueued, HubInv, StreamsTyped
<1>5. o.queue \in Seq(EventFrame) /\ o.queue # <<>> /\ b \in Browsers
  BY <1>2, <1>3 DEF StreamRec
<1>6. /\ e = o.queue[1] /\ Len(o.queue) \in Nat \ {0}
      /\ Tail(o.queue) \in Seq(EventFrame) /\ Len(Tail(o.queue)) = Len(o.queue) - 1
      /\ \A i \in 1..(Len(o.queue) - 1) : Tail(o.queue)[i] = o.queue[i + 1]
  BY <1>5
<1>7. /\ c \in StreamRec /\ c.pc = o.pc /\ c.browser = o.browser /\ c.session = o.session
      /\ c.heard = o.heard /\ c.late = o.late /\ c.reason = o.reason
      /\ c.queue = Tail(o.queue) /\ c.head = o.head
  BY <1>6 DEF StreamRec
<1>8. stream'[s] = c
  BY <1>4 DEF HubInv, StreamsTyped
<1>9. epoch' = epoch /\ seq' = seq /\ clients' = clients
  BY <1>2 DEF hub, registry
<1>10. seq \in Nat /\ v \in ViewRec /\ v.id.seq \in Nat
  BY <1>5 DEF HubInv, HubTyped, ViewsTyped, ViewRec, Id
<1> HIDE DEF c, e
<1>11. ASSUME o.heard
       PROVE  /\ u \in ViewRec /\ Tidy(u) /\ u.id.epoch = epoch
              /\ ~stopped => (~u.hole /\ Sees(L, u))
              /\ view'[b] = u => EventsPending(L, s)'
  <2>1. EventsPending(L, s)
    BY <1>1, <1>2, <1>3, <1>11 DEF HistoryFits, StreamsFit, ResyncPending
  <2>2. PICK n \in Nat : n = v.id.seq
    BY <1>10
  <2>3. PICK k \in Nat : k = Len(o.queue) - 1 /\ Len(o.queue) = k + 1
    <3>1. PICK m \in Nat \ {0} : m = Len(o.queue)
      BY <1>6
    <3>2. m - 1 \in Nat /\ m = (m - 1) + 1
      OBVIOUS
    <3> QED BY <3>1, <3>2
  <2>4. v.id.epoch = epoch /\ o.head = <<>> /\ QueueFits(L, s, n + Len(o.head))
    BY <1>2, <1>3, <2>1, <2>2 DEF EventsPending
  <2>5. n + 0 = n /\ Len(o.head) = 0
    BY <2>4
  <2>6. /\ n + (k + 1) <= seq /\ (\A i \in 1..(k + 1) : o.queue[i] = L[n + i].event)
        /\ s \in clients => n + (k + 1) = seq
    BY <1>3, <2>3, <2>4, <2>5 DEF QueueFits, Follow
  <2>7. n < seq /\ 1 \in 1..(k + 1)
    BY <1>10, <2>6
  <2>8. e = L[n + 1].event
    BY <1>6, <2>6, <2>7
  <2>9. /\ u \in ViewRec /\ Tidy(u) /\ u.id.epoch = epoch /\ u.id.seq = n + 1
        /\ ~stopped => (~u.hole /\ Sees(L, u))
    BY <1>1, <1>5, <2>2, <2>4, <2>7, <2>8, NextFrame
  <2>10. ASSUME view'[b] = u PROVE EventsPending(L, s)'
    <3>1. /\ view'[stream'[s].browser].id.epoch = epoch
          /\ view'[stream'[s].browser].id.seq = n + 1
      BY <1>7, <1>8, <2>9, <2>10
    <3>2. c.head = <<>> /\ Len(c.head) = 0 /\ Len(c.queue) = k
      BY <1>6, <1>7, <2>3, <2>4
    <3>3. (n + 1) + k <= seq /\ (s \in clients => (n + 1) + k = seq) /\ n + 1 <= seq
      BY <1>10, <2>6
    <3>4. ASSUME NEW i \in 1..k PROVE c.queue[i] = L[(n + 1) + i].event
      <4>1. c.queue[i] = o.queue[i + 1]
        BY <1>6, <1>7, <2>3
      <4>2. i + 1 \in 1..(k + 1) /\ n + (i + 1) = (n + 1) + i
        OBVIOUS
      <4> QED BY <2>6, <4>1, <4>2
    <3>5. Follow(L, n + 1, c.queue)'
      BY <1>9, <3>2, <3>3, <3>4 DEF Follow
    <3>6. QueueFits(L, s, n + 1)'
      BY <1>8, <1>9, <3>2, <3>3, <3>5 DEF QueueFits
    <3>7. (n + 1) + Len(c.head) = n + 1
      BY <3>2
    <3>8. Follow(L, n + 1, c.head)'
      BY <1>9, <3>2, <3>3 DEF Follow
    <3>9. Follow(L, view[stream[s].browser].id.seq, stream[s].head)'
      BY <1>8, <3>1, <3>8
    <3>10. QueueFits(L, s, view[stream[s].browser].id.seq + Len(stream[s].head))'
      BY <1>8, <3>1, <3>6, <3>7
    <3> QED BY <1>8, <1>9, <3>1, <3>2, <3>9, <3>10 DEF EventsPending
  <2> QED BY <2>9, <2>10
<1>12. Hear(s, e)
  BY <1>2, <1>3 DEF e
<1>13. stream[s].heard =>
         /\ u \in ViewRec /\ Tidy(u) /\ u.id.epoch = epoch
         /\ ~stopped => (~u.hole /\ Sees(L, u))
         /\ view'[stream[s].browser] = u => EventsPending(L, s)'
  BY <1>3, <1>11
<1> QED
  BY <1>1, <1>2, <1>3, <1>4, <1>7, <1>12, <1>13, WriteStep

(* done is seen: the stream ends; a shutdown is announced.                 *)
LEMMA SeeDoneKeeps ==
  ASSUME HubInv, NEW s \in Streams, SeeDone(s)
  PROVE  HubInv'
<1>1. PICK L : HistoryFits(L)
  BY DEF HubInv
<1>2. /\ epoch' = epoch /\ seq' = seq /\ ring' = ring /\ offsets' = offsets
      /\ clients' = clients \ {s} /\ stopped' = stopped /\ exits' = exits
      /\ told' = told /\ term' = term /\ stream' = [stream EXCEPT ![s] = Free]
      /\ stream[s].pc = "serve"
  BY DEF SeeDone, End, Without
<1>3. Steady
  BY <1>2 DEF HubInv, HubTyped, Steady
<1>4. /\ StreamsTyped' /\ GoodbyeIsTrue' /\ ClientsServed' /\ \A r \in Streams : Kept(r)
      /\ stream'[s] = Free /\ \A r \in Streams \ {s} : stream'[r] = stream[r]
  BY <1>2, StreamsWithout
<1>5. /\ ViewsTyped' /\ ViewsFit(L)' /\ \A r \in Streams \ {s} : SameView(r)
  <2>1. CASE stream[s].reason = "shutdown"
    <3> DEFINE e == [id |-> [epoch |-> epoch, seq |-> seq], kind |-> "shutdown"]
               v == view[stream[s].browser]
               u == Received(v, e)
    <3>1. stopped
      BY <1>2, <2>1 DEF HubInv, GoodbyeIsTrue
    <3>2. HeardAs(s, u)
      BY <2>1 DEF SeeDone, Hear, HeardAs
    <3>3. v \in ViewRec /\ Tidy(v)
      BY <1>2, StreamHasFields DEF HubInv, ViewsTyped, StreamRec
    <3>4. u = [v EXCEPT !.id = [epoch |-> epoch, seq |-> seq], !.hole = @ \/ seq > v.id.seq]
      BY DEF Received
    <3>5. [epoch |-> epoch, seq |-> seq] \in Id
      BY DEF HubInv, HubTyped, Id
    <3>6. u \in ViewRec /\ u.id = [epoch |-> epoch, seq |-> seq] /\ Tidy(u)
      <4>1. (v.hole \/ seq > v.id.seq) \in BOOLEAN
        OBVIOUS
      <4> HIDE DEF v, u, e
      <4>2. /\ u \in ViewRec /\ u.id = [epoch |-> epoch, seq |-> seq]
            /\ u.known = v.known /\ u.gone = v.gone /\ u.mine = v.mine
        BY <3>3, <3>4, <3>5, <4>1 DEF ViewRec
      <4> QED BY <3>3, <4>2 DEF Tidy
    <3>7. u.id.epoch = epoch
      BY <3>6
    <3> HIDE DEF u
    <3> QED BY <1>1, <1>2, <1>3, <1>4, <3>1, <3>2, <3>6, <3>7, HeardViews
  <2>2. CASE stream[s].reason # "shutdown"
    <3>1. view' = view
      BY <2>2 DEF SeeDone
    <3>2. ViewsTyped'
      BY <1>1, <1>3, <3>1, SameViewsTyped
    <3>3. ViewsFit(L)'
      BY <1>1, <1>2, <1>3, <3>1, SteadyLog, SameViewsFit DEF HubInv, HistoryFits
    <3> QED BY <3>1, <3>2, <3>3 DEF SameView
  <2> QED BY <2>1, <2>2
<1>6. stream'[s].pc = "free" /\ s \notin clients'
  BY <1>2, <1>4 DEF Free
<1>7. /\ clients' \subseteq clients \cup {s} /\ (stopped' => clients' = {})
      /\ \A r \in clients' : stream'[r].pc \in {"head", "serve"}
  BY <1>2, <1>4 DEF ClientsServed
<1> QED BY <1>1, <1>2, <1>3, <1>4, <1>5, <1>6, <1>7, StreamStep

-----------------------------------------------------------------------------
(* attach, publish, and a new process.                                     *)

(* The end of a sequence, from its m-th element on.                        *)
LEMMA EndOfSeq ==
  ASSUME NEW S, NEW q \in Seq(S), NEW m \in Nat \ {0}, m <= Len(q) + 1
  PROVE  /\ SubSeq(q, m, Len(q)) \in Seq(S)
         /\ Len(SubSeq(q, m, Len(q))) = (Len(q) + 1) - m
         /\ \A i \in 1..((Len(q) + 1) - m) : SubSeq(q, m, Len(q))[i] = q[(m + i) - 1]
<1>1. Len(q) \in Nat
  OBVIOUS
<1>2. SubSeq(q, m, Len(q)) \in Seq(S)
  OBVIOUS
<1>3. Len(SubSeq(q, m, Len(q))) = (Len(q) + 1) - m
  BY <1>1
<1>4. ASSUME NEW i \in 1..((Len(q) + 1) - m)
      PROVE  SubSeq(q, m, Len(q))[i] = q[(m + i) - 1]
  BY <1>1
<1> QED BY <1>2, <1>3, <1>4

(* pruneExitsLocked keeps some of the exits.                               *)
LEMMA PrunedAreExits ==
  ASSUME NEW q \in Seq(Terminals), NEW es \in PrunedExits(q)
  PROVE  es \in Seq(Terminals) /\ ToSet(es) \subseteq ToSet(q)
<1>1. PICK k \in 1..(Len(q) + 1) : es = SubSeq(q, k, Len(q))
  BY DEF PrunedExits
<1>2. k \in Nat \ {0} /\ k <= Len(q) + 1 /\ Len(q) \in Nat
  BY <1>1
<1>3. /\ es \in Seq(Terminals) /\ Len(es) = (Len(q) + 1) - k
      /\ \A i \in 1..((Len(q) + 1) - k) : es[i] = q[(k + i) - 1]
  BY <1>1, <1>2, EndOfSeq
<1>4. ASSUME NEW x \in ToSet(es) PROVE x \in ToSet(q)
  <2>1. PICK i \in 1..Len(es) : x = es[i]
    BY <1>3 DEF ToSet
  <2>2. x = q[(k + i) - 1] /\ (k + i) - 1 \in 1..Len(q)
    BY <1>2, <1>3, <2>1
  <2> QED BY <2>2 DEF ToSet
<1> QED BY <1>3, <1>4

(* The replay of the ring: every frame after event n.                      *)
LEMMA ReplayFits ==
  ASSUME HubTyped, NEW L, RingFits(L), Logged(L), NEW n \in Nat,
         n = seq \/ (n < seq /\ Replayable(n))
  PROVE  /\ After(n) \in Seq(EventFrame) /\ n + Len(After(n)) = seq
         /\ Follow(L, n, After(n))
<1>1. CASE n = seq
  <2>1. After(n) = <<>> /\ <<>> \in Seq(EventFrame) /\ Len(After(n)) = 0
    BY <1>1 DEF After
  <2> QED BY <1>1, <2>1 DEF Follow
<1>2. CASE n < seq /\ Replayable(n)
  <2>1. PICK k \in Nat : k = Len(ring)
    BY DEF HubTyped
  <2>2. k >= 1
    BY <1>2, <2>1, NothingLeft DEF Replayable, HubTyped
  <2>3. /\ seq \in Nat /\ k <= seq
        /\ \A i \in 1..k : ring[i] = L[(seq - k) + i].event
    BY <2>1 DEF HubTyped, RingFits, Follow
  <2>4. PICK a \in Nat : a = (seq - k) + 1
    BY <2>3
  <2>5. ring[1].id.seq = a
    <3>1. ring[1] = L[a].event
      BY <2>2, <2>3, <2>4
    <3>2. a \in 1..seq
      BY <2>2, <2>3, <2>4
    <3>3. L[a].event.id = [epoch |-> epoch, seq |-> a]
      BY <3>2 DEF Logged
    <3> QED BY <3>1, <3>3
  <2>6. a <= n + 1
    BY <1>2, <2>5 DEF Replayable
  <2>7. PICK m \in Nat \ {0} : m = (n + 2) - a
    BY <2>6
  <2>8. m <= k + 1 /\ (k + 1) - m = seq - n
    BY <1>2, <2>3, <2>4, <2>7
  <2>9. After(n) = SubSeq(ring, m, Len(ring))
    <3>1. n # seq /\ n + (2 - ring[1].id.seq) = m
      BY <1>2, <2>3, <2>5, <2>7
    <3> QED BY <3>1 DEF After
  <2>10. ring \in Seq(EventFrame)
    BY DEF HubTyped
  <2>11. /\ After(n) \in Seq(EventFrame) /\ Len(After(n)) = (k + 1) - m
         /\ \A i \in 1..((k + 1) - m) : After(n)[i] = ring[(m + i) - 1]
    BY <2>1, <2>8, <2>9, <2>10, EndOfSeq
  <2>12. Len(After(n)) = seq - n /\ n + Len(After(n)) = seq
    BY <2>3, <2>8, <2>11
  <2>13. ASSUME NEW i \in 1..(seq - n) PROVE After(n)[i] = L[n + i].event
    <3>1. After(n)[i] = ring[(m + i) - 1]
      BY <2>8, <2>11
    <3>2. (m + i) - 1 \in 1..k
      BY <1>2, <2>3, <2>4, <2>7
    <3>3. (seq - k) + ((m + i) - 1) = n + i
      BY <2>3, <2>4, <2>7
    <3> QED BY <2>3, <3>1, <3>2, <3>3
  <2> HIDE DEF After
  <2> QED BY <2>3, <2>11, <2>12, <2>13 DEF Follow
<1> QED BY <1>1, <1>2

(* attach registers the stream with what it has to write first.            *)
LEMMA AttachKeeps ==
  ASSUME HubInv, NEW s \in Streams, Attach(s)
  PROVE  HubInv'
<1>1. PICK L : HistoryFits(L)
  BY DEF HubInv
<1> DEFINE c == stream[s]
           n == c.last.seq
           replay == /\ SameEpoch(c.last)
                     /\ \/ n = seq
                        \/ n < seq /\ Replayable(n)
           kicked == Crowded(c.session)
           K == Kick(stream, kicked, "limit")
           resync(es) == [id |-> [epoch |-> epoch, seq |-> seq], kind |-> "resync",
                          known |-> offsets, gone |-> ToSet(es)]
<1>2. /\ c.pc = "admitted" /\ ~stopped /\ view' = view /\ told' = told /\ term' = term
      /\ epoch' = epoch /\ seq' = seq /\ ring' = ring /\ offsets' = offsets
      /\ stopped' = stopped /\ clients' = (clients \ kicked) \cup {s}
  BY DEF Attach
<1>3. PICK es : /\ es \in (IF replay THEN {exits} ELSE PrunedExits(exits))
                /\ exits' = es
                /\ stream' = [K EXCEPT ![s] =
                     [c EXCEPT !.pc = "head", !.last = NoId, !.open = TRUE,
                               !.late = c.session \in told, !.queue = <<>>,
                               !.head = IF replay THEN After(n) ELSE <<resync(es)>>]]
  BY DEF Attach
<1>4. es \in Seq(Terminals) /\ ToSet(es) \subseteq ToSet(exits)
  <2>1. exits \in Seq(Terminals)
    BY DEF HubInv, HubTyped
  <2>2. es = exits \/ es \in PrunedExits(exits)
    BY <1>3
  <2> QED BY <2>1, <2>2, PrunedAreExits
<1>5. Steady
  BY <1>2, <1>3, <1>4 DEF Steady, HubInv, HubTyped
<1>6. kicked \in SUBSET clients
  BY DEF Crowded, AllButNewest
<1>7. /\ clients \subseteq Streams /\ s \notin clients
      /\ \A r \in clients : stream[r] \in StreamRec /\ stream[r].pc \in {"head", "serve"}
  BY <1>2, StreamHasFields DEF HubInv, ClientsServed
<1>8. /\ K \in [Streams -> StreamRec \cup {Free}]
      /\ \A r \in Streams :
           /\ K[r].pc = stream[r].pc
           /\ stream[r].pc # "free" =>
                /\ K[r].browser = stream[r].browser /\ K[r].session = stream[r].session
                /\ K[r].last = stream[r].last /\ K[r].heard = stream[r].heard
                /\ K[r].late = stream[r].late
                /\ K[r].queue = stream[r].queue /\ K[r].head = stream[r].head
                /\ K[r].reason \in {stream[r].reason, "limit"}
  <2>1. \A r \in kicked : stream[r] \in StreamRec
    BY <1>6, <1>7
  <2>2. stream \in [Streams -> StreamRec \cup {Free}] /\ kicked \in SUBSET Streams
    BY <1>6, <1>7 DEF HubInv, StreamsTyped
  <2> HIDE DEF kicked
  <2> QED BY <2>1, <2>2, KickedStream
<1>9. PICK o \in StreamRec : o = c
  BY <1>2, StreamHasFields DEF HubInv
<1> DEFINE head == IF replay THEN After(n) ELSE <<resync(es)>>
           u == [o EXCEPT !.pc = "head", !.last = NoId, !.open = TRUE,
                          !.late = o.session \in told, !.queue = <<>>, !.head = head]
<1>10. stream' = [K EXCEPT ![s] = u]
  BY <1>3, <1>9
<1>11. resync(es) \in ResyncFrame
  <2>1. [epoch |-> epoch, seq |-> seq] \in Id /\ offsets \in Maps /\ ToSet(es) \in SUBSET Terminals
    BY <1>4 DEF HubInv, HubTyped, Id, ToSet
  <2> QED BY <2>1 DEF ResyncFrame
<1>12. n \in Nat
  BY <1>9 DEF StreamRec, Id
<1>13. replay => /\ After(n) \in Seq(EventFrame) /\ n + Len(After(n)) = seq
                 /\ Follow(L, n, After(n))
  BY <1>1, <1>12, ReplayFits DEF HubInv, HistoryFits
<1> HIDE DEF replay, resync
<1>14. head \in Seq(HeadFrame)
  <2>1. CASE replay
    <3>1. head \in Seq(EventFrame)
      BY <1>13, <2>1
    <3> HIDE DEF head
    <3> QED BY <3>1 DEF HeadFrame
  <2>2. CASE ~replay
    <3>1. head = <<resync(es)>>
      BY <2>2
    <3> HIDE DEF head
    <3>2. resync(es) \in HeadFrame
      BY <1>11 DEF HeadFrame
    <3> QED BY <3>1, <3>2
  <2> QED BY <2>1, <2>2
<1> HIDE DEF head
<1>15. /\ u \in StreamRec /\ u.pc = "head" /\ u.browser = o.browser /\ u.session = o.session
       /\ u.heard = o.heard /\ u.reason = o.reason /\ u.head = head /\ u.queue = <<>>
  <2>1. <<>> \in Seq(EventFrame) /\ NoId \in Id /\ (o.session \in told) \in BOOLEAN
    BY DEF NoId, Id
  <2> HIDE DEF NoId
  <2> QED BY <1>14, <2>1 DEF StreamRec
<1>16. u.session \in told => u.late
  <2>1. u.late = (o.session \in told)
    BY DEF StreamRec
  <2> QED BY <1>15, <2>1
<1> HIDE DEF u, K, kicked
<1>17. stream'[s] = u /\ \A r \in Streams \ {s} : stream'[r] = K[r]
  BY <1>8, <1>10
<1>18. StreamsTyped'
  BY <1>8, <1>10, <1>15 DEF StreamsTyped
<1>19. \A r \in Streams \ {s} : Kept(r) /\ SameView(r)
  <2>1. SUFFICES ASSUME NEW r \in Streams \ {s}, stream'[r].pc # "free"
        PROVE  Kept(r) /\ SameView(r)
    BY DEF Kept, SameView
  <2>2. stream[r].pc # "free" /\ stream'[r] = K[r] /\ (r \in clients' => r \in clients)
    BY <1>2, <1>8, <1>17, <2>1
  <2> QED BY <1>2, <1>8, <2>2 DEF Kept, SameView
<1>20. GoodbyeIsTrue'
  <2>1. SUFFICES ASSUME NEW r \in Streams, stream'[r].pc # "free", stream'[r].reason = "shutdown"
        PROVE  stopped
    BY <1>2 DEF GoodbyeIsTrue
  <2>2. stream[r].pc # "free" /\ stream[r].reason = "shutdown"
    BY <1>2, <1>8, <1>9, <1>15, <1>17, <2>1
  <2> QED BY <2>2 DEF HubInv, GoodbyeIsTrue
<1>21. ViewsTyped'
  BY <1>1, <1>2, <1>5, SameViewsTyped
<1>22. /\ ViewsFit(L)'
       /\ \A m, known, gone : Knows(L, m, known, gone) => Knows(L, m, known, gone)'
  BY <1>1, <1>2, <1>5, SteadyLog, SameViewsFit DEF HubInv, HistoryFits
<1>23. \A r \in clients' : stream'[r].pc \in {"head", "serve"}
  BY <1>2, <1>7, <1>8, <1>15, <1>17
<1>24. ASSUME u.heard PROVE (ResyncPending(L, s) \/ EventsPending(L, s))'
  <2>1. PICK b \in Browsers : b = o.browser
    BY DEF StreamRec
  <2>2. o.last = view[b].id /\ view'[stream'[s].browser] = view[b]
    BY <1>2, <1>9, <1>15, <1>17, <1>24, <2>1 DEF HubInv, LastIsFresh
  <2>3. seq \in Nat /\ Len(u.queue) = 0
    BY <1>15 DEF HubInv, HubTyped
  <2>4. QueueFits(L, s, seq)'
    BY <1>2, <1>15, <1>17, <2>3 DEF QueueFits, Follow
  <2>5. CASE replay
    <3>1. /\ head = After(n) /\ n + Len(head) = seq /\ Follow(L, n, head)
          /\ view[b].id.epoch = epoch /\ view[b].id.seq = n
      BY <1>9, <1>13, <2>2, <2>5 DEF head, replay, SameEpoch
    <3>2. Follow(L, view[stream[s].browser].id.seq, stream[s].head)'
      <4>1. PICK m, h : m = n /\ h = head
        OBVIOUS
      <4>2. Follow(L, m, h)'
        BY <1>2, <3>1, <4>1 DEF Follow
      <4>3. view'[stream'[s].browser].id.seq = m /\ stream'[s].head = h
        BY <1>15, <1>17, <2>2, <3>1, <4>1
      <4> QED BY <4>2, <4>3
    <3>3. QueueFits(L, s, view[stream[s].browser].id.seq + Len(stream[s].head))'
      BY <1>2, <1>15, <1>17, <2>2, <2>4, <3>1
    <3>4. stream'[s].pc # "serve"
      BY <1>15, <1>17
    <3> QED BY <1>2, <2>2, <3>1, <3>2, <3>3, <3>4 DEF EventsPending
  <2>6. CASE ~replay
    <3>1. head = <<resync(es)>>
      BY <2>6 DEF head
    <3>2. PICK r : r = resync(es)
      OBVIOUS
    <3>3. /\ r.kind = "resync" /\ r.id = [epoch |-> epoch, seq |-> seq] /\ r.known = offsets
          /\ r.gone = ToSet(es)
      BY <3>2 DEF resync
    <3>4. Len(stream'[s].head) = 1 /\ stream'[s].head[1] = r /\ stream'[s].pc = "head"
      BY <1>15, <1>17, <3>2, <3>1
    <3>5. r.id.epoch = epoch /\ r.id.seq = seq
      BY <3>3
    <3>6. Knows(L, r.id.seq, r.known, r.gone)'
      <4>1. L[seq].known = offsets
        BY <1>1 DEF HistoryFits, Logged
      <4>2. seq \in 0..seq
        BY <2>3
      <4>3. ToSet(es) \subseteq {x \in Terminals : term[x] = "gone"}
        BY <1>1, <1>4, <4>2 DEF HistoryFits, Logged
      <4> QED BY <1>2, <1>3, <3>3, <3>5, <4>1, <4>2, <4>3 DEF Knows
    <3>7. Knows(L, stream[s].head[1].id.seq, stream[s].head[1].known, stream[s].head[1].gone)'
      BY <3>4, <3>6
    <3>8. QueueFits(L, s, stream[s].head[1].id.seq)'
      BY <1>2, <2>4, <3>4, <3>5
    <3> QED BY <1>2, <3>3, <3>4, <3>5, <3>7, <3>8 DEF ResyncPending
  <2> QED BY <2>5, <2>6
<1>25. ASSUME NEW r \in Streams \ {s}, u.heard, stream'[r].pc # "free", stream'[r].heard
       PROVE  stream'[r].browser # u.browser
  <2>1. /\ stream[r].pc # "free" /\ stream[r].heard /\ stream'[r].browser = stream[r].browser
        /\ stream[s].pc # "free" /\ stream[s].heard /\ u.browser = stream[s].browser
    BY <1>2, <1>8, <1>9, <1>15, <1>17, <1>25
  <2> QED BY <2>1 DEF HubInv, OneHeard
<1>26. /\ clients' \subseteq clients \cup {s} /\ (stopped' => clients' = {})
       /\ stream'[s].pc # "admitted"
  BY <1>2, <1>15, <1>17
<1> QED
  BY <1>1, <1>2, <1>5, <1>16, <1>17, <1>18, <1>19, <1>20, <1>21, <1>22, <1>23, <1>24,
     <1>25, <1>26, StreamStep

(* The history with event e, after which the offsets are known and the     *)
(* terminals of gone have ended.                                           *)
Longer(L, e, known, gone) ==
  [n \in 0..(seq + 1) |-> IF n <= seq THEN L[n]
                          ELSE [event |-> e, known |-> known, gone |-> gone]]

(* publish numbers the event, keeps it in the ring and gives it to every   *)
(* stream with room.                                                       *)
LEMMA PublishKeeps ==
  ASSUME HubInv, NEW kind \in {"data", "exit"}, NEW t \in Terminals, Publish(kind, t)
  PROVE  HubInv'
<1>1. PICK L : HistoryFits(L)
  BY DEF HubInv
<1> DEFINE off == IF t \in DOMAIN offsets THEN offsets[t] + 1 ELSE 1
           frame == [id |-> [epoch |-> epoch, seq |-> seq + 1], kind |-> kind, t |-> t,
                     off |-> IF kind = "data" THEN off ELSE 0]
           st == [s \in Streams |-> IF s \in clients \ Full
                                    THEN [stream[s] EXCEPT !.queue = Append(@, frame)]
                                    ELSE stream[s]]
<1>2. /\ ~stopped /\ term[t] = "live" /\ seq' = seq + 1
      /\ offsets' = Counted(offsets, kind, t, off)
      /\ IF kind = "exit" THEN exits' \in PrunedExits(Append(exits, t)) ELSE exits' = exits
      /\ term' = [term EXCEPT ![t] = IF kind = "exit" THEN "gone" ELSE @]
      /\ ring' = Trimmed(Append(ring, frame))
      /\ stream' = Kick(st, Full, "slow")
      /\ clients' = clients \ Full
      /\ epoch' = epoch /\ stopped' = stopped /\ told' = told /\ view' = view
  BY DEF Publish, Queued, Without
<1>3. /\ epoch \in Nat \ {0} /\ seq \in Nat /\ ring \in Seq(EventFrame) /\ offsets \in Maps
      /\ exits \in Seq(Terminals) /\ term \in [Terminals -> {"none", "live", "gone"}]
  BY DEF HubInv, HubTyped
<1>4. off \in Nat
  <2>1. PICK T \in SUBSET Terminals : offsets \in [T -> Nat]
    BY <1>3 DEF Maps
  <2> QED BY <2>1
<1> HIDE DEF off
<1>5. PICK e \in EventFrame : e = frame
  <2>1. [epoch |-> epoch, seq |-> seq + 1] \in Id
    BY <1>3 DEF Id
  <2>2. (IF kind = "data" THEN off ELSE 0) \in Nat
    BY <1>4
  <2> QED BY <2>1, <2>2 DEF EventFrame
<1>6. /\ e.id = [epoch |-> epoch, seq |-> seq + 1] /\ e.kind = kind /\ e.t = t
      /\ kind = "data" => e.off = off
  BY <1>5
<1> HIDE DEF frame
<1>7. /\ offsets' \in Maps /\ DOMAIN offsets' \subseteq DOMAIN offsets \cup {t}
      /\ kind = "exit" => t \notin DOMAIN offsets'
  <2>1. With(offsets, t, off) \in Maps /\ Less(offsets, t) \in Maps
    BY <1>3, <1>4, MapsStay
  <2>2. /\ DOMAIN With(offsets, t, off) = DOMAIN offsets \cup {t}
        /\ DOMAIN Less(offsets, t) = DOMAIN offsets \ {t}
    BY DEF With, Less
  <2>3. offsets' = IF kind = "data" THEN With(offsets, t, off) ELSE Less(offsets, t)
    BY <1>2 DEF Counted
  <2> QED BY <2>1, <2>2, <2>3
<1>8. exits' \in Seq(Terminals) /\ ToSet(exits') \subseteq ToSet(exits) \cup (IF kind = "exit" THEN {t} ELSE {})
  <2>1. CASE kind = "exit"
    <3>1. PICK q \in Seq(Terminals) : q = Append(exits, t)
      <4>1. Append(exits, t) \in Seq(Terminals)
        BY <1>3
      <4> QED BY <4>1, Zenon
    <3>2. ToSet(q) \subseteq ToSet(exits) \cup {t}
      BY <1>3, <3>1 DEF ToSet
    <3>3. exits' \in Seq(Terminals) /\ ToSet(exits') \subseteq ToSet(q)
      BY <1>2, <2>1, <3>1, PrunedAreExits
    <3> QED BY <2>1, <3>2, <3>3
  <2>2. CASE kind # "exit"
    BY <1>2, <1>3, <2>2
  <2> QED BY <2>1, <2>2
<1> DEFINE last == [event |-> e, known |-> offsets',
                    gone |-> L[seq].gone \cup (IF kind = "exit" THEN {t} ELSE {})]
<1>9. PICK M : /\ M = Longer(L, e, last.known, last.gone)
               /\ \A n \in 0..seq : M[n] = L[n]
               /\ M[seq + 1].event = e /\ M[seq + 1].known = offsets'
               /\ M[seq + 1].gone = L[seq].gone \cup (IF kind = "exit" THEN {t} ELSE {})
  <2> DEFINE M == Longer(L, e, last.known, last.gone)
  <2>1. ASSUME NEW n \in 0..seq PROVE M[n] = L[n]
    <3>1. n \in 0..(seq + 1) /\ n <= seq
      BY <1>3
    <3> QED BY <3>1 DEF Longer
  <2>2. M[seq + 1] = [event |-> e, known |-> last.known, gone |-> last.gone]
    <3>1. seq + 1 \in 0..(seq + 1) /\ ~(seq + 1 <= seq)
      BY <1>3
    <3> QED BY <3>1 DEF Longer
  <2> HIDE DEF M
  <2>3. M[seq + 1].event = e /\ M[seq + 1].known = offsets' /\ M[seq + 1].gone = last.gone
    BY <2>2
  <2> QED BY <2>1, <2>3 DEF M
<1> HIDE DEF last
<1>10. term' \in [Terminals -> {"none", "live", "gone"}] /\ \A x \in Terminals \ {t} : term'[x] = term[x]
  BY <1>2, <1>3
<1>11. (kind = "exit" => term'[t] = "gone") /\ (kind # "exit" => term'[t] = "live")
  BY <1>2, <1>3
<1>12. Logged(M)'
  <2>1. M[seq'].known = offsets' /\ ToSet(exits') \subseteq M[seq'].gone
    BY <1>1, <1>2, <1>8, <1>9 DEF HistoryFits, Logged
  <2>4. DOMAIN offsets \subseteq {x \in Terminals : term[x] = "live"}
    BY <1>1 DEF HistoryFits, Logged
  <2>5. DOMAIN offsets' \subseteq {x \in Terminals : term'[x] = "live"}
    BY <1>7, <1>10, <1>11, <2>4
  <2>2. ASSUME NEW n \in 0..(seq + 1)
        PROVE  /\ M[n].gone \subseteq {x \in Terminals : term'[x] = "gone"}
               /\ DOMAIN M[n].known \subseteq {x \in Terminals : term'[x] # "none"}
    <3>1. ASSUME NEW m \in 0..seq
          PROVE  /\ L[m].gone \subseteq {x \in Terminals : term'[x] = "gone"}
                 /\ DOMAIN L[m].known \subseteq {x \in Terminals : term'[x] # "none"}
      <4>1. /\ L[m].gone \subseteq {x \in Terminals : term[x] = "gone"}
            /\ DOMAIN L[m].known \subseteq {x \in Terminals : term[x] # "none"}
        BY <1>1 DEF HistoryFits, Logged
      <4> QED BY <1>2, <1>10, <1>11, <4>1
    <3>2. CASE n \in 0..seq
      BY <1>9, <3>1, <3>2
    <3>3. CASE n = seq + 1
      <4>1. seq \in 0..seq
        BY <1>3
      <4>2. DOMAIN M[n].known \subseteq {x \in Terminals : term'[x] # "none"}
        BY <1>9, <2>5, <3>3
      <4> QED BY <1>9, <1>11, <3>1, <3>3, <4>1, <4>2
    <3>4. n \in 0..seq \/ n = seq + 1
      BY <1>3
    <3> QED BY <3>2, <3>3, <3>4
  <2>3. ASSUME NEW n \in 1..(seq + 1)
        PROVE  /\ M[n].event \in EventFrame
               /\ M[n].event.id = [epoch |-> epoch, seq |-> n]
               /\ M[n].known = Counted(M[n - 1].known, M[n].event.kind, M[n].event.t,
                                       M[n].event.off)
               /\ M[n].gone = IF M[n].event.kind = "exit"
                              THEN M[n - 1].gone \cup {M[n].event.t} ELSE M[n - 1].gone
               /\ M[n].event.kind = "data" => M[n].event.t \notin M[n - 1].gone
    <3>1. CASE n \in 1..seq
      <4>1. n \in 0..seq /\ n - 1 \in 0..seq
        BY <1>3, <3>1
      <4>2. M[n] = L[n] /\ M[n - 1] = L[n - 1]
        BY <1>9, <4>1
      <4> QED BY <1>1, <3>1, <4>2 DEF HistoryFits, Logged
    <3>2. CASE n = seq + 1
      <4>1. seq \in 0..seq /\ n - 1 = seq
        BY <1>3, <3>2
      <4>2. M[n - 1] = L[seq] /\ M[n].event = e /\ M[n].known = offsets'
        BY <1>9, <3>2, <4>1
      <4>3. offsets = L[seq].known
        BY <1>1 DEF HistoryFits, Logged
      <4>4. M[n].known = Counted(L[seq].known, e.kind, e.t, e.off)
        BY <1>2, <1>6, <4>2, <4>3 DEF Counted
      <4>7. t \notin L[seq].gone
        BY <1>1, <1>2, <4>1 DEF HistoryFits, Logged
      <4>5. M[n].gone = IF e.kind = "exit" THEN L[seq].gone \cup {e.t} ELSE L[seq].gone
        BY <1>6, <1>9, <3>2
      <4>6. e.id = [epoch |-> epoch, seq |-> n]
        BY <1>6, <3>2
      <4> QED BY <1>6, <4>2, <4>4, <4>5, <4>6, <4>7
    <3>3. n \in 1..seq \/ n = seq + 1
      BY <1>3
    <3> QED BY <3>1, <3>2, <3>3
  <2> QED BY <1>2, <2>1, <2>2, <2>3, <2>5 DEF Logged
<1>13. Len(ring') <= seq' /\ ring' \in Seq(EventFrame) /\ RingFits(M)'
  <2>1. PICK k \in Nat : k = Len(ring)
    BY <1>3
  <2>2. k <= seq /\ \A i \in 1..k : ring[i] = L[(seq - k) + i].event
    BY <1>1, <2>1 DEF HistoryFits, RingFits, Follow
  <2>3. PICK a \in Seq(EventFrame) : a = Append(ring, e)
    <3>1. Append(ring, e) \in Seq(EventFrame)
      BY <1>3
    <3> QED BY <3>1, Zenon
  <2>4. Len(a) = k + 1 /\ a[k + 1] = e /\ \A i \in 1..k : a[i] = ring[i]
    BY <1>3, <2>1, <2>3
  <2>5. ASSUME NEW i \in 1..(k + 1) PROVE a[i] = M[(seq - k) + i].event
    <3>1. CASE i \in 1..k
      <4>1. (seq - k) + i \in 0..seq
        BY <1>3, <2>2, <3>1
      <4> QED BY <1>9, <2>2, <2>4, <3>1, <4>1
    <3>2. CASE i = k + 1
      <4>1. (seq - k) + i = seq + 1
        BY <1>3, <3>2
      <4> QED BY <1>9, <2>4, <3>2, <4>1
    <3> QED BY <3>1, <3>2
  <2>6. PICK m \in Nat \ {0} : m <= k + 1 /\ ring' = SubSeq(a, m, Len(a))
    <3>1. RingSize \in Nat \ {0}
      BY HubAssumption
    <3>2. ring' = SubSeq(a, IF k + 1 > RingSize THEN (k + 1) - RingSize + 1 ELSE 1, Len(a))
      BY <1>2, <1>5, <2>3, <2>4 DEF Trimmed
    <3>3. CASE k + 1 > RingSize
      <4>1. PICK m \in Nat \ {0} : m = (k + 1) - RingSize + 1 /\ m <= k + 1
        <5>1. (k + 1) - RingSize + 1 \in Nat \ {0} /\ (k + 1) - RingSize + 1 <= k + 1
          BY <3>1, <3>3
        <5> QED BY <5>1
      <4> QED BY <3>2, <3>3, <4>1
    <3>4. CASE ~(k + 1 > RingSize)
      BY <3>1, <3>2, <3>4
    <3> QED BY <3>3, <3>4
  <2>7. /\ ring' \in Seq(EventFrame) /\ Len(ring') = ((k + 1) + 1) - m
        /\ \A i \in 1..(((k + 1) + 1) - m) : ring'[i] = a[(m + i) - 1]
    BY <2>4, <2>6, EndOfSeq
  <2>8. PICK h \in Nat : h = Len(ring')
    BY <2>7
  <2>9. h = (k + 2) - m /\ h <= seq + 1
    BY <1>3, <2>2, <2>6, <2>7, <2>8
  <2>10. ASSUME NEW i \in 1..h PROVE ring'[i] = M[((seq + 1) - h) + i].event
    <3>1. (m + i) - 1 \in 1..(k + 1) /\ i \in 1..(((k + 1) + 1) - m)
      BY <2>6, <2>9
    <3>2. (seq - k) + ((m + i) - 1) = ((seq + 1) - h) + i
      BY <1>3, <2>9
    <3>3. ring'[i] = a[(m + i) - 1]
      BY <2>7, <3>1
    <3> QED BY <2>5, <3>1, <3>2, <3>3
  <2>11. PICK z \in Nat : z = (seq + 1) - h /\ z + h = seq + 1
    <3>1. (seq + 1) - h \in Nat /\ ((seq + 1) - h) + h = seq + 1
      BY <1>3, <2>9
    <3> QED BY <3>1
  <2>12. Follow(M, z, ring)'
    BY <1>2, <2>8, <2>10, <2>11 DEF Follow
  <2>13. seq' - Len(ring') = z
    BY <1>2, <2>8, <2>11
  <2> QED BY <1>2, <2>7, <2>8, <2>9, <2>12, <2>13 DEF RingFits
<1>14. \A n, known, gone : Knows(L, n, known, gone) => Knows(M, n, known, gone)'
  <2>1. SUFFICES ASSUME NEW n, NEW known, NEW gone, Knows(L, n, known, gone)
        PROVE  Knows(M, n, known, gone)'
    OBVIOUS
  <2>2. n \in 0..seq /\ n \in 0..(seq + 1) /\ M[n] = L[n]
    BY <1>3, <1>9, <2>1 DEF Knows
  <2>3. t \notin L[n].gone
    BY <1>1, <1>2, <2>2 DEF HistoryFits, Logged
  <2>4. ToSet(exits') \cap L[n].gone \subseteq gone
    BY <1>8, <2>1, <2>3 DEF Knows
  <2>5. gone \subseteq {x \in Terminals : term'[x] = "gone"}
    BY <1>2, <1>10, <2>1 DEF Knows
  <2> QED BY <1>2, <2>1, <2>2, <2>4, <2>5 DEF Knows
<1>31. \A w : Sees(L, w) => Sees(M, w)'
  <2>1. SUFFICES ASSUME NEW w, Sees(L, w) PROVE Sees(M, w)'
    OBVIOUS
  <2>2. PICK n : n = w.id.seq /\ n \in 0..seq /\ n \in 0..(seq + 1) /\ M[n] = L[n]
    BY <1>3, <1>9, <2>1 DEF Sees
  <2>3. t \notin L[n].gone
    BY <1>1, <1>2, <2>2 DEF HistoryFits, Logged
  <2>4. (ToSet(exits') \cap L[n].gone) \cap DOMAIN w.known = {}
    BY <1>8, <2>1, <2>2, <2>3 DEF Sees
  <2> QED BY <1>2, <2>1, <2>2, <2>4 DEF Sees
<1>32. \A w \in ViewRec : Tidy(w) => Tidy(w)'
  <2>1. SUFFICES ASSUME NEW w \in ViewRec, Tidy(w) PROVE Tidy(w)'
    OBVIOUS
  <2>2. w.mine \subseteq Terminals
    BY DEF ViewRec
  <2> QED BY <1>2, <1>10, <1>11, <2>1, <2>2 DEF Tidy
<1>15. /\ clients \subseteq Streams /\ Full \in SUBSET clients
       /\ \A s \in clients : stream[s] \in StreamRec
  BY StreamHasFields DEF HubInv, ClientsServed, Full
<1>16. ASSUME NEW s \in clients \ Full
       PROVE  /\ st[s] \in StreamRec /\ st[s].pc = stream[s].pc /\ st[s].browser = stream[s].browser
              /\ st[s].session = stream[s].session /\ st[s].last = stream[s].last
              /\ st[s].heard = stream[s].heard /\ st[s].late = stream[s].late
              /\ st[s].head = stream[s].head /\ st[s].reason = stream[s].reason
              /\ st[s].queue = Append(stream[s].queue, e)
  <2>1. PICK o \in StreamRec : o = stream[s]
    BY <1>15, <1>16
  <2>2. s \in Streams /\ o.queue \in Seq(EventFrame)
    BY <1>15, <1>16 DEF StreamRec
  <2> DEFINE u == st[s]
  <2>3. u = [o EXCEPT !.queue = Append(@, e)]
    BY <1>5, <1>16, <2>1, <2>2
  <2>4. Append(o.queue, e) \in Seq(EventFrame)
    BY <2>2
  <2> HIDE DEF u
  <2>5. /\ u \in StreamRec /\ u.pc = o.pc /\ u.browser = o.browser
        /\ u.session = o.session /\ u.last = o.last /\ u.heard = o.heard /\ u.late = o.late
        /\ u.head = o.head /\ u.reason = o.reason /\ u.queue = Append(o.queue, e)
    BY <2>3, <2>4 DEF StreamRec
  <2> QED BY <2>1, <2>5 DEF u
<1>17. \A s \in Streams : s \notin clients \ Full => st[s] = stream[s]
  OBVIOUS
<1>18. st \in [Streams -> StreamRec \cup {Free}]
  <2>1. \A s \in Streams : st[s] \in StreamRec \cup {Free}
    BY <1>16, <1>17 DEF HubInv, StreamsTyped
  <2>2. st = [s \in Streams |-> st[s]]
    OBVIOUS
  <2> HIDE DEF st
  <2> QED BY <2>1, <2>2
<1> HIDE DEF st
<1>19. /\ stream' \in [Streams -> StreamRec \cup {Free}]
       /\ \A s \in Streams :
            /\ stream'[s].pc = st[s].pc
            /\ st[s].pc # "free" =>
                 /\ stream'[s].browser = st[s].browser /\ stream'[s].session = st[s].session
                 /\ stream'[s].last = st[s].last /\ stream'[s].heard = st[s].heard
                 /\ stream'[s].late = st[s].late
                 /\ stream'[s].queue = st[s].queue /\ stream'[s].head = st[s].head
                 /\ stream'[s].reason \in {st[s].reason, "slow"}
  <2>1. \A s \in Full : st[s] \in StreamRec
    BY <1>15, <1>17
  <2>2. Full \in SUBSET Streams
    BY <1>15
  <2> QED BY <1>2, <1>18, <2>1, <2>2, KickedStream
<1>20. ASSUME NEW s \in Streams, stream'[s].pc # "free"
       PROVE  /\ stream[s].pc # "free" /\ stream'[s].pc = stream[s].pc
              /\ stream'[s].browser = stream[s].browser /\ stream'[s].session = stream[s].session
              /\ stream'[s].last = stream[s].last /\ stream'[s].heard = stream[s].heard
              /\ stream'[s].late = stream[s].late /\ stream'[s].head = stream[s].head
              /\ stream'[s].reason \in {stream[s].reason, "slow"}
              /\ s \in clients' => stream'[s].queue = Append(stream[s].queue, e)
              /\ s \notin clients' => stream'[s].queue = stream[s].queue
  <2>1. CASE s \in clients \ Full
    BY <1>2, <1>16, <1>19, <1>20, <2>1
  <2>2. CASE s \notin clients \ Full
    BY <1>2, <1>17, <1>19, <1>20, <2>2
  <2> QED BY <2>1, <2>2
<1>21. ASSUME NEW s \in Streams, stream'[s].pc # "free", NEW n, QueueFits(L, s, n)
       PROVE  QueueFits(M, s, n)'
  <2>1. PICK q \in Seq(EventFrame) : q = stream[s].queue
    <3>1. stream[s] \in StreamRec
      BY <1>20, <1>21, StreamHasFields DEF HubInv
    <3> QED BY <3>1 DEF StreamRec
  <2>2. PICK k \in Nat : k = Len(q)
    BY <2>1
  <2>3. /\ n \in Nat /\ n + k <= seq /\ (\A i \in 1..k : q[i] = L[n + i].event)
        /\ s \in clients => n + k = seq
    BY <1>21, <2>1, <2>2 DEF QueueFits, Follow
  <2>4. ASSUME NEW i \in 1..k PROVE q[i] = M[n + i].event
    <3>1. n + i \in 0..seq
      BY <1>3, <2>3
    <3> QED BY <1>9, <2>3, <3>1
  <2>5. CASE s \in clients'
    <3>1. PICK p : p = Append(q, e) /\ p = stream'[s].queue
      BY <1>20, <1>21, <2>1, <2>5
    <3>2. Len(p) = k + 1 /\ p[k + 1] = e /\ \A i \in 1..k : p[i] = q[i]
      <4>1. LET a == Append(q, e) IN Len(a) = k + 1 /\ a[k + 1] = e /\ \A i \in 1..k : a[i] = q[i]
        BY <2>2
      <4> QED BY <3>1, <4>1, Zenon
    <3>3. n + k = seq
      BY <1>2, <2>3, <2>5
    <3>4. n + (k + 1) = seq + 1
      BY <2>3, <3>3
    <3>5. ASSUME NEW i \in 1..(k + 1) PROVE p[i] = M[n + i].event
      <4>1. CASE i \in 1..k
        BY <2>4, <3>2, <4>1
      <4>2. CASE i = k + 1
        BY <1>9, <3>2, <3>4, <4>2
      <4> QED BY <4>1, <4>2
    <3>6. Follow(M, n, stream[s].queue)'
      <4>1. n + Len(p) <= seq'
        BY <1>2, <1>3, <3>2, <3>4
      <4>2. \A i \in 1..Len(p) : p[i] = M[n + i].event
        BY <3>2, <3>5
      <4>3. Follow(M, n, p)'
        BY <2>3, <4>1, <4>2 DEF Follow
      <4> QED BY <3>1, <4>3
    <3>7. n + Len(stream'[s].queue) = seq'
      BY <1>2, <3>1, <3>2, <3>4
    <3> QED BY <3>6, <3>7 DEF QueueFits
  <2>6. CASE s \notin clients'
    <3>1. stream'[s].queue = q
      BY <1>20, <1>21, <2>1, <2>6
    <3>2. n + k <= seq'
      BY <1>2, <1>3, <2>3
    <3> QED BY <2>2, <2>3, <2>4, <2>6, <3>1, <3>2 DEF QueueFits, Follow
  <2> QED BY <2>5, <2>6
<1>22. StreamsFit(M)'
  <2>1. SUFFICES ASSUME NEW s \in Streams, stream'[s].pc \in {"head", "serve"}, stream'[s].heard
        PROVE  (ResyncPending(M, s) \/ EventsPending(M, s))'
    BY DEF StreamsFit
  <2>2. /\ stream[s].pc \in {"head", "serve"} /\ stream[s].heard /\ stream'[s].pc = stream[s].pc
        /\ stream'[s].head = stream[s].head /\ stream'[s].browser = stream[s].browser
        /\ stream'[s].pc # "free"
    BY <1>20, <2>1
  <2>3. CASE ResyncPending(L, s)
    <3>1. PICK r : r = stream[s].head[1]
      OBVIOUS
    <3>2. /\ stream[s].pc = "head" /\ Len(stream[s].head) = 1
          /\ r.kind = "resync" /\ r.id.epoch = epoch
          /\ Knows(L, r.id.seq, r.known, r.gone) /\ QueueFits(L, s, r.id.seq)
      BY <2>3, <3>1 DEF ResyncPending
    <3>3. Knows(M, r.id.seq, r.known, r.gone)' /\ QueueFits(M, s, r.id.seq)'
      BY <1>14, <1>21, <2>2, <3>2
    <3> QED BY <1>2, <2>2, <3>1, <3>2, <3>3 DEF ResyncPending
  <2>4. CASE EventsPending(L, s)
    <3>1. PICK v, h : v = view[stream[s].browser] /\ h = stream[s].head
      OBVIOUS
    <3>2. /\ v.id.epoch = epoch /\ Follow(L, v.id.seq, h) /\ QueueFits(L, s, v.id.seq + Len(h))
          /\ stream[s].pc = "serve" => h = <<>>
      BY <2>4, <3>1 DEF EventsPending
    <3>3. QueueFits(M, s, v.id.seq + Len(h))'
      BY <1>21, <2>2, <3>2
    <3>4. Follow(M, v.id.seq, h)'
      <4>1. PICK n \in Nat : n = v.id.seq
        BY <3>2 DEF Follow
      <4>2. h \in Seq(HeadFrame)
        BY <2>2, <3>1, StreamHasFields DEF HubInv, StreamRec
      <4>3. PICK k \in Nat : k = Len(h)
        BY <4>2
      <4>4. n + k <= seq /\ \A i \in 1..k : h[i] = L[n + i].event
        BY <3>2, <4>1, <4>3 DEF Follow
      <4>5. ASSUME NEW i \in 1..k PROVE h[i] = M[n + i].event
        <5>1. n + i \in 0..seq
          BY <1>3, <4>4
        <5> QED BY <1>9, <4>4, <5>1
      <4>6. n + k <= seq'
        BY <1>2, <1>3, <4>4
      <4> QED BY <4>1, <4>3, <4>5, <4>6 DEF Follow
    <3>5. view'[stream'[s].browser] = v
      BY <1>2, <2>2, <3>1
    <3> QED BY <1>2, <2>2, <3>1, <3>2, <3>3, <3>4, <3>5 DEF EventsPending
  <2> QED BY <1>1, <2>2, <2>3, <2>4 DEF HistoryFits, StreamsFit
<1>23. ViewsFit(M)'
  <2>1. SUFFICES ASSUME NEW b \in Browsers, view[b].id.epoch = epoch
        PROVE  ~view[b].hole /\ Sees(M, view[b])'
    BY <1>2 DEF ViewsFit
  <2>2. PICK v : v = view[b]
    OBVIOUS
  <2>3. ~v.hole /\ Sees(L, v)
    BY <1>1, <1>2, <2>1, <2>2 DEF HistoryFits, ViewsFit
  <2>4. Sees(M, v)'
    BY <1>31, <2>3
  <2> QED BY <1>2, <2>2, <2>3, <2>4
<1>24. HubTyped'
  BY <1>2, <1>3, <1>7, <1>8, <1>10, <1>13 DEF HubInv, HubTyped
<1>25. StreamsTyped' /\ ViewsTyped'
  <2>1. ASSUME NEW b \in Browsers PROVE Tidy(view[b])'
    <3>1. PICK w \in ViewRec : w = view[b] /\ Tidy(w)
      BY DEF HubInv, ViewsTyped
    <3>2. Tidy(w)'
      BY <1>32, <3>1
    <3> QED BY <1>2, <3>1, <3>2 DEF Tidy
  <2> QED BY <1>2, <1>19, <2>1 DEF HubInv, StreamsTyped, ViewsTyped
<1>26. ClientsServed'
  BY <1>2, <1>15, <1>16, <1>19 DEF HubInv, ClientsServed
<1>27. GoodbyeIsTrue'
  BY <1>2, <1>20 DEF HubInv, GoodbyeIsTrue
<1>28. OneHeard'
  BY <1>20 DEF HubInv, OneHeard
<1>29. LastIsFresh'
  BY <1>2, <1>20 DEF HubInv, LastIsFresh
<1>30. OnlyLateStreamsSurvive'
  <2>1. SUFFICES ASSUME NEW s \in clients', stream'[s].session \in told
        PROVE  stream'[s].late
    BY <1>2 DEF OnlyLateStreamsSurvive
  <2>2. s \in clients /\ s \in Streams /\ stream'[s].pc # "free"
    BY <1>2, <1>15, <1>26 DEF ClientsServed
  <2> QED BY <1>20, <2>1, <2>2 DEF HubInv, OnlyLateStreamsSurvive
<1> QED
  BY <1>12, <1>13, <1>22, <1>23, <1>24, <1>25, <1>26, <1>27, <1>28, <1>29, <1>30
     DEF HubInv, HistoryFits

(* The first state of a process: no event, no stream, and browsers that    *)
(* know nothing of its epoch.                                              *)
Fresh ==
  /\ epoch \in Nat \ {0} /\ seq = 0 /\ ring = <<>> /\ clients = {}
  /\ offsets = <<>> /\ exits = <<>> /\ stopped = FALSE
  /\ stream = [s \in Streams |-> Free] /\ term = [t \in Terminals |-> "none"]
  /\ view \in [Browsers -> ViewRec]
  /\ \A b \in Browsers : view[b].id.epoch < epoch /\ Tidy(view[b])

(* A fresh process keeps what it promises.                                 *)
LEMMA NewProcess == Fresh => HubInv
<1> SUFFICES ASSUME Fresh PROVE HubInv
  OBVIOUS
<1> USE DEF Fresh
<1>1. \A s \in Streams : stream[s] = Free /\ stream[s].pc = "free"
  BY DEF Free
<1>2. HubTyped
  <2>1. <<>> \in Seq(EventFrame) /\ <<>> \in Seq(Terminals) /\ <<>> \in Maps
    BY EmptyMap
  <2> QED BY <2>1 DEF HubTyped
<1>3. StreamsTyped /\ ClientsServed /\ OnlyLateStreamsSurvive
  BY DEF StreamsTyped, ClientsServed, OnlyLateStreamsSurvive
<1>4. \A b \in Browsers : view[b].id.epoch \in Nat /\ view[b].id.epoch <= epoch
                          /\ view[b].id.epoch # epoch
  BY DEF ViewRec, Id
<1>5. ViewsTyped
  BY <1>4 DEF ViewsTyped
<1>6. GoodbyeIsTrue /\ OneHeard /\ LastIsFresh
  BY <1>1 DEF GoodbyeIsTrue, OneHeard, LastIsFresh
<1>7. PICK L : L[0].known = <<>> /\ L[0].gone = {} /\ DOMAIN L[0].known = {}
  <2> DEFINE L == [n \in {0} |-> [known |-> <<>>, gone |-> {}]]
  <2>1. L[0].known = <<>> /\ L[0].gone = {} /\ DOMAIN L[0].known = {}
    OBVIOUS
  <2> QED BY <2>1
<1>8. Logged(L)
  <2>1. ToSet(exits) = {}
    BY DEF ToSet
  <2>2. 0..seq = {0} /\ 1..seq = {}
    OBVIOUS
  <2> QED BY <1>7, <2>1, <2>2 DEF Logged
<1>9. RingFits(L)
  <2>1. Len(ring) = 0
    OBVIOUS
  <2> QED BY <2>1 DEF RingFits, Follow
<1>10. StreamsFit(L) /\ ViewsFit(L)
  BY <1>1, <1>4 DEF StreamsFit, ViewsFit
<1> QED BY <1>2, <1>3, <1>5, <1>6, <1>8, <1>9, <1>10 DEF HubInv, HistoryFits

(* newEventHub                                                             *)
LEMMA HubInit == Init => HubInv
<1>1. SUFFICES ASSUME Init PROVE HubInv
  OBVIOUS
<1>2. NewView \in ViewRec /\ NewView.id.epoch = 0 /\ Tidy(NewView)
  BY NewViewIsTidy
<1>3. view = [b \in Browsers |-> NewView]
  BY <1>1 DEF Init
<1>4. view \in [Browsers -> ViewRec] /\ \A b \in Browsers : view[b].id.epoch < 1 /\ Tidy(view[b])
  BY <1>2, <1>3
<1>5. Fresh
  BY <1>1, <1>4 DEF Init, NewHub, Fresh
<1> QED BY <1>5, NewProcess

(* The process starts again.                                               *)
LEMMA RestartKeeps ==
  ASSUME HubInv, Restart
  PROVE  HubInv'
<1>1. epoch' = epoch + 1 /\ epoch \in Nat \ {0} /\ epoch' \in Nat \ {0}
  <2>1. epoch' = epoch + 1
    BY DEF Restart
  <2>2. epoch \in Nat \ {0}
    BY DEF HubInv, HubTyped
  <2> QED BY <2>1, <2>2
<1>2. ASSUME NEW b \in Browsers
      PROVE  view'[b] \in ViewRec /\ view'[b].id.epoch < epoch' /\ Tidy(view[b])'
  <2>1. PICK v \in ViewRec : v = view[b]
    BY DEF HubInv, ViewsTyped
  <2> DEFINE u == view'[b]
  <2>2. u = [v EXCEPT !.known = <<>>, !.gone = {}, !.mine = {}]
    BY <2>1 DEF Restart
  <2> HIDE DEF u
  <2>3. u \in ViewRec /\ u.id = v.id /\ u.gone = {} /\ u.mine = {}
    BY <2>2, EmptyMap DEF ViewRec
  <2>4. v.id.epoch \in Nat /\ v.id.epoch <= epoch
    BY <2>1 DEF HubInv, ViewsTyped, ViewRec, Id
  <2>5. u.id.epoch < epoch'
    BY <1>1, <2>3, <2>4
  <2>7. Tidy(view[b])'
    BY <2>3 DEF u, Tidy
  <2> QED BY <2>3, <2>5, <2>7 DEF u
<1>3. view' \in [Browsers -> ViewRec]
  <2>1. view' = [b \in Browsers |-> view'[b]]
    BY DEF Restart
  <2> QED BY <1>2, <2>1
<1>4. /\ seq' = 0 /\ ring' = <<>> /\ clients' = {} /\ offsets' = <<>> /\ exits' = <<>>
      /\ stopped' = FALSE /\ stream' = [s \in Streams |-> Free]
      /\ term' = [t \in Terminals |-> "none"]
  BY DEF Restart
<1>5. Fresh'
  BY <1>1, <1>2, <1>3, <1>4 DEF Fresh
<1> QED BY <1>5, NewProcess, PTL

(* Nothing changes.                                                        *)
LEMMA HubStutters ==
  ASSUME HubInv, UNCHANGED vars
  PROVE  HubInv'
<1>1. /\ epoch' = epoch /\ seq' = seq /\ ring' = ring /\ offsets' = offsets
      /\ clients' = clients /\ stopped' = stopped /\ exits' = exits
      /\ stream' = stream /\ told' = told /\ view' = view /\ term' = term
  BY DEF vars, hub, registry
<1>2. Steady
  BY <1>1 DEF HubInv, HubTyped, Steady
<1>3. StreamsTyped' /\ GoodbyeIsTrue' /\ ClientsServed'
  BY <1>1 DEF HubInv, StreamsTyped, GoodbyeIsTrue, ClientsServed
<1>4. \A s \in Streams : Kept(s)
  BY <1>1 DEF Kept
<1>5. (\A s \in clients' : stream'[s].pc # "free") /\ (stopped' => clients' = {})
  BY <1>3 DEF ClientsServed
<1> QED BY <1>1, <1>2, <1>3, <1>4, <1>5, QuietHubStep

(* Every step of the hub, of a stream or of a session keeps HubInv.        *)
LEMMA HubStep == HubInv /\ [Next]_vars => HubInv'
<1>1. SUFFICES ASSUME HubInv, [Next]_vars PROVE HubInv'
  OBVIOUS
<1>2. CASE \E s \in Streams : Serve(s) \/ WriteFails(s)
  <2>1. PICK s \in Streams : Serve(s) \/ WriteFails(s)
    BY <1>2
  <2>2. CASE Attach(s)
    BY <1>1, <2>2, AttachKeeps
  <2>3. CASE Refuse(s)
    BY <1>1, <2>3, RefuseKeeps
  <2>4. CASE WriteHead(s)
    BY <1>1, <2>4, WriteHeadKeeps
  <2>5. CASE HeadWritten(s)
    BY <1>1, <2>5, HeadWrittenKeeps
  <2>6. CASE WriteQueued(s)
    BY <1>1, <2>6, WriteQueuedKeeps
  <2>7. CASE SeeDone(s)
    BY <1>1, <2>7, SeeDoneKeeps
  <2>8. CASE WriteFails(s)
    BY <1>1, <2>8, WriteFailsKeeps
  <2> QED BY <2>1, <2>2, <2>3, <2>4, <2>5, <2>6, <2>7, <2>8 DEF Serve
<1>3. CASE \E s \in Streams, b \in Browsers, x \in Sessions : Request(s, b, x)
  BY <1>1, <1>3, RequestKeeps
<1>4. CASE \E kind \in {"data", "exit"}, t \in Terminals : Publish(kind, t)
  BY <1>1, <1>4, PublishKeeps
<1>5. CASE \E b \in Browsers, t \in Terminals : StartTerminal(b, t)
  BY <1>1, <1>5, StartTerminalKeeps
<1>10. CASE \E b \in Browsers : Reload(b)
  BY <1>1, <1>10, ReloadKeeps
<1>6. CASE \E x \in Sessions : EndSession(x) \/ CloseSession(x)
  BY <1>1, <1>6, EndSessionKeeps, CloseSessionKeeps
<1>7. CASE Shutdown
  BY <1>1, <1>7, ShutdownKeeps
<1>8. CASE Restart
  BY <1>1, <1>8, RestartKeeps
<1>9. CASE UNCHANGED vars
  BY <1>1, <1>9, HubStutters
<1> QED
  BY <1>1, <1>2, <1>3, <1>4, <1>5, <1>6, <1>7, <1>8, <1>9, <1>10 DEF Next

(* HubInv is an invariant of the event hub (webevents.go): there is one    *)
(* history of the epoch of which the ring is the end, what a stream still  *)
(* has to write is a stretch without gaps, and what a page makes of the    *)
(* frames (headless-shim.js) agrees, on the terminals it knows, with a     *)
(* prefix.                                                                 *)
THEOREM HubInvariant == Spec => []HubInv
BY HubInit, HubStep, PTL DEF Spec

(* A browser of the running epoch has missed no event up to the last it    *)
(* saw, whatever streams were cut, replaced, kicked as slow or reconnected *)
(* with Last-Event-ID: attach replays the ring from the right index or     *)
(* sends a resync.                                                         *)
THEOREM NoEventIsMissed == Spec => []NoHiddenHole
<1>1. HubInv => NoHiddenHole
  BY DEF HubInv, HistoryFits, ViewsFit, NoHiddenHole
<1> QED BY <1>1, HubInvariant, PTL

(* A listed stream with nothing left to write has brought its page to the  *)
(* last event and to the offset of every terminal the page opened or heard *)
(* of, and the page takes none of them for open whose end                  *)
(* pruneExitsLocked still keeps: the resync of headless-shim.js, which     *)
(* looks only at terminals the page knows, is enough for these.            *)
THEOREM DrainedStreamsAreCaughtUp == Spec => []CaughtUp
<1>1. ASSUME HubInv PROVE CaughtUp
  <2>1. SUFFICES ASSUME NEW s \in clients, stream[s].pc = "serve", stream[s].queue = <<>>,
                        stream[s].heard
        PROVE  LET v == view[stream[s].browser]
               IN  /\ v.id = [epoch |-> epoch, seq |-> seq]
                   /\ \A t \in DOMAIN offsets \cap (v.mine \cup DOMAIN v.known) :
                        t \in DOMAIN v.known /\ v.known[t] = offsets[t]
                   /\ ToSet(exits) \cap DOMAIN v.known = {}
    BY DEF CaughtUp
  <2>2. PICK L : HistoryFits(L)
    BY <1>1 DEF HubInv
  <2>3. s \in Streams /\ ~stopped
    BY <1>1 DEF HubInv, ClientsServed, HubTyped
  <2>4. PICK v \in ViewRec : v = view[stream[s].browser]
    BY <1>1, <2>1, <2>3, StreamHasFields DEF HubInv, ViewsTyped, StreamRec
  <2>5. EventsPending(L, s)
    BY <2>1, <2>2, <2>3 DEF HistoryFits, StreamsFit, ResyncPending
  <2>6. /\ v.id.epoch = epoch /\ stream[s].head = <<>>
        /\ (v.id.seq + Len(stream[s].head)) + Len(stream[s].queue) = seq
    BY <2>1, <2>4, <2>5 DEF EventsPending, QueueFits
  <2>7. v.id \in Id /\ v.id.seq \in Nat
    BY DEF ViewRec, Id
  <2>8. v.id.seq = seq
    <3>1. Len(stream[s].head) = 0 /\ Len(stream[s].queue) = 0
      BY <2>1, <2>6
    <3> QED BY <2>6, <2>7, <3>1
  <2>9. v.id = [epoch |-> epoch, seq |-> seq]
    BY <2>6, <2>7, <2>8 DEF Id
  <2>10. stream[s].browser \in Browsers
    BY <1>1, <2>1, <2>3, StreamHasFields DEF HubInv, StreamRec
  <2>11. Sees(L, v)
    BY <2>2, <2>3, <2>4, <2>6, <2>10 DEF HistoryFits, ViewsFit
  <2>12. /\ L[seq].known = offsets /\ ToSet(exits) \subseteq L[seq].gone
         /\ \A t \in DOMAIN offsets : term[t] = "live"
    BY <2>2 DEF HistoryFits, Logged
  <2>13. Tidy(v)
    BY <1>1, <2>4, <2>10 DEF HubInv, ViewsTyped
  <2>14. \A t \in DOMAIN offsets \cap (v.mine \cup DOMAIN v.known) :
           t \in DOMAIN v.known /\ v.known[t] = offsets[t]
    BY <2>8, <2>11, <2>12, <2>13 DEF Sees, Tidy
  <2>15. ToSet(exits) \cap DOMAIN v.known = {}
    BY <2>8, <2>11, <2>12 DEF Sees
  <2> QED BY <2>4, <2>9, <2>14, <2>15
<1> QED BY <1>1, HubInvariant, PTL

(* closeSession leaves no stream of its session listed; only one whose     *)
(* request had passed requireSession before, and that attach registered    *)
(* afterwards, can be.                                                     *)
THEOREM ClosedSessionsKeepNoStream == Spec => []OnlyLateStreamsSurvive
<1>1. HubInv => OnlyLateStreamsSurvive
  BY DEF HubInv
<1> QED BY <1>1, HubInvariant, PTL
=============================================================================
