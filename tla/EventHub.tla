------------------------------- MODULE EventHub -------------------------------
(***************************************************************************)
(* The event hub of the web administration (webevents.go): events get      *)
(* sequence numbers, are kept in a bounded ring and are put on the bounded *)
(* queue of every open stream; a browser that reconnects names the last    *)
(* event it saw and gets the ones after it from the ring, or a resync.     *)
(*                                                                         *)
(* A browser is what the page makes of the frames it receives              *)
(* (webadmin/headless-shim.js): the last event id and, for the terminals   *)
(* it opened or heard of, how far their output is known or that they       *)
(* exited.  A page may be loaded anew.  Sessions end in adminAuth, which   *)
(* tells the hub afterwards.  The process may be shut down, die and start  *)
(* again with a new epoch.  Frames count one unit each, so that one bound  *)
(* stands for the length of a queue and for its bytes, and likewise for    *)
(* the ring; pings and the sessions list of a resync are left out.         *)
(***************************************************************************)
EXTENDS Integers, Sequences, SequencesExt, FiniteSets

CONSTANTS
  Browsers,
  Streams,     \* GET /api/events requests served at the same time
  Sessions,    \* sessions of adminAuth
  Terminals,
  QueueSize,   \* ClientQueue and ClientBytes
  RingSize,    \* RingEvents and RingBytes
  PerSession,  \* streams of one session
  Total,       \* streams in all
  ExitMax,     \* exits kept for a resync
  Events,      \* bound: events of one epoch
  Epochs       \* bound: starts of the process

ASSUME HubAssumption ==
  /\ {QueueSize, RingSize, PerSession, Total, ExitMax} \subseteq Nat \ {0}
  /\ {Events, Epochs} \subseteq Nat

VARIABLES
  epoch,    \* h.epoch
  seq,      \* h.seq
  ring,     \* h.ring: the kept events
  clients,  \* h.clients: the open streams ...
  older,    \* ... and its order: pairs of them, the one registered first first
  offsets,  \* h.offsets
  exits,    \* h.exits: terminals that ended, oldest first
  stopped,  \* h.stopped
  stream,   \* the ServeHTTP calls with their sseClient
  ended,    \* sessions that adminAuth has removed
  told,     \* those of them the hub was told of (closeSession)
  term,     \* terminals: not yet started, live, or gone
  view      \* what each browser knows

registry == <<clients, older>>
hub == <<epoch, seq, ring, registry, offsets, exits, stopped>>
vars == <<hub, stream, ended, told, term, view>>

NoId == [epoch |-> 0, seq |-> 0]
Free == [pc |-> "free"]
\* known and exited of the page, and the terminals it has opened itself
NewView == [id |-> NoId, hole |-> FALSE, known |-> <<>>, gone |-> {}, mine |-> {}]

\* newEventHub
NewHub(e) ==
  /\ epoch = e /\ seq = 0 /\ ring = <<>> /\ clients = {} /\ older = {}
  /\ offsets = <<>> /\ exits = <<>> /\ stopped = FALSE

Init ==
  /\ NewHub(1)
  /\ stream = [s \in Streams |-> Free]
  /\ ended = {} /\ told = {}
  /\ term = [t \in Terminals |-> "none"]
  /\ view = [b \in Browsers |-> NewView]

With(f, t, v) == [x \in DOMAIN f \cup {t} |-> IF x = t THEN v ELSE f[x]]
Less(f, t) == [x \in DOMAIN f \ {t} |-> f[x]]

----------------------------------------------------------------------------
(* The hub                                                                 *)

\* kickLocked ...
Kick(st, S, reason) ==
  [s \in Streams |-> IF s \in S /\ st[s].open
                     THEN [st[s] EXCEPT !.open = FALSE, !.reason = reason]
                     ELSE st[s]]

\* ... followed by compactLocked: the streams of S leave the list.
Without(S) ==
  /\ clients' = clients \ S
  /\ older' = {p \in older : p[1] \notin S /\ p[2] \notin S}

Full == {s \in clients : Len(stream[s].queue) >= QueueSize}

\* pruneExitsLocked: the number and the age of kept exits are bounded.
PrunedExits(es) == {SubSeq(es, k, Len(es)) : k \in {j \in 1..(Len(es) + 1) :
                                                       Len(es) - j + 1 <= ExitMax}}

Trimmed(r) == SubSeq(r, IF Len(r) > RingSize THEN Len(r) - RingSize + 1 ELSE 1, Len(r))

\* The frame goes to every open stream with room; the others are closed.
Queued(e) ==
  Kick([s \in Streams |-> IF s \in clients \ Full
                          THEN [stream[s] EXCEPT !.queue = Append(@, e)]
                          ELSE stream[s]],
       Full, "slow")

\* Offsets after an event about t.
Counted(f, kind, t, off) ==
  IF kind = "data" THEN With(f, t, off) ELSE Less(f, t)

\* publish of an event: output of a terminal, with the offset after it, or its
\* end.  The other events are like output without an offset.
Publish(kind, t) ==
  LET off == IF t \in DOMAIN offsets THEN offsets[t] + 1 ELSE 1
      e == [id |-> [epoch |-> epoch, seq |-> seq + 1], kind |-> kind, t |-> t,
            off |-> IF kind = "data" THEN off ELSE 0]
  IN  /\ ~stopped /\ seq < Events
      /\ term[t] = "live"
      /\ seq' = seq + 1
      /\ offsets' = Counted(offsets, kind, t, off)
      /\ IF kind = "exit" THEN exits' \in PrunedExits(Append(exits, t))
         ELSE UNCHANGED exits
      /\ term' = [term EXCEPT ![t] = IF kind = "exit" THEN "gone" ELSE @]
      /\ ring' = Trimmed(Append(ring, e))
      /\ stream' = Queued(e)
      /\ Without(Full)
      /\ UNCHANGED <<epoch, stopped, ended, told, view>>

\* A page calls StartTerminal with a fresh id, which it tracks from then on.  A
\* start that fails emits nothing, like a terminal without output.
StartTerminal(b, t) ==
  /\ term[t] = "none"
  /\ term' = [term EXCEPT ![t] = "live"]
  /\ view' = [view EXCEPT ![b].known = With(@, t, 0), ![b].gone = @ \ {t},
                          ![b].mine = @ \cup {t}]
  /\ UNCHANGED <<hub, stream, ended, told>>

Replayable(n) == ring # <<>> /\ ring[1].id.seq <= n + 1

SameEpoch(id) == id # NoId /\ id.epoch = epoch

\* The bug of replaying the ring from its start.
After_All(n) == IF n = seq THEN <<>> ELSE ring

\* The frames after event n, from the ring by their index.
After(n) == IF n = seq THEN <<>> ELSE SubSeq(ring, n + 2 - ring[1].id.seq, Len(ring))

\* All but the newest n - 1 streams of S.
AllButNewest(n, S) == {s \in S : Cardinality({r \in S : <<s, r>> \in older}) >= n - 1}

\* Streams closed to keep the limits, oldest first, before one of session x.
Crowded(x) ==
  LET over == AllButNewest(PerSession, {s \in clients : stream[s].session = x})
  IN  over \cup AllButNewest(Total, clients \ over)

\* attach: replay or resync is decided, and the stream registered, in one
\* critical section; late records that the session's end was told before.
Attach(s) ==
  LET c == stream[s]
      replay == /\ SameEpoch(c.last)
                /\ \/ c.last.seq = seq
                   \/ c.last.seq < seq /\ Replayable(c.last.seq)
      kicked == Crowded(c.session)
      at == [epoch |-> epoch, seq |-> seq]
  IN  /\ c.pc = "admitted" /\ ~stopped
      /\ \E es \in (IF replay THEN {exits} ELSE PrunedExits(exits)) :
           /\ exits' = es
           /\ stream' = [Kick(stream, kicked, "limit") EXCEPT ![s] =
                [c EXCEPT !.pc = "head", !.last = NoId,
                          !.open = TRUE, !.late = c.session \in told,
                          !.queue = <<>>,
                          !.head = IF replay THEN After(c.last.seq)
                                   ELSE <<[id |-> at, kind |-> "resync",
                                           known |-> offsets, gone |-> ToSet(es)]>>]]
      /\ clients' = (clients \ kicked) \cup {s}
      /\ older' = {p \in older : p[1] \notin kicked /\ p[2] \notin kicked}
                    \cup (clients \ kicked) \X {s}
      /\ UNCHANGED <<epoch, seq, ring, offsets, stopped, ended, told, term, view>>

\* attach of a stopped hub: 503.
Refuse(s) ==
  /\ stream[s].pc = "admitted" /\ stopped
  /\ stream' = [stream EXCEPT ![s] = Free]
  /\ UNCHANGED <<hub, ended, told, term, view>>

----------------------------------------------------------------------------
(* The streams                                                             *)

\* requireSession lets the request of a live session pass; the browser listens
\* to this stream only from now on.
Request(s, b, x) ==
  /\ stream[s].pc = "free" /\ x \notin ended
  /\ stream' = [r \in Streams |->
       IF r = s THEN [pc |-> "admitted", browser |-> b, session |-> x,
                      last |-> view[b].id, heard |-> TRUE, open |-> FALSE,
                      reason |-> "", late |-> FALSE, queue |-> <<>>,
                      head |-> <<>>]
       ELSE IF stream[r].pc # "free" /\ stream[r].browser = b
            THEN [stream[r] EXCEPT !.heard = FALSE] ELSE stream[r]]
  /\ UNCHANGED <<hub, ended, told, term, view>>

\* The bug of a resync that leaves the offsets to the next output.
Resynced_Later(known, offs) == known

\* handleResync, the offsets: those of the terminals the page knows.
Resynced(known, offs) ==
  [t \in DOMAIN known |-> IF t \in DOMAIN offs THEN offs[t] ELSE known[t]]

\* handleMessage: what a page makes of a frame.  A numbered frame that is not the
\* next one leaves a hole, which a resync closes: it brings the offsets and the
\* exits of the terminals the page knows, and tells it of no other.
Received(v, e) ==
  CASE e.kind = "resync" ->
         [v EXCEPT !.id = e.id, !.hole = FALSE,
                   !.known = Restrict(Resynced(@, e.known), DOMAIN @ \ e.gone),
                   !.gone = @ \cup (e.gone \cap DOMAIN v.known)]
    [] e.kind = "shutdown" ->
         [v EXCEPT !.id = e.id, !.hole = @ \/ e.id.seq > v.id.seq]
    [] OTHER ->
         [v EXCEPT !.id = e.id,
                   !.hole = @ \/ e.id # [v.id EXCEPT !.seq = @ + 1],
                   !.known = IF e.t \in v.gone THEN @
                             ELSE Counted(@, e.kind, e.t, e.off),
                   !.gone = IF e.kind = "exit" THEN @ \cup {e.t} ELSE @]

Hear(s, e) ==
  view' = IF stream[s].heard
          THEN [view EXCEPT ![stream[s].browser] = Received(@, e)] ELSE view

\* The resync frame, or the frames of the ring, come before the queue.
WriteHead(s) ==
  /\ stream[s].pc = "head" /\ stream[s].head # <<>>
  /\ Hear(s, Head(stream[s].head))
  /\ stream' = [stream EXCEPT ![s].head = Tail(@)]
  /\ UNCHANGED <<hub, ended, told, term>>

HeadWritten(s) ==
  /\ stream[s].pc = "head" /\ stream[s].head = <<>>
  /\ stream' = [stream EXCEPT ![s].pc = "serve"]
  /\ UNCHANGED <<hub, ended, told, term, view>>

\* A frame leaves the queue and is written.
WriteQueued(s) ==
  /\ stream[s].pc = "serve" /\ stream[s].queue # <<>>
  /\ Hear(s, Head(stream[s].queue))
  /\ stream' = [stream EXCEPT ![s].queue = Tail(@)]
  /\ UNCHANGED <<hub, ended, told, term>>

\* detach
End(s) ==
  /\ stream' = [stream EXCEPT ![s] = Free]
  /\ Without({s})
  /\ UNCHANGED <<epoch, seq, ring, offsets, exits, stopped>>

\* done is seen: what is queued is discarded, a shutdown is announced under
\* the number of the last event.
SeeDone(s) ==
  /\ stream[s].pc = "serve" /\ ~stream[s].open
  /\ IF stream[s].reason = "shutdown"
     THEN Hear(s, [id |-> [epoch |-> epoch, seq |-> seq], kind |-> "shutdown"])
     ELSE UNCHANGED view
  /\ End(s)
  /\ UNCHANGED <<ended, told, term>>

\* A write fails or times out, or the request's context ends.
WriteFails(s) ==
  /\ stream[s].pc \in {"head", "serve"}
  /\ End(s)
  /\ UNCHANGED <<ended, told, term, view>>

\* The page is loaded anew: it knows nothing and listens to no stream.
Reload(b) ==
  /\ view' = [view EXCEPT ![b] = NewView]
  /\ stream' = [s \in Streams |->
       IF stream[s].pc # "free" /\ stream[s].browser = b
       THEN [stream[s] EXCEPT !.heard = FALSE] ELSE stream[s]]
  /\ UNCHANGED <<hub, ended, told, term>>

\* adminAuth removes a session (logout, expiry, rotation) ...
EndSession(x) ==
  /\ x \notin ended /\ ended' = ended \cup {x}
  /\ UNCHANGED <<hub, stream, told, term, view>>

\* The bug of stopping at the first stream found.
Owned_First(x) ==
  LET mine == {s \in clients : stream[s].session = x}
  IN  {s \in mine : \A r \in mine \ {s} : <<s, r>> \in older}

Owned(x) == {s \in clients : stream[s].session = x}

\* ... and tells the hub after that.
CloseSession(x) ==
  /\ x \in ended \ told /\ told' = told \cup {x}
  /\ stream' = Kick(stream, Owned(x), "session")
  /\ Without(Owned(x))
  /\ UNCHANGED <<epoch, seq, ring, offsets, exits, stopped, ended, term, view>>

\* The bug of a shutdown that leaves the open streams to themselves.
Shutdown_KeepsStreams ==
  /\ ~stopped /\ stopped' = TRUE
  /\ UNCHANGED <<epoch, seq, ring, registry, offsets, exits, stream, ended, told,
                 term, view>>

Shutdown ==
  /\ ~stopped /\ stopped' = TRUE
  /\ stream' = Kick(stream, clients, "shutdown")
  /\ clients' = {} /\ older' = {}
  /\ UNCHANGED <<epoch, seq, ring, offsets, exits, ended, told, term, view>>

\* The process dies, stopped or not, and starts again: sessions, streams and
\* terminals are gone, pages keep what they know.  Ids of terminals are not used
\* again, so that what a page knows of the terminals that are gone plays no part
\* in this epoch and is left out; Terminals stands for the ids of one epoch.
Restart ==
  /\ epoch < Epochs
  /\ epoch' = epoch + 1 /\ seq' = 0 /\ ring' = <<>> /\ clients' = {} /\ older' = {}
  /\ offsets' = <<>> /\ exits' = <<>> /\ stopped' = FALSE
  /\ stream' = [s \in Streams |-> Free]
  /\ ended' = {} /\ told' = {}
  /\ term' = [t \in Terminals |-> "none"]
  /\ view' = [b \in Browsers |-> [view[b] EXCEPT !.known = <<>>, !.gone = {}, !.mine = {}]]

Serve(s) ==
  \/ Attach(s) \/ Refuse(s) \/ WriteHead(s) \/ HeadWritten(s)
  \/ WriteQueued(s) \/ SeeDone(s)

Next ==
  \/ \E s \in Streams : Serve(s) \/ WriteFails(s)
  \/ \E s \in Streams, b \in Browsers, x \in Sessions : Request(s, b, x)
  \/ \E kind \in {"data", "exit"}, t \in Terminals : Publish(kind, t)
  \/ \E b \in Browsers, t \in Terminals : StartTerminal(b, t)
  \/ \E b \in Browsers : Reload(b)
  \/ \E x \in Sessions : EndSession(x) \/ CloseSession(x)
  \/ Shutdown
  \/ Restart

\* Every goroutine of a request runs on: what it writes is delivered, or fails
\* by the write deadline.  Nothing makes a write fail or a browser leave.
Fairness == \A s \in Streams : WF_vars(Serve(s))

Spec == Init /\ [][Next]_vars /\ Fairness

----------------------------------------------------------------------------
(* Properties                                                              *)

\* A browser whose last event id is of this epoch of a running hub missed no
\* event up to it: it received each in order, or a resync after the last one
\* it missed.  Only the announcement of a shutdown, which carries the number
\* of the last event while queued frames are discarded, may leave a hole, and
\* the next epoch answers it with a resync.
NoHiddenHole ==
  \A b \in Browsers :
    view[b].hole => stopped \/ view[b].id.epoch # epoch

\* A stream that is open and has nothing left to write has brought its page up
\* to date: the number of the last event, the output of every terminal the page
\* opened or has heard of (also what it missed and a resync only counts), and
\* none of them is taken for open whose exit the hub still keeps.  Terminals of
\* an earlier epoch, and running ones a fresh page has not heard of, are left to
\* the sessions list.
CaughtUp ==
  \A s \in clients :
    (stream[s].pc = "serve" /\ stream[s].queue = <<>> /\ stream[s].heard)
      => LET v == view[stream[s].browser]
         IN  /\ v.id = [epoch |-> epoch, seq |-> seq]
             /\ \A t \in DOMAIN offsets \cap (v.mine \cup DOMAIN v.known) :
                  t \in DOMAIN v.known /\ v.known[t] = offsets[t]
             /\ ToSet(exits) \cap DOMAIN v.known = {}

\* An open stream of a session whose end the hub was told of was registered
\* after that: its request had passed requireSession before the session ended.
\* Every stream registered before is closed.
OnlyLateStreamsSurvive ==
  \A s \in clients : stream[s].session \in told => stream[s].late

\* After a shutdown every stream ends by itself, those being attached included,
\* by the write deadline at the latest (the server cuts what is left after two
\* seconds, webserver.go, Close).
StreamsEnd ==
  \A s \in Streams :
    (stopped /\ stream[s].pc # "free") ~> (stream[s].pc = "free" \/ ~stopped)

=============================================================================
