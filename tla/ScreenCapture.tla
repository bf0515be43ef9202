--------------------------- MODULE ScreenCapture ---------------------------
(***************************************************************************)
(* Sharing the screen (RdScreen and RdCapture, sharing_host/rd_wayland.c): *)
(* one capture session per output, frames of which are assembled on a      *)
(* canvas and given, with what changed, to a frame function.               *)
(*                                                                         *)
(* The compositor (external) has the outputs' contents, the constraints of *)
(* each session and what it still owes a session; its events wait in a     *)
(* queue, requests reach it at once.  A handler runs to its end, the frame *)
(* function it calls included, which may free the screen.                  *)
(*                                                                         *)
(* Pictures are functions from <<x, y>> to values, damage a set of cells.  *)
(***************************************************************************)
EXTENDS ScreenLayout, FiniteSets

CONSTANTS
  Output,      \* outputs
  ScreenGeometry, \* geometries an output may have
  BufferSize,  \* sizes of a session's buffers
  ShmFormats,  \* sets of formats a session may offer, of "ARGB" and "XRGB"
  FirstOuts,   \* what may be connected when the screen is shared
  FirstOffer,  \* the constraints of every session at first
  Named,       \* whether the screen is one output (output_name), not all
  MaxEvents,   \* bound: events on their way
  MaxChanges   \* bound: changes made by the compositor or the user

Gone == <<>>  \* no output

\* Outputs do not show the same.
Disjoint(g, h) ==
  \E k \in Axis : \E a, b \in {output_logical(g), output_logical(h)} :
    a # b /\ a.at[k] + a.size[k] <= b.at[k]

ASSUME ScreenAssumption ==
  /\ IsFiniteSet(Output) /\ "none" \notin Output
  /\ Gone \notin ScreenGeometry /\ \A g \in ScreenGeometry : GeometryOK(g)
  /\ BufferSize \subseteq (Nat \ {0}) \X (Nat \ {0})
  /\ ShmFormats \subseteq SUBSET {"ARGB", "XRGB"}
  /\ FirstOffer \in [size : (Nat \ {0}) \X (Nat \ {0}),
                     formats : SUBSET {"ARGB", "XRGB"}]
  /\ Named \in BOOLEAN /\ MaxEvents \in Nat /\ MaxChanges \in Nat

\* There is an output to share.
ASSUME FirstAssumption ==
  \A g \in FirstOuts :
    /\ g \in [Output -> ScreenGeometry \cup {Gone}] /\ \E o \in Output : g[o] # Gone
    /\ \A o, p \in Output : o # p /\ g[o] # Gone /\ g[p] # Gone =>
         Disjoint(g[o], g[p])

VARIABLES
  s,        \* the RdScreen
  outs,     \* the client's outputs: their geometries, or Gone
  session,  \* compositor: "none", "new", "on" or "stopped" per output
  content,  \* compositor: what each output shows
  owed,     \* compositor: cells changed since the session's last frame
  offer,    \* compositor: the constraints [size, formats] of each session
  events,   \* events for the client, in order
  changes   \* how many changes were made

screenVars == <<s, outs, session, content, owed, offer, events, changes>>

NoPixels == <<>>

Cells(size) == (0 .. size[1] - 1) \X (0 .. size[2] - 1)
Moved(c, by) == <<c[1] + by[1], c[2] + by[2]>>
Blank(size) == [c \in Cells(size) |-> 0]

NoCapture ==
  [session |-> FALSE, frame |-> FALSE, whole |-> FALSE, pixels |-> NoPixels,
   format |-> "none", size |-> <<0, 0>>, pending |-> <<0, 0>>, shm |-> "none",
   full |-> FALSE, has |-> FALSE, damage |-> {}, at |-> <<0, 0>>]

\* The members of q at the places `keep`, in order.
Picked(q, keep) ==
  LET picked[i \in 0 .. Len(q)] ==
        IF i = 0 THEN <<>>
        ELSE IF i \in keep THEN Append(picked[i - 1], q[i]) ELSE picked[i - 1]
  IN  picked[Len(q)]

Captured(r) == {r.captures[i] : i \in DOMAIN r.captures}

ScreenTypeOK ==
  /\ s.captures \in Seq(Output) /\ Len(s.captures) <= Cardinality(Output)
  /\ \A o \in Output :
       /\ s.cap[o].pixels # NoPixels => DOMAIN s.cap[o].pixels = Cells(s.cap[o].size)
       /\ s.cap[o].session => o \in Captured(s)
       /\ s.cap[o].frame => s.cap[o].session /\ s.cap[o].pixels # NoPixels
       /\ session[o] \in {"none", "new", "on", "stopped"}
       /\ owed[o] \subseteq DOMAIN content[o]
  /\ DOMAIN s.canvas = Cells(s.size) /\ s.damage = {}
  /\ Len(events) <= MaxEvents /\ changes \in 0 .. MaxChanges
-----------------------------------------------------------------------------
(* The canvas.  Each operator is a function of the code on the screen r;   *)
(* frees says what the frame function does when it is called.              *)

screen_emit(r, frees) ==
  IF r.dead \/ r.damage = {} THEN [r EXCEPT !.damage = {}]
  ELSE LET old == IF DOMAIN r.seen = DOMAIN r.canvas THEN r.seen
                  ELSE Blank(r.size)
       IN  [r EXCEPT !.damage = {}, !.dead = frees,
              !.seen = [c \in DOMAIN r.canvas |->
                          IF c \in r.damage THEN r.canvas[c] ELSE old[c]]]

blit(r, o, cells) ==
  LET c == r.cap[o]
      at(p) == Moved(p, c.at)
      inside == IF c.pixels = NoPixels THEN {}
                ELSE {p \in cells \cap Cells(c.size) : at(p) \in Cells(r.size)}
      back(p) == <<p[1] - c.at[1], p[2] - c.at[2]>>
  IN  [r EXCEPT !.damage = @ \cup {at(p) : p \in inside},
         !.canvas = [p \in DOMAIN @ |->
                       IF back(p) \in inside THEN c.pixels[back(p)] ELSE @[p]]]

\* Wrong: a layout keeps the canvas when only its size is the same
SameLayout_Size(r, off, size) == size = r.size /\ Cells(size) # {}

SameLayout(r, off, size) ==
  /\ \A i \in DOMAIN off : off[i] = r.cap[r.captures[i]].at
  /\ size = r.size /\ Cells(size) # {}

\* The canvas with every capture that has a frame, later ones on top.
Redrawn(r, size) ==
  LET c(i) == r.cap[r.captures[i]]
      from(i, p) == <<p[1] - c(i).at[1], p[2] - c(i).at[2]>>
      there(p) == {i \in DOMAIN r.captures :
                     c(i).has /\ c(i).pixels # NoPixels /\ from(i, p) \in Cells(c(i).size)}
      top(p) == CHOOSE i \in there(p) : \A j \in there(p) : j <= i
  IN  [r EXCEPT !.size = size,
         !.canvas = [p \in Cells(size) |->
                       IF there(p) = {} THEN 0 ELSE c(top(p)).pixels[from(top(p), p)]]]

screen_layout(r, g, frees) ==
  LET tiles == [i \in DOMAIN r.captures |->
                  TileOf(g[r.captures[i]], r.cap[r.captures[i]].size)]
      off == Offsets(tiles)
      size == Extent(tiles, off)
      placed == [r EXCEPT !.cap = [o \in Output |->
        IF o \in Captured(r)
          THEN [r.cap[o] EXCEPT !.at =
                  off[CHOOSE i \in DOMAIN off : r.captures[i] = o]]
          ELSE r.cap[o]]]
      any == \E o \in Captured(r) : r.cap[o].has
  IN  IF r.captures = <<>> THEN r
      ELSE IF SameLayout(r, off, size) THEN placed
      ELSE IF ~any THEN [Redrawn(placed, size) EXCEPT !.damage = {}]
      ELSE screen_emit([Redrawn(placed, size) EXCEPT !.damage = Cells(size)], frees)

-----------------------------------------------------------------------------
(* Captures.                                                               *)

capture_next(r, o) ==
  LET c == r.cap[o]
  IN  IF ~c.session \/ c.pixels = NoPixels \/ c.frame THEN r
      ELSE [r EXCEPT !.cap[o].frame = TRUE, !.cap[o].whole = c.full]

create_buffer_Early(c) == \* Wrong: the memory is sized before the new size is taken
  [c EXCEPT !.size = c.pending, !.pixels = Blank(c.size), !.format = c.shm,
            !.has = FALSE, !.full = TRUE]

create_buffer(c) ==
  [c EXCEPT !.size = c.pending, !.pixels = Blank(c.pending), !.format = c.shm,
            !.has = FALSE, !.full = TRUE]

capture_stop(c) ==
  [c EXCEPT !.frame = FALSE, !.whole = FALSE, !.session = FALSE,
            !.pixels = NoPixels]

screen_emit_stopped(r) ==
  IF r.stopped THEN r
  ELSE [r EXCEPT !.stopped = TRUE, !.stopped_idle = TRUE,
          !.cap = [o \in Output |-> capture_stop(r.cap[o])]]

Dropped(r, o) ==
  [r EXCEPT !.captures = Picked(@, {i \in DOMAIN @ : @[i] # o}), !.cap[o] = NoCapture]

\* Wrong: the idle source outlives the screen
rd_screen_free_Idle(r) ==
  [r EXCEPT !.freed = TRUE, !.captures = <<>>,
            !.cap = [o \in Output |-> NoCapture]]

rd_screen_free(r) ==
  [r EXCEPT !.freed = TRUE, !.stopped_idle = FALSE, !.captures = <<>>,
            !.cap = [o \in Output |-> NoCapture]]

FreedIfDead(r) == IF r.dead THEN rd_screen_free(r) ELSE r

\* frame_damage is what the compositor reports with the frame.
frame_ready(r, o, damage, frees) ==
  LET c == r.cap[o]
      got == [r EXCEPT !.cap[o].frame = FALSE, !.cap[o].full = FALSE,
                       !.cap[o].has = TRUE, !.cap[o].damage = {}]
      cells == IF ~c.has \/ c.full THEN Cells(c.size) ELSE c.damage \cup damage
      done == screen_emit(blit(got, o, cells), frees)
  IN  IF done.dead THEN rd_screen_free(done) ELSE capture_next(done, o)

frame_failed_Once(r, o, reason) == \* Wrong: no failed frame is asked for again
  LET lost == [r EXCEPT !.cap[o].frame = FALSE, !.cap[o].damage = {}]
  IN  IF reason = "stopped" THEN screen_emit_stopped(lost) ELSE lost

frame_failed(r, o, reason) ==
  LET lost == [r EXCEPT !.cap[o].frame = FALSE, !.cap[o].damage = {}]
  IN  CASE reason = "constraints" -> lost
        [] reason = "stopped" -> screen_emit_stopped(lost)
        [] reason = "unknown" -> capture_next(lost, o)

\* session_buffer_size and session_shm_format, for each format on offer.
Constrained(c, to) ==
  [c EXCEPT !.pending = to.size,
     !.shm = IF "XRGB" \in to.formats THEN "XRGB"
             ELSE IF c.shm = "none" /\ "ARGB" \in to.formats THEN "ARGB"
             ELSE c.shm]

NeedsBuffer(c) == c.pixels = NoPixels \/ c.pending # c.size

session_done(r, g, o, to, frees) ==
  LET told == [r EXCEPT !.cap[o] = Constrained(@, to)]
      fresh == [told EXCEPT !.cap[o] = create_buffer([@ EXCEPT !.frame = FALSE])]
      placed == screen_layout(fresh, g, frees)
  IN  IF told.cap[o].shm = "none" THEN told
      ELSE IF ~NeedsBuffer(told.cap[o]) THEN capture_next(told, o)
      ELSE IF placed.dead THEN placed ELSE capture_next(placed, o)

session_stopped(r, g, o, frees) ==
  IF ~Named /\ Len(r.captures) > 1 THEN screen_layout(Dropped(r, o), g, frees)
  ELSE screen_emit_stopped(r)

screen_add_capture(r, o) ==
  [r EXCEPT !.captures = Append(@, o),
            !.cap[o] = [NoCapture EXCEPT !.session = TRUE]]

screen_output_changed(r, g, o, frees) ==
  IF r.stopped \/ r.dead THEN r
  ELSE IF o \in Captured(r) THEN screen_layout(r, g, frees)
  ELSE IF Named THEN r
  ELSE screen_layout(screen_add_capture(r, o), g, frees)

screen_output_removed(r, g, o, frees) ==
  LET left == Dropped(r, o)
  IN  IF o \notin Captured(r) THEN r
      ELSE IF left.captures = <<>> \/ Named THEN screen_emit_stopped(left)
      ELSE screen_layout(left, g, frees)

-----------------------------------------------------------------------------
(* Event dispatch.                                                         *)

\* Sessions the handler opened are new, those it closed are gone, and with
\* them the events of their objects; frame events also go with the frame.
Deliver(r, q, replaced) ==
  /\ s' = r
  /\ session' = [o \in Output |->
       IF ~r.cap[o].session THEN "none"
       ELSE IF ~s.cap[o].session THEN "new" ELSE session[o]]
  /\ events' = Picked(q, {i \in DOMAIN q :
       \/ q[i].kind \in {"output", "removed"}
       \/ /\ r.cap[q[i].on].session
          /\ q[i].kind \in {"ready", "failed"} => q[i].on # replaced})

\* output_geometry and the like up to output_done are one event.
output_done(o, g, frees) ==
  /\ outs' = [outs EXCEPT ![o] = g]
  /\ Deliver(screen_output_changed(s, outs', o, frees), Tail(events), "none")

registry_global_remove(o, frees) ==
  /\ Deliver(screen_output_removed(s, outs, o, frees), Tail(events), "none")
  /\ outs' = [outs EXCEPT ![o] = Gone]

Handle(e, frees) ==
  LET o == e.on
  IN  \/ /\ e.kind = "ready"
         /\ Deliver(frame_ready(s, o, e.arg, frees), Tail(events), "none")
         /\ UNCHANGED outs
      \/ /\ e.kind = "failed"
         /\ Deliver(frame_failed(s, o, e.arg), Tail(events), "none")
         /\ UNCHANGED outs
      \/ /\ e.kind = "constraints"
         /\ Deliver(session_done(s, outs, o, e.arg, frees), Tail(events),
                    IF NeedsBuffer(Constrained(s.cap[o], e.arg)) THEN o
                    ELSE "none")
         /\ UNCHANGED outs
      \/ /\ e.kind = "stopped"
         /\ Deliver(session_stopped(s, outs, o, frees), Tail(events), "none")
         /\ UNCHANGED outs
      \/ e.kind = "output" /\ output_done(o, e.arg, frees)
      \/ e.kind = "removed" /\ registry_global_remove(o, frees)

\* display_ready: the frame function may free the screen if it is called.
Dispatch ==
  /\ ~s.broken /\ ~s.freed /\ events # <<>>
  /\ \E frees \in BOOLEAN : Handle(Head(events), frees)
  /\ owed' = [o \in Output |-> IF session'[o] = "new" THEN DOMAIN content[o]
                               ELSE owed[o]]
  /\ UNCHANGED <<content, offer, changes>>

screen_stopped_idle ==
  /\ s.stopped_idle
  /\ \E frees \in BOOLEAN :
       s' = FreedIfDead([s EXCEPT !.stopped_idle = FALSE,
              !.told = IF s.dead THEN @ ELSE @ + 1, !.dead = @ \/ frees])
  /\ UNCHANGED <<outs, session, content, owed, offer, events, changes>>

\* The user of the screen is done with it.
Free ==
  /\ ~s.freed /\ ~s.dead
  /\ Deliver(rd_screen_free(s), events, "none")
  /\ UNCHANGED <<outs, content, owed, offer, changes>>

-----------------------------------------------------------------------------
(* The compositor.                                                         *)

Change == changes < MaxChanges /\ changes' = changes + 1
Send(e) == Len(events) < MaxEvents /\ events' = Append(events, e)
Event(o, kind, arg) == [on |-> o, kind |-> kind, arg |-> arg]

\* Only what happens while the screen is shared matters.
Shared == ~s.broken /\ ~s.freed

\* A request waits for its frame: no answer to it is on its way.
Requested(o) ==
  /\ session[o] = "on" /\ s.cap[o].frame
  /\ \A i \in DOMAIN events : events[i].on = o =>
       events[i].kind \notin {"ready", "failed"}

Matches(o) == s.cap[o].size = offer[o].size /\ s.cap[o].format \in offer[o].formats

Offer(o) ==
  /\ Shared /\ session[o] = "new"
  /\ session' = [session EXCEPT ![o] = "on"]
  /\ Send(Event(o, "constraints", offer[o]))
  /\ UNCHANGED <<s, outs, content, owed, offer, changes>>

\* Part of a frame is written into the buffer before it is ready.
Copy(o, c) ==
  /\ Requested(o) /\ Matches(o) /\ c \in owed[o]
  /\ s.cap[o].pixels[c] # content[o][c]
  /\ s' = [s EXCEPT !.cap[o].pixels[c] = content[o][c]]
  /\ UNCHANGED <<outs, session, content, owed, offer, events, changes>>

Ready(o) ==
  /\ Shared /\ Requested(o) /\ Matches(o) /\ owed[o] # {}
  /\ s' = [s EXCEPT !.cap[o].pixels = [c \in DOMAIN @ |->
             IF c \in owed[o] \/ s.cap[o].whole THEN content[o][c] ELSE @[c]]]
  /\ Send(Event(o, "ready", owed[o]))
  /\ owed' = [owed EXCEPT ![o] = {}]
  /\ UNCHANGED <<outs, session, content, offer, changes>>

\* A new buffer is filled even if nothing has changed since the last one.
ReadyAgain(o) ==
  /\ Shared /\ Requested(o) /\ Matches(o) /\ owed[o] = {} /\ s.cap[o].whole
  /\ s' = [s EXCEPT !.cap[o].pixels = content[o]]
  /\ Send(Event(o, "ready", DOMAIN content[o]))
  /\ UNCHANGED <<outs, session, content, owed, offer, changes>>

\* The buffer does not match the latest constraints.
Refuse(o) ==
  /\ Shared /\ Requested(o) /\ ~Matches(o)
  /\ Send(Event(o, "failed", "constraints"))
  /\ UNCHANGED <<s, outs, session, content, owed, offer, changes>>

Fail(o) ==
  /\ Shared /\ Requested(o) /\ Change
  /\ Send(Event(o, "failed", "unknown"))
  /\ UNCHANGED <<s, outs, session, content, owed, offer>>

Stop(o) ==
  /\ Shared /\ session[o] = "on" /\ Change
  /\ session' = [session EXCEPT ![o] = "stopped"]
  /\ \/ Send(Event(o, "stopped", 0))
     \/ Requested(o) /\ Send(Event(o, "failed", "stopped"))
  /\ UNCHANGED <<s, outs, content, owed, offer>>

Paint(o, c) ==
  /\ Shared /\ session[o] # "none" /\ Change
  /\ content' = [content EXCEPT ![o][c] = 3 - @]
  /\ owed' = [owed EXCEPT ![o] = @ \cup {c}]
  /\ UNCHANGED <<s, outs, session, offer, events>>

Constrain(o, to) ==
  /\ Shared /\ session[o] \in {"new", "on"} /\ to # offer[o] /\ Change
  /\ offer' = [offer EXCEPT ![o] = to]
  /\ content' = [content EXCEPT ![o] = [c \in Cells(to.size) |-> 1]]
  /\ owed' = [owed EXCEPT ![o] = Cells(to.size)]
  /\ IF session[o] = "on" THEN Send(Event(o, "constraints", to))
     ELSE UNCHANGED events
  /\ UNCHANGED <<s, outs, session>>

\* What the compositor last said of an output.
Latest(o) ==
  LET said == {i \in DOMAIN events :
                 events[i].on = o /\ events[i].kind \in {"output", "removed"}}
      last == events[CHOOSE i \in said : \A j \in said : j <= i]
  IN  IF said = {} THEN outs[o]
      ELSE IF last.kind = "output" THEN last.arg ELSE Gone

\* An output is announced, or changes.
Announce(o, g) ==
  /\ Shared /\ g # Latest(o) /\ Change /\ Send(Event(o, "output", g))
  /\ \A q \in Output \ {o} : Latest(q) # Gone => Disjoint(g, Latest(q))
  /\ UNCHANGED <<s, outs, session, content, owed, offer>>

Withdraw(o) ==
  /\ Shared /\ Latest(o) # Gone /\ Change /\ Send(Event(o, "removed", 0))
  /\ UNCHANGED <<s, outs, session, content, owed, offer>>

\* The connection is lost: display_ready stops the screen.
Lose ==
  /\ Shared /\ Change
  /\ s' = [screen_emit_stopped(s) EXCEPT !.broken = TRUE]
  /\ events' = <<>> /\ session' = [o \in Output |-> "none"]
  /\ UNCHANGED <<outs, content, owed, offer>>

\* rd_display_free, before the screen is freed.
Close ==
  /\ Shared
  /\ s' = [s EXCEPT !.captures = <<>>, !.cap = [o \in Output |-> NoCapture],
                    !.stopped = TRUE, !.broken = TRUE]
  /\ events' = <<>> /\ session' = [o \in Output |-> "none"]
  /\ UNCHANGED <<outs, content, owed, offer, changes>>

-----------------------------------------------------------------------------
\* The members of S in the order they were announced in, which is any.
Listed(S) == CHOOSE q \in [1 .. Cardinality(S) -> S] : {q[i] : i \in DOMAIN q} = S

\* rd_screen_new.
NewScreen(g) ==
  LET known == Listed({o \in Output : g[o] # Gone})
      used == IF Named THEN <<known[1]>> ELSE known
      new == [captures |-> used,
              cap |-> [o \in Output |->
                [NoCapture EXCEPT !.session = \E i \in DOMAIN used : used[i] = o]],
              canvas |-> Blank(<<0, 0>>), size |-> <<0, 0>>, damage |-> {},
              seen |-> Blank(<<0, 0>>), told |-> 0, stopped |-> FALSE,
              stopped_idle |-> FALSE, dead |-> FALSE, freed |-> FALSE,
              broken |-> FALSE]
  IN  screen_layout(new, g, FALSE)

ScreenInit ==
  /\ outs \in FirstOuts
  /\ s = NewScreen(outs)
  /\ session = [o \in Output |-> IF s.cap[o].session THEN "new" ELSE "none"]
  /\ offer = [o \in Output |-> FirstOffer]
  /\ content = [o \in Output |-> [c \in Cells(offer[o].size) |-> 1]]
  /\ owed = [o \in Output |-> Cells(offer[o].size)]
  /\ events = <<>> /\ changes = 0

ScreenNext ==
  \/ Dispatch \/ screen_stopped_idle \/ Free \/ Lose \/ Close
  \/ \E o \in Output :
       \/ Offer(o) \/ Ready(o) \/ ReadyAgain(o) \/ Refuse(o) \/ Fail(o)
       \/ Stop(o) \/ Withdraw(o)
       \/ \E c \in DOMAIN content[o] : Copy(o, c) \/ Paint(o, c)
       \/ \E size \in BufferSize, f \in ShmFormats :
            Constrain(o, [size |-> size, formats |-> f])
       \/ \E g \in ScreenGeometry : Announce(o, g)

\* The first event leaves the queue, with it those Deliver drops: what every
\* Dispatch does.
Take ==
  /\ ~s.broken /\ ~s.freed /\ events # <<>>
  /\ \E keep \in SUBSET (2 .. Len(events)) :
       events' = [i \in 1 .. Cardinality(keep) |->
                    events[CHOOSE k \in keep :
                             Cardinality({j \in keep : j <= k}) = i]]

\* The compositor gives what it owes; the main loop runs its idle source.
Answer ==
  \/ screen_stopped_idle
  \/ \E o \in Output : Offer(o) \/ Refuse(o) \/ Ready(o) \/ ReadyAgain(o)

\* The main loop dispatches what has come, and nothing owed waits for ever.
ScreenFairness == WF_events(Take) /\ WF_screenVars(Answer)

ScreenSpec == ScreenInit /\ [][ScreenNext]_screenVars /\ ScreenFairness

-----------------------------------------------------------------------------
Over == s.stopped \/ s.dead \/ s.freed \/ s.broken

Separate(o) ==
  \A q \in Captured(s) \ {o} : \E k \in Axis :
    \/ s.cap[o].at[k] + s.cap[o].size[k] <= s.cap[q].at[k]
    \/ s.cap[q].at[k] + s.cap[q].size[k] <= s.cap[o].at[k]

\* Cells that changed and whose frame has not been handled yet.
Underway(o) ==
  owed[o] \cup UNION {events[i].arg : i \in {j \in DOMAIN events :
                        events[j].on = o /\ events[j].kind = "ready"}}

\* What the frame function was given, put together from the reported damage
\* alone, shows every captured output as it is, but for what changed since:
\* through new buffers, half-written frames, moved and added outputs
\* (blit, screen_layout, frame_ready, session_done).
DamageIsEnough ==
  ~Over => \A o \in Captured(s) :
    s.cap[o].has /\ Separate(o) =>
      \A c \in (Cells(s.cap[o].size) \cap DOMAIN content[o]) \ Underway(o) :
        s.seen[Moved(c, s.cap[o].at)] = content[o][c]

\* A screen that was freed, even from its own callback, calls nobody again:
\* not for a frame, a layout, or the stop that was on its way (rd_screen_free,
\* screen_stopped_idle).
FreedIsSilent ==
  [][s.freed \/ s.dead => s'.seen = s.seen /\ s'.told = s.told]_screenVars

\* When changes end, everything on every captured output is seen: no order of
\* constraints, refused and failed frames leaves a capture without a frame.
CatchesUp ==
  <>[](Over \/ \A o \in Captured(s) : session[o] = "on" =>
         /\ s.cap[o].has /\ s.cap[o].size = offer[o].size
         /\ Separate(o) => \A c \in Cells(s.cap[o].size) :
              s.seen[Moved(c, s.cap[o].at)] = content[o][c])

\* "The client should re-allocate its buffers and retry" after a frame is
\* refused (ext-image-copy-capture-v1.xml): a session without a request has
\* one again.
RefusedIsRetried ==
  \A o \in Output :
    (session[o] = "on" /\ ~s.cap[o].frame)
      ~> (session[o] # "on" \/ s.cap[o].frame \/ Over)
=============================================================================
