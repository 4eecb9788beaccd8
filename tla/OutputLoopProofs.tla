-------------------------- MODULE OutputLoopProofs --------------------------
(***************************************************************************)
(* What holds of OutputLoop for every set of systems and every bound.      *)
(* RequestIsServed says that no request for a frame is ever stranded,      *)
(* NothingIsOwed that a quiet output has delivered cursor and colours,     *)
(* QuietShowsScene that it shows the scene, and DrawsOffScreen that no     *)
(* frame is drawn into a framebuffer that is on screen or queued.          *)
(*                                                                         *)
(* The first two follow from where the next wake-up comes from: Lively and *)
(* Clean say that an output that waits for something has a timer armed, an *)
(* event to read or a flip that will report.  Room counts the events, so   *)
(* that the bound on them is never reached with a flip still to come.  The *)
(* others follow from ShowInv: what was committed last is on screen or     *)
(* queued, and what the renderer remembers of its frames is what they hold.*)
(***************************************************************************)
EXTENDS OutputLoop, TLAPS

\* The page flip events that will be read, one for a flip under way.
Outstanding(o) == IF o.queued = None THEN o.events ELSE o.events + 1

Pending(o) == o.events > 0 \/ o.queued # None
Awake(o) == o.timer \/ Pending(o)

Room(o) ==
    /\ Outstanding(o) <= MaxEvents
    /\ ~o.flip => Outstanding(o) < MaxEvents
    /\ o.suspended \/ ~o.modeset => o.queued = None

Sound(o) == o \in Out /\ Room(o)

Lively(o) ==
    ~o.suspended => /\ o.modeset
                    /\ o.flip => Pending(o)
                    /\ o.scheduled => Awake(o)

Clean(o) == ~o.suspended => (o.cursorDirty \/ o.colourDirty => Awake(o))

IInv ==
    /\ setting \in Settings
    /\ scene \in 1..MaxScene
    /\ Sound(out)
    /\ out.suspended => "vt" \in setting.uses
    /\ Recovers => Lively(out) /\ Clean(out)

-----------------------------------------------------------------------------
(* What a part of a handler does to the output: p after o *)

Step(o, p) ==
    Sound(o) => /\ Sound(p)
                /\ p.suspended = o.suspended
                /\ Lively(o) => Lively(p)
                /\ ~o.suspended /\ Awake(o) => Awake(p)

LEMMA StepTrans ==
  ASSUME NEW o, NEW p, NEW q, Step(o, p), Step(p, q)
  PROVE  Step(o, q)
  BY DEF Step

LEMMA StepSame ==
  ASSUME NEW o
  PROVE  Step(o, o)
  BY DEF Step

\* What commits nothing: timers may be armed, and frames scheduled that come.
LEMMA TouchStep ==
  ASSUME NEW o, NEW p, Sound(o) => p \in Out,
         p.flip = o.flip, p.suspended = o.suspended, p.modeset = o.modeset,
         p.queued = o.queued, p.events = o.events, o.timer => p.timer,
         p.scheduled => o.scheduled \/ p.timer \/ p.flip \/ p.suspended
  PROVE  Step(o, p)
  BY DEF Step, Sound, Room, Outstanding, Lively, Awake, Pending

LEMMA FlipStep ==
  ASSUME NEW o, NEW fb \in Fbs, ~o.flip, ~o.suspended, o.queued = None \/ ~o.modeset
  PROVE  Step(o, [Flip(o, fb, ~o.modeset) EXCEPT !.modeset = TRUE])
<1> DEFINE p == [Flip(o, fb, ~o.modeset) EXCEPT !.modeset = TRUE]
<1> SUFFICES ASSUME Sound(o)
             PROVE  Sound(p) /\ p.suspended = o.suspended /\ Lively(p) /\ Awake(p)
  BY DEF Step
<1>1. o.queued = None
  BY DEF Sound, Room
<1>2. o.events \in 0..MaxEvents /\ o.events < MaxEvents
  BY <1>1, OutputAssumption DEF Sound, Room, Outstanding, Out
<1>3. p.events = IF o.modeset THEN o.events ELSE o.events + 1
  BY <1>1 DEF Flip, Sound, Out
<1>4. p.queued = IF o.modeset THEN fb ELSE None
  BY DEF Flip, Sound, Out
<1>5. p.flip = TRUE /\ p.modeset = TRUE /\ p.suspended = o.suspended
  BY DEF Flip, Sound, Out
<1>6. fb # None
  BY DEF Fbs, Dumb, Targets, None
<1>7. p \in Out
  <2>1. fb \in Fbs \cup {None} /\ None \in Fbs \cup {None} /\ fb \in Fbs \cup {Elsewhere}
    OBVIOUS
  <2>2. o.events + 1 \in 0..MaxEvents
    BY <1>2, OutputAssumption
  <2>3. p = [o EXCEPT !.pending = fb, !.flip = TRUE, !.cursorDirty = FALSE,
                      !.colourDirty = FALSE, !.modeset = TRUE,
                      !.queued = IF o.modeset THEN fb ELSE None,
                      !.lit = IF o.modeset THEN o.lit ELSE fb,
                      !.events = IF o.modeset THEN o.events ELSE o.events + 1]
    BY <1>1 DEF Flip, Sound, Out
  <2> HIDE DEF p
  <2> QED
    BY ZenonT(40), <2>1, <2>2, <2>3, <1>2 DEF Sound, Out
<1>8. Room(p)
  BY <1>2, <1>3, <1>4, <1>5, <1>6, OutputAssumption DEF Room, Outstanding, Sound, Out
<1>9. Pending(p)
  BY <1>2, <1>3, <1>4, <1>6 DEF Pending
<1> QED
  BY <1>5, <1>7, <1>8, <1>9 DEF Sound, Lively, Awake

LEMMA ReflipStep ==
  ASSUME NEW o, NEW what, NEW no
  PROVE  Step(o, Reflip(o, what, no))
<1> SUFFICES ASSUME Sound(o)
             PROVE  Step(o, Reflip(o, what, no))
  BY DEF Step
<1>1. CASE o.suspended \/ o.flip \/ ~o.modeset
  BY <1>1, StepSame DEF Reflip
<1>2. CASE ~(o.suspended \/ o.flip \/ ~o.modeset) /\ Taken(o, what, FALSE, no)
  <2>1. o.pending \in Fbs /\ o.queued = None
    BY <1>2 DEF Taken, Sound, Out
  <2>2. Flip(o, o.pending, FALSE) = [Flip(o, o.pending, ~o.modeset) EXCEPT !.modeset = TRUE]
    <3> PICK f : f = Flip(o, o.pending, FALSE)
      OBVIOUS
    <3>1. o.modeset = TRUE /\ f = Flip(o, o.pending, ~o.modeset)
      BY <1>2 DEF Sound, Out
    <3>2. f = [o EXCEPT !.pending = o.pending, !.flip = TRUE, !.cursorDirty = FALSE,
                        !.colourDirty = FALSE, !.queued = o.pending, !.lit = o.lit,
                        !.events = o.events]
      BY DEF Flip
    <3>3. [f EXCEPT !.modeset = TRUE] = f
      BY ZenonT(40), <3>1, <3>2 DEF Sound, Out
    <3> QED
      BY <3>1, <3>3
  <2> QED
    BY <1>2, <2>1, <2>2, FlipStep DEF Reflip
<1>3. CASE ~(o.suspended \/ o.flip \/ ~o.modeset) /\ ~Taken(o, what, FALSE, no)
  <2> DEFINE p == [o EXCEPT !.timer = TRUE]
  <2>1. p \in Out
    BY DEF Sound, Out
  <2>2. Step(o, p)
    BY <2>1, TouchStep DEF Sound, Out
  <2> QED
    BY <1>3, <2>2 DEF Reflip
<1> QED
  BY <1>1, <1>2, <1>3

LEMMA FlushStep ==
  ASSUME NEW o, NEW no
  PROVE  Step(o, FlushCursor(o, no)) /\ Step(o, FlushColour(o, no))
  BY ReflipStep, StepSame DEF FlushCursor, FlushColour

LEMMA CommitCursorStep ==
  ASSUME NEW o, NEW no
  PROVE  Step(o, CommitCursor(o, no))
<1> SUFFICES ASSUME Sound(o)
             PROVE  Step(o, CommitCursor(o, no))
  BY DEF Step
<1> DEFINE p == [o EXCEPT !.cursorDirty = TRUE]
<1>1. p \in Out
  BY DEF Sound, Out
<1>2. Step(o, p)
  BY <1>1, TouchStep DEF Sound, Out
<1>3. Step(o, FlushCursor(p, no))
  <2> HIDE DEF p
  <2> QED
    BY <1>2, FlushStep, StepTrans
<1> QED
  BY <1>3, StepSame DEF CommitCursor

LEMMA ScheduleStep ==
  ASSUME NEW o
  PROVE  Step(o, ScheduleFrame(o))
<1> SUFFICES ASSUME Sound(o)
             PROVE  Step(o, ScheduleFrame(o))
  BY DEF Step
<1> DEFINE p == [o EXCEPT !.scheduled = TRUE, !.timer = @ \/ ~(o.suspended \/ o.flip)]
<1>1. p \in Out
  BY DEF Sound, Out
<1>2. /\ p.flip = o.flip /\ p.suspended = o.suspended /\ p.modeset = o.modeset
      /\ p.queued = o.queued /\ p.events = o.events
  BY DEF Sound, Out
<1>3. (o.timer => p.timer) /\ (p.timer \/ p.flip \/ p.suspended)
  BY DEF Sound, Out
<1>4. Step(o, p)
  <2> HIDE DEF p
  <2> QED
    BY <1>1, <1>2, <1>3, TouchStep
<1> QED
  BY <1>4, StepSame DEF ScheduleFrame

LEMMA CommittedStep ==
  ASSUME NEW o, NEW fb \in Fbs, NEW what, NEW no, Accepted(o, what, no)
  PROVE  Step(o, Committed(o, fb))
<1> SUFFICES ASSUME Sound(o)
             PROVE  Step(o, Committed(o, fb))
  BY DEF Step
<1>1. CASE o.flip
  BY <1>1, StepSame DEF Committed
<1>2. CASE ~o.flip /\ o.suspended
  <2> DEFINE p == [o EXCEPT !.modeset = TRUE]
  <2>1. p \in Out /\ p.flip = o.flip /\ p.suspended = o.suspended /\ p.queued = o.queued
            /\ p.events = o.events
    BY DEF Sound, Out
  <2>2. Step(o, p)
    BY <1>2, <2>1 DEF Step, Sound, Room, Outstanding, Lively
  <2> QED
    BY <1>2, <2>2 DEF Committed
<1>3. CASE ~o.flip /\ ~o.suspended
  <2>1. o.queued = None \/ ~o.modeset
    BY <1>3 DEF Accepted, Taken
  <2> QED
    BY <1>3, <2>1, FlipStep DEF Committed
<1> QED
  BY <1>1, <1>2, <1>3

LEMMA RefusedStep ==
  ASSUME NEW o
  PROVE  Step(o, Refused(o))
<1> SUFFICES ASSUME Sound(o)
             PROVE  Step(o, Refused(o))
  BY DEF Step
<1>1. Refused(o) \in Out
  BY DEF Sound, Out, Refused
<1> QED
  BY <1>1, TouchStep DEF Sound, Out, Refused

-----------------------------------------------------------------------------
(* The same for a frame that is drawn *)

LEMMA CursorPlaneStep ==
  ASSUME NEW o, NEW no
  PROVE  Step(o, CursorPlane(o, no))
<1> SUFFICES ASSUME Sound(o)
             PROVE  Step(o, CursorPlane(o, no))
  BY DEF Step
<1> DEFINE p == [o EXCEPT !.stale = FALSE]
<1>1. p \in Out
  BY DEF Sound, Out
<1>2. Step(o, p)
  BY <1>1, TouchStep DEF Sound, Out
<1>3. Step(o, CommitCursor(CommitCursor(p, no), no))
  <2> HIDE DEF p
  <2> QED
    BY <1>2, CommitCursorStep, StepTrans
<1> QED
  BY <1>3, StepSame DEF CursorPlane

LEMMA UnchangedStep ==
  ASSUME NEW o
  PROVE  Step(o, Unchanged(o))
<1> SUFFICES ASSUME Sound(o)
             PROVE  Step(o, Unchanged(o))
  BY DEF Step
<1>1. Unchanged(o) \in Out
  BY DEF Sound, Out, Unchanged
<1> QED
  BY <1>1, TouchStep DEF Sound, Out, Unchanged

\* A picture is drawn into a framebuffer.
LEMMA ImageStep ==
  ASSUME NEW o, NEW fb \in Fbs, scene \in 1..MaxScene
  PROVE  Step(o, [o EXCEPT !.image[fb] = scene])
<1> SUFFICES ASSUME Sound(o)
             PROVE  Step(o, [o EXCEPT !.image[fb] = scene])
  BY DEF Step
<1> DEFINE p == [o EXCEPT !.image[fb] = scene]
<1>1. scene \in Pictures /\ o.image \in [Fbs -> Pictures]
  BY OutputAssumption DEF Pictures, Sound, Out
<1>2. [o.image EXCEPT ![fb] = scene] \in [Fbs -> Pictures]
  BY <1>1
<1>3. p \in Out
  BY <1>2 DEF Sound, Out
<1> QED
  BY <1>3, TouchStep DEF Sound, Out

LEMMA CpuDrawStep ==
  ASSUME NEW o, NEW no, scene \in 1..MaxScene
  PROVE  Step(o, CpuDraw(o, no))
<1> SUFFICES ASSUME Sound(o)
             PROVE  Step(o, CpuDraw(o, no))
  BY DEF Step
<1> DEFINE spare == IF o.flip THEN o.front ELSE 3 - o.front
           drawn == IF o.flip THEN o ELSE [o EXCEPT !.image[spare] = scene]
           done == Committed(drawn, spare)
           counted == [done EXCEPT !.front = spare, !.cpuValid = TRUE, !.cpuLast = scene]
           failed == [drawn EXCEPT !.cpuValid = FALSE]
<1>1. spare \in Dumb /\ spare \in Fbs
  BY DEF Sound, Out, Dumb, Fbs
<1>2. Step(o, drawn)
  <2> HIDE DEF spare
  <2> QED
    BY <1>1, ImageStep, StepSame
<1>3. drawn.flip = o.flip /\ drawn.suspended = o.suspended /\ drawn.queued = o.queued
      /\ drawn.modeset = o.modeset /\ Sound(drawn)
  <2>1. Sound(drawn)
    <3> HIDE DEF drawn
    <3> QED
      BY <1>2 DEF Step
  <2> HIDE DEF spare
  <2> QED
    BY <2>1 DEF Sound, Out
<1> HIDE DEF drawn
<1>4. ASSUME Accepted(o, "pixels", no)
      PROVE  Step(o, ScheduleFrame(counted))
  <2>1. Accepted(drawn, "pixels", no)
    BY <1>3, <1>4 DEF Accepted, Taken
  <2> HIDE DEF spare
  <2>2. Step(drawn, done)
    BY <1>1, <2>1, CommittedStep
  <2> HIDE DEF done
  <2>3. Sound(done)
    BY <1>3, <2>2 DEF Step
  <2>4. scene \in Pictures
    BY OutputAssumption DEF Pictures
  <2>5. counted \in Out
    BY <1>1, <2>3, <2>4 DEF Sound, Out
  <2>6. /\ counted.flip = done.flip /\ counted.suspended = done.suspended
        /\ counted.modeset = done.modeset /\ counted.queued = done.queued
        /\ counted.events = done.events /\ counted.timer = done.timer
        /\ counted.scheduled = done.scheduled
    BY <2>3 DEF Sound, Out
  <2> HIDE DEF counted
  <2>7. Step(done, counted)
    BY <2>5, <2>6, TouchStep
  <2> QED
    BY <1>2, <2>2, <2>7, ScheduleStep, StepTrans
<1>5. Step(o, Refused(failed))
  <2>1. failed \in Out
    BY <1>3 DEF Sound, Out
  <2>2. Step(drawn, failed)
    BY <1>3, <2>1, TouchStep DEF Sound, Out
  <2> HIDE DEF failed
  <2> QED
    BY <1>2, <2>2, RefusedStep, StepTrans
<1> QED
  BY <1>4, <1>5, UnchangedStep DEF CpuDraw, drawn

LEMMA ShownStep ==
  ASSUME NEW o, scene \in 1..MaxScene
  PROVE  Step(o, Shown(o))
<1> SUFFICES ASSUME Sound(o)
             PROVE  Step(o, Shown(o))
  BY DEF Step
<1> DEFINE p == [o EXCEPT !.back = Other(@), !.last = scene, !.full = FALSE,
                          !.owed = Damaged(o), !.cpuValid = FALSE]
<1>1. Other(o.back) \in Targets /\ scene \in Pictures
  BY OutputAssumption DEF Sound, Out, Other, Targets, Pictures
<1>2. Damaged(o) \in BOOLEAN
  BY DEF Damaged, Sound, Out
<1>3. p \in Out
  BY <1>1, <1>2 DEF Sound, Out
<1>4. /\ p.flip = o.flip /\ p.suspended = o.suspended /\ p.modeset = o.modeset
      /\ p.queued = o.queued /\ p.events = o.events /\ p.timer = o.timer
      /\ p.scheduled = o.scheduled
  BY DEF Sound, Out
<1> HIDE DEF p
<1>5. Step(o, ScheduleFrame(p))
  <2>1. Step(o, p)
    BY <1>3, <1>4, TouchStep
  <2> QED
    BY <2>1, ScheduleStep, StepTrans
<1> QED
  BY <1>5 DEF Shown, p

LEMMA GpuDrawStep ==
  ASSUME NEW o, NEW no, scene \in 1..MaxScene
  PROVE  Step(o, GpuDraw(o, no))
<1> SUFFICES ASSUME Sound(o)
             PROVE  Step(o, GpuDraw(o, no))
  BY DEF Step
<1> DEFINE drawn == [o EXCEPT !.image[o.back] = scene]
<1>1. o.back \in Fbs
  BY DEF Sound, Out, Fbs
<1>2. Step(o, drawn)
  BY <1>1, ImageStep
<1>3. drawn.flip = o.flip /\ drawn.suspended = o.suspended /\ drawn.queued = o.queued
      /\ drawn.modeset = o.modeset
  BY DEF Sound, Out
<1> HIDE DEF drawn
<1>4. ASSUME Accepted(o, "frame", no)
      PROVE  Step(o, Shown(Committed(drawn, o.back)))
  <2>1. Accepted(drawn, "frame", no)
    BY <1>3, <1>4 DEF Accepted, Taken
  <2>2. Step(drawn, Committed(drawn, o.back))
    BY <1>1, <2>1, CommittedStep
  <2> QED
    BY <1>2, <2>2, ShownStep, StepTrans
<1>5. Step(o, CpuDraw(Refused(drawn), no))
  BY <1>2, RefusedStep, CpuDrawStep, StepTrans
<1> QED
  BY <1>4, <1>5, UnchangedStep DEF GpuDraw, drawn

LEMMA DrawStep ==
  ASSUME NEW o, NEW no, scene \in 1..MaxScene
  PROVE  Step(o, Draw(o, no))
<1> SUFFICES ASSUME Sound(o)
             PROVE  Step(o, Draw(o, no))
  BY DEF Step
<1> DEFINE c == CursorPlane(o, no)
           p == [c EXCEPT !.listed = TRUE]
<1>1. Step(o, c) /\ Sound(c)
  BY CursorPlaneStep DEF Step
<1> HIDE DEF c
<1>2. p \in Out
  BY <1>1 DEF Sound, Out
<1>3. Step(c, p)
  BY <1>1, <1>2, TouchStep DEF Sound, Out
<1> HIDE DEF p
<1>4. Step(o, GpuDraw(p, no)) /\ Step(o, CpuDraw(p, no))
  BY <1>1, <1>3, GpuDrawStep, CpuDrawStep, StepTrans
<1> QED
  BY <1>4 DEF Draw, p, c

-----------------------------------------------------------------------------
(* What a handler leaves undone of the cursor and the colours comes later *)

LEMMA ReflipWakes ==
  ASSUME NEW o, NEW what, NEW no, Sound(o), Lively(o), ~o.suspended
  PROVE  Awake(Reflip(o, what, no))
<1>1. o.modeset /\ (o.flip => Pending(o))
  BY DEF Lively
<1>2. CASE o.flip
  BY <1>1, <1>2 DEF Reflip, Awake
<1>3. CASE ~o.flip /\ Taken(o, what, FALSE, no)
  <2>1. o.pending \in Fbs /\ o.pending # None
    BY DEF Sound, Out, Fbs, Dumb, Targets, None
  <2>2. Flip(o, o.pending, FALSE).queued = o.pending
    BY DEF Flip, Sound, Out
  <2> QED
    BY <1>1, <1>3, <2>1, <2>2 DEF Reflip, Awake, Pending
<1>4. CASE ~o.flip /\ ~Taken(o, what, FALSE, no)
  <2>1. [o EXCEPT !.timer = TRUE].timer
    BY DEF Sound, Out
  <2> QED
    BY <1>1, <1>4, <2>1 DEF Reflip, Awake
<1> QED
  BY <1>2, <1>3, <1>4

LEMMA ReflipClears ==
  ASSUME NEW o, NEW what, NEW no, Sound(o)
  PROVE  LET p == Reflip(o, what, no)
         IN /\ p.cursorDirty => o.cursorDirty
            /\ p.colourDirty => o.colourDirty
  BY DEF Reflip, Flip, Sound, Out

LEMMA FlushWakes ==
  ASSUME NEW o, NEW no, Sound(o), Lively(o), ~o.suspended
  PROVE  LET p == FlushCursor(o, no)
             q == FlushColour(o, no)
         IN /\ p.cursorDirty => Awake(p)
            /\ p.colourDirty => o.colourDirty
            /\ q.colourDirty => Awake(q)
            /\ q.cursorDirty => o.cursorDirty
  BY ReflipWakes, ReflipClears DEF FlushCursor, FlushColour

LEMMA EmitStep ==
  ASSUME NEW o, NEW no, scene \in 1..MaxScene,
         NEW s, s = [o EXCEPT !.scheduled = FALSE], Sound(s)
  PROVE  LET e == EmitFrame(o, no)
         IN /\ Sound(e)
            /\ e.suspended = s.suspended
            /\ Lively(s) => Lively(e) /\ Clean(e)
<1> DEFINE d == Draw(s, no)
           c == FlushCursor(d, no)
           e == FlushColour(c, no)
<1>1. Step(s, d) /\ Step(d, c) /\ Step(c, e)
  BY DrawStep, FlushStep
<1>2. e = EmitFrame(o, no)
  BY DEF EmitFrame
<1>3. Sound(d) /\ Sound(c) /\ Sound(e)
  <2> HIDE DEF d, c, e
  <2> QED
    BY <1>1 DEF Step
<1>4. d.suspended = s.suspended /\ c.suspended = s.suspended /\ e.suspended = s.suspended
  <2> HIDE DEF d, c, e
  <2> QED
    BY <1>1, <1>3 DEF Step
<1>5. ASSUME Lively(s), ~s.suspended
      PROVE  Lively(e) /\ Clean(e)
  <2>1. Lively(d) /\ Lively(c) /\ Lively(e)
    <3> HIDE DEF d, c, e
    <3> QED
      BY <1>1, <1>3, <1>5 DEF Step
  <2>2. c.cursorDirty => Awake(c)
    <3> HIDE DEF d
    <3> QED
      BY <1>3, <1>4, <1>5, <2>1, FlushWakes
  <2>3. (e.colourDirty => Awake(e)) /\ (e.cursorDirty => c.cursorDirty)
    <3> HIDE DEF c
    <3> QED
      BY <1>3, <1>4, <1>5, <2>1, FlushWakes
  <2>4. Awake(c) => Awake(e)
    <3> HIDE DEF c, e
    <3> QED
      BY <1>1, <1>3, <1>4, <1>5 DEF Step
  <2> HIDE DEF c, e
  <2> QED
    BY <2>1, <2>2, <2>3, <2>4 DEF Clean
<1>6. s.suspended => Lively(e) /\ Clean(e)
  <2> HIDE DEF e
  <2> QED
    BY <1>4 DEF Lively, Clean
<1> HIDE DEF d, c, e
<1> QED
  BY <1>2, <1>3, <1>4, <1>5, <1>6

-----------------------------------------------------------------------------
(* The invariant holds at first, and every action preserves it *)

LEMMA InitIInv == Init => IInv
<1> SUFFICES ASSUME Init PROVE IInv
  OBVIOUS
<1>1. scene \in 1..MaxScene /\ 0 \in Pictures
  BY OutputAssumption DEF Init, Pictures
<1>2. 1 \in Fbs /\ 1 \in Dumb /\ 3 \in Targets /\ None \in Fbs \cup {None}
  BY DEF Fbs, Dumb, Targets
<1>3. 1 \in 0..MaxEvents /\ 1 <= MaxEvents
  BY OutputAssumption
<1>4. [fb \in Fbs |-> 0] \in [Fbs -> Pictures]
  BY <1>1
<1>5. out \in Out
  BY <1>1, <1>2, <1>3, <1>4 DEF Init, Out
<1>6. Room(out) /\ Lively(out) /\ Clean(out) /\ ~out.suspended
  BY <1>3 DEF Init, Room, Outstanding, Lively, Clean, Awake, Pending
<1> QED
  BY <1>1, <1>5, <1>6 DEF Init, IInv, Sound

\* A handler that is a Step and leaves nothing of the cursor and the colours
\* undone.
LEMMA StepIInv ==
  ASSUME IInv, Step(out, out'), UNCHANGED setting, scene' \in 1..MaxScene,
         Lively(out) /\ Clean(out) => Clean(out)'
  PROVE  IInv'
<1>1. Sound(out)' /\ out'.suspended = out.suspended
      /\ (Lively(out) => Lively(out)')
  BY DEF IInv, Step, Sound, Room, Outstanding, Lively, Awake, Pending
<1>2. Recovers' = Recovers
  BY DEF Recovers
<1> QED
  BY <1>1, <1>2 DEF IInv

LEMMA PageFlipIInv ==
  ASSUME IInv, PageFlip
  PROVE  IInv'
<1> PICK no \in Refusals :
           out' = EmitFrame([out EXCEPT !.events = @ - 1, !.flip = FALSE,
                                        !.waiting = @ /\ ~out.listed], no)
  BY DEF PageFlip
<1> DEFINE o == [out EXCEPT !.events = @ - 1, !.flip = FALSE,
                            !.waiting = @ /\ ~out.listed]
           s == [o EXCEPT !.scheduled = FALSE]
<1>1. out.events \in 1..MaxEvents /\ out.events - 1 \in 0..MaxEvents
  BY OutputAssumption DEF PageFlip, IInv, Sound, Out
<1>2. s \in Out
  <2> DEFINE w == out.waiting /\ ~out.listed
  <2>1. w \in BOOLEAN
    OBVIOUS
  <2>2. o = [out EXCEPT !.events = @ - 1, !.flip = FALSE, !.waiting = w]
    OBVIOUS
  <2> HIDE DEF w, o
  <2>3. o \in Out
    BY <1>1, <2>1, <2>2 DEF IInv, Sound, Out
  <2> QED
    BY <2>3 DEF Out
<1>3. /\ s.events = out.events - 1 /\ s.queued = out.queued /\ s.flip = FALSE
      /\ s.suspended = out.suspended /\ s.modeset = out.modeset /\ s.scheduled = FALSE
  BY DEF IInv, Sound, Out
<1>4. Sound(s)
  <2> HIDE DEF o, s
  <2> QED
    BY <1>1, <1>2, <1>3, OutputAssumption DEF IInv, Sound, Room, Outstanding
<1>5. Lively(out) => Lively(s)
  <2> HIDE DEF o, s
  <2> QED
    BY <1>3 DEF Lively
<1>6. scene \in 1..MaxScene
  BY DEF IInv
<1>7. /\ Sound(out')
      /\ out'.suspended = s.suspended
      /\ Lively(s) => Lively(out') /\ Clean(out')
  <2> HIDE DEF o
  <2>1. out' = EmitFrame(o, no)
    BY DEF o
  <2> QED
    BY ZenonT(40), <1>4, <1>6, <2>1, EmitStep
<1> QED
  <2> HIDE DEF s
  <2> QED
    BY <1>3, <1>5, <1>7 DEF PageFlip, IInv, Recovers, Sound, Room, Outstanding, Lively,
                            Clean, Awake, Pending

LEMMA TimerFiresIInv ==
  ASSUME IInv, TimerFires
  PROVE  IInv'
<1> DEFINE o == [out EXCEPT !.timer = FALSE]
           s == [o EXCEPT !.scheduled = FALSE]
<1>1. o \in Out /\ s \in Out
  BY DEF IInv, Sound, Out
<1>2. /\ o.events = out.events /\ o.queued = out.queued /\ o.flip = out.flip
      /\ o.suspended = out.suspended /\ o.modeset = out.modeset
      /\ o.scheduled = out.scheduled
      /\ o.cursorDirty = out.cursorDirty /\ o.colourDirty = out.colourDirty
      /\ s.events = out.events /\ s.queued = out.queued /\ s.flip = out.flip
      /\ s.suspended = out.suspended /\ s.modeset = out.modeset /\ s.scheduled = FALSE
  BY DEF IInv, Sound, Out
<1>3. Sound(o) /\ Sound(s)
  <2> HIDE DEF o, s
  <2> QED
    BY <1>1, <1>2 DEF IInv, Sound, Room, Outstanding
<1>4. CASE out.suspended \/ out.flip
  <2>1. out' = o
    BY <1>2, <1>4 DEF TimerFires
  <2>2. Lively(out) => Lively(o) /\ Clean(o)
    <3> HIDE DEF o, s
    <3> QED
      BY <1>2, <1>4 DEF Lively, Clean, Awake, Pending
  <2> HIDE DEF o, s
  <2> QED
    BY <1>2, <1>3, <2>1, <2>2
       DEF TimerFires, IInv, Recovers, Sound, Room, Outstanding, Lively, Clean, Awake, Pending
<1>5. CASE ~(out.suspended \/ out.flip)
  <2> PICK no \in Refusals : out' = EmitFrame(o, no)
    BY <1>2, <1>5 DEF TimerFires
  <2>1. Lively(out) => Lively(s)
    <3> HIDE DEF o, s
    <3> QED
      BY <1>2, <1>5 DEF Lively
  <2>2. scene \in 1..MaxScene
    BY DEF IInv
  <2>3. /\ Sound(out')
        /\ out'.suspended = s.suspended
        /\ Lively(s) => Lively(out') /\ Clean(out')
    <3> HIDE DEF o
    <3> QED
      BY <1>3, <2>2, EmitStep
  <2> HIDE DEF s
  <2> QED
    BY <1>2, <2>1, <2>3 DEF TimerFires, IInv, Recovers, Sound, Room, Outstanding, Lively,
                            Clean, Awake, Pending
<1> QED
  BY <1>4, <1>5

LEMMA ScheduleClean ==
  ASSUME NEW o, Sound(o), Clean(o)
  PROVE  Clean(ScheduleFrame(o))
<1> DEFINE p == ScheduleFrame(o)
<1>1. /\ p.suspended = o.suspended
      /\ p.cursorDirty = o.cursorDirty /\ p.colourDirty = o.colourDirty
  BY DEF Sound, Out, ScheduleFrame
<1>2. ~o.suspended /\ Awake(o) => Awake(p)
  BY ScheduleStep DEF Step
<1>3. Clean(p)
  <2> HIDE DEF p
  <2> QED
    BY <1>1, <1>2 DEF Clean
<1> QED
  BY <1>3 DEF p

\* A client that waits, and a frame that is asked for.
LEMMA AskedIInv ==
  ASSUME IInv, out' = ScheduleFrame([out EXCEPT !.waiting = TRUE]), UNCHANGED setting,
         scene' \in 1..MaxScene
  PROVE  IInv'
<1> DEFINE o == [out EXCEPT !.waiting = TRUE]
<1>1. o \in Out
  BY DEF IInv, Sound, Out
<1>2. /\ o.flip = out.flip /\ o.suspended = out.suspended /\ o.modeset = out.modeset
      /\ o.queued = out.queued /\ o.events = out.events /\ o.timer = out.timer
      /\ o.scheduled = out.scheduled
      /\ o.cursorDirty = out.cursorDirty /\ o.colourDirty = out.colourDirty
  BY DEF IInv, Sound, Out
<1> HIDE DEF o
<1>3. Step(out, o)
  BY <1>1, <1>2, TouchStep
<1>4. Step(out, out')
  BY <1>3, ScheduleStep, StepTrans DEF o
<1>5. Clean(out) => Clean(o)
  BY <1>2 DEF Clean, Awake, Pending
<1>6. Sound(o)
  BY <1>3 DEF Step, IInv
<1>7. Clean(out) => Clean(out')
  BY <1>5, <1>6, ScheduleClean DEF o
<1>8. Clean(out)' = Clean(out')
  BY DEF Clean, Awake, Pending
<1> QED
  BY <1>4, <1>7, <1>8, StepIInv

LEMMA PointerMovesIInv ==
  ASSUME IInv, PointerMoves
  PROVE  IInv'
<1> PICK no \in Refusals : out' = CommitCursor(out, no)
  BY DEF PointerMoves
<1> DEFINE o == [out EXCEPT !.cursorDirty = TRUE]
<1>1. o \in Out
  BY DEF IInv, Sound, Out
<1>2. /\ o.flip = out.flip /\ o.suspended = out.suspended /\ o.modeset = out.modeset
      /\ o.queued = out.queued /\ o.events = out.events /\ o.timer = out.timer
      /\ o.scheduled = out.scheduled /\ o.colourDirty = out.colourDirty
  BY DEF IInv, Sound, Out
<1>3. Step(out, out')
  BY CommitCursorStep
<1>4. ASSUME Lively(out), Clean(out)
      PROVE  Clean(out')
  <2>1. CASE out.suspended
    BY <1>4, <2>1 DEF CommitCursor
  <2>2. CASE ~out.suspended
    <3>1. out' = FlushCursor(o, no)
      BY <2>2 DEF CommitCursor
    <3> HIDE DEF o
    <3>2. Sound(o) /\ Lively(o)
      BY <1>1, <1>2, <1>4 DEF IInv, Sound, Room, Outstanding, Lively, Awake, Pending
    <3>3. (out'.cursorDirty => Awake(out')) /\ (out'.colourDirty => o.colourDirty)
      BY <1>2, <2>2, <3>1, <3>2, FlushWakes
    <3>4. Awake(out) => Awake(out')
      BY <1>3, <2>2 DEF Step, IInv
    <3> QED
      BY <1>2, <1>4, <2>2, <3>3, <3>4 DEF Clean
  <2> QED
    BY <2>1, <2>2
<1>5. Clean(out)' = Clean(out')
  BY DEF Clean, Awake, Pending
<1> QED
  BY <1>3, <1>4, <1>5, StepIInv DEF PointerMoves, IInv

LEMMA ColourChangesIInv ==
  ASSUME IInv, ColourChanges
  PROVE  IInv'
<1> DEFINE o == [out EXCEPT !.colourDirty = TRUE]
<1> PICK no \in Refusals : out' = FlushColour(o, no)
  BY DEF ColourChanges
<1>1. o \in Out
  BY DEF IInv, Sound, Out
<1>2. /\ o.flip = out.flip /\ o.suspended = out.suspended /\ o.modeset = out.modeset
      /\ o.queued = out.queued /\ o.events = out.events /\ o.timer = out.timer
      /\ o.scheduled = out.scheduled /\ o.cursorDirty = out.cursorDirty
  BY DEF IInv, Sound, Out
<1> HIDE DEF o
<1>3. Step(out, o)
  BY <1>1, <1>2, TouchStep
<1>4. Step(out, out')
  BY <1>3, FlushStep, StepTrans
<1>5. ASSUME Lively(out), Clean(out)
      PROVE  Clean(out')
  <2>1. Sound(o) /\ Lively(o)
    BY <1>3, <1>5 DEF Step, IInv
  <2>2. CASE ~out.suspended
    <3>1. (out'.colourDirty => Awake(out')) /\ (out'.cursorDirty => o.cursorDirty)
      BY <1>2, <2>1, <2>2, FlushWakes
    <3>2. Awake(out) => Awake(out')
      BY <1>4, <2>2 DEF Step, IInv
    <3> QED
      BY <1>2, <1>5, <2>2, <3>1, <3>2 DEF Clean
  <2>3. CASE out.suspended
    BY <1>4, <2>3 DEF Step, IInv, Clean
  <2> QED
    BY <2>2, <2>3
<1>6. Clean(out)' = Clean(out')
  BY DEF Clean, Awake, Pending
<1> QED
  BY <1>4, <1>5, <1>6, StepIInv DEF ColourChanges, IInv

LEMMA SpriteChangesIInv ==
  ASSUME IInv, SpriteChanges
  PROVE  IInv'
<1>1. out' \in Out
  BY DEF SpriteChanges, IInv, Sound, Out
<1>2. /\ out'.flip = out.flip /\ out'.suspended = out.suspended
      /\ out'.modeset = out.modeset /\ out'.queued = out.queued
      /\ out'.events = out.events /\ out'.timer = out.timer
      /\ out'.scheduled = out.scheduled
      /\ out'.cursorDirty = out.cursorDirty /\ out'.colourDirty = out.colourDirty
  BY DEF SpriteChanges, IInv, Sound, Out
<1>3. Step(out, out')
  BY <1>1, <1>2, TouchStep
<1>4. Clean(out) => Clean(out)'
  BY <1>2 DEF Clean, Awake, Pending
<1> QED
  BY <1>3, <1>4, StepIInv DEF SpriteChanges, IInv

LEMMA SetModeIInv ==
  ASSUME IInv, SetMode
  PROVE  IInv'
<1> DEFINE o == [out EXCEPT !.flip = FALSE]
<1> PICK no \in Refusals :
        out' = IF ~Taken(o, "mode", TRUE, no) THEN o
               ELSE ScheduleFrame(
                   [Flip(o, 1, TRUE) EXCEPT
                       !.modeset = TRUE, !.front = 1, !.image = [fb \in Fbs |-> 0],
                       !.back = 3, !.last = 0, !.full = TRUE, !.owed = FALSE,
                       !.cpuValid = FALSE, !.listed = @ /\ ~setting.gpu])
  BY DEF SetMode
<1>1. out.events \in 0..MaxEvents /\ out.events + 2 <= MaxEvents /\ ~out.suspended
  BY OutputAssumption DEF SetMode, IInv, Sound, Out
<1>2. CASE ~Taken(o, "mode", TRUE, no)
  <2>1. o \in Out
    BY DEF IInv, Sound, Out
  <2>2. /\ o.flip = FALSE /\ o.suspended = out.suspended /\ o.modeset = out.modeset
        /\ o.queued = out.queued /\ o.events = out.events /\ o.timer = out.timer
        /\ o.scheduled = out.scheduled
        /\ o.cursorDirty = out.cursorDirty /\ o.colourDirty = out.colourDirty
    BY DEF IInv, Sound, Out
  <2>3. out' = o
    BY <1>2
  <2> HIDE DEF o
  <2>4. Sound(o)
    BY <1>1, <2>1, <2>2, OutputAssumption DEF IInv, Sound, Room, Outstanding
  <2>5. (Lively(out) => Lively(o)) /\ (Clean(out) => Clean(o))
    BY <2>2 DEF Lively, Clean, Awake, Pending
  <2>6. IInv' <=> /\ setting' \in Settings /\ scene' \in 1..MaxScene /\ Sound(out')
                  /\ out'.suspended => "vt" \in setting'.uses
                  /\ Recovers' => Lively(out') /\ Clean(out')
    BY DEF IInv, Sound, Room, Outstanding, Lively, Clean, Awake, Pending
  <2> QED
    BY <2>2, <2>3, <2>4, <2>5, <2>6 DEF SetMode, IInv, Recovers
<1>3. CASE Taken(o, "mode", TRUE, no)
  <2> DEFINE n == IF out.queued = None THEN out.events + 1 ELSE out.events + 2
             black == [fb \in Fbs |-> 0]
             list == out.listed /\ ~setting.gpu
             f == Flip(o, 1, TRUE)
             p == [f EXCEPT
                      !.modeset = TRUE, !.front = 1, !.image = black,
                      !.back = 3, !.last = 0, !.full = TRUE, !.owed = FALSE,
                      !.cpuValid = FALSE, !.listed = @ /\ ~setting.gpu]
  <2>1. f = [out EXCEPT !.pending = 1, !.flip = TRUE, !.cursorDirty = FALSE,
                        !.colourDirty = FALSE, !.queued = None, !.lit = 1, !.events = n]
    BY DEF Flip, IInv, Sound, Out
  <2>2. n \in 1..MaxEvents
    BY <1>1, OutputAssumption
  <2>3. 1 \in Dumb /\ 1 \in Fbs /\ 3 \in Targets /\ 0 \in Pictures
        /\ black \in [Fbs -> Pictures] /\ list \in BOOLEAN
    BY OutputAssumption DEF Dumb, Fbs, Targets, Pictures
  <2>4. /\ f \in Out /\ f.listed = out.listed /\ f.flip = TRUE /\ ~f.suspended
        /\ f.queued = None /\ f.events = n
    <3>1. n \in 0..MaxEvents /\ None \in Fbs \cup {None} /\ 1 \in Fbs \cup {Elsewhere}
      BY <2>2, <2>3
    <3> HIDE DEF f, n
    <3>2. f \in Out
      BY <2>1, <2>3, <3>1 DEF IInv, Sound, Out
    <3> QED
      BY <1>1, <2>1, <3>2 DEF IInv, Sound, Out
  <2>5. p = [f EXCEPT !.modeset = TRUE, !.front = 1, !.image = black,
                      !.back = 3, !.last = 0, !.full = TRUE, !.owed = FALSE,
                      !.cpuValid = FALSE, !.listed = list]
    <3> HIDE DEF f
    <3> QED
      BY <2>4 DEF Out
  <2>6. p \in Out
    <3> HIDE DEF f, p, black, list
    <3> QED
      BY ZenonT(40), <2>3, <2>4, <2>5 DEF Out
  <2>7. /\ p.flip = TRUE /\ ~p.suspended /\ p.modeset = TRUE
        /\ p.queued = None /\ p.events = n
    <3> HIDE DEF f, black
    <3> QED
      BY <2>4 DEF Out
  <2>8. out' = ScheduleFrame(p)
    BY <1>3
  <2> HIDE DEF p, n
  <2>9. Sound(p) /\ Lively(p) /\ Clean(p)
    BY <2>2, <2>6, <2>7, OutputAssumption
       DEF Sound, Room, Outstanding, Lively, Clean, Awake, Pending
  <2>10. Sound(out') /\ Lively(out') /\ ~out'.suspended
    BY <2>7, <2>8, <2>9, ScheduleStep DEF Step
  <2>11. Clean(out')
    BY <2>8, <2>9, ScheduleClean
  <2> QED
    BY <1>1, <2>10, <2>11
       DEF SetMode, IInv, Sound, Room, Outstanding, Lively, Clean, Awake, Pending
<1> QED
  BY <1>2, <1>3

LEMMA PauseIInv ==
  ASSUME IInv, Pause
  PROVE  IInv'
<1> PICK reports \in {0} \cup (IF out.queued = None THEN {} ELSE {1}) :
           out' = [out EXCEPT !.suspended = TRUE, !.cursorDirty = TRUE, !.queued = None,
                              !.lit = Elsewhere, !.events = @ + reports]
  BY DEF Pause
<1>1. out.events \in 0..MaxEvents /\ out.events < MaxEvents
  BY OutputAssumption DEF Pause, IInv, Sound, Out
<1>2. /\ out.events + reports \in 0..MaxEvents
      /\ out.events + reports <= Outstanding(out)
  BY <1>1, OutputAssumption DEF Outstanding
<1>3. out' \in Out
  BY <1>2 DEF IInv, Sound, Out
<1>4. /\ out'.events = out.events + reports /\ out'.queued = None
      /\ out'.suspended /\ out'.flip = out.flip
  BY DEF IInv, Sound, Out
<1>5. Outstanding(out) \in Nat
  BY <1>1, OutputAssumption DEF Outstanding
<1>6. Room(out')
  BY <1>1, <1>2, <1>4, <1>5, OutputAssumption DEF Room, IInv, Sound, Outstanding
<1> QED
  BY <1>3, <1>4, <1>6
     DEF Pause, IInv, Sound, Room, Outstanding, Lively, Clean, Awake, Pending

LEMMA VblankIInv ==
  ASSUME IInv, Vblank
  PROVE  IInv'
<1>1. out.events \in 0..MaxEvents /\ out.events + 1 \in 0..MaxEvents
  BY OutputAssumption DEF Vblank, IInv, Sound, Room, Outstanding, Out
<1>2. out.queued \in Fbs
  BY DEF Vblank, IInv, Sound, Out
<1>3. out' \in Out
  BY <1>1, <1>2 DEF Vblank, IInv, Sound, Out
<1>4. /\ out'.events = out.events + 1 /\ out'.queued = None /\ out'.flip = out.flip
      /\ out'.suspended = out.suspended /\ out'.modeset = out.modeset
      /\ out'.cursorDirty = out.cursorDirty /\ out'.colourDirty = out.colourDirty
      /\ out.queued # None
  BY DEF Vblank, IInv, Sound, Out
<1> QED
  BY <1>1, <1>3, <1>4
     DEF Vblank, IInv, Recovers, Sound, Room, Outstanding, Lively, Clean, Awake, Pending

LEMMA ResumeIInv ==
  ASSUME IInv, Resume
  PROVE  IInv'
<1> PICK no \in Refusals, routerFirst \in BOOLEAN :
        LET asked == IF routerFirst THEN ScheduleFrame(out) ELSE out
            lit == LightUp([asked EXCEPT !.suspended = FALSE, !.flip = FALSE,
                                         !.modeset = FALSE], no)
        IN out' = ScheduleFrame(lit)
  BY DEF Resume
<1> DEFINE asked == IF routerFirst THEN ScheduleFrame(out) ELSE out
           dark == [asked EXCEPT !.suspended = FALSE, !.flip = FALSE, !.modeset = FALSE]
           black == [dark EXCEPT !.image[1] = 0]
           flip == Flip(black, 1, TRUE)
           lit == LightUp(dark, no)
<1>1. out' = ScheduleFrame(lit)
  OBVIOUS
<1>2. out.events \in 0..MaxEvents /\ out.events < MaxEvents /\ out.suspended
      /\ out.queued = None /\ "vt" \in setting.uses
  BY OutputAssumption DEF Resume, IInv, Sound, Room, Out
<1>3. asked \in Out /\ asked.queued = None /\ asked.events = out.events
  <2>1. ScheduleFrame(out) \in Out
    BY ScheduleStep DEF Step, IInv, Sound
  <2>2. ScheduleFrame(out).queued = out.queued /\ ScheduleFrame(out).events = out.events
    BY DEF ScheduleFrame, IInv, Sound, Out
  <2> QED
    BY <1>2, <2>1, <2>2 DEF IInv, Sound
<1>4. 1 \in Dumb /\ 1 \in Fbs /\ 0 \in Pictures /\ 1 \in Fbs \cup {Elsewhere}
      /\ None \in Fbs \cup {None}
  BY OutputAssumption DEF Dumb, Fbs, Pictures
<1>5. /\ black \in Out /\ black.queued = None /\ black.events = out.events
      /\ ~black.suspended /\ black.flip = FALSE /\ black.modeset = FALSE
  <2> HIDE DEF asked
  <2>1. /\ dark \in Out /\ dark.queued = None /\ dark.events = out.events
        /\ ~dark.suspended /\ dark.flip = FALSE /\ dark.modeset = FALSE
    BY <1>3 DEF Out
  <2> HIDE DEF dark
  <2>2. [dark.image EXCEPT ![1] = 0] \in [Fbs -> Pictures]
    BY <1>4, <2>1 DEF Out
  <2> QED
    BY <2>1, <2>2 DEF Out
<1>6. CASE "vt" \in no
  <2>1. lit = black
    BY <1>6 DEF LightUp, Taken
  <2>2. Sound(lit) /\ ~lit.suspended
    <3> HIDE DEF black, lit
    <3> QED
      BY <1>2, <1>5, <2>1, OutputAssumption DEF Sound, Room, Outstanding
  <2>3. Sound(out') /\ ~out'.suspended
    <3> HIDE DEF lit
    <3> QED
      BY <1>1, <2>2, ScheduleStep DEF Step
  <2>4. "refuse" \in setting.uses
    BY <1>6 DEF Refusals
  <2>5. ~Recovers'
    BY <1>2, <2>4 DEF Resume, Recovers
  <2>6. (Sound(out') => Sound(out)') /\ (~out'.suspended => ~(out.suspended)')
    BY DEF Sound, Room, Outstanding
  <2> QED
    BY <2>3, <2>5, <2>6 DEF Resume, IInv
<1>7. CASE "vt" \notin no
  <2> DEFINE m == out.events + 1
  <2>1. m \in 1..MaxEvents /\ m \in 0..MaxEvents
    BY <1>2, OutputAssumption
  <2>2. flip = [black EXCEPT !.pending = 1, !.flip = TRUE, !.cursorDirty = FALSE,
                             !.colourDirty = FALSE, !.queued = None, !.lit = 1,
                             !.events = m]
    <3> HIDE DEF black
    <3> QED
      BY <1>5 DEF Flip, Out
  <2>3. lit = [flip EXCEPT !.modeset = TRUE, !.front = 1]
    <3> HIDE DEF dark, flip
    <3> QED
      BY <1>7 DEF LightUp, Taken, flip
  <2>4. flip \in Out /\ flip.flip = TRUE /\ ~flip.suspended /\ flip.queued = None
        /\ flip.events = m
    <3> HIDE DEF black, flip, m
    <3> QED
      BY ZenonT(40), <1>4, <1>5, <2>1, <2>2 DEF Out
  <2>5. lit \in Out /\ lit.flip = TRUE /\ ~lit.suspended /\ lit.queued = None
        /\ lit.events = m /\ lit.modeset = TRUE
    <3> HIDE DEF flip, lit, m
    <3> QED
      BY <1>4, <2>3, <2>4 DEF Out
  <2> HIDE DEF lit, m
  <2>6. Sound(lit) /\ Lively(lit) /\ Clean(lit)
    BY <2>1, <2>5, OutputAssumption
       DEF Sound, Room, Outstanding, Lively, Clean, Awake, Pending
  <2>7. Sound(out') /\ Lively(out') /\ ~out'.suspended
    BY <1>1, <2>5, <2>6, ScheduleStep DEF Step
  <2>8. Clean(out')
    BY <1>1, <2>6, ScheduleClean
  <2> QED
    BY <2>7, <2>8 DEF Resume, IInv, Sound, Room, Outstanding, Lively, Clean, Awake, Pending
<1> QED
  BY <1>6, <1>7

LEMMA NextIInv ==
  ASSUME IInv, [Next]_vars
  PROVE  IInv'
<1>1. CASE SceneChanges
  BY <1>1, AskedIInv DEF SceneChanges
<1>2. CASE ClientAsks
  BY <1>2, AskedIInv DEF ClientAsks, IInv
<1>3. CASE UNCHANGED vars
  BY <1>3 DEF vars, IInv, Recovers, Sound, Room, Outstanding, Lively, Clean, Awake, Pending
<1> QED
  BY <1>1, <1>2, <1>3, PageFlipIInv, TimerFiresIInv, PointerMovesIInv, SpriteChangesIInv,
     ColourChangesIInv, SetModeIInv, PauseIInv, ResumeIInv, VblankIInv DEF Next

LEMMA Invariance == Spec => []IInv
  BY InitIInv, NextIInv, PTL DEF Spec

-----------------------------------------------------------------------------
(* What follows *)

\* Every field of the output keeps to its type, whatever is refused and however
\* often the VT is switched.  Vblank has no guard on MaxEvents: that the events
\* stay within it says that atomic() leaves at most one flip on its way.
THEOREM TypeCorrect == Spec => []TypeOK
<1>1. IInv => TypeOK
  BY DEF IInv, TypeOK, Sound
<1> QED
  BY <1>1, Invariance, PTL

\* A frame that schedule_frame() promised has a timer, an event or a flip behind
\* it, so the requests it ignores afterwards are not lost.
THEOREM RequestIsServed == Spec => []RequestServed
<1>1. IInv => RequestServed
  BY DEF IInv, RequestServed, Lively, Awake, Pending, Sound, Out
<1> QED
  BY <1>1, Invariance, PTL

\* An output with nothing under way owes the hardware neither cursor nor colours:
\* what a flip or a refusal put off was delivered after it.
THEOREM NothingIsOwed == Spec => []NothingOwed
<1>1. IInv => NothingOwed
  BY DEF IInv, NothingOwed, Quiet, Clean, Awake, Pending
<1> QED
  BY <1>1, Invariance, PTL

\* The screen is ours, and shows, now or after the next vblank, what was committed last.
OnScreen(o) ==
    /\ ~o.suspended /\ o.modeset /\ ~o.stale
    /\ o.queued \in {None, o.pending}
    /\ o.queued = None => o.lit = o.pending

\* Each flip reports once, and what was committed last is off the targets that
\* are drawn into next.
OneFlip(o) ==
    /\ Outstanding(o) = IF o.flip THEN 1 ELSE 0
    /\ o.pending \in {o.front, Other(o.back)}

\* What a renderer that redraws nothing relies on.
GpuKnows(o) == ~o.cpuValid /\ (~o.full => o.pending = Other(o.back) /\ o.image[o.pending] = o.last)
CpuKnows(o) == o.cpuValid => o.pending = o.front /\ o.image[o.pending] = o.cpuLast
Knows(o) == IF setting.gpu THEN GpuKnows(o) ELSE CpuKnows(o)

-----------------------------------------------------------------------------
(* What a part of a handler does to the pictures *)

\* Nothing is drawn, and the screen is at most flipped to what it shows.
Flushed(o, p) ==
    /\ p.image = o.image /\ p.lit = o.lit /\ p.pending = o.pending /\ p.events = o.events
    /\ p.front = o.front /\ p.back = o.back /\ p.last = o.last /\ p.full = o.full
    /\ p.cpuValid = o.cpuValid /\ p.cpuLast = o.cpuLast
    /\ p.suspended = o.suspended /\ p.modeset = o.modeset /\ p.stale = o.stale
    /\ o.timer => p.timer
    /\ \/ p.queued = o.queued /\ p.flip = o.flip
       \/ ~o.flip /\ p.flip /\ o.queued = None /\ p.queued = o.pending

LEMMA FlushedTrans ==
  ASSUME NEW o, NEW p, NEW q, Flushed(o, p), Flushed(p, q), o.pending # None
  PROVE  Flushed(o, q)
  BY DEF Flushed

LEMMA ReflipFlushes ==
  ASSUME NEW o \in Out, NEW what, NEW no
  PROVE  Flushed(o, Reflip(o, what, no)) /\ Reflip(o, what, no) \in Out
<1>1. CASE o.suspended \/ o.flip \/ ~o.modeset
  BY <1>1 DEF Reflip, Flushed
<1>2. CASE ~(o.suspended \/ o.flip \/ ~o.modeset) /\ ~Taken(o, what, FALSE, no)
  BY <1>2 DEF Reflip, Flushed, Out
<1>3. CASE ~(o.suspended \/ o.flip \/ ~o.modeset) /\ Taken(o, what, FALSE, no)
  <2> PICK p : p = Reflip(o, what, no)
    OBVIOUS
  <2>1. p = [o EXCEPT !.pending = o.pending, !.flip = TRUE, !.cursorDirty = FALSE,
                    !.colourDirty = FALSE, !.queued = o.pending, !.lit = o.lit,
                    !.events = o.events]
    BY <1>3 DEF Reflip, Flip, Out
  <2>2. o.queued = None
    BY <1>3 DEF Taken
  <2>3. /\ p.image = o.image /\ p.lit = o.lit /\ p.pending = o.pending /\ p.events = o.events
        /\ p.front = o.front /\ p.back = o.back /\ p.last = o.last /\ p.cpuLast = o.cpuLast
        /\ p.queued = o.pending
    BY <2>1 DEF Out
  <2>4. /\ p.full = o.full /\ p.cpuValid = o.cpuValid
        /\ p.suspended = o.suspended /\ p.modeset = o.modeset /\ p.stale = o.stale
        /\ p.timer = o.timer /\ p.flip
    BY <2>1 DEF Out
  <2>5. o.pending \in Fbs
    BY DEF Out
  <2>6. p \in Out
    BY ZenonT(40), <2>1, <2>5 DEF Out
  <2> QED
    BY <1>3, <2>2, <2>3, <2>4, <2>6 DEF Flushed
<1> QED
  BY <1>1, <1>2, <1>3

LEMMA FlushFlushes ==
  ASSUME NEW o \in Out, NEW no
  PROVE  /\ Flushed(o, FlushCursor(o, no)) /\ FlushCursor(o, no) \in Out
         /\ Flushed(o, FlushColour(o, no)) /\ FlushColour(o, no) \in Out
  BY ReflipFlushes DEF FlushCursor, FlushColour, Flushed

LEMMA ScheduleFlushes ==
  ASSUME NEW o \in Out
  PROVE  Flushed(o, ScheduleFrame(o)) /\ ScheduleFrame(o) \in Out
<1> DEFINE t == o.timer \/ ~(o.suspended \/ o.flip)
<1>1. t \in BOOLEAN /\ (o.timer => t)
  OBVIOUS
<1>2. CASE o.scheduled
  BY <1>2 DEF ScheduleFrame, Flushed
<1>3. CASE ~o.scheduled
  <2>1. ScheduleFrame(o) = [o EXCEPT !.scheduled = TRUE, !.timer = t]
    BY <1>3 DEF ScheduleFrame
  <2> HIDE DEF t
  <2> QED
    BY ZenonT(40), <1>1, <2>1 DEF Flushed, Out
<1> QED
  BY <1>2, <1>3

\* What no frame touches.
Aside(o, p) ==
    /\ p.lit = o.lit /\ p.events = o.events
    /\ p.suspended = o.suspended /\ p.modeset = o.modeset /\ p.stale = o.stale

\* The flip of a framebuffer that was drawn into.
Queues(o, p, fb) ==
    /\ o.queued = None /\ p.queued = fb /\ p.pending = fb /\ p.flip
    /\ p.image = [o.image EXCEPT ![fb] = scene]

\* What a renderer knows of its frames stays what it was.
GpuSame(o, p) == p.back = o.back /\ p.last = o.last /\ p.full = o.full

\* CpuDraw: nothing new, a frame, or a refusal.
CpuDrawn(o, p) ==
    /\ Aside(o, p) /\ GpuSame(o, p)
    /\ \/ /\ Flushed(o, p) /\ o.cpuValid /\ o.cpuLast = scene
       \/ /\ Queues(o, p, 3 - o.front)
          /\ p.front = 3 - o.front /\ p.cpuValid /\ p.cpuLast = scene
       \/ /\ p.queued = o.queued /\ p.pending = o.pending /\ p.flip = o.flip /\ p.timer
          /\ p.image = [o.image EXCEPT ![3 - o.front] = scene]
          /\ p.front = o.front /\ ~p.cpuValid

Ready(o) == o \in Out /\ ~o.flip /\ ~o.suspended /\ o.modeset

LEMMA CommittedIs ==
  ASSUME NEW o \in Out, Ready(o), NEW fb \in Fbs
  PROVE  LET p == Committed(o, fb)
         IN /\ p \in Out
            /\ Aside(o, p) /\ GpuSame(o, p)
            /\ p.image = o.image /\ p.front = o.front
            /\ p.queued = fb /\ p.pending = fb /\ p.flip
<1> PICK p : p = Committed(o, fb)
  OBVIOUS
<1>1. p = [o EXCEPT !.pending = fb, !.flip = TRUE, !.cursorDirty = FALSE,
                    !.colourDirty = FALSE, !.queued = fb, !.lit = o.lit,
                    !.events = o.events, !.modeset = TRUE]
  BY DEF Committed, Flip, Ready
<1>2. p \in Out
  BY ZenonT(40), <1>1 DEF Out
<1>3. /\ p.lit = o.lit /\ p.events = o.events /\ p.back = o.back /\ p.last = o.last
      /\ p.image = o.image /\ p.front = o.front /\ p.queued = fb /\ p.pending = fb
  BY <1>1 DEF Out
<1>4. p.suspended = o.suspended /\ p.modeset /\ p.stale = o.stale /\ p.full = o.full /\ p.flip
  BY <1>1 DEF Out
<1>5. p.modeset = o.modeset
  BY <1>2, <1>4 DEF Ready, Out
<1> QED
  BY <1>2, <1>3, <1>4, <1>5 DEF Aside, GpuSame

LEMMA CpuNotes ==
  ASSUME NEW o \in Out, NEW fb \in Dumb, scene \in Pictures
  PROVE  [o EXCEPT !.front = fb, !.cpuValid = TRUE, !.cpuLast = scene] \in Out
  BY DEF Out

LEMMA GpuNotes ==
  ASSUME NEW o \in Out, NEW target \in Targets, NEW due \in BOOLEAN, scene \in Pictures
  PROVE  [o EXCEPT !.back = target, !.last = scene, !.full = FALSE, !.owed = due,
                   !.cpuValid = FALSE] \in Out
  BY DEF Out

LEMMA CpuDraws ==
  ASSUME NEW o \in Out, Ready(o), NEW no, scene \in Pictures
  PROVE  CpuDrawn(o, CpuDraw(o, no)) /\ CpuDraw(o, no) \in Out
<1> PICK fb \in Dumb : fb = 3 - o.front
  BY DEF Out, Dumb
<1> PICK d : d = [o EXCEPT !.image[fb] = scene]
  OBVIOUS
<1> PICK p : p = CpuDraw(o, no)
  OBVIOUS
<1>1. d \in Out /\ d = [o EXCEPT !.image = [o.image EXCEPT ![fb] = scene]] /\ fb \in Fbs
  BY DEF Out, Fbs
<1>2. Ready(d)
  BY <1>1 DEF Ready, Out
<1>3. CASE o.cpuValid /\ o.cpuLast = scene
  BY <1>3 DEF CpuDraw, CpuDrawn, Unchanged, Aside, GpuSame, Flushed, Out
<1>4. CASE ~(o.cpuValid /\ o.cpuLast = scene) /\ Accepted(o, "pixels", no)
  <2> PICK c : c = Committed(d, fb)
    OBVIOUS
  <2> PICK e : e = [c EXCEPT !.front = fb, !.cpuValid = TRUE, !.cpuLast = scene]
    OBVIOUS
  <2>1. p = ScheduleFrame(e)
    BY <1>4 DEF CpuDraw, Ready
  <2>2. /\ c \in Out /\ Aside(d, c) /\ GpuSame(d, c)
        /\ c.image = d.image /\ c.queued = fb /\ c.pending = fb /\ c.flip
    BY <1>1, <1>2, CommittedIs
  <2>8. /\ Aside(o, d) /\ GpuSame(o, d) /\ d.image = [o.image EXCEPT ![fb] = scene]
    BY <1>1 DEF Aside, GpuSame, Out
  <2>3. o.queued = None
    BY <1>4 DEF Accepted, Taken, Ready
  <2>10. c \in Out
    BY <2>2
  <2>4. e \in Out
    BY <2>10, CpuNotes
  <2>5. /\ e.queued = fb /\ e.pending = fb /\ e.front = fb /\ e.cpuLast = scene
        /\ e.image = c.image /\ e.back = c.back /\ e.last = c.last
        /\ e.lit = c.lit /\ e.events = c.events
    BY <2>2 DEF Out
  <2>6. /\ e.flip /\ e.cpuValid /\ e.full = c.full
        /\ e.suspended = c.suspended /\ e.modeset = c.modeset /\ e.stale = c.stale
    BY <2>2 DEF Out
  <2>7. Flushed(e, p) /\ p \in Out
    BY <2>1, <2>4, ScheduleFlushes
  <2> QED
    <3>1. Aside(o, p) /\ GpuSame(o, p)
      BY <2>2, <2>5, <2>6, <2>7, <2>8 DEF Aside, GpuSame, Flushed
    <3>2. p.front = fb /\ p.cpuValid /\ p.cpuLast = scene
      BY <2>5, <2>6, <2>7 DEF Flushed
    <3>3. Queues(o, p, fb)
      BY <2>2, <2>3, <2>5, <2>6, <2>7, <2>8 DEF Queues, Flushed
    <3> QED
      BY <2>7, <3>1, <3>2, <3>3 DEF CpuDrawn
<1>5. CASE ~(o.cpuValid /\ o.cpuLast = scene) /\ ~Accepted(o, "pixels", no)
  <2>1. p = [d EXCEPT !.cpuValid = FALSE, !.timer = TRUE]
    BY <1>1, <1>5 DEF CpuDraw, Ready, Refused, Out
  <2>2. /\ p.queued = o.queued /\ p.pending = o.pending /\ p.front = o.front
        /\ p.image = [o.image EXCEPT ![fb] = scene] /\ p.back = o.back /\ p.last = o.last
        /\ p.lit = o.lit /\ p.events = o.events
    BY <1>1, <2>1 DEF Out
  <2>3. /\ p.flip = o.flip /\ ~p.cpuValid /\ p.timer /\ p.full = o.full
        /\ p.suspended = o.suspended /\ p.modeset = o.modeset /\ p.stale = o.stale
    BY <1>1, <2>1 DEF Out
  <2>4. p \in Out
    BY ZenonT(40), <1>1, <2>1 DEF Out
  <2> QED
    BY <2>2, <2>3, <2>4 DEF CpuDrawn, Aside, GpuSame
<1> QED
  BY <1>3, <1>4, <1>5

\* GpuDraw: nothing new, a frame, or a refusal that leaves it to the CPU.
GpuDrawn(o, p, no) ==
    \/ Flushed(o, p) /\ ~o.full /\ o.last = scene
    \/ /\ Aside(o, p) /\ Queues(o, p, o.back)
       /\ p.back = Other(o.back) /\ p.last = scene /\ ~p.full
       /\ p.front = o.front /\ ~p.cpuValid
    \/ /\ "frame" \in no \/ o.queued # None
       /\ \E d \in Out :
             /\ Flushed([o EXCEPT !.image[o.back] = scene], d) /\ d.timer /\ Ready(d)
             /\ CpuDrawn(d, p)

LEMMA GpuDraws ==
  ASSUME NEW o \in Out, Ready(o), NEW no, scene \in Pictures
  PROVE  GpuDrawn(o, GpuDraw(o, no), no) /\ GpuDraw(o, no) \in Out
<1> PICK d : d = [o EXCEPT !.image[o.back] = scene]
  OBVIOUS
<1> PICK p : p = GpuDraw(o, no)
  OBVIOUS
<1>1. o.back \in Targets /\ o.back \in Fbs /\ Other(o.back) \in Targets
  BY DEF Out, Fbs, Targets, Other
<1>2. d \in Out /\ d = [o EXCEPT !.image = [o.image EXCEPT ![o.back] = scene]]
  BY <1>1 DEF Out
<1>3. Ready(d)
  BY <1>2 DEF Ready, Out
<1>4. CASE ~(Damaged(o) \/ o.owed)
  BY <1>4 DEF GpuDraw, GpuDrawn, Unchanged, Flushed, Out, Damaged
<1>5. CASE (Damaged(o) \/ o.owed) /\ Accepted(o, "frame", no)
  <2> PICK c : c = Committed(d, o.back)
    OBVIOUS
  <2> PICK due \in BOOLEAN : due = Damaged(c)
    BY DEF Damaged, Out
  <2> PICK e : e = [c EXCEPT !.back = Other(c.back), !.last = scene, !.full = FALSE,
                             !.owed = due, !.cpuValid = FALSE]
    OBVIOUS
  <2>1. p = ScheduleFrame(e)
    BY <1>5 DEF GpuDraw, Shown
  <2>2. /\ c \in Out /\ Aside(d, c) /\ GpuSame(d, c) /\ c.front = d.front
        /\ c.image = d.image /\ c.queued = o.back /\ c.pending = o.back /\ c.flip
    BY <1>1, <1>2, <1>3, CommittedIs
  <2>9. /\ Aside(o, d) /\ GpuSame(o, d) /\ d.image = [o.image EXCEPT ![o.back] = scene]
        /\ d.front = o.front
    BY <1>2 DEF Aside, GpuSame, Out
  <2>3. o.queued = None
    BY <1>5 DEF Accepted, Taken, Ready
  <2>4. c.back = o.back
    BY <2>2, <2>9 DEF GpuSame
  <2>10. c \in Out
    BY <2>2
  <2>11. Other(c.back) \in Targets
    BY <1>1, <2>4
  <2>5. e \in Out
    BY <2>10, <2>11, GpuNotes
  <2>6. /\ e.queued = o.back /\ e.pending = o.back /\ e.front = c.front
        /\ e.image = c.image /\ e.back = Other(o.back)
        /\ e.last = scene /\ e.lit = c.lit /\ e.events = c.events
    BY <2>2, <2>4 DEF Out
  <2>7. /\ e.flip /\ ~e.cpuValid /\ ~e.full
        /\ e.suspended = c.suspended /\ e.modeset = c.modeset /\ e.stale = c.stale
    BY <2>2 DEF Out
  <2>8. Flushed(e, p) /\ p \in Out
    BY <2>1, <2>5, ScheduleFlushes
  <2> QED
    <3>1. Aside(o, p)
      BY <2>2, <2>6, <2>7, <2>8, <2>9 DEF Aside, Flushed
    <3>2. /\ p.back = Other(o.back) /\ p.last = scene /\ ~p.full
          /\ p.front = o.front /\ ~p.cpuValid
      BY <2>2, <2>6, <2>7, <2>8, <2>9 DEF Flushed
    <3>3. Queues(o, p, o.back)
      BY <2>2, <2>3, <2>6, <2>7, <2>8, <2>9 DEF Queues, Flushed
    <3> QED
      BY <2>8, <3>1, <3>2, <3>3 DEF GpuDrawn
<1>6. CASE (Damaged(o) \/ o.owed) /\ ~Accepted(o, "frame", no)
  <2> PICK r : r = Refused(d)
    OBVIOUS
  <2>1. p = CpuDraw(r, no)
    BY <1>6 DEF GpuDraw
  <2>2. r \in Out /\ Ready(r) /\ Flushed(d, r) /\ r.timer
    BY <1>2, <1>3 DEF Refused, Out, Ready, Flushed
  <2>3. "frame" \in no \/ o.queued # None
    BY <1>6 DEF Accepted, Taken
  <2> QED
    BY <2>1, <2>2, <2>3, CpuDraws DEF GpuDrawn
<1> QED
  BY <1>4, <1>5, <1>6

Ours == setting.uses \cap {"vt", "sprite"} = {}

\* What the output shows or is about to: the scene, unless something wakes it.
Showing(o) == Awake(o) \/ o.image[o.pending] = scene

ShowAt(o) ==
    /\ Ours => OnScreen(o)
    /\ Composed => OneFlip(o)
    /\ Steady => Knows(o) /\ Showing(o)

\* Only framebuffers that are off the screen were drawn into.
DrawsOff(o, p) ==
    \A fb \in Fbs : p.image[fb] \notin {0, o.image[fb]} => fb \notin {o.lit, o.queued}

LEMMA FlushShows ==
  ASSUME NEW o \in Out, NEW p \in Out, Flushed(o, p), ShowAt(o)
  PROVE  ShowAt(p)
<1>1. o.pending # None
  BY DEF Out, Fbs, Dumb, Targets, None
<1>2. ASSUME OnScreen(o) PROVE OnScreen(p)
  BY <1>2 DEF OnScreen, Flushed
<1>3. ASSUME OneFlip(o) PROVE OneFlip(p)
  BY <1>1, <1>3 DEF OneFlip, Flushed, Outstanding, Out
<1>4. ASSUME Knows(o) PROVE Knows(p)
  BY <1>4 DEF Knows, GpuKnows, CpuKnows, Flushed
<1>5. ASSUME Showing(o) PROVE Showing(p)
  BY <1>1, <1>5 DEF Showing, Awake, Pending, Flushed
<1> QED
  BY <1>2, <1>3, <1>4, <1>5 DEF ShowAt

\* The framebuffer that is drawn into next, by the CPU and by the GPU.
LEMMA Apart ==
  ASSUME NEW o \in Out
  PROVE  /\ 3 - o.front \in Dumb /\ 3 - o.front # o.front
         /\ o.back \in Targets /\ Other(o.back) \in Targets /\ Other(o.back) # o.back
         /\ Other(Other(o.back)) = o.back
         /\ Dumb \cap Targets = {} /\ o.front \in Dumb /\ o.pending \in Fbs
         /\ None \notin Fbs /\ DOMAIN o.image = Fbs /\ Fbs = Dumb \cup Targets
  BY DEF Out, Dumb, Targets, Other, Fbs, None

\* A frame of the CPU: what it writes is off the screen, and then on its way.
LEMMA CpuShows ==
  ASSUME NEW o \in Out, NEW p \in Out, Ready(o), CpuDrawn(o, p), scene \in Pictures,
         ~setting.gpu \/ ~Steady,
         Ours => OnScreen(o), Composed => OneFlip(o), Steady => Knows(o)
  PROVE  ShowAt(p) /\ (Composed => DrawsOff(o, p))
<1> PICK fb \in Dumb : fb = 3 - o.front
  BY Apart
<1>1. fb \in Fbs /\ fb # None /\ fb # o.front
  BY Apart
<1>2. Composed => Ours
  BY DEF Composed, Ours
<1>3. Composed => fb \notin {o.lit, o.queued}
  <2> SUFFICES ASSUME Composed PROVE fb \notin {o.lit, o.queued}
    OBVIOUS
  <2>1. o.queued = None
    BY DEF OneFlip, Outstanding, Ready, Out
  <2>2. o.lit = o.pending /\ fb # o.pending
    BY <1>1, <1>2, <2>1, Apart DEF OnScreen, OneFlip
  <2> QED
    BY <1>1, <2>1, <2>2
<1>4. ASSUME p.image = [o.image EXCEPT ![fb] = scene]
      PROVE  /\ Composed => DrawsOff(o, p)
             /\ p.image[fb] = scene
             /\ \A x \in Fbs \ {fb} : p.image[x] = o.image[x]
  BY <1>1, <1>3, <1>4, Apart DEF DrawsOff
<1>5. CASE Flushed(o, p) /\ o.cpuValid /\ o.cpuLast = scene
  <2>1. Steady => Showing(o)
    BY <1>5 DEF Knows, CpuKnows, Showing
  <2>2. ShowAt(o)
    BY <2>1 DEF ShowAt
  <2>3. DrawsOff(o, p)
    BY <1>5 DEF DrawsOff, Flushed
  <2> QED
    BY <1>5, <2>2, <2>3, FlushShows
<1>6. CASE /\ Queues(o, p, fb)
           /\ p.front = fb /\ p.cpuValid /\ p.cpuLast = scene
  <2>1. Ours => OnScreen(p)
    BY <1>1, <1>6 DEF OnScreen, Queues, Aside, CpuDrawn
  <2>2. Composed => OneFlip(p)
    BY <1>1, <1>6 DEF OneFlip, Queues, Outstanding, Ready, Aside, CpuDrawn, Out
  <2>3. Steady => Knows(p) /\ Showing(p)
    BY <1>1, <1>4, <1>6 DEF Knows, CpuKnows, Showing, Awake, Pending, Queues
  <2> QED
    BY <1>4, <1>6, <2>1, <2>2, <2>3 DEF ShowAt, Queues
<1>7. CASE /\ p.queued = o.queued /\ p.pending = o.pending /\ p.flip = o.flip /\ p.timer
           /\ p.image = [o.image EXCEPT ![fb] = scene]
           /\ p.front = o.front /\ ~p.cpuValid
  <2>1. Ours => OnScreen(p)
    BY <1>7 DEF OnScreen, Aside, CpuDrawn
  <2>2. Composed => OneFlip(p)
    BY <1>7 DEF OneFlip, Outstanding, Aside, CpuDrawn, GpuSame
  <2>3. Steady => Knows(p) /\ Showing(p)
    BY <1>7 DEF Knows, CpuKnows, Showing, Awake
  <2> QED
    BY <1>4, <1>7, <2>1, <2>2, <2>3 DEF ShowAt
<1> QED
  BY <1>5, <1>6, <1>7 DEF CpuDrawn

LEMMA GpuShows ==
  ASSUME NEW o \in Out, NEW p \in Out, Ready(o), NEW no, GpuDrawn(o, p, no), scene \in Pictures,
         setting.gpu, Steady => no = {},
         Ours => OnScreen(o), Composed => OneFlip(o), Steady => Knows(o)
  PROVE  ShowAt(p) /\ (Composed => DrawsOff(o, p))
<1>1. Composed => Ours
  BY DEF Composed, Ours
<1>2. Composed => o.back \notin {o.lit, o.queued} /\ o.queued = None
  <2> SUFFICES ASSUME Composed PROVE o.back \notin {o.lit, o.queued} /\ o.queued = None
    OBVIOUS
  <2>1. o.queued = None
    BY DEF OneFlip, Outstanding, Ready, Out
  <2>2. o.lit = o.pending /\ o.back # o.pending
    BY <1>1, <2>1, Apart DEF OnScreen, OneFlip
  <2> QED
    BY <2>1, <2>2, Apart
<1>3. CASE Flushed(o, p) /\ ~o.full /\ o.last = scene
  <2>1. Steady => Showing(o)
    BY <1>3 DEF Knows, GpuKnows, Showing
  <2>2. ShowAt(o)
    BY <2>1 DEF ShowAt
  <2>3. DrawsOff(o, p)
    BY <1>3 DEF DrawsOff, Flushed
  <2> QED
    BY <1>3, <2>2, <2>3, FlushShows
<1>4. CASE /\ Aside(o, p) /\ Queues(o, p, o.back)
           /\ p.back = Other(o.back) /\ p.last = scene /\ ~p.full
           /\ p.front = o.front /\ ~p.cpuValid
  <2>1. Ours => OnScreen(p)
    BY <1>4, Apart DEF OnScreen, Queues, Aside
  <2>2. Composed => OneFlip(p)
    BY <1>4, Apart DEF OneFlip, Queues, Outstanding, Ready, Aside, Out
  <2>3. p.image[o.back] = scene
    BY <1>4, Apart DEF Queues
  <2>4. Steady => Knows(p) /\ Showing(p)
    BY <1>4, <2>3, Apart DEF Knows, GpuKnows, Showing, Queues
  <2>5. Composed => DrawsOff(o, p)
    BY <1>2, <1>4, Apart DEF DrawsOff, Queues
  <2> QED
    BY <2>1, <2>2, <2>4, <2>5 DEF ShowAt
<1>5. CASE /\ "frame" \in no \/ o.queued # None
           /\ \E d \in Out :
                 /\ Flushed([o EXCEPT !.image[o.back] = scene], d) /\ d.timer /\ Ready(d)
                 /\ CpuDrawn(d, p)
  <2> PICK d \in Out :
         /\ Flushed([o EXCEPT !.image[o.back] = scene], d) /\ d.timer /\ Ready(d)
         /\ CpuDrawn(d, p)
    BY <1>5
  <2> PICK w \in Out : w = [o EXCEPT !.image[o.back] = scene]
    BY Apart DEF Out
  <2>1. /\ w.image = [o.image EXCEPT ![o.back] = scene]
        /\ w.back = o.back /\ w.last = o.last /\ w.front = o.front
        /\ w.pending = o.pending /\ w.queued = o.queued /\ w.lit = o.lit /\ w.events = o.events
    BY DEF Out
  <2>2. /\ w.flip = o.flip /\ w.full = o.full /\ w.cpuValid = o.cpuValid
        /\ w.suspended = o.suspended /\ w.modeset = o.modeset /\ w.stale = o.stale
    BY DEF Out
  <2>3. Ours => OnScreen(w)
    BY <2>1, <2>2 DEF OnScreen
  <2>4. Composed => OneFlip(w)
    BY <2>1, <2>2 DEF OneFlip, Outstanding
  <2>5. /\ d.queued = o.queued /\ d.pending = o.pending /\ d.lit = o.lit
        /\ d.front = o.front /\ d.back = o.back /\ d.image = w.image /\ d.flip = o.flip
    BY <2>1, <2>2 DEF Flushed, Ready
  <2>6. Ours => OnScreen(d)
    BY <2>1, <2>2, <2>3, <2>5 DEF OnScreen, Flushed
  <2>7. Composed => OneFlip(d)
    BY <2>1, <2>2, <2>4, <2>5 DEF OneFlip, Outstanding, Flushed
  <2>8. ASSUME ~Steady
        PROVE  ShowAt(p) /\ (Composed => DrawsOff(o, p))
    <3>1. ShowAt(p) /\ (Composed => DrawsOff(d, p))
      BY <2>6, <2>7, <2>8, CpuShows
    <3>2. ASSUME Composed PROVE DrawsOff(o, p)
      BY <1>2, <2>1, <2>5, <3>1, <3>2, Apart DEF DrawsOff
    <3> QED
      BY <3>1, <3>2
  <2>9. ASSUME Steady
        PROVE  ShowAt(p) /\ (Composed => DrawsOff(o, p))
    <3>1. o.queued # None /\ ~Composed
      BY <1>2, <1>5, <2>9
    <3>2. Ours
      BY <2>9 DEF Steady, Ours
    <3>3. ~d.cpuValid /\ d.last = o.last /\ (d.full <=> o.full)
      BY <2>1, <2>2, <2>9 DEF Knows, GpuKnows, Flushed
    <3>4. /\ p.queued = d.queued /\ p.pending = d.pending /\ p.timer /\ ~p.cpuValid
          /\ p.image = [d.image EXCEPT ![3 - d.front] = scene]
      BY <2>5, <3>1, <3>3 DEF CpuDrawn, Queues
    <3>5. OnScreen(p)
      BY <2>6, <3>2, <3>4 DEF OnScreen, CpuDrawn, Aside
    <3>6. ASSUME ~p.full
          PROVE  p.pending = Other(p.back) /\ p.image[p.pending] = p.last
      <4>1. ~o.full /\ p.back = o.back /\ p.last = o.last /\ p.pending = o.pending
        BY <2>5, <3>3, <3>4, <3>6 DEF CpuDrawn, GpuSame
      <4>2. o.pending = Other(o.back) /\ o.image[o.pending] = o.last
        BY <2>9, <4>1 DEF Knows, GpuKnows
      <4>3. p.image[o.pending] = o.image[o.pending]
        BY <2>1, <2>5, <3>4, <4>2, Apart
      <4> QED
        BY <4>1, <4>2, <4>3
    <3> QED
      BY <3>1, <3>4, <3>5, <3>6 DEF ShowAt, Knows, GpuKnows, Showing, Awake
  <2> QED
    BY <2>8, <2>9
<1> QED
  BY <1>3, <1>4, <1>5 DEF GpuDrawn

LEMMA Listed ==
  ASSUME NEW o \in Out
  PROVE  [o EXCEPT !.listed = TRUE] \in Out /\ [o EXCEPT !.scheduled = FALSE] \in Out
         /\ [o EXCEPT !.timer = FALSE] \in Out
  BY DEF Out

LEMMA Reported ==
  ASSUME NEW o \in Out, NEW n \in 0..MaxEvents, NEW w \in BOOLEAN
  PROVE  [o EXCEPT !.events = n, !.flip = FALSE, !.waiting = w] \in Out
  BY DEF Out

\* A frame event, when no flip is under way and the cursor plane is up to date.
LEMMA EmitShows ==
  ASSUME NEW s \in Out, Ready(s), ~s.stale, NEW no \in Refusals, scene \in Pictures,
         Ours => OnScreen(s), Composed => OneFlip(s), Steady => Knows(s),
         NEW o, s = [o EXCEPT !.scheduled = FALSE]
  PROVE  LET e == EmitFrame(o, no) IN e \in Out /\ ShowAt(e) /\ (Composed => DrawsOff(s, e))
<1> PICK l \in Out : l = [s EXCEPT !.listed = TRUE]
  BY Listed
<1> PICK d : d = Draw(s, no)
  OBVIOUS
<1> PICK c : c = FlushCursor(d, no)
  OBVIOUS
<1> PICK e : e = FlushColour(c, no)
  OBVIOUS
<1>1. e = EmitFrame(o, no)
  BY DEF EmitFrame
<1>2. d = IF setting.gpu THEN GpuDraw(l, no) ELSE CpuDraw(l, no)
  BY DEF Draw, CursorPlane
<1>3. Flushed(s, l) /\ l.image = s.image /\ l.lit = s.lit /\ l.queued = s.queued
  BY DEF Flushed, Out
<1>4. Ready(l) /\ l.flip = s.flip
  BY DEF Ready, Out
<1>5. Ours => OnScreen(l)
  BY <1>3, <1>4 DEF OnScreen, Flushed
<1>6. Composed => OneFlip(l)
  BY <1>3, <1>4 DEF OneFlip, Flushed, Outstanding
<1>7. Steady => Knows(l)
  BY <1>3 DEF Knows, GpuKnows, CpuKnows, Flushed
<1>8. d \in Out /\ ShowAt(d) /\ (Composed => DrawsOff(l, d))
  <2>1. CASE setting.gpu
    <3>1. Steady => no = {}
      BY <2>1 DEF Steady, Refusals
    <3> QED
      BY <1>2, <1>4, <1>5, <1>6, <1>7, <2>1, <3>1, GpuDraws, GpuShows
  <2>2. CASE ~setting.gpu
    BY <1>2, <1>4, <1>5, <1>6, <1>7, <2>2, CpuDraws, CpuShows
  <2> QED
    BY <2>1, <2>2
<1>9. c \in Out /\ Flushed(d, c) /\ ShowAt(c)
  BY <1>8, FlushFlushes, FlushShows
<1>10. e \in Out /\ Flushed(c, e) /\ ShowAt(e)
  BY <1>9, FlushFlushes, FlushShows
<1>11. Composed => DrawsOff(s, e)
  <2>1. e.image = d.image
    BY <1>9, <1>10 DEF Flushed
  <2> QED
    BY <1>3, <1>8, <2>1 DEF DrawsOff
<1> QED
  BY <1>1, <1>10, <1>11

-----------------------------------------------------------------------------
(* Every action keeps what the screen shows *)

ShowInv == ShowAt(out)

DrawnOff == Composed => DrawsOff(out, out')

\* Handlers that draw nothing.
LEMMA QuietShows ==
  ASSUME IInv, ShowInv, out' \in Out, Flushed(out, out'), UNCHANGED setting,
         scene' = scene \/ Awake(out')
  PROVE  ShowInv' /\ DrawnOff
<1>1. ShowAt(out')
  BY FlushShows DEF IInv, Sound, ShowInv
<1>2. ShowInv'
  BY <1>1 DEF ShowInv, ShowAt, Ours, Composed, Steady, OnScreen, OneFlip, Outstanding, Knows,
              GpuKnows, CpuKnows, Showing, Awake, Pending
<1>3. DrawsOff(out, out')
  BY DEF DrawsOff, Flushed
<1> QED
  BY <1>2, <1>3 DEF DrawnOff

LEMMA PageFlipShows ==
  ASSUME IInv, ShowInv, PageFlip
  PROVE  ShowInv' /\ DrawnOff
<1> PICK no \in Refusals :
           out' = EmitFrame([out EXCEPT !.events = @ - 1, !.flip = FALSE,
                                        !.waiting = @ /\ ~out.listed], no)
  BY DEF PageFlip
<1> PICK w \in BOOLEAN : w = (out.waiting /\ ~out.listed)
  OBVIOUS
<1> PICK o : o = [out EXCEPT !.events = out.events - 1, !.flip = FALSE, !.waiting = w]
  OBVIOUS
<1> PICK s : s = [o EXCEPT !.scheduled = FALSE]
  OBVIOUS
<1>1. out \in Out /\ out.events \in 1..MaxEvents /\ out.events - 1 \in 0..MaxEvents
  BY OutputAssumption DEF PageFlip, IInv, Sound, Out
<1>2. o \in Out
  BY <1>1, Reported
<1>3. s \in Out
  BY <1>2, Listed
<1>4. /\ s.events = out.events - 1 /\ s.queued = out.queued /\ s.lit = out.lit
      /\ s.pending = out.pending /\ s.image = out.image /\ s.front = out.front
      /\ s.back = out.back /\ s.last = out.last /\ s.cpuLast = out.cpuLast
  BY <1>1 DEF Out
<1>5. /\ s.suspended = out.suspended /\ s.modeset = out.modeset /\ s.stale = out.stale
      /\ s.full = out.full /\ s.cpuValid = out.cpuValid /\ ~s.flip
  BY <1>1 DEF Out
<1>6. out' = EmitFrame(o, no)
  OBVIOUS
<1>7. scene \in Pictures /\ UNCHANGED <<setting, scene>>
  BY DEF IInv, Pictures, PageFlip
<1>8. CASE Ours
  <2>1. OnScreen(s) /\ Ready(s) /\ ~s.stale
    BY <1>3, <1>4, <1>5, <1>8 DEF OnScreen, ShowInv, ShowAt, Ready
  <2>2. Composed => OneFlip(s)
    BY <1>1, <1>4, <1>5 DEF OneFlip, ShowInv, ShowAt, Outstanding, Out
  <2>3. Steady => Knows(s)
    BY <1>4, <1>5 DEF ShowInv, ShowAt, Knows, GpuKnows, CpuKnows
  <2>4. ShowAt(out') /\ (Composed => DrawsOff(s, out'))
    BY <1>3, <1>6, <1>7, <2>1, <2>2, <2>3, EmitShows
  <2>5. DrawnOff
    BY <1>4, <2>4 DEF DrawnOff, DrawsOff
  <2> QED
    BY <1>7, <2>4, <2>5 DEF ShowInv, ShowAt, Ours, Composed, Steady, OnScreen, OneFlip,
          Outstanding, Knows, GpuKnows, CpuKnows, Showing, Awake, Pending
<1>9. CASE ~Ours
  BY <1>7, <1>9 DEF Ours, ShowInv, ShowAt, DrawnOff, Composed, Steady
<1> QED
  BY <1>8, <1>9

LEMMA TimerFiresShows ==
  ASSUME IInv, ShowInv, TimerFires
  PROVE  ShowInv' /\ DrawnOff
<1> PICK o : o = [out EXCEPT !.timer = FALSE]
  OBVIOUS
<1> PICK s : s = [o EXCEPT !.scheduled = FALSE]
  OBVIOUS
<1>1. out \in Out /\ o \in Out
  BY Listed DEF IInv, Sound
<1>2. s \in Out
  BY <1>1, Listed
<1>3. /\ s.events = out.events /\ s.queued = out.queued /\ s.lit = out.lit
      /\ s.pending = out.pending /\ s.image = out.image /\ s.front = out.front
      /\ s.back = out.back /\ s.last = out.last /\ s.cpuLast = out.cpuLast
  BY <1>1 DEF Out
<1>4. /\ s.suspended = out.suspended /\ s.modeset = out.modeset /\ s.stale = out.stale
      /\ s.full = out.full /\ s.cpuValid = out.cpuValid /\ s.flip = out.flip
  BY <1>1 DEF Out
<1>5. /\ o.events = out.events /\ o.queued = out.queued /\ o.lit = out.lit
      /\ o.pending = out.pending /\ o.image = out.image /\ o.front = out.front
      /\ o.back = out.back /\ o.last = out.last /\ o.cpuLast = out.cpuLast
  BY <1>1 DEF Out
<1>6. /\ o.suspended = out.suspended /\ o.modeset = out.modeset /\ o.stale = out.stale
      /\ o.full = out.full /\ o.cpuValid = out.cpuValid /\ o.flip = out.flip
  BY <1>1 DEF Out
<1>7. scene \in Pictures /\ UNCHANGED <<setting, scene>>
  BY DEF IInv, Pictures, TimerFires
<1>8. CASE ~Ours
  BY <1>7, <1>8 DEF Ours, ShowInv, ShowAt, DrawnOff, Composed, Steady
<1>9. CASE Ours /\ out.flip
  <2>1. out' = o
    BY <1>6, <1>9 DEF TimerFires
  <2>2. Pending(out)
    BY <1>9 DEF IInv, Recovers, Ours, Lively, ShowInv, ShowAt, OnScreen
  <2>3. Awake(o)
    BY <1>5, <2>2 DEF Awake, Pending
  <2>4. DrawnOff
    BY <1>5, <2>1 DEF DrawnOff, DrawsOff
  <2> QED
    BY <1>5, <1>6, <1>7, <2>1, <2>3, <2>4 DEF ShowInv, ShowAt, Ours, Composed, Steady, OnScreen,
          OneFlip, Outstanding, Knows, GpuKnows, CpuKnows, Showing, Awake, Pending
<1>10. CASE Ours /\ ~out.flip
  <2>1. OnScreen(s) /\ Ready(s) /\ ~s.stale
    BY <1>2, <1>3, <1>4, <1>10 DEF OnScreen, ShowInv, ShowAt, Ready
  <2>2. Composed => OneFlip(s)
    BY <1>1, <1>3, <1>4 DEF OneFlip, ShowInv, ShowAt, Outstanding, Out
  <2>3. Steady => Knows(s)
    BY <1>3, <1>4 DEF ShowInv, ShowAt, Knows, GpuKnows, CpuKnows
  <2>4. PICK no \in Refusals : out' = EmitFrame(o, no)
    BY <1>6, <1>10, <2>1 DEF TimerFires, OnScreen, ShowInv, ShowAt
  <2>5. ShowAt(out') /\ (Composed => DrawsOff(s, out'))
    BY <1>2, <1>7, <2>1, <2>2, <2>3, <2>4, EmitShows
  <2>6. DrawnOff
    BY <1>3, <2>5 DEF DrawnOff, DrawsOff
  <2> QED
    BY <1>7, <2>5, <2>6 DEF ShowInv, ShowAt, Ours, Composed, Steady, OnScreen, OneFlip,
          Outstanding, Knows, GpuKnows, CpuKnows, Showing, Awake, Pending
<1> QED
  BY <1>8, <1>9, <1>10

\* A scene that changed, or a client that waits: a frame is under way or asked for.
LEMMA AskedShows ==
  ASSUME IInv, ShowInv, out' = ScheduleFrame([out EXCEPT !.waiting = TRUE]), UNCHANGED setting
  PROVE  ShowInv' /\ DrawnOff
<1> PICK o : o = [out EXCEPT !.waiting = TRUE]
  OBVIOUS
<1>1. o \in Out
  BY DEF IInv, Sound, Out
<1>2. Flushed(out, o) /\ o.scheduled = out.scheduled /\ o.flip = out.flip
  BY DEF IInv, Sound, Out, Flushed
<1>3. out \in Out /\ out.pending # None /\ out' \in Out /\ Flushed(out, out')
  BY <1>1, <1>2, Apart, ScheduleFlushes, FlushedTrans DEF IInv, Sound
<1>4. CASE Steady
  <2>1. Lively(out) /\ ~out.suspended
    BY <1>4 DEF IInv, Steady, Recovers
  <2>2. CASE out.scheduled
    <3>1. out' = o
      BY <1>2, <2>2 DEF ScheduleFrame
    <3> QED
      BY <1>2, <1>3, <2>1, <2>2, <3>1, QuietShows DEF Lively, Awake, Pending, Flushed
  <2>3. CASE ~out.scheduled
    <3>1. out'.timer \/ out.flip
      BY <1>1, <1>2, <2>1, <2>3 DEF ScheduleFrame, Flushed, Out
    <3>2. Awake(out')
      BY <1>3, <2>1, <3>1 DEF Lively, Awake, Pending, Flushed
    <3> QED
      BY <1>3, <3>2, QuietShows
  <2> QED
    BY <2>2, <2>3
<1>5. CASE ~Steady
  <2>1. ShowAt(out')
    BY <1>3, FlushShows DEF ShowInv
  <2>2. ShowInv'
    BY <1>5, <2>1 DEF ShowInv, ShowAt, Ours, Composed, Steady, OnScreen, OneFlip, Outstanding
  <2>3. DrawsOff(out, out')
    BY <1>3 DEF DrawsOff, Flushed
  <2> QED
    BY <2>2, <2>3 DEF DrawnOff
<1> QED
  BY <1>4, <1>5

LEMMA PointerMovesShows ==
  ASSUME IInv, ShowInv, PointerMoves
  PROVE  ShowInv' /\ DrawnOff
<1> PICK no \in Refusals : out' = CommitCursor(out, no)
  BY DEF PointerMoves
<1> PICK o : o = [out EXCEPT !.cursorDirty = TRUE]
  OBVIOUS
<1>1. out \in Out /\ o \in Out /\ Flushed(out, o) /\ Flushed(out, out)
  BY DEF IInv, Sound, Out, Flushed
<1>2. out' \in Out /\ Flushed(out, out')
  <2>1. FlushCursor(o, no) \in Out /\ Flushed(o, FlushCursor(o, no))
    BY <1>1, FlushFlushes
  <2>2. out.pending # None
    BY <1>1, Apart
  <2>3. out' = out \/ out' = FlushCursor(o, no)
    BY DEF CommitCursor
  <2> QED
    BY <1>1, <2>1, <2>2, <2>3, FlushedTrans
<1> QED
  BY <1>2, QuietShows DEF PointerMoves

LEMMA ColourChangesShows ==
  ASSUME IInv, ShowInv, ColourChanges
  PROVE  ShowInv' /\ DrawnOff
<1> PICK no \in Refusals : out' = FlushColour([out EXCEPT !.colourDirty = TRUE], no)
  BY DEF ColourChanges
<1> PICK o : o = [out EXCEPT !.colourDirty = TRUE]
  OBVIOUS
<1>1. out \in Out /\ o \in Out /\ Flushed(out, o)
  BY DEF IInv, Sound, Out, Flushed
<1>2. out' \in Out /\ Flushed(out, out')
  <2>1. FlushColour(o, no) \in Out /\ Flushed(o, FlushColour(o, no))
    BY <1>1, FlushFlushes
  <2>2. out.pending # None
    BY <1>1, Apart
  <2> QED
    BY <1>1, <2>1, <2>2, FlushedTrans
<1> QED
  BY <1>2, QuietShows DEF ColourChanges

LEMMA Relit ==
  ASSUME NEW o \in Out, NEW n \in 0..MaxEvents
  PROVE  [o EXCEPT !.pending = 1, !.flip = TRUE, !.cursorDirty = FALSE, !.colourDirty = FALSE,
                   !.queued = None, !.lit = 1, !.events = n] \in Out
<1>1. 1 \in Fbs /\ None \in Fbs \cup {None} /\ 1 \in Fbs \cup {Elsewhere}
  BY DEF Fbs, Dumb
<1> QED
  BY <1>1 DEF Out

LEMMA Restarted ==
  ASSUME NEW o \in Out, NEW i \in [Fbs -> Pictures], NEW listed \in BOOLEAN
  PROVE  [o EXCEPT !.modeset = TRUE, !.front = 1, !.image = i, !.back = 3, !.last = 0,
                   !.full = TRUE, !.owed = FALSE, !.cpuValid = FALSE, !.listed = listed] \in Out
<1>1. 1 \in Dumb /\ 3 \in Targets /\ 0 \in Pictures
  BY OutputAssumption DEF Dumb, Targets, Pictures
<1> QED
  BY <1>1 DEF Out

\* What the screens of another session, and unannounced cursors, show is not claimed.
LEMMA OtherSystem ==
  ASSUME ~Ours, UNCHANGED setting
  PROVE  ShowInv' /\ DrawnOff
  BY DEF Ours, ShowInv, ShowAt, DrawnOff, Composed, Steady

LEMMA SetModeShows ==
  ASSUME IInv, ShowInv, SetMode
  PROVE  ShowInv' /\ DrawnOff
<1> PICK o : o = [out EXCEPT !.flip = FALSE]
  OBVIOUS
<1>1. UNCHANGED <<setting, scene>> /\ ~Composed /\ out \in Out
  BY DEF SetMode, Composed, IInv, Sound
<1>2. o \in Out /\ o.modeset = out.modeset /\ o.suspended = out.suspended /\ o.stale = out.stale
      /\ o.full = out.full /\ o.cpuValid = out.cpuValid /\ o.timer = out.timer
  BY <1>1 DEF Out
<1>3. /\ o.events = out.events /\ o.queued = out.queued /\ o.lit = out.lit
      /\ o.pending = out.pending /\ o.image = out.image /\ o.front = out.front
      /\ o.back = out.back /\ o.last = out.last /\ o.cpuLast = out.cpuLast
  BY <1>1 DEF Out
<1>4. PICK no \in Refusals :
             out' = IF ~Taken(o, "mode", TRUE, no) THEN o
                    ELSE ScheduleFrame(
                        [Flip(o, 1, TRUE) EXCEPT
                            !.modeset = TRUE, !.front = 1, !.image = [fb \in Fbs |-> 0],
                            !.back = 3, !.last = 0, !.full = TRUE, !.owed = FALSE,
                            !.cpuValid = FALSE, !.listed = @ /\ ~setting.gpu])
  BY DEF SetMode
<1>5. CASE ~Ours
  BY <1>1, <1>5, OtherSystem
<1>6. CASE Ours /\ out' = o
  BY <1>1, <1>2, <1>3, <1>6 DEF DrawnOff, ShowInv, ShowAt, Ours, Composed, Steady, OnScreen,
          Knows, GpuKnows, CpuKnows, Showing, Awake, Pending
<1>7. CASE Ours /\ Taken(o, "mode", TRUE, no)
  <2> PICK n \in 0..MaxEvents : n = IF out.queued = None THEN out.events + 1 ELSE out.events + 2
    <3>1. out.events \in Nat /\ out.events + 2 \in 0..MaxEvents /\ out.events + 1 \in 0..MaxEvents
      BY <1>1, OutputAssumption DEF SetMode, Out
    <3> QED
      BY <3>1
  <2> PICK i : i = [fb \in Fbs |-> 0]
    OBVIOUS
  <2>15. i \in [Fbs -> Pictures]
    <3>1. 0 \in Pictures
      BY OutputAssumption DEF Pictures
    <3> QED
      BY <3>1
  <2> PICK listed \in BOOLEAN : listed = (o.listed /\ ~setting.gpu)
    OBVIOUS
  <2> PICK f : f = Flip(o, 1, TRUE)
    OBVIOUS
  <2>1. f = [o EXCEPT !.pending = 1, !.flip = TRUE, !.cursorDirty = FALSE,
                      !.colourDirty = FALSE, !.queued = None, !.lit = 1, !.events = n]
    BY <1>2, <1>3 DEF Flip, Out
  <2>2. 1 \in Fbs /\ 1 \in Dumb /\ 3 \in Targets /\ 0 \in Pictures /\ None \in Fbs \cup {None}
    BY OutputAssumption DEF Fbs, Dumb, Targets, Pictures
  <2>3. f \in Out
    <3>1. o \in Out
      BY <1>2
    <3>2. [o EXCEPT !.pending = 1, !.flip = TRUE, !.cursorDirty = FALSE,
                    !.colourDirty = FALSE, !.queued = None, !.lit = 1, !.events = n] \in Out
      BY <3>1, Relit
    <3> QED
      BY <2>1, <3>2
  <2>4. /\ f.pending = 1 /\ f.queued = None /\ f.lit = 1 /\ f.events = n /\ f.listed = o.listed
    BY <1>2, <2>1, <2>2 DEF Out
  <2>5. f.suspended = o.suspended /\ f.stale = o.stale
    BY <1>2, <2>1, <2>2 DEF Out
  <2> PICK g : g = [f EXCEPT !.modeset = TRUE, !.front = 1, !.image = i,
                            !.back = 3, !.last = 0, !.full = TRUE, !.owed = FALSE,
                            !.cpuValid = FALSE, !.listed = listed]
    OBVIOUS
  <2>6. g \in Out
    BY <2>3, <2>15, Restarted
  <2>7. /\ g.pending = 1 /\ g.queued = None /\ g.lit = 1 /\ g.events = n
        /\ g.suspended = f.suspended /\ g.stale = f.stale
    BY <2>2, <2>3, <2>4 DEF Out
  <2>8. g.modeset /\ g.full /\ ~g.cpuValid
    BY <2>3 DEF Out
  <2>9. out' = ScheduleFrame(g)
    BY <1>4, <1>7, <2>4
  <2>10. out' \in Out /\ Flushed(g, out')
    BY <2>6, <2>9, ScheduleFlushes
  <2>11. n > 0
    BY <1>1 DEF Out
  <2>12. OnScreen(g)
    BY <1>2, <1>7, <2>5, <2>7, <2>8 DEF OnScreen, ShowInv, ShowAt
  <2>13. Knows(g) /\ Showing(g)
    BY <2>7, <2>8, <2>11 DEF Knows, GpuKnows, CpuKnows, Showing, Awake, Pending
  <2>14. ShowAt(out')
    BY <1>1, <2>6, <2>10, <2>12, <2>13, FlushShows DEF ShowAt
  <2> QED
    BY <1>1, <2>14 DEF DrawnOff, ShowInv, ShowAt, Ours, Composed, Steady, OnScreen,
          Knows, GpuKnows, CpuKnows, Showing, Awake, Pending
<1> QED
  BY <1>4, <1>5, <1>6, <1>7

LEMMA VblankShows ==
  ASSUME IInv, ShowInv, Vblank
  PROVE  ShowInv' /\ DrawnOff
<1>1. out \in Out /\ UNCHANGED <<setting, scene>> /\ out.queued # None
  BY DEF IInv, Sound, Vblank
<1>2. /\ out'.events = out.events + 1 /\ out'.queued = None /\ out'.lit = out.queued
      /\ out'.pending = out.pending /\ out'.image = out.image /\ out'.front = out.front
      /\ out'.back = out.back /\ out'.last = out.last /\ out'.cpuLast = out.cpuLast
  BY <1>1 DEF Out, Vblank
<1>3. /\ out'.suspended = out.suspended /\ out'.modeset = out.modeset /\ out'.stale = out.stale
      /\ out'.full = out.full /\ out'.cpuValid = out.cpuValid /\ out'.flip = out.flip
  BY <1>1 DEF Out, Vblank
<1>4. out.events \in Nat
  BY <1>1 DEF Out
<1>5. ASSUME OnScreen(out) PROVE OnScreen(out')
  BY <1>1, <1>2, <1>3, <1>5 DEF OnScreen
<1>6. ASSUME OneFlip(out) PROVE OneFlip(out')
  BY <1>1, <1>2, <1>3, <1>6 DEF OneFlip, Outstanding
<1>7. ASSUME Knows(out) PROVE Knows(out')
  BY <1>2, <1>3, <1>7 DEF Knows, GpuKnows, CpuKnows
<1>8. Showing(out')
  BY <1>2, <1>4 DEF Showing, Awake, Pending
<1>9. ShowAt(out')
  BY <1>5, <1>6, <1>7, <1>8 DEF ShowAt, ShowInv
<1>10. ShowInv'
  BY <1>1, <1>9 DEF ShowInv, ShowAt, Ours, Composed, Steady, OnScreen, OneFlip, Outstanding,
          Knows, GpuKnows, CpuKnows, Showing, Awake, Pending
<1> QED
  BY <1>2, <1>10 DEF DrawnOff, DrawsOff

LEMMA StepShows ==
  ASSUME IInv, ShowInv, [Next]_vars
  PROVE  ShowInv' /\ DrawnOff
<1>1. CASE PageFlip \/ TimerFires \/ PointerMoves \/ ColourChanges \/ SetMode \/ Vblank
  BY <1>1, PageFlipShows, TimerFiresShows, PointerMovesShows, ColourChangesShows, SetModeShows,
     VblankShows
<1>2. CASE SceneChanges \/ ClientAsks
  BY <1>2, AskedShows DEF SceneChanges, ClientAsks
<1>3. CASE SpriteChanges
  BY <1>3, OtherSystem DEF SpriteChanges, Ours
<1>4. CASE Pause
  BY <1>4, OtherSystem DEF Pause, Ours
<1>5. CASE Resume
  BY <1>5, OtherSystem DEF Resume, Ours, IInv
<1>6. CASE UNCHANGED vars
  BY <1>6 DEF vars, ShowInv, ShowAt, Ours, Composed, Steady, OnScreen, OneFlip, Outstanding,
          Knows, GpuKnows, CpuKnows, Showing, Awake, Pending, DrawnOff, DrawsOff
<1> QED
  BY <1>1, <1>2, <1>3, <1>4, <1>5, <1>6 DEF Next

LEMMA InitShows == Init => ShowInv
<1> SUFFICES ASSUME Init PROVE ShowInv
  OBVIOUS
<1>1. OnScreen(out) /\ OneFlip(out) /\ Knows(out) /\ Showing(out)
  BY DEF Init, OnScreen, OneFlip, Outstanding, Knows, GpuKnows, CpuKnows, Showing, Awake,
         Pending, None
<1> QED
  BY <1>1 DEF ShowInv, ShowAt

LEMMA ShowInvHolds == Spec => []ShowInv
<1>1. IInv /\ ShowInv /\ [Next]_vars => ShowInv'
  BY StepShows
<1> QED
  BY <1>1, InitShows, Invariance, PTL DEF Spec

-----------------------------------------------------------------------------
\* An output that went quiet shows the scene: what was committed last is on screen,
\* and no handler counted a frame as shown that it had not drawn.
THEOREM QuietShowsScene == Spec => []IdleShowsScene
<1>1. IInv /\ ShowInv => IdleShowsScene
  <2> SUFFICES ASSUME IInv, ShowInv, Steady, Quiet PROVE UpToDate
    BY DEF IdleShowsScene, IdleShowsSceneAlways
  <2>1. Ours
    BY DEF Steady, Ours
  <2>2. out.lit = out.pending /\ out.image[out.pending] = scene
    BY <2>1 DEF ShowInv, ShowAt, OnScreen, Quiet, Showing, Awake, Pending
  <2> QED
    BY <2>2, Apart DEF UpToDate, IInv, Sound
<1> QED
  BY <1>1, ShowInvHolds, Invariance, PTL

\* No frame is drawn into the framebuffer on screen, nor into the one that is
\* queued, by the GPU or by the CPU, whatever the kernel refuses.
THEOREM DrawsOffScreen == Spec => DrawnOffScreen
<1>1. IInv /\ ShowInv /\ [Next]_vars =>
        [Composed => \A fb \in Fbs : out'.image[fb] \notin {0, out.image[fb]} =>
                                        fb \notin {out.lit, out.queued}]_vars
  BY StepShows DEF DrawnOff, DrawsOff
<1> QED
  BY <1>1, ShowInvHolds, Invariance, PTL DEF Spec, DrawnOffScreen
=============================================================================
