---------------------------- MODULE ModelFrames ----------------------------
(***************************************************************************)
(* The two sides of a comparison of 3D models.  A frame of a side is       *)
(* rendered when it is painted while its camera, its resolution or its     *)
(* pose differ from the frame it shows.  The rendering lane runs one job,  *)
(* and keeps one more that the next job replaces.  Cameras may be linked;  *)
(* animations run on one clock.                                            *)
(***************************************************************************)
EXTENDS Naturals, FiniteSets, FiniteSetsExt

CONSTANTS
    First, Second,  \* the sides of the comparison
    Views,          \* cameras with solid or wireframe faces
    Clips,          \* Clips[d], the durations of its clips; 0 is the default pose
    Draggable,      \* the sides that a pointer may drag
    LosesButton,    \* may the release of the button be missed?
    MaxChanges      \* bound on the user's changes

Models == {First, Second}

ClipsAssumption == \A d \in Models : Clips[d] \subseteq Nat /\ 0 \in Clips[d]
ViewsAssumption == Views # {} /\ MaxChanges \in Nat
DragAssumption == Draggable \subseteq Models /\ LosesButton \in BOOLEAN

VARIABLES
    doc,        \* the state of each side
    seen,       \* is the comparison on the screen?
    focused,    \* is its window the active one?
    repaint,    \* is a frame of the window asked for?
    slot, drawing,   \* the lane
    frames,     \* results, and dropped jobs, that no task has received
    changes     \* ghost: the number of the user's changes

jobVars == <<slot, drawing, frames>>
frameVars == <<doc, seen, focused, repaint, jobVars, changes>>

NoFrame == [view |-> "none"]
Idle == {}
Lesser(a, b) == IF a < b THEN a ELSE b
Seconds == UNION {0 .. c : c \in UNION {Clips[d] : d \in Models}}

\* State::edge and State::dirty.
Low(s) == s.dragging \/ s.scrubbing \/ s.playing
Wanted(s) == [view |-> s.view, low |-> Low(s), clip |-> s.clip, seconds |-> s.pose]
Dirty(s) == s.frame # Wanted(s)

LiveFrames == slot \cup drawing \cup UNION {a.requests : a \in frames}
IsPresent(r) == doc[r.doc].generation = r.generation

\* Generations are only compared with those of live requests: the next one is
\* the least that none of them carries.
FreshGeneration(d) ==
    LET used == {r.generation : r \in {x \in LiveFrames : x.doc = d}}
    IN  CHOOSE n \in 0 .. Cardinality(used) :
            n \notin used /\ \A m \in 0 .. n - 1 : m \in used

\* Document::invalidate.
Invalidated(d, s) ==
    [s EXCEPT !.generation = FreshGeneration(d), !.pending = FALSE, !.error = FALSE]

Counted == changes < MaxChanges /\ changes' = changes + 1
Refreshed == repaint' = TRUE /\ Counted /\ UNCHANGED <<seen, focused, jobVars>>
Using == seen /\ focused

-----------------------------------------------------------------------------
(* Cameras *)

\* Document::change.
Followed(d, v) ==
    LET moves == {x \in Models : \/ x = d /\ (doc[d].view # v \/ doc[d].error)
                                 \/ x # d /\ doc[d].linked /\ doc[x].view # v}
    IN  [x \in Models |-> IF x \in moves THEN Invalidated(x, [doc[x] EXCEPT !.view = v])
                        ELSE doc[x]]

Change(d, v) == Using /\ doc' = Followed(d, v) /\ Refreshed

\* Document::set_linked.
SetLinked(d) ==
    /\ Using
    /\ doc' = [x \in Models |->
                LET s == [doc[x] EXCEPT !.linked = ~doc[d].linked]
                IN  IF x # d /\ s.linked
                    THEN Invalidated(x, [s EXCEPT !.view = doc[d].view]) ELSE s]
    /\ Refreshed

Press(d) ==
    /\ Using /\ d \in Draggable
    /\ doc' = [doc EXCEPT ![d] = Invalidated(d, [@ EXCEPT !.dragging = TRUE])]
    /\ Refreshed

\* Document::end_drag and end_scrub.
Release ==
    /\ Using
    /\ doc' = [x \in Models |->
                IF doc[x].dragging \/ doc[x].scrubbing
                THEN Invalidated(x, [doc[x] EXCEPT !.dragging = FALSE, !.scrubbing = FALSE])
                ELSE doc[x]]
    /\ Refreshed

\* The pointer moves over a dragged side without its button: the handler ends
\* the drag and returns.
MissRelease(d) ==
    /\ Using /\ LosesButton /\ doc[d].dragging
    /\ doc' = [doc EXCEPT ![d].dragging = FALSE]
    /\ UNCHANGED <<seen, focused, repaint, jobVars, changes>>

-----------------------------------------------------------------------------
(* The clock *)

Longest(states) == Max({states[d].clip : d \in Models})

\* seek: both sides, each holding its last pose.
Sought(states, t) ==
    LET offset == Lesser(t, Longest(states))
    IN  [d \in Models |->
            Invalidated(d, [states[d] EXCEPT !.playing = FALSE, !.offset = offset,
                !.duration = Longest(states), !.pose = Lesser(offset, states[d].clip)])]

\* The position of the clock, now: anywhere in a loop while it plays.
Positions(states) ==
    LET s == states[First]
    IN  IF s.playing /\ s.duration > 0 THEN 0 .. s.duration - 1 ELSE {s.offset}

\* pause_documents at a position of the clock.
Paused(states, t) ==
    [d \in Models |-> [Sought(states, t)[d] EXCEPT !.dragging = FALSE, !.scrubbing = FALSE]]

Seek(t) == Using /\ doc' = Sought(doc, t) /\ Refreshed

Scrub(t) ==
    /\ Using /\ Longest(doc) > 0
    /\ doc' = Sought([d \in Models |-> [doc[d] EXCEPT !.scrubbing = TRUE]], t)
    /\ Refreshed

\* toggle: without a clip that plays, Play chooses the first of each side.
Play ==
    /\ Using /\ \E d \in Models : Clips[d] # {0}
    /\ \E t \in Positions(doc) :
        LET playing == \E d \in Models : doc[d].playing
            chosen == IF ~playing /\ Longest(doc) = 0
                      THEN [d \in Models |-> [doc[d] EXCEPT !.clip =
                              IF Clips[d] = {0} THEN 0 ELSE Min(Clips[d] \ {0})]]
                      ELSE doc
            sought == Sought(chosen, t)
        IN  doc' = [d \in Models |->
                [sought[d] EXCEPT !.playing = ~playing /\ sought[d].duration > 0]]
    /\ Refreshed

ChooseClip(d, c) ==
    /\ Using
    /\ doc' = Sought([doc EXCEPT ![d].clip = c], 0)
    /\ Refreshed

-----------------------------------------------------------------------------
(* The comparison is hidden and shown *)

HideModels ==
    /\ seen /\ seen' = FALSE
    /\ \E t \in Positions(doc) : doc' = Paused(doc, t)
    /\ Counted /\ UNCHANGED <<focused, repaint, jobVars>>

ShowModels ==
    /\ ~seen /\ seen' = TRUE /\ repaint' = TRUE
    /\ UNCHANGED <<doc, focused, jobVars, changes>>

Activate ==
    /\ focused' = ~focused /\ repaint' = TRUE
    /\ Counted /\ UNCHANGED <<doc, seen, jobVars>>

-----------------------------------------------------------------------------
(* Painting asks for frames *)

\* Playback::tick, which waits for the frame in flight.
Ticked(t) ==
    [d \in Models |-> IF doc[d].playing /\ ~doc[d].pending
                    THEN [doc[d] EXCEPT !.pose = Lesser(t, doc[d].clip)] ELSE doc[d]]

Needs(s) == ~s.pending /\ ~s.error /\ Dirty(s)

\* An answer nobody waits for changes nothing and is left out.
AnswerJob(job, done, failed) ==
    frames' = IF \E r \in job : IsPresent(r)
               THEN frames \cup {[requests |-> job, done |-> done, failed |-> failed]}
               ELSE frames

\* Mutant: the lane drops the job that waits without a word.
ReplacedSilently(job) == slot' = job /\ UNCHANGED frames

\* Lane::submit: the job that waited is dropped, which its task learns.
Replaced(job) ==
    /\ slot' = job
    /\ AnswerJob(slot, FALSE, {})

\* request_pair.
Paint ==
    /\ seen /\ repaint
    /\ \E t \in Positions(doc) :
        IF ~focused
        THEN doc' = Paused(doc, t) /\ repaint' = FALSE /\ UNCHANGED <<slot, frames>>
        ELSE LET ticked == Ticked(t)
                 asking == {d \in Models : Needs(ticked[d])}
                 job == {[doc |-> d, generation |-> doc[d].generation,
                          frame |-> Wanted(ticked[d])] : d \in asking}
             IN  /\ doc' = [d \in Models |-> [ticked[d] EXCEPT
                                !.pending = @ \/ d \in asking]]
                 /\ repaint' = \E d \in Models : doc[d].playing
                 /\ IF asking = {} THEN UNCHANGED <<slot, frames>> ELSE Replaced(job)
    /\ UNCHANGED <<seen, focused, drawing, changes>>

-----------------------------------------------------------------------------
(* The lane *)

TakeJob ==
    /\ drawing = Idle /\ slot # Idle
    /\ drawing' = slot /\ slot' = Idle
    /\ UNCHANGED <<doc, seen, focused, repaint, frames, changes>>

\* A job is cancelled when any of its sides changed, or renders each of them.
FinishJob ==
    /\ drawing # Idle
    /\ IF \A r \in drawing : IsPresent(r)
       THEN \E failed \in SUBSET {r.doc : r \in drawing} : AnswerJob(drawing, TRUE, failed)
       ELSE AnswerJob(drawing, FALSE, {})
    /\ drawing' = Idle
    /\ UNCHANGED <<doc, seen, focused, repaint, slot, changes>>

\* stop_on_error: both clocks stop; errors, also earlier ones, stay.
Stopped(states, failed, t) ==
    [d \in Models |-> [Paused(states, t)[d] EXCEPT !.error = d \in failed \/ states[d].error]]

\* The frame of a request, for the side that still waits for it.
Received(a, failed) ==
    [d \in Models |->
        IF ~\E r \in a.requests : r.doc = d /\ IsPresent(r) /\ doc[d].pending THEN doc[d]
        ELSE IF ~a.done \/ d \in failed THEN [doc[d] EXCEPT !.pending = FALSE]
        ELSE [doc[d] EXCEPT !.pending = FALSE,
                !.frame = (CHOOSE r \in a.requests : r.doc = d).frame]]

ReceiveFrames ==
    \E a \in frames :
        LET waiting == {r.doc : r \in {x \in a.requests : IsPresent(x) /\ doc[x.doc].pending}}
            failed == a.failed \cap waiting IN
        /\ frames' = frames \ {a}
        /\ IF failed = {} THEN doc' = Received(a, failed)
           ELSE \E t \in Positions(doc) : doc' = Stopped(Received(a, failed), failed, t)
        /\ repaint' = (repaint \/ waiting # {})
        /\ UNCHANGED <<seen, focused, slot, drawing, changes>>

-----------------------------------------------------------------------------

FirstState == [view |-> CHOOSE v \in Views : TRUE, linked |-> TRUE, dragging |-> FALSE,
          scrubbing |-> FALSE, clip |-> 0, offset |-> 0, duration |-> 0, playing |-> FALSE,
          pose |-> 0, generation |-> 0, pending |-> FALSE, error |-> FALSE, frame |-> NoFrame]

\* Both sides are configured with one camera by the first render.
FramesInit ==
    /\ doc = [d \in Models |-> FirstState]
    /\ seen = TRUE /\ focused = TRUE /\ repaint = TRUE
    /\ slot = Idle /\ drawing = Idle /\ frames = {}
    /\ changes = 0

FramesUser ==
    \/ \E d \in Models :
        \/ SetLinked(d) \/ Press(d) \/ MissRelease(d)
        \/ \E v \in Views : Change(d, v)
        \/ \E c \in Clips[d] : ChooseClip(d, c)
    \/ Release \/ Play
    \/ \E t \in Seconds : Seek(t) \/ Scrub(t)
    \/ HideModels \/ ShowModels \/ Activate

FramesNext == FramesUser \/ Paint \/ TakeJob \/ FinishJob \/ ReceiveFrames

FramesSpec == FramesInit /\ [][FramesNext]_frameVars

-----------------------------------------------------------------------------
(* Properties *)

FramesTypeOK ==
    /\ DOMAIN doc = Models
    /\ \A d \in Models :
        /\ doc[d].view \in Views /\ doc[d].clip \in Clips[d]
        /\ doc[d].pose <= doc[d].clip /\ doc[d].offset <= doc[d].duration
    /\ changes \in 0 .. MaxChanges

(***************************************************************************)
(* A side waits exactly while a frame of its present generation is to      *)
(* come, be it waiting, rendered, answered or dropped: it neither waits    *)
(* for ever nor takes a frame of a camera it left (request_pair).          *)
(***************************************************************************)
FramesArePending ==
    \A d \in Models : doc[d].pending <=> \E r \in LiveFrames : r.doc = d /\ IsPresent(r)

(***************************************************************************)
(* Linked sides show the same camera, whichever of them is moved, linked   *)
(* or failed (Document::change, set_linked).                               *)
(***************************************************************************)
CamerasAgree == (\A d \in Models : doc[d].linked) => doc[First].view = doc[Second].view

(***************************************************************************)
(* "Clip changes, scrubbing, lifecycle pauses and failures stop both       *)
(* clocks together" (content-and-layout.md:170): the sides play together,  *)
(* at one time, and at rest each shows that time or its last pose.         *)
(***************************************************************************)
ClockIsShared ==
    /\ doc[First].playing <=> doc[Second].playing
    /\ doc[First].offset = doc[Second].offset
    /\ doc[First].duration = doc[Second].duration
    /\ \A d \in Models :
        ~doc[d].playing => doc[d].pose = Lesser(doc[d].offset, doc[d].clip)

(***************************************************************************)
(* A comparison that is hidden plays nothing and waits for no frame; what  *)
(* is still rendered for it changes nothing.                               *)
(***************************************************************************)
HiddenIsIdle == ~seen => \A d \in Models : ~doc[d].playing /\ ~doc[d].pending

(***************************************************************************)
(* A frame that is waited for has one job in the lane, linked sides move   *)
(* with one camera and one clock, and a hidden comparison is idle, in      *)
(* every order of its changes, paints, jobs and answers (request_pair).    *)
(***************************************************************************)
FramesAreRequested ==
    FramesTypeOK /\ FramesArePending /\ CamerasAgree /\ ClockIsShared /\ HiddenIsIdle

(***************************************************************************)
(* Left alone on the screen of the active window, each side plays, failed, *)
(* or comes to show what its controls say, at full resolution once nothing *)
(* is dragged (docs/interactive-3d.md:151).                                *)
(***************************************************************************)
FramesSettled == \A d \in Models : doc[d].playing \/ doc[d].error \/ ~Dirty(doc[d])

=============================================================================
