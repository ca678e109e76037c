---------------------------- MODULE FramePacing ----------------------------
(***************************************************************************)
(* The frame clock: FramePacer (engine/frame_pacer.cpp) as engine/hw.c's   *)
(* present drives it, with the two cadences that sample a fast-forwarded   *)
(* game for the display and for the audio device.  Time is an integer; a   *)
(* deadline is the floor of an exact one, as in the code.                  *)
(***************************************************************************)
EXTENDS Integers, FiniteSetsExt

CONSTANTS
  Second,      \* NS_PER_SECOND, in the model's unit of time
  Speeds,      \* what game_speed may ask for, in percent of PAL
  FastPct,     \* HW_FFWD_PCT
  Modes,       \* the refresh intervals the display may have, 0: not known
  FreePct,     \* kFreeMatchPct
  StallFrames, \* kStallLimit, in PAL frames
  RebaseEvery, \* kRebaseEvery
  Works, Lates, Rests, \* how long a frame takes, a sleep oversleeps, a hold lasts
  Exact,       \* a scale at which the period of every speed is an integer
  MaxNow,      \* bound: when the clock stops
  MaxChanges   \* bound: changes of the pace, of the settings twice as dear as of a key

Pal   == Second \div 50
Stall == StallFrames * Pal

PacingAssumption ==
  /\ {Second, FastPct, RebaseEvery, Exact} \subseteq Nat \ {0} /\ Second % 50 = 0
  /\ Modes \cup Works \cup Rests \cup {FreePct, MaxNow, MaxChanges} \subseteq Nat /\ StallFrames \in Nat \ {0, 1}
  /\ Lates \subseteq Nat /\ \E most \in Lates : \A l \in Lates : l <= most
  /\ \A p \in Speeds \cup {FastPct} : /\ p \in 1..2 * Second
                                      /\ (100 * Second * Exact) % (50 * p) = 0

VARIABLES
  now,      \* the host's clock
  pace,     \* the pacer
  display,  \* its cadences
  audio,
  knob,     \* s_speed_pct
  fast,     \* s_ffwd_held
  how,      \* pace_to_display
  mode,     \* the refresh interval of the display the window is on
  due,      \* history: when this frame was due, in exact units
  seams,    \* history: deadlines rounded since the clock was last started
  sample,   \* history: what was made, shown and played at this speed
  changes   \* history: changes made

clock == <<now, pace, display, audio, due, seams>>
vars  == <<clock, knob, fast, how, mode, sample, changes>>

Effective == IF fast THEN FastPct ELSE knob

-----------------------------------------------------------------------------
(* The deadline *)

Offset(n, pct) == (n * Second * 100) \div (50 * pct)

Distance(a, b) == IF a > b THEN a - b ELSE b - a

\* refreshes_per_frame: 0 when frames are not held for whole refreshes.
Holds(p) ==
  LET asked == Offset(1, p.pct)
      holds == Max({1, (asked + p.refresh \div 2) \div p.refresh})
  IN IF p.refresh = 0 \/ (~p.always /\ Distance(holds * p.refresh, asked) * 100 > asked * FreePct)
       THEN 0 ELSE holds

\* Mutant: whole frames of a rounded period.
DeadlineRounded(p, n) == p.epoch + n * (IF Holds(p) # 0 THEN Holds(p) * p.refresh ELSE Offset(1, p.pct))

Deadline(p, n) == p.epoch + (IF Holds(p) # 0 THEN n * Holds(p) * p.refresh ELSE Offset(n, p.pct))

Rebased(p, at) == [p EXCEPT !.epoch = at, !.frames = 0]

\* A change lands on the deadline now due.
Seam(p) == IF p.started THEN Rebased(p, Deadline(p, p.frames)) ELSE p

WithSpeed(p, pct)   == IF pct = p.pct THEN p ELSE [Seam(p) EXCEPT !.pct = pct]
WithMatch(p, a)     == IF a = p.always THEN p ELSE [Seam(p) EXCEPT !.always = a]
WithRefresh(p, r)   == IF r = p.refresh THEN p ELSE [Seam(p) EXCEPT !.refresh = r]

Behind(p, at) == p.started /\ at > Deadline(p, p.frames + 1) + Stall

\* wait: where the clock is afterwards ...
Woken(p, at, late) ==
  LET d == Deadline(p, p.frames + 1) IN IF p.started /\ at < d THEN d + late ELSE at

\* ... and the pacer.
Waited(p, at) ==
  IF ~p.started THEN [Rebased(p, at) EXCEPT !.started = TRUE]
  ELSE IF Behind(p, at) THEN Rebased(p, at)
  ELSE IF p.frames + 1 >= RebaseEvery THEN Rebased(p, Deadline(p, p.frames + 1))
  ELSE [p EXCEPT !.frames = @ + 1]

Resync(p) == [p EXCEPT !.started = FALSE]

AfterHold(p, rest) == IF rest > 0 THEN Resync(p) ELSE p

\* hw_pace_frame; hw_display_refresh_to_match sets the kind of match only where one is asked for.
Asked(p, rest) ==
  LET spoken == WithSpeed(AfterHold(p, rest), Effective)
      wanted == ~fast /\ how # "off"
  IN IF wanted THEN WithRefresh(WithMatch(spoken, how = "always"), mode) ELSE WithRefresh(spoken, 0)

-----------------------------------------------------------------------------
(* The cadences *)

NextTurn(c) == c.epoch + Offset(c.frames + 1, 100)

Ready(c, at) == ~c.started \/ at >= NextTurn(c)

\* It starts again where it is: what it was behind by is not delivered.
Restarts(c, at) == c.started /\ Ready(c, at) /\ (at > NextTurn(c) + Stall \/ c.frames + 1 >= RebaseEvery)

\* cadence_due, where it is asked.
Turned(c, at) ==
  IF ~c.started THEN [started |-> TRUE, epoch |-> at, frames |-> 0]
  ELSE IF Restarts(c, at) THEN [c EXCEPT !.epoch = at, !.frames = 0]
  ELSE IF Ready(c, at) THEN [c EXCEPT !.frames = @ + 1]
  ELSE c

-----------------------------------------------------------------------------
(* A frame *)

\* The exact schedule: a whole period after the last, from the frame that starts the clock.
Scheduled(p, rest, at, woken) ==
  IF rest > 0 \/ ~p.started \/ Behind(p, at) THEN due' = woken * Exact /\ seams' = 0
  ELSE /\ due' = due + (IF Holds(p) # 0 THEN Holds(p) * p.refresh * Exact
                        ELSE (100 * Second * Exact) \div (50 * p.pct))
       /\ seams' = seams + (IF p.epoch # pace.epoch \/ p.frames + 1 >= RebaseEvery THEN 1 ELSE 0)

\* One pass: the game's frame or, while it is frozen, none; its present and its pacing; a
\* frame of sound, before the present when frozen and after it otherwise.
PacedFrame(work, late, rest, frozen) ==
  LET start  == now + work
      skip   == Effective >= 200 /\ ~Ready(display, start)
      asked  == Asked(pace, rest)
      woken  == Woken(asked, start + rest, late)
      listen == IF frozen THEN start ELSE woken
      plays  == Effective = 100 \/ Ready(audio, listen)
  IN /\ woken <= MaxNow /\ now' = woken
     /\ pace' = Waited(asked, start + rest)
     /\ Scheduled(asked, rest, start + rest, woken)
     /\ display' = IF Effective >= 200 THEN Turned(display, start) ELSE display
     /\ audio' = IF Effective = 100 THEN audio ELSE Turned(audio, listen)
     /\ sample' = [sample EXCEPT !.made = @ + 1, !.shown = IF skip THEN @ ELSE @ + 1,
                                 !.fed = IF plays THEN @ + 1 ELSE @,
                                 !.reshown = IF Effective >= 200 /\ Restarts(display, start) THEN @ + 1 ELSE @,
                                 !.refed = IF Effective # 100 /\ Restarts(audio, listen) THEN @ + 1 ELSE @,
                                 !.slow = @ \/ woken - now > Pal]
     /\ UNCHANGED <<knob, fast, how, mode, changes>>

\* Nothing made, shown or played, no cadence started again and no frame longer than PAL's.
SampleFrom(t) == [since |-> t, made |-> 0, shown |-> 0, fed |-> 0, reshown |-> 0, refed |-> 0, slow |-> FALSE]

NewSpeed == sample' = SampleFrom(now)

\* hw_set_ffwd, hw_speed_refresh, the pace_to_display row, a window moved to another display.
HoldFast == fast' = ~fast /\ NewSpeed /\ UNCHANGED <<knob, how, mode>>

TurnKnob(pct) == /\ knob' = pct /\ pct # knob
                 /\ IF fast THEN UNCHANGED sample ELSE NewSpeed
                 /\ UNCHANGED <<fast, how, mode>>

Match(h) == h # how /\ how' = h /\ UNCHANGED <<knob, fast, mode, sample>>

Move(m) == m # mode /\ mode' = m /\ UNCHANGED <<knob, fast, how, sample>>

Change == /\ \/ HoldFast /\ changes' = changes + 1
             \/ /\ changes' = changes + 2
                /\ \/ \E pct \in Speeds : TurnKnob(pct)
                   \/ \E h \in {"off", "free", "always"} : Match(h)
                   \/ \E m \in Modes : Move(m)
          /\ changes' <= MaxChanges /\ UNCHANGED clock

Stopped == [started |-> FALSE, epoch |-> 0, frames |-> 0]

Init == /\ now = 0
        /\ pace = [pct |-> 100, refresh |-> 0, always |-> FALSE, epoch |-> 0, frames |-> 0, started |-> FALSE]
        /\ display = Stopped /\ audio = Stopped
        /\ knob \in Speeds /\ fast = FALSE /\ how = "free" /\ mode \in Modes
        /\ due = 0 /\ seams = 0 /\ changes = 0
        /\ sample = SampleFrom(0)

Next == \/ \E work \in Works, late \in Lates, rest \in Rests, frozen \in BOOLEAN :
             PacedFrame(work, late, rest, frozen)
        \/ Change

Spec == Init /\ [][Next]_vars

-----------------------------------------------------------------------------
(* Properties *)

TypeOK == /\ now \in 0..MaxNow /\ knob \in Speeds /\ mode \in Modes
          /\ pace.frames \in 0..RebaseEvery /\ {display.frames, audio.frames} \subseteq 0..RebaseEvery

\* However the speed, the display and the kind of match changed on the way, and whatever was
\* held or lost in between, a frame is due when whole periods of the speeds it was paced at
\* put it: early by no more than the roundings since, never shown before, and never so late
\* that the frames after it would sprint (frame_pacer.cpp:7-14, frame_pacer.h:88-93).
OnSchedule ==
  pace.started =>
    LET d == Deadline(pace, pace.frames)
    IN /\ d * Exact <= due /\ due < (d + seams + 1) * Exact
       /\ now >= d
       /\ now <= d + Stall + Max(Lates)

\* What a cadence delivers of the frames made: never more than have passed but for what one stall may
\* still owe; and while no frame took longer than PAL's none is missing but those it gave up where it
\* started again, less than two each time, and it started again on the hour, and but for the first frame
\* of a speed and one more never for a stall.
OfPal(delivered, again) ==
  LET passed == (now - sample.since) \div Pal
  IN /\ delivered <= passed + StallFrames + 1
     /\ ~sample.slow /\ sample.made > 0 =>
          delivered >= passed - 1 - 2 * again /\ again * RebaseEvery <= delivered + 2 * (RebaseEvery - 1)

\* A fast-forwarded game is shown and heard at the rate of PAL; at the normal speed every frame is
\* shown, and heard (frame_pacer.cpp:178-198, hw.c:1520-1545).
Sampled ==
  /\ IF Effective >= 200 THEN OfPal(sample.shown, sample.reshown) ELSE sample.shown = sample.made
  /\ IF Effective # 100 THEN OfPal(sample.fed, sample.refed) ELSE sample.fed = sample.made

Paced == TypeOK /\ OnSchedule
=============================================================================
