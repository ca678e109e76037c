------------------------------- MODULE Paula -------------------------------
(***************************************************************************)
(* Sound: the DMA channels and the sound-effect voice of engine/           *)
(* hw_audio.c, the registers that start and stop them (engine/hw.c), the   *)
(* effect trigger of port/overrides/audio.c and the audio frame of         *)
(* port/game_loop.c that renders a frame in as many pieces as the music    *)
(* has ticks and queues it.                                                *)
(*                                                                         *)
(* A channel's volume and panning and the samples' values are left out:    *)
(* what is followed is which byte sounds and for how long.  Channels share *)
(* nothing but DMACON's bits, so the instances have one.                   *)
(***************************************************************************)
EXTENDS Integers

CONSTANTS
  Chans,     \* the channels
  Locs, Lens, Pers, \* what the guest writes to AUDxLC, AUDxLEN and AUDxPER
  Sounds,    \* descriptors: base, len, loop, again (loop length), per, pri, vol
  Clock,     \* PAULA_CLOCK_PAL
  Rate,      \* OUTPUT_RATE
  Frame,     \* samples per frame (PC_AUD_SPF)
  Ticks,     \* GP_MUSIC_TICKS
  MaxQueued, \* frames the device may hold before the backlog is dropped (4)
  MaxSounds  \* bound: effects the game asks for

PaulaAssumption ==
  /\ {Clock, Rate, Frame, Ticks} \subseteq Nat \ {0} /\ MaxQueued \in Nat /\ MaxSounds \in Nat
  /\ 0 \in Chans /\ Lens \cup Pers \subseteq Nat
  /\ \A d \in Sounds :
       /\ {d.base, d.len, d.loop, d.again, d.per, d.pri, d.vol} \subseteq Nat
       /\ d.len > 0 \* hw_audio_sfx_play would return at once

NoSound == [base |-> 0, len |-> 0, loop |-> 0, again |-> 0, per |-> 0, pri |-> 0, vol |-> 0]
Silent  == [on |-> FALSE, ptr |-> 0, rem |-> 0, tick |-> 0, of |-> NoSound, first |-> FALSE]

VARIABLES
  reg,    \* AUDxLC, AUDxLEN, AUDxPER of each channel
  dma,    \* s_audio: what each channel plays
  stopped,\* channels whose bit was cleared since they were last started
  voice,  \* s_sfx[0]; history: the sound it plays, and that it has not looped yet
  flag,   \* $57fe4e: the engine has an effect pending
  desc,   \* $57fe50: the effect the engine thinks is playing
  loaded, \* a savestate was loaded since the voice was started
  heard,  \* samples of the voice rendered before its first loop
  tick,   \* music ticks delivered in this audio frame
  done,   \* samples rendered in it
  queued, \* frames in the device's queue, the one that plays included
  asked   \* effects asked for

vars == <<reg, dma, stopped, voice, flag, desc, loaded, heard, tick, done, queued, asked>>
frame == <<tick, done, queued>>
effect == <<voice, flag, desc, loaded, heard, asked>>

-----------------------------------------------------------------------------
(* Channels *)

Step(per) == (IF per > 0 THEN per ELSE 1) * Rate

Started(ch, r) == [on |-> TRUE, ptr |-> r.lc, len |-> r.len, pos |-> 0, tick |-> 0]

\* No more periods than this end in one output sample.
Turns(d) == (d.tick + Clock) \div Rate

\* A period, if one has ended: the position moves; at the end of the sample pointer and
\* length come from the registers as they are now.
Turn(d, r) ==
  IF ~d.on \/ d.tick < Step(r.per) THEN d
  ELSE IF d.pos + 1 < 2 * d.len THEN [d EXCEPT !.tick = @ - Step(r.per), !.pos = @ + 1]
  ELSE [d EXCEPT !.tick = @ - Step(r.per), !.pos = 0, !.ptr = r.lc, !.len = r.len, !.on = r.len > 0]

\* One output sample of a channel.
Sample(d, r) ==
  LET f[n \in 0..Turns(d)] == IF n = 0 THEN [d EXCEPT !.tick = @ + Clock] ELSE Turn(f[n - 1], r)
  IN f[Turns(d)]

SampleOn(d, r) == IF d.on THEN Sample(d, r) ELSE d

\* The samples of one piece of a frame.
Stream(d, r, n) ==
  LET f[k \in 0..n] == IF k = 0 THEN d ELSE SampleOn(f[k - 1], r)
  IN IF ~d.on THEN d ELSE IF d.len = 0 THEN [d EXCEPT !.on = FALSE] ELSE f[n]

-----------------------------------------------------------------------------
(* The voice *)

\* Mutant: whatever is left of a period is dropped with every byte.
VoiceByteRounded(v) == [v EXCEPT !.tick = 0, !.ptr = @ + 1, !.rem = @ - 1]

VoiceByte(v) == [v EXCEPT !.tick = @ - Step(v.of.per), !.ptr = @ + 1, !.rem = @ - 1]

VoiceTurn(v) ==
  IF ~v.on \/ v.tick < Step(v.of.per) THEN v
  ELSE IF v.rem > 1 THEN VoiceByte(v)
  ELSE IF v.of.again > 0
    THEN [VoiceByte(v) EXCEPT !.ptr = v.of.loop, !.rem = v.of.again, !.first = FALSE]
  ELSE [VoiceByte(v) EXCEPT !.on = FALSE]

VoiceSample(v) ==
  LET f[n \in 0..Turns(v)] == IF n = 0 THEN [v EXCEPT !.tick = @ + Clock] ELSE VoiceTurn(f[n - 1])
  IN f[Turns(v)]

VoiceOn(v) == IF v.on THEN VoiceSample(v) ELSE v

VoiceAfter(v, n) == LET f[k \in 0..n] == IF k = 0 THEN v ELSE VoiceOn(f[k - 1]) IN f[n]

FirstPass(v) == v.on /\ v.first

-----------------------------------------------------------------------------
(* The guest *)

WritesPointer == \E ch \in Chans, lc \in Locs, per \in Pers :
  /\ reg' = [reg EXCEPT ![ch].lc = lc, ![ch].per = per]
  /\ UNCHANGED <<dma, stopped, effect, frame>>

\* A length starts an idle channel; one that plays takes it at its next loop.
WritesLength == \E ch \in Chans, len \in Lens :
  /\ reg' = [reg EXCEPT ![ch].len = len]
  /\ IF ~dma[ch].on /\ len # 0
       THEN dma' = [dma EXCEPT ![ch] = Started(ch, reg'[ch])] /\ stopped' = stopped \ {ch}
       ELSE UNCHANGED <<dma, stopped>>
  /\ UNCHANGED <<effect, frame>>

WritesData == \E ch \in Chans :
  /\ dma' = [dma EXCEPT ![ch] = Started(ch, reg[ch])] /\ stopped' = stopped \ {ch}
  /\ UNCHANGED <<reg, effect, frame>>

\* DMACON without the SET bit stops the channels named; nothing else looks at its audio bits.
Cleared(which) == /\ stopped' = stopped \cup which
                  /\ dma' = [ch \in Chans |-> IF ch \in which THEN [dma[ch] EXCEPT !.on = FALSE]
                                              ELSE dma[ch]]

WritesDmacon == \E which \in SUBSET Chans \ {{}} :
  /\ Cleared(which)
  /\ UNCHANGED <<reg, effect, frame>>

Beats(new, cur) == new.pri > cur.pri \/ (new.pri = cur.pri /\ new.vol >= cur.vol)

PlaysFromStart(d) == [on |-> TRUE, ptr |-> d.base, rem |-> d.len, tick |-> 0, of |-> d, first |-> TRUE]

\* native_sfx_trigger: the pending effect is replaced by one that beats it.
Trigger == \E d \in Sounds :
  /\ asked < MaxSounds /\ asked' = asked + 1
  /\ IF flag /\ ~Beats(d, desc) THEN UNCHANGED <<dma, stopped, voice, flag, desc, loaded, heard>>
     ELSE /\ desc' = d /\ flag' = TRUE /\ Cleared({0})
          /\ voice' = PlaysFromStart(d) /\ loaded' = FALSE /\ heard' = 0
  /\ UNCHANGED <<reg, frame>>

\* The engine's streamer has counted the effect's chunks down.
EngineEnds == flag /\ flag' = FALSE
              /\ UNCHANGED <<reg, dma, stopped, voice, desc, loaded, heard, asked, frame>>

\* A savestate brings the engine's memory back and not the voice, which hw_audio.c keeps.
LoadState == /\ flag' \in BOOLEAN /\ desc' \in Sounds /\ loaded' = TRUE
             /\ tick = 0 /\ UNCHANGED <<reg, dma, stopped, voice, heard, asked, frame>>

-----------------------------------------------------------------------------
(* The audio frame *)

\* Mutant: the voice plays on when the engine has ended its effect.
Unheeded(v) == v

\* The engine's flag is looked at before each piece.
Heeded(v) == [v EXCEPT !.on = @ /\ flag]

\* Where the piece that follows music tick k ends.
PieceEnd(k) == (Frame * k) \div Ticks

\* A music tick and the piece of the frame up to the next; the guest may write in between.
Render ==
  /\ tick < Ticks /\ tick' = tick + 1 /\ done' = PieceEnd(tick + 1) /\ UNCHANGED queued
  /\ LET n == PieceEnd(tick + 1) - done
         v == Heeded(voice)
     IN /\ voice' = VoiceAfter(v, n)
        /\ heard' = IF FirstPass(v) THEN heard + n ELSE heard
        /\ dma' = [ch \in Chans |-> IF ch = 0 /\ v.on THEN dma[ch]
                                    ELSE Stream(dma[ch], reg[ch], n)]
  /\ UNCHANGED <<reg, stopped, flag, desc, loaded, asked>>

AfterDrop(n) == IF n > MaxQueued THEN 0 ELSE n

Queue == /\ tick = Ticks /\ tick' = 0 /\ done' = 0
         /\ queued' = AfterDrop(queued) + 1
         /\ UNCHANGED <<reg, dma, stopped, effect>>

DevicePlays == /\ queued > 0 /\ queued' = queued - 1
               /\ UNCHANGED <<reg, dma, stopped, effect, tick, done>>

Init == /\ reg = [ch \in Chans |-> [lc |-> 0, len |-> 0, per |-> 0]]
        /\ dma = [ch \in Chans |-> [on |-> FALSE, ptr |-> 0, len |-> 0, pos |-> 0, tick |-> 0]]
        /\ stopped = {} /\ voice = Silent /\ flag = FALSE /\ desc = NoSound
        /\ loaded = FALSE /\ heard = 0 /\ tick = 0 /\ done = 0 /\ queued = 0 /\ asked = 0

Next == \/ WritesPointer \/ WritesLength \/ WritesData \/ WritesDmacon
        \/ Trigger \/ EngineEnds \/ LoadState \/ Render \/ Queue \/ DevicePlays

\* The audio frame goes on: only Render and Queue move its ticks, and one of them always can.
FrameGoesOn == tick' = IF tick = Ticks THEN 0 ELSE tick + 1

\* pc_step renders an audio frame whenever one is due.
Fairness == WF_tick(FrameGoesOn)

Spec == Init /\ [][Next]_vars /\ Fairness

-----------------------------------------------------------------------------
(* Properties *)

TypeOK == /\ stopped \subseteq Chans
          /\ \A ch \in Chans : dma[ch].on \in BOOLEAN /\ dma[ch].tick \in Nat
          /\ {flag, loaded, voice.on} \subseteq BOOLEAN
          /\ tick \in 0..Ticks /\ done \in 0..Frame /\ heard \in Nat /\ asked \in 0..MaxSounds

\* A channel reads inside the sample it was given and an effect inside the effect: what was
\* left of it, or of its loop, ends where it ends.
ReadsInside ==
  /\ \A ch \in Chans : dma[ch].on => dma[ch].pos < 2 * dma[ch].len \/ dma[ch].pos = 0
  /\ voice.on => /\ voice.rem > 0
                 /\ voice.ptr + voice.rem \in {voice.of.base + voice.of.len,
                                               voice.of.loop + voice.of.again}

\* A channel the guest cleared in DMACON is silent until it is started again.
StoppedIsSilent == \A ch \in stopped : ~dma[ch].on

\* An effect's pitch is exact: the bytes played and the fraction of a period left over are
\* the time heard, however it was cut into pieces (hw_audio.c:24-28).
PitchIsExact ==
  FirstPass(voice) =>
    heard * Clock = (voice.of.len - voice.rem) * Step(voice.of.per) + voice.tick

\* What sounds is what the engine arbitrates with.
VoiceIsEffect == voice.on /\ flag /\ ~loaded => voice.of = desc

\* A whole frame is queued, and the device is never behind by more than the limit and a frame.
QueueBounded == queued <= MaxQueued + 1 /\ (tick = Ticks => done = Frame)

Sound == TypeOK /\ ReadsInside /\ StoppedIsSilent /\ PitchIsExact /\ VoiceIsEffect /\ QueueBounded

\* An effect the engine has ended falls silent, and one that does not loop comes to its end,
\* unless another takes its place.
EffectsEnd == /\ (voice.on /\ ~flag) ~> (~voice.on \/ flag)
              /\ \A d \in Sounds : d.again = 0 =>
                   (voice.on /\ voice.of = d) ~> (~voice.on \/ voice.of # d)
=============================================================================
