------------------------------ MODULE GuestTime ------------------------------
(***************************************************************************)
(* Guest time and what is delivered in it: the beam of engine/hw_beam.c    *)
(* and engine/hw.c, derived from the guest clock of runtime/               *)
(* guest_runtime.cpp; the waits of the game flow, which cost it a frame;   *)
(* and the interrupt vectors of port/game_loop.c, which run on the host    *)
(* thread while the flow is parked and use the blitter the flow may be in  *)
(* the middle of programming.                                              *)
(*                                                                         *)
(* Time is counted in lines.  The blitter has one register, standing for   *)
(* any of $040..$074.  GameLoop.tla models which flow runs next and why;   *)
(* here a restart or a load is what it does to the clock, the registers    *)
(* and the blit in progress.                                               *)
(***************************************************************************)
EXTENDS Naturals, FiniteSets

CONSTANTS
  Lines,     \* lines per frame; the code has 312
  V8,        \* the line from which VPOSR's bit 8 is set (256)
  MainLoop,  \* the line the gameplay main loop polls for ($3B)
  Polled,    \* lines the guest polls for
  Handlers,  \* level-6 handlers a program installs
  ChainMax,  \* PC_IRQ6_CHAIN_MAX
  Ticks,     \* GP_MUSIC_TICKS
  Lags       \* lines by which a loaded CPU state's cycle count is behind the clock

ASSUME TimeAssumption ==
  /\ Lines \in Nat /\ V8 \in 1..Lines - 1 /\ Polled \subseteq 0..Lines - 1 /\ MainLoop \in Polled
  /\ Handlers \subseteq Nat \ {0} /\ ChainMax \in Nat /\ Ticks \in Nat \ {0} /\ Lags \subseteq Nat

VARIABLES
  at,       \* what runs: a place in pc_step, the flow, or a vector
  frozen,   \* this step releases no flow: the pause menu or the freecam pause
  game,     \* g_overlay_active, g_gameplay_active or g_credits_active: not the intro
  asked,    \* g_enter_gameplay, g_pc_enter_title
  line,     \* the beam
  behind,   \* cycles_seen - (cycle_base + elapsed_cycles), when positive
  newFlow,  \* s_gameplay_frame_start_pending
  inten,    \* the levels enabled, the master bit included
  vec3,     \* a handler is installed at $6c
  vec6,     \* the handler installed at $78, or 0
  level,    \* of the vector that runs, or 0
  back,     \* where it returns
  seen,     \* delivered[]: the level-6 handlers delivered in this frame
  ticks,    \* music ticks this audio frame still has
  open,     \* s_blt_setup_open
  reg,      \* who wrote the blitter's register last
  lent,     \* what coro_call_vector_as saved of it, or "nothing"
  setup,    \* the flow has written it and not yet blitted
  used,     \* vectors that wrote it since, at most 2
  borrows,  \* the one that runs is among them
  owed,     \* the flow has had a frame for which no level 3 was delivered
  crossed,  \* the beam passed a frame boundary since the flow was released
  late      \* the clock was behind when it was

clock == <<line, behind, crossed>>
blit  == <<open, reg, setup, used>>
irq   == <<level, back, lent, borrows>>
rest  == <<frozen, game, asked, newFlow, inten, vec3, vec6, seen, ticks, owed, late>>
vars  == <<at, clock, blit, irq, rest>>

Places == {"step", "flow", "present", "irq", "chain", "hand", "audio", "ticks", "vector"}
Owner  == {"flow", "vector"}
Levels == {3, 6}
Asks   == {"gameplay", "title"}

TypeOK == /\ at \in Places /\ back \in Places /\ level \in Levels \cup {0}
          /\ frozen \in BOOLEAN /\ game \in BOOLEAN /\ asked \subseteq Asks /\ newFlow \in BOOLEAN
          /\ line \in 0..Lines - 1 /\ behind \in Nat
          /\ inten \subseteq Levels /\ vec3 \in BOOLEAN /\ vec6 \in Handlers \cup {0}
          /\ seen \subseteq Handlers /\ ticks \in 0..Ticks
          /\ open \in BOOLEAN /\ reg \in Owner /\ lent \in Owner \cup {"nothing"}
          /\ setup \in BOOLEAN /\ used \in 0..2 /\ borrows \in BOOLEAN
          /\ owed \in BOOLEAN /\ crossed \in BOOLEAN /\ late \in BOOLEAN

Init == /\ at = "step" /\ back = "step" /\ level = 0
        /\ frozen = FALSE /\ game = FALSE /\ asked = {} /\ newFlow = FALSE
        /\ line = 0 /\ behind = 0 /\ inten = {} /\ vec3 = FALSE /\ vec6 = 0
        /\ seen = {} /\ ticks = 0
        /\ open = FALSE /\ reg = "flow" /\ lent = "nothing" /\ setup = FALSE
        /\ used = 0 /\ borrows = FALSE /\ owed = FALSE /\ crossed = FALSE /\ late = FALSE

(***************************************************************************)
(* The clock.  guest_cycles() never reports less than it has reported, so  *)
(* while it is behind, what is charged or executed brings it up to itself  *)
(* before it moves the beam.                                               *)
(***************************************************************************)
Elapse(n) == LET gain == IF n > behind THEN n - behind ELSE 0 IN
             /\ behind' = behind - (n - gain)
             /\ line' = (line + gain) % Lines
             /\ crossed' = (crossed \/ (at = "flow" /\ line + gain >= Lines))

ToLine(l) == IF line < l THEN l - line ELSE Lines - line + l

(***************************************************************************)
(* The game flow.                                                          *)
(***************************************************************************)
Flow == at = "flow"
FlowGoesOn == Flow /\ UNCHANGED <<at, irq>>

\* Guest instructions, native bodies, and the cycles a blit is charged.
Executes == /\ FlowGoesOn /\ Elapse(1)
            /\ UNCHANGED <<blit, rest>>

WritesBlitter == /\ FlowGoesOn
                 /\ open' = TRUE /\ reg' = "flow" /\ setup' = TRUE /\ used' = 0
                 /\ UNCHANGED <<clock, rest>>

WritesBltsize == /\ FlowGoesOn
                 /\ open' = FALSE /\ setup' = FALSE /\ used' = 0
                 /\ UNCHANGED <<clock, reg, rest>>

\* INTENA, and the vectors at $6c and $78: the flow's or a handler's.
Programs == /\ \/ \E l \in Levels : inten' \in {inten \cup {l}, inten \ {l}}
                  /\ UNCHANGED <<vec3, vec6>>
               \/ vec3' = ~vec3 /\ UNCHANGED <<inten, vec6>>
               \/ vec6' \in Handlers \cup {0} /\ UNCHANGED <<inten, vec3>>
            /\ UNCHANGED <<frozen, game, asked, newFlow, seen, ticks, owed, late>>

FlowPrograms == FlowGoesOn /\ Programs /\ UNCHANGED <<clock, blit>>

Park == /\ at' = "present" /\ owed' = TRUE
        /\ UNCHANGED <<frozen, game, asked, inten, vec3, vec6, seen, ticks, late>>

WaitUncharged == \* mutant: a native wait costs the guest nothing
  /\ Flow /\ Elapse(0) /\ Park
  /\ UNCHANGED <<newFlow, blit, irq>>

WaitFrame == /\ Flow /\ Elapse(Lines - line) /\ Park
             /\ UNCHANGED <<newFlow, blit, irq>>

WaitBelow == /\ FlowGoesOn /\ line < V8 /\ Elapse(V8 - line)
             /\ UNCHANGED <<blit, rest>>

WaitAbove == /\ Flow /\ line >= V8 /\ Elapse(Lines - line) /\ Park
             /\ UNCHANGED <<newFlow, blit, irq>>

\* The first main-loop poll of a gameplay flow ends the frame the level card is shown in.
Handover(l) == newFlow /\ l = MainLoop

WaitScanline(l) == /\ Flow /\ UNCHANGED <<blit, irq>>
                   /\ \/ /\ Handover(l)
                         /\ Elapse(Lines - line) /\ Park /\ newFlow' = FALSE
                      \/ /\ ~Handover(l) /\ line >= l
                         /\ Elapse(ToLine(l)) /\ Park /\ UNCHANGED newFlow
                      \/ /\ ~Handover(l) /\ line < l
                         /\ Elapse(ToLine(l)) /\ UNCHANGED <<at, rest>>

LoadsTitle == /\ FlowGoesOn /\ ~game /\ game' = TRUE
              /\ UNCHANGED <<clock, blit, frozen, asked, newFlow, inten, vec3, vec6, seen, ticks,
                             owed, late>>

\* The $150 loader, or the end of a level: the flow unwinds for its successor.
FlowAsks == /\ Flow /\ game /\ at' = "present" /\ asked' = asked \cup {"gameplay"}
            /\ UNCHANGED <<clock, blit, irq, frozen, game, newFlow, inten, vec3, vec6, seen, ticks,
                           owed, late>>

FlowStep == \/ Executes \/ WritesBlitter \/ WritesBltsize \/ FlowPrograms
            \/ WaitFrame \/ WaitBelow \/ WaitAbove \/ (\E l \in Polled : WaitScanline(l))
            \/ LoadsTitle \/ FlowAsks

(***************************************************************************)
(* A vector, on the host thread.                                           *)
(***************************************************************************)
EnterUnlent(l, next) == \* mutant: the vector is called without a copy of the registers
  /\ at' = "vector" /\ level' = l /\ back' = next /\ borrows' = FALSE /\ lent' = "nothing"

Enter(l, next) == /\ at' = "vector" /\ level' = l /\ back' = next /\ borrows' = FALSE
                  /\ lent' = IF open THEN reg ELSE "nothing"

Vector == at = "vector"
VectorGoesOn == Vector /\ UNCHANGED <<at, level, back, lent>>

\* Its own waits cost nothing and park nobody: pc_on_game_thread() is false.
VectorExecutes == /\ VectorGoesOn /\ Elapse(1)
                  /\ UNCHANGED <<blit, borrows, rest>>

Borrow == /\ borrows' = setup
          /\ used' = IF setup /\ ~borrows /\ used < 2 THEN used + 1 ELSE used

VectorWritesBlitter == /\ VectorGoesOn /\ Borrow
                       /\ open' = TRUE /\ reg' = "vector"
                       /\ UNCHANGED <<clock, setup, rest>>

VectorWritesBltsize == /\ VectorGoesOn /\ Borrow
                       /\ open' = FALSE
                       /\ UNCHANGED <<clock, reg, setup, rest>>

VectorPrograms == VectorGoesOn /\ Programs /\ UNCHANGED <<clock, blit, borrows>>

\* Either loader, off the flow; the title's is also how a vector ends the intro.
VectorAsks == /\ VectorGoesOn
              /\ \/ game /\ asked' = asked \cup {"gameplay"} /\ UNCHANGED game
                 \/ game' = TRUE /\ asked' = asked \cup {"title"}
              /\ UNCHANGED <<clock, blit, borrows, frozen, newFlow, inten, vec3, vec6, seen,
                             ticks, owed, late>>

VectorReturns == /\ Vector /\ at' = back /\ level' = 0 /\ back' = "step"
                 /\ reg' = IF lent = "nothing" THEN reg ELSE lent
                 /\ lent' = "nothing" /\ borrows' = FALSE
                 /\ UNCHANGED <<clock, open, setup, used, rest>>

VectorStep == \/ VectorExecutes \/ VectorWritesBlitter \/ VectorWritesBltsize \/ VectorPrograms
              \/ VectorAsks \/ VectorReturns

(***************************************************************************)
(* pc_step.                                                                *)
(***************************************************************************)
Release == /\ at = "step" /\ at' = "flow" /\ frozen' = FALSE
           /\ crossed' = FALSE /\ late' = (behind # 0)
           /\ UNCHANGED <<line, behind, blit, irq, game, asked, newFlow, inten, vec3, vec6, seen,
                          ticks, owed>>

Freeze == /\ at = "step" /\ at' = "audio" /\ frozen' = TRUE
          /\ UNCHANGED <<clock, blit, irq, game, asked, newFlow, inten, vec3, vec6, seen, ticks,
                         owed, late>>

Present == /\ at = "present"
           /\ at' = (IF frozen THEN "step" ELSE IF "gameplay" \in asked THEN "hand" ELSE "irq")
           /\ frozen' = FALSE
           /\ UNCHANGED <<clock, blit, irq, game, asked, newFlow, inten, vec3, vec6, seen, ticks,
                          owed, late>>

\* coro_deliver_timer_irq; in the intro nothing asks whether level 3 is enabled.
Level3 == /\ at = "irq"
          /\ LET next == IF game THEN "hand" ELSE "chain" IN
             IF vec3 /\ (game => 3 \in inten)
             THEN Enter(3, next) /\ owed' = FALSE
             ELSE at' = next /\ UNCHANGED <<irq, owed>>
          /\ UNCHANGED <<clock, blit, frozen, game, asked, newFlow, inten, vec3, vec6, seen, ticks,
                         late>>

LinkAgain == vec6 # 0 \* mutant: the chain is walked until its bound
Link == vec6 # 0 /\ vec6 \notin seen /\ Cardinality(seen) < ChainMax

Level6Chain == /\ at = "chain"
               /\ IF Link
                  THEN Enter(6, "chain") /\ seen' = seen \cup {vec6}
                  ELSE at' = "hand" /\ seen' = {} /\ UNCHANGED irq
               /\ UNCHANGED <<clock, blit, frozen, game, asked, newFlow, inten, vec3, vec6, ticks,
                              owed, late>>

\* A new flow; what the old one had set up is abandoned with it.  The title goes first.
Hand == /\ at = "hand" /\ at' = "audio"
        /\ asked' = asked \ (IF "title" \in asked THEN {"title"} ELSE {"gameplay"})
        /\ game' = (game \/ asked # {}) /\ newFlow' = (newFlow \/ asked = {"gameplay"})
        /\ setup' = (setup /\ asked = {}) /\ used' = IF setup' THEN used ELSE 0
        /\ UNCHANGED <<clock, open, reg, irq, frozen, inten, vec3, vec6, seen, ticks, owed,
                       late>>

AfterAudio == IF frozen THEN "present" ELSE "step"

\* At 100% speed an audio frame is always due; the intro's plays no ticks.
Audio == /\ at = "audio"
         /\ \/ game /\ at' = "ticks" /\ ticks' = Ticks
            \/ at' = AfterAudio /\ UNCHANGED ticks
         /\ UNCHANGED <<clock, blit, irq, frozen, game, asked, newFlow, inten, vec3, vec6, seen,
                        owed, late>>

Audible == vec6 # 0 /\ 6 \in inten

MusicTick == /\ at = "ticks"
             /\ IF ticks = 0
                THEN at' = AfterAudio /\ UNCHANGED <<irq, ticks>>
                ELSE /\ ticks' = ticks - 1
                     /\ IF Audible THEN Enter(6, "ticks") ELSE UNCHANGED <<at, irq>>
             /\ UNCHANGED <<clock, blit, frozen, game, asked, newFlow, inten, vec3, vec6, seen,
                            owed, late>>

\* The pause menu's retry and its exit to the menu, which clears g_state.
PlayerRestarts == /\ at = "step" /\ game /\ asked' = asked \cup {"gameplay"}
                  /\ UNCHANGED <<at, clock, blit, irq, frozen, game, newFlow, inten, vec3, vec6,
                                 seen, ticks, owed, late>>

ToTitle == /\ at = "step" /\ game' = TRUE /\ setup' = FALSE /\ used' = 0 /\ asked' = {} /\ inten' = {}
           /\ UNCHANGED <<at, clock, open, reg, irq, frozen, newFlow, vec3, vec6, seen, ticks,
                          owed, late>>

\* g_state holds the registers and memory the vectors; the clock's own parts are in neither.
\* A save is taken in a gameplay loop that sets up no blit (GameLoop!FilesResume).
LoadState == /\ at = "step"
             /\ behind' \in Lags
             /\ line' \in IF behind' = 0 THEN 0..Lines - 1 ELSE {line}
             /\ game' = TRUE /\ inten' \in SUBSET Levels
             /\ vec3' \in BOOLEAN /\ vec6' \in Handlers \cup {0}
             /\ asked' \in {{}, {"gameplay"}} /\ reg' = "flow" /\ setup' = FALSE /\ used' = 0
             /\ UNCHANGED <<at, crossed, open, irq, frozen, newFlow, seen, ticks,
                            owed, late>>

HostStep == \/ Release \/ Freeze \/ Present \/ Level3 \/ Level6Chain \/ Hand \/ Audio \/ MusicTick
            \/ PlayerRestarts \/ ToTitle \/ LoadState

Next == FlowStep \/ VectorStep \/ HostStep

Spec == Init /\ [][Next]_vars

(***************************************************************************)
(* What must hold.                                                         *)
(***************************************************************************)
\* A vector delivered in the middle of the flow's blitter set-up cannot corrupt it: whatever
\* vectors ran while the flow was parked, the register it wrote is what it finds.
BlitIntact == at = "flow" /\ setup => reg = "flow"

\* So much is true when at most one vector used the blitter since the flow last wrote to it
\* (hw_blit_regs_save and _restore, coro_call_vector_as).
OneBorrower == used <= 1 => BlitIntact

\* Nothing is lent outside a vector, and only a vector has a level.
VectorsApart == /\ (at = "vector") <=> (level # 0)
                /\ at # "vector" => lent = "nothing" /\ ~borrows
                /\ back \in {"step", "hand", "chain", "ticks"}

\* Why one borrower does no harm.  Until a vector has used the blitter the flow's set-up is open,
\* so every vector is lent the flow's register; the first to use it gives it back, and until a
\* second one does it stays as it was.
FlowsCopy == setup => /\ used = 0 => open
                      /\ borrows => used # 0
                      /\ used <= 1 /\ ~borrows => reg = "flow" /\ lent \in {"flow", "nothing"}
                      /\ used = 0 /\ at = "vector" => lent = "flow"
                      /\ used = 1 /\ borrows => lent = "flow"

\* A turn that begins with the clock caught up stays so, and it is over only when the flow parked
\* or asked for its successor.
TurnKept == /\ at = "flow" => ~frozen /\ (~late => behind = 0)
            /\ at = "present" /\ ~frozen /\ "gameplay" \notin asked => owed
            /\ at = "irq" => owed /\ ~frozen

Inv == TypeOK /\ OneBorrower /\ VectorsApart /\ FlowsCopy /\ TurnKept

\* A wait that gives the frame back has cost the guest a frame: each turn of the flow takes the
\* beam over a frame boundary, in whatever order the vectors and the waits move it, unless the
\* clock still has to catch up with a load (hw_vblank_wait, hw_beam_wait_above, _scanline).
ParkCostsFrame == [][ at = "flow" /\ at' = "present" /\ "gameplay" \notin asked' /\ ~late => crossed' ]_vars

\* Interrupts come as the hardware would send them: level 3 at most once for a frame the flow had,
\* and none for a frozen one; each level-6 handler of the intro's chain at most once in a frame,
\* however the handlers rewrite the vector; and outside the chain nothing of a level that is
\* masked, even by the handler just before (coro_deliver_timer_irq, pc_music_tick).
VectorsInTurn ==
  [][ at # "vector" /\ at' = "vector" => /\ level' = 3 => owed /\ ~frozen
                                         /\ at # "chain" /\ game => level' \in inten
                                         /\ at = "chain" => vec6 \notin seen ]_vars
=============================================================================
