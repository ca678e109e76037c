------------------------------ MODULE GameLoop ------------------------------
(***************************************************************************)
(* The frame loop of src/src/port/game_loop.c: what one pc_step does, in   *)
(* the order it does it, to the screen, the executable image, the guest    *)
(* flow and the requests that replace it.  A request may be raised by the  *)
(* flow, by an interrupt vector run on the main thread, by the pause menu, *)
(* by a key or by the control channel, and is acted on at one later place. *)
(*                                                                         *)
(* Banks stand for the four programs the game loads over the same          *)
(* addresses; what the guest does inside one is a choice among the exits   *)
(* the port's overrides give it.  HandOff.tla models the two threads; here *)
(* releasing the flow for one frame is one action.                         *)
(***************************************************************************)
EXTENDS Naturals

CONSTANTS
  Drives,        \* test drives in use: "credits" is the harness's gocredits
  SaveMayFail    \* can fwrite come up short

ParameterAssumption == /\ Drives \subseteq {"credits"}
                       /\ SaveMayFail \in BOOLEAN

Bank   == {"main", "title", "gameplay", "credits"}
Screen == {"intro", "overlay", "gameplay", "credits"}

VARIABLES
  at,      \* where pc_step is
  ret,     \* the value pc_step will return
  screen,  \* g_pc_screen
  image,   \* the kind of the executor's active image
  bytes,   \* the bank decrunched in guest memory ("torn": cut short by a load)
  flow,    \* the game thread's guest flow
  req,     \* g_enter_gameplay, g_pc_enter_title, g_pc_restart_reinit
  done,    \* s_game_done
  menu,    \* s_paused and s_pending_action
  freecam, \* pc_freecam_paused
  pend,    \* g_pc_pending_save, g_pc_pending_load
  file     \* logs/savestate.bin

game  == <<screen, image, bytes, flow, req, done>>
user  == <<menu, freecam, pend>>
vars  == <<at, ret, screen, image, bytes, flow, req, done, menu, freecam, pend, file>>

Phases == {"tick", "load", "choose", "frozen", "flow", "present", "decide", "hand",
           "save", "audio", "quit"}
MenuAction == {"none", "resume", "retry", "exit", "quit"}
Flow == [phase : {"parked", "over"},
         bank  : Bank,      \* the program it runs
         fresh : BOOLEAN,   \* the image its run was authorised for is still active
         steady: BOOLEAN]   \* its PC is at $577114 / $577130
Request == [gameplay : BOOLEAN, title : BOOLEAN, reinit : BOOLEAN]
File == [kind : {"none", "good", "short"}, screen : Screen, bytes : Bank \cup {"torn"},
         steady : BOOLEAN,  \* the saved PC is a resume point
         gameplay : BOOLEAN, title : BOOLEAN]

TypeOK == /\ at \in Phases /\ ret \in BOOLEAN
          /\ screen \in Screen /\ image \in Bank /\ bytes \in Bank \cup {"torn"}
          /\ flow \in Flow /\ req \in Request /\ done \in BOOLEAN
          /\ menu \in [open : BOOLEAN, act : MenuAction]
          /\ menu.act # "none" => menu.open
          /\ freecam \in BOOLEAN
          /\ pend \in [save : BOOLEAN, load : BOOLEAN]
          /\ file \in File

Parked(bank) == [phase |-> "parked", bank |-> bank, fresh |-> TRUE, steady |-> FALSE]
NoRequest    == [gameplay |-> FALSE, title |-> FALSE, reinit |-> FALSE]

\* pc_init_from_disk: the cold start, or the poster when skip_intro is set.
Init == /\ at = "tick" /\ ret = FALSE
        /\ \/ screen = "intro" /\ image = "main" /\ bytes = "main" /\ flow = Parked("main")
           \/ screen = "overlay" /\ image = "title" /\ bytes = "title" /\ flow = Parked("title")
        /\ req = NoRequest /\ done = FALSE
        /\ menu = [open |-> FALSE, act |-> "none"] /\ freecam = FALSE
        /\ pend = [save |-> FALSE, load |-> FALSE]
        /\ file = [kind |-> "none", screen |-> "intro", bytes |-> "main", steady |-> FALSE,
                   gameplay |-> FALSE, title |-> FALSE]

-----------------------------------------------------------------------------
(* The player and the control channel: keys handled inside a present, and    *)
(* requests of the HTTP thread, which arrive anywhere.                       *)

OpenMenu == /\ ~menu.open
            /\ menu' = [open |-> TRUE, act |-> "none"]
            /\ UNCHANGED <<at, ret, game, freecam, pend, file>>

ChooseMenu(act) == /\ menu.open
                   /\ menu' = [menu EXCEPT !.act = act]
                   /\ UNCHANGED <<at, ret, game, freecam, pend, file>>

ToggleFreecam == /\ screen = "gameplay" \/ freecam
                 /\ freecam' = ~freecam
                 /\ UNCHANGED <<at, ret, game, menu, pend, file>>

AskSave == /\ pend' = [pend EXCEPT !.save = TRUE]
           /\ UNCHANGED <<at, ret, game, menu, freecam, file>>

AskLoad == /\ pend' = [pend EXCEPT !.load = TRUE]
           /\ UNCHANGED <<at, ret, game, menu, freecam, file>>

Player == \/ OpenMenu \/ (\E act \in MenuAction \ {"none"} : ChooseMenu(act))
          \/ ToggleFreecam \/ AskSave \/ AskLoad

-----------------------------------------------------------------------------
(* Requests and the restarts they lead to. *)

\* pc_request_level_restart: only flags; the frame loop acts on them.
RestartRequested(r) == [r EXCEPT !.gameplay = TRUE, !.reinit = TRUE]

\* pc_state_reset_defaults zeroes g_state: the restart flags are in it, the
\* re-init flag is a variable of its own.
ResetRequests(r) == [r EXCEPT !.gameplay = FALSE, !.title = FALSE]

\* pc_cps_start_at on the gameplay image; the frame loop keeps the flags.
GameplayFlow == /\ screen' = "gameplay" /\ image' = "gameplay"
                /\ flow' = Parked("gameplay") /\ done' = FALSE

\* pc_cps_start_at(.., gameplay = 0): it sets the screen to OVERLAY and only then
\* asks g_credits_active which image to run, so the answer is always TITLE.
PosterFlow(program) == /\ screen' = "overlay" /\ image' = "title"
                       /\ flow' = Parked(program) /\ done' = FALSE

\* pc_request_cold_restart (EXIT TO MAIN MENU).
ColdRestart == /\ bytes' = "title"
               /\ PosterFlow("title")
               /\ req' = ResetRequests(req)

\* pc_request_credits_start, driven from the harness between two frames.
DriveCredits == /\ "credits" \in Drives /\ at = "tick"
                /\ bytes' = "credits"
                /\ PosterFlow("credits")
                /\ req' = ResetRequests(req)
                /\ UNCHANGED <<at, ret, menu, freecam, pend, file>>

-----------------------------------------------------------------------------
(* The top of pc_step. *)

\* pc_pause_tick: a menu action chosen since the last step.
PauseTick == /\ at = "tick"
             /\ at' = IF menu.act = "quit" THEN "quit" ELSE "load"
             /\ menu' = [open |-> menu.open /\ menu.act \in {"none", "quit"}, act |-> "none"]
             /\ CASE menu.act = "exit"  -> ColdRestart
                  [] menu.act = "retry" -> /\ req' = RestartRequested(req)
                                           /\ screen' = "gameplay"
                                           /\ UNCHANGED <<image, bytes, flow, done>>
                  [] OTHER              -> UNCHANGED game
             /\ UNCHANGED <<ret, freecam, pend, file>>

\* pc_resume_gameplay_thread: a new thread that resumes at the restored PC.
ResumeFlow == flow' = [phase |-> "parked", bank |-> "gameplay", fresh |-> TRUE,
                       steady |-> TRUE]

\* The image a state with this screen runs on.
ImageOf(scr) == CASE scr = "gameplay" -> "gameplay"
                  [] scr = "credits"  -> "credits"
                  [] OTHER            -> "title"

\* pc_loadstate.  g_state is read in place before the rest of the file is known to
\* be there; only a file without a valid header is refused untouched.  A complete
\* file that is not at a resume point is loaded under the flow already parked.
LoadPending == /\ at = "load" /\ at' = "choose"
               /\ pend' = [pend EXCEPT !.load = FALSE]
               /\ IF pend.load /\ file.kind # "none"
                  THEN /\ screen' = file.screen
                       /\ req' = [req EXCEPT !.gameplay = file.gameplay,
                                             !.title = file.title]
                       /\ done' = FALSE
                       /\ IF file.kind = "good"
                          THEN /\ image' = ImageOf(file.screen) /\ bytes' = file.bytes
                               /\ IF file.screen = "gameplay" /\ file.steady
                                  THEN ResumeFlow ELSE UNCHANGED flow
                          ELSE bytes' = "torn" /\ UNCHANGED <<image, flow>>
                  ELSE UNCHANGED game
               /\ UNCHANGED <<ret, menu, freecam, file>>

\* Paused: the flow is not released, but music and presents go on.
Choose == /\ at = "choose"
          /\ at' = IF menu.open \/ freecam THEN "frozen" ELSE "flow"
          /\ UNCHANGED <<ret, game, user, file>>

-----------------------------------------------------------------------------
(* pc_step_threaded: one frame of the flow. *)

\* The images on which register.c installs the overlay loaders ($6D714, $150).
LoaderImages == {"main", "title", "credits"}

\* The flow runs to its next frame wait; what it is waiting in may be resumable.
FlowParks == /\ at = "flow" /\ flow.phase = "parked" /\ flow.fresh
             /\ at' = "present"
             /\ \E steady \in BOOLEAN : /\ steady => flow.bank = "gameplay"
                                        /\ flow' = [flow EXCEPT !.steady = steady]
             /\ UNCHANGED <<ret, screen, image, bytes, req, done, user, file>>

\* Its outermost call returns: a fault, an unhandled $150 section, or, when the
\* image was replaced while it was parked, at once ("image-replaced").
FlowEnds == /\ at = "flow" /\ flow.phase = "parked"
            /\ at' = "present"
            /\ flow' = [flow EXCEPT !.phase = "over", !.steady = FALSE]
            /\ done' = TRUE
            /\ UNCHANGED <<ret, screen, image, bytes, req, user, file>>

\* native_overlay_loader on the flow: load the title and continue there.
FlowLoadsTitle == /\ at = "flow" /\ flow = Parked("main") /\ image \in LoaderImages
                  /\ at' = "present"
                  /\ screen' = "overlay" /\ image' = "title" /\ bytes' = "title"
                  /\ flow' = Parked("title")
                  /\ UNCHANGED <<ret, req, done, user, file>>

\* native_overlay_loader_reloc, section 0: load gameplay and leave for the host.
LoadGameplay == /\ screen' = "overlay" /\ image' = "gameplay" /\ bytes' = "gameplay"
                /\ req' = [req EXCEPT !.gameplay = TRUE]

FlowStartsGame == /\ at = "flow" /\ flow = Parked("title") /\ image \in LoaderImages
                  /\ at' = "present"
                  /\ LoadGameplay
                  /\ flow' = [flow EXCEPT !.phase = "over", !.fresh = FALSE]
                  /\ done' = TRUE
                  /\ UNCHANGED <<ret, user, file>>

\* Section 3 of the same override, asked for by the win tail $5773A2 of the
\* gameplay engine.  Where the override is not installed the guest's own loader
\* runs, which reads a drive the port does not emulate: the flow never leaves it.
FlowWins == /\ at = "flow" /\ flow.phase = "parked" /\ flow.fresh /\ flow.bank = "gameplay"
            /\ at' = "present"
            /\ IF image \in LoaderImages
               THEN /\ screen' = "credits" /\ image' = "credits" /\ bytes' = "credits"
                    /\ flow' = Parked("credits")
               ELSE /\ flow' = [flow EXCEPT !.steady = FALSE]
                    /\ UNCHANGED <<screen, image, bytes>>
            /\ UNCHANGED <<ret, req, done, user, file>>

\* native_gameover_menu on the flow: request the restart and leave for the host.
FlowGameOver == /\ at = "flow" /\ flow.phase = "parked" /\ flow.fresh
                /\ flow.bank = "gameplay" /\ image = "gameplay"
                /\ at' = "present"
                /\ req' = RestartRequested(req) /\ screen' = "gameplay"
                /\ flow' = [flow EXCEPT !.phase = "over", !.steady = FALSE]
                /\ done' = TRUE
                /\ UNCHANGED <<ret, image, bytes, user, file>>

FlowFrame == \/ FlowParks \/ FlowEnds \/ FlowLoadsTitle \/ FlowStartsGame
             \/ FlowWins \/ FlowGameOver

-----------------------------------------------------------------------------
(* Presenting, interrupts, and acting on the requests. *)

\* hw_present_frame: the window may be closed, or the frame limit reached.
Present == /\ at = "present"
           /\ \E stop \in BOOLEAN : /\ ret' = stop
                                    /\ at' = IF stop THEN "save" ELSE "decide"
           /\ UNCHANGED <<game, user, file>>

\* A vector of the running bank, delivered on the main thread while the flow is
\* parked, may reach an override itself.  It replaces the image under the flow.
VectorQuiet == UNCHANGED game

\* native_overlay_loader off the flow; the boot program's interrupt reaches it, and
\* on the intro screen every level is delivered from here.
VectorLoadsTitle ==
  /\ image = "main"
  /\ screen' = "overlay" /\ image' = "title" /\ bytes' = "title"
  /\ flow' = [flow EXCEPT !.fresh = FALSE]
  /\ req' = [req EXCEPT !.title = TRUE]
  /\ UNCHANGED done

VectorStartsGame == /\ image = "title"
                    /\ LoadGameplay
                    /\ flow' = [flow EXCEPT !.fresh = FALSE]
                    /\ UNCHANGED done

QuitOnDone == \* mutant: the end of the flow is looked at before the request
  /\ at = "decide"
  /\ IF done THEN ret' = TRUE /\ at' = "save" /\ UNCHANGED game
             ELSE ret' = FALSE /\ at' = "hand" /\ UNCHANGED game
  /\ UNCHANGED <<user, file>>

\* A flow that ended with no game start pending ends the program; one still
\* running gets its vertical-blank vector.
Decide == /\ at = "decide"
          /\ IF done /\ ~req.gameplay
             THEN ret' = TRUE /\ at' = "save" /\ UNCHANGED game
             ELSE /\ ret' = FALSE /\ at' = "hand"
                  /\ \/ VectorQuiet
                     \/ /\ ~req.gameplay
                        /\ VectorLoadsTitle \/ VectorStartsGame
          /\ UNCHANGED <<user, file>>

HandTitleAgain == \* mutant: g_pc_enter_title is not cleared
  /\ at = "hand" /\ req.title /\ at' = "save" /\ UNCHANGED req
  /\ PosterFlow("title") /\ UNCHANGED <<ret, bytes, user, file>>

\* The title was loaded off the flow: the host restarts the flow at the poster.
HandTitle == /\ at = "hand" /\ req.title
             /\ at' = "save"
             /\ req' = [req EXCEPT !.title = FALSE]
             /\ PosterFlow("title")
             /\ UNCHANGED <<ret, bytes, user, file>>

\* Enter gameplay, from the start of a game or a level restart; a restart first
\* re-decrunches the gameplay overlay (the level in $20.w is kept).
HandGameplay == /\ at = "hand" /\ ~req.title /\ req.gameplay
                /\ at' = "save"
                /\ bytes' = IF req.reinit THEN "gameplay" ELSE bytes
                /\ req' = [req EXCEPT !.gameplay = FALSE, !.reinit = FALSE]
                /\ GameplayFlow
                /\ UNCHANGED <<ret, user, file>>

HandNothing == /\ at = "hand" /\ ~req.title /\ ~req.gameplay
               /\ at' = "save" /\ ret' = done
               /\ UNCHANGED <<game, user, file>>

-----------------------------------------------------------------------------
(* The rest of pc_step. *)

SaveAnywhere == screen = "gameplay" \* mutant: the resume point is not required

\* pc_savestate_allowed.
SaveAllowed == screen = "gameplay" /\ flow.steady /\ flow.fresh

\* pc_savestate: the file of an earlier save is gone once this one has begun.
SavePending == /\ at = "save" /\ at' = "audio"
               /\ pend' = [pend EXCEPT !.save = FALSE]
               /\ IF pend.save /\ SaveAllowed
                  THEN \E kind \in {"good"} \cup (IF SaveMayFail THEN {"short"} ELSE {}) :
                         file' = [kind |-> kind, screen |-> screen, bytes |-> bytes,
                                  steady |-> flow.steady /\ flow.fresh,
                                  gameplay |-> req.gameplay, title |-> req.title]
                  ELSE UNCHANGED file
               /\ UNCHANGED <<ret, game, menu, freecam>>

\* A level-6 vector, delivered by pc_music_tick on every screen but the intro.
MusicTick == \/ VectorQuiet
             \/ /\ screen # "intro"
                /\ \/ VectorStartsGame
                   \/ /\ image = "gameplay" /\ flow.bank = "gameplay" /\ flow.fresh
                      \* native_gameover_menu, off the flow
                      /\ req' = RestartRequested(req) /\ screen' = "gameplay"
                      /\ UNCHANGED <<image, bytes, flow, done>>

\* pc_audio_frame, and the end of the step.
AudioFrame == /\ at = "audio"
              /\ MusicTick
              /\ at' = IF ret THEN "quit" ELSE "tick"
              /\ UNCHANGED <<ret, user, file>>

\* The frozen step: audio, then hw_present_paused_frame.
FrozenStep == /\ at = "frozen"
              /\ MusicTick
              /\ at' \in {"tick", "quit"}
              /\ UNCHANGED <<ret, user, file>>

Quit == at = "quit" /\ UNCHANGED vars

Step == \/ PauseTick \/ LoadPending \/ Choose \/ FrozenStep
        \/ FlowFrame \/ Present \/ Decide
        \/ HandTitle \/ HandGameplay \/ HandNothing
        \/ SavePending \/ AudioFrame

Next == Step \/ (at # "quit" /\ Player) \/ DriveCredits \/ Quit

Spec == Init /\ [][Next]_vars

\* pc_run calls pc_step again and again (game_loop.c:117); nothing is assumed of
\* the player, nor of what the guest does with its frame.
FairSpec == Spec /\ WF_vars(Step)

-----------------------------------------------------------------------------
(* What must hold. *)

\* A step that does not end the program leaves a flow the next step can release:
\* no restart path forgets to replace a flow that has returned.
FlowCanRun == at \in {"tick", "load", "choose", "frozen", "flow"} =>
                flow.phase = "parked" /\ ~done

\* A flow whose image was replaced while it was parked (by a vector, on the main
\* thread) always has a successor requested: it is never released to run on as if
\* its program were still there.
StaleFlowIsReplaced ==
  ~flow.fresh => req.title \/ req.gameplay \/ bytes = "torn" \/ ret \/ at = "quit"

Inv == TypeOK /\ FlowCanRun /\ StaleFlowIsReplaced

\* The program the flow runs, the bytes in guest memory and the executor's image
\* identity agree whenever the flow is released, unless its successor is pending
\* (gameplay and credits reuse the title's addresses).  The harness's credits
\* drive is excepted: it runs the credits' bytes on the title image.
ProgramMatchesImage ==
  at = "flow" /\ bytes \notin {"torn", "credits"} /\ flow.fresh =>
    flow.bank = image /\ flow.bank = bytes

\* A requested hand-off is never lost to the end of the old flow: the program does
\* not stop while a game start is pending, except on the player's own request.
HandOffSurvivesOldFlow ==
  [][ at = "decide" /\ at' # at /\ ret' => ~req.gameplay /\ ~req.title ]_vars

\* "Saves are only ever taken in that state, so every valid savestate loads this
\* way" (savestate.c:157): a complete file holds a gameplay state at a resume point
\* with no hand-off in flight.  The one exception is a restart requested in the step that ends the
\* program: its save keeps g_enter_gameplay, and loading it starts the level over.
FilesResume == file.kind = "good" => /\ file.screen = "gameplay" /\ file.steady
                                     /\ ~file.title
                                     /\ file.gameplay => ret

\* A level restart that was requested takes place, unless the player freezes the
\* game, leaves it, or replaces the state it was requested in.
RestartHappens ==
  req.gameplay ~> (~req.gameplay \/ menu.open \/ freecam \/ at = "quit")

=============================================================================
