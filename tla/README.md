# Benefactor: models and proofs

TLA+ models of the Benefactor port, model-checked with TLC and, for the parts that matter most for every
size of the system, proved with TLAPS. Everything is translated from the code under `src/`; paths below are
relative to it. `PROJECT.json` maps each definition to the lines it stands for.

## 1. The system

The port runs the original 68000 game in an interpreter and replaces selected routines with native C.
One process has two threads that alternate (the SDL/main thread and the *game thread* that executes the
guest program), a third one when the control channel is served, and a UI thread on Android.

| Component | State it keeps | Operations | Talks to |
|---|---|---|---|
| Thread hand-off (`port/game_loop.c` 231-400) | `s_turn`, `s_game_exit_req`, `s_game_done`, `s_game_thread_live`, a mutex and one condition variable | yield, run one frame, stop, spawn | the flow's waits; the frame loop |
| Frame loop and lifecycle (`port/game_loop.c`) | `g_state`: screen, image, requests; `g_pc_restart_reinit` | `pc_step` in phases, cold/level restart, credits, requests | menu, savestates, loaders, vectors |
| Executor adapter and interception (`runtime/guest_runtime.cpp`, `guest_call_policy.*`, `overrides/register.c`) | per-thread lists of bodies an exit or a continuation will flag; active image; guest clock | call, tail transfer, continue original, jump, exit to host, interrupt | the interpreter (a sibling repository), the native bodies |
| Guest time: beam, waits, vectors, blitter set-up (`engine/hw_beam.c`, `engine/hw.c`, `wait_idiom.c`, `guest_vectors.c`) | cycle base and count, INTENA, vectors, blitter registers, `s_blt_setup_open` | four waits, BLTxxx and BLTSIZE writes, level-3 and level-6 delivery, music ticks | hand-off; executor |
| Savestates (`port/savestate.c`) | one file | save, load | frame loop |
| Control channel, input script, debugger, watchdog (`port/control/*`, `port/debug/*`, `engine/hw_watchdog.c`) | `paused_`, `step_left_`, `press_left_`, the watchdog's timer | pause, resume, step, press, hold, breakpoint | the frame loop, from an HTTP thread, without a lock |
| Pause menu, level select, input, configuration, free camera | page, cursor, binding capture, pending action; codes held; overrides and `benefactor.json`; the camera's point and curtain | navigation, capture, rebinding, changing and overriding a setting; pan, return | frame loop; the guest's reading of input; the control channel |
| Setup screen (`platform/setup_flow.cpp`, `desktop_setup.cpp`, `android_setup.cpp`, `web_setup.cpp`, the activity, `disk_setup.js`) | pending selection, `picker_active`, Android's delivery slot, the page's queue of answers | browse, deliver, step, dismiss | a chooser on another thread or task |
| Disk store (`platform/disk_selection_store.cpp`, `staged_disks.cpp`, `setup_flow.cpp`) | selection file, two install slots, an import area | import, publish, persist, recover | the file system |
| Devices (`engine/hw.c`, `hw_blitter.c`, `hw_audio.c`, `overrides/audio.c`) | register shadows, cached pointers, INTENA/INTREQ, a CIA timer; blitter pointers and accumulator; four channels and an effect voice | register writes as words and bytes, blits, a frame of audio in pieces | guest code, guest time, the audio device |
| Frame pacing (`engine/frame_pacer*`, `hw_pace_frame`) | deadline, frames since rebasing, display match, two cadences | a frame, a change of speed, display or match, a hold | the present, the audio queue |
| Rendering (`render/*`, `engine/hw.c`) | snapshot ring, captured lists, the wide layer, the draw list; a window, its swapchain, textures, fence and semaphores | compose, present, resize, open and close a backend | gameplay overrides, frame loop, the GPU |
| Gameplay overrides (`overrides/gameplay.c`, `platformer.c`, `pickup.c`, `boot.c`) | momentum and expected place; latches of a held key; captured objects, figures, banner | a handler of the player's pose, the terrain pass, the input decode, walks of the object list | guest routines they wrap, input, renderer |
| Levels and progress (`level_layout.c`, `profile.c`, `boot.c`) | worlds on the disks, `s_completed`, `profile.json`, `$20` | complete, continue, pick, exit | menu, hand-off |
| Update check, frame accounting, harness and lockstep, build tools | | | not modelled, section 8 |

`PROJECT.json` lists all 49 parts with what is and is not modelled of each.

### What is hard here

*Interleaving.* The guest state has no lock: only the alternation of two threads keeps them apart. The
control channel writes plain integers the frame loop decrements. Interrupt vectors run on the main thread in
the middle of whatever the parked flow was doing, blitter set-up included. Android answers a chooser under
one mutex while the setup screen asks under another; the page reads documents behind awaits.

*Replacing a running program.* Retry, exit to menu, a load, native game over, a start of a game and the loaders
(reached from the flow or from a vector) may follow each other within one step; each must end with one flow,
running the program that is in memory, and everything the old one left on C stacks, in flags and in image
identities must be gone.

*Failure and restart.* Imports may fail at every file-system call and the process may die between any two;
saves and loads may be short.

*Input with several owners.* A key may be pressed in the game, repeat into the menu and be let go in a binding capture;
the same menu is driven by keyboard, pads, touch and the control channel, and its rows depend on settings that any of them
changes, that an override or the environment masks, and that may not reach the disk.

*Guest time.* Waits are native and would be free; they must cost the guest what the hardware would have made
it wait, while vectors move the same clock.

*State kept across frames beside a guest that does not know of it.* The wide renderer mirrors what the guest left on its
pages; the platformer remembers where it expects the player; the input bridge shows the guest presses that are not there
and must take them back; the copper walk draws memory as it was some frames ago; the sound voice carries half a period over.
Each is right only as long as it notices every other way its subject can change: a level load, a savestate, a change of a setting.

*Long and short runs of numbers.* A deadline is rounded at every frame for hours, a period at every byte; a blit goes on where
the last one ended; a stall owes frames.

*A GPU and a window that do as they like.* Between any two calls of a present.

What makes each component correct is stated at the property in its module; section 4 says which run checks it.

## 2. Modules

| Module | Models | Where its actions come from |
|---|---|---|
| `TurnTaking` | abstract: host and guest take turns; a flow ends, is retired, is created | what `game_loop.c:231` promises |
| `HandOff` | the two threads, every critical section, sleeping, waking and spurious waking | one action per critical section of `game_thread_yield/main/spawn/stop/run_one_frame`; the mutex is the atomicity of the action |
| `GameLoop` | the order of phases of one `pc_step`, requests, restarts, loaders on and off the flow, saves and loads | one action per phase; the guest is a choice among the exits the overrides give it |
| `GuestCalls` | C stacks of alternating interpreter runs and native bodies on two threads, over one guest stack | `rt_call`, `rt_jump`, `rt_continue_original`, `rt_exit_to_host`, `call_fn_as`, the policy's three boundaries |
| `GuestTime` | clock, beam, the waits, blitter set-up, level-3/6 delivery and music ticks | the waits of `hw_beam.c`, `hw_write16`, `coro_deliver_timer_irq`, `pc_music_tick`, and `pc_step` around them |
| `FrameHold` | input script, breakpoints and watchdog, load by load and store by store | `InputScript::frame`, the routes, `hw_pace_frame`, `hw_watchdog_*` |
| `Installation` | abstract: the installed set is replaced whole or not at all | what `staged_disks.cpp:4-6` promises |
| `DiskStore` | importing a set as the file-system steps it is, with failure and death at each | `validate_staged_disks`, `publish_import`, `persist`, `committed_disks` |
| `SetupFlow` | the setup screen and its hosts, with both mutexes and the page's queue | `SetupFlow::step/deliver`, the Android natives, the activity, `disk_setup.js` |
| `Settings` | where a key's value comes from, what a change writes, and what a failed or interrupted write leaves | `pc_cfg_show`, `pc_cfg_set`, `pc_cfg_persist`, `pc_config_load` |
| `Menus` | pages, cursor, binding capture and rows; the routing of keys, pad buttons, touches and requests to menu, level-select panel or game; what is held | `hw_handle_key`, `hw_handle_pad_code`, `apply_action`, the `/menu` and `/pickup` routes, `pause_menu.c`, `input.c` |
| `Blitter` | area blits with shifts, masks, minterms and fill, lines, and what a finished blit leaves | one action per way of programming `BLTSIZE`; `run_blit`'s modes |
| `Paula` | channels, the effect voice, a frame rendered in pieces between music ticks | DMACON and AUDx writes, `hw_audio_render`, the effect override, `pc_audio_frame` |
| `Ports` | the register file as guest code sees it | `hw_write16/8`, `hw_read16/8`, the CIA |
| `FramePacing` | deadlines, rebasing, stalls, fast-forward's sampling | `FramePacer`, `hw_pace_frame`, the present's cadences |
| `VulkanWindow` | a present call by call; window and GPU move in between | `vulkan_present`, `sw_rebuild`, `vk_ensure_base` |
| `PresentBackend` | what each backend makes and destroys, the fallback, the output's width | `hw_init`, `hw_fini`, the two backends' init and close, resize events |
| `CopperWalk` | a picture from a copper list and planes, from a delayed snapshot | `native_render_frame` and its ring |
| `WideView` | where the wide view stands in a level; which objects are passed on | `ws_view_left`, `ws_follow_clamp`, `ws_obj_cull_skip` |
| `WideSprites`, `WideScene` | quads from what was captured; the layer, the draw list, and the window that draws the list | the `native_ws*_compose` passes, `scene.c`, `scene_sdl.c`, `hw_compose_output` |
| `WideCapture` | the guest's object walk, its two pages, and the capture's account of them | `native_objwalk`, `native_objdraw` and their helpers |
| `WideOverlay` | the other lists, and the banner | the remaining captures, `native_ws_promote` |
| `Flight` | the platformer in the air, and fall damage | the pose handlers and the terrain pass of `platformer.c` |
| `Controls` | from held keys to what the guest decodes and does | `hw.c`'s resolve, the bridge in `gameplay.c`, the wrappers in `pickup.c` |
| `Levels` | worlds, names, progress, picker, hand-off | `level_layout.c`, `profile.c`, the title menu of `boot.c` |
| `FreeCam` | pans, bounds, both returns, the curtain | `pc_freecam_tick`, the toggle |
| `HandOffProofs`, `GuestTimeProofs`, `DiskStoreProofs`, `MenusProofs` | theorems of the module of that name; `DiskStoreProofs` also of `SetupFlow` | |
| `GuestFlowProofs` | theorems of `GuestCalls`, `GameLoop` and `FrameHold`, as `MCGuestFlow` runs them | |
| `DevicesProofs` | theorems of `VulkanWindow`, `Ports`, `Paula`, `PresentBackend` and `FramePacing`, as `MCDevices` runs them | |
| `GameplayProofs` | theorems of `Flight`, `Controls`, `Levels`, `FreeCam` and its `WideView`, as `MCGameplay` runs them | |
| `WideSceneProofs` | theorems of `WideCapture` and `WideOverlay`, as `MCWideScene` runs them | |
| `MC*` | instances for TLC | |

How they fit: `HandOff` implements `TurnTaking` (refinement, checked and proved); `GameLoop`, `GuestCalls` and
`GuestTime` use what it promises (the flow runs in its turn only, a turn is one frame) and each treats the
others' concern as a choice: `GameLoop` decides which flow is next and does not look inside a turn,
`GuestCalls` looks at the stacks, `GuestTime` at the clock and the interrupts. `SetupFlow` decides when a set is
judged, `DiskStore` what that does on disk; `DiskStore` implements `Installation`. `Menus` extends `Settings`, and decides
which deferred action is pending; `GameLoop` takes any of them and decides what it does to the running program.
`WideView` is the geometry under `WideCapture` (what is captured), `WideSprites` and `WideScene` (what is drawn of it) and `FreeCam`
(where the camera may go). `PresentBackend` opens the window in which `VulkanWindow` presents; `FramePacing` says when.

**Benches.** Components that share no state are instantiated side by side in one MC module and explored one at a time: a variable
`bench`, chosen at the start and never changed, says which one steps, and the others stay in one fixed state. The instance's
state space is therefore the sum of the components', never the product, and each property of a component is stated of its own
bench. `MCGuestFlow`, `MCDisks`, `MCDevices`, `MCWideScene` and `MCGameplay` are built so; a component's specification is the one of its module, fairness
included, with `bench = ".." /\` before the action.

### Assumptions worth knowing

*HandOff.* Thread creation and `pthread_join` do not fail. The initial thread is `Main`; identities of game
threads are reused only after a join.

*GameLoop.* Four programs ("banks") over the same addresses. A torn load (a short file read into place) is
modelled and then excluded from `ProgramMatchesImage`, since nothing in the code repairs it.

*GuestCalls.* The interpreter is external: a run stops when the return address it watches is taken off, and a
tail transfer stops where the run below it does. Bodies are replacements, observers and loaders, the three
shapes `register.c` registers. A body that has got a hand-off makes no further call; a loader that is jumped to is
entered from the root run of the flow; the "$0" trap is a loader that leaves without loading.

*GuestTime.* Time is counted in lines; one blitter register stands for `$040..$074`. `behind` is the reported
cycle count minus base plus elapsed, when positive: a loaded state can leave it so. A save is taken where no
blit is being set up (`GameLoop!FilesResume` says where saves are taken). The music-mute switch and the present
that is declined because one is in progress are not modelled.

*FrameHold.* Loads and stores of the shared integers are atomic and in program order; the compiler is allowed
more, and so a violation here is real and a pass is a statement about that build.

*DiskStore.* A rename is atomic and survives the death of the process (the power staying on); removal and copy
take one step per image. One instance of the program runs.

*Blitter, Paula, Ports.* A word is a set of bits and a byte of sound a place, so that nothing is computed that no property reads.
Paula's channels share DMACON only, so the instance has one. A sound has at least a byte (an effect of none is not started, section 7),
and the byte loops of `hw_audio_mix` are given as many turns as a sample has time for: `TurnsSuffice` proves that they need no more. The accumulator of a line is not carried to the next line
(section 7).

*VulkanWindow.* Calls that fail are named one by one. A failing allocation of the base texture's memory and a failing rebuild of the
swapchain are modelled ("memory", "swapchain") and left out of the instance and of the theorem: the code does not survive them (section 7).

*PresentBackend.* A failed Vulkan init leaves its window and instance behind; the SDL fallback opens a second window beside it.
A call whose result the code asks for ends the init when it fails (`FallsBack`); one whose result it ignores (`Ignored`: the command
pool and buffer, binding and mapping the atlas's memory, the acquire's semaphore, the fence) leaves its object in `absent`, and the init goes on
(`Misses`). What a driver does with a handle that is not there is undefined: the program dies or goes on. Each frame makes the picture it shows
if it is missing or of another size; nothing else is made again. Queries (formats, images, devices, extensions) and the host's memory answer.
What becomes of a half-made base in use is the matter of *VulkanWindow*.

*WideCapture.* `MovesWithFrame`: an object that moves on the guest's page changes its animation frame, as the guest's dirty decision
itself supposes. `WS_OBJ_MAX` is a bound that lists of the game do not reach (section 7 says what happens at it).

*WideScene.* `SamePicture` is about the rows on which the game still runs five planes: where it stops earlier, the window draws
the list over what the layer left.

*Flight.* The guest decides poses, walls and floor; damage, its meter and its tiles are a table. The knob is toggled once, the shoes
are worn from the start or never.

*Controls.* One player: what is held changes between frames, by one key at a time. *Levels.* Names are slots; the knob that unlocks
everything and the developer's direct entry are left out.

*FreeCam.* A drift of the engine's camera between two ticks is bounded by `Drift`: in fast-forward several game frames pass per tick.

*Menus.* A press does not depend on what is held, so what is held is followed for one code (`watch`), chosen at the
start: all codes together would only multiply states. A behaviour either follows a code or changes settings, since
neither looks at the other. The shadow's capacity of 24 codes, analog thresholds, chords and the panel's choice of level are
left out. An environment variable is fixed while the program runs. A settings file that holds something unreadable, and
keys whose name holds a quote or a backslash, are left out.

*SetupFlow.* On the page, tasks run between animation frames only. `Players` distinguishes one who waits for
each choice to arrive (`patient`) from one who does not.

## 3. Bounds

| Run, bench | Instance | Why it is enough |
|---|---|---|
| `guest_flow`, hand-off | main and three game threads | a restart needs one thread and a successor; a third would overlap both if a stop did not join. The theorems have no bound |
| frame loop | credits drive on, saves may fail | every variable is finite in the code as well: no bound is imposed |
| calls | 5 runs and bodies per thread, 4 return addresses, 3 images | two native bodies with runs below, between and above, on both threads; an image replaced, and replaced again under a body that saw the first |
| hold | presses and steps of 1 or 2 frames, of 1 with fast-forward or with requests that overlap `frame()` | 1 is the last frame of a count, 2 is not the last |
| `guest_time` | 3 lines, 2 handlers, chain of 2, 2 ticks, lag 0 or 2 | a line before the main loop's, the main loop's, one with VPOSR's bit 8; two handlers make a ring; two vectors in one park. The theorems have no bound |
| `disks`, store | two images instead of three | a set can be partly whole, partly copied, partly removed. The theorems have no bound |
| setup | three hosts, both players, activity there or missing, two images, three presses | two choices on their way while a third is asked for |
| `menus` | four keys, three buttons, four touches; one file, one setting in the environment; two changes, or one code followed | each way a press is routed, each page and each kind of row is there; a change after an override, after a failed one and after another's; a scheme with its extra row |
| `devices`, blitter | words of 4 bits, 9 words, two rows; copies, masked bobs and fills, up and down, shifts 0-3; every line of up to three steps on 8 x 4 dots | a shift that crosses a word, a mask at both ends, a row after a row, a fill with and without carry; all octants and both signs of the error |
| Paula | one channel, samples of 3 and 4 bytes, one that loops its last two bytes, to where it ends; periods 0 and 2; 3 ticks in 4 samples; 2 effects | a period's remainder across a byte, a piece and a loop; an effect that takes another's place |
| registers, timer, hands | one pointer pair, two byte values, 3 lines; all states of the CIA timer, of stick and buttons | the halves in any order, as words and bytes; a set and a clear |
| pacing | 12 units to a PAL frame (600 a second), speeds 100 and 120 %, fast-forward at 500 %, three displays, 3 frames to a rebase, 2 to a stall, 40 units, 3 changes | 10-unit periods of a 120 % game that must not round; a rebase, a stall and a change of pace in one behaviour |
| window | two sizes of window and of content, three resizes or failures | a resize before, within and after a rebuild |
| backend | Vulkan built in or not, asked for or not; five shapes, one size the window is dragged to beside those of the fixed shapes and the desktop, two failing calls | an init that stops anywhere, its fallback too; one that goes on without two of its objects; a half base |
| `wide_scene`, copper | 4 x 5 pixels, 3 planes, ring of 3, delay 0 or 1; lists of two WAITs with every pair of moves, at two places COP1LC may name | a pointer half in a later line, a wrap past the last line, a ring not yet full |
| objects | a list of nodes two of which share a descriptor; two cameras, two widths, 3 walks, a load | a dirty count that runs down over both pages; a node known by its type |
| passes, banner | one thing a list, 3 walks, 2 banners of 4 presents | a walk in the banner's frame and after it |
| scene, ropes | 14 frames chosen to meet each clause (narrow level, free camera, overlay, wide GPU window, arena and atlas full); every rope in 8 x 6 | one more quad than a shelf, than the arena |
| `gameplay`, flight | half dots; terminal speeds 1 and 2; 3 columns, a wall on either side | every hand-over between hop, arc, fall, landing and a change of the knob |
| controls | eight presses, 3 held at once, three schemes | a press held over handlers and frames, let go while another is held |
| levels | vanilla worlds of 1 and 2 levels, two extra of 2, one fault | a gap between worlds, a hole among the extra ones |
| camera | two levels, one narrower than the view; pan of 3, curtain of 2 x 2 | both returns, at the point where one becomes the quicker |

`CHECK_DEADLOCK FALSE` is given where a bench reaches its bound or stops by itself (`devices`, `wide_scene`, `gameplay`) and in the run that looks
for the deadlock as an invariant. `guest_flow`, `guest_time`, `disks` and `menus` check deadlock; a call
bench at its bound and a closed setup screen stutter.

## 4. Runs

`tlc -config <run>.cfg <module>` for each; module and configuration are named in `PROJECT.json`.

**guest_flow** (`MCGuestFlow`). *Hand-off:* `Inv`, the inductive invariant of section 6: one of the two threads touches the guest
at a time (`OneRuns`), and a thread sleeps only while its condition is false. `ExitRunsNoGuestCode`: a stopped thread executes no guest
instruction on its way out, from wherever it was. `HostGetsBack`: a stop ends whatever the guest would have done, and a released
frame comes back. `TurnsKept`: the protocol implements `TurnTaking`, fairness included. *Frame loop:* `LoopOK`: a step that does
not end the program leaves a flow the next step can release, a flow whose image was replaced under it has a successor
requested, the bytes in memory and the executor's image agree, and a complete save is of gameplay, at a resume
point, with no hand-off in flight. `HandOffSurvivesOldFlow`: the end of the old flow is not taken for the end of the game. `RestartHappens`: a
restart asked for takes place. *Calls:* `CallsOK`: what an exit or continuation can flag is exactly the bodies the thread is inside,
and nobody reaches the executor with the identity of an earlier image. `CallsUnwind`: however a body ended, its return
address is taken off once, an exit takes every run and body below it with it, a vector leaves the parked flow's frames alone.
*Hold:* `HoldOK`: the watchdog is down in every hold and up in every guest frame; where no request overlaps `frame()`, a press is
released in time. `HoldEnds`: a step of N lets N frames begin, a lasting pause stops the game and a lasting resume lets it run.

**guest_time** (`MCGuestTime`). `Inv`: includes that one vector that blits does the parked flow's blit no harm
(`OneBorrower`), with the strengthening that explains it (`FlowsCopy`). `ParkCostsFrame`: a wait that gives the
frame back has cost the guest a frame boundary. `VectorsInTurn`: level 3 at most once for a frame of the flow, each
handler of the intro's chain at most once, nothing masked outside it.

**disks** (`MCDisks`). *Store:* `Inv`: each step of an import finds what the earlier ones promise. `SelectedUntouched`: the slot in use is
never altered. `InstallsWholeOrNothing`: implements `Installation`. `DisksEnd`: every import ends, and what interrupted ones
leave does not defeat later ones. *Setup:* `SetupOK`: a kept delivery has a picker on its way, two choices of the browser never
mix, and for a patient player no circular wait and no report to a destroyed flow. `PicksArrive`: what a patient player on Android or in
the browser chose is not dropped, and every pick ends.

**menus** (`MCMenus`). `NothingLatched`: no code that was let go stays held for the game, wherever the menu was
opened, closed or asked for a binding between its press and its release. `Inv`: the cursor is on a row of its page, the row
that asks for a key is the one that will be bound, the page with RETRY and EXIT is not reached from the title's options, and no
rewrite of the file loses a setting to an earlier one that failed. `MenuAnswers`: the way out of a page leads to the row
that leads in, and a change is seen in its own row and no other, over any override, whether or not it was written.

**devices** (`MCDevices`). `Draws`: blits chained without reloading a pointer draw what one blit would; a copy is a shift of one stream of
bits; a filled row is lit between its edges; a line's dots are the nearest to the true line. `Sound`: a channel reads inside its sample, an effect's
pitch is exact to the clock however the frame was cut, what sounds is what the engine arbitrates with. `EffectsEnd`: an effect that does
not loop ends, one the engine ended falls silent. `Coherent`: cached pointers are where the registers point, in whatever order the halves came;
a byte write does not undo its other half; the guest's decodings of beam and stick find what is there. `Timed`: a frame is due
at its exact time less the roundings since the last rebase, never before, never as a sprint, and a fast-forwarded game is sampled
at PAL's rate: at most what has passed and a stall, and while frames keep PAL's pace at least that but for what the cadence gives up
where it starts again (on the hour and at most twice besides). `VulkanSafe`: fence and semaphore are never waited for or signalled in vain, and nothing the GPU uses is destroyed.
`FollowsWindow`: once the window is left alone, so is what is shown. `Backed`: no object outlives its parents, over the fallback too; a backend that
runs has everything its init asked about, and lacks only what it did not ask about; a closed one left nothing; and the output's width is its mode's.

**wide_scene** (`MCWideScene`). `CopperOK`: a line of the picture is what the chips would show, of memory and list of one moment. `CapturesOK`: each object
on the guest's pages is listed once, as a page has it, of this level; none in view is left out; a banner stands no longer than its time. `PicturesOK`: what
the window draws from the list is what was composed, dot by dot, both are the picture of the captured things, and shadows fall behind.
`BannerLasts`: a banner is not taken down early, and ends.

**gameplay** (`MCGameplay`). `FlightOK`: speed is lost only to a wall that is there, never exceeds the cap, and nothing is left of a flight on
the ground. `ControlsOK`: the shadow is what the hands hold; a press acts once; fire only jumps. `LevelsOK`: the two directions of the layout agree, CONTINUE
leads to an open level, every open world can be reached in the picker, the profile lists no level that was not won. `StepsHonest`: a hop
only slows, damage is what the setting says, the level that starts is the one shown. `CameraReturns`: a camera told to come home does,
by the quicker way, with no jump in sight.

**guest_time_blit**, **frame_hold_race**, **setup_flow_dialog**, **menus_rebind**, **flight_arc** each find
a disagreement of the code with one of its own comments: section 7.

Every property listed is also refuted by a deliberate defect in one definition (the operators commented
"mutant" in the modules), named in `PROJECT.json`: so none holds merely because the model has no way to break it.

## 5. Fairness

| Specification | Assumed | Why the code justifies it |
|---|---|---|
| `HandOff!ScheduledSpec` | WF of each woken wait, of the join, and of a created thread's own steps | the kernel schedules runnable threads; the guest itself is assumed nothing of |
| `HandOff!GuestReachesWait` (premise of the second half of `HostGetsBack` and of `TurnsKept`) | guest code reaches a wait or returns | `hw_watchdog.c` ends the process when it does not |
| `GameLoop!FairSpec` | WF(Step) | `pc_run` calls `pc_step` again and again (game_loop.c:117) |
| `FrameHold!FairSpec` | WF(FrameLoop), WF(Finish) | the same loop; a route that has begun is finished by its thread |
| `DiskStore!FairSpec` | WF(Import \/ Promote) | straight-line code between two calls of the player |
| `SetupFlow!FairSpec` | WF(FlowStep), SF(HostStep) | the setup loop runs on; strong because the page's tasks are enabled only between animation frames, and a mutex is free only now and then |

| `Paula`, in `DevSpec` | WF(FrameGoesOn) | the audio frame is called every frame of the loop |
| `VulkanWindow!Spec` | WF of a present's steps, of the next present, and of the GPU's end of its work | straight-line code; the loop presents; a GPU that hangs is the driver's to report |
| `WideOverlay!Spec` | WF(Present), WF(EndPass) | the loop presents, and a pass of the guest ends |
| `FreeCam!Spec` | WF(AFrame) | the loop ticks the camera once a presented frame |

`GuestCalls`, `GuestTime`, `Menus`, `Blitter`, `Ports`, `FramePacing`, `PresentBackend`, `CopperWalk`, `WideCapture`, `WideScene`, `Flight`, `Controls` and `Levels` state safety only and assume none.

## 6. Proofs

All eight proof modules are checked to the last leaf; they rest on the ASSUMEs of the modules they extend and on the standard
library's theorems only. The ASSUMEs, which TLC evaluates on every instance, say:

- `MainAssumption`: the main thread is none of the game threads;
- `TimeAssumption`: the line of VPOSR's bit 8 is in the frame and not its first, polled lines are lines, the main loop's among them,
  handlers are non-zero;
- `ViewAssumption`: sizes in columns are positive and the screen is even; `CameraAssumed`: a pan is no faster than a step home and
  the engine's camera slower, levels are ranges of columns;
- `CallsBounded`, `LoopBounds`, `HoldBounds`, `PicksBounded`, `ChangesBounded`: the bounds are numbers, and the switches switches;
- `TruthsSpelt`, `ValuesTurn`: a file says "true" or "false" where a switch of the menu is stored, and rows that turn have values;
- `WindowAssumed`, `PortsAssumed`, `PaulaAssumed`, `BackendAssumed`: which calls may fail; a frame longer than VHPOSR's byte counts and not
  twice as long; sounds, lengths and periods are numbers, and a sound has a byte; windows have a width and a height;
- `BlitterAssumed`, `DrawingAssumed`: a word has an even number of bits and registers hold what registers hold, moduli of whole words; the words a plain copy writes lie in
  memory outside the copper list, each a word of its own and none of those it reads, and a fill goes down memory unshifted, the way it runs (`Apart`); a line's
  registers hold a line's terms, pen and octant, and its dots are on the picture (`Drawable`). Areas that are neither copies nor fills may write where they read;
- `FlightAssumed`, `ControlsAssumed`, `LevelsAssumed`: gravity, push, drag and the fall's cap are positive, a jump is upward, a stick is left,
  right or neither, and the hurt table has numbers; what can be reached lies at numbers, and a range and a reach are not negative; there is a world, each
  vanilla world has a level, an extra one too, and there are so many slots for extra worlds;
- `CapturesAssumed`, `MovesAssumed`, `OverlayAssumed`: the walker's list has each object once, an object lies at a 16-bit place and has a width, an object
  that moves changes its frame, and there is room in a list and time for a banner; `CopperAssumed`: sizes are positive, the ring has two slots, and a copper list (`Sane`) is one of MOVEs, WAITs and SKIPs
  that writes the high half of a pointer right before the low one, and has no more WAITs than the renderer has room for pointers (`MAX_ANCHORS`, more than
  the picture has lines);
- `SpriteAssumption`, `SceneAssumption`, `RopesAssumed`: a picture has lines, there is a layer, an arena and an atlas; a frame is whole (`Whole`): its rows, columns,
  places and distances are numbers, its camera's edges are in order, and what it captured are lists of pictures of at least a dot; there is a rope, and its ends are dots.
  Nothing is assumed of how many things there are, where they lie, or whether they fit.

A bench's theorem is about the whole of the MC module's specification (`FlowSpec`, `DisksSpec`, `DevSpec`, `PlaySpec`, `WideSpec`): its steps are the component's or leave
the component alone. Bounds on depth and counts are constants there, so a theorem for every bound is one for runs of every length.

**HandOffProofs** (345 obligations), for every set of game threads. `Inv` says, for every value of the flags, where
the two threads may be. `OneRuns` alone is not inductive: a step of `GameWake` preserves it only because a
thread that finds `turn = "game"` and no exit requested can only have been released: the main thread is in its
frame wait or in the join unless the flow is over (`TurnIsTaken`), in the join an exit is requested (`ExitMeansJoin`), and
a flow that is over has no thread in a wait (`DoneIsOver`). The flags cannot be reset under a thread that still waits,
because a spawn follows a join (`OneGameThread`, `StoppedIsDead`). Theorems:
`InvHolds`, `TypeCorrect`, `ExactlyOneRuns`, `AtMostOneGameThread`, `WakeupsReachTheirThread`, `StoppedThreadRunsNothing`,
and `ImplementsTurnTaking`: under the mapping (`ControlMap`, `FlowMap`) the initial states map to initial states
and each step to a step of `TurnTaking` or a stutter.

**DiskStoreProofs**, for every set of images. `Inv` carries what each step of an import hands to the
next: the slot taken is not the one selected, what is promoted was judged and is whole, a selection is renamed only
when written to the end. Theorems: `InvHolds`, `SelectedStays`, and `Implements`: the import with its failures
and crashes implements `Installation`. *The setup screen*, for any number of images and presses: `SetupInvariant` and `SetupHolds` (`SetupOK`),
`ChoicesArrive` (what `PicksArrive` forbids a step to do). What `PatientIsSafe` forbids is a state of two mutexes, but what prevents it is that
one choice at a time goes round: pressed, posted to the UI thread, on the screen, queued, reported, kept in the session, taken, judged (`OneWay`,
`Patient`). The invariant says which of these places may be filled when, that where nothing can be on its way the host is idle (`Quiet`), and that
each runnable that was posted comes from a press (`Counted`), without which a second one could come up behind the first.

**GuestTimeProofs** (714 obligations), for every number of lines, handlers, polled lines, ticks and lags. The blit
part of `Inv` needs to know more than where the register's contents come from: until a vector uses the blitter the
flow's set-up is open, so each vector is lent a copy; the first to use it gives it back; until a second does it
stays (`FlowsCopy`). The clock part says that a turn that began with the clock caught up stays so, which is what makes
each wait's charge reach the boundary (`ElapseCrosses`, `LineFacts`). Theorems: `InvHolds`, `OneBorrowerIsHarmless`,
`FlowPaysForItsTurns`, `InterruptsInTurn`.

**MenusProofs**, for every set of codes, bindings, rows, files and environments. `Unlatched`: the code followed is held only while it is
down (`NothingLatched`). Every press reaches the shadow as itself or not at all (`KeyReaches`, `ButtonReaches`), and every release
reaches it. `MenuHolds`: `Inv`, which is inductive: that no rewrite forgets a setting follows from each rewrite's text being the last text
with the change made. `MenuAnswersHolds`: that a turned row shows its new value takes more (`MenuInvariant`): a switch whose text is neither "true" nor
"false" is shown as one default and turned from another, so that the new value is sure to differ from the old only where file, session and text spell
switches by these two (`Truths`).

**GuestFlowProofs**, for every bound on depth, presses and steps, with and without failing saves and overlapping requests.

*Calls* (`CallsInvariant`, `CallsHold`, `CallsUnwindHolds`). That a body's end is one return to the guest is a statement about one step, but what
it returns to depends on how every run and body below came to be. `CallsInv` says of each place on a stack, whatever its depth: runs
and bodies take turns (`Alternates`); a run's boundary is where the body that called it stood or, for a body that has its original go on, that body's own
return, which for one that was jumped to is the boundary of the run below (`RunOK`); only a body that was jumped to may owe no return, and one that does
stands at its run's last address (`NativeOK`); only the top has been told to
leave; the guest's stack is as deep as the top expects, on the thread whose turn it is, a vector's being put on the parked flow's (`Depth`, `TopOK`,
`StacksOK`). `FramesOK` says that the adapter's lists are the bodies, and `BodiesCurrent` that a body which may still call holds the image
there is: `NoStaleCall` needs to know who was told to leave when the image was replaced.

*The frame loop* (`LoopInvariant`, `LoopHolds`, `HandOffSurvives`). `LoopInv` ties the loop's phase to what is pending: a title restart only
between the decision and the hand-off (`TitlePending`), a game start that restarts no level only after a loader has replaced the image
(`GamePending`), the end of the flow in the loop's flag and the flow's phase alike (`Endings`), a fresh flow on the bytes of its image
(`BankRuns`), a save begun at a resume point of gameplay and no other (`SavesOK`). From these follow the two statements of section 4 that no
single phase keeps: a released flow runs the program in memory, and a saved file can be resumed.

*Holds and steps* (`HoldInvariant`, `HoldHolds`, `StepsKept`). `HoldInv` follows the script load by load and store by store: where no request falls
inside `frame()`, what was loaded is what the store finds (`Serving`), the frames seen and left of a press never exceed those asked but for the one begun
(`Pressing`), the same for a step's budget (`Stepping`); the watchdog's part (`TimerKept`) holds for overlapping requests too. `StepsKept` is
the safety half of `HoldEnds`.

**DevicesProofs**, for every value of the constants of all of `MCDevices`'s benches.

*A present* (`WindowInvariant`, `VulkanHolds`), for any number of presents, resizes and failures. That nothing the GPU uses is destroyed follows from
the fence, and that the fence is not waited for in vain from where it is reset: `WindowInv` says that the GPU is idle exactly when the
fence is up, but between an acquire and its submit (`Fenced`), that a job was recorded for the swapchain and the base there are, and that from the copy on the base is
whole and of the content's size (`Kept`). The hypothesis `Survived` names the failures it is proved for: the two the code does not survive
(section 7) are excepted, and with either `VulkanSafe` is false.

*The register file* (`PortsInvariant`, `CoherentHolds`), for every set of pointers, bytes and lines: a write keeps every other register's
bits, a set or clear the named ones only; the beam's two registers give the line back as long as the frame is shorter than two bytes' worth.

*The sound* (`PaulaInvariant`, `TurnsSuffice`, `SoundHolds`), for every set of sounds, buffers, periods, rates and ticks. `Sound`
asks that a sound's first pass was heard in full and in time; the invariant is that what was heard is what was due, to the clock: bytes taken
times their period plus the remainder (`Ended`), whatever the pieces of the frame (`Pieces`). The loops are recursive functions in the
model, of sample, turn and piece; what they preserve is proved by induction over their index.

*The backends* (`BackendInvariant`, `BackedHolds`), for every size of window and desktop and any number of failing calls: one whose result
is asked for ends the init, after any other the init goes on without what it should have made (`absent`), so that what runs has all it asked about
and SDL all it names; that drawing through a handle that is not there may end the program is part of the model, not ruled out. The order of the two
inits and shutdowns is spelt out place by place (`OrderIs`, `VulkanDestroys`), then what an object is made of is made before it (`MadeInOrder`) and goes after it
(`ChildrenFirst`), so that an init which stops anywhere leaves nothing without its parents (`Lived`); the output's width is the setting's
for the window once no resize is queued (`Shaped`).

*The frame clock* (`PacingInvariant`, `TimedHolds`), for every set of speeds, displays, works, holds and oversleeps, every rebase interval
and any number of frames. A deadline's loss against the exact one is a variable's worth of state (`Lost`): a frame adds a period to both
(`NextLoses`), a change or a rebase rounds once (`ShiftLoses`), and no pass of the loop rounds twice, because a change leaves no frames
to rebase from unless the clock is rebased at every frame, and then there are none to lose. For the cadences, a place (`Place`) that moves by a PAL frame with each one delivered; one that has
not delivered every frame so far is within two frames of the clock (`KeptUp`), whence the rate, and whence a stall makes it start again once at most.
The lower bound is stated with the restarts counted, because a restart on the hour moves the place to the clock and gives up to two frames
away: a bound without them holds of short runs only.

*The blitter* (`BlitInvariant`, `DrawsHold`), for every set of areas and lines, every size of word, memory and list of rows. `Draws` says of each finished blit what it
drew since the registers were programmed; `BenchBlitInv` keeps, as memory goes by, that the blits so far are one blit of all their rows, and of a first blit what it drew. Its parts:

- *Chains* (`BlitsChain`): a row hands the next its pointers, its memory and its shift registers, and only the last is lost between blits. Without a shift a word
  and so a row depends on memory and pointers alone (`RowOfMemory`), and pointers move by as much whatever is drawn.
- *Copies* (`CopyArea`, `ShiftMoves`): word k of the destination is the k-th source word with the bits the shift took from the one before, whichever row that was in; along all the rows
  that is the stream of bits moved by the shift. It rests on no word being written twice, nor one that is read.
- *Fills* (`FillLights`): half a word is lit where the parity of the edges up to a dot says so, by induction over its bits (`HalfOfEdges`); the carry from half to
  half and from word to word is the parity of the edges so far in the row (`CarriesOn`), and starts anew with each row.
- *Lines* (`LineDraws`): after k dots the accumulator is Bresenham's term for the k-th (`Term`), so that its sign decides when the line steps across, and the dot nearest
  the true line is the one reached (`AcrossOn`, `AtDot`); the step's two moves of shift and pointer keep word and bit those of that dot in each octant (`StepGoesOn`). A dot lights its
  own bit and no other (`DotLights`, `DotsApart`), and with one dot to a row asked for, a row's first is the one inked (`InksIs`).

**GameplayProofs**, for every value of the constants of `MCGameplay`'s benches.

*The controls* (`ControlsInvariant`, `ControlsHold`), for every set of presses, every scheme of every device and any number of changes. A held key is
shown to the guest in decode after decode, and acts once only if what showed it remembers: the bridge for lifting, each handler's latch for
throwing. `Counters` says what each remembers of the count so far, and for which hands and schemes: with `fire` held beside `interact`, or a device of
the vanilla scheme, a press has two ways to act and the count is of both. `FromKeys` says what the shadow can hold in which scheme, from which
follows that a bare fire never reaches a handler that lifts.

*The flight* (`FlightInvariant`, `FlightHolds`, and its half of `StepsKept`), for every tuning, every stick and every terrain pass. `OwnFlight` is kept while the knob is
off, too: the player is where the native flight put him unless the pass took him back, and no faster than his shoes allow. A frame is a pose
handler and the pass, and the proof is cut there: `Leaves` is what a handler leaves behind, of a rise, a fall, a hop or an impact alike, `Handed` what
the pass is handed by handler or guest, `PassIs` what it makes of it. The meters of a fall are bounded (`CountedIs`), without which a fall's price would not be in
the table. Where the guest's arc has moved the player in between, `OwnFlight` says nothing; section 7 has the consequence.

*The levels* (`LevelsInvariant`, `LevelsHold`, and the rest of `StepsKept`), for any number of worlds, levels, extra worlds, names and crashes. Where a world
begins and which world a level is in are two loops over the same counts: `FirstsAre` and `LeftIs` say by induction what each has after a
world, `SplitIs` that a level is in one world only, and so that the two directions agree (`LayoutHolds`). That CONTINUE leads to an open level
(`ContinueHolds`) is a matter of cases at the last level and at the extra worlds' first. That going right in the picker meets every open world is
an induction over steps (`AllToTheRight`): a step goes to the next open world, so that what it skips is locked. `LevelsInv` says that the chosen
start is open, that the guest's level is in the layout where a menu shows it, and that what is saved was won; what is open stays so because it
depends on the greatest level won, or on the level and the one before (`OpenStays`).

*The camera* (`CameraInvariant`, `ReturnsQuickly`, `NothingJumps`), for every speed, set of levels, output and drift. `QuickHome` counts frames and is not inductive: the strengthening `OnItsWay`
says that a pan's remaining distance and the frames it has used together fit what the curtain would take, that under the curtain the count is
no more than `fade`, and that outside a return it is none. `NothingJumps` uses it (a camera under the curtain is not also panning home) with
three geometric lemmas: the view moves no more than the point it follows (`ViewMoves`), a pan's step shows whole or not at all (`PanMoves`),
and the frame that cuts is the one whose alpha is the closed curtain's (`CutIsBehindTheCurtain`). These are the two safety parts of `CameraReturns`;
that the camera does come home is left to TLC.

*The view* of the wide picture, for every width of screen, output, level and object: where it stands (`ViewLiesInLevel`), that the free camera's clamp
and the view's own clamp are one (`ClampShowsTheSame`), and that what the walker culls is out of sight as long as an object is no wider than the pad
(`SeenIsPassedOn`). The lemmas reduce each to the edges of the view.

**WideSceneProofs**, for every value of the constants of `MCWideScene`'s benches.

*The objects* (`CapturesInvariant`, `CapturesHold`), for every list, every look of its objects, any number of walks, levels and savestates.
The capture has to know of each object what two pages show, without seeing them. `CapInv` says how the guest's count of it tells: an object
drawn twice running is on the page it was last drawn to and remembered as it is there, one drawn three times running is on both
(`OnPages`); `LastPage` is that page, the one being drawn to for objects the walk has been at and the other for the rest, and
`LastIs` says how it turns over at the walk's end. Then what the guest leaves undrawn is as remembered (`PersistsAsDrawn`, where
`MovesWithFrame` is needed: the guest compares frames only), and the entry an object gets is of its own picture (`CapturedIs`). A level or a state
starts over, and what the list still has is told by its era (`EraEnds`). The hypothesis `Fits` says that the list holds every object of
the walk; without it the invariant is false (section 7). That the walker leaves out nothing that is seen (`SeenIsPassed`) is of every width
above the engine's and every camera.

*The passes and the banner* (in `CapturesHold`; `BannerStandsItsTime`). A list is what its pass put up as far as there is room (`Prefixed`); a banner has
been presented for what its time has gone down, and the walks counted since its first present are no fewer than the walker has gone on since (`Stands`), from which
follows that a walk of the frame that set it up does not take it down. `BannerStandsItsTime` is the safety half of `BannerLasts`.

*The copper list* (`CopperHolds`), for every list, picture, ring, delay and any number of frames. What the chips would show is said of the list as it stands: an instruction runs unless a
SKIP that runs is before it (`Runs`), it takes effect at the line of the WAIT before it (`EffectAt`), a line's register is of the last MOVE that
takes effect there or above (`LineAt`), its pointer of the last low half there that followed a high half (`SetFor`), or what the line above left. The renderer
goes through the list once and keeps none of that. `WalkInv` says what its state is at an instruction, in terms of the list before it: line numbers count
from as many wraps as there were (`TimesAt`), the registers are of the last MOVEs (`CursAt`), lines passed have theirs for good (`ScansDone`, which rests on effects never
going back up, `EffectMonotone`), a plane is in hand when its low half came after its high half since the last WAIT (`HandsAt`, `HalvesAt`), and the
last anchor of a line that sets a plane is of the last low half that counts there (`AnchorsAt`). Each kind of instruction keeps it (`StepKeeps`), and the walk is over after as
many steps as the list is long (`WalkEnds`), whence each line's registers and anchors (`WalkIs`) and, line by line down the picture, its pointers (`LineAnchored`). What is
drawn is of one moment because the ring holds the memory of d frames ago d slots back, also while it fills (`RingInv`).

*The pictures* (`PicturesHold`), for every frame, layer, arena, atlas and any number of frames. The lemmas go along the draw list: every pass emits quads whose ink is of
their size (`EmittedIs`, with one lemma for each kind of thing); what is built is a list of them, all of it when none was left out (`BuiltIs`), and does not depend on how wide
the layer has become (`SameEmitted`). The shelf packer keeps every quad's place apart from those before it as long as the atlas is not full (`PlacesApart`), so that a texel baked is
the texel drawn (`AtlasHolds`). What is painted at a dot is the last quad over it (`PaintedIs`); laid quad after quad, shadows between them, it is the same one, and a dot
still in a shadow has no quad over it from the one that cast the shadow on (`OverlaidIs`). The columns the renderer, the window's clip and the GPU's scissor let through are
the same (`ShownIsClip`, `ScissorIsClip`). `SceneInv` then says that a scene that is ready was built for the frame composed last and painted the output (`Composed`); each of the
two windows draws what was painted (`WindowIs`, `GpuIs`), and `LevelDrawn` follows for a layer sized by any earlier level.

*The ropes* (in `PicturesHold`), for any two ends. After so many steps of the line the rope has come along by as many dots on its longer side (`Come`), its error term is a fixed distance
from how far it is off the straight line (`Off`), and that is half a dot at the most; so it steps on the longer side every time (`FlatStep`, `SteepStep`) and is at its end exactly when
it has come that far (`AtEnd`, `NotOff`).

**Induction.** The library's induction theorem takes an operator for a parameter, which no installed prover can instantiate. Stated for a *set* of
numbers it can be cited (`Induction` and `SetInduction`, from the library's well-foundedness of `<`), and so can a lemma that a recursive function exists
(`Iterates`, `RecursionExists`): with these `DevicesProofs` reasons about the functions `f[n]` of the sound, `GameplayProofs` about those of
the layout and the picker, and `WideSceneProofs` about the walk of a copper list (`WalkExists`, `PointersExist`)
and, by one lemma for every recursion with values in a set (`Iterated`), about the draw list, the atlas, the GPU's dots and the rope's line, and in `DevicesProofs` about a blit's rows, its fill table and the dots of a line. RECURSIVE operators stay out of reach.

**Model-checked only.** All liveness (`HostGetsBack`, the fairness half of `TurnsKept`, `RestartHappens`, the liveness in `HoldEnds` and
`PicksArrive`, `DisksEnd`, `EffectsEnd`, `FollowsWindow`, `BannerLasts`, the return in `CameraReturns`): ENABLED is beyond the prover.
Every safety invariant and every action property that a passing run checks, alone or as the safety half of one of these, is stated by a theorem.

## 7. Disagreements found

Each with a run that exhibits it, quoted in `PROJECT.json`:

- **Two vectors in one park** (`guest_time_blit`). A vector's BLTSIZE clears `s_blt_setup_open`, so the second
  vector is lent no copy and its writes stay in the flow's blit (hw.c:2347 against the comment at 316-318).
- **A press is never released** (`frame_hold_race`). `--press_left_` is a load and a store; a press served between
  them is overwritten (input_script.cpp:69).
- **The desktop's chooser locks itself out** (`setup_flow_dialog`). The host is asked with `pending_mutex` held and answers
  on the same thread (setup_flow.cpp:137, 207).
- **A key that cannot be bound** (`menus_rebind`). The comma and plus keys are stored by their SDL names and read back through a
  grammar where `,` and `+` separate keys: the action is left with no binding (input.c:369 against pause_menu.c:20-21).

- **A fall that forgets its speed** (`flight_arc`). After a native hop onto a trampoline, the arc's hand-over to the fall keeps the place the
  hop expected; the fall takes the difference for a wall and stops the player, against "the fall entry preserves the tracked
  momentum" (platformer.c:571-576).

Met while modelling, without a run of their own. Some are stated as operators of the modules, no run of which checks them:

- `g_pc_restart_reinit` is not in `g_state`, so a restart overtaken by an exit to the menu or a load leaves it set for the next
  start of a game (game_loop.c:969);
- Android's delivery slot outlives the setup flow whose screen was dismissed (android_setup.cpp:233): `FlowOutlivesDelivery` holds
  for the patient player only, which is why `PatientIsSafe` says so;
- a load asked for while the level-select panel is open lands in gameplay with the panel still up, taking arrows and Esc
  (hw.c:928 against the comment at 806-808), until the panel is dismissed;
- pad Start opens the options over that panel while Esc then closes the panel first (hw.c:1067, 810);
- a binding capture for the keyboard is left by Esc only, although pause_menu.c:744 says "ESC / pad B: cancel capture" (hw.c:1057
  hands every pad button to the capture, which ignores it);
- the first press on UPDATE CHECK that was never set stores the value it shows: the toggle's default is off, the row's on
  (pause_menu.c:418, 1017-1056). `RowAnswers` names the exception;
- a settings file is truncated before it is written (config.c:429): a death in between loses every setting;
- `pc_input_release_all` (input.c:280) is called by nobody, so a focus loss releases nothing by itself;
- the harness's credits drive runs the credits' bytes on the title's image identity (game_loop.c:757), and the credits branch
  of the `$150` loader jumps without asking whether it is on the game thread (overrides/boot.c:746);
- an override registered for the win tail is never reached in the gameplay image (overrides/register.c:44, boot.c:731);
- fast-forwarded frames are counted by presses and steps only when shown (hw.c:1534 against debugger.h:20);
- the watchdog is re-armed after a hold in a frozen step, which had not armed it (hw.c:527 against hw_watchdog.c:19);
- Android takes its two mutexes in one order in the picker's failure path and in the other in the report
  (android_setup.cpp:229, setup_flow.cpp:137);
- a second pick replaces one that has not been taken (setup_flow.cpp:208);
- after a load whose cycle count is behind the clock, waits move no beam until it has caught up: the load does not fold
  the elapsed cycles (guest_runtime.cpp:824-830 against 239-242). `ParkCostsFrame` speaks of the other turns;
- `s_blt_setup_open` and `s_gameplay_frame_start_pending` are not saved, and are stale after a load;
- the intro's level-3 and level-6 delivery does not ask INTENA, although hw.c:173-177 says a handler fires only when enabled;
- the selection is not flushed before it is renamed (disk_selection_store.cpp:80): safe against the death of the process,
  not of the machine; two instances importing at once share one import area.
- completing an extra level (61 and up) unlocks every vanilla level, though profile.c:122-123 speaks of their "own
  progression" (`Levels!OwnProgression`); the cursor may rest on a locked level after an exit from an extra one, because the title clamps
  `$20` to 60; the panel's keys clamp to `PC_NUM_WORLDS` where the picker uses `pc_num_worlds_ui` (hw.c:882-896);
- a death between truncation and write of profile.json loses all progress (profile.c:75);
- the upload buffer of a frame is written before the fence of the frame that may still read it is waited for, against "1 frame in
  flight" (present_vulkan.c:638; `VulkanWindow!OneInFlight`);
- `vulkan_init` does not look at the results of `vkCreateCommandPool`, `vkAllocateCommandBuffers`, `vkCreateSemaphore` and `vkCreateFence`
  (present_vulkan.c:1278, 1283, 1307, 1310), nor `vk_tex_make` at those of the binds and the map (848, 876-877), and sets `ok` all the same: after
  such a failure there is no fallback, though 1883-1884 count on one (`PresentBackend!Misses`);
- `vk_ensure_base` asks for a texture's image and size only (897), so one whose memory or view failed is taken for whole by the next frame, and
  `sw_rebuild`'s failure is not looked at;
- the list's address and the palette it starts from are those of the moment the frame is drawn, although all it reads is said to be "read from the
  same delayed view" (native_renderer.c:136, 160 against 406-408): a guest that moves COP1LC would show a new list's place in old memory;
- a failed `vulkan_init` leaves its window, and the fallback opens another, against "created ONCE at init" (hw.c:1215); the comment at
  hw.c:512-513 is of an earlier order;
- a line's error term is not written back, against "Carry ASH/BSH/SIGN back" (hw_blitter.c:291; `Blitter!LinesContinue`);
- the effect voice is not part of the saved state, so a load leaves the old effect sounding; an effect of no length would leave
  the old voice as well;
- the shadow of the Marry Men is raised although native_renderer.c:1721 says "no shadow"; the banner is taken down by the promotion, not by
  the walk the comments at gameplay.c:1185 and 1244 name; with a margin of 0 the hardware renderer draws no list at a width of
  exactly 352;
- pickup.c:89 ("extend==0 never reaches here") does not hold for the modern scheme, and pickup.c:309-311 contradicts gameplay.c on the
  `$108e` arm; a card's hop that stands for fire stays in the shadow after the card has gone, until the next event (hw.c:728-731), and after free
  cam the shadow stays empty as long; a release and press of interact within one frame does not rearm its latches;
- an object that finds the captured list full (`WS_OBJ_MAX`) is not remembered either, though the guest draws it: a later frame that has room for
  it shows it as it was before (gameplay.c:1108). Met in the proof, whose hypothesis `Fits` excludes it;
- a change of level while the free camera comes home may make the return longer than the curtain; switching to the vanilla
  renderer while it is out is not refused.

## 8. Not modelled, and why

What a pixel looks like and what a sample is worth (palette, shaders, filters, volumes, fonts, icons) is data, checked by the repository's own
comparisons; the models follow which bits, texels and bytes are taken. The 68000 interpreter is another repository; the modules
that need it say what they rely on. The renderer's sprite overlay of the copper walk, screenshots and the compare view; disk decrunching
and relocation; the HTTP server's read-only routes; HUD and toasts; and the player's animation are left out for size: they keep no state
that another part reads. The update check is a worker whose result is adopted by the frame loop and is still to do; frame accounting is
counters for a reader. The harness and lockstep are test tools around an external emulator. Packaging, release and identity
tools run offline and have tests of their own. Diagnostics only read. Individual reasons are in `PROJECT.json`.

## 9. Plan

Done: the hand-off and its abstraction, the lifecycle around it, calls, guest time, holds and steps, the disk store and
its abstraction, the setup screen, the menus with input and settings; the devices, pacing and presentation; the wide picture from
capture to window; flight, controls, levels and camera; proofs of hand-off, calls, frame loop, holds and steps, guest time, disk store, setup screen,
menus, view, free camera, presents, register file, blitter, sound, backends, frame clock, flight, controls, levels, captures, banner, the copper list, the draw list and its pictures.

Next, most important first:

1. **Update check** (`update_check.cpp` and its hosts): the worker's result adopted by the frame loop, with a shutdown at
   any point.
2. **Harness and lockstep** (`harness/*`, `port/lockstep.c`): alignment, the protocol over pipes, first divergence.

Abstract specifications worth stating on the way: a *restart* as the pair of requests and their one effect, implemented
by `GameLoop`; a *balanced call* (one return per entry), implemented by `GuestCalls`.
