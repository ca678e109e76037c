--------------------------- MODULE PresentBackend ---------------------------
(***************************************************************************)
(* Which backend owns the window, what it makes and destroys, and how wide *)
(* the output is: hw_init, hw_fini and the widescreen and fullscreen       *)
(* settings of engine/hw.c over present_sdl.c and present_vulkan.c.        *)
(***************************************************************************)
EXTENDS Integers, Sequences, SequencesExt

CONSTANTS
  Built,     \* is the Vulkan backend built in: a set of BOOLEAN
  Wanted,    \* what "present" may say: "", "sdl" or "vulkan"
  Windows,   \* sizes the window may be given, the desktop's among them
  Desktop,
  MaxFaults  \* bound: calls that fail

BackendAssumption == /\ Windows \cup {Desktop} \subseteq (Nat \ {0}) \X (Nat \ {0})
                     /\ Built \subseteq BOOLEAN /\ MaxFaults \in Nat

VARIABLES
  doing,    \* hw_init, the game, hw_fini, and how they ended
  backend,  \* s_backend
  made,     \* the objects that exist
  absent,   \* what the code goes on without: it did not ask how the call ended, or kept half a base
  want,     \* the "present" setting
  mode,     \* the "widescreen_mode" setting, unset: the width of "widescreen"
  out,      \* s_hw_out_w
  window,   \* the window's size
  before,   \* the size it had before it was made full screen
  full,     \* it fills the screen
  knob,     \* the "fullscreen" setting
  queued,   \* a resize event is queued
  faults    \* history: calls that failed

objects == <<backend, made, absent, want>>
size    == <<mode, out, window, before, full, knob, queued>>
vars    == <<doing, objects, size, faults>>

-----------------------------------------------------------------------------
(* What is made, in which order, and what of it needs what *)

RenderPass == <<"renderPass">>
Pipelines  == <<"sampler", "setLayout", "layout", "setPool", "shaders", "pipe", "shadowPipe">>
Effects    == <<"fxShaders", "fxLayout", "fxPipe">>

Order(b) ==
  IF b = "vulkan"
    THEN <<"vkWindow", "instance", "surface", "device", "swapchain">> \o RenderPass \o <<"targets", "pool", "cmd">>
           \o Pipelines \o Effects \o <<"atlas", "atlasMap", "acquireSem", "fence">>
    ELSE <<"window", "renderer", "texture">>

\* Made at the first frame that needs it.
Late(b) == IF b = "vulkan" THEN {"base"} ELSE {"sceneCache"}

\* What each frame shows, made when a frame finds it missing or of another size.
Picture(b) == IF b = "vulkan" THEN "base" ELSE "texture"

\* Calls of vulkan_init, and of the atlas it makes, whose results nothing asks for: the command pool
\* and buffer, the binding and mapping of the atlas's memory, the acquire's semaphore, the fence.
Ignored == {"pool", "cmd", "atlasMap", "acquireSem", "fence"}

Of(b) == Range(Order(b)) \cup Late(b)

Parents(o) ==
  CASE o \in {"vkWindow", "instance", "window"} -> {}
    [] o = "surface" -> {"vkWindow", "instance"}
    [] o = "device" -> {"instance"}
    [] o = "swapchain" -> {"surface", "device"}
    [] o = "cmd" -> {"pool"}
    [] o = "atlasMap" -> {"atlas"}
    [] o = "targets" -> {"swapchain", "renderPass"}
    [] o = "layout" -> {"device", "setLayout"}
    [] o \in {"pipe", "shadowPipe"} -> {"device", "layout"}
    [] o = "fxPipe" -> {"device", "fxLayout"}
    [] o = "renderer" -> {"window"}
    [] o \in {"texture", "sceneCache"} -> {"renderer"}
    [] OTHER -> {"device"}

\* vulkan_shutdown and sdl_shutdown, of what is there. The command buffer goes with its pool, the
\* mapping with the atlas.
Shutdown(b) ==
  IF b = "vulkan"
    THEN <<"fence", "acquireSem", "fxPipe", "fxLayout", "fxShaders", "shadowPipe", "pipe", "shaders",
           "layout", "setPool", "setLayout", "sampler", "atlasMap", "atlas", "base", "targets", "renderPass",
           "cmd", "pool", "swapchain", "device", "surface", "instance", "vkWindow">>
    ELSE <<"sceneCache", "texture", "renderer", "window">>

Fail == faults < MaxFaults /\ faults' = faults + 1

-----------------------------------------------------------------------------
(* hw_init and hw_fini *)

\* hw_resolve_backend and present_backend_select.
Select == /\ doing = "start"
          /\ \E built \in Built :
               backend' = IF want \in {"", "vulkan"} /\ built THEN "vulkan" ELSE "sdl"
          /\ doing' = "init" /\ UNCHANGED <<made, absent, want, size, faults>>

Missing(b) == {i \in DOMAIN Order(b) : Order(b)[i] \notin made \cup absent}

\* The next call works; the renderer is asked for twice, and the first may fail.
Makes(next) == /\ Parents(next) \cap absent = {} /\ made' = made \cup {next}
               /\ (faults' = faults \/ (next = "renderer" /\ Fail))
               /\ UNCHANGED <<doing, backend, absent>>

\* It fails and init goes on, since nothing asks; what is made of a handle that is not there is
\* undefined, and may end the program.
Misses(next) == /\ next \in Ignored /\ absent' = absent \cup {next}
                /\ \/ Fail /\ UNCHANGED doing
                   \/ Parents(next) \cap absent # {} /\ doing' \in {"init", "died"} /\ UNCHANGED faults
                /\ UNCHANGED <<backend, made>>

\* It fails and the init with it: the window is asked of SDL.
FallsBack(next) == /\ next \notin Ignored /\ Fail /\ UNCHANGED <<made, absent>>
                   /\ IF backend = "sdl" THEN doing' = "refused" /\ UNCHANGED backend
                      ELSE backend' = "sdl" /\ UNCHANGED doing

\* The backend's init asks for the next of its objects.
Make == /\ doing = "init" /\ Missing(backend) # {}
        /\ LET next == Order(backend)[CHOOSE i \in Missing(backend) : \A j \in Missing(backend) : i <= j]
           IN Makes(next) \/ Misses(next) \/ FallsBack(next)
        /\ UNCHANGED <<want, size>>

Started == /\ doing = "init" /\ Missing(backend) = {}
           /\ doing' = "run" /\ full' = knob
           /\ IF knob THEN before' = window /\ window' = Desktop /\ queued' = TRUE ELSE UNCHANGED <<before, window, queued>>
           /\ UNCHANGED <<objects, mode, out, knob, faults>>

\* A frame makes the picture it shows, or fails to and is skipped, and the next one tries again. Not
\* so half a base, whose image is there and whose memory is not: it is only freed at another size.
\* A frame drawn without a handle it names is undefined, and may be the last.
Present ==
  /\ doing = "run"
  /\ \/ /\ \E also \in SUBSET Late(backend) : made' = made \cup {Picture(backend)} \cup also
        /\ absent' = absent \ {"base"} /\ UNCHANGED faults
     \/ /\ Fail /\ made' = made \ {Picture(backend)}
        /\ (absent' = absent \/ (backend = "vulkan" /\ absent' = absent \cup {"base"}))
     \/ "base" \in absent /\ UNCHANGED <<made, absent, faults>>
  /\ (doing' = "run" \/ (backend = "vulkan" /\ absent' # {} /\ doing' = "died"))
  /\ UNCHANGED <<backend, want, size>>

Close == doing = "run" /\ doing' = "closing" /\ UNCHANGED <<objects, size, faults>>

Destroy ==
  /\ doing = "closing"
  /\ LET left == {i \in DOMAIN Shutdown(backend) : Shutdown(backend)[i] \in made}
     IN IF left = {} THEN doing' = "closed" /\ UNCHANGED made
        ELSE made' = made \ {Shutdown(backend)[CHOOSE i \in left : \A j \in left : i <= j]} /\ UNCHANGED doing
  /\ UNCHANGED <<backend, absent, want, size, faults>>

-----------------------------------------------------------------------------
(* The width of the output *)

Display == 352
H       == 282
OutMax  == 960

Clamp(w) == LET in == IF w < Display - 64 THEN Display - 64 ELSE IF w > OutMax THEN OutMax ELSE w
            IN in - (in % 2)

\* The display window's two borders alike.
Width43 == 330

Fixed == {"disabled", "16:9", "ultrawide"}

WidthOf(m, win) == Clamp(CASE m = "disabled" -> Width43
                           [] m = "16:9" -> (H * 16) \div 9
                           [] m = "ultrawide" -> (H * 21) \div 9
                           [] OTHER -> (H * win[1]) \div win[2])

\* hw_widescreen_refresh gives the window a fixed shape, unless it fills the screen.
Fits(m, w) == IF m \in Fixed /\ w # out /\ ~full
                THEN window' = <<w * 2, H * 2>> /\ queued' = TRUE ELSE UNCHANGED <<window, queued>>

Refresh(m) == IF m = "unset" THEN UNCHANGED <<out, window, queued>>
              ELSE out' = WidthOf(m, window) /\ Fits(m, WidthOf(m, window))

\* The pause menu's row.
SetMode(m) == /\ doing = "run" /\ mode' = m /\ Refresh(m)
              /\ UNCHANGED <<doing, objects, before, full, knob, faults>>

\* hw_fullscreen_refresh, from F11 and from the menu's row.
SetFull == /\ doing = "run" /\ knob' = ~knob
           /\ IF knob' = full THEN UNCHANGED <<window, before, full, queued>>
              ELSE /\ full' = knob' /\ queued' = TRUE
                   /\ IF knob' THEN before' = window /\ window' = Desktop ELSE window' = before /\ UNCHANGED before
           /\ UNCHANGED <<doing, objects, mode, out, faults>>

\* The player drags the window, and the event is handled.
Drag(w) == /\ doing = "run" /\ ~full /\ w # window /\ window' = w /\ queued' = TRUE
           /\ UNCHANGED <<doing, objects, mode, out, before, full, knob, faults>>

\* Mutant: every resize is followed, a fixed shape's own included.
FollowAll == /\ doing = "run" /\ queued /\ queued' = FALSE
             /\ out' = Clamp((H * window[1]) \div window[2])
             /\ UNCHANGED <<doing, objects, mode, window, before, full, knob, faults>>

Resized == /\ doing = "run" /\ queued /\ queued' = FALSE
           /\ out' = IF mode = "auto" THEN WidthOf("auto", window) ELSE out
           /\ UNCHANGED <<doing, objects, mode, window, before, full, knob, faults>>

Init == /\ doing = "start" /\ backend = "none" /\ made = {} /\ absent = {} /\ want \in Wanted
        /\ mode \in Fixed \cup {"auto", "unset"}
        /\ out = (CASE mode = "unset" -> Display [] mode = "auto" -> Clamp((H * 16) \div 9) [] OTHER -> WidthOf(mode, Desktop))
        /\ window = <<out * 2, H * 2>> /\ before = window /\ full = FALSE /\ knob \in BOOLEAN /\ queued = FALSE
        /\ faults = 0

Life  == Select \/ Make \/ Started \/ Present \/ Close \/ Destroy
Shape == \/ \E m \in Fixed \cup {"auto"} : SetMode(m)
         \/ SetFull \/ Resized \/ \E w \in Windows : Drag(w)

Next == Life \/ Shape

Spec == Init /\ [][Next]_vars

-----------------------------------------------------------------------------
(* Properties *)

TypeOK == /\ doing \in {"start", "init", "run", "closing", "closed", "refused", "died"} /\ backend \in {"none", "sdl", "vulkan"}
          /\ absent \subseteq Ignored \cup {"base"} /\ made \subseteq Of("sdl") \cup Of("vulkan") /\ out \in Nat /\ faults \in 0..MaxFaults

\* Nothing outlives what it was made of, wherever an init stops, whatever it went on without, whatever
\* the fallback made beside it and in whatever order it is destroyed. What runs has every object
\* but those it was never told of; with none missing, and with SDL, nothing is drawn through a handle
\* that is not there; and a backend that was closed left nothing.
Lifetimes == /\ \A o \in made : Parents(o) \subseteq made
             /\ doing = "run" => Range(Order(backend)) \ ({"texture"} \cup absent) \subseteq made
             /\ doing = "died" => backend = "vulkan" /\ absent # {}
             /\ doing = "closed" => made \cap Of(backend) = {}

\* Once the events are handled the output is as wide as its mode says, of the window as it is
\* now where the mode follows the window; always even, and no wider than the surface.
WidthFits == /\ out % 2 = 0 /\ out \in Display - 64..OutMax
             /\ doing = "run" /\ ~queued /\ mode = "auto" => out = WidthOf("auto", window)
             /\ mode \in Fixed => out = WidthOf(mode, window)

\* "both paths stay in sync and the state survives a restart" (hw.c:1197): the window fills
\* the screen when the setting says so, and no setting takes its size from it then.
FullIsSet == doing = "run" => knob = full /\ (full => window = Desktop)

Backed == TypeOK /\ Lifetimes /\ WidthFits /\ FullIsSet
=============================================================================
