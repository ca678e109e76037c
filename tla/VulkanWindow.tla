---------------------------- MODULE VulkanWindow ----------------------------
(***************************************************************************)
(* A present through the Vulkan window (render/present_vulkan.c): the base *)
(* texture follows the content, the swapchain follows the window, and one  *)
(* frame is in flight, guarded by a fence.  The window may change its size *)
(* and the GPU may finish between any two steps of it.                     *)
(***************************************************************************)
EXTENDS Integers

CONSTANTS
  Sizes,      \* sizes of the window
  Contents,   \* sizes of the composed output
  Failures,   \* which calls may fail: among "image", "memory", "swapchain", "acquire"
  MaxEvents   \* bound: window resizes and failures

WindowAssumption == MaxEvents \in Nat /\ Failures \subseteq {"image", "memory", "swapchain", "acquire"}

VARIABLES
  at,      \* where vulkan_present is
  content, \* the size of what is presented
  scene,   \* whether it draws the scene, from the atlas too
  window,  \* the size the window has
  asked,   \* the drawable size sw_rebuild read
  chain,   \* the swapchain and its targets, by the rebuild that made them
  targets,
  base,    \* the base texture, and the one dset_base points to
  bound,
  fence,   \* the fence is signalled
  taken,   \* sem_acquire is signalled, or will be, for an image not yet submitted
  job,     \* what the GPU is doing
  shown,   \* what was presented last
  events   \* history: resizes and failures so far

vars == <<at, content, scene, window, asked, chain, targets, base, bound, fence, taken, job, shown, events>>

NoJob == [chain |-> 0, base |-> 0, reads |-> {}]

Idle == job = NoJob

\* Two names are enough: no more than one thing is in use besides the one that is there.
Fresh(id) == IF id = 1 THEN 2 ELSE 1

Fails(call) == call \in Failures /\ events < MaxEvents

-----------------------------------------------------------------------------
(* The window and the GPU *)

Resize(z) == /\ z # window /\ window' = z /\ events < MaxEvents /\ events' = events + 1
             /\ UNCHANGED <<at, content, scene, asked, chain, targets, base, bound, fence, taken, job, shown>>

GpuDone == /\ ~Idle /\ job' = NoJob /\ fence' = TRUE
           /\ UNCHANGED <<at, content, scene, window, asked, chain, targets, base, bound, taken, shown, events>>

-----------------------------------------------------------------------------
(* vulkan_present and vulkan_present_scene *)

Begin(c, s) == /\ at = "idle" /\ at' = "base" /\ content' = c /\ scene' = s
               /\ UNCHANGED <<window, asked, chain, targets, base, bound, fence, taken, job, shown, events>>

\* vk_point_desc, where the texture was made.
Bound(b) == b.id

\* vk_ensure_base: a texture that has an image of this size is taken as it is.
Ensure ==
  /\ at = "base"
  /\ \/ /\ base.image /\ base.size = content
        /\ at' = "copy" /\ UNCHANGED <<base, bound, events>>
     \/ /\ ~(base.image /\ base.size = content) /\ Idle \* vkDeviceWaitIdle
        /\ base' = [id |-> Fresh(base.id), size |-> content, image |-> TRUE, whole |-> TRUE]
        /\ bound' = Bound(base') /\ at' = "copy" /\ UNCHANGED events
     \/ \E call \in {"image", "memory"} :
          /\ Fails(call) /\ ~(base.image /\ base.size = content) /\ Idle
          /\ base' = [id |-> Fresh(base.id), size |-> content, image |-> call = "memory", whole |-> FALSE]
          /\ events' = events + 1 /\ at' = "idle" /\ UNCHANGED bound
  /\ UNCHANGED <<content, scene, window, asked, chain, targets, fence, taken, job, shown>>

\* The pixels are copied into the upload buffer, and the quads baked into the atlas's.
Copy == /\ at = "copy" /\ at' = "resize"
        /\ UNCHANGED <<content, scene, window, asked, chain, targets, base, bound, fence, taken, job, shown, events>>

\* Mutant: only a swapchain that is out of date is made again.
CheckNothing == /\ at = "resize" /\ at' = "wait"
                /\ UNCHANGED <<content, scene, window, asked, chain, targets, base, bound, fence, taken, job, shown, events>>

\* vk_check_resize.
CheckResize == /\ at = "resize"
               /\ IF window # chain.size THEN at' = "rebuildThenWait" /\ asked' = window
                  ELSE at' = "wait" /\ UNCHANGED asked
               /\ UNCHANGED <<content, scene, window, chain, targets, base, bound, fence, taken, job, shown, events>>

After == IF at = "rebuildThenWait" THEN "wait" ELSE "idle"

\* sw_rebuild, its result unread: the surface's own size where it has one, or the drawable
\* size read before the wait.
Rebuild ==
  /\ at \in {"rebuildThenWait", "rebuild"} /\ Idle
  /\ \/ /\ \E z \in {asked, window} : chain' = [id |-> Fresh(chain.id), size |-> z]
        /\ targets' = chain' /\ UNCHANGED events
     \/ /\ Fails("swapchain") /\ events' = events + 1
        /\ chain' = [id |-> 0, size |-> asked] /\ targets' = [id |-> 0, size |-> asked]
  /\ at' = After
  /\ UNCHANGED <<content, scene, window, asked, base, bound, fence, taken, job, shown>>

WaitFence == /\ at = "wait" /\ fence /\ at' = "acquire"
             /\ UNCHANGED <<content, scene, window, asked, chain, targets, base, bound, fence, taken, job, shown, events>>

\* Mutant: the fence is reset before it is known that a frame will be submitted.
AcquireReset ==
  /\ at = "acquire" /\ fence' = FALSE
  /\ \/ at' = "submit" /\ taken' = TRUE /\ UNCHANGED <<asked, events>>
     \/ window # chain.size /\ at' = "rebuild" /\ asked' = window /\ UNCHANGED <<taken, events>>
     \/ Fails("acquire") /\ events' = events + 1 /\ at' = "idle" /\ UNCHANGED <<taken, asked>>
  /\ UNCHANGED <<content, scene, window, chain, targets, base, bound, job, shown>>

\* vkAcquireNextImageKHR: an image (suboptimal or not), out of date, or another error.
Acquire ==
  /\ at = "acquire"
  /\ \/ at' = "submit" /\ taken' = TRUE /\ fence' = FALSE /\ UNCHANGED <<asked, events>>
     \/ window # chain.size /\ at' = "rebuild" /\ asked' = window /\ UNCHANGED <<taken, fence, events>>
     \/ Fails("acquire") /\ events' = events + 1 /\ at' = "idle" /\ UNCHANGED <<taken, fence, asked>>
  /\ UNCHANGED <<content, scene, window, chain, targets, base, bound, job, shown>>

\* The commands are recorded and submitted; the submission waits on the semaphore.
Submit == /\ at = "submit" /\ at' = "present"
          /\ job' = [chain |-> targets.id, base |-> bound, reads |-> {"base"} \cup (IF scene THEN {"atlas"} ELSE {})]
          /\ taken' = FALSE
          /\ UNCHANGED <<content, scene, window, asked, chain, targets, base, bound, fence, shown, events>>

\* vkQueuePresentKHR.
Queue == /\ at = "present"
         /\ shown' = [size |-> chain.size, content |-> content]
         /\ \/ at' = "idle" /\ UNCHANGED asked
            \/ window # chain.size /\ at' = "rebuild" /\ asked' = window
         /\ UNCHANGED <<content, scene, window, chain, targets, base, bound, fence, taken, job, events>>

Onward == Ensure \/ Copy \/ CheckResize \/ Rebuild \/ WaitFence \/ Acquire \/ Submit \/ Queue

Present == \E c \in Contents, s \in BOOLEAN : Begin(c, s)

Init == /\ at = "idle" /\ content \in Contents /\ scene = FALSE /\ window \in Sizes /\ asked = window
        /\ chain = [id |-> 1, size |-> window] /\ targets = chain
        /\ base = [id |-> 0, size |-> content, image |-> FALSE, whole |-> FALSE] /\ bound = 0
        /\ fence = TRUE /\ taken = FALSE /\ job = NoJob
        /\ shown = [size |-> window, content |-> content] /\ events = 0

Next == Onward \/ Present \/ GpuDone \/ \E z \in Sizes : Resize(z)

Spec == Init /\ [][Next]_vars /\ WF_vars(Onward) /\ WF_vars(Present) /\ WF_vars(GpuDone)

-----------------------------------------------------------------------------
(* Properties *)

TypeOK == /\ window \in Sizes /\ {content, base.size} \subseteq Contents /\ {chain.size, asked} \subseteq Sizes
          /\ events \in 0..MaxEvents /\ job.reads \subseteq {"base", "atlas"}

\* Whatever fails or is resized between two steps: the fence that is waited for is one that
\* some submission will signal, the semaphore an image is acquired with is free, a frame is
\* drawn to targets and from textures that still exist and are of the size they are drawn at,
\* and nothing the GPU is using is destroyed.
Safe == /\ at = "wait" => fence \/ ~Idle
        /\ at = "acquire" => ~taken /\ fence
        /\ at = "submit" => chain.id # 0 /\ targets = chain /\ base.whole /\ bound = base.id /\ base.size = content
        /\ ~Idle => job.chain = chain.id /\ job.base = base.id
        /\ at = "idle" => ~taken /\ (fence <=> Idle)

\* "1 frame in flight; freed by the fence wait" (present_vulkan.c:638): while the GPU reads the
\* upload buffers of a frame, the next frame does not write them.
OneInFlight == at = "copy" => job.reads = {}

VulkanSafe == TypeOK /\ Safe

\* "the render resolution follows the window dynamically, not only on OUT_OF_DATE": once the
\* window is left alone, what is shown has its size for good.
FollowsWindow == <>[](shown.size = window)
=============================================================================
