------------------------------ MODULE SetupFlow ------------------------------
(***************************************************************************)
(* The setup screen as a state machine (src/src/platform/setup_flow.cpp)   *)
(* and the file choosers that answer it: SDL's dialog on the desktop       *)
(* (desktop_setup.cpp), the document picker of the Android activity        *)
(* (android_setup.cpp, BenefactorActivity.java) and the browser's          *)
(* (web_setup.cpp, platforms/web/disk_setup.js).                           *)
(*                                                                         *)
(* Two threads of control: the flow, stepped once per frame, and the host, *)
(* which opens the chooser and reports what was chosen.  They share the    *)
(* flow's pending selection under pending_mutex and, on Android, one       *)
(* delivery slot under g_delivery_mutex.  What an accepted set does to the *)
(* disk is DiskStore's.                                                    *)
(***************************************************************************)
EXTENDS Naturals, Sequences

CONSTANTS
  Disk,        \* the three images
  Platforms,   \* the hosts to consider, among "desktop", "android" and "web"
  Players,     \* the players to consider, among "patient" and "hasty"
  Activities,  \* the Android activities to consider, among "there" and "missing"
  MaxPicks     \* bound: how often the player presses Choose files

SetupAssumption == /\ Platforms \subseteq {"desktop", "android", "web"}
                   /\ Players \subseteq {"patient", "hasty"}
                   /\ Activities \subseteq {"there", "missing"}
                   /\ MaxPicks \in Nat

VARIABLES
  platform,   \* the host, chosen once
  player,     \* chosen once; a patient one leaves the screen alone while a choice
              \* is on its way
  activity,   \* chosen once; one that is "missing" cannot always be asked
  pc,         \* the flow's thread
  pmutex,     \* who holds pending_mutex: "free", "flow" or "ui"
  gmutex,     \* who holds g_delivery_mutex
  pending,    \* pending: what the chooser reported and no step has taken
  active,     \* picker_active
  chosen,     \* what this step took
  staged,     \* the images the session holds
  accepted,   \* the session's status is Accepted
  running,    \* view.running()
  picks,      \* how often Choose files was pressed
  slot,       \* g_delivery holds a delivery
  posted,     \* runnables posted to the UI thread and not run
  importing,  \* importPending of the activity
  chooser,    \* a chooser is on the screen
  ui,         \* the host's own thread: "idle", "report" or "deliver"
  answer,     \* what it reports
  queue,      \* disk_setup.js: the answers that wait their turn
  names       \* g_pick_names

flowVars == <<pc, pmutex, pending, active, chosen, staged, accepted, running, picks>>
hostVars == <<gmutex, slot, posted, importing, chooser, ui, answer, queue, names>>
setting == <<platform, player, activity>>
vars == <<setting, flowVars, hostVars>>

PC == {"between", "requests", "ask", "call", "sorry", "deliver", "take", "apply",
       "frame", "closed"}
Holder == {"free", "flow", "ui"}

TypeOK == /\ platform \in Platforms /\ player \in Players /\ activity \in Activities
          /\ pc \in PC
          /\ pmutex \in Holder /\ gmutex \in Holder
          /\ pending \subseteq Disk /\ chosen \subseteq Disk /\ staged \subseteq Disk
          /\ active \in BOOLEAN /\ accepted \in BOOLEAN /\ running \in BOOLEAN
          /\ picks \in 0..MaxPicks /\ posted \in 0..MaxPicks
          /\ slot \in BOOLEAN /\ importing \in BOOLEAN /\ chooser \in BOOLEAN
          /\ ui \in {"idle", "report", "deliver"}
          /\ answer \subseteq Disk /\ names \subseteq Disk
          /\ queue \in Seq(SUBSET Disk)

Init == /\ platform \in Platforms /\ player \in Players /\ activity \in Activities
        /\ pc = "between" /\ pmutex = "free" /\ gmutex = "free"
        /\ pending = {} /\ chosen = {} /\ staged = {} /\ answer = {} /\ names = {}
        /\ active = FALSE /\ accepted = FALSE /\ running = TRUE
        /\ picks = 0 /\ posted = 0 /\ queue = <<>>
        /\ slot = FALSE /\ importing = FALSE /\ chooser = FALSE
        /\ ui = "idle"

\* Nothing the player chose is on its way to the flow.
HostIdle == ~chooser /\ posted = 0 /\ ui = "idle" /\ queue = <<>>
MayPress == player = "patient" => HostIdle /\ pending = {} /\ running

Begin == /\ pc = "between" /\ pc' = "requests"
         /\ UNCHANGED <<setting, pmutex, pending, active, chosen, staged, accepted, running,
                        picks, hostVars>>

\* RequestKind::Browse: the host is asked with pending_mutex held.
Browse == /\ pc = "requests" /\ pmutex = "free" /\ MayPress
          /\ picks < MaxPicks /\ picks' = picks + 1
          /\ IF active
               THEN UNCHANGED <<pc, pmutex, active>>
               ELSE pmutex' = "flow" /\ active' = TRUE /\ pc' = "ask"
          /\ UNCHANGED <<setting, pending, chosen, staged, accepted, running, hostVars>>

\* Its validate_if_ready finds what the last step has judged already.
Start == /\ pc = "requests"
         /\ running' = (running /\ ~accepted)
         /\ UNCHANGED <<setting, pc, pmutex, pending, active, chosen, staged, accepted, picks,
                        hostVars>>

Cancel == /\ pc = "requests" /\ running /\ MayPress
          /\ running' = FALSE
          /\ UNCHANGED <<setting, pc, pmutex, pending, active, chosen, staged, accepted, picks,
                         hostVars>>

Polled == /\ pc = "requests" /\ pc' = "take"
          /\ UNCHANGED <<setting, pmutex, pending, active, chosen, staged, accepted, running,
                         picks, hostVars>>

\* The lock guard of Browse goes out of scope.
Asked == /\ pmutex' = "free" /\ pc' = "requests"
         /\ UNCHANGED <<setting, pending, active, chosen, staged, accepted, running, picks>>

FlowStays == UNCHANGED <<setting, pmutex, pending, active, chosen, staged, accepted, running,
                         picks>>

\* The desktop waits for SDL's dialog and calls the delivery itself.
AskDialog == /\ platform = "desktop" /\ pc = "ask"
             /\ answer' \in SUBSET Disk
             /\ pc' = "deliver" /\ FlowStays
             /\ UNCHANGED <<gmutex, slot, posted, importing, chooser, ui, queue, names>>

\* The page clicks its one input element; a chooser that is open stays open.
AskPage == /\ platform = "web" /\ pc = "ask"
           /\ chooser' = TRUE /\ Asked
           /\ UNCHANGED <<gmutex, slot, posted, importing, ui, answer, queue, names>>

\* Android keeps the delivery and calls pickBenefactorDisks, which posts to the
\* UI thread.
AskActivity == /\ platform = "android" /\ pc = "ask" /\ gmutex = "free"
               /\ slot' = TRUE
               /\ pc' = "call" /\ FlowStays
               /\ UNCHANGED <<gmutex, posted, importing, chooser, ui, answer, queue, names>>

Call == /\ pc = "call"
        /\ posted' = posted + 1 /\ Asked
        /\ UNCHANGED <<gmutex, slot, importing, chooser, ui, answer, queue, names>>

CallFails == /\ pc = "call" /\ activity = "missing"
             /\ pc' = "sorry" /\ FlowStays
             /\ UNCHANGED hostVars

\* The picker could not be opened: the delivery is answered with nothing.
Sorry == /\ pc = "sorry" /\ gmutex = "free"
         /\ IF slot
              THEN /\ gmutex' = "flow" /\ slot' = FALSE /\ answer' = {}
                   /\ pc' = "deliver" /\ FlowStays
              ELSE Asked /\ UNCHANGED <<gmutex, slot, answer>>
         /\ UNCHANGED <<posted, importing, chooser, ui, queue, names>>

TakeCleared == \* mutant: pending is emptied before it is looked at
  /\ pc = "take" /\ pmutex = "free"
  /\ chosen' = {} /\ pending' = {} /\ active' = FALSE
  /\ pc' = "apply"
  /\ UNCHANGED <<setting, pmutex, staged, accepted, running, picks, hostVars>>

\* The flag falls in the step that raised it, whether or not a choice has come.
Take == /\ pc = "take" /\ pmutex = "free"
        /\ chosen' = pending /\ pending' = {} /\ active' = FALSE
        /\ pc' = "apply"
        /\ UNCHANGED <<setting, pmutex, staged, accepted, running, picks, hostVars>>

\* The session judges the set when a choice completes it; DiskStore says how.
Apply == /\ pc = "apply" /\ pc' = "frame"
         /\ staged' = staged \cup chosen
         /\ accepted' \in IF chosen # {} /\ staged' = Disk THEN BOOLEAN ELSE {FALSE}
         /\ UNCHANGED <<setting, pmutex, pending, active, chosen, running, picks, hostVars>>

\* The screen is over when a set was accepted or the player dismissed it; its
\* owner destroys the flow.
Frame == /\ pc = "frame"
         /\ pc' = IF accepted \/ ~running THEN "closed" ELSE "between"
         /\ UNCHANGED <<setting, pmutex, pending, active, chosen, staged, accepted, running,
                        picks, hostVars>>

FlowStep == Begin \/ Polled \/ AskDialog \/ AskPage \/ AskActivity \/ Call \/ CallFails \/ Sorry
            \/ Take \/ Apply \/ Frame
-----------------------------------------------------------------------------
(* The host.                                                               *)

FlowIdles == UNCHANGED <<setting, flowVars>>

\* pickBenefactorDisks on the UI thread: one import at a time.
RunPosted == /\ ui = "idle" /\ posted > 0 /\ posted' = posted - 1
             /\ IF importing
                  THEN UNCHANGED <<importing, chooser>>
                  ELSE importing' = TRUE /\ chooser' = TRUE
             /\ FlowIdles
             /\ UNCHANGED <<gmutex, slot, ui, answer, queue, names>>

PickedKept == \* mutant: importPending stays set after an import
  /\ platform = "android" /\ chooser /\ ui = "idle"
  /\ chooser' = FALSE
  /\ answer' \in SUBSET Disk
  /\ ui' = "report"
  /\ FlowIdles
  /\ UNCHANGED <<gmutex, slot, posted, importing, queue, names>>

\* The picker of Android returns, its documents copied: none when it was
\* cancelled or failed.
Picked == /\ platform = "android" /\ chooser /\ ui = "idle"
          /\ chooser' = FALSE /\ importing' = FALSE
          /\ answer' \in SUBSET Disk
          /\ ui' = "report"
          /\ FlowIdles
          /\ UNCHANGED <<gmutex, slot, posted, queue, names>>

\* nativeDiskSelectionResult: the delivery is used up and called with
\* g_delivery_mutex held.
Report == /\ ui = "report" /\ gmutex = "free"
          /\ IF slot
               THEN gmutex' = "ui" /\ slot' = FALSE /\ ui' = "deliver"
               ELSE ui' = "idle" /\ UNCHANGED <<gmutex, slot>>
          /\ FlowIdles
          /\ UNCHANGED <<posted, importing, chooser, answer, queue, names>>

\* SetupFlow::deliver, on the flow's thread or on the host's.
Returns(t) == IF t = "flow" THEN pc = "deliver" /\ pc' = "requests" /\ UNCHANGED ui
                            ELSE ui = "deliver" /\ ui' = "idle" /\ UNCHANGED pc

Deliver(t) == /\ pmutex = "free" /\ Returns(t)
              /\ pending' = answer /\ gmutex' = "free"
              /\ UNCHANGED <<setting, pmutex, active, chosen, staged, accepted, running, picks,
                             slot, posted, importing, chooser, answer, queue, names>>

\* The page's own code runs between two steps of the flow, never inside one.
PageRuns == platform = "web" /\ pc \in {"between", "closed"}

\* The chooser of the page answers; a cancelled one answers too.
PageChosen == /\ PageRuns /\ chooser /\ chooser' = FALSE
              /\ \E files \in SUBSET Disk : queue' = Append(queue, files)
              /\ FlowIdles
              /\ UNCHANGED <<gmutex, slot, posted, importing, ui, answer, names>>

\* The answers that may run: disk_setup.js chains them.
Turn == {1} \cap DOMAIN queue

\* benefactor_web_pick_add, as each document of the answer has been read.
PageAdds == /\ PageRuns
            /\ \E i \in Turn, d \in Disk : d \in queue[i] \ names /\ names' = names \cup {d}
            /\ FlowIdles
            /\ UNCHANGED <<gmutex, slot, posted, importing, chooser, ui, answer, queue>>

\* benefactor_web_pick_end, after the last document or the first that failed; the
\* answer after it, if there is one, starts from no names.
PageAnswers == /\ PageRuns /\ queue # <<>>
               /\ pending' = IF pc = "closed" THEN pending ELSE names
               /\ names' = {} /\ queue' = Tail(queue)
               /\ UNCHANGED <<setting, pc, pmutex, active, chosen, staged, accepted, running,
                              picks, gmutex, slot, posted, importing, chooser, ui, answer>>

HostStep == \/ RunPosted \/ Picked \/ Report \/ PageChosen \/ PageAdds \/ PageAnswers
            \/ \E t \in {"flow", "ui"} : Deliver(t)

Next == FlowStep \/ Browse \/ Start \/ Cancel \/ HostStep

Spec == Init /\ [][Next]_vars

\* The loop of the screen runs on, and the host answers what it was asked: the
\* player closes the chooser, a thread that waits for a mutex gets it, and the
\* page's tasks run between animation frames, where only they can.
FairSpec == Spec /\ WF_vars(FlowStep) /\ SF_vars(HostStep)

-----------------------------------------------------------------------------
\* No thread waits for a lock it holds itself, and the two never wait for each
\* other: "The picker answers through this flow's own deliver(), which is
\* thread-safe" (setup_flow.cpp:132-133).
NobodyStuck == /\ ~(pc = "deliver" /\ pmutex = "flow")
               /\ ~(pc \in {"ask", "sorry"} /\ gmutex = "ui" /\ ui = "deliver" /\ pmutex = "flow")

\* A report is never delivered to a flow whose screen is over and which its owner
\* has destroyed: "the Activity's import result arrives on the Android UI thread
\* while the setup screen runs on the SDL thread" (android_setup.cpp:36-37).
FlowOutlivesDelivery == ui = "deliver" => pc # "closed"

\* On Android, while the activity can be asked, and in the browser both hold for a
\* player who waits for each choice to arrive before touching the screen again.
Undisturbed == player = "patient" /\ platform # "desktop" /\ activity = "there"
PatientIsSafe == Undisturbed => NobodyStuck /\ FlowOutlivesDelivery

\* ... and so does this: what the chooser reported reaches the session, a step takes
\* it before another report replaces it, and no report finds the delivery gone ("the
\* flow applies the result on its own thread", setup_flow.h:21-22).
NothingDropped ==
  [][Undisturbed => /\ pending # {} => pending' = pending \/ chosen' = pending
                    /\ ui = "report" /\ ui' = "idle" => answer = {}]_vars

\* While Android keeps a delivery, a picker that will use it is on its way.
SomeoneWillAnswer == slot => \/ pc \in {"call", "sorry"} \/ posted > 0
                             \/ chooser \/ ui = "report"

\* "a second pick can never mix its documents into the first one's answer"
\* (disk_setup.js:15-17).
AnswersNotMixed == names # {} => queue # <<>> /\ names \subseteq Head(queue)

\* A press on Choose files of that player comes to its end: the flow has asked, the
\* host is idle again and what was chosen has been taken, or the screen is over.
OnItsWay == ~HostIdle \/ pending # {} \/ pc \in {"ask", "call", "sorry", "deliver"}
PickEnds == (Undisturbed /\ OnItsWay) ~> (~OnItsWay \/ pc = "closed")
=============================================================================
