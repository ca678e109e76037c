---------------------------- MODULE WideCapture ----------------------------
(***************************************************************************)
(* port/overrides/gameplay.c: the objects the guest's walker draws,        *)
(* captured for the wide renderer before the guest clips them.  The walker *)
(* passes on or skips each object; the draw routine emits it, leaves it as *)
(* the page has it, or culls it.                                           *)
(*                                                                         *)
(* The guest's two pages and its record of what each object last looked    *)
(* like are external, as the capture's own account of them has them.       *)
(***************************************************************************)
EXTENDS WideView, Sequences, FiniteSets, SequencesExt

CONSTANTS
  Nodes,    \* the walker's list of objects, in its order
  Looks,    \* for each node, what it may be: where, how wide, its frame, its kind
  Type,     \* for each node, its descriptor
  Cams,     \* where the engine's camera may be
  Edges,    \* the level's edges: lo and hi
  Outs,     \* hw_output_width
  MaxObjs,  \* WS_OBJ_MAX
  Slack,    \* $30, what the walker's window has on the left
  Windows,  \* $170 and $1b0, how wide it is for a still and for a lively object
  MaxWalks, \* bound: walks
  MaxEras   \* bound: levels and savestates loaded

Node == ToSet(Nodes)

\* The list has each object once; an object is where a word says, of so many words' width.
CaptureAssumption ==
  /\ ViewSizes /\ {MaxObjs, MaxWalks, MaxEras, Slack} \subseteq Nat /\ Windows \in Nat \X Nat
  /\ Nodes \in Seq(Node) /\ IsInjective(Nodes) /\ DOMAIN Looks = Node /\ DOMAIN Type = Node
  /\ \A n \in Node : Looks[n] \subseteq [x : 0..Word - 1, w : Nat, frame : Nat, kind : {"gone", "fast", "still", "lively"}]
  /\ Cams \subseteq 0..Word - 1 /\ Outs \subseteq Nat /\ Edges \in Int \X Int /\ Edges[1] <= Edges[2]

\* An object that moves changes its frame: the guest itself would leave it behind otherwise.
MovesWithFrame ==
  \A n \in Node : \A a, b \in Looks[n] : a.frame = b.frame => a.x = b.x

VARIABLES
  look,     \* what each object is now
  cam,      \* $57FDBA
  out,      \* hw_output_width
  era,      \* levels and savestates loaded so far
  dirty,    \* the guest's record of each object: the frame it last drew, and a count
  page,     \* its two pages
  back,     \* the one it draws into
  next,     \* the walker's place, 0 between walks
  building, \* s_wsobj; native_ws_promote gives the renderer a copy between walks
  commit,   \* s_wsobj_commit
  walks

vars == <<look, cam, out, era, dirty, page, back, next, building, commit, walks>>

View == [camera |-> Signed(cam), lo |-> Edges[1], hi |-> Edges[2], free |-> FALSE, x |-> 0]

Pic(n) == [x |-> look[n].x, frame |-> look[n].frame, era |-> era]

Blank == [x |-> 0, frame |-> -1, era |-> -1]
Unset == [frame |-> -1, count |-> 3]

-----------------------------------------------------------------------------

\* native_objwalk; with no objects the walk is over at once.
Walk == /\ next = 0 /\ walks < MaxWalks /\ walks' = walks + 1 /\ next' = 1 % (Len(Nodes) + 1) /\ building' = <<>>
        /\ UNCHANGED <<look, cam, out, era, dirty, page, back, commit>>

\* native_objstep and native_objstep_b: no object, always, or by a window of its kind.
Passed(n) ==
  CASE look[n].kind = "gone"   -> FALSE
    [] look[n].kind = "fast"   -> TRUE
    [] look[n].kind = "still"  -> ~Skipped(View, out, look[n].x, Slack, Windows[1])
    [] look[n].kind = "lively" -> ~Skipped(View, out, look[n].x, Slack, Windows[2])

\* The guest's own clip and dirty check, decided before it runs.
OffLeft(n)  == Signed((look[n].x - cam) % Word) < 0
LeftPart(n) == look[n].w + Signed((look[n].x - cam) % Word) \div Tile
Span(n)     == ((cam + Display) % Word) \div Tile - look[n].x \div Tile
Clipped(n)  == OffLeft(n) \/ Span(n) < look[n].w
Decision(n) ==
  IF (OffLeft(n) /\ LeftPart(n) <= 0) \/ (~OffLeft(n) /\ Span(n) <= 0) THEN "cull"
  ELSE IF ~Clipped(n) /\ dirty[n] = [frame |-> look[n].frame, count |-> 1] THEN "persist"
  ELSE "emit"

\* Mutant: an object is known by its descriptor, which others of its type share.
ByDescriptor(n) == Type[n]

\* An object is known by its node.
Key(n) == n

\* wsobj_commit_put.
Committed(n, pic) ==
  IF Key(n) \notin DOMAIN commit /\ Cardinality(DOMAIN commit) >= MaxObjs THEN commit
  ELSE [k \in DOMAIN commit \cup {Key(n)} |-> IF k = Key(n) THEN pic ELSE commit[k]]

\* native_objdraw_capture: what the list gets, and what is remembered of it.
Captured(n) ==
  LET kept == Decision(n) = "persist" /\ Key(n) \in DOMAIN commit
      pic  == IF kept THEN commit[Key(n)] ELSE Pic(n)
  IN IF Len(building) >= MaxObjs THEN UNCHANGED <<building, commit>>
     ELSE /\ building' = Append(building, [of |-> n, pic |-> pic, era |-> era, how |-> Decision(n)])
          /\ commit' = IF kept \/ Decision(n) = "cull" THEN commit ELSE Committed(n, pic)

\* The guest's part: a change is drawn, and drawn again until both pages have it.
GuestDraws(n) ==
  CASE Decision(n) = "emit" ->
         /\ page' = [page EXCEPT ![back][n] = Pic(n)]
         /\ dirty' = [dirty EXCEPT ![n] = IF Clipped(n) THEN Unset
                                          ELSE IF dirty[n].frame = look[n].frame THEN [@ EXCEPT !.count = dirty[n].count - 1]
                                          ELSE [frame |-> look[n].frame, count |-> 3]]
    [] Decision(n) = "persist" -> UNCHANGED <<page, dirty>>
    [] Decision(n) = "cull"    -> dirty' = [dirty EXCEPT ![n] = Unset] /\ UNCHANGED page

\* One object of the walk; after the last, the page just drawn is the one displayed.
WalkObject ==
  /\ next > 0
  /\ LET n == Nodes[next]
     IN IF Passed(n) THEN Captured(n) /\ GuestDraws(n)
        ELSE dirty' = [dirty EXCEPT ![n] = Unset] /\ UNCHANGED <<page, building, commit>>
  /\ next' = (next + 1) % (Len(Nodes) + 1)
  /\ back' = IF next' = 0 THEN 1 - back ELSE back
  /\ UNCHANGED <<look, cam, out, era, walks>>

\* The guest's game goes on: an object moves or changes, the camera scrolls.
Play == /\ next = 0
        /\ \/ \E n \in Node : \E k \in Looks[n] : look' = [look EXCEPT ![n] = k] /\ UNCHANGED cam
           \/ cam' \in Cams /\ UNCHANGED look
        /\ UNCHANGED <<out, era, dirty, page, back, next, building, commit, walks>>

\* native_wsobj_commit_reset.
CommitReset == <<>>

\* A level starts with empty pages; a savestate brings pages and records back as they were.
LoadLevel == /\ next = 0 /\ era < MaxEras /\ era' = era + 1 /\ commit' = CommitReset
             /\ dirty' = [n \in Node |-> Unset] /\ page' = [i \in {0, 1} |-> [n \in Node |-> Blank]]
             /\ UNCHANGED <<look, cam, out, back, next, building, walks>>

LoadState == /\ next = 0 /\ era < MaxEras /\ era' = era + 1 /\ commit' = CommitReset
             /\ dirty' = [n \in Node |-> [frame |-> look[n].frame, count |-> 1]]
             /\ page' = [i \in {0, 1} |-> [n \in Node |-> [Pic(n) EXCEPT !.era = era']]]
             /\ UNCHANGED <<look, cam, out, back, next, building, walks>>

Everything == {f \in [Node -> UNION {Looks[n] : n \in Node}] : \A n \in Node : f[n] \in Looks[n]}

Init == /\ look \in Everything
        /\ cam \in Cams /\ out \in Outs /\ era = 0 /\ dirty = [n \in Node |-> Unset]
        /\ page = [i \in {0, 1} |-> [n \in Node |-> Blank]] /\ back = 0
        /\ next = 0 /\ building = <<>> /\ commit = <<>> /\ walks = 0

Next == Walk \/ WalkObject \/ Play \/ LoadLevel \/ LoadState

Spec == Init /\ [][Next]_vars

-----------------------------------------------------------------------------
(* Properties *)

TypeOK == /\ \A n \in Node : look[n] \in Looks[n] /\ dirty[n].count \in 1..3
          /\ Cardinality(DOMAIN commit) <= MaxObjs /\ Len(building) <= MaxObjs

\* Between walks, every object the guest drew or left on its page is listed once, as a page of
\* it has it, and never as it was in a level or a state that is gone (gameplay.c:369-379).
ListedAsDrawn ==
  next = 0 =>
    \A i \in DOMAIN building :
      /\ \A j \in DOMAIN building : building[i].of = building[j].of => i = j
      /\ building[i].era = era /\ building[i].how # "cull" =>
           \E k \in {0, 1} : page[k][building[i].of] = building[i].pic

\* No object is left out by the walker while the view shows some of it.
NothingSeenIsLeftOut ==
  \A n \in Node : look[n].kind # "gone" =>
    (out > Display /\ look[n].w * Tile <= Pad /\ Seen(View, out, Signed(look[n].x), look[n].w * Tile) => Passed(n))

ObjectsOK == TypeOK /\ ListedAsDrawn /\ NothingSeenIsLeftOut
=============================================================================
