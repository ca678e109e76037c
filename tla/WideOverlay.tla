---------------------------- MODULE WideOverlay ----------------------------
(***************************************************************************)
(* port/overrides/gameplay.c: the lists the other captures fill - figures, *)
(* Marry Men, ropes, water - and the banner, which the guest draws once and*)
(* leaves on its page while its walker stands still.                       *)
(***************************************************************************)
EXTENDS Integers, Sequences, FiniteSets

CONSTANTS
  Things,    \* what a pass may draw
  MaxThings, \* WS_CHAR_MAX and the like
  Ttl,       \* presents a banner lasts at most (1200)
  MaxWalks,  \* bound: walks
  MaxBoxes   \* bound: banners drawn

OverlayAssumption == {MaxThings, Ttl} \subseteq Nat \ {0} /\ {MaxWalks, MaxBoxes} \subseteq Nat

Lists    == {"chars", "men", "ropes", "water"}
OfWalk   == {"chars", "water"} \* filled by the object walk; the others by a pass of their own
Promoted == {"chars", "men"}   \* copied at a present; the others are read as they are

VARIABLES
  pass,     \* the list being filled, "walk", or "none"
  drawn,    \* what the passes put up, in all
  list,     \* s_wschar, s_wsbuild, s_wsrope, s_wswater
  done,     \* what the renderer reads
  walked,   \* g_diag_objwalk
  active, fresh, ttl, at, \* s_banner_active, _fresh, _ttl, _objwalk_at
  inside,   \* what is drawn into it: s_tel_active, s_txt_active, and which text
  text,     \* the guest's level-complete text
  won,      \* the levels marked completed
  since     \* presents since the last banner was drawn, walks after the first, and banners

lists   == <<pass, drawn, list, done>>
banner  == <<active, fresh, ttl, at, inside, since>>
vars    == <<lists, banner, walked, text, won>>

Parked == pass = "none"

-----------------------------------------------------------------------------
(* The lists *)

Cleared(which) == /\ list' = [l \in Lists |-> IF l \in which THEN <<>> ELSE list[l]]
                  /\ drawn' = [l \in Lists |-> IF l \in which THEN <<>> ELSE drawn[l]]

\* native_objwalk; a walk after the banner's first present is the game going on.
Walk == /\ Parked /\ walked < MaxWalks /\ walked' = walked + 1 /\ pass' = "walk"
        /\ Cleared(OfWalk)
        /\ since' = IF active THEN [since EXCEPT !.walks = @ + (IF fresh THEN 0 ELSE 1)] ELSE since
        /\ UNCHANGED <<done, active, fresh, ttl, at, inside, text, won>>

\* native_build_clear and native_wsrope_build.
BeginPass(l) == /\ Parked /\ l \in Lists \ OfWalk /\ pass' = l /\ Cleared({l})
                /\ UNCHANGED <<done, banner, walked, text, won>>

\* native_char_capture, wsbuild_capture, native_wsrope_seg, native_anim_patch.
Capture(l, t) == /\ pass = (IF l \in OfWalk THEN "walk" ELSE l)
                 /\ Len(drawn[l]) <= MaxThings \* bound
                 /\ drawn' = [drawn EXCEPT ![l] = Append(@, t)]
                 /\ list' = IF Len(list[l]) < MaxThings THEN [list EXCEPT ![l] = Append(@, t)] ELSE list
                 /\ UNCHANGED <<pass, done, banner, walked, text, won>>

EndPass == ~Parked /\ pass' = "none" /\ UNCHANGED <<drawn, list, done, banner, walked, text, won>>

-----------------------------------------------------------------------------
(* The banner *)

\* native_banner_capture.
DrawBox == /\ Parked /\ since.boxes < MaxBoxes
           /\ active' = TRUE /\ fresh' = TRUE /\ ttl' = Ttl
           /\ since' = [presents |-> 0, walks |-> 0, boxes |-> since.boxes + 1]
           /\ UNCHANGED <<lists, walked, at, inside, text, won>>

\* native_telanim_capture and banner_text_capture.
DrawInside(what) == /\ Parked /\ inside' = (IF what = "teleport" THEN inside ELSE {w \in inside : w = "teleport"}) \cup {what}
                    /\ UNCHANGED <<lists, active, fresh, ttl, at, since, walked, text, won>>

\* native_levelcomplete_text_capture: drawn exactly on a win, when the guest's level has gone on.
DrawComplete(level) ==
  /\ Parked /\ inside' = {w \in inside : w = "teleport"} \cup {text}
  /\ won' = won \cup {level - 1}
  /\ UNCHANGED <<lists, active, fresh, ttl, at, since, walked, text>>

\* native_password_build: the guest fills its password in and the port puts its own text over.
BuildPassword == Parked /\ text' = "level complete" /\ UNCHANGED <<lists, banner, walked, won>>

\* native_level_load rewrites the text the level's overlay has just brought back.
TextRewritten == "level complete"

LoadLevel == Parked /\ text' = TextRewritten /\ UNCHANGED <<lists, banner, walked, won>>

\* Mutant: a walk of the frame that set the banner up takes it down again.
StaysUnlessWalked == walked = at

\* The first present since the banner was drawn takes note of the walks so far.
StaysWhileStill == fresh \/ walked <= at

\* native_ws_promote.
Present ==
  /\ Parked
  /\ done' = [l \in Lists |-> IF l \in Promoted THEN list[l] ELSE done[l]]
  /\ IF ~active THEN UNCHANGED banner
     ELSE /\ fresh' = FALSE /\ at' = (IF fresh THEN walked ELSE at) /\ ttl' = ttl - 1
          /\ active' = (StaysWhileStill /\ ttl > 1)
          /\ inside' = IF active' THEN inside ELSE {}
          /\ since' = [since EXCEPT !.presents = @ + 1]
  /\ UNCHANGED <<pass, drawn, list, walked, text, won>>

\* What native_ws*_get give the renderer.
Read(l) == IF l \in Promoted THEN done[l] ELSE list[l]

Init == /\ pass = "none" /\ drawn = [l \in Lists |-> <<>>] /\ list = drawn /\ done = drawn
        /\ walked = 0 /\ active = FALSE /\ fresh = FALSE /\ ttl = 0 /\ at = 0 /\ inside = {}
        /\ text = "level complete" /\ won = {} /\ since = [presents |-> 0, walks |-> 0, boxes |-> 0]

Passes == Walk \/ EndPass \/ \E l \in Lists : BeginPass(l) \/ \E t \in Things : Capture(l, t)

Banners == \/ Walk \/ EndPass \/ DrawBox \/ BuildPassword \/ LoadLevel
           \/ DrawInside("teleport") \/ DrawInside("get ready") \/ DrawComplete(2)

Next == Passes \/ Banners \/ Present

\* Frames are presented, and the guest's walk comes to its end.
Fairness == WF_vars(Present) /\ WF_vars(EndPass)

Spec == Init /\ [][Next]_vars /\ Fairness

-----------------------------------------------------------------------------
(* Properties *)

TypeOK == /\ \A l \in Lists : Len(list[l]) <= MaxThings /\ ttl \in 0..Ttl /\ at <= walked
          /\ \A l \in Lists : list[l] = SubSeq(drawn[l], 1, Len(list[l]))

\* The banner is up only while its time is not over and no walk has been seen, and what the win
\* banner says is never the password the port no longer has (gameplay.c:1364-1373).
BannerStands == active => since.presents < Ttl /\ (since.presents > 0 => at <= walked)

NoPassword == "password" \notin inside

OverlayOK == TypeOK /\ BannerStands /\ NoPassword

\* A banner stands until the walker has gone on since the frame that set it up, or its time is
\* over (gameplay.c:1033-1035), and it does not outlast its presents.
BannerFalls == [][active /\ ~active' => since.walks > 0 \/ since.presents + 1 >= Ttl]_vars

BannerEnds == active ~> ~active

BannerLasts == BannerFalls /\ BannerEnds
=============================================================================
