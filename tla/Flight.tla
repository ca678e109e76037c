------------------------------- MODULE Flight -------------------------------
(* The platformer's flight (src/port/overrides/platformer.c).  The guest     *)
(* decides when the player jumps, falls, lands and meets a wall; while the    *)
(* knob is on, what moves him in the air is native: a velocity in fractions   *)
(* of a dot, cut when the jump button is let go, steered by the stick.  The   *)
(* guest's own trampoline arc is left as it is and steered on top.  A frame   *)
(* is the handler of the player's pose and then the terrain pass.  Up is      *)
(* negative, the ground is row 0, and walls stand beside columns 0..Wide.     *)
EXTENDS Integers

CONSTANTS
  One,       \* fractions in a dot (256 in the code)
  Gravity, JumpVy, AirAcc, Drag, FallMax, Cap,  \* the tunables; Cap without and with the shoes
  Tap,       \* frames within which a release is a tap
  Apex,      \* $f6e at the top of a jump
  Lead,      \* how far ahead of a steered arc a wall is probed
  Wide, Top, \* the level's last column, and the highest row a guest arc reaches
  Moves,     \* what a frame of a guest arc adds to x and y
  NoJump,    \* columns whose tile forbids the jump button
  Hurt(_),   \* the guest's damage table: by $f6e, what a landing costs
  Most,      \* the meter stops counting here
  Hands,     \* what a player may hold: a direction, and of up, the jump button and fire
  Full, Modes, Toggles  \* energy, fall_damage settings, changes of the knob

FlightAssumption == /\ {One, Gravity, AirAcc, Drag, FallMax} \subseteq Nat \ {0}
                    /\ JumpVy \in Int /\ JumpVy <= 0 /\ {Tap, Apex, Lead, Wide, Top, Most, Full, Toggles} \subseteq Nat
                    /\ \A s \in BOOLEAN : Cap[s] \in Nat
                    /\ Moves \subseteq Int \X Int /\ \A h \in Hands : h.dir \in {-1, 0, 1}
                    /\ \A m \in 0..Most + Apex : Hurt(m) \in Nat

VARIABLES
  on,      \* pc_platformer_on and no demo is playing
  shoes,   \* the super shoes are in the carry slot, from the start or never
  p,       \* the player, as the guest holds him: pose ($f70), x, y (d1, d2), meter ($f6e), energy ($1c.w)
  prev,    \* $f78: the pose before
  f,       \* the module's static variables
  mode,    \* the fall_damage setting, as the last frame found it
  moved,   \* the last terrain pass took the player back from where the handler put him
  arcs,    \* the current air time went through a guest arc
  toggles

flight == <<on, shoes, p, prev, f, mode, moved, arcs, toggles>>

Air == {"hop", "leap", "diagonal", "fall", "arc"}
InAir(pose) == pose \in Air
Jump(h) == h.held \cap {"hop", "up"} # {}

Limit(v, cap) == IF v > cap THEN cap ELSE IF v < -cap THEN -cap ELSE v
Cut(v, n) == IF v < 0 THEN -((-v) \div n) ELSE v \div n  \* C's division
Seed(h) == h.dir * Cap[shoes]
Steered(v, cap, h) ==
  Limit(IF h.dir # 0 THEN v + h.dir * AirAcc
        ELSE IF v > Drag THEN v - Drag ELSE IF v < -Drag THEN v + Drag ELSE 0, cap)

-----------------------------------------------------------------------------
(* Pieces of a native frame *)

Takeoff(keep, h) ==
  [f EXCEPT !.fly = TRUE, !.track = FALSE, !.expect = {}, !.cut = FALSE, !.xacc = 0, !.yacc = 0, !.steer = 0,
            !.vy = JumpVy, !.vx = IF keep THEN @ ELSE Seed(h), !.air = 0, !.fire = FALSE]

FreshFall(h) ==
  [f EXCEPT !.fly = TRUE, !.track = FALSE, !.expect = {}, !.cut = TRUE, !.xacc = 0, !.yacc = 0,
            !.vy = 0, !.steer = 0, !.vx = Seed(h)]

WallFelt(g) == IF g.expect # {} /\ p.x \notin g.expect THEN [g EXCEPT !.vx = 0, !.xacc = 0] ELSE g

Released(g, h) ==
  LET holds == IF g.fire THEN "fire" \in h.held ELSE Jump(h)
      tap == g.air <= Tap
  IN IF g.cut \/ g.vy >= 0 \/ holds THEN g
     ELSE [g EXCEPT !.cut = TRUE, !.vy = Cut(@, IF tap THEN 3 ELSE 2), !.vx = IF tap THEN Cut(@, 2) ELSE @]

Pulled(g, most) == LET v == g.vy + Gravity
                       w == IF v > most THEN most ELSE v
                   IN [g EXCEPT !.vy = w, !.yacc = @ + w]

Pushed(g, h) == LET v == Steered(g.vx, Cap[shoes], h) IN [g EXCEPT !.vx = v, !.xacc = @ + v]

\* Mutant: the place it expects is the one before the step.
EmittedFromHere(g, pose, meter) ==
  [f |-> [g EXCEPT !.xacc = @ % One, !.yacc = @ % One, !.expect = {p.x}],
   p |-> [p EXCEPT !.x = @ + g.xacc \div One, !.y = @ + g.yacc \div One, !.pose = pose, !.meter = meter]]

\* Whole dots go to the player, the rest stays.
Emitted(g, pose, meter) ==
  LET nx == p.x + g.xacc \div One
  IN [f |-> [g EXCEPT !.xacc = @ % One, !.yacc = @ % One, !.expect = {nx}],
      p |-> [p EXCEPT !.x = nx, !.y = @ + g.yacc \div One, !.pose = pose, !.meter = meter]]

Rise(g, h) ==
  LET c == Released([WallFelt(g) EXCEPT !.air = IF @ > Tap THEN @ ELSE @ + 1], h)
      e == Pushed(Pulled(c, c.vy + Gravity), h)
  IN IF e.vy >= 0 THEN Emitted(e, "fall", Apex) ELSE Emitted(e, "hop", p.meter)

Counted == IF p.meter < Most THEN p.meter + 1 ELSE p.meter
Fall(g, h) == Emitted(Pushed(Pulled(WallFelt(g), FallMax), h), "fall", Counted)

Solid(c) == c \notin 0..Wide
\* The guest's arc left the player as q.
Track(q, h) ==
  LET d == q.x - p.x
      g == IF f.track THEN f
           ELSE [f EXCEPT !.track = TRUE, !.fly = FALSE, !.cut = TRUE, !.xacc = 0, !.yacc = 0,
                          !.vy = 0, !.vx = 0, !.steer = 0]
      s == Steered(g.steer, Cap[FALSE], h)
      step == (g.xacc + s) \div One
      wall == step # 0 /\ Solid(q.x + step + (IF step > 0 THEN Lead ELSE -Lead))
      sd == IF wall THEN 0 ELSE step
      st == IF wall THEN 0 ELSE s
      r == [g EXCEPT !.steer = st, !.xacc = IF wall THEN 0 ELSE (@ + s) % One,
                     !.vx = IF d # 0 \/ sd # 0 THEN d * One + st ELSE @]
  IN [f |-> IF q.pose = "fall" THEN [r EXCEPT !.fly = TRUE, !.track = FALSE] ELSE r,
      p |-> [q EXCEPT !.x = @ + sd]]

-----------------------------------------------------------------------------
(* The guest, as far as the code here meets it *)

\* On the ground it walks the player and commits his jumps; the floor may end under him.
Commits(h) == {"ground", "fall"} \cup (IF "up" \in h.held THEN {IF h.dir = 0 THEN "hop" ELSE "diagonal"} ELSE {})
              \cup (IF "fire" \in h.held /\ h.dir # 0 THEN {"leap"} ELSE {})
Walked(h) == {[p EXCEPT !.pose = q, !.x = IF q = "ground" THEN @ + h.dir ELSE @, !.meter = 0] : q \in Commits(h)}

\* An original body in the air.
GuestArc(q, d) == [p EXCEPT !.pose = q, !.x = @ + d[1], !.y = IF @ + d[2] < -Top THEN @ + 1 ELSE @ + d[2],
                            !.meter = IF p.pose = "fall" THEN Counted ELSE Apex]
GuestArcs == {GuestArc(q, d) : q \in {p.pose, "fall"}, d \in Moves}

\* What a guest body did to the energy, scaled by the setting.
Scaled(setting, before, after) ==
  LET dmg == before - after
  IN IF setting = "vanilla" \/ dmg <= 0 THEN after
     ELSE before - (IF setting = "light" THEN (dmg + 1) \div 2 ELSE 0)

-----------------------------------------------------------------------------
(* The handlers: what each may leave behind *)

Both(q) == [p |-> q, f |-> f]
Vanilla == {[p |-> q, f |-> [f EXCEPT !.fly = FALSE, !.track = FALSE]] : q \in GuestArcs}

Hop(h)      == Rise(IF ~InAir(prev) THEN Takeoff(FALSE, h)
                    ELSE IF ~f.fly \/ f.vy >= 0 THEN Takeoff(f.fly \/ f.track, h) ELSE f, h)
Leap(h)     == Rise([Takeoff(FALSE, h) EXCEPT !.fire = TRUE], h)
Diagonal(h) == Rise(Takeoff(FALSE, h), h)
FallOn(h)   == Fall(IF f.fly THEN f ELSE FreshFall(h), h)
Arcs(h)     == {Track(q, h) : q \in GuestArcs}
Impact      == {Both([p EXCEPT !.energy = Scaled(s, @, @ - Hurt(p.meter)), !.pose = "ground", !.meter = 0]) :
                  s \in {mode'}}

Handled(h) ==
  CASE p.pose = "ground" -> {Both(q) : q \in Walked(h)}
    [] p.pose = "impact" -> Impact
    [] InAir(p.pose) /\ ~on -> Vanilla
    [] p.pose = "hop" /\ on -> {Hop(h)}
    [] p.pose = "leap" /\ on -> {Leap(h)}
    [] p.pose = "diagonal" /\ on -> {Diagonal(h)}
    [] p.pose = "fall" /\ on -> {FallOn(h)}
    [] p.pose = "arc" /\ on -> Arcs(h)

\* The guest's pass: walls, and what the feet meet; it may hurt or heal.
Inside(c) == IF c < 0 THEN 0 ELSE IF c > Wide THEN Wide ELSE c
Feet(q) == IF q.pose = "fall" /\ q.y >= 0 THEN {"impact", "hop", "arc"}
           ELSE IF q.pose = "arc" /\ q.y >= 0 THEN {"arc", "ground"} ELSE {q.pose}
Pass(q, g, h, pose, heal, busy) ==
  LET hurt == IF q.pose = "arc" /\ pose = "ground" THEN Hurt(q.meter) ELSE 0
      pressed == Jump(h) /\ ~g.jump /\ "hop" \in h.held
      landed == on /\ ~InAir(pose)
      e == Scaled(mode', q.energy, q.energy + heal - hurt)
  IN /\ f' = [g EXCEPT !.jump = Jump(h), !.fly = @ /\ ~landed, !.track = @ /\ ~landed]
     /\ p' = [q EXCEPT !.x = Inside(@), !.y = IF @ > 0 THEN 0 ELSE @, !.energy = IF e \in 1..Full THEN e ELSE Full,
                       !.pose = IF on /\ pressed /\ pose = "ground" /\ ~busy /\ Inside(q.x) \notin NoJump
                                THEN "hop" ELSE pose]
     /\ moved' = (Inside(q.x) # q.x)

Frame(h) ==
  /\ mode' \in (IF p.pose = "impact" \/ (p.pose = "arc" /\ p.y >= 0) THEN Modes ELSE {"vanilla"})
  /\ \E o \in Handled(h) : \E pose \in Feet(o.p), heal \in {0, Full - o.p.energy}, busy \in BOOLEAN :
       (heal > 0 \/ busy => pose = "ground") /\ Pass(o.p, o.f, h, pose, heal, busy)
  /\ prev' = p.pose
  /\ arcs' = (InAir(p.pose) /\ (arcs \/ p.pose = "arc"))
  /\ UNCHANGED <<on, shoes, toggles>>

\* OPTIONS, or the game's demo.
Toggle == on' = ~on /\ toggles < Toggles /\ toggles' = toggles + 1 /\ UNCHANGED <<shoes, p, prev, f, mode, moved, arcs>>

Init == /\ on = FALSE /\ mode = "vanilla" /\ shoes \in BOOLEAN /\ prev = "ground" /\ toggles = 0
        /\ p = [pose |-> "ground", x |-> 0, y |-> 0, meter |-> 0, energy |-> Full]
        /\ moved = FALSE /\ arcs = FALSE
        /\ f = [vx |-> 0, vy |-> 0, steer |-> 0, fly |-> FALSE, track |-> FALSE, cut |-> FALSE, xacc |-> 0,
                yacc |-> 0, air |-> 0, fire |-> FALSE, jump |-> FALSE, expect |-> {}]

Next == Toggle \/ \E h \in Hands : Frame(h)

Spec == Init /\ [][Next]_flight

-----------------------------------------------------------------------------
(* Properties *)

Magnitude(v) == IF v < 0 THEN -v ELSE v
Native == on /\ f.fly /\ p.pose \in {"hop", "fall"}

\* The model takes the player to have met a wall.
TakesForWall == Native /\ f.expect # {} /\ p.x \notin f.expect

\* A flight that began with a take-off or a step off a ledge loses its speed to a wall only
\* when the terrain pass did take the player back; it never goes faster than the stick and the
\* shoes allow; and nothing of it is left once he stands.
FlightOK == /\ ~(f.fly /\ f.track)
            /\ TakesForWall /\ ~arcs => moved
            /\ Native /\ ~arcs => Magnitude(f.vx) <= Cap[shoes]
            /\ ~InAir(p.pose) => ~f.fly /\ ~f.track

\* Air is no place to jump from: a rise only slows, so it ends; and a landing costs half, rounded up, of what
\* it does in the guest where the player asked for less, and nothing where he asked for none.
FlightStep ==
  /\ Native /\ p.pose = "hop" /\ InAir(prev) /\ f.vy < 0 /\ on' => f'.vy > f.vy \/ UNCHANGED p
  /\ p'.energy < p.energy => mode' # "none" /\ (mode' = "light" => 2 * (p.energy - p'.energy) <= Hurt(IF p.pose = "impact" THEN p.meter ELSE Apex) + 1)

\* What platformer.c says of the guest's arc: the fall it hands over to keeps its momentum.
MomentumKept == p.pose = "fall" /\ TakesForWall => moved
=============================================================================
