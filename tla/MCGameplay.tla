----------------------------- MODULE MCGameplay -----------------------------
(* The player's flight, his controls, his way through the levels and the     *)
(* camera keep no state in common, so each is run on a bench of its own.     *)
EXTENDS Integers, FiniteSets

CONSTANTS One, Gravity, JumpVy, AirAcc, Drag, FallMax, Cap, Tap, Apex, Lead, Wide, Top, Moves, NoJump, Hurt(_),
          Most, Hands, Full, Modes, Toggles,
          Presses, Schemes, MaxHeld, Tile, Spots,
          Counts, Slots, PerExtra, Readable, Tables, Faults,
          CamTile, Screen, Display, Pad, Word, Step, Fast, Return, FadeHalf, Curtain, Drift, Edges, Output, Changes

VARIABLES bench,
          on, shoes, p, prev, f, mode, moved, arcs, toggles,
          modern, playing, held, sig, cam, camKey, bridged, thrown, item, alone, lifts, throws, mixed, stale, acts,
          disk, completed, saved, start, guest, at, faults,
          active, x, home, fade, level, camera, up, still, since, changes

F == INSTANCE Flight
C == INSTANCE Controls
L == INSTANCE Levels
V == INSTANCE FreeCam WITH Tile <- CamTile, playing <- up

ASSUME FlightAssumed   == F!FlightAssumption
ASSUME ControlsAssumed == C!ControlsAssumption
ASSUME LevelsAssumed   == L!LevelsAssumption
ASSUME CameraAssumed   == V!CameraAssumption

flight   == <<on, shoes, p, prev, f, mode, moved, arcs, toggles>>
controls == <<modern, playing, held, sig, cam, camKey, bridged, thrown, item, alone, lifts, throws, mixed, stale, acts>>
levels   == <<disk, completed, saved, start, guest, at, faults>>
freecam  == <<active, x, home, fade, level, camera, up, still, since, changes>>

\* A bench that is not run starts in one state.
Only(b, S) == IF bench = b THEN S ELSE {CHOOSE e \in S : TRUE}

PlayInit == /\ bench \in {"flight", "controls", "levels", "camera"}
            /\ shoes \in Only("flight", BOOLEAN) /\ F!Init
            /\ modern \in Only("controls", Schemes) /\ C!Init
            /\ disk \in Only("levels", Readable) /\ L!Init
            /\ level \in Only("camera", Edges) /\ still \in Only("camera", BOOLEAN) /\ V!Init

PlayNext == /\ UNCHANGED bench
            /\ \/ bench = "flight" /\ F!Next /\ UNCHANGED <<controls, levels, freecam>>
               \/ bench = "controls" /\ C!Next /\ UNCHANGED <<flight, levels, freecam>>
               \/ bench = "levels" /\ L!Next /\ UNCHANGED <<flight, controls, freecam>>
               \/ bench = "camera" /\ V!Next /\ UNCHANGED <<flight, controls, levels>>

PlaySpec == PlayInit /\ [][PlayNext]_<<bench, flight, controls, levels, freecam>>
            /\ WF_freecam(bench = "camera" /\ V!AFrame)

\* A bench's properties are about its own states.
FlightOK == bench = "flight" => F!FlightOK
ControlsOK == bench = "controls" => C!ControlsOK
LevelsOK == bench = "levels" => L!LevelsOK
StepsHonest == [][(bench = "flight" => F!FlightStep) /\ (bench = "levels" => L!LevelStep)]_<<flight, levels>>
CameraReturns == /\ [](bench = "camera" => V!QuickHome)
                 /\ [][bench = "camera" => V!ViewStep]_freecam
                 /\ (bench = "camera" /\ V!Coming) ~> ~V!Coming

MCMoves == {<<1, -1>>, <<-1, 1>>, <<1, 1>>}
MCJump == -3
MCCap == [s \in BOOLEAN |-> IF s THEN 2 ELSE 1]
MCHurt(m) == m
MCHands == {[dir |-> 0, held |-> {}], [dir |-> 1, held |-> {}], [dir |-> 1, held |-> {"hop"}],
            [dir |-> -1, held |-> {"up"}], [dir |-> 1, held |-> {"fire"}]}

MCPresses == ({"kb"} \X {"left", "down", "hop", "fire", "interact", "drop", "freecam"}) \cup {<<"pad", "fire">>}
Spot(bias, range, px, reach) == [bias |-> bias, range |-> range, px |-> px, reach |-> reach]
\* Windows of the table in pickup.c, and places in, beside and out of reach.
MCSpots == {Spot(4, 8, 5, 0), Spot(4, 8, 14, 0), Spot(-8, 16, 20, 4), Spot(-32, 48, 30, 4)}

MCCounts == <<1, 2>>
MCReadable == {{1}, {0, 1}}
MCTables == {<<>>, <<<<1, 1>>, <<0, 2>>, <<1, 0>>>>, <<<<7>>, <<0, 1>>>>}

MCEdges == {[lo |-> 0, hi |-> 22], [lo |-> -1, hi |-> 3]}
=============================================================================
