------------------------------ MODULE MCMenus ------------------------------
EXTENDS Menus, TLC

\* A later launch: a scheme with its extra row, the software renderer, UPDATE CHECK never
\* set.  What a first launch finds, a death in a rewrite leaves.
OneFile == {("modern_controls" :> "true") @@ ("renderer" :> "benren")}
FullscreenSet == "fullscreen" :> "true"
NoFile == {Nothing}
FireSouth == {<<"fire", "South">>}
LeftComma == {"left"} \X {"Z", ","}
NoEnv == Nothing
=============================================================================
