------------------------------- MODULE Menus -------------------------------
(***************************************************************************)
(* The pause menu (src/src/port/pause_menu.c), the routing of keys, pad    *)
(* buttons, touches and control requests to it or to the game (hw.c), the  *)
(* input shadow the game reads (input.c), and the level-select panel's     *)
(* place among them.  Settings gives what a row shows and a change writes. *)
(*                                                                         *)
(* A press never depends on what is held, so what is held is followed for  *)
(* one code at a time, chosen at the start (watch).  The view clamps the   *)
(* cursor to the page's rows; no page's rows change while it is open, so   *)
(* the clamp is not modelled and Inv says it has nothing to do.            *)
(***************************************************************************)
EXTENDS Settings, Integers

CONSTANTS Keys, Buttons, Touches, \* the codes a player may press, by device
          Watchable,              \* those of them that may be the one followed
          Bindable,               \* the pairs of an action and a code that are bound
          Turnable,               \* rows whose value is changed
          MaxChanges              \* settings changed in one behaviour

ASSUME ChangesBounded == MaxChanges \in Nat

Device == {"kb", "pad"}
Page   == {"main", "options", "graphics", "controls", "extra", "bind_kb", "bind_pad"}
Action == {"left", "right", "up", "down", "fire", "interact", "ffwd", "freecam"}
NoCapture == [dev |-> "none", action |-> "none"]
NoCode    == "none"

VARIABLES
  menu,     \* s_paused, s_title_mode, s_page, s_cursor, s_capture*, s_pending_action
  panel,    \* g_level_select_visible
  gameplay, \* g_gameplay_active
  loading,  \* g_pc_pending_load
  watch,    \* the code followed
  phys,     \* is it down
  held,     \* is it in s_held, or its action in s_touch_active
  left,     \* changes still to be made
  last      \* the row whose value was changed last

vars == <<settings, menu, panel, gameplay, loading, watch, phys, held, left, last>>

-----------------------------------------------------------------------------
(* Rows and their values *)

\* A row's key, its values in order, the one shown while the key is unset, and the one
\* a change starts from then.
Cycle(key, values, shown, taken) ==
  [key |-> key, values |-> values, shown |-> shown, taken |-> taken]
Toggle(key) == Cycle(key, <<"false", "true">>, 1, 1)

Knobs == [
  speed      |-> Cycle("game_speed", <<"normal", "turbo", "hyper">>, 1, 1),
  match      |-> Cycle("pace_to_display", <<"off", "free", "always">>, 2, 2),
  aspect     |-> Cycle("widescreen_mode", <<"disabled", "16:9", "auto">>, 1, 1),
  fall       |-> Cycle("fall_damage", <<"vanilla", "light", "none">>, 1, 1),
  reach      |-> Cycle("interact_extend", <<"0", "5">>, 1, 1),
  update     |-> Cycle("update_check", <<"false", "true">>, 2, 1),
  physics    |-> Toggle("platformer_physics"),
  panning    |-> Toggle("freecam_pause"),
  fullscreen |-> Toggle("fullscreen"),
  ambient    |-> Toggle("fx_ambient"),
  shadow     |-> Toggle("fx_shadow"),
  skip       |-> Toggle("skip_intro"),
  unlock     |-> Toggle("unlock_all_levels"),
  modern_kb  |-> Toggle("modern_controls_keyboard"),
  modern_pad |-> Toggle("modern_controls_controller")]

\* Whatever the file has for a truth value reads as one of the two, and is spelt so here.
ASSUME TruthsSpelt ==
  \A t \in Files, row \in DOMAIN Knobs :
    Knobs[row].values = <<"false", "true">> /\ Knobs[row].key \in DOMAIN t =>
      t[Knobs[row].key] \in {"false", "true"}

Valued == DOMAIN Knobs \cup {"renderer"}

ASSUME ValuesTurn == Turnable \subseteq Valued

At(row, default) ==
  LET k == Knobs[row]
      v == Show(k.key)
  IN IF \E i \in DOMAIN k.values : k.values[i] = v THEN CHOOSE i \in DOMAIN k.values : k.values[i] = v
     ELSE IF row \in {"modern_kb", "modern_pad"} /\ Show("modern_controls") = "true" THEN 2
     ELSE default

RendererAt == IF Show("renderer") # "benren" THEN 1
              ELSE IF Show("present") # "vulkan" THEN 2 ELSE 3

ValueShown(row) == IF row = "renderer" THEN RendererAt ELSE At(row, Knobs[row].shown)

Modern(dev) == ValueShown(IF dev = "kb" THEN "modern_kb" ELSE "modern_pad") = 2

Wrapped(i, n) == ((i - 1 + n) % n) + 1

\* The pairs that turning a row by dir writes; none for an effect without the hardware renderer.
Turned(row, dir) ==
  CASE row = "renderer" ->
         LET i == Wrapped(RendererAt + dir, 3)
         IN << <<"renderer", IF i = 1 THEN "vanilla" ELSE "benren">>,
               <<"present", IF i = 3 THEN "vulkan" ELSE "sdl">> >>
    [] row \in {"ambient", "shadow"} /\ RendererAt # 3 -> << >>
    [] OTHER ->
         LET k == Knobs[row]
             i == Wrapped(At(row, k.taken) + (IF row = "fall" THEN 1 ELSE dir), Len(k.values))
         IN << <<k.key, k.values[i]>> >>

BindingRows(dev) ==
  IF Modern(dev)
    THEN <<"left", "right", "up", "down", "fire", "interact", "ffwd", "freecam", "back">>
  ELSE <<"left", "right", "up", "down", "fire", "ffwd", "freecam", "back">>

RowsOf(page, title) ==
  CASE page = "main"     -> <<"resume", "options", "retry", "exit", "quit">>
    [] page = "options"  ->
         IF title THEN <<"graphics", "speed", "match", "physics", "panning", "controls",
                         "extra", "back", "quit">>
         ELSE <<"graphics", "speed", "match", "physics", "panning", "controls", "extra", "back">>
    [] page = "graphics" -> <<"renderer", "aspect", "fullscreen", "ambient", "shadow", "back">>
    [] page = "controls" -> <<"reach", "modern_kb", "modern_pad", "bind_kb", "bind_pad", "back">>
    [] page = "extra"    -> <<"skip", "unlock", "fall", "update", "back">>
    [] page = "bind_kb"  -> BindingRows("kb")
    [] page = "bind_pad" -> BindingRows("pad")

Rows(m) == RowsOf(m.page, m.title)
Row(m)  == Rows(m)[m.cursor]

\* The page each submenu is opened from; the row that opens it has its name.
Parent == [options |-> "main", graphics |-> "options", controls |-> "options",
           extra |-> "options", bind_kb |-> "controls", bind_pad |-> "controls"]

-----------------------------------------------------------------------------
(* Bindings *)

BindKey == [kb  |-> [left |-> "bind_left", right |-> "bind_right", up |-> "bind_up",
                     down |-> "bind_down", fire |-> "bind_fire", interact |-> "bind_interact",
                     ffwd |-> "bind_ffwd", freecam |-> "bind_freecam"],
            pad |-> [left |-> "pad_left", right |-> "pad_right", up |-> "pad_up",
                     down |-> "pad_down", fire |-> "pad_fire", interact |-> "pad_interact",
                     ffwd |-> "pad_ffwd", freecam |-> "pad_freecam"]]

\* The codes a binding's text names: a comma and a plus separate names there, so the
\* name of the key that types one names nothing.  Unset stands for the default's codes.
Parsed(name) == IF name \in {",", "+"} THEN {} ELSE {name}

BoundTo(dev, action) == Parsed(Show(BindKey[dev][action]))

-----------------------------------------------------------------------------
(* The menu's own moves *)

Closed == [open |-> FALSE, title |-> FALSE, page |-> "main", cursor |-> 1,
           capture |-> NoCapture, pending |-> "none"]

OpenAt(page, title) == [Closed EXCEPT !.open = TRUE, !.title = title, !.page = page]

Entered(m, page) == [m EXCEPT !.page = page, !.cursor = 1]

EnteredAt(m, page, row) ==
  [m EXCEPT !.page = page,
            !.cursor = CHOOSE i \in DOMAIN RowsOf(page, m.title) : RowsOf(page, m.title)[i] = row]

\* Mutant: the root of the options opened from the title is not known as such.
OutToMain(m) == IF m.page = "main" THEN [m EXCEPT !.pending = "resume"]
                ELSE EnteredAt(m, Parent[m.page], m.page)

Out(m) == IF m.page = "main" \/ (m.page = "options" /\ m.title)
          THEN [m EXCEPT !.pending = "resume"]
          ELSE EnteredAt(m, Parent[m.page], m.page)

Escaped(m) == IF m.capture # NoCapture THEN [m EXCEPT !.capture = NoCapture] ELSE Out(m)

Toggled(m) == IF m.open THEN [m EXCEPT !.pending = "resume"] ELSE OpenAt("main", FALSE)

OptionsOpened(m) == IF m.open THEN m ELSE OpenAt("options", TRUE)

Capturing == menu.open /\ menu.capture # NoCapture

BindPages == [bind_kb |-> "kb", bind_pad |-> "pad"]

SettingsStay == UNCHANGED <<settings, left, last>>

Change(row, pairs) == left > 0 /\ left' = left - 1 /\ last' = row /\ Persist(pairs)

TurnRow(dir) ==
  LET pairs == Turned(Row(menu), dir)
  IN /\ UNCHANGED menu
     /\ IF pairs = << >> THEN SettingsStay
        ELSE Row(menu) \in Turnable /\ Change(Row(menu), pairs)

Select ==
  LET row == Row(menu)
  IN \/ /\ row \in DOMAIN Parent
        /\ menu' = Entered(menu, row) /\ SettingsStay
     \/ /\ row = "back"
        /\ menu' = Out(menu) /\ SettingsStay
     \/ /\ menu.page \in {"main", "options"} /\ row \in {"resume", "retry", "exit", "quit"}
        /\ menu' = [menu EXCEPT !.pending = row] /\ SettingsStay
     \/ /\ menu.page \in DOMAIN BindPages /\ row # "back"
        /\ menu' = [menu EXCEPT !.capture = [dev |-> BindPages[menu.page], action |-> row]]
        /\ SettingsStay
     \/ /\ row \in Valued
        /\ TurnRow(1)

Move(by) == /\ menu' = [menu EXCEPT !.cursor = Wrapped(@ + by, Len(Rows(menu)))]
            /\ SettingsStay

\* One intent, from whatever device, with the menu open.
Press(intent) ==
  IF intent = "cancel" THEN menu' = Escaped(menu) /\ SettingsStay
  ELSE IF intent = "none" \/ Capturing THEN UNCHANGED menu /\ SettingsStay
  ELSE \/ intent = "up" /\ Move(-1)
       \/ intent = "down" /\ Move(1)
       \/ intent = "select" /\ Select
       \/ /\ intent \in {"left", "right"}
          /\ IF Row(menu) \in Valued THEN TurnRow(IF intent = "left" THEN -1 ELSE 1)
             ELSE UNCHANGED menu /\ SettingsStay

\* A press while a binding is being asked for.
CaptureCode(dev, code) ==
  LET c == menu.capture
  IN IF dev = "kb" /\ code = "Esc"
       THEN menu' = [menu EXCEPT !.capture = NoCapture] /\ SettingsStay
     ELSE IF dev # c.dev \/ (dev = "pad" /\ code = "Start")
       THEN UNCHANGED menu /\ SettingsStay
     ELSE /\ <<c.action, code>> \in Bindable
          /\ Change("binding", << <<BindKey[dev][c.action], code>> >>)
          /\ menu' = [menu EXCEPT !.capture = NoCapture]

-----------------------------------------------------------------------------
(* Keys, buttons and touches *)

Arrows == {"Up", "Down", "Left", "Right"}

KeyIntent == [c \in Keys |->
  CASE c = "Up" -> "up" [] c = "Down" -> "down" [] c = "Left" -> "left" [] c = "Right" -> "right"
    [] c = "Z" -> "select" [] OTHER -> "none"]

PadIntent == [c \in Buttons |->
  CASE c = "DPUp" -> "up" [] c = "DPDown" -> "down" [] c = "DPLeft" -> "left"
    [] c = "DPRight" -> "right" [] c = "South" -> "select" [] c = "East" -> "cancel"
    [] OTHER -> "none"]

TouchIntent == [c \in Touches |->
  CASE c = "TUp" -> "up" [] c = "TDown" -> "down" [] c = "TLeft" -> "left"
    [] c = "TRight" -> "right" [] c \in {"TFire", "TUse"} -> "select" [] OTHER -> "none"]

Down(code) == phys' = (phys \/ code = watch)
Hold(code) == held' = (held \/ code = watch)
NotForGame == UNCHANGED <<held, loading>>

EscapeKey ==
  /\ SettingsStay /\ NotForGame
  /\ IF panel THEN panel' = FALSE /\ UNCHANGED menu
     ELSE /\ UNCHANGED panel
          /\ menu' = IF menu.open THEN Escaped(menu)
                     ELSE IF gameplay THEN Toggled(menu) ELSE OptionsOpened(menu)

KeyPressed(c) ==
  IF Capturing THEN CaptureCode("kb", c) /\ NotForGame /\ UNCHANGED panel
  ELSE IF c = "Esc" THEN EscapeKey
  ELSE /\ UNCHANGED panel
       /\ IF menu.open THEN Press(KeyIntent[c]) /\ NotForGame
          ELSE /\ UNCHANGED menu /\ SettingsStay
               /\ IF panel /\ c \in Arrows THEN NotForGame
                  ELSE Hold(c) /\ loading' = (loading \/ c = "D")

\* The operating system repeats the press of a key that stays down.
KeyDown == \E c \in Keys : /\ KeyPressed(c) /\ Down(c)
                           /\ UNCHANGED <<gameplay, watch>>

\* Mutant: the menu swallows releases with everything else.
ReleasedInGame == held' = (held /\ menu.open)

\* In the menu, in a capture or in the game, a release reaches the shadow.
Released == held' = FALSE

WatchedUp(codes) ==
  /\ watch \in codes /\ phys
  /\ phys' = FALSE /\ Released
  /\ SettingsStay /\ UNCHANGED <<menu, panel, gameplay, loading, watch>>

KeyUp == WatchedUp(Keys)

ButtonPressed(c) ==
  IF Capturing THEN CaptureCode("pad", c) /\ NotForGame
  ELSE IF c = "Start"
    THEN /\ SettingsStay /\ NotForGame
         /\ menu' = IF menu.open THEN Escaped(menu)
                    ELSE IF gameplay THEN Toggled(menu) ELSE OptionsOpened(menu)
  ELSE IF menu.open THEN Press(PadIntent[c]) /\ NotForGame
  ELSE Hold(c) /\ SettingsStay /\ UNCHANGED <<menu, loading>>

ButtonDown == \E c \in Buttons : /\ ButtonPressed(c) /\ Down(c)
                                 /\ UNCHANGED <<panel, gameplay, watch>>

ButtonUp == WatchedUp(Buttons)

\* The last pad is unplugged with the button down: its held buttons are cleared.
PadGone == WatchedUp(Buttons)

\* The pause control is the Esc key's press; the others are an intent for the open menu or
\* an action for the game.
TouchDown == \E c \in Touches :
  /\ Down(c) /\ UNCHANGED <<gameplay, watch>>
  /\ IF c = "TPause" THEN KeyPressed("Esc")
     ELSE IF menu.open /\ TouchIntent[c] # "none"
       THEN Press(TouchIntent[c]) /\ NotForGame /\ UNCHANGED panel
     ELSE Hold(c) /\ SettingsStay /\ UNCHANGED <<menu, panel, loading>>

TouchUp == WatchedUp(Touches)

-----------------------------------------------------------------------------
(* The control channel, the frame loop and the guest *)

Elsewhere == UNCHANGED <<watch, phys, held>>

HttpToggle == /\ menu' = Toggled(menu)
              /\ SettingsStay /\ Elsewhere /\ UNCHANGED <<panel, gameplay, loading>>

HttpNav == /\ menu.open
           /\ \E i \in {"up", "down", "left", "right", "select", "cancel"} : Press(i)
           /\ Elsewhere /\ UNCHANGED <<panel, gameplay, loading>>

HttpReach == /\ left > 0 /\ left' = left - 1 /\ last' = "http"
             /\ \E v \in {"0", "5"} : Override("interact_extend", v)
             /\ Elsewhere /\ UNCHANGED <<menu, panel, gameplay, loading>>

\* The fullscreen key, which no menu intercepts.
F11 == /\ Change("f11", Turned("fullscreen", 1))
       /\ Elsewhere /\ UNCHANGED <<menu, panel, gameplay, loading>>

Launch == /\ menu' = Closed /\ panel' = FALSE /\ gameplay' = FALSE /\ loading' = FALSE
          /\ phys' = FALSE /\ held' = FALSE
          /\ UNCHANGED <<watch, last>>

\* The deferred action, at the top of pc_step.
PauseTick ==
  \/ /\ menu.pending \in {"resume", "retry", "exit"}
     /\ menu' = [menu EXCEPT !.pending = "none", !.open = FALSE]
     /\ gameplay' = (gameplay /\ menu.pending # "exit")
     /\ SettingsStay /\ Elsewhere /\ UNCHANGED <<panel, loading>>
  \/ /\ menu.pending = "quit"
     /\ LaunchedWith(file) /\ Launch /\ UNCHANGED left

\* A load that succeeds puts g_state, and so g_gameplay_active, in place; saves are of gameplay.
LandLoad == /\ loading /\ loading' = FALSE
            /\ gameplay' \in {gameplay, TRUE}
            /\ SettingsStay /\ Elsewhere /\ UNCHANGED <<menu, panel>>

\* The picker started a level, or was dismissed and the menu goes on; or the title opens one
\* of its screens; or a level starts or ends.
GuestMoves ==
  /\ ~menu.open /\ SettingsStay /\ Elsewhere /\ UNCHANGED loading
  /\ \/ /\ ~gameplay /\ ~panel
        /\ \/ panel' = TRUE /\ UNCHANGED <<menu, gameplay>>
           \/ menu' = OptionsOpened(menu) /\ UNCHANGED <<panel, gameplay>>
           \/ gameplay' = TRUE /\ UNCHANGED <<menu, panel>>
     \/ /\ ~gameplay /\ panel
        /\ panel' = FALSE /\ gameplay' = TRUE /\ UNCHANGED menu
     \/ /\ gameplay
        /\ gameplay' = FALSE /\ UNCHANGED <<menu, panel>>

\* The process dies while a row's change is being written.
Dies == /\ menu.open /\ ~Capturing /\ Row(menu) \in Turnable /\ left > 0 /\ left' = left - 1
        /\ \E dir \in {-1, 1} : /\ Turned(Row(menu), dir) # << >>
                                /\ DiesWriting(Turned(Row(menu), dir))
        /\ Launch

\* Either one code is followed and nothing is changed, or settings are changed and the game
\* stays where it is: neither looks at the other.
Init == /\ text \in Files /\ file = text /\ session = Nothing
        /\ menu = Closed /\ panel = FALSE /\ gameplay = FALSE /\ loading = FALSE
        /\ phys = FALSE /\ held = FALSE /\ last = "none"
        /\ \/ watch \in Watchable /\ left = 0
           \/ watch = NoCode /\ left = MaxChanges

Next == /\ \/ KeyDown \/ KeyUp \/ ButtonDown \/ ButtonUp \/ PadGone \/ TouchDown \/ TouchUp
           \/ HttpToggle \/ HttpNav \/ HttpReach \/ F11 \/ PauseTick \/ Dies
           \/ LandLoad \/ GuestMoves
        /\ watch = NoCode => UNCHANGED <<gameplay, panel, loading>>

Spec == Init /\ [][Next]_vars

-----------------------------------------------------------------------------
(* Properties *)

TypeOK == /\ menu \in [open : BOOLEAN, title : BOOLEAN, page : Page, cursor : 1..9,
                       capture : {NoCapture} \cup [dev : Device, action : Action],
                       pending : {"none", "resume", "retry", "exit", "quit"}]
          /\ {panel, gameplay, loading, phys, held} \subseteq BOOLEAN
          /\ watch \in Watchable \cup {NoCode} /\ left \in 0..MaxChanges

\* The cursor is on a row of the page, whatever page, mode or device it was brought to
\* (the clamp in pc_pause_view_build has nothing to do).
CursorOnRow == menu.cursor \in DOMAIN Rows(menu)

\* The row that shows "PRESS A KEY" is the one that will be bound, on the page of its device.
CaptureOnItsRow ==
  Capturing => /\ menu.page \in DOMAIN BindPages /\ BindPages[menu.page] = menu.capture.dev
               /\ Row(menu) = menu.capture.action

\* The page with RETRY and EXIT is never reached from options opened on the title.
TitleHasNoMain == menu.open /\ menu.title => menu.page # "main"

\* The menu's state is one its rows and its view have a meaning for, and no later rewrite of
\* the settings file loses a setting to an earlier one that failed.
Inv == TypeOK /\ CursorOnRow /\ CaptureOnItsRow /\ TitleHasNoMain /\ NothingForgotten

\* No key, button or touch that has been let go stays held for the game, wherever the menu
\* was opened, closed or asked for a binding between the press and the release.
NothingLatched == held => phys

\* The menu moves between a page and its submenus only, and on the way out the cursor is on
\* the row that leads back in, from every page, by every device.
BackReturns ==
  menu.open /\ menu'.open /\ menu'.page # menu.page =>
    \/ menu'.page \in DOMAIN Parent /\ Parent[menu'.page] = menu.page
       /\ Row(menu) = menu'.page
    \/ menu.page \in DOMAIN Parent /\ Parent[menu.page] = menu'.page
       /\ Row(menu)' = menu.page

Masked(row) == IF row = "renderer" THEN {"renderer", "present"} \cap DOMAIN Env # {}
               ELSE Knobs[row].key \in DOMAIN Env

\* A change of a row is seen in that row at once and in no other, whatever override from the
\* control channel was in force and whether or not the file could be written, unless the
\* environment decides the row.  The first press on an UPDATE CHECK that was never set
\* stores the value it already shows.
RowAnswers ==
  left' # left /\ menu'.open =>
    \A r \in Valued :
      IF r = last'
        THEN \/ ValueShown(r)' # ValueShown(r) \/ Masked(r)
             \/ r = "update" /\ Show("update_check") = Unset
      ELSE last' \in Valued => ValueShown(r)' = ValueShown(r)

MenuAnswers == [][BackReturns /\ RowAnswers]_vars

\* pause_menu.c:20: "the next key/button pressed on that device becomes the binding".
EveryActionBound == \A dev \in Device, a \in Action : BoundTo(dev, a) # {}
=============================================================================
