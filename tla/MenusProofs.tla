---------------------------- MODULE MenusProofs ----------------------------
(***************************************************************************)
(* The pause menu, for every set of codes, bindings, rows, files and       *)
(* environments: no code that has been let go stays held for the game;     *)
(* the menu is always one its rows and its view have a meaning for; a page *)
(* leads to its submenus and back; a turned row, and it alone, shows what  *)
(* it was turned to.                                                       *)
(*                                                                         *)
(* The moves of the menu are pure functions of it, and so is what Inv says *)
(* of it (MenuOK): each move keeps it by the rows the step found.  That    *)
(* these are still the rows after the step is a matter of which settings   *)
(* the step wrote (Answered), and is shown once per writer.                *)
(***************************************************************************)
EXTENDS Menus, TLAPS

-----------------------------------------------------------------------------
(* What is held is down *)

Latch == /\ phys \in BOOLEAN
         /\ held \in BOOLEAN
         /\ held => phys

\* A press reaches the shadow as the code pressed, or not at all.
LEMMA KeyReaches ==
  ASSUME NEW c, KeyPressed(c)
  PROVE  held' = held \/ Hold(c)
  BY DEF KeyPressed, NotForGame, EscapeKey

LEMMA ButtonReaches ==
  ASSUME NEW c, ButtonPressed(c)
  PROVE  held' = held \/ Hold(c)
  BY DEF ButtonPressed, NotForGame

\* Whatever is pressed, the code followed is held only if it is down.
LEMMA PressKeepsLatch ==
  ASSUME Latch, NEW c, Down(c), held' = held \/ Hold(c)
  PROVE  Latch'
  <1>1. phys' \in BOOLEAN /\ (phys \/ c = watch => phys')
    BY DEF Latch, Down
  <1>2. CASE held' = held
    BY <1>1, <1>2 DEF Latch
  <1>3. CASE Hold(c)
    <2>1. held' \in BOOLEAN /\ (held' => held \/ c = watch)
      BY <1>3 DEF Latch, Hold
    <2> QED BY <1>1, <2>1 DEF Latch
  <1> QED BY <1>2, <1>3

\* The touch control that pauses presses Esc, which the shadow never takes.
LEMMA EscNotHeld ==
  ASSUME KeyPressed("Esc")
  PROVE  held' = held
  BY DEF KeyPressed, NotForGame, EscapeKey

LEMMA ReleaseKeepsLatch ==
  ASSUME NEW codes, WatchedUp(codes)
  PROVE  Latch'
  BY DEF WatchedUp, Released, Latch

LEMMA InitLatch == Init => Latch
  BY DEF Init, Latch

\* A launch lets go of everything; the other actions that are no press or release
\* touch neither.
LEMMA ElsewhereKeepsLatch ==
  ASSUME Latch,
         HttpToggle \/ HttpNav \/ HttpReach \/ F11 \/ PauseTick \/ Dies \/ LandLoad \/ GuestMoves
  PROVE  Latch'
  <1>1. Elsewhere => Latch'
    BY DEF Elsewhere, Latch
  <1>2. Launch => Latch'
    BY DEF Launch, Latch
  <1>3. Elsewhere \/ Launch
    BY DEF HttpToggle, HttpNav, HttpReach, F11, PauseTick, Dies, LandLoad, GuestMoves
  <1> QED BY <1>1, <1>2, <1>3

LEMMA NextLatch == Latch /\ [Next]_vars => Latch'
  <1> SUFFICES ASSUME Latch, [Next]_vars PROVE Latch'
    OBVIOUS
  <1>1. CASE KeyDown
    <2>1. PICK c \in Keys : KeyPressed(c) /\ Down(c)
      BY <1>1 DEF KeyDown
    <2> QED BY <2>1, KeyReaches, PressKeepsLatch
  <1>2. CASE ButtonDown
    <2>1. PICK c \in Buttons : ButtonPressed(c) /\ Down(c)
      BY <1>2 DEF ButtonDown
    <2> QED BY <2>1, ButtonReaches, PressKeepsLatch
  <1>3. CASE TouchDown
    <2>1. PICK c \in Touches :
             /\ Down(c)
             /\ KeyPressed("Esc") \/ held' = held \/ Hold(c)
      BY <1>3 DEF TouchDown, NotForGame
    <2> QED BY <2>1, EscNotHeld, PressKeepsLatch
  <1>4. CASE KeyUp \/ ButtonUp \/ PadGone \/ TouchUp
    BY <1>4, ReleaseKeepsLatch DEF KeyUp, ButtonUp, PadGone, TouchUp
  <1>5. CASE HttpToggle \/ HttpNav \/ HttpReach \/ F11 \/ PauseTick \/ Dies \/ LandLoad \/ GuestMoves
    BY <1>5, ElsewhereKeepsLatch
  <1>6. CASE UNCHANGED vars
    BY <1>6 DEF vars, Latch
  <1> QED BY <1>1, <1>2, <1>3, <1>4, <1>5, <1>6 DEF Next

\* No key, button or touch that has been let go stays held for the game (NothingLatched):
\* whatever the routing did between the press and the release.
THEOREM Unlatched == Spec => []NothingLatched
  <1>1. Latch => NothingLatched
    BY DEF Latch, NothingLatched
  <1> QED BY <1>1, InitLatch, NextLatch, PTL DEF Spec

-----------------------------------------------------------------------------
(* The pages and their rows *)

\* A page has between five and nine rows.
LEMMA RowsSize ==
  ASSUME NEW page \in Page, NEW title \in BOOLEAN
  PROVE  \E n \in 5..9 : /\ DOMAIN RowsOf(page, title) = 1..n
                         /\ Len(RowsOf(page, title)) = n
  BY DEF RowsOf, BindingRows, Page

\* A submenu is opened from a row of its parent page, in both modes.
LEMMA LeadsIn ==
  ASSUME NEW page \in DOMAIN Parent, NEW title \in BOOLEAN
  PROVE  /\ Parent[page] \in Page
         /\ Parent[page] = "main" => page = "options"
         /\ \E i \in DOMAIN RowsOf(Parent[page], title) : RowsOf(Parent[page], title)[i] = page
  BY DEF RowsOf, Parent, Page

\* A row of a bindings page is an action or BACK.
LEMMA BindRows ==
  ASSUME NEW page \in DOMAIN BindPages, NEW title \in BOOLEAN,
         NEW i \in DOMAIN RowsOf(page, title)
  PROVE  /\ page \in {"bind_kb", "bind_pad"}
         /\ RowsOf(page, title)[i] \in Action \cup {"back"}
  BY DEF RowsOf, BindingRows, BindPages, Action

\* Bindings rows are no valued rows and open no page.
LEMMA RowKinds ==
  /\ DOMAIN Parent = {"options", "graphics", "controls", "extra", "bind_kb", "bind_pad"}
  /\ (Action \cup {"back"}) \cap (Valued \cup DOMAIN Parent) = {}
  /\ "back" \notin Action
  BY DEF Action, Valued, Knobs, Parent

\* What an edit of one key leaves.
LEMMA Edits ==
  ASSUME NEW k, NEW v, NEW t
  PROVE /\ DOMAIN Edited(t, k, v) = DOMAIN t \cup {k}
        /\ Edited(t, k, v)[k] = v
        /\ \A j \in DOMAIN t \ {k} : Edited(t, k, v)[j] = t[j]
  BY DEF Edited

\* A change drops no setting from the text it is made in.
LEMMA WrittenGrows ==
  ASSUME NEW t, NEW changes
  PROVE  DOMAIN t \subseteq DOMAIN Written(t, changes)
  BY DEF Written, Edited

\* Whatever a rewrite left on disk, the live text has all of it.
LEMMA PersistKeeps ==
  ASSUME NothingForgotten, NEW changes, Persist(changes)
  PROVE  NothingForgotten'
  <1>1. DOMAIN text \subseteq DOMAIN Written(text, changes)
    BY WrittenGrows
  <1>2. ASSUME Len(changes) = 2
        PROVE  DOMAIN Written(text, <<changes[1]>>) \subseteq DOMAIN Written(text, changes)
    <2>1. Written(text, <<changes[1]>>) = Edited(text, changes[1][1], changes[1][2])
      BY DEF Written
    <2> QED BY <2>1, <1>2 DEF Written, Edited
  <1>3. DOMAIN Nothing = {}
    BY DEF Nothing
  <1> QED BY <1>1, <1>2, <1>3 DEF Persist, OnDisk, NothingForgotten

-----------------------------------------------------------------------------
(* What a change of the settings leaves *)

\* The keys that decide a device's control scheme.
ModernKeys == {"modern_controls_keyboard", "modern_controls_controller", "modern_controls"}

\* The scheme of a device, and with it the rows of its bindings page, depends on three
\* keys.
LEMMA ModernFrom ==
  ASSUME \A k \in ModernKeys : Show(k)' = Show(k)
  PROVE  Modern("kb")' = Modern("kb") /\ Modern("pad")' = Modern("pad")
  <1>1. Knobs["modern_kb"] = [key |-> "modern_controls_keyboard",
                           values |-> <<"false", "true">>, shown |-> 1, taken |-> 1]
    BY DEF Knobs, Cycle, Toggle
  <1>2. Knobs["modern_pad"] = [key |-> "modern_controls_controller",
                            values |-> <<"false", "true">>, shown |-> 1, taken |-> 1]
    BY DEF Knobs, Cycle, Toggle
  <1> QED BY <1>1, <1>2 DEF Modern, ValueShown, At, ModernKeys

LEMMA WrittenOne ==
  ASSUME NEW t, NEW key, NEW v
  PROVE  Written(t, << <<key, v>> >>) = Edited(t, key, v)
  BY DEF Written

\* A change of one key is seen in no other.
LEMMA ShowKept ==
  ASSUME NEW key, NEW v, NEW k, k # key,
         session' = Edited(session, key, v),
         text' = Edited(text, key, v) \/ text' = text
  PROVE  Show(k)' = Show(k)
  <1>1. /\ k \in DOMAIN session' <=> k \in DOMAIN session
        /\ (k \in DOMAIN session) => (session'[k] = session[k])
    BY DEF Edited
  <1>2. /\ k \in DOMAIN text' <=> k \in DOMAIN text
        /\ (k \in DOMAIN text) => (text'[k] = text[k])
    BY DEF Edited
  <1> QED BY <1>1, <1>2 DEF Show

-----------------------------------------------------------------------------
(* The moves of the menu *)

MenuShape == [open : BOOLEAN, title : BOOLEAN, page : Page, cursor : 1..9,
              capture : {NoCapture} \cup [dev : Device, action : Action],
              pending : {"none", "resume", "retry", "exit", "quit"}]

\* What Inv says of the menu, as a predicate of a menu: its parts stand for CursorOnRow,
\* CaptureOnItsRow and TitleHasNoMain.
MenuOK(m) ==
  /\ m \in MenuShape
  /\ m.cursor \in DOMAIN Rows(m)
  /\ m.open /\ m.capture # NoCapture =>
       /\ m.page \in DOMAIN BindPages /\ BindPages[m.page] = m.capture.dev
       /\ Row(m) = m.capture.action
  /\ m.open /\ m.title => m.page # "main"

ModernStays == Modern("kb")' = Modern("kb") /\ Modern("pad")' = Modern("pad")

\* The settings' part of Inv.
Ledger == NothingForgotten /\ left \in 0..MaxChanges

\* The menu a step leaves is in order by the rows before the step, and those are its rows
\* after it: a bindings page is left open only by steps that keep its device's scheme.
Answered == /\ MenuOK(menu')
            /\ menu'.page \in DOMAIN BindPages => ModernStays
            /\ Ledger'

\* Every page has a first row.
LEMMA FirstRow ==
  ASSUME NEW m \in MenuShape
  PROVE  /\ Rows(m) = RowsOf(m.page, m.title)
         /\ 1 \in DOMAIN Rows(m) /\ DOMAIN Rows(m) \subseteq 1..9
  BY RowsSize DEF Rows, MenuShape

LEMMA ClosedShape ==
  /\ Closed \in MenuShape /\ ~Closed.open
  /\ Closed.page = "main" /\ Closed.cursor = 1 /\ Closed.capture = NoCapture
  BY DEF Closed, MenuShape, Page, NoCapture

LEMMA ClosedOK == MenuOK(Closed)
  BY ClosedShape, FirstRow DEF MenuOK

LEMMA OpenAtOK ==
  ASSUME NEW page \in Page, NEW title \in BOOLEAN, title => page # "main"
  PROVE  MenuOK(OpenAt(page, title))
  <1> DEFINE m == OpenAt(page, title)
  <1>1. /\ m \in MenuShape /\ m.open = TRUE /\ m.title = title /\ m.page = page
        /\ m.cursor = 1 /\ m.capture = NoCapture
    BY ClosedShape DEF OpenAt, MenuShape
  <1>2. m \in MenuShape
    BY <1>1
  <1> HIDE DEF m
  <1>3. MenuOK(m)
    BY <1>1, <1>2, FirstRow DEF MenuOK
  <1> QED BY <1>3 DEF m

\* An action chosen for the next frame leaves the page as it is.
LEMMA PendingOK ==
  ASSUME NEW m, MenuOK(m), NEW p \in {"none", "resume", "retry", "exit", "quit"}
  PROVE  MenuOK([m EXCEPT !.pending = p])
  <1> DEFINE n == [m EXCEPT !.pending = p]
  <1>1. /\ n \in MenuShape /\ n.open = m.open /\ n.title = m.title /\ n.page = m.page
        /\ n.cursor = m.cursor /\ n.capture = m.capture
    BY DEF MenuOK, MenuShape
  <1>2. Rows(n) = Rows(m) /\ Row(n) = Row(m)
    BY <1>1 DEF Rows, Row
  <1> HIDE DEF n
  <1>3. MenuOK(n)
    BY <1>1, <1>2 DEF MenuOK
  <1> QED BY <1>3 DEF n

LEMMA UncaptureOK ==
  ASSUME NEW m, MenuOK(m)
  PROVE  MenuOK([m EXCEPT !.capture = NoCapture])
  <1> DEFINE n == [m EXCEPT !.capture = NoCapture]
  <1>1. /\ n \in MenuShape /\ n.open = m.open /\ n.title = m.title /\ n.page = m.page
        /\ n.cursor = m.cursor /\ n.capture = NoCapture
    BY DEF MenuOK, MenuShape
  <1>2. Rows(n) = Rows(m)
    BY <1>1 DEF Rows
  <1> HIDE DEF n
  <1>3. MenuOK(n)
    BY <1>1, <1>2 DEF MenuOK
  <1> QED BY <1>3 DEF n

\* A submenu opens on its first row.
LEMMA EnteredOK ==
  ASSUME NEW m, MenuOK(m), m.capture = NoCapture, NEW page \in Page, m.title => page # "main"
  PROVE  MenuOK(Entered(m, page))
  <1> DEFINE n == Entered(m, page)
  <1>1. m \in MenuShape
    BY DEF MenuOK
  <1>2. PICK c \in 1..9 : c = 1
    OBVIOUS
  <1>3. n = [m EXCEPT !.page = page, !.cursor = c]
    BY <1>2 DEF Entered
  <1> HIDE DEF n
  <1>4. /\ n \in MenuShape /\ n.open = m.open /\ n.title = m.title /\ n.page = page
        /\ n.cursor = 1 /\ n.capture = NoCapture
    BY <1>1, <1>3, <1>2 DEF MenuShape
  <1>5. MenuOK(n)
    BY <1>4, FirstRow DEF MenuOK
  <1> QED BY <1>5 DEF n

\* The way out finds the row that leads back in.
LEMMA EnteredAtOK ==
  ASSUME NEW m, MenuOK(m), m.capture = NoCapture, m.page # "main",
         m.page = "options" => ~m.title
  PROVE  /\ MenuOK(EnteredAt(m, Parent[m.page], m.page))
         /\ Row(EnteredAt(m, Parent[m.page], m.page)) = m.page
  <1> DEFINE up == Parent[m.page]
             rows == RowsOf(up, m.title)
             i == CHOOSE j \in DOMAIN rows : rows[j] = m.page
             n == EnteredAt(m, up, m.page)
  <1>1. m \in MenuShape /\ m.page \in DOMAIN Parent /\ m.title \in BOOLEAN
    BY RowKinds DEF MenuOK, MenuShape, Page
  <1>2. up \in Page /\ (up = "main" => m.page = "options")
    BY <1>1, LeadsIn
  <1>3. \E j \in DOMAIN rows : rows[j] = m.page
    BY <1>1, LeadsIn
  <1>4. i \in DOMAIN rows /\ rows[i] = m.page
    BY <1>3
  <1>5. DOMAIN rows \subseteq 1..9
    BY <1>1, <1>2, RowsSize
  <1>6. n = [m EXCEPT !.page = up, !.cursor = i]
    BY DEF EnteredAt
  <1> HIDE DEF n, i, rows, up
  <1>7. /\ n \in MenuShape /\ n.open = m.open /\ n.title = m.title /\ n.page = up
        /\ n.cursor = i /\ n.capture = NoCapture
    BY <1>1, <1>2, <1>4, <1>5, <1>6 DEF MenuShape
  <1>8. Rows(n) = rows
    BY <1>7 DEF Rows, rows
  <1>9. MenuOK(n)
    BY <1>2, <1>4, <1>7, <1>8 DEF MenuOK
  <1> QED BY <1>4, <1>7, <1>8, <1>9 DEF Row, n, up

\* From the root, title or not, the way out closes the menu.
LEMMA OutOK ==
  ASSUME NEW m, MenuOK(m), m.open, m.capture = NoCapture
  PROVE  MenuOK(Out(m))
  BY EnteredAtOK, PendingOK DEF Out

LEMMA EscapedOK ==
  ASSUME NEW m, MenuOK(m), m.open
  PROVE  MenuOK(Escaped(m))
  BY OutOK, UncaptureOK DEF Escaped

LEMMA OpeningsOK ==
  ASSUME NEW m, MenuOK(m)
  PROVE  MenuOK(Toggled(m)) /\ MenuOK(OptionsOpened(m))
  <1>1. "main" \in Page /\ "options" \in Page
    BY DEF Page
  <1> QED BY <1>1, OpenAtOK, PendingOK DEF Toggled, OptionsOpened

-----------------------------------------------------------------------------
(* The actions *)

LEMMA StayKeeps ==
  ASSUME Ledger, SettingsStay
  PROVE  ModernStays /\ Ledger'
  <1>1. \A k \in ModernKeys : Show(k)' = Show(k)
    BY DEF SettingsStay, settings, Show
  <1>2. ModernStays
    BY <1>1, ModernFrom DEF ModernStays
  <1>3. Ledger'
    BY DEF SettingsStay, settings, Ledger, NothingForgotten
  <1> QED BY <1>2, <1>3

LEMMA StayAnswers ==
  ASSUME Ledger, SettingsStay, MenuOK(menu')
  PROVE  Answered
  BY StayKeeps DEF Answered

\* A change of any key but the schemes' three leaves the bindings pages as they are.
LEMMA OneKeyKeeps ==
  ASSUME NEW key, key \notin ModernKeys, NEW v,
         session' = Edited(session, key, v),
         text' = Edited(text, key, v) \/ text' = text
  PROVE  ModernStays
  <1>1. \A k \in ModernKeys : Show(k)' = Show(k)
    BY ShowKept
  <1> QED BY <1>1, ModernFrom DEF ModernStays

LEMMA ChangeKeeps ==
  ASSUME Ledger, NEW row, NEW pairs, Change(row, pairs)
  PROVE  Ledger'
  <1>1. NothingForgotten'
    BY PersistKeeps DEF Change, Ledger
  <1>2. left' \in 0..MaxChanges
    BY ChangesBounded DEF Change, Ledger
  <1> QED BY <1>1, <1>2 DEF Ledger

LEMMA OneChangeKeeps ==
  ASSUME NEW row, NEW key, key \notin ModernKeys, NEW v, Change(row, << <<key, v>> >>)
  PROVE  ModernStays
  <1>1. session' = Edited(session, key, v) /\ text' = Edited(text, key, v)
    BY WrittenOne DEF Change, Persist
  <1> QED BY <1>1, OneKeyKeeps

\* A value is turned on a page whose rows depend on no setting.
LEMMA TurnAnswers ==
  ASSUME Ledger, MenuOK(menu), NEW dir, Row(menu) \in Valued, TurnRow(dir)
  PROVE  Answered
  <1>1. menu' = menu
    BY DEF TurnRow
  <1>2. menu.page \notin DOMAIN BindPages
    BY BindRows, RowKinds DEF MenuOK, MenuShape, Row, Rows
  <1>3. Ledger'
    BY StayKeeps, ChangeKeeps DEF TurnRow
  <1> QED BY <1>1, <1>2, <1>3 DEF Answered

\* A row that asks for a binding is one of a bindings page.
LEMMA SelectAnswers ==
  ASSUME Ledger, MenuOK(menu), menu.open, menu.capture = NoCapture, Select
  PROVE  Answered
  <1> DEFINE row == Row(menu)
  <1>1. menu \in MenuShape /\ menu.title \in BOOLEAN /\ menu.page \in Page
    BY DEF MenuOK, MenuShape
  <1>2. CASE row \in DOMAIN Parent /\ menu' = Entered(menu, row) /\ SettingsStay
    <2>1. row \in Page /\ row # "main"
      BY <1>2, RowKinds DEF Page
    <2>2. MenuOK(menu')
      BY <1>2, <2>1, EnteredOK
    <2> QED BY <1>2, <2>2, StayAnswers
  <1>3. CASE row = "back" /\ menu' = Out(menu) /\ SettingsStay
    BY <1>3, OutOK, StayAnswers
  <1>4. CASE /\ row \in {"resume", "retry", "exit", "quit"}
             /\ menu' = [menu EXCEPT !.pending = row] /\ SettingsStay
    BY <1>4, PendingOK, StayAnswers
  <1>5. CASE /\ menu.page \in DOMAIN BindPages /\ row # "back"
             /\ menu' = [menu EXCEPT !.capture = [dev |-> BindPages[menu.page], action |-> row]]
             /\ SettingsStay
    <2> DEFINE c == [dev |-> BindPages[menu.page], action |-> row]
    <2>1. row \in Action
      BY <1>1, <1>5, BindRows DEF MenuOK, Row, Rows
    <2>2. BindPages[menu.page] \in Device
      BY <1>5 DEF BindPages, Device
    <2>3. c \in [dev : Device, action : Action] /\ c.dev = BindPages[menu.page] /\ c.action = row
      BY <2>1, <2>2
    <2> HIDE DEF c
    <2>4. /\ menu' \in MenuShape /\ menu'.page = menu.page /\ menu'.title = menu.title
          /\ menu'.cursor = menu.cursor /\ menu'.capture = c /\ menu'.open = menu.open
      BY <1>1, <1>5, <2>3 DEF MenuShape, c
    <2>5. MenuOK(menu')
      BY <1>5, <2>3, <2>4 DEF MenuOK, Row, Rows
    <2> QED BY <1>5, <2>5, StayAnswers
  <1>6. CASE row \in Valued /\ TurnRow(1)
    BY <1>6, TurnAnswers
  <1> QED BY <1>2, <1>3, <1>4, <1>5, <1>6 DEF Select

\* The cursor wraps within the page.
LEMMA MoveAnswers ==
  ASSUME Ledger, MenuOK(menu), menu.capture = NoCapture, NEW by \in {-1, 1}, Move(by)
  PROVE  Answered
  <1> DEFINE n == Len(Rows(menu))
             c == Wrapped(menu.cursor + by, n)
  <1>1. menu \in MenuShape /\ menu.title \in BOOLEAN /\ menu.page \in Page
    BY DEF MenuOK, MenuShape
  <1>2. n \in 5..9 /\ DOMAIN Rows(menu) = 1..n
    BY <1>1, RowsSize DEF Rows
  <1>3. menu.cursor \in 1..n
    BY <1>2 DEF MenuOK
  <1> HIDE DEF n
  <1>4. PICK r \in 0..(n - 1) : ((menu.cursor + by) - 1 + n) % n = r
    BY <1>2, <1>3
  <1>5. c = r + 1
    BY <1>4 DEF Wrapped
  <1>6. c \in 1..n /\ c \in 1..9
    BY <1>2, <1>4, <1>5
  <1>7. menu' = [menu EXCEPT !.cursor = c]
    BY DEF Move, n
  <1> HIDE DEF c
  <1>8. /\ menu' \in MenuShape /\ menu'.page = menu.page /\ menu'.title = menu.title
        /\ menu'.cursor = c /\ menu'.capture = menu.capture /\ menu'.open = menu.open
    BY <1>1, <1>6, <1>7 DEF MenuShape
  <1>9. MenuOK(menu')
    BY <1>2, <1>6, <1>8 DEF MenuOK, Rows
  <1> QED BY <1>9, StayAnswers DEF Move

LEMMA PressAnswers ==
  ASSUME Ledger, MenuOK(menu), menu.open, NEW intent, Press(intent)
  PROVE  Answered
  <1>1. CASE intent = "cancel"
    BY <1>1, EscapedOK, StayAnswers DEF Press
  <1>2. CASE UNCHANGED menu /\ SettingsStay
    BY <1>2, StayAnswers
  <1>3. CASE intent # "cancel" /\ ~(intent = "none" \/ Capturing)
    <2>1. menu.capture = NoCapture
      BY <1>3 DEF Capturing
    <2>2. \/ Move(-1) \/ Move(1) \/ Select
          \/ Row(menu) \in Valued /\ TurnRow(IF intent = "left" THEN -1 ELSE 1)
          \/ UNCHANGED menu /\ SettingsStay
      BY <1>3 DEF Press
    <2> QED BY <1>2, <2>1, <2>2, MoveAnswers, SelectAnswers, TurnAnswers
  <1> QED BY <1>1, <1>2, <1>3 DEF Press

LEMMA BindKeysOther ==
  ASSUME NEW dev \in Device, NEW action \in Action
  PROVE  BindKey[dev][action] \notin ModernKeys
  BY DEF Device, Action, BindKey, ModernKeys

\* The code is bound on the page of its device, and binding it does not change the scheme.
LEMMA CaptureAnswers ==
  ASSUME Ledger, MenuOK(menu), Capturing, NEW dev, NEW code, CaptureCode(dev, code)
  PROVE  Answered
  <1>1. CASE SettingsStay /\ menu' \in {menu, [menu EXCEPT !.capture = NoCapture]}
    BY <1>1, UncaptureOK, StayAnswers
  <1>2. CASE ~(SettingsStay /\ menu' \in {menu, [menu EXCEPT !.capture = NoCapture]})
    <2> DEFINE a == menu.capture.action
               key == BindKey[dev][a]
    <2>1. /\ dev = menu.capture.dev
          /\ Change("binding", << <<key, code>> >>)
          /\ menu' = [menu EXCEPT !.capture = NoCapture]
      BY <1>2 DEF CaptureCode
    <2>2. menu.capture \in [dev : Device, action : Action]
      BY DEF Capturing, MenuOK, MenuShape
    <2>3. dev \in Device /\ a \in Action
      BY <2>1, <2>2
    <2>4. key \notin ModernKeys
      BY <2>3, BindKeysOther
    <2>5. MenuOK(menu')
      BY <2>1, UncaptureOK
    <2> HIDE DEF key
    <2> QED BY <2>1, <2>4, <2>5, OneChangeKeeps, ChangeKeeps DEF Answered
  <1> QED BY <1>1, <1>2

LEMMA EscapeAnswers ==
  ASSUME Ledger, MenuOK(menu), EscapeKey
  PROVE  Answered
  BY EscapedOK, OpeningsOK, StayAnswers DEF EscapeKey

LEMMA KeyAnswers ==
  ASSUME Ledger, MenuOK(menu), NEW c, KeyPressed(c)
  PROVE  Answered
  BY CaptureAnswers, EscapeAnswers, PressAnswers, StayAnswers DEF KeyPressed

LEMMA ButtonAnswers ==
  ASSUME Ledger, MenuOK(menu), NEW c, ButtonPressed(c)
  PROVE  Answered
  BY CaptureAnswers, EscapedOK, OpeningsOK, PressAnswers, StayAnswers DEF ButtonPressed

LEMMA TouchAnswers ==
  ASSUME Ledger, MenuOK(menu), TouchDown
  PROVE  Answered
  <1>1. PICK c \in Touches :
          \/ KeyPressed("Esc")
          \/ menu.open /\ Press(TouchIntent[c])
          \/ SettingsStay /\ UNCHANGED menu
    BY DEF TouchDown
  <1> QED BY <1>1, KeyAnswers, PressAnswers, StayAnswers

\* A launch works on the text the last one left.
LEMMA LaunchAnswers ==
  ASSUME Ledger, Launch, NEW f, LaunchedWith(f), left' \in 0..MaxChanges
  PROVE  Answered
  <1>1. MenuOK(menu') /\ menu'.page = "main"
    BY ClosedOK, ClosedShape DEF Launch
  <1>2. Ledger'
    BY DEF LaunchedWith, Ledger, NothingForgotten
  <1> QED BY <1>1, <1>2 DEF Answered, BindPages

LEMMA TickAnswers ==
  ASSUME Ledger, MenuOK(menu), PauseTick
  PROVE  Answered
  <1>1. CASE menu' = [menu EXCEPT !.pending = "none", !.open = FALSE] /\ SettingsStay
    <2>1. menu \in MenuShape
      BY DEF MenuOK
    <2>2. /\ menu' \in MenuShape /\ menu'.page = menu.page /\ menu'.title = menu.title
          /\ menu'.cursor = menu.cursor /\ ~menu'.open
      BY <1>1, <2>1 DEF MenuShape
    <2>3. MenuOK(menu')
      BY <2>2 DEF MenuOK, Rows
    <2> QED BY <1>1, <2>3, StayAnswers
  <1>2. CASE LaunchedWith(file) /\ Launch /\ UNCHANGED left
    BY <1>2, LaunchAnswers DEF Ledger
  <1> QED BY <1>1, <1>2 DEF PauseTick

\* An override from the control channel is of a key no page depends on.
LEMMA OverrideAnswers ==
  ASSUME Ledger, MenuOK(menu), HttpReach
  PROVE  Answered
  <1>1. PICK v : Override("interact_extend", v)
    BY DEF HttpReach
  <1>2. ModernStays
    <2>1. "interact_extend" \notin ModernKeys
      BY DEF ModernKeys
    <2> QED BY <1>1, <2>1, OneKeyKeeps DEF Override
  <1>3. Ledger'
    BY <1>1, ChangesBounded DEF HttpReach, Ledger, NothingForgotten, Override
  <1> QED BY <1>2, <1>3 DEF Answered, HttpReach

LEMMA FullscreenAnswers ==
  ASSUME Ledger, MenuOK(menu), F11
  PROVE  Answered
  <1>1. Knobs["fullscreen"].key = "fullscreen"
    BY DEF Knobs, Toggle, Cycle
  <1>2. \E v : Turned("fullscreen", 1) = << <<"fullscreen", v>> >>
    BY <1>1 DEF Turned
  <1>3. "fullscreen" \notin ModernKeys
    BY DEF ModernKeys
  <1>4. ModernStays /\ Ledger'
    BY <1>2, <1>3, OneChangeKeeps, ChangeKeeps DEF F11
  <1> QED BY <1>4 DEF Answered, F11

LEMMA DiesAnswers ==
  ASSUME Ledger, Dies
  PROVE  Answered
  <1>1. left' \in 0..MaxChanges
    BY ChangesBounded DEF Dies, Ledger
  <1>2. \E f : LaunchedWith(f)
    BY DEF Dies, DiesWriting
  <1> QED BY <1>1, <1>2, LaunchAnswers DEF Dies

\* Every step leaves the menu in order, by the rows as they were before it.
LEMMA StepAnswers ==
  ASSUME Ledger, MenuOK(menu), [Next]_vars
  PROVE  Answered
  <1>1. CASE KeyDown
    BY <1>1, KeyAnswers DEF KeyDown
  <1>2. CASE ButtonDown
    BY <1>2, ButtonAnswers DEF ButtonDown
  <1>3. CASE TouchDown
    BY <1>3, TouchAnswers
  <1>4. CASE KeyUp \/ ButtonUp \/ PadGone \/ TouchUp
    BY <1>4, StayAnswers DEF KeyUp, ButtonUp, PadGone, TouchUp, WatchedUp
  <1>5. CASE HttpToggle
    BY <1>5, OpeningsOK, StayAnswers DEF HttpToggle
  <1>6. CASE HttpNav
    BY <1>6, PressAnswers DEF HttpNav
  <1>7. CASE LandLoad \/ GuestMoves
    BY <1>7, OpeningsOK, StayAnswers DEF LandLoad, GuestMoves
  <1>8. CASE UNCHANGED vars
    BY <1>8, StayAnswers DEF vars, SettingsStay, settings
  <1> QED BY <1>1, <1>2, <1>3, <1>4, <1>5, <1>6, <1>7, <1>8, OverrideAnswers,
             FullscreenAnswers, TickAnswers, DiesAnswers DEF Next

\* The rows after the step are those before it, on the page the step left the menu on.
LEMMA RowsNext ==
  ASSUME MenuOK(menu'), menu'.page \in DOMAIN BindPages => ModernStays
  PROVE  Rows(menu)' = Rows(menu')
  <1>1. menu'.page \in Page
    BY DEF MenuOK, MenuShape
  <1> QED BY <1>1 DEF Rows, RowsOf, BindingRows, BindPages, Page, ModernStays

LEMMA MenuKept ==
  ASSUME Answered
  PROVE  MenuOK(menu)'
  <1>1. Rows(menu)' = Rows(menu')
    BY RowsNext DEF Answered
  <1>2. Row(menu)' = Row(menu')
    BY <1>1 DEF Row
  <1> QED BY <1>1, <1>2 DEF Answered, MenuOK

-----------------------------------------------------------------------------
(* Inv *)

\* The rest of TypeOK.
Flags == /\ panel \in BOOLEAN /\ gameplay \in BOOLEAN /\ loading \in BOOLEAN
         /\ phys \in BOOLEAN /\ held \in BOOLEAN
         /\ watch \in Watchable \cup {NoCode}

LEMMA ElsewhereFlags ==
  ASSUME Flags, Elsewhere, panel' \in BOOLEAN, gameplay' \in BOOLEAN, loading' \in BOOLEAN
  PROVE  Flags'
  BY DEF Elsewhere, Flags

LEMMA KeyFlags ==
  ASSUME Flags, NEW c, KeyPressed(c)
  PROVE  panel' \in BOOLEAN /\ loading' \in BOOLEAN /\ held' \in BOOLEAN
  BY Zenon DEF Flags, KeyPressed, NotForGame, EscapeKey, Hold

LEMMA ButtonFlags ==
  ASSUME Flags, NEW c, ButtonPressed(c)
  PROVE  loading' \in BOOLEAN /\ held' \in BOOLEAN
  BY Zenon DEF Flags, ButtonPressed, NotForGame, Hold

LEMMA TouchFlags ==
  ASSUME Flags, TouchDown
  PROVE  Flags'
  <1>1. PICK c \in Touches :
          /\ Down(c) /\ UNCHANGED <<gameplay, watch>>
          /\ \/ KeyPressed("Esc")
             \/ NotForGame /\ UNCHANGED panel
             \/ Hold(c) /\ UNCHANGED <<panel, loading>>
    BY DEF TouchDown
  <1>2. gameplay' \in BOOLEAN /\ phys' \in BOOLEAN /\ watch' \in Watchable \cup {NoCode}
    BY <1>1, Zenon DEF Down, Flags
  <1>3. panel' \in BOOLEAN /\ loading' \in BOOLEAN /\ held' \in BOOLEAN
    <2>1. CASE KeyPressed("Esc")
      BY <2>1, KeyFlags
    <2>2. CASE NotForGame /\ UNCHANGED panel
      BY <2>2 DEF NotForGame, Flags
    <2>3. CASE Hold(c) /\ UNCHANGED <<panel, loading>>
      BY <2>3, Zenon DEF Hold, Flags
    <2> QED BY <1>1, <2>1, <2>2, <2>3
  <1> QED BY <1>2, <1>3 DEF Flags

LEMMA StepFlags ==
  ASSUME Flags, [Next]_vars
  PROVE  Flags'
  <1>1. CASE KeyDown
    <2>1. PICK c \in Keys : KeyPressed(c) /\ Down(c) /\ UNCHANGED <<gameplay, watch>>
      BY <1>1 DEF KeyDown
    <2>2. gameplay' \in BOOLEAN /\ phys' \in BOOLEAN /\ watch' \in Watchable \cup {NoCode}
      BY <2>1, Zenon DEF Down, Flags
    <2> QED BY <2>1, <2>2, KeyFlags DEF Flags
  <1>2. CASE ButtonDown
    <2>1. PICK c \in Buttons :
            ButtonPressed(c) /\ Down(c) /\ UNCHANGED <<panel, gameplay, watch>>
      BY <1>2 DEF ButtonDown
    <2>2. /\ panel' \in BOOLEAN /\ gameplay' \in BOOLEAN /\ phys' \in BOOLEAN
          /\ watch' \in Watchable \cup {NoCode}
      BY <2>1, Zenon DEF Down, Flags
    <2> QED BY <2>1, <2>2, ButtonFlags DEF Flags
  <1>3. CASE TouchDown
    BY <1>3, TouchFlags
  <1>4. CASE KeyUp \/ ButtonUp \/ PadGone \/ TouchUp
    BY <1>4 DEF KeyUp, ButtonUp, PadGone, TouchUp, WatchedUp, Released, Flags
  <1>5. CASE HttpToggle \/ HttpNav \/ HttpReach \/ F11
    BY <1>5, ElsewhereFlags DEF HttpToggle, HttpNav, HttpReach, F11, Flags
  <1>6. CASE PauseTick
    <2>1. CASE /\ gameplay' = (gameplay /\ menu.pending # "exit")
               /\ Elsewhere /\ UNCHANGED <<panel, loading>>
      <3>1. gameplay' \in BOOLEAN
        BY <2>1, Zenon DEF Flags
      <3> QED BY <2>1, <3>1, ElsewhereFlags DEF Flags
    <2>2. CASE Launch
      BY <2>2 DEF Launch, Flags
    <2> QED BY <1>6, <2>1, <2>2 DEF PauseTick
  <1>7. CASE Dies
    BY <1>7 DEF Dies, Launch, Flags
  <1>8. CASE LandLoad \/ GuestMoves
    BY <1>8, ElsewhereFlags DEF LandLoad, GuestMoves, Flags
  <1>9. CASE UNCHANGED vars
    BY <1>9 DEF vars, Flags
  <1> QED BY <1>1, <1>2, <1>3, <1>4, <1>5, <1>6, <1>7, <1>8, <1>9 DEF Next

\* Inv is the menu in order, the ledger and the flags.
LEMMA InvIs ==
  Inv <=> MenuOK(menu) /\ Ledger /\ Flags
  BY DEF Inv, TypeOK, CursorOnRow, CaptureOnItsRow, TitleHasNoMain, Capturing, MenuOK,
         MenuShape, Ledger, Flags

LEMMA InitInv == Init => Inv
  <1> SUFFICES ASSUME Init PROVE Inv
    OBVIOUS
  <1>1. MenuOK(menu)
    BY ClosedOK DEF Init
  <1>2. Ledger
    BY ChangesBounded DEF Init, Ledger, NothingForgotten
  <1>3. Flags
    BY DEF Init, Flags
  <1> QED BY <1>1, <1>2, <1>3, InvIs

LEMMA NextInv == Inv /\ [Next]_vars => Inv'
  <1> SUFFICES ASSUME Inv, [Next]_vars PROVE Inv'
    OBVIOUS
  <1>1. MenuOK(menu) /\ Ledger /\ Flags
    BY InvIs
  <1>2. Answered
    BY <1>1, StepAnswers
  <1>3. MenuOK(menu)' /\ Ledger'
    BY <1>2, MenuKept DEF Answered
  <1>4. Flags'
    BY <1>1, StepFlags
  <1> QED BY <1>3, <1>4, InvIs, PTL

\* The cursor is on a row, a binding is asked for on its own row, the title has no main page,
\* and no rewrite forgets a setting (Inv): whatever keys, buttons, touches and requests come,
\* in whatever order, and whichever rewrites fail.
THEOREM MenuHolds == Spec => []Inv
  BY InitInv, NextInv, PTL DEF Spec

-----------------------------------------------------------------------------

-----------------------------------------------------------------------------
(* Pages lead into each other *)

\* A row that opens a page is a row of that page's parent.
LEMMA SubmenuOf ==
  ASSUME NEW page \in Page, NEW title \in BOOLEAN, NEW i \in DOMAIN RowsOf(page, title),
         RowsOf(page, title)[i] \in DOMAIN Parent
  PROVE  Parent[RowsOf(page, title)[i]] = page
  BY DEF RowsOf, BindingRows, Parent, Page

\* The ways an open menu gets from one page to another.
Led(m, n) ==
  \/ ~m.open \/ ~n.open \/ n.page = m.page
  \/ Row(m) \in DOMAIN Parent /\ n = Entered(m, Row(m))
  \/ /\ m.capture = NoCapture /\ m.page # "main" /\ ~(m.page = "options" /\ m.title)
     /\ n = EnteredAt(m, Parent[m.page], m.page)

LEMMA EscapedLed ==
  ASSUME NEW m \in MenuShape
  PROVE  Led(m, Escaped(m))
  <1>1. ASSUME NEW p
        PROVE [m EXCEPT !.pending = p].page = m.page
    BY DEF MenuShape
  <1>2. [m EXCEPT !.capture = NoCapture].page = m.page
    BY DEF MenuShape
  <1> QED BY <1>1, <1>2 DEF Led, Escaped, Out

LEMMA OpeningsLed ==
  ASSUME NEW m \in MenuShape
  PROVE  Led(m, Toggled(m)) /\ Led(m, OptionsOpened(m))
  <1>1. [m EXCEPT !.pending = "resume"].page = m.page
    BY DEF MenuShape
  <1> QED BY <1>1 DEF Led, Toggled, OptionsOpened

LEMMA PressLed ==
  ASSUME menu \in MenuShape, NEW intent, Press(intent)
  PROVE  Led(menu, menu')
  <1>1. CASE intent = "cancel"
    BY <1>1, EscapedLed DEF Press
  <1>2. CASE intent # "cancel" /\ menu'.page # menu.page
    <2>1. ~(UNCHANGED menu)
      BY <1>2
    <2>2. ~Move(1) /\ ~Move(-1)
      <3>1. ASSUME NEW by, Move(by)
            PROVE  menu'.page = menu.page
        <4> DEFINE c == Wrapped(menu.cursor + by, Len(Rows(menu)))
        <4>1. menu' = [menu EXCEPT !.cursor = c]
          BY <3>1 DEF Move
        <4> HIDE DEF c
        <4> QED BY <4>1 DEF MenuShape
      <3> QED BY <1>2, <3>1
    <2>3. ~Capturing /\ Select
      BY <1>2, <2>1, <2>2 DEF Press, TurnRow
    <2>4. ASSUME NEW p
          PROVE  /\ [menu EXCEPT !.pending = p].page = menu.page
                 /\ [menu EXCEPT !.capture = p].page = menu.page
      BY DEF MenuShape
    <2>5. \/ Row(menu) \in DOMAIN Parent /\ menu' = Entered(menu, Row(menu))
          \/ menu' = Out(menu)
      BY <1>2, <2>1, <2>3, <2>4 DEF Select, TurnRow
    <2> QED BY <1>2, <2>3, <2>4, <2>5 DEF Out, Led, Capturing
  <1>3. CASE menu'.page = menu.page
    BY <1>3 DEF Led
  <1> QED BY <1>1, <1>2, <1>3

LEMMA CaptureLed ==
  ASSUME menu \in MenuShape, NEW dev, NEW code, CaptureCode(dev, code)
  PROVE  Led(menu, menu')
  <1>1. [menu EXCEPT !.capture = NoCapture].page = menu.page
    BY DEF MenuShape
  <1> QED BY <1>1 DEF CaptureCode, Led

LEMMA KeyLed ==
  ASSUME menu \in MenuShape, NEW c, KeyPressed(c)
  PROVE  Led(menu, menu')
  <1>1. CASE UNCHANGED menu
    BY <1>1 DEF Led
  <1> QED BY <1>1, CaptureLed, PressLed, EscapedLed, OpeningsLed DEF KeyPressed, EscapeKey

\* No step changes the page of an open menu in another way.
LEMMA StepLed ==
  ASSUME menu \in MenuShape, [Next]_vars
  PROVE  Led(menu, menu')
  <1>1. CASE UNCHANGED menu
    BY <1>1 DEF Led
  <1>2. CASE KeyDown
    BY <1>2, KeyLed DEF KeyDown
  <1>3. CASE ButtonDown
    BY <1>1, <1>3, CaptureLed, PressLed, EscapedLed, OpeningsLed DEF ButtonDown, ButtonPressed
  <1>4. CASE TouchDown
    BY <1>1, <1>4, KeyLed, PressLed DEF TouchDown
  <1>5. CASE HttpToggle \/ HttpNav \/ GuestMoves
    BY <1>1, <1>5, PressLed, OpeningsLed DEF HttpToggle, HttpNav, GuestMoves
  <1>6. CASE PauseTick \/ Dies
    <2>1. ~[menu EXCEPT !.pending = "none", !.open = FALSE].open
      BY DEF MenuShape
    <2> QED BY <1>6, <2>1, ClosedShape DEF PauseTick, Dies, Launch, Led
  <1> QED BY <1>1, <1>2, <1>3, <1>4, <1>5, <1>6
          DEF Next, vars, KeyUp, ButtonUp, PadGone, TouchUp, WatchedUp, HttpReach, F11, LandLoad

\* BackReturns holds of every step from Inv.
LEMMA StepReturns ==
  ASSUME Inv, [Next]_vars
  PROVE  BackReturns
  <1>1. MenuOK(menu) /\ Ledger /\ menu \in MenuShape
    BY InvIs DEF MenuOK
  <1>2. Led(menu, menu') /\ Answered
    BY <1>1, StepLed, StepAnswers
  <1>3. Row(menu)' = Row(menu')
    BY <1>2, RowsNext DEF Answered, Row
  <1>4. menu.page \in Page /\ menu.title \in BOOLEAN
    BY <1>1 DEF MenuShape
  <1>5. CASE Row(menu) \in DOMAIN Parent /\ menu' = Entered(menu, Row(menu))
    <2>1. menu'.page = Row(menu)
      BY <1>1, <1>5 DEF Entered, MenuShape
    <2>2. Parent[Row(menu)] = menu.page
      BY <1>1, <1>4, <1>5, SubmenuOf DEF MenuOK, Row, Rows
    <2> QED BY <1>5, <2>1, <2>2 DEF BackReturns
  <1>6. CASE /\ menu.capture = NoCapture /\ menu.page # "main"
             /\ ~(menu.page = "options" /\ menu.title)
             /\ menu' = EnteredAt(menu, Parent[menu.page], menu.page)
    <2>1. Row(menu') = menu.page
      BY <1>1, <1>6, EnteredAtOK
    <2>2. menu'.page = Parent[menu.page]
      BY <1>1, <1>6 DEF EnteredAt, MenuShape
    <2>3. menu.page \in DOMAIN Parent
      BY <1>4, <1>6, RowKinds DEF Page
    <2> QED BY <1>3, <2>1, <2>2, <2>3 DEF BackReturns
  <1> QED BY <1>2, <1>5, <1>6 DEF Led, BackReturns

-----------------------------------------------------------------------------

-----------------------------------------------------------------------------
(* Rows show what they are turned to *)

\* The values of a row differ, and what it shows unset is what a change starts from,
\* but for UPDATE CHECK.
LEMMA KnobFacts ==
  ASSUME NEW r \in DOMAIN Knobs
  PROVE  \E n \in 2..3 :
           LET k == Knobs[r]
           IN /\ DOMAIN k.values = 1..n /\ Len(k.values) = n
              /\ \A i, j \in 1..n : k.values[i] = k.values[j] => i = j
              /\ k.shown \in 1..n /\ k.taken \in 1..n
              /\ r # "update" => k.shown = k.taken
              /\ r = "update" => k.key = "update_check" /\ k.values = <<"false", "true">>
  BY DEF Knobs, Toggle, Cycle

\* No two rows have a key in common.
LEMMA KeysDiffer ==
  ASSUME NEW r \in DOMAIN Knobs
  PROVE  /\ Knobs[r].key \notin {"renderer", "present", "modern_controls"}
         /\ \A s \in DOMAIN Knobs : Knobs[s].key = Knobs[r].key => s = r
  BY DEF Knobs, Toggle, Cycle

LEMMA AtIn ==
  ASSUME NEW r \in DOMAIN Knobs, NEW d \in DOMAIN Knobs[r].values
  PROVE  At(r, d) \in DOMAIN Knobs[r].values
  <1>1. 2 \in DOMAIN Knobs[r].values
    BY KnobFacts
  <1> QED BY <1>1 DEF At

\* The default matters only while the value set is none of the row's.
LEMMA AtDefault ==
  ASSUME NEW r \in DOMAIN Knobs, NEW d, NEW e,
         d = e \/ \E i \in DOMAIN Knobs[r].values : Knobs[r].values[i] = Show(Knobs[r].key)
  PROVE  At(r, d) = At(r, e)
  BY DEF At

LEMMA AtNext ==
  ASSUME NEW r \in DOMAIN Knobs, NEW d, NEW i \in DOMAIN Knobs[r].values,
         Show(Knobs[r].key)' = Knobs[r].values[i]
  PROVE  At(r, d)' = i
  <1>1. \A j \in DOMAIN Knobs[r].values : Knobs[r].values[i] = Knobs[r].values[j] => i = j
    BY KnobFacts
  <1> QED BY <1>1 DEF At

LEMMA AtKept ==
  ASSUME NEW r \in DOMAIN Knobs, NEW d, Show(Knobs[r].key)' = Show(Knobs[r].key),
         Show("modern_controls")' = Show("modern_controls")
  PROVE  At(r, d)' = At(r, d)
  BY DEF At

LEMMA RendererKept ==
  ASSUME Show("renderer")' = Show("renderer"), Show("present")' = Show("present")
  PROVE  RendererAt' = RendererAt
  BY DEF RendererAt

\* A value written is the one shown, unless the environment has the key.
LEMMA ShowOne ==
  ASSUME NEW key, NEW v, Persist(<< <<key, v>> >>)
  PROVE  /\ \A k : k # key => Show(k)' = Show(k)
         /\ key \notin DOMAIN Env => Show(key)' = v
  <1>1. session' = Edited(session, key, v) /\ text' = Edited(text, key, v)
    BY WrittenOne DEF Persist
  <1>2. \A k : k # key => Show(k)' = Show(k)
    BY <1>1, ShowKept
  <1>3. key \in DOMAIN session' /\ session'[key] = v
    BY <1>1 DEF Edited
  <1>4. key \notin DOMAIN Env => Show(key)' = v
    BY <1>3 DEF Show
  <1> QED BY <1>2, <1>4

LEMMA TwiceEdited ==
  ASSUME NEW t, NEW a, NEW v, NEW b, NEW w, NEW k, k # a, k # b
  PROVE  LET u == Edited(Edited(t, a, v), b, w)
         IN (k \in DOMAIN u <=> k \in DOMAIN t) /\ (k \in DOMAIN t => u[k] = t[k])
  <1> DEFINE s == Edited(t, a, v)
  <1>1. (k \in DOMAIN s <=> k \in DOMAIN t) /\ (k \in DOMAIN t => s[k] = t[k])
    BY DEF Edited
  <1> HIDE DEF s
  <1>2. LET u == Edited(s, b, w)
        IN (k \in DOMAIN u <=> k \in DOMAIN s) /\ (k \in DOMAIN s => u[k] = s[k])
    BY DEF Edited
  <1> QED BY <1>1, <1>2 DEF s

\* The same of two values, one written after the other.
LEMMA ShowTwo ==
  ASSUME NEW a, NEW v, NEW b, NEW w, a # b, Persist(<< <<a, v>>, <<b, w>> >>)
  PROVE  /\ \A k : k # a /\ k # b => Show(k)' = Show(k)
         /\ a \notin DOMAIN Env => Show(a)' = v
         /\ b \notin DOMAIN Env => Show(b)' = w
  <1>1. \A t : Written(t, << <<a, v>>, <<b, w>> >>) = Edited(Edited(t, a, v), b, w)
    BY DEF Written
  <1>2. /\ session' = Edited(Edited(session, a, v), b, w)
        /\ text' = Edited(Edited(text, a, v), b, w)
    BY <1>1 DEF Persist
  <1>3. ASSUME NEW k, k # a, k # b
        PROVE  /\ k \in DOMAIN session' <=> k \in DOMAIN session
               /\ (k \in DOMAIN session) => (session'[k] = session[k])
               /\ k \in DOMAIN text' <=> k \in DOMAIN text
               /\ (k \in DOMAIN text) => (text'[k] = text[k])
    <2> DEFINE New(t) == Edited(Edited(t, a, v), b, w)
    <2>1. /\ k \in DOMAIN New(session) <=> k \in DOMAIN session
          /\ (k \in DOMAIN session) => (New(session)[k] = session[k])
      BY <1>3, TwiceEdited
    <2>2. /\ k \in DOMAIN New(text) <=> k \in DOMAIN text
          /\ (k \in DOMAIN text) => (New(text)[k] = text[k])
      BY <1>3, TwiceEdited
    <2>3. session' = New(session) /\ text' = New(text)
      BY <1>2
    <2> HIDE DEF New
    <2> QED BY <2>1, <2>2, <2>3
  <1>4. {a, b} \subseteq DOMAIN session' /\ session'[a] = v /\ session'[b] = w
    BY <1>2 DEF Edited
  <1>5. \A k : k # a /\ k # b => Show(k)' = Show(k)
    BY <1>3 DEF Show
  <1>6. a \notin DOMAIN Env => Show(a)' = v
    BY <1>4 DEF Show
  <1>7. b \notin DOMAIN Env => Show(b)' = w
    BY <1>4 DEF Show
  <1> QED BY <1>5, <1>6, <1>7

\* A turn by one never stays where it was.
LEMMA WrapMoves ==
  ASSUME NEW n \in 2..3, NEW i \in 1..n, NEW by \in {-1, 1}
  PROVE  Wrapped(i + by, n) \in 1..n /\ Wrapped(i + by, n) # i
  BY SMT DEF Wrapped

\* UPDATE CHECK, when it is set, is on or off.
Spelt(t) == "update_check" \in DOMAIN t => t["update_check"] \in {"false", "true"}

\* The strengthening RowAnswers needs: a value that is neither would show as ON and be
\* turned as if it were OFF.
Truths == Spelt(text) /\ Spelt(session) /\ Spelt(file)

LEMMA TurnRenderer ==
  ASSUME NEW dir \in {-1, 1}, Persist(Turned("renderer", dir))
  PROVE  /\ RendererAt' # RendererAt \/ {"renderer", "present"} \cap DOMAIN Env # {}
         /\ \A r \in DOMAIN Knobs : ValueShown(r)' = ValueShown(r)
  <1> DEFINE i == Wrapped(RendererAt + dir, 3)
             v == IF i = 1 THEN "vanilla" ELSE "benren"
             w == IF i = 3 THEN "vulkan" ELSE "sdl"
  <1>1. RendererAt \in 1..3
    BY DEF RendererAt
  <1>2. i \in 1..3 /\ i # RendererAt
    BY <1>1, WrapMoves
  <1>3. Turned("renderer", dir) = << <<"renderer", v>>, <<"present", w>> >>
    BY DEF Turned
  <1> HIDE DEF i
  <1>4. Persist(<< <<"renderer", v>>, <<"present", w>> >>)
    BY <1>3
  <1>5. ASSUME {"renderer", "present"} \cap DOMAIN Env = {}
        PROVE  RendererAt' = i
    <2>1. Show("renderer")' = v /\ Show("present")' = w
      BY <1>4, <1>5, ShowTwo
    <2> QED BY <1>2, <2>1 DEF RendererAt
  <1>6. ASSUME NEW r \in DOMAIN Knobs
        PROVE  ValueShown(r)' = ValueShown(r)
    <2>1. /\ Show(Knobs[r].key)' = Show(Knobs[r].key)
          /\ Show("modern_controls")' = Show("modern_controls")
      BY <1>4, KeysDiffer, ShowTwo
    <2>2. r # "renderer"
      BY DEF Knobs
    <2> QED BY <2>1, <2>2, AtKept DEF ValueShown
  <1> QED BY <1>2, <1>5, <1>6

LEMMA TurnKnob ==
  ASSUME Truths, NEW row \in DOMAIN Knobs, NEW dir \in {-1, 1}, Turned(row, dir) # << >>,
         Persist(Turned(row, dir))
  PROVE  /\ \/ ValueShown(row)' # ValueShown(row) \/ Masked(row)
            \/ row = "update" /\ Show("update_check") = Unset
         /\ \A r \in Valued \ {row} : ValueShown(r)' = ValueShown(r)
  <1> DEFINE k == Knobs[row]
             by == IF row = "fall" THEN 1 ELSE dir
             old == At(row, k.taken)
             i == Wrapped(old + by, Len(k.values))
             v == k.values[i]
  <1>1. PICK n \in 2..3 : /\ DOMAIN k.values = 1..n /\ Len(k.values) = n
                          /\ k.shown \in 1..n /\ k.taken \in 1..n
                          /\ row # "update" => k.shown = k.taken
                          /\ row = "update" => /\ k.key = "update_check"
                                               /\ k.values = <<"false", "true">>
    BY KnobFacts
  <1>2. row # "renderer"
    BY DEF Knobs
  <1>3. Persist(<< <<k.key, v>> >>)
    BY <1>2 DEF Turned
  <1>4. old \in 1..n
    BY <1>1, AtIn
  <1>5. i \in 1..n /\ i # old
    BY <1>1, <1>4, WrapMoves
  <1>6. ValueShown(row) = At(row, k.shown) /\ ValueShown(row)' = At(row, k.shown)'
    BY <1>2 DEF ValueShown
  <1> HIDE DEF old, i, by
  <1>7. ASSUME k.key \notin DOMAIN Env
        PROVE  ValueShown(row)' = i
    <2>1. Show(k.key)' = v
      BY <1>3, <1>7, ShowOne
    <2> QED BY <1>1, <1>5, <1>6, <2>1, AtNext
  <1>8. ASSUME ~(row = "update" /\ Show("update_check") = Unset), k.key \notin DOMAIN Env
        PROVE  ValueShown(row) = old
    <2>1. CASE row # "update"
      BY <1>1, <1>6, <2>1 DEF old
    <2>2. CASE row = "update"
      <3>1. Show("update_check") \in {"false", "true"}
        BY <1>1, <1>8, <2>2 DEF Truths, Spelt, Show
      <3>2. /\ k.values[1] = "false" /\ k.values[2] = "true"
            /\ 1 \in DOMAIN k.values /\ 2 \in DOMAIN k.values
        BY <1>1, <2>2
      <3>3. \E j \in DOMAIN k.values : k.values[j] = Show(k.key)
        BY <1>1, <2>2, <3>1, <3>2
      <3> QED BY <1>6, <3>3, AtDefault DEF old
    <2> QED BY <2>1, <2>2
  <1>9. ASSUME NEW r \in Valued \ {row}
        PROVE  ValueShown(r)' = ValueShown(r)
    <2>1. \A j : j # k.key => Show(j)' = Show(j)
      BY <1>3, ShowOne
    <2>2. k.key \notin {"renderer", "present", "modern_controls"}
      BY KeysDiffer
    <2>3. CASE r = "renderer"
      <3>1. RendererAt' = RendererAt
        BY <2>1, <2>2, RendererKept
      <3> QED BY <2>3, <3>1 DEF ValueShown
    <2>4. CASE r # "renderer"
      <3>1. r \in DOMAIN Knobs /\ Knobs[r].key # k.key
        BY <2>4, KeysDiffer DEF Valued
      <3>2. At(r, Knobs[r].shown)' = At(r, Knobs[r].shown)
        BY <2>1, <2>2, <3>1, AtKept
      <3> QED BY <2>4, <3>2 DEF ValueShown
    <2> QED BY <2>3, <2>4
  <1> QED BY <1>2, <1>5, <1>7, <1>8, <1>9 DEF Masked

\* The row under the cursor was turned.
RowTurned == /\ Row(menu) \in Valued /\ last' = Row(menu)
             /\ \E dir \in {-1, 1} : /\ Turned(Row(menu), dir) # << >>
                                     /\ Persist(Turned(Row(menu), dir))

\* The code asked for was bound.
CodeBound == /\ Capturing /\ last' = "binding"
             /\ \E code : Persist(<< <<BindKey[menu.capture.dev][menu.capture.action], code>> >>)

Relaunched == Launch /\ (LaunchedWith(file) \/ Dies)

LEMMA PressWrites ==
  ASSUME NEW intent, Press(intent)
  PROVE  SettingsStay \/ RowTurned
  <1> SUFFICES ASSUME ~SettingsStay PROVE RowTurned
    OBVIOUS
  <1>1. \E dir \in {-1, 1} : Row(menu) \in Valued /\ TurnRow(dir)
    BY DEF Press, Move, Select
  <1> QED BY <1>1 DEF RowTurned, TurnRow, Change

LEMMA CaptureWrites ==
  ASSUME Capturing, NEW dev, NEW code, CaptureCode(dev, code)
  PROVE  SettingsStay \/ CodeBound
  BY DEF CaptureCode, Change, CodeBound

LEMMA KeyWrites ==
  ASSUME NEW c, KeyPressed(c)
  PROVE  SettingsStay \/ RowTurned \/ CodeBound
  BY PressWrites, CaptureWrites DEF KeyPressed, EscapeKey

\* A setting is written by the row under the cursor, a binding asked for, the control
\* channel, the fullscreen key or a launch, and by nothing else.
LEMMA StepWrites ==
  ASSUME [Next]_vars
  PROVE  SettingsStay \/ RowTurned \/ CodeBound \/ HttpReach \/ F11 \/ Relaunched
  <1>1. UNCHANGED vars => SettingsStay
    BY DEF SettingsStay, settings, vars
  <1>2. CASE KeyDown
    BY <1>2, KeyWrites DEF KeyDown
  <1>3. CASE ButtonDown
    BY <1>3, PressWrites, CaptureWrites DEF ButtonDown, ButtonPressed
  <1>4. CASE TouchDown
    BY <1>4, KeyWrites, PressWrites DEF TouchDown
  <1>5. CASE HttpNav
    BY <1>5, PressWrites DEF HttpNav
  <1>6. CASE PauseTick
    BY <1>6 DEF PauseTick, Relaunched
  <1>7. CASE Dies
    <2>1. Launch
      BY <1>7 DEF Dies
    <2> QED BY <1>7, <2>1 DEF Relaunched
  <1> QED BY <1>1, <1>2, <1>3, <1>4, <1>5, <1>6, <1>7
          DEF Next, KeyUp, ButtonUp, PadGone, TouchUp, WatchedUp, HttpToggle, LandLoad, GuestMoves

LEMMA WhoChanges ==
  ASSUME [Next]_vars, left' # left, menu'.open
  PROVE  RowTurned \/ last' \in {"binding", "http", "f11"}
  <1>1. ~SettingsStay
    BY DEF SettingsStay
  <1>2. ~Relaunched
    BY ClosedShape DEF Relaunched, Launch
  <1> QED BY <1>1, <1>2, StepWrites DEF CodeBound, HttpReach, F11, Change

\* RowAnswers holds of every step.
LEMMA StepShows ==
  ASSUME Truths, [Next]_vars
  PROVE  RowAnswers
  <1> SUFFICES ASSUME left' # left, menu'.open, last' \in Valued
               PROVE  \A r \in Valued :
                        IF r = last'
                          THEN \/ ValueShown(r)' # ValueShown(r) \/ Masked(r)
                               \/ r = "update" /\ Show("update_check") = Unset
                        ELSE ValueShown(r)' = ValueShown(r)
    BY DEF RowAnswers
  <1>1. last' \notin {"binding", "http", "f11"}
    BY DEF Valued, Knobs
  <1>2. RowTurned
    BY <1>1, WhoChanges
  <1>3. PICK row \in Valued : row = Row(menu)
    BY <1>2 DEF RowTurned
  <1>4. PICK dir \in {-1, 1} : Turned(row, dir) # << >> /\ Persist(Turned(row, dir))
    BY <1>2, <1>3 DEF RowTurned
  <1>5. last' = row
    BY <1>2, <1>3 DEF RowTurned
  <1>6. CASE row = "renderer"
    <2>1. "renderer" \notin DOMAIN Knobs
      BY DEF Knobs
    <2>2. ValueShown(row) = RendererAt /\ ValueShown(row)' = RendererAt'
      BY <1>6 DEF ValueShown
    <2>3. /\ RendererAt' # RendererAt \/ {"renderer", "present"} \cap DOMAIN Env # {}
          /\ \A r \in DOMAIN Knobs : ValueShown(r)' = ValueShown(r)
      BY <1>4, <1>6, TurnRenderer
    <2> QED BY <1>6, <1>5, <2>1, <2>2, <2>3 DEF Valued, Masked
  <1>7. CASE row # "renderer"
    <2>1. row \in DOMAIN Knobs
      BY <1>7 DEF Valued
    <2>2. /\ \/ ValueShown(row)' # ValueShown(row) \/ Masked(row)
             \/ row = "update" /\ Show("update_check") = Unset
          /\ \A r \in Valued \ {row} : ValueShown(r)' = ValueShown(r)
      BY <1>4, <2>1, TurnKnob
    <2> QED BY <1>5, <2>2
  <1> QED BY <1>6, <1>7

SpeltPair(p) == p[1] = "update_check" => p[2] \in {"false", "true"}
\* The pairs a change writes.
SpeltPairs(changes) == SpeltPair(changes[1]) /\ (Len(changes) # 1 => SpeltPair(changes[2]))

LEMMA EditedSpelt ==
  ASSUME NEW t, Spelt(t), NEW p, SpeltPair(p)
  PROVE  Spelt(Edited(t, p[1], p[2]))
  BY DEF Edited, Spelt, SpeltPair

LEMMA WrittenSpelt ==
  ASSUME NEW t, Spelt(t), NEW changes, SpeltPairs(changes)
  PROVE  /\ Spelt(Written(t, changes))
         /\ Spelt(Written(t, <<changes[1]>>))
  <1> DEFINE u == Edited(t, changes[1][1], changes[1][2])
  <1>1. Spelt(u)
    BY EditedSpelt DEF SpeltPairs
  <1> HIDE DEF u
  <1>2. Len(changes) # 1 => Spelt(Edited(u, changes[2][1], changes[2][2]))
    BY <1>1, EditedSpelt DEF SpeltPairs
  <1>3. Written(t, changes) = IF Len(changes) = 1 THEN u
                              ELSE Edited(u, changes[2][1], changes[2][2])
    BY DEF Written, u
  <1>4. Written(t, <<changes[1]>>) = u
    BY DEF Written, u
  <1> QED BY <1>1, <1>2, <1>3, <1>4

\* What a rewrite may leave on disk is spelt like what was there or what is written.
LEMMA DiskSpelt ==
  ASSUME Truths, NEW changes, SpeltPairs(changes), NEW f \in OnDisk(changes)
  PROVE  Spelt(f)
  <1>1. Spelt(Written(text, changes)) /\ Spelt(Written(text, <<changes[1]>>))
    BY WrittenSpelt DEF Truths
  <1>2. Spelt(Nothing)
    BY DEF Spelt, Nothing
  <1> QED BY <1>1, <1>2 DEF OnDisk, Truths

LEMMA PersistSpelt ==
  ASSUME Truths, NEW changes, SpeltPairs(changes), Persist(changes)
  PROVE  Truths'
  <1>1. Spelt(text') /\ Spelt(session')
    BY WrittenSpelt DEF Truths, Persist
  <1>2. Spelt(file')
    BY DiskSpelt DEF Persist
  <1> QED BY <1>1, <1>2 DEF Truths, Spelt

LEMMA OneSpelt ==
  ASSUME NEW key, NEW v, key # "update_check" \/ v \in {"false", "true"}
  PROVE  SpeltPairs(<< <<key, v>> >>)
  BY DEF SpeltPairs, SpeltPair

\* A turned row writes one of its values.
LEMMA TurnedSpelt ==
  ASSUME NEW row \in Valued, NEW dir \in {-1, 1}, Turned(row, dir) # << >>
  PROVE  SpeltPairs(Turned(row, dir))
  <1>1. CASE row = "renderer"
    BY <1>1 DEF Turned, SpeltPairs, SpeltPair
  <1>2. CASE row # "renderer"
    <2> DEFINE k == Knobs[row]
               by == IF row = "fall" THEN 1 ELSE dir
               i == Wrapped(At(row, k.taken) + by, Len(k.values))
    <2>1. row \in DOMAIN Knobs
      BY <1>2 DEF Valued
    <2>2. PICK n \in 2..3 : DOMAIN k.values = 1..n /\ Len(k.values) = n /\ k.taken \in 1..n
      BY <2>1, KnobFacts
    <2>3. Turned(row, dir) = << <<k.key, k.values[i]>> >>
      BY <1>2 DEF Turned
    <2>4. At(row, k.taken) \in 1..n
      BY <2>1, <2>2, AtIn
    <2>5. i \in 1..n
      BY <2>2, <2>4, WrapMoves
    <2> HIDE DEF i
    <2>6. k.key = "update_check" => k.values = <<"false", "true">>
      BY <2>1 DEF Knobs, Toggle, Cycle
    <2>7. k.key = "update_check" => k.values[i] \in {"false", "true"}
      BY <2>2, <2>5, <2>6
    <2> QED BY <2>3, <2>7, OneSpelt
  <1> QED BY <1>1, <1>2

LEMMA InitTruths == Init => Truths
  <1> SUFFICES ASSUME Init PROVE Truths
    OBVIOUS
  <1>1. Knobs["update"].values = <<"false", "true">> /\ Knobs["update"].key = "update_check"
        /\ "update" \in DOMAIN Knobs
    BY DEF Knobs, Cycle
  <1>2. Spelt(text)
    BY <1>1, TruthsSpelt DEF Init, Spelt
  <1> QED BY <1>2 DEF Init, Truths, Spelt, Nothing

LEMMA NextTruths == Truths /\ Inv /\ [Next]_vars => Truths'
  <1> SUFFICES ASSUME Truths, Inv, [Next]_vars PROVE Truths'
    OBVIOUS
  <1>1. CASE SettingsStay
    BY <1>1 DEF SettingsStay, settings, Truths, Spelt
  <1>2. CASE RowTurned
    BY <1>2, TurnedSpelt, PersistSpelt DEF RowTurned
  <1>3. CASE CodeBound
    <2>1. menu.capture \in [dev : Device, action : Action]
      BY <1>3, InvIs DEF CodeBound, Capturing, MenuOK, MenuShape
    <2>2. BindKey[menu.capture.dev][menu.capture.action] # "update_check"
      BY <2>1 DEF Device, Action, BindKey
    <2> QED BY <1>3, <2>2, OneSpelt, PersistSpelt DEF CodeBound
  <1>4. CASE HttpReach
    BY <1>4, EditedSpelt DEF HttpReach, Override, Truths, Spelt, Edited
  <1>5. CASE F11
    <2>1. "fullscreen" \in Valued /\ Turned("fullscreen", 1) # << >>
      BY DEF Valued, Knobs, Turned
    <2> QED BY <1>5, <2>1, TurnedSpelt, PersistSpelt DEF F11, Change
  <1>6. CASE Relaunched
    <2>1. \E f : Spelt(f) /\ LaunchedWith(f)
      <3>1. CASE LaunchedWith(file)
        BY <3>1 DEF Truths
      <3>2. CASE Dies
        <4>1. Row(menu) \in Valued
          BY <3>2, ValuesTurn DEF Dies
        <4> QED BY <3>2, <4>1, TurnedSpelt, DiskSpelt DEF Dies, DiesWriting
      <3> QED BY <1>6, <3>1, <3>2 DEF Relaunched
    <2> QED BY <2>1 DEF LaunchedWith, Truths, Spelt, Nothing
  <1> QED BY <1>1, <1>2, <1>3, <1>4, <1>5, <1>6, StepWrites

\* The inductive invariant of the menu and its settings.
THEOREM MenuInvariant == Spec => [](Inv /\ Truths)
  <1>1. Inv /\ Truths /\ [Next]_vars => (Inv /\ Truths)'
    BY NextInv, NextTruths
  <1> QED BY <1>1, InitInv, InitTruths, PTL DEF Spec

\* Every step leads between a page and its submenus and back to the row it came by, and a turned
\* row shows its new value at once and no other row does (MenuAnswers): for every environment,
\* file, binding and row that turns, whether or not the rewrites succeed.
THEOREM MenuAnswersHolds == Spec => MenuAnswers
  <1>1. Inv /\ Truths /\ [Next]_vars => [BackReturns /\ RowAnswers]_vars
    BY StepReturns, StepShows
  <1> QED BY <1>1, MenuInvariant, PTL DEF Spec, MenuAnswers
=============================================================================
