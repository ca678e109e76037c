------------------------------ MODULE Settings ------------------------------
(***************************************************************************)
(* The settings of src/src/port/config.c: where a key's value comes from   *)
(* (environment, session, file text, in this order) and what a change      *)
(* made by the player writes.                                              *)
(*                                                                         *)
(* A text is the function its pairs spell: the writer edits one pair in    *)
(* place or appends one, so nothing else of it changes.  The whole text is *)
(* a few kilobytes, one block of stdio and one write: a file that was      *)
(* truncated and not written is empty, never partial, and an empty file is *)
(* loaded like a missing one and one without pairs (Nothing).              *)
(***************************************************************************)
EXTENDS Naturals, Sequences

CONSTANTS Env,       \* BENEFACTOR_<KEY> variables: a function of the keys set
          Files,     \* what the file may hold at the first launch
          MayFail    \* may a write fail, or the process die in it

Unset == "unset"
Nothing == [k \in {} |-> Unset]

VARIABLES
  text,     \* s_cfg, the live text
  session,  \* s_over: the session layer
  file      \* the file on disk

settings == <<text, session, file>>

\* The value a key resolves to, Unset when only the caller's default is left.
Show(k) ==
  CASE k \in DOMAIN Env         -> Env[k]
    [] k \notin DOMAIN Env /\ k \in DOMAIN session -> session[k]
    [] k \notin DOMAIN Env \cup DOMAIN session
       /\ k \in DOMAIN text -> text[k]
    [] OTHER                    -> Unset

LaunchedWith(f) == text' = f /\ session' = Nothing /\ file' = f

\* A pair edited in place, or appended.
Edited(t, k, v) == [j \in DOMAIN t \cup {k} |-> IF j = k THEN v ELSE t[j]]

\* One pair, or two for the renderer, written one after the other.
Written(t, changes) ==
  LET first == Edited(t, changes[1][1], changes[1][2])
  IN IF Len(changes) = 1 THEN first ELSE Edited(first, changes[2][1], changes[2][2])

\* What each rewrite may leave on disk: the new text, an emptied file, or the file it
\* could not open; after two, also the first alone.
OnDisk(changes) ==
  LET new == Written(text, changes)
  IN IF ~MayFail THEN {new}
     ELSE {new, Nothing, file} \cup
          (IF Len(changes) = 2 THEN {Written(text, <<changes[1]>>)} ELSE {})

\* Mutant: a change a REPL or HTTP override goes on masking.
PersistMasked(changes) ==
  /\ text' = Written(text, changes)
  /\ session' = session
  /\ file' \in OnDisk(changes)

\* The live text is adopted, and the session layer told, whether or not the file was written.
Persist(changes) ==
  /\ text' = Written(text, changes)
  /\ session' = Written(session, changes)
  /\ file' \in OnDisk(changes)

\* The process ends while it writes, and is launched again.
DiesWriting(changes) ==
  /\ MayFail
  /\ \E f \in OnDisk(changes) : LaunchedWith(f)

\* pc_cfg_set from the control channel.
Override(k, v) == session' = Edited(session, k, v) /\ UNCHANGED <<text, file>>

\* The text the process works on lacks nothing the file holds: the next rewrite that
\* succeeds drops no setting, whichever earlier ones failed.
NothingForgotten == DOMAIN file \subseteq DOMAIN text
=============================================================================
