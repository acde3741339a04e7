------------------------------ MODULE KeyPress ------------------------------
(***************************************************************************)
(* What the key of the strip promises: every press is answered once.  A    *)
(* short press is answered, after it, by one toggle of the first port, a   *)
(* long one by a factory reset.  A press that was under way at power-on    *)
(* never resets, and none is made up.                                      *)
(***************************************************************************)
EXTENDS Naturals

CONSTANTS
  Short,    \* a press of so many ticks is still a short one
  Long,     \* one of so many is a long one: in between it may be either
  Cap       \* bound: ages stop there

VARIABLES
  down,       \* the key is down
  age,        \* ticks since it went down or up
  held,       \* the length of the last press that is over
  on,         \* the first port, as the key sees it
  answered,   \* the last press has had its effect
  armed       \* the key was up since power-on

pressVars == <<down, age, held, on, answered, armed>>

PressInit ==
  /\ down \in BOOLEAN /\ age = Cap /\ held = Cap /\ on \in {0, 1}
  /\ answered = ~down /\ armed = FALSE

\* A person: nobody presses again before the last press was answered.
GoesDown ==
  /\ ~down /\ answered
  /\ down' = TRUE /\ age' = 0 /\ answered' = FALSE
  /\ UNCHANGED <<held, on, armed>>

\* A press that began before power-on may go unnoticed.
LetGo ==
  /\ down
  /\ down' = FALSE /\ age' = 0 /\ held' = age
  /\ answered' \in {FALSE, ~armed}
  /\ UNCHANGED <<on, armed>>

\* A tick: a long press is not let pass.
Tick ==
  /\ down /\ ~answered /\ armed => age < Long
  /\ age' = IF age < Cap THEN age + 1 ELSE age
  /\ armed' \in {armed, armed \/ ~down}
  /\ UNCHANGED <<down, held>>

Toggle ==
  /\ Tick
  /\ ~down /\ ~answered /\ (armed => held < Long)
  /\ answered' /\ on' = 1 - on

\* Reset ends in a restart, mostly with the key still down.
Reset ==
  /\ ~answered /\ armed
  /\ (IF down THEN age ELSE held) > Short
  /\ age' = Cap /\ on' \in {0, 1}
  /\ answered' = ~down /\ armed' = FALSE
  /\ UNCHANGED <<down, held>>

\* A press that lasts since power-on is not looked at any longer.
Ignore == Tick /\ down /\ ~armed /\ answered' /\ UNCHANGED on

PressNext ==
  \/ GoesDown \/ LetGo \/ Toggle \/ Reset \/ Ignore
  \/ Tick /\ UNCHANGED <<on, answered>>

PressSpec == PressInit /\ [][PressNext]_pressVars
=============================================================================
