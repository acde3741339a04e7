----------------------------- MODULE KeyDriver -----------------------------
(***************************************************************************)
(* The key on the module: scanned, classified and answered in the callback *)
(* of the 2 ms timer.                                                      *)
(*                                                                         *)
(* While nothing changes the pin is read at every tick; from a change on,  *)
(* until it is answered, at every fourth.  There is no other debouncing.   *)
(* The 2 ms timer runs one callback at a time, so a callback is one step.  *)
(***************************************************************************)
EXTENDS Naturals

CONSTANTS
  LongPress,    \* KEY_LONG_PRESS_3S: 500 in the code
  Steady,       \* external: ticks the pin rests after a change
  Cap           \* bound: ages stop there

ScanEvery == 4

ASSUME KeyAssumption ==
  /\ LongPress \in Nat /\ Steady \in Nat /\ Cap \in Nat
  /\ Steady >= ScanEvery
  /\ Cap > LongPress + ScanEvery + 1

VARIABLES
  KeyObj,   \* change: Data_Change_Flag # STATUS_STABLE; skip: Matrix_Scan_Flag;
            \* valid: KeyStatusCHK; last: KeyLastStatus; pressed: UpDown;
            \* count: KeyDownTimeCount
  clock,    \* ClockCount % ScanEvery
  cur0,     \* PortInfor[0].CurStatus
  down,     \* external: the key is down (KEY_IN = KEY_PRESS_STATUS)
  age,      \* external: ticks since it went down or up
  held      \* history: the length of the last press that is over

vars == <<KeyObj, clock, cur0, down, age, held>>

KeyType ==
  /\ KeyObj \in [change : BOOLEAN, skip : BOOLEAN, valid : BOOLEAN,
                 last : BOOLEAN, pressed : BOOLEAN, count : 0 .. LongPress + 1]
  /\ clock \in 0 .. ScanEvery - 1
  /\ cur0 \in {0, 1} /\ down \in BOOLEAN /\ age \in 0 .. Cap
  /\ held \in 0 .. Cap

Key_Init ==
  [change |-> FALSE, skip |-> FALSE, valid |-> FALSE, last |-> FALSE,
   pressed |-> FALSE, count |-> 0]

Init ==
  /\ KeyObj = Key_Init /\ clock = 0 /\ cur0 \in {0, 1}
  /\ down \in BOOLEAN /\ age = Cap /\ held = Cap
-----------------------------------------------------------------------------
\* Counts while the key is down; allows a scan.
Key_DriveEngine(k) ==
  [k EXCEPT !.count = IF k.pressed THEN @ + 1 ELSE @,
            !.skip = @ /\ k.change /\ clock # 0]

\* Key_Check that leaves the count of the last press.
CheckNoClear(k) ==
  IF k.last = down THEN k
  ELSE [k EXCEPT !.last = down, !.pressed = down, !.change = TRUE]

\* Key_Check: the pin differs from the last time it was read.
Key_Check(k) ==
  IF k.last = down THEN k
  ELSE [k EXCEPT !.last = down, !.pressed = down, !.change = TRUE,
                 !.count = IF down THEN 0 ELSE @]

\* One read of the pin; a key that is up makes the key valid.
Key_Scan(k) ==
  IF k.skip THEN k
  ELSE Key_Check([k EXCEPT !.skip = TRUE, !.valid = @ \/ ~down])

IsLong(k) == k.change /\ k.pressed /\ k.count > LongPress

\* A release that is answered only when the press was short.
ShortNotLong(k) == k.change /\ ~k.pressed /\ k.count <= LongPress

IsShort(k) == k.change /\ ~k.pressed

\* An answer that leaves the key marked as down.
StableDown(k) == [k EXCEPT !.change = FALSE]

\* What an answer leaves: no change pending, the key not marked as down.
Stable(k) == [k EXCEPT !.change = FALSE, !.pressed = FALSE]

\* clock_timer_callback up to the answer.
Scanned == Key_Scan(Key_DriveEngine(KeyObj))

Older == age' = IF age < Cap THEN age + 1 ELSE age

\* Key_Poll: nothing to answer, or a long press that is not valid.
NoAnswer ==
  /\ ~IsShort(Scanned) /\ ~(IsLong(Scanned) /\ Scanned.valid)
  /\ KeyObj' = (IF IsLong(Scanned) THEN Stable(Scanned) ELSE Scanned)
  /\ clock' = (clock + 1) % ScanEvery
  /\ Older
  /\ UNCHANGED <<cur0, down, held>>

\* Key_Poll and KeyTurnOnOffSwitch.
ShortPress ==
  /\ IsShort(Scanned)
  /\ KeyObj' = Stable(Scanned)
  /\ cur0' = IF Scanned.valid THEN 1 - cur0 ELSE cur0
  /\ clock' = (clock + 1) % ScanEvery
  /\ Older
  /\ UNCHANGED <<down, held>>

\* Key_Poll and FlashResetFactory, which ends in hfsys_reset.
LongPressed ==
  /\ IsLong(Scanned) /\ Scanned.valid
  /\ KeyObj' = Key_Init /\ clock' = 0 /\ cur0' \in {0, 1}
  /\ age' = Cap
  /\ UNCHANGED <<down, held>>

clock_timer_callback == NoAnswer \/ ShortPress \/ LongPressed

\* A person: the contact does not bounce for longer than a tick.
Moves ==
  /\ age >= Steady
  /\ down' = ~down /\ age' = 0
  /\ held' = IF down THEN age ELSE held
  /\ UNCHANGED <<KeyObj, clock, cur0>>

Next == clock_timer_callback \/ Moves

Spec == Init /\ [][Next]_vars

\* The timer runs; people press when they like.
FairSpec == Spec /\ WF_vars(clock_timer_callback)
-----------------------------------------------------------------------------
(* Properties *)

\* A press is answered when its last edge was read and is no longer pending.
Answered == (KeyObj.last <=> down) /\ ~KeyObj.change

Press == INSTANCE KeyPress WITH
  Short <- LongPress - ScanEvery + 2, Long <- LongPress + 2, on <- cur0,
  answered <- Answered, armed <- KeyObj.valid

\* The scan and the poll answer every press once and in the right way.
PressesAnswered == Press!PressSpec

\* A key that is let go is answered, unless it is pressed again.
EveryPressEnds == (~down /\ ~Answered) ~> (Answered \/ down)

\* "Held for more than 3 s" (KeyDrv.c:109, and the name of the constant): in
\* ticks of TickMs, a reset takes a press of 3000 ms.
TickMs == 2
ResetTakes3S == [][LongPressed => age * TickMs >= 3000]_vars
=============================================================================
