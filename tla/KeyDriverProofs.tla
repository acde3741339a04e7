-------------------------- MODULE KeyDriverProofs --------------------------
(***************************************************************************)
(* Proofs about the key: its type, and that it answers every press as      *)
(* KeyPress promises, for every length of a long press.                    *)
(*                                                                         *)
(* The argument is a count of ticks.  An edge waits at most three ticks    *)
(* for its scan; the counter of the driver runs one behind the age of the  *)
(* press; so what the counter says at the poll differs from the length of  *)
(* the press by less than a scan period.                                   *)
(***************************************************************************)
EXTENDS KeyDriver, TLAPS

\* Between two callbacks a pending change is a press under way.
Pending ==
  /\ KeyObj.change <=> KeyObj.pressed
  /\ KeyObj.pressed => KeyObj.last /\ KeyObj.skip /\ KeyObj.count <= LongPress
  /\ KeyObj.valid /\ KeyObj.last => KeyObj.pressed

\* An edge that was not read yet is young, and its scan comes in time.
EdgeIsYoung ==
  ~(KeyObj.last <=> down) =>
    IF down THEN age = 0 \/ ~KeyObj.valid
            ELSE /\ age < ScanEvery
                 /\ KeyObj.pressed => clock = 0 \/ clock > age

\* The counter runs one tick behind the press.
CountsThePress ==
  KeyObj.pressed /\ KeyObj.valid =>
    KeyObj.count + 1 = IF down THEN age ELSE held + age

KeyInv == KeyType /\ Pending /\ EdgeIsYoung /\ CountsThePress
-----------------------------------------------------------------------------
(* A callback up to the poll *)

KeyRec ==
  [change : BOOLEAN, skip : BOOLEAN, valid : BOOLEAN, last : BOOLEAN,
   pressed : BOOLEAN, count : 0 .. LongPress + 1]

\* A read of the pin is due: nothing is pending, or at every fourth tick.
Due == ~KeyObj.change \/ clock = 0

\* One callback up to the poll, without a read, with one that finds the pin
\* as it was, and with one that finds an edge.
LEMMA ScanCases ==
  ASSUME KeyInv
  PROVE  /\ ~Due => Scanned = [KeyObj EXCEPT !.count = @ + 1]
         /\ Due /\ (KeyObj.last <=> down) =>
              Scanned = [KeyObj EXCEPT !.skip = TRUE, !.valid = @ \/ ~down,
                           !.count = IF KeyObj.pressed THEN @ + 1 ELSE @]
         /\ Due /\ ~(KeyObj.last <=> down) /\ down =>
              Scanned = [KeyObj EXCEPT !.skip = TRUE, !.last = TRUE,
                           !.pressed = TRUE, !.change = TRUE, !.count = 0]
         /\ Due /\ ~(KeyObj.last <=> down) /\ ~down =>
              Scanned = [KeyObj EXCEPT !.skip = TRUE, !.last = FALSE,
                           !.pressed = FALSE, !.change = TRUE, !.valid = TRUE,
                           !.count = IF KeyObj.pressed THEN @ + 1 ELSE @]
<1> USE KeyAssumption
    DEF KeyInv, KeyType, Pending, Due, Scanned, Key_Scan, Key_DriveEngine,
        Key_Check
<1>1. CASE ~Due
  BY <1>1
<1>2. CASE Due /\ (KeyObj.last <=> down)
  BY <1>2
<1>3. CASE Due /\ ~(KeyObj.last <=> down) /\ down
  BY <1>3
<1>4. CASE Due /\ ~(KeyObj.last <=> down) /\ ~down
  BY <1>4
<1> QED BY <1>1, <1>2, <1>3, <1>4

\* The same, field by field.
LEMMA ScanFields ==
  ASSUME KeyInv
  PROVE  /\ Scanned \in KeyRec
         /\ ~Due =>
              /\ Scanned.change <=> KeyObj.change
              /\ Scanned.skip <=> KeyObj.skip
              /\ Scanned.valid <=> KeyObj.valid
              /\ Scanned.last <=> KeyObj.last
              /\ Scanned.pressed <=> KeyObj.pressed
              /\ Scanned.count = KeyObj.count + 1
         /\ Due =>
              /\ Scanned.change <=> KeyObj.change \/ ~(KeyObj.last <=> down)
              /\ Scanned.skip
              /\ Scanned.valid <=> KeyObj.valid \/ ~down
              /\ Scanned.last <=> down
              /\ Scanned.pressed <=>
                   IF KeyObj.last <=> down THEN KeyObj.pressed ELSE down
              /\ KeyObj.pressed => Scanned.count = KeyObj.count + 1
              /\ ~(KeyObj.last <=> down) /\ down => Scanned.count = 0
PROOF
  <1>1. KeyObj \in KeyRec
    BY DEF KeyInv, KeyType, KeyRec
  <1>2. KeyObj.pressed => KeyObj.count + 1 \in 0 .. LongPress + 1
    BY KeyAssumption DEF KeyInv, KeyType, Pending
  <1>3. CASE ~Due
    BY <1>1, <1>2, <1>3, ScanCases DEF KeyInv, Pending, KeyRec, Due
  <1>4. CASE Due /\ (KeyObj.last <=> down) /\ KeyObj.pressed
    BY <1>1, <1>2, <1>4, ScanCases DEF KeyInv, KeyType, KeyRec
  <1>5. CASE Due /\ (KeyObj.last <=> down) /\ ~KeyObj.pressed
    BY <1>1, <1>5, ScanCases DEF KeyInv, KeyType, KeyRec
  <1>6. CASE Due /\ ~(KeyObj.last <=> down) /\ down
    <2>1. 0 \in 0 .. LongPress + 1 /\ ~KeyObj.pressed
      BY <1>6, KeyAssumption DEF KeyInv, Pending
    <2> QED BY <1>1, <1>6, <2>1, ScanCases DEF KeyRec
  <1>7. CASE Due /\ ~(KeyObj.last <=> down) /\ ~down
    BY <1>1, <1>2, <1>7, ScanCases DEF KeyInv, KeyType, Pending, KeyRec
  <1> QED BY <1>3, <1>4, <1>5, <1>6, <1>7

LEMMA StableFields ==
  ASSUME NEW k \in KeyRec
  PROVE  /\ Stable(k) \in KeyRec
         /\ ~Stable(k).change /\ ~Stable(k).pressed
         /\ Stable(k).skip <=> k.skip
         /\ Stable(k).valid <=> k.valid
         /\ Stable(k).last <=> k.last
         /\ Stable(k).count = k.count
PROOF
  BY DEF Stable, KeyRec
-----------------------------------------------------------------------------
(* The invariant *)

LEMMA InitInv == Init => KeyInv
PROOF
  BY KeyAssumption
  DEF Init, Key_Init, ScanEvery, KeyInv, KeyType, Pending, EdgeIsYoung,
      CountsThePress

\* What a callback does to the clock and to the age.
LEMMA TickFields ==
  ASSUME KeyInv, Older, clock' = (clock + 1) % ScanEvery
  PROVE  /\ clock' \in 0 .. ScanEvery - 1 /\ age' \in 0 .. Cap
         /\ clock' = IF clock = 3 THEN 0 ELSE clock + 1
         /\ age' = IF age < Cap THEN age + 1 ELSE age
PROOF
  BY KeyAssumption DEF KeyInv, KeyType, Older, ScanEvery

LEMMA NoAnswerInv ==
  ASSUME KeyInv, NoAnswer  PROVE  KeyInv'
PROOF
  <1> USE KeyAssumption DEF ScanEvery
  <1>0. /\ UNCHANGED <<cur0, down, held>>
        /\ Older /\ clock' = (clock + 1) % ScanEvery
    BY DEF NoAnswer
  <1>1. CASE IsLong(Scanned)
    <2>0. KeyObj' = Stable(Scanned) /\ ~Scanned.valid
      BY <1>1 DEF NoAnswer
    <2>1. KeyType'
      BY <1>0, <1>1, <2>0, ScanFields, StableFields, TickFields
      DEF KeyInv, KeyType, Pending, EdgeIsYoung, CountsThePress, Due,
          KeyRec, IsLong, IsShort
    <2>2. Pending'
      BY <1>0, <1>1, <2>0, ScanFields, StableFields, TickFields
      DEF KeyInv, KeyType, Pending, EdgeIsYoung, CountsThePress, Due,
          KeyRec, IsLong, IsShort
    <2>3. EdgeIsYoung'
      BY <1>0, <1>1, <2>0, ScanFields, StableFields, TickFields
      DEF KeyInv, KeyType, Pending, EdgeIsYoung, CountsThePress, Due,
          KeyRec, IsLong, IsShort
    <2>4. CountsThePress'
      BY <1>0, <1>1, <2>0, ScanFields, StableFields, TickFields
      DEF KeyInv, KeyType, Pending, EdgeIsYoung, CountsThePress, Due,
          KeyRec, IsLong, IsShort
    <2> QED BY <2>1, <2>2, <2>3, <2>4 DEF KeyInv
  <1>2. CASE ~IsLong(Scanned)
    <2>0. KeyObj' = Scanned /\ ~IsShort(Scanned)
      BY <1>2 DEF NoAnswer
    <2>1. KeyType'
      BY <1>0, <1>2, <2>0, ScanFields, StableFields, TickFields
      DEF KeyInv, KeyType, Pending, EdgeIsYoung, CountsThePress, Due,
          KeyRec, IsLong, IsShort
    <2>2. Pending'
      BY <1>0, <1>2, <2>0, ScanFields, StableFields, TickFields
      DEF KeyInv, KeyType, Pending, EdgeIsYoung, CountsThePress, Due,
          KeyRec, IsLong, IsShort
    <2>3. EdgeIsYoung'
      BY <1>0, <1>2, <2>0, ScanFields, StableFields, TickFields
      DEF KeyInv, KeyType, Pending, EdgeIsYoung, CountsThePress, Due,
          KeyRec, IsLong, IsShort
    <2>4. CountsThePress'
      BY <1>0, <1>2, <2>0, ScanFields, StableFields, TickFields
      DEF KeyInv, KeyType, Pending, EdgeIsYoung, CountsThePress, Due,
          KeyRec, IsLong, IsShort
    <2> QED BY <2>1, <2>2, <2>3, <2>4 DEF KeyInv
  <1> QED BY <1>1, <1>2

\* A short press is answered at the scan that finds the key let go.
LEMMA ShortIsAnEdge ==
  ASSUME KeyInv, IsShort(Scanned)
  PROVE  Due /\ ~(KeyObj.last <=> down) /\ ~down
PROOF
  BY ScanFields DEF KeyInv, Pending, IsShort, Due

LEMMA ShortPressInv ==
  ASSUME KeyInv, ShortPress  PROVE  KeyInv'
PROOF
  <1> USE KeyAssumption DEF ScanEvery
  <1>0. /\ UNCHANGED <<down, held>>
        /\ Older /\ clock' = (clock + 1) % ScanEvery
        /\ KeyObj' = Stable(Scanned)
        /\ Due /\ ~(KeyObj.last <=> down) /\ ~down
        /\ cur0' \in {0, 1}
    BY ShortIsAnEdge DEF ShortPress, KeyInv, KeyType
  <1>1. KeyType'
    BY <1>0, ScanFields, StableFields, TickFields
    DEF KeyInv, KeyType, Pending, EdgeIsYoung, CountsThePress, Due,
      KeyRec
  <1>2. Pending'
    BY <1>0, ScanFields, StableFields, TickFields
    DEF KeyInv, KeyType, Pending, EdgeIsYoung, CountsThePress, Due,
      KeyRec
  <1>3. EdgeIsYoung'
    BY <1>0, ScanFields, StableFields, TickFields
    DEF KeyInv, KeyType, Pending, EdgeIsYoung, CountsThePress, Due,
      KeyRec
  <1>4. CountsThePress'
    BY <1>0, ScanFields, StableFields, TickFields
    DEF KeyInv, KeyType, Pending, EdgeIsYoung, CountsThePress, Due,
      KeyRec
  <1> QED BY <1>1, <1>2, <1>3, <1>4 DEF KeyInv

LEMMA LongPressedInv ==
  ASSUME KeyInv, LongPressed  PROVE  KeyInv'
PROOF
  BY KeyAssumption
  DEF KeyInv, KeyType, Pending, EdgeIsYoung, CountsThePress, LongPressed,
      Key_Init, ScanEvery

LEMMA MovesInv ==
  ASSUME KeyInv, Moves  PROVE  KeyInv'
PROOF
  <1>1. KeyType'
    BY KeyAssumption
    DEF KeyInv, KeyType, Pending, EdgeIsYoung, CountsThePress, Moves,
        ScanEvery
  <1>2. Pending'
    BY KeyAssumption
    DEF KeyInv, KeyType, Pending, EdgeIsYoung, CountsThePress, Moves,
        ScanEvery
  <1>3. EdgeIsYoung'
    BY KeyAssumption
    DEF KeyInv, KeyType, Pending, EdgeIsYoung, CountsThePress, Moves,
        ScanEvery
  <1>4. CountsThePress'
    <2>1. CASE down
      <3>1. ~down' /\ held' = age /\ age' = 0 /\ KeyObj' = KeyObj
        BY <2>1 DEF Moves
      <3>2. age \in Nat /\ CountsThePress
        BY KeyAssumption DEF KeyInv, KeyType
      <3> QED BY <2>1, <3>1, <3>2 DEF CountsThePress
    <2>2. CASE ~down
      <3>1. ~KeyObj.pressed
        BY <2>2, KeyAssumption
        DEF KeyInv, KeyType, Pending, EdgeIsYoung, Moves, ScanEvery
      <3> QED BY <3>1 DEF CountsThePress, Moves
    <2> QED BY <2>1, <2>2
  <1> QED BY <1>1, <1>2, <1>3, <1>4 DEF KeyInv

LEMMA Invariance == Spec => []KeyInv
PROOF
  <1>1. KeyInv /\ [Next]_vars => KeyInv'
    <2> SUFFICES ASSUME KeyInv, [Next]_vars PROVE KeyInv'
      OBVIOUS
    <2>1. CASE NoAnswer
      BY <2>1, NoAnswerInv
    <2>2. CASE ShortPress
      BY <2>2, ShortPressInv
    <2>3. CASE LongPressed
      BY <2>3, LongPressedInv
    <2>4. CASE Moves
      BY <2>4, MovesInv
    <2>5. CASE UNCHANGED vars
      BY <2>5
      DEF KeyInv, KeyType, Pending, EdgeIsYoung, CountsThePress, vars
    <2> QED
      BY <2>1, <2>2, <2>3, <2>4, <2>5 DEF Next, clock_timer_callback
  <1> QED BY <1>1, InitInv, PTL DEF Spec

\* Every variable of the key keeps its type (Key_DriveEngine, KeyDrv.c:143: the
\* 32-bit count never passes the length of a long press by more than one).
THEOREM KeyTypeCorrect == Spec => []KeyType
PROOF
  BY Invariance, PTL DEF KeyInv
-----------------------------------------------------------------------------
(* Every press is answered as KeyPress says *)

\* Between two callbacks: the last edge was read and no press is under way.
LEMMA AnsweredFields ==
  ASSUME KeyInv
  PROVE  Answered <=> (KeyObj.last <=> down) /\ ~KeyObj.pressed
PROOF
  BY DEF KeyInv, KeyType, Pending, Answered

LEMMA AnsweredNext ==
  ASSUME KeyInv'
  PROVE  Answered' <=> (KeyObj'.last <=> down') /\ ~KeyObj'.pressed
PROOF
  BY DEF KeyInv, KeyType, Pending, Answered

LEMMA InitMaps == Init => Press!PressInit
PROOF
  <1> SUFFICES ASSUME Init PROVE Press!PressInit
    OBVIOUS
  <1>1. Answered <=> ~down
    BY DEF Init, Key_Init, Answered
  <1>2. Answered \in BOOLEAN /\ KeyObj.valid = FALSE
    BY DEF Init, Key_Init, Answered
  <1> QED BY <1>1, <1>2 DEF Init, Press!PressInit

LEMMA MovesMaps ==
  ASSUME KeyInv, KeyInv', Moves  PROVE  Press!PressNext
PROOF
  <1>1. CASE ~down
    <2>1. Answered
      BY <1>1, AnsweredFields, KeyAssumption
      DEF KeyInv, KeyType, Pending, EdgeIsYoung, Moves, ScanEvery
    <2>2. ~Answered'
      BY <1>1, <2>1, AnsweredFields, AnsweredNext DEF Moves
    <2>3. Press!GoesDown
      BY <1>1, <2>1, <2>2 DEF Moves, Press!GoesDown, Answered
    <2> QED BY <2>3 DEF Press!PressNext
  <1>2. CASE down
    <2>1. Answered' \in {FALSE, ~KeyObj.valid}
      <3>0. age >= 4
        BY KeyAssumption DEF KeyInv, KeyType, Moves, ScanEvery
      <3>1. ~down' /\ KeyObj' = KeyObj
        BY <1>2 DEF Moves
      <3>2. KeyObj.valid => KeyObj.last
        BY <1>2, <3>0 DEF KeyInv, EdgeIsYoung
      <3>3. KeyObj.valid => ~Answered'
        BY <3>1, <3>2, AnsweredNext
      <3> QED BY <3>3 DEF Answered, KeyInv, KeyType
    <2>2. Press!LetGo
      BY <1>2, <2>1 DEF Moves, Press!LetGo
    <2> QED BY <2>2 DEF Press!PressNext
  <1> QED BY <1>1, <1>2

\* A poll that answers nothing: what it may do to the press.
LEMMA NoAnswerFields ==
  ASSUME KeyInv, KeyInv', NoAnswer
  PROVE  /\ KeyObj'.valid <=> KeyObj.valid \/ (Due /\ ~down)
         /\ (Answered' <=> Answered) \/ (Answered' /\ down /\ ~KeyObj.valid)
PROOF
  <1>0. UNCHANGED <<cur0, down, held>>
    BY DEF NoAnswer
  <1>1. CASE IsLong(Scanned)
    <2>1. KeyObj' = Stable(Scanned) /\ ~Scanned.valid
      BY <1>1 DEF NoAnswer
    <2>2. KeyObj'.valid <=> KeyObj.valid \/ (Due /\ ~down)
      BY <2>1, ScanFields, StableFields
    <2>3. ~Answered
      BY <1>1, ScanFields, AnsweredFields, KeyAssumption DEF IsLong
    <2>4. CASE down
      BY <1>0, <1>1, <2>1, <2>2, <2>4, ScanFields, StableFields, AnsweredNext
      DEF KeyInv, Pending, IsLong, Due
    <2>5. CASE ~down
      BY <1>0, <1>1, <2>1, <2>3, <2>5, ScanFields, StableFields, AnsweredNext
      DEF KeyInv, Pending, IsLong, Due
    <2> QED BY <2>2, <2>3, <2>4, <2>5
  <1>2. CASE ~IsLong(Scanned)
    <2>1. KeyObj' = Scanned /\ ~IsShort(Scanned)
      BY <1>2 DEF NoAnswer
    <2> QED
      BY <1>0, <2>1, ScanFields, AnsweredFields, AnsweredNext
      DEF KeyInv, Pending, IsShort, Due
  <1> QED BY <1>1, <1>2

LEMMA TickMaps ==
  ASSUME KeyInv, NoAnswer \/ ShortPress,
         KeyObj'.valid <=> KeyObj.valid \/ (Due /\ ~down), KeyInv'
  PROVE  Press!Tick
PROOF
  <1>1. down /\ ~Answered /\ KeyObj.valid => age < LongPress + 2
    BY AnsweredFields, KeyAssumption
    DEF KeyInv, KeyType, Pending, EdgeIsYoung, CountsThePress
  <1>2. KeyObj'.valid \in {KeyObj.valid, KeyObj.valid \/ ~down}
    BY DEF KeyInv, KeyType
  <1> QED BY <1>1, <1>2 DEF NoAnswer, ShortPress, Older, Press!Tick

LEMMA NoAnswerMaps ==
  ASSUME KeyInv, KeyInv', NoAnswer  PROVE  Press!PressNext
PROOF
  <1>1. Press!Tick /\ UNCHANGED cur0
    BY NoAnswerFields, TickMaps DEF NoAnswer
  <1>2. Answered \in BOOLEAN /\ Answered' \in BOOLEAN
    BY DEF Answered
  <1>3. CASE Answered' <=> Answered
    BY <1>1, <1>2, <1>3 DEF Press!PressNext
  <1>4. CASE Answered' /\ down /\ ~KeyObj.valid
    BY <1>1, <1>4 DEF Press!PressNext, Press!Ignore
  <1> QED BY <1>3, <1>4, NoAnswerFields

LEMMA ShortPressMaps ==
  ASSUME KeyInv, KeyInv', ShortPress  PROVE  Press!Toggle
PROOF
  <1>1. Due /\ ~(KeyObj.last <=> down) /\ ~down
    BY ShortIsAnEdge DEF ShortPress
  <1>2. KeyObj' = Stable(Scanned) /\ Scanned.valid /\ UNCHANGED <<down, held>>
    BY <1>1, ScanFields DEF ShortPress
  <1>3. Press!Tick
    BY <1>1, <1>2, ScanFields, StableFields, TickMaps
  <1>4. ~Answered /\ Answered'
    BY <1>1, <1>2, ScanFields, StableFields, AnsweredFields, AnsweredNext
  <1>5. KeyObj.valid => held < LongPress + 2
    BY <1>1, KeyAssumption
    DEF KeyInv, KeyType, Pending, EdgeIsYoung, CountsThePress
  <1>6. cur0' = 1 - cur0
    BY <1>2 DEF ShortPress
  <1> QED BY <1>1, <1>3, <1>4, <1>5, <1>6 DEF Press!Toggle

LEMMA LongPressedMaps ==
  ASSUME KeyInv, KeyInv', LongPressed  PROVE  Press!Reset
PROOF
  <1>1. KeyObj.pressed /\ KeyObj.valid /\ KeyObj.count = LongPress
    BY ScanFields, KeyAssumption
    DEF KeyInv, KeyType, Pending, LongPressed, IsLong, KeyRec, Due
  <1>2. ~Answered
    BY <1>1, AnsweredFields
  <1>3. (IF down THEN age ELSE held) > LongPress - ScanEvery + 2
    BY <1>1, ScanFields, KeyAssumption
    DEF KeyInv, KeyType, Pending, EdgeIsYoung, CountsThePress, LongPressed,
        IsLong, Due, ScanEvery
  <1>4. (Answered' <=> ~down) /\ Answered' \in BOOLEAN
    BY AnsweredNext DEF LongPressed, Key_Init, Answered
  <1> QED
    BY <1>1, <1>2, <1>3, <1>4
    DEF LongPressed, Key_Init, Press!Reset, KeyInv, KeyType

\* The scan and the poll of the driver (KeyDrv.c:102, 162) implement KeyPress:
\* every short press toggles once, a reset takes a long press, and neither
\* happens without a press, whatever the length of a long press.
THEOREM PressRefinement == Spec => PressesAnswered
PROOF
  <1>1. KeyInv /\ KeyInv' /\ [Next]_vars => [Press!PressNext]_(Press!pressVars)
    <2> SUFFICES ASSUME KeyInv, KeyInv', [Next]_vars
                 PROVE  [Press!PressNext]_(Press!pressVars)
      OBVIOUS
    <2>1. CASE NoAnswer
      BY <2>1, NoAnswerMaps
    <2>2. CASE ShortPress
      BY <2>2, ShortPressMaps DEF Press!PressNext
    <2>3. CASE LongPressed
      BY <2>3, LongPressedMaps DEF Press!PressNext
    <2>4. CASE Moves
      BY <2>4, MovesMaps
    <2>5. CASE UNCHANGED vars
      BY <2>5 DEF vars, Answered, Press!pressVars
    <2> QED
      BY <2>1, <2>2, <2>3, <2>4, <2>5 DEF Next, clock_timer_callback
  <1> QED
    BY <1>1, InitMaps, Invariance, PTL
    DEF Spec, PressesAnswered, Press!PressSpec
=============================================================================
