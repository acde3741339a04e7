-------------------------- MODULE HourRecordProofs --------------------------
(***************************************************************************)
(* Proofs about the readings of an hour and the hours recorded, for any    *)
(* number of ports, any pace of readings and any clock.                    *)
(***************************************************************************)
EXTENDS HourRecord, ClockProofs

RecordType ==
  /\ sums \in [PortIds -> Nat] /\ count \in Nat
  /\ means \in [PortIds -> Nat \X Nat]
  /\ closing \in 0 .. Sockets + 1

\* A closing meets one reading at most: as long as it has not, the ports divided
\* have none.
OneReading == due => \A p \in PortIds : p < closing => sums[p] = 0

HourInv == RecordType /\ OneReading /\ ReadingsAreCounted

\* Nothing is summed up when the module starts.
LEMMA HourInit == RecordInit => HourInv
  BY RecordAssumption
     DEF RecordInit, HourInv, RecordType, OneReading, ReadingsAreCounted,
         PortIds

\* A reading goes into all the sums and into the count.
LEMMA ReadingInv == ASSUME HourInv, getPortData PROVE HourInv'
<1>1. due /\ ~due' /\ count' = count + 1 /\ closing' = closing
      /\ means' = means /\ sums' = [p \in PortIds |-> sums[p] + 1]
  BY DEF getPortData
<1>2. RecordType'
  BY <1>1 DEF HourInv, RecordType
<1>3. ReadingsAreCounted'
  <2> SUFFICES ASSUME NEW p \in PortIds
               PROVE  sums'[p] - (IF p < closing THEN 0 ELSE count + 1)
                        \in {0, 1}
    BY <1>1 DEF HourInv, ReadingsAreCounted
  <2>1. sums'[p] = sums[p] + 1 /\ sums[p] \in Nat /\ count \in Nat
    BY <1>1 DEF HourInv, RecordType
  <2>2. CASE p < closing
    BY <1>1, <2>1, <2>2 DEF HourInv, OneReading
  <2>3. CASE ~(p < closing)
    BY <2>1, <2>3 DEF HourInv, ReadingsAreCounted
  <2> QED BY <2>2, <2>3
<1> QED BY <1>1, <1>2, <1>3 DEF HourInv, OneReading

\* A division takes the readings of one port, and starts its sum again.
LEMMA PortInv == ASSUME HourInv, ClosePort PROVE HourInv'
<1>1. /\ closing \in PortIds /\ closing' = closing + 1
      /\ means' = [means EXCEPT ![closing] = <<sums[closing], count>>]
      /\ sums' = [sums EXCEPT ![closing] = 0]
      /\ UNCHANGED <<count, due>>
  BY DEF ClosePort, Divided
<1>2. closing \in Nat /\ closing' \in 0 .. Sockets + 1
  BY <1>1, RecordAssumption DEF PortIds
<1>3. RecordType'
  BY <1>1, <1>2 DEF HourInv, RecordType
<1>4. OneReading'
  BY <1>1, <1>2 DEF HourInv, RecordType, OneReading, PortIds
<1>5. ReadingsAreCounted'
  <2> SUFFICES ASSUME NEW p \in PortIds
               PROVE  /\ sums'[p] - (IF p < closing + 1 THEN 0 ELSE count)
                           \in {0, 1}
                      /\ means'[p][1] - means'[p][2] \in {0, 1}
    BY <1>1 DEF ReadingsAreCounted
  <2>1. /\ sums[p] - (IF p < closing THEN 0 ELSE count) \in {0, 1}
        /\ means[p][1] - means[p][2] \in {0, 1}
        /\ p \in Nat /\ sums \in [PortIds -> Nat] /\ count \in Nat
        /\ means \in [PortIds -> Nat \X Nat]
    BY DEF HourInv, ReadingsAreCounted, RecordType, PortIds
  <2>2. CASE p = closing
    BY <1>1, <1>2, <2>1, <2>2
  <2>3. CASE p # closing
    BY <1>1, <1>2, <2>1, <2>3
  <2> QED BY <2>2, <2>3
<1> QED BY <1>3, <1>4, <1>5 DEF HourInv

\* The count starts again where the sums have.
LEMMA EndInv == ASSUME HourInv, CloseEnds PROVE HourInv'
<1>1. closing = Sockets + 1 /\ count' = 0 /\ closing' = 0
      /\ UNCHANGED <<sums, means, due>>
  BY DEF CloseEnds
<1>2. \A p \in PortIds : p \in Nat /\ p < closing
  BY <1>1, RecordAssumption DEF PortIds
<1> QED BY <1>1, <1>2, RecordAssumption
        DEF HourInv, RecordType, OneReading, ReadingsAreCounted, PortIds

\* The other steps begin a closing or leave the sums alone.
LEMMA OtherInv ==
  ASSUME HourInv,
         CloseBegins \/ SecondPasses \/ SysTime_GetTime \/ UNCHANGED hourVars
  PROVE  HourInv'
<1>1. CASE CloseBegins
  <2>1. /\ closing = 0 /\ closing' \in {0, 1}
        /\ UNCHANGED <<sums, count, means, due>>
    BY <1>1 DEF CloseBegins
  <2> QED BY <2>1, RecordAssumption
          DEF HourInv, RecordType, OneReading, ReadingsAreCounted, PortIds
<1>2. CASE SecondPasses
  <2>1. closing = 0 /\ UNCHANGED <<sums, count, means, closing>>
    BY <1>2 DEF SecondPasses
  <2> QED BY <2>1
          DEF HourInv, RecordType, OneReading, ReadingsAreCounted, PortIds
<1>3. CASE SysTime_GetTime \/ UNCHANGED hourVars
  <2>1. UNCHANGED <<sums, count, means, closing, due>>
    BY <1>3 DEF SysTime_GetTime, recordVars, hourVars
  <2> QED BY <2>1 DEF HourInv, RecordType, OneReading, ReadingsAreCounted
<1> QED BY <1>1, <1>2, <1>3

\* No reading of the slave (getPortData) is lost or counted in two hours by the
\* closing of an hour (PowerRecord_StaticsData), whenever it comes in between:
\* sums, count and means stay within one reading of each other.
THEOREM ReadingsCounted == HourSpec => []ReadingsAreCounted
<1>1. ClockInit /\ RecordInit => HourInv
  BY HourInit
<1>2. HourInv /\ [RecordNext]_hourVars => HourInv'
  BY ReadingInv, PortInv, EndInv, OtherInv DEF RecordNext
<1>3. HourInv => ReadingsAreCounted
  BY DEF HourInv
<1> QED BY <1>1, <1>2, <1>3, PTL DEF HourSpec
-----------------------------------------------------------------------------
(* The hours *)

\* Nothing sets the clock here.
NotSet == setting = 0 /\ ~mixed

\* A mark is of a second in the window, and it is old by as much as a read and
\* the round of the thread take.
MarkPart ==
  IF hour THEN /\ reading = 0 /\ InWindow(stamp) /\ stamp <= Now
               /\ Now <= stamp + (IF lagged THEN 2 ELSE 1)
          ELSE ~lagged

\* An hour that is being recorded has its readings and is just over.
ClosePart ==
  closing # 0 => /\ count >= MinReadings /\ nowTimeStack \in Nat
                 /\ nowTimeStack <= Now /\ Now <= nowTimeStack + HourWindow + 1

\* The readings counted all came after the hour recorded last, ReadEvery seconds
\* apart, the first of them perhaps at once.
LastDue == Now - (Now % ReadEvery)
PacePart ==
  IF due THEN Now % ReadEvery = 0 /\ count * ReadEvery <= Now - Newest
         ELSE (count - 1) * ReadEvery <= LastDue - Newest

\* The table of records, the newest of which is past.
TablePart ==
  /\ recordData \in [0 .. RecordHours -> Nat]
  /\ recordCount \in 0 .. RecordHours - 1
  /\ Newest <= Now

RecordInv ==
  /\ ClockInv /\ NotSet /\ HourInv
  /\ MarkPart /\ ClosePart /\ PacePart /\ TablePart

\* The numbers it speaks of are numbers.
LEMMA RecordFacts ==
  ASSUME RecordInv
  PROVE  /\ Now \in Moments /\ Now \in Nat /\ stamp \in Moments /\ stamp \in Nat
         /\ count \in Nat /\ ReadEvery \in Positive
         /\ RecordHours \in Positive /\ Sockets \in Positive
         /\ MinReadings \in Nat /\ HourWindow \in Nat
         /\ Newest \in Nat
<1>1. /\ Now \in Moments /\ Now \in Nat /\ stamp \in Moments /\ stamp \in Nat
  BY NowIs, MomentsAre DEF RecordInv, ClockInv, Types
<1>2. /\ count \in Nat /\ ReadEvery \in Positive
      /\ RecordHours \in Positive /\ Sockets \in Positive
      /\ MinReadings \in Nat /\ HourWindow \in Nat
  BY RecordAssumption, BasesType
     DEF RecordInv, HourInv, RecordType, Positive
<1>3. (recordCount + RecordHours - 1) % RecordHours \in 0 .. RecordHours - 1
  <2>1. recordCount + RecordHours - 1 \in Nat
    BY <1>2 DEF RecordInv, TablePart, Positive
  <2> QED BY <1>2, <2>1, DivMod
<1>4. Newest \in Nat
  <2>1. (recordCount + RecordHours - 1) % RecordHours \in 0 .. RecordHours
    BY <1>2, <1>3 DEF Positive
  <2> QED BY <2>1 DEF Newest, RecordInv, TablePart
<1> QED BY <1>1, <1>2, <1>4

\* So many readings take so long.
LEMMA Multiples ==
  ASSUME NEW c \in Nat, NEW n \in Nat
  PROVE  /\ c * n \in Nat /\ (c + 1) * n = c * n + n
         /\ (c - 1) * n = c * n - n
         /\ \A d \in Nat : d <= c => d * n <= c * n
  BY Times

\* The entry before the next one is the one just written.
LEMMA NewestIs ==
  ASSUME NEW n \in Positive, NEW c \in 0 .. n - 1
  PROVE  /\ (c + 1) % n \in 0 .. n - 1
         /\ (((c + 1) % n) + n - 1) % n = c
<1> USE DEF Positive
<1>1. (c + 1) % n \in 0 .. n - 1
  BY DivMod
<1>2. CASE c + 1 < n
  <2>1. (n * 0 + (c + 1)) % n = c + 1 /\ (n * 1 + c) % n = c
    BY <1>2, DivModIs
  <2>2. n * 0 + (c + 1) = c + 1 /\ n * 1 + c = (c + 1) + n - 1
    OBVIOUS
  <2> QED BY <1>1, <2>1, <2>2
<1>3. CASE c + 1 = n
  <2>1. (n * 1 + 0) % n = 0 /\ (n * 0 + c) % n = c
    BY <1>3, DivModIs
  <2>2. n * 1 + 0 = c + 1 /\ n * 0 + c = 0 + n - 1
    BY <1>3
  <2> QED BY <1>1, <2>1, <2>2
<1> QED BY <1>2, <1>3

\* A second in the window, a little before its end rounded down, is the hour.
LEMMA RoundedIs ==
  ASSUME NEW t \in Moments, InWindow(t)
  PROVE  /\ RoundedHour(t) \in Nat
         /\ RoundedHour(t) <= t /\ t <= RoundedHour(t) + HourWindow - 1
<1> DEFINE w == t % Hour
<1>1. t \in Nat /\ Hour \in Positive /\ HourWindow \in Nat
      /\ Ahead \in Nat /\ HourWindow + Ahead <= Hour
  BY MomentsAre, WeightIs, BasesType, RecordAssumption DEF Hour
<1>2. w \in Nat /\ w < HourWindow
  <2>1. Hour = Span(Mins) /\ Weight[Mins] = Span(Secs) /\ Weight[Secs] = 1
    <3>1. 3 # 1 /\ 3 - 1 = Mins /\ Mins # 1 /\ Mins - 1 = Secs /\ Secs = 1
      BY DEF Mins, Secs
    <3> QED BY <3>1, SpanIs, BasesType, RecordAssumption DEF Hour
  <2>2. t % Hour = Weight[Mins] * Digit(t, Mins) + (t % Weight[Mins])
    BY <1>1, <2>1, DigitIs, BasesType
  <2>3. t % Weight[Mins] = Weight[Secs] * Digit(t, Secs) + (t % Weight[Secs])
    BY <1>1, <2>1, DigitIs, BasesType
  <2>4. Digit(t, Mins) = 0 /\ Digit(t, Secs) < HourWindow
        /\ Digit(t, Secs) \in Nat /\ Weight[Mins] \in Nat
    BY <1>1, DigitIs, BasesType, WeightIs DEF InWindow, Positive
  <2>5. t % 1 = 0
    BY <1>1
  <2>6. t % Hour = Digit(t, Secs)
    BY <2>1, <2>2, <2>3, <2>4, <2>5
  <2> QED BY <2>4, <2>6
<1>3. (t + Ahead) % Hour = w + Ahead
  <2>1. t \div Hour \in Nat /\ t = Hour * (t \div Hour) + w
    BY <1>1, DivMod
  <2>2. Hour * (t \div Hour) \in Nat
    BY <1>1, <2>1, Times DEF Positive
  <2>3. w + Ahead \in 0 .. Hour - 1
    <3> HIDE DEF w
    <3> QED BY <1>1, <1>2 DEF Positive
  <2>4. (Hour * (t \div Hour) + (w + Ahead)) % Hour = w + Ahead
    BY <1>1, <2>1, <2>3, DivModIs
  <2>5. Hour * (t \div Hour) + (w + Ahead) = t + Ahead
    <3> HIDE DEF w
    <3> QED BY <1>1, <1>2, <2>1, <2>2
  <2> QED BY <2>4, <2>5
<1>4. RoundedHour(t) = t - w
  <2> HIDE DEF w
  <2> QED BY <1>1, <1>2, <1>3 DEF RoundedHour
<1>5. w <= t
  <2>1. t \div Hour \in Nat /\ t = Hour * (t \div Hour) + w
    BY <1>1, DivMod
  <2>2. Hour * (t \div Hour) \in Nat
    BY <1>1, <2>1, Times DEF Positive
  <2> HIDE DEF w
  <2> QED BY <1>1, <1>2, <2>1, <2>2
<1> HIDE DEF w
<1> QED BY <1>1, <1>2, <1>4, <1>5
-----------------------------------------------------------------------------
(* The steps *)

\* What the table and the pace say is about clock, count and table alone.
Recorded == <<recordCount, recordData>>

\* So they outlast a step that leaves these alone.
LEMMA KeptInv ==
  ASSUME RecordInv, ClockInv', NotSet', HourInv', UNCHANGED Recorded
  PROVE  /\ Newest' = Newest
         /\ UNCHANGED <<chip, count, due>> => PacePart' /\ TablePart'
         /\ UNCHANGED <<chip, hour, reading, stamp, lagged>> => MarkPart'
         /\ MarkPart' /\ ClosePart' /\ PacePart' /\ TablePart' => RecordInv'
<1>1. Newest' = Newest
  BY DEF Recorded, Newest
<1>2. UNCHANGED chip => Now' = Now
  BY DEF Now
<1>3. UNCHANGED <<chip, count, due>> => PacePart' /\ TablePart'
  BY <1>1, <1>2 DEF RecordInv, PacePart, TablePart, LastDue, Recorded
<1>4. UNCHANGED <<chip, hour, reading, stamp, lagged>> => MarkPart'
  BY <1>2 DEF RecordInv, MarkPart, InWindow
<1> QED BY <1>1, <1>3, <1>4 DEF RecordInv

\* A reading comes: the pace has one more, and waits for the next.
LEMMA ReadingStep == ASSUME RecordInv, getPortData PROVE RecordInv'
<1>1. /\ due /\ ~due' /\ count' = count + 1
      /\ UNCHANGED <<closing, nowTimeStack, lagged, clockVars>>
      /\ UNCHANGED Recorded
  BY DEF getPortData, Recorded
<1>2. UNCHANGED <<chip, hour, reading, stamp>> /\ Now' = Now
  BY <1>1 DEF clockVars, Now
<1>3. ClockInv' /\ NotSet' /\ HourInv'
  BY <1>1, MarkInv, ReadingInv DEF RecordInv, NotSet, clockVars
<1>4. ClosePart'
  <2>1. count + 1 >= count /\ count \in Nat /\ MinReadings \in Nat
    BY RecordFacts
  <2> QED BY <1>1, <1>2, <2>1 DEF RecordInv, ClosePart
<1>5. PacePart'
  <2>1. /\ Now % ReadEvery = 0 /\ count * ReadEvery <= Now - Newest
        /\ count \in Nat /\ Now \in Nat
    BY <1>1, RecordFacts DEF RecordInv, PacePart
  <2>2. (count' - 1) * ReadEvery = count * ReadEvery /\ LastDue' = Now
    <3>1. count' - 1 = count
      BY <1>1, <2>1
    <3> QED BY <1>2, <2>1, <3>1 DEF LastDue
  <2>3. Newest' = Newest
    BY <1>1 DEF Recorded, Newest
  <2> QED BY <1>1, <2>1, <2>2, <2>3 DEF PacePart
<1>6. TablePart'
  BY <1>1, <1>2 DEF RecordInv, TablePart, Recorded, Newest
<1> QED BY <1>1, <1>2, <1>3, <1>4, <1>5, <1>6, KeptInv

\* An hour marked is closed, if it has its readings: it is the one just over.
LEMMA CloseStep == ASSUME RecordInv, CloseBegins PROVE RecordInv'
<1>1. /\ closing = 0 /\ hour /\ ~hour' /\ ~lagged'
      /\ IF count >= MinReadings
           THEN closing' = 1 /\ nowTimeStack' = RoundedHour(stamp)
           ELSE closing' = 0
      /\ UNCHANGED <<chip, count, due>> /\ UNCHANGED Recorded
      /\ HourTaken
  BY DEF CloseBegins, HourTaken, EnoughReadings, Recorded
<1>2. ClockInv' /\ NotSet' /\ HourInv'
  BY <1>1, MarkInv, OtherInv DEF RecordInv, NotSet, HourTaken
<1>3. MarkPart'
  BY <1>1 DEF MarkPart
<1>4. ClosePart'
  <2>1. /\ InWindow(stamp) /\ stamp <= Now /\ Now <= stamp + 2
        /\ stamp \in Moments /\ stamp \in Nat /\ Now \in Nat
        /\ HourWindow \in Nat
    BY <1>1, RecordFacts DEF RecordInv, MarkPart
  <2>2. /\ RoundedHour(stamp) \in Nat /\ RoundedHour(stamp) <= stamp
        /\ stamp <= RoundedHour(stamp) + HourWindow - 1
    BY <2>1, RoundedIs
  <2>3. /\ RoundedHour(stamp) <= Now
        /\ Now <= RoundedHour(stamp) + HourWindow + 1
    BY <2>1, <2>2
  <2>4. Now' = Now
    BY <1>1 DEF Now
  <2> QED BY <1>1, <2>2, <2>3, <2>4 DEF ClosePart
<1> QED BY <1>1, <1>2, <1>3, <1>4, KeptInv

\* The divisions leave the clock, the count and the table alone.
LEMMA PortStep == ASSUME RecordInv, ClosePort PROVE RecordInv'
<1>1. /\ closing \in PortIds
      /\ UNCHANGED <<count, due, nowTimeStack, lagged, clockVars>>
      /\ UNCHANGED Recorded
  BY DEF ClosePort, Recorded
<1>2. UNCHANGED <<chip, hour, reading, stamp>> /\ Now' = Now
  BY <1>1 DEF clockVars, Now
<1>3. ClockInv' /\ NotSet' /\ HourInv'
  BY <1>1, MarkInv, PortInv DEF RecordInv, NotSet, clockVars
<1>4. ClosePart'
  <2>1. closing # 0
    BY <1>1 DEF PortIds
  <2> QED BY <1>1, <1>2, <2>1 DEF RecordInv, ClosePart
<1> QED BY <1>1, <1>2, <1>3, <1>4, KeptInv

\* The hour goes into the table: it has so many readings after the newest one
\* there that it is a later one.
LEMMA EndStep ==
  ASSUME RecordInv, CloseEnds
  PROVE  /\ RecordInv'
         /\ recordCount' # recordCount =>
              Newest' > Newest /\ Now - Newest' \in 0 .. HourWindow + 1
<1>1. /\ closing = Sockets + 1 /\ closing' = 0 /\ count' = 0
      /\ IF told
           THEN /\ recordData' =
                     [recordData EXCEPT ![recordCount] = nowTimeStack]
                /\ recordCount' = (recordCount + 1) % RecordHours
           ELSE UNCHANGED Recorded
      /\ UNCHANGED <<due, lagged, clockVars>>
  BY DEF CloseEnds, Recorded
<1>2. UNCHANGED <<chip, hour, reading, stamp>> /\ Now' = Now
  BY <1>1 DEF clockVars, Now
<1>3. /\ Now \in Nat /\ count \in Nat /\ ReadEvery \in Positive
      /\ RecordHours \in Positive /\ Sockets \in Positive
      /\ MinReadings \in Nat /\ HourWindow \in Nat /\ Newest \in Nat
  BY RecordFacts
<1>4. /\ count >= MinReadings /\ nowTimeStack \in Nat
      /\ nowTimeStack <= Now /\ Now <= nowTimeStack + HourWindow + 1
  <2>1. closing # 0
    BY <1>1, <1>3 DEF Positive
  <2> QED BY <2>1 DEF RecordInv, ClosePart
<1>5. ClockInv' /\ NotSet' /\ HourInv'
  BY <1>1, MarkInv, EndInv DEF RecordInv, NotSet, clockVars
<1>6. MarkPart'
  BY <1>1, <1>2 DEF RecordInv, MarkPart, InWindow
<1>7. ClosePart'
  BY <1>1 DEF ClosePart
<1>8. /\ recordData' \in [0 .. RecordHours -> Nat]
      /\ recordCount' \in 0 .. RecordHours - 1
      /\ Newest' = IF told THEN nowTimeStack ELSE Newest
  <2>1. /\ recordData \in [0 .. RecordHours -> Nat]
        /\ recordCount \in 0 .. RecordHours - 1
    BY DEF RecordInv, TablePart
  <2>2. CASE told
    <3>1. recordCount' \in 0 .. RecordHours - 1
          /\ (recordCount' + RecordHours - 1) % RecordHours = recordCount
      BY <1>1, <1>3, <2>1, <2>2, NewestIs
    <3>2. recordCount \in 0 .. RecordHours
      BY <1>3, <2>1 DEF Positive
    <3>3. recordData' = [recordData EXCEPT ![recordCount] = nowTimeStack]
      BY <1>1, <2>2
    <3>4. Newest' = recordData'[recordCount]
      BY <3>1 DEF Newest
    <3> QED BY <1>4, <2>1, <2>2, <3>1, <3>2, <3>3, <3>4
  <2>3. CASE ~told
    BY <1>1, <2>1, <2>3 DEF Recorded, Newest
  <2> QED BY <2>2, <2>3
<1>9. Newest' <= Now
  BY <1>4, <1>8 DEF RecordInv, TablePart
<1>10. PacePart'
  <2>1. Now % ReadEvery \in 0 .. ReadEvery - 1
    BY <1>3, DivMod
  <2>2. due => Now % ReadEvery = 0
    BY DEF RecordInv, PacePart
  <2>3. count' * ReadEvery = 0 /\ (count' - 1) * ReadEvery = 0 - ReadEvery
    BY <1>1, <1>3, Multiples DEF Positive
  <2>4. 0 - ReadEvery <= LastDue - Newest'
    BY <1>3, <1>4, <1>8, <1>9, <2>1 DEF LastDue, Positive
  <2>5. 0 <= Now - Newest'
    BY <1>3, <1>4, <1>8, <1>9
  <2> QED BY <1>1, <1>2, <2>2, <2>3, <2>4, <2>5 DEF PacePart, LastDue
<1>11. ASSUME recordCount' # recordCount
       PROVE  Newest' > Newest /\ Now - Newest' \in 0 .. HourWindow + 1
  <2>1. Newest' = nowTimeStack
    BY <1>1, <1>8, <1>11 DEF Recorded
  <2>2. (count - 1) * ReadEvery <= Now - Newest
    <3>1. Now % ReadEvery \in Nat
      BY <1>3, DivMod
    <3>2. count * ReadEvery \in Nat
          /\ (count - 1) * ReadEvery = count * ReadEvery - ReadEvery
      BY <1>3, Multiples DEF Positive
    <3> QED BY <1>3, <3>1, <3>2 DEF RecordInv, PacePart, LastDue, Positive
  <2>3. (MinReadings - 1) * ReadEvery <= (count - 1) * ReadEvery
    <3>1. MinReadings * ReadEvery <= count * ReadEvery
      BY <1>3, <1>4, Multiples DEF Positive
    <3>2. /\ (MinReadings - 1) * ReadEvery = MinReadings * ReadEvery - ReadEvery
          /\ (count - 1) * ReadEvery = count * ReadEvery - ReadEvery
          /\ MinReadings * ReadEvery \in Nat /\ count * ReadEvery \in Nat
      BY <1>3, Multiples DEF Positive
    <3> QED BY <1>3, <3>1, <3>2 DEF Positive
  <2>4. HourWindow + 1 < (MinReadings - 1) * ReadEvery
    BY RecordAssumption
  <2>5. (MinReadings - 1) * ReadEvery \in Int /\ (count - 1) * ReadEvery \in Int
    BY <1>3 DEF Positive
  <2> QED BY <1>3, <1>4, <2>1, <2>2, <2>3, <2>4, <2>5
<1>12. PacePart' /\ TablePart'
  BY <1>2, <1>8, <1>9, <1>10 DEF TablePart
<1> QED BY <1>5, <1>6, <1>7, <1>11, <1>12 DEF RecordInv

\* A second: a mark grows older by it, and every ReadEvery of them a reading is
\* due.
LEMMA SecondStep == ASSUME RecordInv, SecondPasses PROVE RecordInv'
<1>1. /\ ~due /\ closing = 0 /\ closing' = 0 /\ ~(hour /\ lagged) /\ ChipTicks
      /\ due' <=> Now' % ReadEvery = 0
      /\ lagged' = hour
      /\ UNCHANGED count /\ UNCHANGED Recorded
      /\ UNCHANGED <<hour, reading, stamp, setting, mixed>>
  BY DEF SecondPasses, ChipTicks, Recorded
<1>2. ClockInv' /\ NotSet' /\ HourInv' /\ Now' = Now + 1
  BY <1>1, TickInv, OtherInv DEF RecordInv, NotSet
<1>3. /\ Now \in Nat /\ stamp \in Nat /\ count \in Nat /\ Newest \in Nat
      /\ ReadEvery \in Positive
  BY RecordFacts
<1>4. MarkPart'
  BY <1>1, <1>2, <1>3 DEF RecordInv, MarkPart, InWindow
<1>5. ClosePart'
  BY <1>1 DEF ClosePart
<1>6. Newest' = Newest
  BY <1>1 DEF Recorded, Newest
<1>7. TablePart'
  <2>1. Newest <= Now + 1
    BY <1>3 DEF RecordInv, TablePart
  <2> QED BY <1>1, <1>2, <1>6, <2>1 DEF RecordInv, TablePart, Recorded
<1>8. PacePart'
  <2> DEFINE r == Now % ReadEvery
  <2>1. r \in 0 .. ReadEvery - 1 /\ Now' % ReadEvery =
          IF r = ReadEvery - 1 THEN 0 ELSE r + 1
    BY <1>2, <1>3, DivMod, NextSecond
  <2>2. (count - 1) * ReadEvery <= Now - r - Newest
    BY <1>1 DEF RecordInv, PacePart, LastDue
  <2>3. count * ReadEvery \in Nat
        /\ (count - 1) * ReadEvery = count * ReadEvery - ReadEvery
    BY <1>3, Multiples DEF Positive
  <2> HIDE DEF r
  <2>4. CASE r = ReadEvery - 1
    <3>1. Now' % ReadEvery = 0 /\ due'
      BY <1>1, <2>1, <2>4
    <3>2. count * ReadEvery <= Now + 1 - Newest
      BY <1>3, <2>2, <2>3, <2>4 DEF Positive
    <3>3. count' * ReadEvery <= Now' - Newest'
      <4> DEFINE now == Now'
                 new == Newest'
                 c == count'
      <4>1. c = count /\ now = Now + 1 /\ new = Newest
        BY <1>1, <1>2, <1>6
      <4> HIDE DEF now, new, c
      <4>2. c * ReadEvery <= now - new
        BY <1>3, <3>2, <4>1 DEF Positive
      <4> QED BY <4>2 DEF now, new, c
    <3> QED BY <3>1, <3>3, Zenon DEF PacePart
  <2>5. CASE r # ReadEvery - 1
    <3>0. Now' % ReadEvery = r + 1 /\ r + 1 # 0
      BY <1>3, <2>1, <2>5 DEF Positive
    <3>1. Now' % ReadEvery = r + 1 /\ ~due'
      BY <1>1, <3>0
    <3>2. LastDue' = Now - r
      BY <1>2, <1>3, <2>1, <3>1 DEF LastDue
    <3>3. (count' - 1) * ReadEvery <= LastDue' - Newest'
      BY <1>1, <1>6, <2>2, <3>2
    <3> QED BY <3>1, <3>3, Zenon DEF PacePart
  <2> QED BY <2>4, <2>5
<1> QED BY <1>1, <1>2, <1>4, <1>5, <1>7, <1>8, KeptInv

\* The clock is read, and an hour marked.
LEMMA ReadStep == ASSUME RecordInv, SysTime_GetTime PROVE RecordInv'
<1>1. /\ closing = 0 /\ closing' = 0
      /\ UNCHANGED <<count, due, lagged>> /\ UNCHANGED Recorded
      /\ ReadBegins \/ Readbyte \/ ReadEnds
  BY DEF SysTime_GetTime, recordVars, Recorded
<1>2. UNCHANGED <<chip, setting>> /\ Now' = Now
  BY <1>1 DEF ReadBegins, Readbyte, ReadEnds, Now
<1>3. ClockInv' /\ NotSet' /\ HourInv'
  <2>1. NotSet'
    <3>1. CASE ReadBegins
      <4>1. setting' = setting /\ mixed' = (setting # 0) /\ setting = 0
        BY <3>1 DEF RecordInv, NotSet, ReadBegins
      <4> QED BY <4>1 DEF NotSet
    <3>2. CASE Readbyte \/ ReadEnds
      BY <3>2 DEF RecordInv, NotSet, Readbyte, ReadEnds
    <3> QED BY <1>1, <3>1, <3>2
  <2>2. ClockInv'
    BY <1>1, BeginInv, ReadbyteInv, EndsInv DEF RecordInv
  <2> QED BY <2>1, <2>2, OtherInv DEF RecordInv
<1>4. ClosePart'
  BY <1>1 DEF ClosePart
<1>5. MarkPart'
  <2>1. CASE ReadEnds /\ hour'
    <3>1. /\ InWindow(stamp') /\ stamp' <= Now /\ Now <= stamp' + 1
          /\ stamp' \in Nat /\ Now \in Nat
      BY <2>1, MarkedReading, RecordFacts DEF RecordInv, NotSet
    <3>2. reading' = 0 /\ InWindow(stamp)'
      <4>1. reading' = 0
        BY <2>1 DEF ReadEnds
      <4> QED BY <3>1, <4>1 DEF InWindow
    <3>3. Now <= stamp' + 2
      <4> DEFINE t == stamp'
      <4>1. Now \in Nat /\ t \in Nat /\ Now <= t + 1
        BY <3>1
      <4> HIDE DEF t
      <4>2. Now <= t + 2
        BY <4>1
      <4> QED BY <4>2 DEF t
    <3> QED BY <1>1, <1>2, <2>1, <3>1, <3>2, <3>3 DEF MarkPart
  <2>2. CASE ~hour'
    <3>1. ~hour
      <4>1. reading # 0 \/ ~hour
        BY <1>1, BasesType DEF ReadBegins, Readbyte, ReadEnds, Fields
      <4> QED BY <4>1 DEF RecordInv, MarkPart
    <3> QED BY <1>1, <2>2, <3>1 DEF RecordInv, MarkPart
  <2>3. CASE ~ReadEnds /\ hour'
    <3>1. hour' = hour /\ (reading # 0 \/ ~hour)
      <4>1. CASE ReadBegins
        BY <4>1 DEF ReadBegins
      <4>2. CASE Readbyte
        BY <4>2 DEF Readbyte, Fields
      <4> QED BY <1>1, <2>3, <4>1, <4>2
    <3> QED BY <2>3, <3>1 DEF RecordInv, MarkPart
  <2> QED BY <2>1, <2>2, <2>3
<1> QED BY <1>1, <1>2, <1>3, <1>4, <1>5, KeptInv

\* Every step keeps the invariant, and records an hour once.
LEMMA RecordStep ==
  ASSUME RecordInv, [RecordNext]_hourVars
  PROVE  /\ RecordInv'
         /\ recordCount' # recordCount =>
              Newest' > Newest /\ Now - Newest' \in 0 .. HourWindow + 1
<1>1. CASE CloseEnds
  BY <1>1, EndStep
<1>2. CASE getPortData \/ CloseBegins \/ ClosePort \/ SecondPasses
           \/ SysTime_GetTime
  <2>1. recordCount' = recordCount
    BY <1>2 DEF getPortData, CloseBegins, ClosePort, SecondPasses,
                SysTime_GetTime, recordVars
  <2> QED BY <1>2, <2>1, ReadingStep, CloseStep, PortStep, SecondStep, ReadStep
<1>3. CASE UNCHANGED hourVars
  <2>1. UNCHANGED clockVars /\ UNCHANGED recordVars
    BY <1>3 DEF hourVars
  <2>2. /\ UNCHANGED <<count, due, lagged, closing, nowTimeStack>>
        /\ UNCHANGED Recorded /\ recordCount' = recordCount
    BY <2>1 DEF recordVars, Recorded
  <2>3. UNCHANGED <<chip, hour, reading, stamp>> /\ Now' = Now
    BY <2>1 DEF clockVars, Now
  <2>4. ClockInv' /\ NotSet' /\ HourInv'
    BY <1>3, <2>1, MarkInv, OtherInv DEF RecordInv, NotSet, clockVars
  <2>5. ClosePart'
    BY <2>2, <2>3 DEF RecordInv, ClosePart
  <2> QED BY <2>2, <2>3, <2>4, <2>5, KeptInv
<1> QED BY <1>1, <1>2, <1>3 DEF RecordNext

\* The invariant holds when the module starts.
LEMMA RecordInitInv == ClockInit /\ RecordInit => RecordInv
<1> SUFFICES ASSUME ClockInit, RecordInit PROVE RecordInv
  OBVIOUS
<1>1. ClockInv /\ NotSet /\ HourInv
  BY InitInv, HourInit DEF ClockInit, NotSet
<1>2. /\ count = 0 /\ closing = 0 /\ ~due /\ ~lagged /\ ~hour
      /\ recordCount = 0 /\ recordData = [i \in 0 .. RecordHours |-> 0]
  BY DEF ClockInit, RecordInit
<1>3. Now \in Nat /\ RecordHours \in Positive /\ ReadEvery \in Positive
  BY <1>1, NowIs, RecordAssumption DEF ClockInv, Types, Positive
<1>4. Newest = 0
  <2>1. (0 + RecordHours - 1) % RecordHours \in 0 .. RecordHours - 1
    BY <1>3, DivMod DEF Positive
  <2>2. (0 + RecordHours - 1) % RecordHours \in 0 .. RecordHours
    BY <1>3, <2>1 DEF Positive
  <2> QED BY <1>2, <2>2 DEF Newest
<1>5. TablePart
  BY <1>2, <1>3, <1>4 DEF TablePart, Positive
<1>6. PacePart
  <2>1. Now % ReadEvery \in 0 .. ReadEvery - 1
    BY <1>3, DivMod
  <2>2. (0 - 1) * ReadEvery = 0 - ReadEvery
    BY <1>3 DEF Positive
  <2> QED BY <1>2, <1>3, <1>4, <2>1, <2>2 DEF PacePart, LastDue, Positive
<1> QED BY <1>1, <1>2, <1>5, <1>6 DEF RecordInv, MarkPart, ClosePart

\* The mark of the hour outlives its window by the round of the thread and is
\* set at every second of it, and yet PowerRecord_StaticsData records an hour
\* once and under its own number: the readings it asks for take longer than the
\* window.  For any clock, pace and window for which they do.
THEOREM HoursRecordedOnce == HourSpec => EachHourOnce
<1>1. RecordInv /\ [RecordNext]_hourVars => RecordInv'
  BY RecordStep
<1>2. RecordInv /\ [RecordNext]_hourVars
        => [recordCount' # recordCount =>
              /\ Newest' > Newest
              /\ Now - Newest' \in 0 .. HourWindow + 1]_hourVars
  BY RecordStep
<1> QED BY <1>1, <1>2, RecordInitInv, PTL DEF HourSpec, EachHourOnce
=============================================================================
