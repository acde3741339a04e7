----------------------------- MODULE HourRecord -----------------------------
(***************************************************************************)
(* The energy of an hour.  The receive callback adds every reading of the  *)
(* slave, one in two seconds, to a sum per port and counts it.  The        *)
(* application thread, when the clock has marked the end of an hour,       *)
(* divides sum by count, port by port, starts both again from nothing and  *)
(* keeps the means with the hour they are of.  Nothing keeps the callback  *)
(* from coming in between, and an hour is marked at every second of a      *)
(* window: the count of readings must keep it from being recorded twice.   *)
(*                                                                         *)
(* A reading is a unit here: a sum is the number of readings in it.        *)
(***************************************************************************)
EXTENDS Clock

CONSTANTS
  Sockets,      \* the number of ports: PORT_NUM
  MinReadings,  \* an hour has so many readings: 10
  ReadEvery,    \* seconds from a reading to the next: 2
  Ahead,        \* how much before its end an hour counts as over: 100
  RecordHours   \* RECORD_HOURS

ASSUME RecordAssumption ==
  /\ 3 \in Fields
  /\ {Sockets, MinReadings, ReadEvery, RecordHours} \subseteq Nat \ {0}
  /\ Ahead \in Nat /\ HourWindow + Ahead <= Weight[3]
  /\ HourWindow + 1 < (MinReadings - 1) * ReadEvery

VARIABLES
  sums,         \* TempPowerStaticsSum
  count,        \* readPowerCount
  means,        \* iStatisticsPara: readings in the sum, and the divisor
  closing,      \* the port PowerRecord_StaticsData divides next, or 0
  nowTimeStack, \* the hour it records
  told,         \* isCalibrateTime
  recordCount,  \* devOffLineData.recordCount
  recordData,   \* devOffLineData.recordData: the hours
  due,          \* pace: the slave has a reading that was not taken
  lagged        \* pace: the chip ticked since the hour was marked

recordVars == <<sums, count, means, closing, nowTimeStack, told, recordCount,
                recordData, due, lagged>>
hourVars == <<clockVars, recordVars>>

Hour == Weight[3]
PortIds == 1 .. Sockets

RecordInit ==
  /\ sums = [p \in PortIds |-> 0] /\ count = 0
  /\ means = [p \in PortIds |-> <<0, 0>>] /\ closing = 0 /\ nowTimeStack = 0
  /\ told \in BOOLEAN
  /\ recordCount = 0 /\ recordData = [i \in 0 .. RecordHours |-> 0]
  /\ due = FALSE /\ lagged = FALSE
-----------------------------------------------------------------------------
\* getPortData: the callback comes whatever the application thread does.
getPortData ==
  /\ due /\ due' = FALSE
  /\ sums' = [p \in PortIds |-> sums[p] + 1]
  /\ count' = count + 1
  /\ UNCHANGED <<means, closing, nowTimeStack, told, recordCount, recordData,
                 lagged, clockVars>>

\* An hour marked is an hour recorded, however few readings it has.
AnyReadings == TRUE

EnoughReadings == count >= MinReadings

RoundedHour(now) == (now + Ahead) - ((now + Ahead) % Hour)

\* PowerRecord_StaticsData up to the division.
CloseBegins ==
  /\ closing = 0 /\ HourTaken
  /\ lagged' = FALSE
  /\ IF EnoughReadings
       THEN closing' = 1 /\ nowTimeStack' = RoundedHour(stamp)
       ELSE UNCHANGED <<closing, nowTimeStack>>
  /\ UNCHANGED <<sums, count, means, told, recordCount, recordData, due>>

Divided(p) == means' = [means EXCEPT ![p] = <<sums[p], count>>]

\* A port's sum goes on from hour to hour.
CloseKeepsSum ==
  /\ closing \in PortIds
  /\ Divided(closing)
  /\ closing' = closing + 1
  /\ UNCHANGED <<sums, count, nowTimeStack, told, recordCount, recordData, due,
                 lagged, clockVars>>

ClosePort ==
  /\ closing \in PortIds
  /\ Divided(closing) /\ sums' = [sums EXCEPT ![closing] = 0]
  /\ closing' = closing + 1
  /\ UNCHANGED <<count, nowTimeStack, told, recordCount, recordData, due,
                 lagged, clockVars>>

\* readPowerCount = 0, and the record.  (WIFI_WORK_NORMAL is never set: the
\* means go to the records of the time without a network.)
CloseEnds ==
  /\ closing = Sockets + 1
  /\ count' = 0 /\ closing' = 0
  /\ IF told
       THEN /\ recordData' = [recordData EXCEPT ![recordCount] = nowTimeStack]
            /\ recordCount' = (recordCount + 1) % RecordHours
       ELSE UNCHANGED <<recordData, recordCount>>
  /\ UNCHANGED <<sums, means, nowTimeStack, told, due, lagged, clockVars>>

\* A reading is there within the second, the thread comes round within two of a
\* mark, and a closing takes less than one.
SecondPasses ==
  /\ ~due /\ closing = 0 /\ ~(hour /\ lagged)
  /\ ChipTicks
  /\ due' = (Now' % ReadEvery = 0)
  /\ lagged' = hour
  /\ UNCHANGED <<sums, count, means, closing, nowTimeStack, told, recordCount,
                 recordData>>

SysTime_GetTime ==
  /\ closing = 0
  /\ ReadBegins \/ Readbyte \/ ReadEnds
  /\ UNCHANGED recordVars

RecordNext ==
  \/ getPortData \/ CloseBegins \/ ClosePort \/ CloseEnds
  \/ SecondPasses \/ SysTime_GetTime

HourSpec == ClockInit /\ RecordInit /\ [][RecordNext]_hourVars
-----------------------------------------------------------------------------
(* Properties *)

\* No reading is lost, and none counts in two hours, except that one that comes
\* between two divisions is in the next sum of the ports divided before, where
\* it is not counted: the mean of an hour has at most one reading too many.
ReadingsAreCounted ==
  \A p \in PortIds :
    /\ sums[p] - (IF p < closing THEN 0 ELSE count) \in {0, 1}
    /\ means[p][1] - means[p][2] \in {0, 1}

Newest == recordData[(recordCount + RecordHours - 1) % RecordHours]

\* An hour is recorded once, although it is marked at every second of a window
\* and the mark outlives the window: under the hour that is just over.
EachHourOnce ==
  [][recordCount' # recordCount =>
       Newest' > Newest /\ Now - Newest' \in 0 .. HourWindow + 1]_hourVars
=============================================================================
