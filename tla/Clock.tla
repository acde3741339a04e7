------------------------------- MODULE Clock -------------------------------
(***************************************************************************)
(* The real time clock.  The DS1302 (external) counts on its own and holds *)
(* a register for each of second, minute, hour and so on, in BCD.  The     *)
(* application thread reads them one after the other once a second,        *)
(* get_rtctime; the UDP thread writes them one after the other when it is  *)
(* told the time, set_rtctime.  Only a register at a time is safe from the *)
(* other threads (hfthread_suspend_all), and the chip goes on in between.  *)
(*                                                                         *)
(* A register here runs to its base, the registers together to a number of *)
(* seconds.  The date registers are like the others; that their bases vary *)
(* is abstracted from.                                                     *)
(***************************************************************************)
EXTENDS Naturals, Sequences

CONSTANTS
  Bases,      \* of the registers, the seconds first
  Targets,    \* times the module is told
  HourWindow  \* the seconds after the hour in which it is marked: 5

F == Len(Bases)
Fields == 1 .. F
Secs == 1
Mins == 2

ASSUME ClockAssumption ==
  /\ Bases \in Seq(2 .. 100) /\ Mins <= F
  /\ HourWindow \in 1 .. Bases[Secs] - 1

Weight[f \in Fields] == IF f = 1 THEN 1 ELSE Weight[f - 1] * Bases[f - 1]
Top == Weight[F] * Bases[F] - 1
Moments == 0 .. Top
Digit(t, f) == (t \div Weight[f]) % Bases[f]
Digits(t) == [f \in Fields |-> Digit(t, f)]
Value(d) ==
  LET upTo[f \in Fields] ==
        d[f] * Weight[f] + (IF f = 1 THEN 0 ELSE upTo[f - 1])
  IN  upTo[F]

ASSUME TargetAssumption == Targets \subseteq Moments

VARIABLES
  chip,     \* external: the registers, in BCD
  fresh,    \* external: a set under way has written the seconds
  tm,       \* DevTimeObj.NowTimeTm, which get_rtctime fills in
  stamp,    \* DevTimeObj.CurTimeSec
  reading,  \* the register get_rtctime reads next, or 0
  setting,  \* the register set_rtctime writes next, or 0
  target,   \* the time it writes
  hour,     \* bit 9 of TimelyCheck: the hour is over
  sets,     \* bound: times still told
  began,    \* history: the time of the chip when the read began
  ticked,   \* history, and pace: the chip ticked since the read began
  mixed     \* history: a set overlapped the read

clockVars == <<chip, fresh, tm, stamp, reading, setting, target, hour, sets,
               began, ticked, mixed>>

\* num2hex, and what Readbyte makes of a register with sprintf and atoi.
Bcd(n) == (n \div 10) * 16 + (n % 10)
FromBcd(b) == (b \div 16) * 10 + (b % 16)
Chip(t) == [f \in Fields |-> Bcd(Digit(t, f))]
Now == Value([f \in Fields |-> FromBcd(chip[f])])

ClockType ==
  /\ chip \in [Fields -> 0 .. 255] /\ Chip(Now) = chip
  /\ tm \in [Fields -> Nat] /\ Digits(Value(tm)) = tm
  /\ stamp \in Moments /\ target \in Moments /\ began \in Moments
  /\ reading \in 0 .. F + 1 /\ setting \in 0 .. F
  /\ fresh \in BOOLEAN /\ hour \in BOOLEAN
  /\ ticked \in BOOLEAN /\ mixed \in BOOLEAN
  /\ sets \in 0 .. 1

ClockInit ==
  /\ \E t \in Moments :
       chip = Chip(t) /\ tm = Digits(t) /\ stamp = t /\ began = t
  /\ reading = 0 /\ setting = 0 /\ target = 0 /\ fresh = FALSE
  /\ hour = FALSE /\ ticked = FALSE /\ mixed = FALSE /\ sets \in {0, 1}
-----------------------------------------------------------------------------
\* Neither a read nor a set takes a second, and the chip counts a whole second
\* from the writing of its seconds.
ChipTicks ==
  /\ Now < Top
  /\ reading # 0 => ~ticked
  /\ ~fresh
  /\ chip' = Chip(Now + 1)
  /\ ticked' = TRUE
  /\ UNCHANGED <<fresh, tm, stamp, reading, setting, target, hour, sets, began,
                 mixed>>

\* SysTime_GetTime: get_rtctime begins.  PowerRecord_StaticsData comes before it
\* in the loop and has taken the mark of the last hour away.
ReadBegins ==
  /\ reading = 0 /\ ~hour
  /\ reading' = Secs
  /\ began' = Now /\ ticked' = FALSE /\ mixed' = (setting # 0)
  /\ UNCHANGED <<chip, fresh, tm, stamp, setting, target, hour, sets>>

\* The registers from the last to the first.
ReadFromTop ==
  LET f == F + 1 - reading
  IN  /\ reading \in Fields
      /\ tm' = [tm EXCEPT ![f] = FromBcd(chip[f])]
      /\ reading' = reading + 1
      /\ UNCHANGED <<chip, fresh, stamp, setting, target, hour, sets, began,
                     ticked, mixed>>

Readbyte ==
  /\ reading \in Fields
  /\ tm' = [tm EXCEPT ![reading] = FromBcd(chip[reading])]
  /\ reading' = reading + 1
  /\ UNCHANGED <<chip, fresh, stamp, setting, target, hour, sets, began, ticked,
                 mixed>>

\* The window looked for at the end of the hour too.
HourIsNear(t) == t[Mins] \in {0, Bases[Mins] - 1} /\ t[Secs] < HourWindow

HourIsOver(t) == t[Mins] = 0 /\ t[Secs] < HourWindow

\* mktime, and the mark.
ReadEnds ==
  /\ reading = F + 1
  /\ stamp' = Value(tm)
  /\ hour' = HourIsOver(tm)
  /\ reading' = 0
  /\ UNCHANGED <<chip, fresh, tm, setting, target, sets, began, ticked, mixed>>

\* SetCurTime up to set_rtctime.
SetCurTime(t) ==
  /\ setting = 0 /\ sets > 0 /\ sets' = sets - 1
  /\ stamp' = t /\ tm' = Digits(t)
  /\ target' = t /\ setting' = Secs /\ mixed' = TRUE
  /\ UNCHANGED <<chip, fresh, reading, hour, began, ticked>>

Write(f, byte) ==
  /\ setting # 0
  /\ chip' = [chip EXCEPT ![f] = byte]
  /\ setting' = IF setting = F THEN 0 ELSE setting + 1
  /\ fresh' = (setting # F /\ (f = Secs \/ fresh))
  /\ mixed' = TRUE
  /\ UNCHANGED <<tm, stamp, reading, target, hour, sets, began, ticked>>

\* The seconds written last.
WriteFromTop == LET f == F + 1 - setting IN Write(f, Bcd(Digit(target, f)))

\* A register as it is, not in BCD.
WriteBinary == Write(setting, Digit(target, setting))

\* set_rtctime.
Writebyte == Write(setting, Bcd(Digit(target, setting)))

\* PowerRecord_StaticsData takes the mark away; HourRecord says what it does.
HourTaken ==
  /\ reading = 0 /\ hour
  /\ hour' = FALSE
  /\ UNCHANGED <<chip, fresh, tm, stamp, reading, setting, target, sets, began,
                 ticked, mixed>>

ClockNext ==
  \/ HourTaken
  \/ ChipTicks \/ ReadBegins \/ Readbyte \/ ReadEnds
  \/ \E t \in Targets : SetCurTime(t)
  \/ Writebyte

ClockSpec == ClockInit /\ [][ClockNext]_clockVars
-----------------------------------------------------------------------------
(* Properties *)

Read == reading = 0 /\ ~mixed

\* A reading is never behind the time at which it began, though the chip may
\* carry between two registers, and exact if it did not tick: the seconds are
\* read first.  It may be ahead, by as much as a whole unit of a register.
NeverBehind == Read => stamp >= began /\ (~ticked => stamp = began)

\* The hour is marked only within the window after the full hour, also when the
\* chip carries while it is read.
InWindow(t) == Digit(t, Mins) = 0 /\ Digit(t, Secs) < HourWindow
HourMarkTrue ==
  Read /\ hour => InWindow(began) \/ (ticked /\ InWindow(began + 1))

\* The time told is the time of the chip, though it runs while its registers are
\* written: no carry comes between, because the seconds are written first.
SetTakes == [][setting = F /\ setting' = 0 => Now' = target]_clockVars

\* The time as the chip will go on from it: a set takes with its first register.
TimeIs == IF setting > Secs THEN target ELSE Now
SetIs == IF setting = 0 THEN "done"
         ELSE IF setting = Secs THEN "told" ELSE "taking"
MayRead ==
  IF reading = 0 THEN {}
  ELSE IF mixed THEN Moments
  ELSE IF ticked THEN {began, began + 1} \cup
                      {t \in Moments : t >= began /\ ~InWindow(t)}
  ELSE {began}

Wall == INSTANCE WallClock WITH
  Window <- {t \in Moments : InWindow(t)}, Told <- Targets,
  now <- TimeIs, set <- SetIs, to <- target, may <- MayRead

\* Registers read and written one by one, while the chip runs, are a clock that
\* is read and set at once.
ClockIsWallClock == Wall!WallSpec
=============================================================================
