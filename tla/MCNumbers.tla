----------------------------- MODULE MCNumbers -----------------------------
(***************************************************************************)
(* Three scenes: the packing loops of the code in every order of packings, *)
(* the clock from every moment, read and set, and the readings of hours.   *)
(***************************************************************************)
EXTENDS PackLoops, HourRecord

\* Eleven seconds, so that BCD matters, two minutes, three hours.
MCBases == <<11, 2, 3>>
MCTargets == {10, 21, 32}

\* Bound: some time after the second of these hours.
Evening == 54

VARIABLE scene

vars == <<packVars, hourVars, scene>>

NoTime == stamp = 0 /\ sets = 0
NotTold == ~told
\* Two full hours; one for a strip that was never told the time.
FewHours == stamp = (IF told THEN 8 ELSE 34) /\ sets = 0

Init ==
  /\ PackInit /\ ClockInit /\ RecordInit
  /\ \/ scene = "pack" /\ NoTime /\ NotTold
     \/ scene = "clock" /\ NotTold
     \/ scene = "hour" /\ FewHours

Next ==
  \/ scene = "pack" /\ PackNext /\ UNCHANGED <<hourVars, scene>>
  \/ /\ scene = "clock"
     /\ ClockNext
     /\ UNCHANGED <<packVars, recordVars, scene>>
  \/ /\ scene = "hour"
     /\ RecordNext /\ Now' <= Evening
     /\ UNCHANGED <<packVars, scene>>

Spec == Init /\ [][Next]_vars
=============================================================================
