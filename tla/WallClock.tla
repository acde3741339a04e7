----------------------------- MODULE WallClock ------------------------------
(***************************************************************************)
(* What the module promises of its clock: seconds that pass, that are set  *)
(* all at once and read all at once.  A reading during which a second      *)
(* passes gives the one second or the next, or a later time, but none that *)
(* marks an hour; one that overlaps a set gives any time.  The hour is     *)
(* marked when the time read is in the window after a full hour.           *)
(***************************************************************************)
EXTENDS Naturals

CONSTANTS
  Top,      \* the last second
  Window,   \* the seconds after a full hour in which it is marked
  Told      \* the times the module is told

Times == 0 .. Top

VARIABLES
  now,      \* the time
  set,      \* a set is "told", is "taking" the new time, or none is: "done"
  to,       \* the time to set
  may,      \* what a reading under way may give, if there is one
  stamp,    \* the time read last
  hour      \* the hour is marked

wallVars == <<now, set, to, may, stamp, hour>>

WallInit ==
  /\ now \in Times /\ stamp = now
  /\ set = "done" /\ to = 0 /\ may = {} /\ hour = FALSE

\* What a reading gives during which a second passes.
Torn(t) == {t, t + 1} \cup {u \in t .. Top : u \notin Window}

\* The second that begins with a set is a whole one.
SecondPasses ==
  /\ now < Top /\ set # "taking"
  /\ now' = now + 1
  /\ may' = IF may = {now} THEN Torn(now) ELSE may
  /\ UNCHANGED <<set, to, stamp, hour>>

IsTold(t) ==
  /\ set = "done"
  /\ set' = "told" /\ to' = t /\ stamp' = t
  /\ may' = IF may = {} THEN {} ELSE Times
  /\ UNCHANGED <<now, hour>>

Takes ==
  /\ set = "told" /\ set' = "taking"
  /\ now' = to
  /\ UNCHANGED <<to, may, stamp, hour>>

IsSet ==
  /\ set = "taking" /\ set' = "done"
  /\ UNCHANGED <<now, to, may, stamp, hour>>

ReadBegins ==
  /\ may = {} /\ ~hour
  /\ may' = IF set = "done" THEN {now} ELSE Times
  /\ UNCHANGED <<now, set, to, stamp, hour>>

ReadEnds ==
  /\ may # {} /\ may' = {}
  /\ stamp' \in may
  /\ hour' = (stamp' \in Window)
  /\ UNCHANGED <<now, set, to>>

HourTaken ==
  /\ may = {} /\ hour
  /\ hour' = FALSE
  /\ UNCHANGED <<now, set, to, may, stamp>>

WallNext ==
  \/ SecondPasses \/ Takes \/ IsSet
  \/ \E t \in Told : IsTold(t)
  \/ ReadBegins \/ ReadEnds \/ HourTaken

WallSpec == WallInit /\ [][WallNext]_wallVars
=============================================================================
