---------------------------- MODULE RebootTimer ----------------------------
(***************************************************************************)
(* The deferred commands: restart, resynchronise, restore the factory      *)
(* settings.  A thread that accepts one calls Reboot, which writes a code, *)
(* then a countdown, then sets a bit of TimelyCheck, and goes on to answer *)
(* the request.  The 1 s timer counts down while the bit is set; the       *)
(* application thread carries the command out when it finds the bit set    *)
(* and the countdown at zero.  Nothing is locked, and the countdown wraps. *)
(*                                                                         *)
(* Threads: the UDP and the HTTP server, and the application thread, which *)
(* calls its handlers in turn (app) and calls Reboot itself.  The module   *)
(* is completed by FwUpdate and WifiSetup, whose actions the application   *)
(* thread takes at the other values of app.                                *)
(***************************************************************************)
EXTENDS Naturals

CONSTANTS
  Delay,        \* what Reboot writes to RebootCountDown: 5 in the code
  CountMod      \* RebootCountDown is a uint8_t: 256 in the code

ASSUME RebootAssumption ==
  Delay \in Nat \ {0} /\ CountMod \in Nat /\ Delay < CountMod

Servers == {"udp", "http"}
Threads == Servers \cup {"app"}
Codes == 0 .. 2         \* RESTART_CODE, SYNC_DATA_CODE, RESET_CODE
NoCode == 3

VARIABLES
  code,     \* SyncRebootCode
  count,    \* RebootCountDown
  flag,     \* bit 6 of TimelyCheck
  copy,     \* the bit in a copy of TimelyCheck some thread will store back
  at,       \* per thread: "idle", in Reboot before it writes the "count" or
            \* sets the "flag", before the "answer"; "length" in the last packet
            \* of an update; "first" to "third" in SetWifiMode; "tail" before
            \* the second half of a new MAC; before the "erase" or the "write"
            \* of the time zone page
  app,      \* the next handler of the application thread
  polled,   \* pace: the application thread came round since the last tick
  owed,     \* history: the command that was accepted and not carried out
  waited,   \* history: the ticks since the last countdown was written
  alone     \* history: no other request overlapped the one that is pending

rebootVars == <<code, count, flag, at, owed, waited, alone>>
timerVars == <<rebootVars, copy, app, polled>>
exceptAt == <<code, count, flag, owed, waited, alone, copy, app, polled>>

\* "restart" and "act" in RestartPoll, "url", "get" and "got" in
\* UpdateFirmwareAsHttpClient, "mac" in SysTime_GetTime, "image" in
\* UpdateFirmwareAsUdp, "reset" and "reload" in FlashResetFactory.
AppPlaces == {"restart", "act", "url", "get", "got", "mac", "image", "reset",
              "reload"}
Places == {"idle", "count", "flag", "answer", "length", "first", "second",
           "third", "tail", "erase", "write"}
NoCopy == 2

RebootTypeOK ==
  /\ code \in Codes /\ count \in 0 .. CountMod - 1
  /\ flag \in BOOLEAN /\ copy \in {0, 1, NoCopy}
  /\ at \in [Threads -> Places]
  /\ app \in AppPlaces /\ polled \in BOOLEAN
  /\ owed \in 0 .. NoCode /\ waited \in 0 .. Delay /\ alone \in BOOLEAN

RebootInit ==
  /\ code = 0 /\ count = 0 /\ flag = FALSE /\ copy = NoCopy
  /\ at = [t \in Threads |-> "idle"]
  /\ app = "restart" /\ polled = FALSE
  /\ owed = NoCode /\ waited = 0 /\ alone = TRUE

\* RAM after a restart.
RebootBoot ==
  /\ code' = 0 /\ count' = 0 /\ flag' = FALSE /\ copy' = NoCopy
  /\ at' = [t \in Threads |-> "idle"]
  /\ app' = "restart" /\ polled' = FALSE
  /\ owed' = NoCode /\ waited' = 0 /\ alone' = TRUE

Goes(t, place) == at' = [at EXCEPT ![t] = place]
AppAt(place) == app = place /\ at["app"] = "idle"
-----------------------------------------------------------------------------
(* Reboot: three writes *)

InReboot(t) == at[t] \in {"count", "flag"}

\* The first write.  A command that is pending is replaced.
Reboot(t, k) ==
  /\ code' = k
  /\ Goes(t, "count")
  /\ alone' = (~flag /\ app # "act" /\ \A u \in Threads : ~InReboot(u))
  /\ owed' = IF owed = NoCode THEN NoCode ELSE k
  /\ UNCHANGED <<count, flag, waited>>

\* The bit set before the countdown is written.
FlagFirst(t) ==
  /\ at[t] = "count"
  /\ flag' = TRUE
  /\ Goes(t, "flag")
  /\ UNCHANGED <<code, count, owed, waited, alone, copy, app, polled>>

RebootCount(t) ==
  /\ at[t] = "count"
  /\ count' = Delay /\ waited' = 0
  /\ Goes(t, "flag")
  /\ UNCHANGED <<code, flag, owed, alone, copy, app, polled>>

RebootFlag(t) ==
  /\ at[t] = "flag"
  /\ flag' = TRUE /\ owed' = code
  /\ Goes(t, IF t \in Servers THEN "answer" ELSE "idle")
  /\ UNCHANGED <<code, count, waited, alone, copy, app, polled>>

\* UdpRestartMachine or HttpRestartMachine sends its answer.
Answer(t) ==
  /\ at[t] = "answer"
  /\ Goes(t, "idle")
  /\ UNCHANGED <<exceptAt>>

\* RebootSyncDev: op & 3, and 3 is refused.
RebootSyncDev(t, k) ==
  /\ t \in Servers /\ at[t] = "idle" /\ k \in Codes
  /\ Reboot(t, k)
  /\ UNCHANGED <<copy, app, polled>>
-----------------------------------------------------------------------------
(* The timer and the application thread *)

\* A countdown that stops at one.
CountedToOne == IF count > 1 THEN count - 1 ELSE count

\* RebootCountDown-- in eight bits.
CountedDown == (count + CountMod - 1) % CountMod

\* app_timer_callback1.
Tick ==
  /\ count' = IF flag THEN CountedDown ELSE count
  /\ waited' = IF flag /\ waited < Delay THEN waited + 1 ELSE waited
  /\ polled' = FALSE
  /\ UNCHANGED <<code, flag, copy, at, app, owed, alone>>

\* The loop of the application thread takes half a second, except that a
\* download keeps it as long as it likes.
PacedTick == (polled \/ app = "get") /\ Tick

\* The bit taken whatever the countdown is.
PollClears ==
  /\ AppAt("restart")
  /\ polled' = TRUE
  /\ flag' = FALSE /\ app' = (IF flag /\ count = 0 THEN "act" ELSE "url")
  /\ UNCHANGED <<code, count, copy, at, owed, waited, alone>>

\* RestartPoll, up to the command.
RestartPoll ==
  /\ AppAt("restart")
  /\ polled' = TRUE
  /\ IF flag /\ count = 0
       THEN flag' = FALSE /\ app' = "act"
       ELSE app' = "url" /\ UNCHANGED flag
  /\ UNCHANGED <<code, count, copy, at, owed, waited, alone>>

Done(k) == owed' = IF owed = k THEN NoCode ELSE owed

\* SYNC_DATA_CODE: registers, or marks everything to be sent to the server.
SyncData ==
  /\ AppAt("act") /\ code = 1
  /\ app' = "url" /\ Done(1)
  /\ UNCHANGED <<code, count, flag, copy, at, polled, waited, alone>>

\* RESET_CODE: FlashResetFactory begins.
ResetBegins ==
  /\ AppAt("act") /\ code = 2
  /\ app' = "reset" /\ Done(2)
  /\ UNCHANGED <<code, count, flag, copy, at, polled, waited, alone>>

\* RESTART_CODE: AT+Z.
RestartNow == AppAt("act") /\ code = 0

\* TimelyCheck |= or &= in another thread, between its load and its store: the
\* bit 6 it stores may be stale.
LoadWord ==
  /\ copy = NoCopy
  /\ copy' = IF flag THEN 1 ELSE 0
  /\ UNCHANGED <<rebootVars, app, polled>>

StoreWord ==
  /\ copy # NoCopy
  /\ flag' = (copy = 1) /\ copy' = NoCopy
  /\ owed' = IF copy = 0 /\ flag THEN NoCode ELSE owed
  /\ alone' = (alone /\ (flag <=> flag'))
  /\ UNCHANGED <<code, count, at, app, polled, waited>>
-----------------------------------------------------------------------------
(* Properties *)

\* A command that comes alone waits for its countdown, which gives the server
\* the time to answer it: the bit is the last of the three writes.
NotEarly == app = "act" /\ alone => waited >= Delay

\* A command that was accepted, or the one that replaced it, is never lost on
\* the way: its code stays as it is and its bit set until the application
\* thread has taken it, whoever else is between the three writes of Reboot.
AcceptedPends == owed # NoCode => code = owed /\ (flag \/ app = "act")

\* A command that was accepted is carried out, or the one that replaced it: the
\* countdown may wrap while a download keeps the application thread, but comes
\* to zero again.  A stale store of the word may drop it.
AcceptedRuns == owed # NoCode ~> owed = NoCode
=============================================================================
