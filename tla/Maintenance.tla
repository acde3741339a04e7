---------------------------- MODULE Maintenance ----------------------------
(***************************************************************************)
(* The deferred commands, the firmware update and the set-up commands      *)
(* together.  They share the application thread, the UDP thread, the one   *)
(* countdown to a restart, and the restart itself.                         *)
(***************************************************************************)
EXTENDS FwUpdate, WifiSetup

CONSTANT Budgets    \* bounds: how many inputs of each kind come

Inputs == {"defer", "sta", "ap", "fail", "mac", "zone", "word", "power",
           "update", "loss", "bad", "again", "early", "url"}

ASSUME BudgetAssumption == Budgets \subseteq [Inputs -> Nat]

VARIABLE left

vars == <<timerVars, fwVars, wifiVars, left>>

Spend(what) == left[what] > 0 /\ left' = [left EXCEPT ![what] = @ - 1]

TypeOK == /\ RebootTypeOK /\ FwTypeOK /\ WifiTypeOK
          /\ left \in [Inputs -> Nat]

Init ==
  /\ RebootInit /\ FwInit /\ WifiInit
  /\ left \in Budgets
  /\ turn = IF left["update"] > 0 THEN 1 ELSE Gone
-----------------------------------------------------------------------------
OfTimer == UNCHANGED <<fwVars, wifiVars>>
OfUpdate == UNCHANGED wifiVars
OfWifi == UNCHANGED fwVars

Boots == RebootBoot /\ FwBoot

\* AT+Z, and the end of a factory reset.
Restarts ==
  /\ RestartNow
  /\ Boots /\ WifiBoot(conf, FALSE) /\ UNCHANGED <<accepted, left>>

Reloads ==
  /\ AppAt("reload")
  /\ Boots /\ ReloadBoot /\ UNCHANGED left

PowerFails ==
  /\ Spend("power")
  /\ Boots /\ WifiBoot(conf, FALSE) /\ UNCHANGED accepted

\* Requests.
Deferred == \E t \in Servers, k \in Codes : RebootSyncDev(t, k)
WifiAsked(m) == \E t \in Servers, n \in Networks : SetWifiMode(t, m, n)
MacAsked == \E t \in Servers, m \in Macs \ {0} : ModifyMac(t, m)

Asked ==
  \/ Spend("defer") /\ Deferred /\ OfTimer
  \/ Spend("sta") /\ WifiAsked("STA") /\ OfWifi
  \/ Spend("ap") /\ WifiAsked("AP") /\ OfWifi
  \/ Spend("mac") /\ MacAsked /\ OfWifi
  \/ Spend("zone") /\ ZoneChanges /\ OfWifi
  \/ Spend("url") /\ SetUpdateUrl /\ OfUpdate

\* Spoilt and doubled blocks, AT commands that fail, stale stores, and the
\* network and the sender at their worst.
Spoilt == \/ FirstBlock(FALSE, FALSE)
          \/ \E n \in Blocks : LaterBlock(n, FALSE, FALSE)
Doubled == \/ FirstBlock(TRUE, TRUE) \/ LastPacket(TRUE)
           \/ \E n \in Blocks : LaterBlock(n, TRUE, TRUE)
Refused == MacRefused \/ \E t \in Servers : WifiRefused(t)

Faults ==
  \/ Spend("loss") /\ Loses /\ OfUpdate
  \/ Spend("early") /\ SendsEarly /\ OfUpdate
  \/ Spend("bad") /\ Spoilt /\ OfUpdate
  \/ Spend("again") /\ Doubled /\ OfUpdate
  \/ Spend("fail") /\ Refused /\ OfWifi
  \/ Spend("word") /\ LoadWord /\ OfTimer

\* What a thread does of itself.  The application thread calls its handlers in
\* turn; a server finishes the request it works on.
Writes(t) ==
  \/ (RebootCount(t) \/ RebootFlag(t)) /\ OfTimer
  \/ (ErasePage(t) \/ WritePage(t)) /\ OfWifi

App ==
  \/ Writes("app") /\ UNCHANGED left
  \/ (RestartPoll \/ SyncData \/ ResetBegins) /\ OfTimer /\ UNCHANGED left
  \/ FwApp /\ OfUpdate /\ UNCHANGED left
  \/ (ResetMarks \/ ModifyDevMac \/ MacSet) /\ OfWifi /\ UNCHANGED left
  \/ Restarts \/ Reloads

Server(t) ==
  \/ Writes(t)
  \/ Answer(t) /\ OfTimer
  \/ (WifiCommand(t) \/ WifiAccepted(t) \/ ModifyMacTail(t)) /\ OfWifi
  \/ t = "udp" /\ LastLength /\ OfUpdate

Block == FirstBlock(TRUE, FALSE) \/ \E n \in Blocks : LaterBlock(n, TRUE, FALSE)

\* The UDP thread takes a packet; the sender sends one or takes an answer.
Receive == (Block \/ LastPacket(FALSE)) /\ OfUpdate /\ UNCHANGED left
Sender == (Sends \/ Acked) /\ OfUpdate /\ UNCHANGED left
Serve(t) == Server(t) /\ UNCHANGED left
Stores == StoreWord /\ OfTimer /\ UNCHANGED left
Clock == PacedTick /\ OfTimer /\ UNCHANGED left

Next == \/ App \/ Receive \/ Sender \/ Stores \/ Clock
        \/ Asked \/ Faults \/ PowerFails
        \/ \E t \in Servers : Serve(t)

Spec == Init /\ [][Next]_vars

\* The threads run, the timer ticks, the sender does not give up.
Fairness ==
  /\ WF_vars(App) /\ WF_vars(Clock) /\ WF_vars(Stores)
  /\ \A t \in Servers : WF_vars(Serve(t))
  /\ WF_vars(Receive) /\ WF_vars(Sender)

FairSpec == Spec /\ Fairness
=============================================================================
