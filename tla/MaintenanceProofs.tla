------------------------- MODULE MaintenanceProofs -------------------------
(***************************************************************************)
(* Proofs about Maintenance, for every Delay, countdown width, image,      *)
(* set of networks and number of inputs.  The three parts of the module    *)
(* share the threads' places (at, app) and nothing else of their           *)
(* invariants, so each has an inductive invariant of its own; what a step  *)
(* of the other parts does to it is said once, in a lemma on all steps.    *)
(***************************************************************************)
EXTENDS Maintenance, TLAPS

(* The actions, by the part they belong to *)

TimerActs ==
  \/ \E t \in Threads : RebootCount(t) \/ RebootFlag(t)
  \/ \E t \in Servers : Answer(t)
  \/ \E t \in Servers, k \in Codes : RebootSyncDev(t, k)
  \/ RestartPoll \/ SyncData \/ ResetBegins \/ Tick \/ LoadWord \/ StoreWord

FwActs ==
  \/ FwApp
  \/ Sends \/ SendsEarly \/ Acked \/ Loses
  \/ \E good, again \in BOOLEAN : FirstBlock(good, again)
  \/ \E n \in Blocks, good, again \in BOOLEAN : LaterBlock(n, good, again)
  \/ \E again \in BOOLEAN : LastPacket(again)
  \/ LastLength \/ SetUpdateUrl

WifiActs ==
  \/ \E t \in Servers, m \in Modes, n \in Networks : SetWifiMode(t, m, n)
  \/ \E t \in Servers : WifiCommand(t) \/ WifiAccepted(t) \/ WifiRefused(t)
  \/ ZoneChanges \/ ResetMarks
  \/ \E t \in Threads : ErasePage(t) \/ WritePage(t)
  \/ \E t \in Servers, m \in Macs \ {0} : ModifyMac(t, m)
  \/ \E t \in Servers : ModifyMacTail(t)
  \/ ModifyDevMac \/ MacRefused \/ MacSet

BootActs ==
  /\ Boots
  /\ \/ WifiBoot(conf, FALSE) /\ UNCHANGED accepted
     \/ AppAt("reload") /\ ReloadBoot

Parts ==
  \/ TimerActs /\ OfTimer
  \/ FwActs /\ OfUpdate
  \/ WifiActs /\ OfWifi
  \/ BootActs

LEMMA NextParts == Next => Parts
<1> SUFFICES ASSUME Next PROVE Parts
  OBVIOUS
<1>1. CASE App
  BY <1>1 DEF App, Writes, Restarts, Reloads, Threads, Parts, TimerActs,
              FwActs, WifiActs, BootActs
<1>2. CASE Receive \/ Sender
  BY <1>2 DEF Receive, Sender, Block, Parts, FwActs
<1>3. CASE Stores \/ Clock
  BY <1>3 DEF Stores, Clock, PacedTick, Parts, TimerActs
<1>4. CASE Asked
  BY <1>4 DEF Asked, Deferred, WifiAsked, MacAsked, Parts, TimerActs,
              FwActs, WifiActs, Modes
<1>5. CASE Faults
  BY <1>5 DEF Faults, Spoilt, Doubled, Refused, Parts, TimerActs, FwActs,
              WifiActs
<1>6. CASE PowerFails
  BY <1>6 DEF PowerFails, Parts, BootActs
<1>7. CASE \E t \in Servers : Serve(t)
  <2>1. PICK t \in Servers : Server(t)
    BY <1>7 DEF Serve
  <2> QED
    BY <2>1 DEF Server, Writes, Threads, Parts, TimerActs, FwActs, WifiActs
<1> QED
  BY <1>1, <1>2, <1>3, <1>4, <1>5, <1>6, <1>7 DEF Next

-----------------------------------------------------------------------------
(* The timer *)

\* A thread moves about outside Reboot.
QuietStep ==
  /\ UNCHANGED <<code, count, flag, owed, waited, alone, copy>>
  /\ polled' \in BOOLEAN
  /\ app' \in AppPlaces /\ (app' = "act" <=> app = "act")
  /\ at' \in [Threads -> Places]
  /\ \A t \in Threads : at'[t] \in {"count", "flag"} => at'[t] = at[t]
  /\ \A t \in Threads : InReboot(t) => at'[t] = at[t]

\* A thread calls Reboot.
CallsReboot ==
  /\ \E t \in Threads, k \in Codes : Reboot(t, k) /\ ~InReboot(t)
  /\ app' \in AppPlaces /\ (app' = "act" <=> app = "act")
  /\ UNCHANGED <<copy, polled>>

TimerStep ==
  \/ QuietStep \/ CallsReboot \/ RebootBoot
  \/ \E t \in Threads : RebootCount(t) \/ RebootFlag(t)
  \/ Tick \/ RestartPoll \/ LoadWord \/ StoreWord
  \/ SyncData \/ ResetBegins

\* Whoever is in Reboot alone has found no command pending, and what is pending
\* has as many ticks to go as it has not waited.
TimerInv ==
  alone =>
    /\ \A t, u \in Threads : InReboot(t) /\ InReboot(u) => t = u
    /\ \A t \in Threads : InReboot(t) => ~flag /\ app # "act"
    /\ \A t \in Threads : at[t] = "flag" => count = Delay /\ waited = 0
    /\ (flag /\ waited < Delay) => count = Delay - waited
    /\ app = "act" => waited >= Delay

LEMMA TimerInit == Init => RebootTypeOK /\ TimerInv
<1> SUFFICES ASSUME RebootInit PROVE RebootTypeOK /\ TimerInv
  BY DEF Init
<1>1. at \in [Threads -> Places]
  BY DEF RebootInit, Places
<1>2. RebootTypeOK
  <2>1. code \in Codes /\ count \in 0 .. CountMod - 1
    BY RebootAssumption DEF RebootInit, Codes
  <2>2. flag \in BOOLEAN /\ polled \in BOOLEAN /\ alone \in BOOLEAN
    BY DEF RebootInit
  <2>3. copy \in {0, 1, NoCopy} /\ app \in AppPlaces
    BY DEF RebootInit, NoCopy, AppPlaces
  <2>4. owed \in 0 .. NoCode /\ waited \in 0 .. Delay
    BY RebootAssumption DEF RebootInit, NoCode
  <2> QED BY <1>1, <2>1, <2>2, <2>3, <2>4 DEF RebootTypeOK
<1>3. \A t \in Threads : ~InReboot(t)
  BY DEF RebootInit, InReboot
<1>4. TimerInv
  BY <1>3 DEF RebootInit, TimerInv, InReboot
<1> QED BY <1>2, <1>4

LEMMA TimerKept ==
  ASSUME RebootTypeOK, TimerInv, TimerStep
  PROVE  RebootTypeOK' /\ TimerInv'
<1> USE RebootAssumption
    DEF RebootTypeOK, Codes, NoCode, NoCopy, AppPlaces, Places
<1>1. CASE QuietStep
  BY <1>1 DEF QuietStep, TimerInv, InReboot
<1>2. CASE CallsReboot
  <2>1. PICK t \in Threads, k \in Codes : Reboot(t, k) /\ ~InReboot(t)
    BY <1>2 DEF CallsReboot
  <2>2. RebootTypeOK'
    BY <1>2, <2>1 DEF CallsReboot, Reboot, Goes
  <2>3. TimerInv'
    BY <1>2, <2>1 DEF CallsReboot, Reboot, Goes, TimerInv, InReboot
  <2> QED BY <2>2, <2>3
<1>3. CASE RebootBoot
  <2>1. \A t \in Threads : at'[t] = "idle"
    BY <1>3 DEF RebootBoot
  <2>2. at' \in [Threads -> Places]
    BY <1>3 DEF RebootBoot
  <2>3. RebootTypeOK'
    <3>1. code' \in Codes /\ count' \in 0 .. CountMod - 1
      BY <1>3 DEF RebootBoot
    <3>2. flag' \in BOOLEAN /\ polled' \in BOOLEAN /\ alone' \in BOOLEAN
      BY <1>3 DEF RebootBoot
    <3>3. copy' \in {0, 1, NoCopy}
      BY <1>3 DEF RebootBoot
    <3>4. app' \in AppPlaces
      BY <1>3 DEF RebootBoot
    <3>5. owed' \in 0 .. NoCode /\ waited' \in 0 .. Delay
      BY <1>3 DEF RebootBoot
    <3> QED BY <2>2, <3>1, <3>2, <3>3, <3>4, <3>5
  <2>4. TimerInv'
    BY <1>3, <2>1 DEF RebootBoot, TimerInv, InReboot
  <2> QED BY <2>3, <2>4
<1>4. CASE \E t \in Threads : RebootCount(t)
  <2>1. PICK t \in Threads : RebootCount(t)
    BY <1>4
  <2>2. RebootTypeOK'
    BY <2>1 DEF RebootCount, Goes
  <2>3. TimerInv'
    BY <2>1 DEF RebootCount, Goes, TimerInv, InReboot
  <2> QED BY <2>2, <2>3
<1>5. CASE \E t \in Threads : RebootFlag(t)
  <2>1. PICK t \in Threads : RebootFlag(t)
    BY <1>5
  <2>2. RebootTypeOK'
    BY <2>1 DEF RebootFlag, Goes, Servers
  <2>3. TimerInv'
    BY <2>1 DEF RebootFlag, Goes, TimerInv, InReboot, Servers
  <2> QED BY <2>2, <2>3
<1>6. CASE Tick
  <2>1. CountedDown \in 0 .. CountMod - 1
    BY DEF CountedDown
  <2>2. count \in 1 .. CountMod - 1 => CountedDown = count - 1
    <3>1. SUFFICES ASSUME count \in 1 .. CountMod - 1
                   PROVE  CountedDown = count - 1
      OBVIOUS
    <3>2. count + CountMod - 1 = (count - 1) + 1 * CountMod
      BY <3>1
    <3> QED BY <3>1, <3>2, SMTT(30) DEF CountedDown
  <2>3. RebootTypeOK'
    <3>1. count' \in 0 .. CountMod - 1
      BY <1>6, <2>1 DEF Tick
    <3>2. waited' \in 0 .. Delay
      BY <1>6 DEF Tick
    <3> QED BY <1>6, <3>1, <3>2 DEF Tick
  <2>4. TimerInv'
    BY <1>6, <2>2 DEF Tick, TimerInv, InReboot
  <2> QED BY <2>3, <2>4
<1>7. CASE RestartPoll
  <2>1. RebootTypeOK'
    BY <1>7 DEF RestartPoll
  <2>2. TimerInv'
    BY <1>7 DEF RestartPoll, AppAt, TimerInv, InReboot
  <2> QED BY <2>1, <2>2
<1>8. CASE LoadWord
  BY <1>8 DEF LoadWord, rebootVars, TimerInv, InReboot
<1>9. CASE StoreWord
  BY <1>9 DEF StoreWord, TimerInv, InReboot
<1>10. CASE SyncData \/ ResetBegins
  BY <1>10 DEF SyncData, ResetBegins, Done, AppAt, TimerInv, InReboot
<1> QED
  BY <1>1, <1>2, <1>3, <1>4, <1>5, <1>6, <1>7, <1>8, <1>9, <1>10
     DEF TimerStep

LEMMA PendsKept ==
  ASSUME RebootTypeOK, AcceptedPends, TimerStep
  PROVE  AcceptedPends'
<1> USE DEF RebootTypeOK, AcceptedPends, Codes, NoCode
<1>1. CASE QuietStep \/ LoadWord \/ Tick
  BY <1>1 DEF QuietStep, LoadWord, Tick, rebootVars
<1>2. CASE CallsReboot
  BY <1>2 DEF CallsReboot, Reboot
<1>3. CASE RebootBoot
  BY <1>3 DEF RebootBoot
<1>4. CASE \E t \in Threads : RebootCount(t) \/ RebootFlag(t)
  BY <1>4 DEF RebootCount, RebootFlag
<1>5. CASE RestartPoll
  BY <1>5 DEF RestartPoll, AppAt
<1>6. CASE StoreWord
  BY <1>6 DEF StoreWord, NoCopy
<1>7. CASE SyncData \/ ResetBegins
  BY <1>7 DEF SyncData, ResetBegins, Done, AppAt
<1> QED
  BY <1>1, <1>2, <1>3, <1>4, <1>5, <1>6, <1>7 DEF TimerStep

\* Every step is one of these for the timer.
LEMMA TimerSteps ==
  ASSUME RebootTypeOK, WritingPage("app") => app = "reset",
         Next \/ UNCHANGED vars
  PROVE  TimerStep
<1> USE DEF RebootTypeOK, AppPlaces, Places, Threads, Servers
<1>1. CASE UNCHANGED vars
  BY <1>1 DEF vars, timerVars, rebootVars, QuietStep, TimerStep
<1>2. CASE TimerActs
  <2>1. CASE \E t \in Servers : Answer(t)
    <3>1. QuietStep
      BY <2>1 DEF Answer, Goes, exceptAt, QuietStep, InReboot
    <3> QED BY <3>1 DEF TimerStep
  <2>2. CASE \E t \in Servers, k \in Codes : RebootSyncDev(t, k)
    <3>1. CallsReboot
      BY <2>2 DEF RebootSyncDev, CallsReboot, InReboot
    <3> QED BY <3>1 DEF TimerStep
  <2> QED BY <1>2, <2>1, <2>2 DEF TimerActs, TimerStep
<1>3. CASE FwActs
  <2>1. CASE FwApp
    <3>1. QuietStep \/ CallsReboot
      <4>1. CASE UpdateFirmwareAsUdp
        BY <4>1 DEF UpdateFirmwareAsUdp, AppAt, AppGoes, QuietStep, CallsReboot,
                    InReboot, rebootVars, Codes
      <4>2. CASE UrlBegins \/ GetFails \/ UrlEnds
        BY <4>2 DEF UrlBegins, GetFails, UrlEnds, AppAt, AppGoes, QuietStep,
                    rebootVars
      <4>3. CASE GetPiece
        BY <4>3 DEF GetPiece, QuietStep, timerVars, rebootVars
      <4>4. CASE GetEnds
        BY <4>4 DEF GetEnds, AppAt, AppGoes, QuietStep, CallsReboot, InReboot,
                    rebootVars, Codes
      <4> QED BY <2>1, <4>1, <4>2, <4>3, <4>4 DEF FwApp
    <3> QED BY <3>1 DEF TimerStep
  <2>2. CASE ~FwApp
    <3>1. QuietStep
      <4>1. ASSUME UNCHANGED timerVars PROVE QuietStep
        BY <4>1 DEF QuietStep, InReboot, rebootVars, timerVars
      <4>2. CASE \/ Sends \/ SendsEarly \/ Acked \/ Loses
                 \/ \E good, again \in BOOLEAN : FirstBlock(good, again)
                 \/ SetUpdateUrl
        <5>1. UNCHANGED timerVars
          BY <4>2 DEF Sends, SendsEarly, Acked, Loses, FirstBlock, SetUpdateUrl
        <5> QED BY <4>1, <5>1
      <4>3. CASE \E n \in Blocks, good, again \in BOOLEAN :
                   LaterBlock(n, good, again)
        <5>1. UNCHANGED timerVars
          BY <4>3 DEF LaterBlock
        <5> QED BY <4>1, <5>1
      <4>4. CASE LastLength \/ \E again \in BOOLEAN : LastPacket(again)
        BY <4>4 DEF LastPacket, LastLength, Takes, Goes, QuietStep, InReboot,
                    exceptAt
      <4> QED BY <1>3, <2>2, <4>2, <4>3, <4>4 DEF FwActs
    <3> QED BY <3>1 DEF TimerStep
  <2> QED BY <2>1, <2>2
<1>4. CASE WifiActs
  <2>1. CASE \E t \in Servers : WifiAccepted(t)
    <3>1. CallsReboot
      BY <2>1 DEF WifiAccepted, WifiLast, CallsReboot, InReboot, Codes
    <3> QED BY <3>1 DEF TimerStep
  <2>2. CASE MacSet
    <3>1. CallsReboot
      BY <2>2 DEF MacSet, AppAt, CallsReboot, InReboot, Codes
    <3> QED BY <3>1 DEF TimerStep
  <2>3. CASE ~MacSet /\ ~\E t \in Servers : WifiAccepted(t)
    <3>1. QuietStep
      <4>1. CASE \E t \in Threads : WritePage(t)
        BY <4>1 DEF WritePage, WritingPage, Goes, QuietStep, InReboot
      <4>2. CASE ModifyDevMac \/ MacRefused
        BY <4>2 DEF ModifyDevMac, MacRefused, AppAt, QuietStep, InReboot,
                    rebootVars
      <4>3. CASE \/ \E t \in Servers, m \in Modes, n \in Networks :
                      SetWifiMode(t, m, n)
                 \/ \E t \in Servers : WifiCommand(t) \/ WifiRefused(t)
        BY <4>3 DEF SetWifiMode, WifiCommand, WifiRefused, SettingWifi, Goes,
                    QuietStep, InReboot, exceptAt
      <4>4. CASE \/ ZoneChanges \/ ResetMarks
                 \/ \E t \in Threads : ErasePage(t)
                 \/ \E t \in Servers, m \in Macs \ {0} : ModifyMac(t, m)
                 \/ \E t \in Servers : ModifyMacTail(t)
        BY <4>4 DEF ZoneChanges, ResetMarks, ErasePage, ModifyMac,
                    ModifyMacTail, AppAt, Goes, QuietStep, InReboot, exceptAt
      <4> QED BY <1>4, <2>3, <4>1, <4>2, <4>3, <4>4 DEF WifiActs
    <3> QED BY <3>1 DEF TimerStep
  <2> QED BY <2>1, <2>2, <2>3
<1>5. CASE BootActs
  BY <1>5 DEF BootActs, Boots, TimerStep
<1> QED BY <1>1, <1>2, <1>3, <1>4, <1>5, NextParts DEF Parts

-----------------------------------------------------------------------------
(* The update over UDP *)

\* The blocks in the sum are those written, up to the last: either all that
\* came before the last are written, each at its place, or one is missing for
\* good.  Only the whole image has the sum of the whole image.
UdpInv ==
  /\ written \subseteq 1 .. last /\ sum = SumOf[written] /\ len <= last
  /\ \/ written = 1 .. last /\ len = last
     \/ \E b \in 1 .. last : b \notin written
  /\ ~spoilt /\ written = 1 .. len => \A b \in 1 .. len : area[b] = b
  /\ completed /\ ~spoilt => written = Blocks /\ len = K
  /\ at["udp"] = "length" => written = Blocks
  /\ UdpHandsOverWhole

\* What the other steps do to the update: nothing.
udpPart == <<area, given, firmware, spoilt, last, sum, len, written, completed>>
OtherStep ==
  UNCHANGED udpPart /\ (at'["udp"] = "length" => at["udp"] = "length")

LEMMA UdpInit == Init => UdpInv
<1> SUFFICES ASSUME RebootInit, FwInit PROVE UdpInv
  BY DEF Init
<1>1. 1 .. 0 = {}
  OBVIOUS
<1>2. at["udp"] = "idle"
  BY DEF RebootInit, Threads, Servers
<1> QED
  BY <1>1, <1>2, SumAssumption
     DEF FwInit, UdpInv, UdpHandsOverWhole, Nothing

LEMMA UdpTaken ==
  ASSUME FwTypeOK, RebootTypeOK, UdpInv,
         NEW n \in Blocks, NEW good \in BOOLEAN, NEW again \in BOOLEAN,
         LaterBlock(n, good, again)
  PROVE  UdpInv'
<1> USE UpdateAssumption DEF FwTypeOK, Blocks
<1>1. /\ at["udp"] = "idle" /\ at' = at
      /\ UNCHANGED <<completed, given, firmware, spoilt>>
  BY DEF LaterBlock, Takes, timerVars, rebootVars
<1>2. CASE n > last /\ good
  <2>1. /\ area' = [area EXCEPT ![len + 1] = n]
        /\ len' = len + 1 /\ last' = n
        /\ sum' = (sum + BlockSum[n]) % SumMod /\ written' = written \cup {n}
    BY <1>2 DEF LaterBlock, SaveUpdateFw
  <2>2. n \notin written
    BY <1>2 DEF UdpInv
  <2>3. sum' = SumOf[written']
    BY <2>1, <2>2, SumAssumption DEF UdpInv
  <2>4. written' \subseteq 1 .. last' /\ len' <= last'
    <3>1. \A b \in written : b \in 1 .. last
      BY DEF UdpInv
    <3>2. written' \subseteq 1 .. last'
      <4>1. ASSUME NEW b \in written' PROVE b \in 1 .. last'
        <5>1. last \in Nat /\ n \in Nat /\ n > last
          BY <1>2
        <5>2. CASE b \in written
          BY ONLY <2>1, <3>1, <5>1, <5>2
        <5>3. CASE b = n
          BY ONLY <2>1, <5>1, <5>3
        <5> QED BY <2>1, <5>2, <5>3
      <4> QED BY <4>1
    <3>3. len' <= last'
      BY <1>2, <2>1 DEF UdpInv
    <3> QED BY <3>2, <3>3
  <2>5. \/ written' = 1 .. last' /\ len' = last'
        \/ \E b \in 1 .. last' : b \notin written'
    <3>1. CASE \E b \in 1 .. last : b \notin written
      BY <1>2, <2>1, <3>1
    <3>2. CASE written = 1 .. last /\ len = last /\ n = last + 1
      BY <2>1, <3>2
    <3>3. CASE written = 1 .. last /\ n # last + 1
      <4>1. last + 1 \in 1 .. last' /\ last + 1 \notin written'
        BY <1>2, <2>1, <3>3
      <4> QED BY <4>1
    <3> QED BY <3>1, <3>2, <3>3 DEF UdpInv
  <2>6. ASSUME ~spoilt, written' = 1 .. len'
        PROVE  \A b \in 1 .. len' : area'[b] = b
    <3>1. n \in 1 .. len + 1
      BY <2>1, <2>6
    <3>2. n = len + 1
      BY <1>2, <3>1 DEF UdpInv
    <3>3. written = 1 .. len
      <4>1. written = (1 .. len + 1) \ {n}
        BY <2>1, <2>2, <2>6
      <4> QED BY <3>2, <4>1
    <3>4. \A b \in 1 .. len : area[b] = b
      BY <2>6, <3>3 DEF UdpInv
    <3> QED BY <2>1, <3>2, <3>4
  <2>7. ~(completed /\ ~spoilt)
    BY <1>2, <2>2 DEF UdpInv
  <2> QED
    BY <1>1, <2>3, <2>4, <2>5, <2>6, <2>7 DEF UdpInv, UdpHandsOverWhole
<1>3. CASE n > last /\ ~good
  <2>1. last' = n /\ UNCHANGED <<area, len, sum, written>>
    BY <1>3 DEF LaterBlock
  <2>2. n \in 1 .. last' /\ n \notin written'
    BY <1>3, <2>1 DEF UdpInv
  <2>3. written' \subseteq 1 .. last' /\ len' <= last'
    BY <1>3, <2>1 DEF UdpInv
  <2> QED
    BY <1>1, <2>1, <2>2, <2>3 DEF UdpInv, UdpHandsOverWhole
<1>4. CASE ~(n > last)
  <2>1. UNCHANGED <<area, last, len, sum, written>>
    BY <1>4 DEF LaterBlock
  <2> QED BY <1>1, <2>1 DEF UdpInv, UdpHandsOverWhole
<1> QED BY <1>2, <1>3, <1>4

LEMMA UdpBegun ==
  ASSUME UdpInv, NEW good \in BOOLEAN, NEW again \in BOOLEAN,
         FirstBlock(good, again)
  PROVE  UdpInv'
<1> USE UpdateAssumption DEF Blocks
<1>1. /\ at["udp"] = "idle" /\ at' = at /\ last' = 1
      /\ UNCHANGED <<completed, given>>
      /\ completed => spoilt'
  BY DEF FirstBlock, Takes, timerVars, rebootVars
<1>2. CASE good
  <2>1. /\ area' = [Wiped EXCEPT ![1] = 1]
        /\ len' = 1 /\ sum' = BlockSum[1] % SumMod /\ written' = {1}
    BY <1>2, SumAssumption DEF FirstBlock, SaveUpdateFw
  <2>2. sum' = SumOf[written']
    <3>1. SumOf[{} \cup {1}] = (SumOf[{}] + BlockSum[1]) % SumMod
      <4>1. {} \in SUBSET Blocks /\ 1 \in Blocks \ {}
        OBVIOUS
      <4> QED BY <4>1, SumAssumption
    <3>2. SumOf[{}] + BlockSum[1] = BlockSum[1]
      BY SumAssumption
    <3>3. {} \cup {1} = {1}
      OBVIOUS
    <3> QED BY <2>1, <3>1, <3>2, <3>3
  <2>3. area'[1] = 1
    BY <2>1 DEF Wiped
  <2> QED BY <1>1, <2>1, <2>2, <2>3 DEF UdpInv, UdpHandsOverWhole
<1>3. CASE ~good
  <2>1. len' = 0 /\ sum' = 0 /\ written' = {}
    BY <1>3 DEF FirstBlock
  <2> QED BY <1>1, <2>1, SumAssumption DEF UdpInv, UdpHandsOverWhole
<1> QED BY <1>2, <1>3

LEMMA UdpEnded ==
  ASSUME FwTypeOK, RebootTypeOK, UdpInv, NEW again \in BOOLEAN,
         LastPacket(again)
  PROVE  UdpInv'
<1> USE UpdateAssumption DEF FwTypeOK
<1>1. UNCHANGED <<area, given, firmware, spoilt, last, sum, len, written>>
  BY DEF LastPacket, areaVars
<1>2. CASE sum = Total
  <2>1. written = Blocks
    BY <1>2, CheckAssumption DEF UdpInv
  <2>2. last = K
    BY <2>1 DEF UdpInv, Blocks
  <2>3. len = K
    BY <2>1, <2>2 DEF UdpInv, Blocks
  <2> QED BY <1>1, <2>1, <2>3 DEF UdpInv, UdpHandsOverWhole
<1>3. CASE sum # Total
  <2>1. UNCHANGED <<completed, at>>
    BY <1>3 DEF LastPacket
  <2> QED BY <1>1, <2>1 DEF UdpInv, UdpHandsOverWhole
<1> QED BY <1>2, <1>3

\* intFwLength was right before the packet said so.
LEMMA UdpLength ==
  ASSUME FwTypeOK, RebootTypeOK, UdpInv, LastLength
  PROVE  UdpInv'
<1> USE UpdateAssumption DEF FwTypeOK
<1>1. /\ UNCHANGED <<area, given, spoilt, last, sum, written, completed>>
      /\ at["udp"] = "length" /\ len' = K
  BY DEF LastLength, areaVars
<1>2. written = Blocks /\ last = K /\ len = K
  BY <1>1 DEF UdpInv, Blocks
<1>3. at'["udp"] = "idle"
  BY DEF LastLength, Goes, RebootTypeOK, Threads, Servers
<1> QED BY <1>1, <1>2, <1>3 DEF UdpInv, UdpHandsOverWhole

LEMMA UdpHandedOver ==
  ASSUME FwTypeOK, RebootTypeOK, UdpInv, UpdateFirmwareAsUdp
  PROVE  UdpInv'
<1> USE UpdateAssumption DEF FwTypeOK
<1>1. UNCHANGED <<area, spoilt, last, sum, len, written>>
  BY DEF UpdateFirmwareAsUdp
<1>2. at'["udp"] = at["udp"]
  BY DEF UpdateFirmwareAsUdp, Reboot, Goes, rebootVars, RebootTypeOK, Threads,
         Servers
<1>3. CASE completed
  <2>1. /\ given' = [by |-> "udp", image |-> Image(len), spoilt |-> spoilt]
        /\ completed' = FALSE
    BY <1>3 DEF UpdateFirmwareAsUdp
  <2>2. ASSUME ~spoilt PROVE Image(len) = Whole
    <3>1. len = K /\ \A b \in Blocks : area[b] = b
      BY <1>3, <2>2 DEF UdpInv, Blocks
    <3> QED BY <3>1 DEF Image, Whole, Blocks
  <2>3. UdpHandsOverWhole'
    BY <2>1, <2>2 DEF UdpHandsOverWhole
  <2> QED BY <1>1, <1>2, <2>1, <2>3 DEF UdpInv
<1>4. CASE ~completed
  BY <1>1, <1>2, <1>4 DEF UpdateFirmwareAsUdp, UdpInv, UdpHandsOverWhole
<1> QED BY <1>3, <1>4

\* A download writes to the area, so the update is spoilt.
LEMMA UdpDownload ==
  ASSUME FwTypeOK, RebootTypeOK, UdpInv, GetPiece \/ GetEnds
  PROVE  UdpInv'
<1>1. CASE GetPiece
  <2>1. spoilt' /\ UNCHANGED <<given, udpVars, at>>
    BY <1>1 DEF GetPiece, timerVars, rebootVars
  <2> QED BY <2>1 DEF udpVars, UdpInv, UdpHandsOverWhole
<1>2. CASE GetEnds
  <2>1. /\ UNCHANGED <<area, spoilt, udpVars>>
        /\ given' = given \/ given'.by = "url"
        /\ at'["udp"] = at["udp"]
    BY <1>2 DEF GetEnds, Reboot, Goes, rebootVars, RebootTypeOK, Threads,
                Servers
  <2> QED BY <2>1 DEF udpVars, UdpInv, UdpHandsOverWhole
<1> QED BY <1>1, <1>2

LEMMA UdpBoot ==
  ASSUME UdpInv, Boots
  PROVE  UdpInv'
<1>1. at'["udp"] = "idle"
  BY DEF Boots, RebootBoot, Threads, Servers
<1>2. 1 .. 0 = {}
  OBVIOUS
<1> QED
  BY <1>1, <1>2, SumAssumption
     DEF Boots, FwBoot, Nothing, UdpInv, UdpHandsOverWhole

LEMMA UdpOthers ==
  ASSUME RebootTypeOK, UdpInv, OtherStep
  PROVE  UdpInv'
BY DEF OtherStep, udpPart, UdpInv, UdpHandsOverWhole

LEMMA UdpKept ==
  ASSUME FwTypeOK, RebootTypeOK, UdpInv, Next \/ UNCHANGED vars
  PROVE  UdpInv'
<1> USE DEF RebootTypeOK, Threads, Servers
<1>1. CASE UNCHANGED vars
  <2>1. OtherStep
    BY <1>1 DEF vars, timerVars, rebootVars, fwVars, areaVars, udpVars,
                OtherStep, udpPart
  <2> QED BY <2>1, UdpOthers
<1>2. CASE TimerActs /\ OfTimer
  <2>1. UNCHANGED udpPart
    BY <1>2 DEF OfTimer, fwVars, areaVars, udpVars, udpPart
  <2>2. at'["udp"] = "length" => at["udp"] = "length"
    BY <1>2 DEF TimerActs, RebootCount, RebootFlag, Answer, RebootSyncDev,
                Reboot, RestartPoll, SyncData, ResetBegins, Tick, LoadWord,
                StoreWord, Goes, rebootVars
  <2> QED BY <2>1, <2>2, UdpOthers DEF OtherStep
<1>3. CASE WifiActs /\ OfWifi
  <2>1. UNCHANGED udpPart
    BY <1>3 DEF OfWifi, fwVars, areaVars, udpVars, udpPart
  <2>2. at'["udp"] = "length" => at["udp"] = "length"
    BY <1>3 DEF WifiActs, SetWifiMode, WifiCommand, WifiAccepted, WifiLast,
                WifiRefused,
                ZoneChanges, ResetMarks, ErasePage, WritePage, ModifyMac,
                ModifyMacTail, ModifyDevMac, MacRefused, MacSet, Reboot, Goes,
                rebootVars, exceptAt
  <2> QED BY <2>1, <2>2, UdpOthers DEF OtherStep
<1>4. CASE FwActs
  <2>1. CASE \/ UrlBegins \/ GetFails \/ UrlEnds
            \/ Sends \/ SendsEarly \/ Acked \/ Loses \/ SetUpdateUrl
    <3>1. OtherStep
      BY <2>1 DEF UrlBegins, GetFails, UrlEnds, Sends, SendsEarly, Acked,
                  Loses, SetUpdateUrl, areaVars, udpVars, timerVars,
                  rebootVars, OtherStep, udpPart
    <3> QED BY <3>1, UdpOthers
  <2>2. CASE \E good, again \in BOOLEAN : FirstBlock(good, again)
    BY <2>2, UdpBegun
  <2>3. CASE \E n \in Blocks, good, again \in BOOLEAN :
               LaterBlock(n, good, again)
    BY <2>3, UdpTaken
  <2>4. CASE \E again \in BOOLEAN : LastPacket(again)
    BY <2>4, UdpEnded
  <2> QED
    BY <1>4, <2>1, <2>2, <2>3, <2>4, UdpLength, UdpHandedOver, UdpDownload
       DEF FwActs, FwApp
<1>5. CASE BootActs
  BY <1>5, UdpBoot DEF BootActs
<1> QED BY <1>1, <1>2, <1>3, <1>4, <1>5, NextParts DEF Parts

-----------------------------------------------------------------------------
(* The types of the update *)

LEMMA FwTypeInit == ASSUME Init PROVE FwTypeOK
<1> USE UpdateAssumption DEF FwTypeOK
<1>1. FwInit /\ turn \in 0 .. Gone
  BY DEF Init, Gone
<1>2. area \in [Blocks -> Cells] /\ written \subseteq Blocks
  BY <1>1 DEF FwInit, Cells
<1>3. /\ last \in 0 .. K /\ sum \in 0 .. SumMod - 1 /\ len \in 0 .. K
      /\ size \in 0 .. K
  BY <1>1 DEF FwInit
<1>4. completed \in BOOLEAN /\ uart \in BOOLEAN /\ lock \in BOOLEAN
      /\ url \in BOOLEAN /\ spoilt \in BOOLEAN
  BY <1>1 DEF FwInit
<1>5. given.by \in {"nobody", "udp", "url"}
  BY <1>1 DEF FwInit, Nothing
<1>6. toModule \subseteq 0 .. K /\ toSender \subseteq (0 .. K) \X BOOLEAN
  BY <1>1 DEF FwInit
<1> QED BY <1>1, <1>2, <1>3, <1>4, <1>5, <1>6

\* A sum keeps its width.
LEMMA SumInRange == \A x \in Nat : x % SumMod \in 0 .. SumMod - 1
BY UpdateAssumption

\* A reply is a block and whether it was taken.
LEMMA RepliesTyped ==
  ASSUME toSender \subseteq (0 .. K) \X BOOLEAN,
         NEW n \in 0 .. K, Replies(n, TRUE) \/ Replies(n, FALSE)
  PROVE  toSender' \subseteq (0 .. K) \X BOOLEAN
<1>1. ASSUME NEW ok \in BOOLEAN, Replies(n, ok)
      PROVE  toSender' \subseteq (0 .. K) \X BOOLEAN
  <2>1. <<n, ok>> \in (0 .. K) \X BOOLEAN
    OBVIOUS
  <2>2. toSender' = toSender \cup {<<n, ok>>}
    BY <1>1 DEF Replies
  <2> QED BY <2>1, <2>2, Zenon
<1> QED BY <1>1

LEMMA FwTypeUdp ==
  ASSUME FwTypeOK, NEW good \in BOOLEAN, NEW again \in BOOLEAN,
         \/ FirstBlock(good, again)
         \/ UdpInv /\ \E n \in Blocks : LaterBlock(n, good, again)
         \/ LastPacket(again) \/ LastLength
  PROVE  FwTypeOK'
<1> USE UpdateAssumption, SumAssumption DEF FwTypeOK, Blocks, Final
<1>1. CASE FirstBlock(good, again)
  <2>1. toModule' \subseteq 0 .. K /\ toSender' \subseteq (0 .. K) \X BOOLEAN
    BY <1>1 DEF FirstBlock, Takes, Replies
  <2>2. /\ area' \in [Blocks -> Cells] /\ written' \subseteq Blocks
        /\ sum' \in 0 .. SumMod - 1 /\ len' \in 0 .. K /\ last' \in 0 .. K
    <3>1. Wiped \in [Blocks -> Cells]
      BY DEF Wiped, Cells
    <3>2. BlockSum[1] \in Nat /\ 0 + BlockSum[1] \in Nat
      OBVIOUS
    <3>3. (0 + BlockSum[1]) % SumMod \in 0 .. SumMod - 1
      BY <3>2, SumInRange
    <3>4. CASE good
      <4>1. /\ area' = [Wiped EXCEPT ![1] = 1] /\ last' = 1
            /\ len' = 1 /\ sum' = (0 + BlockSum[1]) % SumMod /\ written' = {1}
        BY <1>1, <3>4 DEF FirstBlock, SaveUpdateFw
      <4>2. 1 \in Blocks /\ 1 \in Cells
        BY DEF Cells
      <4> QED BY <3>1, <3>3, <4>1, <4>2
    <3>5. CASE ~good
      BY <1>1, <3>1, <3>5 DEF FirstBlock
    <3> QED BY <3>4, <3>5
  <2>3. spoilt' \in BOOLEAN /\ uart' \in BOOLEAN
    BY <1>1 DEF FirstBlock, Downloading
  <2> QED BY <1>1, <2>1, <2>2, <2>3 DEF FirstBlock, urlVars
<1>2. CASE UdpInv /\ \E n \in Blocks : LaterBlock(n, good, again)
  <2>1. PICK n \in Blocks : LaterBlock(n, good, again)
    BY <1>2
  <2>2. toModule' \subseteq 0 .. K
    BY <2>1 DEF LaterBlock, Takes
  <2>3. toSender' \subseteq (0 .. K) \X BOOLEAN
    <3>1. Replies(n, TRUE) \/ Replies(n, FALSE)
      BY <2>1, Zenon DEF LaterBlock, Replies
    <3>2. n \in 0 .. K
      OBVIOUS
    <3> QED BY <3>1, <3>2, RepliesTyped, Zenon
  <2>4. CASE n > last /\ good
    <3>1. len + 1 \in Blocks
      BY <1>2, <2>4 DEF UdpInv
    <3>2. sum + BlockSum[n] \in Nat
      OBVIOUS
    <3>3. sum' \in 0 .. SumMod - 1
      <4>1. sum' = (sum + BlockSum[n]) % SumMod
        BY <2>1, <2>4 DEF LaterBlock, SaveUpdateFw
      <4>2. (sum + BlockSum[n]) % SumMod \in 0 .. SumMod - 1
        BY <3>2, SumInRange
      <4> QED BY <4>1, <4>2
    <3>4. area' \in [Blocks -> Cells] /\ written' \subseteq Blocks
      <4>1. n \in Cells
        BY DEF Cells
      <4>2. /\ area' = [area EXCEPT ![len + 1] = n]
            /\ written' = written \cup {n}
        BY <2>1, <2>4 DEF LaterBlock, SaveUpdateFw
      <4> QED BY <3>1, <4>1, <4>2
    <3>5. len' \in 0 .. K /\ last' \in 0 .. K
      BY <2>1, <2>4, <3>1 DEF LaterBlock, SaveUpdateFw
    <3> QED
      BY <2>1, <2>2, <2>3, <3>3, <3>4, <3>5 DEF LaterBlock, urlVars
  <2>5. CASE ~(n > last /\ good)
    <3>1. last' \in 0 .. K /\ UNCHANGED <<area, len, sum, written>>
      BY <2>1, <2>5 DEF LaterBlock
    <3> QED BY <2>1, <2>2, <2>3, <3>1 DEF LaterBlock, urlVars
  <2> QED BY <2>4, <2>5
<1>3. CASE LastPacket(again) \/ LastLength
  <2>1. toModule' \subseteq 0 .. K
    BY <1>3 DEF LastPacket, LastLength, Takes
  <2>2. toSender' = toSender \/ Replies(0, TRUE) \/ Replies(0, FALSE)
    BY <1>3, Zenon DEF LastPacket, LastLength
  <2>3. toSender' \subseteq (0 .. K) \X BOOLEAN
    <3>1. 0 \in 0 .. K
      OBVIOUS
    <3> QED BY <2>2, <3>1, RepliesTyped, Zenon
  <2>4. completed' \in BOOLEAN
    <3>1. completed' = TRUE \/ completed' = completed
      BY <1>3 DEF LastPacket, LastLength
    <3> QED BY <3>1
  <2>5. uart' \in BOOLEAN
    <3>1. uart' = TRUE \/ uart' = uart
      BY <1>3 DEF LastPacket, LastLength
    <3> QED BY <3>1
  <2>6. len' = K \/ len' = len
    BY <1>3 DEF LastPacket, LastLength
  <2>7. UNCHANGED <<last, sum, written, areaVars, urlVars, turn>>
    BY <1>3 DEF LastPacket, LastLength
  <2> QED
    BY <2>1, <2>3, <2>4, <2>5, <2>6, <2>7 DEF areaVars, urlVars
<1> QED BY <1>1, <1>2, <1>3

LEMMA FwTypeNet ==
  ASSUME FwTypeOK, Sends \/ SendsEarly \/ Acked \/ Loses
  PROVE  FwTypeOK'
<1> USE UpdateAssumption DEF FwTypeOK, Gone, Final
<1>1. UNCHANGED <<areaVars, udpVars, urlVars>>
  BY DEF Sends, SendsEarly, Acked, Loses
<1>2. toModule' \subseteq 0 .. K /\ toSender' \subseteq (0 .. K) \X BOOLEAN
  <2>1. CASE Sends \/ SendsEarly
    <3>1. turn \in 0 .. K
      BY <2>1 DEF Sends, SendsEarly
    <3>2. toModule' = toModule \cup {turn} /\ toSender' = toSender
      BY <2>1 DEF Sends, SendsEarly
    <3> QED BY <3>1, <3>2, Zenon
  <2>2. CASE Acked \/ Loses
    <3>1. toModule' \subseteq toModule /\ toSender' \subseteq toSender
      BY <2>2 DEF Acked, Loses
    <3> QED BY <3>1, Zenon
  <2> QED BY <2>1, <2>2
<1>3. turn' \in 0 .. Gone
  BY DEF Sends, SendsEarly, Acked, Loses, After
<1> QED BY <1>1, <1>2, <1>3 DEF areaVars, udpVars, urlVars

LEMMA FwTypeApp ==
  ASSUME FwTypeOK, FwApp \/ SetUpdateUrl
  PROVE  FwTypeOK'
<1> USE UpdateAssumption DEF FwTypeOK
<1>1. CASE UpdateFirmwareAsUdp
  <2>1. given'.by \in {"nobody", "udp", "url"}
    BY <1>1 DEF UpdateFirmwareAsUdp
  <2>2. completed' = FALSE \/ completed' = completed
    BY <1>1 DEF UpdateFirmwareAsUdp
  <2> QED BY <1>1, <2>1, <2>2 DEF UpdateFirmwareAsUdp, urlVars, netVars
<1>2. CASE UrlBegins \/ GetFails \/ UrlEnds \/ SetUpdateUrl
  <2>1. lock' \in BOOLEAN
    BY <1>2 DEF UrlBegins, GetFails, UrlEnds, SetUpdateUrl, urlVars
  <2>2. url' \in BOOLEAN
    BY <1>2 DEF UrlBegins, GetFails, UrlEnds, SetUpdateUrl, urlVars
  <2>3. size' \in 0 .. K
    BY <1>2 DEF UrlBegins, GetFails, UrlEnds, SetUpdateUrl, urlVars
  <2>4. UNCHANGED <<areaVars, udpVars, netVars>>
    BY <1>2 DEF UrlBegins, GetFails, UrlEnds, SetUpdateUrl
  <2> QED BY <2>1, <2>2, <2>3, <2>4 DEF areaVars, udpVars, netVars
<1>3. CASE GetPiece
  <2>1. area' \in [Blocks -> Cells]
    BY <1>3 DEF GetPiece, Cells
  <2>2. size' \in 0 .. K /\ spoilt' \in BOOLEAN
    BY <1>3 DEF GetPiece
  <2> QED BY <1>3, <2>1, <2>2 DEF GetPiece, udpVars, netVars
<1>4. CASE GetEnds
  <2>1. given'.by \in {"nobody", "udp", "url"}
    BY <1>4 DEF GetEnds
  <2> QED BY <1>4, <2>1 DEF GetEnds, udpVars, urlVars, netVars
<1> QED BY <1>1, <1>2, <1>3, <1>4 DEF FwApp

LEMMA FwTypeKept ==
  ASSUME FwTypeOK, UdpInv, Next \/ UNCHANGED vars
  PROVE  FwTypeOK'
<1>1. CASE UNCHANGED fwVars
  BY <1>1 DEF fwVars, areaVars, udpVars, urlVars, netVars, FwTypeOK
<1>2. CASE FwActs
  BY <1>2, FwTypeUdp, FwTypeNet, FwTypeApp DEF FwActs
<1>3. CASE Boots
  <2> USE UpdateAssumption DEF FwTypeOK
  <2>1. /\ last' \in 0 .. K /\ sum' \in 0 .. SumMod - 1 /\ len' \in 0 .. K
        /\ size' \in 0 .. K
    BY <1>3 DEF Boots, FwBoot
  <2>2. /\ completed' \in BOOLEAN /\ uart' \in BOOLEAN /\ lock' \in BOOLEAN
        /\ url' \in BOOLEAN /\ spoilt' \in BOOLEAN
    BY <1>3 DEF Boots, FwBoot
  <2>3. given'.by \in {"nobody", "udp", "url"} /\ written' \subseteq Blocks
    BY <1>3 DEF Boots, FwBoot, Nothing
  <2> QED BY <1>3, <2>1, <2>2, <2>3 DEF Boots, FwBoot, netVars
<1> QED
  BY <1>1, <1>2, <1>3, NextParts
     DEF Parts, OfTimer, OfWifi, BootActs, vars

-----------------------------------------------------------------------------
(* The factory reset *)

\* Who writes the page of the time zone; the mark of a reset that no other
\* writer of the page overlaps gets there.
ResetInv ==
  /\ ~WritingPage("http")
  /\ WritingPage("app") => app = "reset"
  /\ (WritingPage("app") \/ app = "reload") /\ ~torn => ~WritingPage("udp")
  /\ WritingPage("app") /\ ~torn => buf["app"] = 1
  /\ at["app"] = "write" /\ ~torn => page = Erased
  /\ app = "reload" /\ ~torn => page = 1
  /\ ResetLeadsToSmartLink

\* What the other steps do to the reset: no thread starts or ends writing the
\* page, and the application thread neither enters nor leaves the reset.
AsideStep ==
  /\ UNCHANGED <<page, buf, torn, boot>>
  /\ \A t \in Threads : at'[t] \in {"erase", "write"} => at'[t] = at[t]
  /\ \A t \in Threads : at[t] \in {"erase", "write"} => at'[t] = at[t]
  /\ at["app"] \in {"erase", "write"} => app' = app
  /\ app' = "reload" => app = "reload"

LEMMA ResetInit == Init => ResetInv
<1> SUFFICES ASSUME RebootInit, WifiInit PROVE ResetInv
  BY DEF Init
<1>1. \A t \in Threads : at[t] = "idle"
  BY DEF RebootInit
<1>2. app = "restart" /\ boot.reset = FALSE
  BY DEF RebootInit, WifiInit, Joins
<1> QED
  BY <1>1, <1>2 DEF ResetInv, WritingPage, ResetLeadsToSmartLink, Threads,
                    Servers

LEMMA ResetAside ==
  ASSUME ResetInv, AsideStep
  PROVE  ResetInv'
BY DEF AsideStep, ResetInv, WritingPage, ResetLeadsToSmartLink, Threads,
       Servers

LEMMA ResetBoot ==
  ASSUME ResetInv, BootActs
  PROVE  ResetInv'
<1>1. \A t \in Threads : at'[t] = "idle"
  BY DEF BootActs, Boots, RebootBoot
<1>2. app' = "restart"
  BY DEF BootActs, Boots, RebootBoot
<1>3. ResetLeadsToSmartLink'
  <2>1. CASE WifiBoot(conf, FALSE)
    BY <2>1 DEF WifiBoot, Joins, SmartLink, ResetLeadsToSmartLink
  <2>2. CASE AppAt("reload") /\ ReloadBoot
    <3>1. CASE torn
      BY <2>2, <3>1 DEF ReloadBoot, WifiBoot, Joins, SmartLink,
                        ResetLeadsToSmartLink
    <3>2. CASE ~torn
      <4>1. page = 1
        BY <2>2, <3>2 DEF AppAt, ResetInv
      <4>2. Factory.mode = "AP"
        BY DEF Factory
      <4>3. boot' = SmartLink(Factory, ~torn)
        BY <2>2, <4>1, <4>2 DEF ReloadBoot, WifiBoot, LooksForUpgrade, Erased
      <4> QED BY <4>3 DEF SmartLink, Joins, ResetLeadsToSmartLink
    <3> QED BY <3>1, <3>2
  <2> QED BY <2>1, <2>2 DEF BootActs
<1> QED BY <1>1, <1>2, <1>3 DEF ResetInv, WritingPage, Threads, Servers

LEMMA ResetWifi ==
  ASSUME RebootTypeOK, WifiTypeOK, ResetInv, WifiActs
  PROVE  ResetInv'
<1> USE DEF RebootTypeOK, WifiTypeOK, Threads, Servers, Writers
<1>1. CASE ZoneChanges
  BY <1>1 DEF ZoneChanges, Goes, exceptAt, ResetInv, WritingPage,
              ResetLeadsToSmartLink
<1>2. CASE ResetMarks
  BY <1>2 DEF ResetMarks, AppAt, Goes, exceptAt, ResetInv, WritingPage,
              ResetLeadsToSmartLink
<1>3. CASE \E t \in Threads : ErasePage(t)
  BY <1>3 DEF ErasePage, Goes, exceptAt, ResetInv, WritingPage,
              ResetLeadsToSmartLink
<1>4. CASE \E t \in Threads : WritePage(t)
  <2>1. PICK t \in Threads : WritePage(t)
    BY <1>4
  <2>2. page' = Programmed(buf[t]) /\ UNCHANGED <<mark, buf, torn, boot>>
    BY <2>1 DEF WritePage
  <2>3. CASE t = "app"
    <3>1. ~torn => page' = 1
      BY <2>1, <2>2, <2>3 DEF WritePage, ResetInv, WritingPage, Programmed
    <3>2. at' = [at EXCEPT !["app"] = "idle"] /\ app' = "reload"
      BY <2>1, <2>3 DEF WritePage, Goes
    <3>3. WritingPage("app")
      BY <2>1, <2>3 DEF WritePage, WritingPage
    <3> QED BY <2>2, <3>1, <3>2, <3>3 DEF ResetInv, WritingPage,
                                     ResetLeadsToSmartLink
  <2>4. CASE t # "app"
    <3>1. at' = [at EXCEPT ![t] = "idle"] /\ app' = app /\ WritingPage(t)
      BY <2>1, <2>4 DEF WritePage, Goes, WritingPage
    <3> QED BY <2>2, <2>4, <3>1 DEF ResetInv, WritingPage,
                                    ResetLeadsToSmartLink
  <2> QED BY <2>3, <2>4
<1>5. CASE /\ ~ZoneChanges /\ ~ResetMarks
           /\ ~\E t \in Threads : ErasePage(t) \/ WritePage(t)
  <2>1. AsideStep
    BY <1>5
       DEF WifiActs, SetWifiMode, WifiCommand, WifiAccepted, WifiLast,
           WifiRefused,
           SettingWifi, ModifyMac, ModifyMacTail, ModifyDevMac, MacRefused,
           MacSet, Reboot, AppAt, Goes, AsideStep, rebootVars, exceptAt,
           pageVars
  <2> QED BY <2>1, ResetAside
<1> QED BY <1>1, <1>2, <1>3, <1>4, <1>5

\* A step of the other parts.
OutsideStep ==
  /\ UNCHANGED wifiVars
  /\ AsideStep
  /\ \A t \in Threads :
       at'[t] \in {"first", "second", "third"} => at'[t] = at[t]

LEMMA OutsideSteps ==
  ASSUME RebootTypeOK,
         UNCHANGED vars \/ (TimerActs /\ OfTimer) \/ (FwActs /\ OfUpdate)
  PROVE  OutsideStep
<1> USE DEF RebootTypeOK, Threads, Servers, OutsideStep, AsideStep
<1>1. CASE UNCHANGED vars
  BY <1>1 DEF vars, timerVars, rebootVars, wifiVars, pageVars
<1>2. CASE TimerActs /\ OfTimer
  BY <1>2 DEF TimerActs, RebootCount, RebootFlag, Answer, RebootSyncDev,
              Reboot, RestartPoll, SyncData, ResetBegins, Tick, LoadWord,
              StoreWord, AppAt, Goes, OfTimer, wifiVars, pageVars, rebootVars,
              exceptAt
<1>3. CASE FwActs /\ OfUpdate
  <2>1. CASE FwApp
    BY <1>3, <2>1
       DEF FwApp, UpdateFirmwareAsUdp, UrlBegins, GetFails, GetPiece, GetEnds,
           UrlEnds, Reboot, AppAt, AppGoes, Goes, OfUpdate, wifiVars,
           pageVars, timerVars, rebootVars
  <2>2. CASE ~FwApp
    BY <1>3, <2>2
       DEF FwActs, Sends, SendsEarly, Acked, Loses, FirstBlock, LaterBlock,
           LastPacket, LastLength, SetUpdateUrl, Takes, Goes, OfUpdate,
           wifiVars, pageVars, timerVars, rebootVars, exceptAt
  <2> QED BY <2>1, <2>2
<1> QED BY <1>1, <1>2, <1>3

LEMMA ResetKept ==
  ASSUME RebootTypeOK, WifiTypeOK, ResetInv, Next \/ UNCHANGED vars
  PROVE  ResetInv'
<1>1. CASE OutsideStep
  BY <1>1, ResetAside DEF OutsideStep
<1> QED
  BY <1>1, OutsideSteps, ResetWifi, ResetBoot, NextParts DEF Parts

-----------------------------------------------------------------------------
(* The types of the set-up commands *)

Confs == [mode : Modes, apKey : NetNames, apSsid : NetNames,
          staKey : NetNames, staSsid : NetNames]
Requested == [mode : Modes, net : Networks \cup {NoNet}, intact : BOOLEAN]
BootsSeen == [did : {"joins", "smartlink"}, key : NetNames, ssid : NetNames,
              reset : BOOLEAN]

LEMMA ConfTypes ==
  /\ Factory \in Confs /\ [Factory EXCEPT !.mode = "STA"] \in Confs
  /\ \A c \in Confs : [c EXCEPT !.mode = "STA", !.staSsid = UpgradeAP] \in Confs
  /\ \A c \in Confs : \A reset \in BOOLEAN :
       Joins(c, reset) \in BootsSeen /\ SmartLink(c, reset) \in BootsSeen
  /\ Idle \in Requested
<1>1. Factory \in Confs /\ [Factory EXCEPT !.mode = "STA"] \in Confs
  BY DEF Factory, Confs, Modes, NetNames
<1>2. \A c \in Confs :
        [c EXCEPT !.mode = "STA", !.staSsid = UpgradeAP] \in Confs
  BY DEF Confs, Modes, NetNames
<1>3. \A c \in Confs : \A reset \in BOOLEAN : Joins(c, reset) \in BootsSeen
  BY DEF Confs, BootsSeen, Joins
<1>4. \A c \in Confs : \A reset \in BOOLEAN : SmartLink(c, reset) \in BootsSeen
  BY <1>3 DEF BootsSeen, SmartLink
<1>5. Idle \in Requested
  BY DEF Idle, Requested, Modes
<1> QED BY <1>1, <1>2, <1>3, <1>4, <1>5

LEMMA AtWritesType ==
  ASSUME NEW c \in Confs, NEW r \in Requested, r.net \in Networks, NEW place
  PROVE  AtWrites(c, r, place) \in Confs
<1>1. r.net \in NetNames /\ "AP" \in Modes /\ "STA" \in Modes
  BY DEF NetNames, Modes
<1> QED BY <1>1 DEF AtWrites, ApWrites, StaWrites, Confs

\* What an AT command leaves of the settings.
LEMMA AtKeeps ==
  ASSUME NEW c \in Confs, NEW r \in Requested,
         NEW place \in {"first", "second", "third"}
  PROVE  /\ AtWrites(c, r, place).staKey =
              IF r.mode = "STA" /\ place = "first" THEN r.net ELSE c.staKey
         /\ AtWrites(c, r, place).staSsid =
              IF r.mode = "STA" /\ place = "third" THEN r.net ELSE c.staSsid
         /\ AtWrites(c, r, place).mode =
              IF r.mode = "STA" /\ place = "second" THEN "STA"
              ELSE IF r.mode = "AP" /\ place = "third" THEN "AP" ELSE c.mode
<1>1. CASE r.mode = "AP"
  BY <1>1 DEF AtWrites, ApWrites, Confs
<1>2. CASE r.mode = "STA"
  BY <1>2 DEF AtWrites, StaWrites, Confs
<1> QED BY <1>1, <1>2 DEF Requested, Modes

\* What a command leaves of the other requests.
LEMMA RequestsAfter ==
  ASSUME WifiTypeOK, NEW t \in Servers
  PROVE  /\ Requests(t) \in [Servers -> Requested]
         /\ \A u \in Servers :
              /\ Requests(t)[u].mode = req[u].mode
              /\ Requests(t)[u].net = req[u].net
              /\ Requests(t)[u].intact => req[u].intact /\ ~Overwrites(t, u)
<1> SUFFICES ASSUME NEW u \in Servers
             PROVE  /\ Requests(t)[u] \in Requested
                    /\ Requests(t)[u].mode = req[u].mode
                    /\ Requests(t)[u].net = req[u].net
                    /\ Requests(t)[u].intact =>
                         req[u].intact /\ ~Overwrites(t, u)
  BY DEF Requests
<1>1. req[u] \in Requested
  BY DEF WifiTypeOK, Requested
<1>2. (req[u].intact /\ ~Overwrites(t, u)) \in BOOLEAN
  OBVIOUS
<1>3. Requests(t)[u] =
        [req[u] EXCEPT !.intact = req[u].intact /\ ~Overwrites(t, u)]
  BY DEF Requests
<1> QED BY <1>1, <1>2, <1>3 DEF Requested

LEMMA WifiTypeInit == ASSUME Init PROVE WifiTypeOK
<1>1. WifiInit
  BY DEF Init
<1>2. conf \in Confs /\ boot \in BootsSeen /\ req \in [Servers -> Requested]
  BY <1>1, ConfTypes DEF WifiInit
<1>3. /\ mac \in Macs \X Macs /\ macConf \in Macs \X Macs
      /\ newMac \in [Servers -> Macs]
      /\ sentMac \in (Macs \X Macs) \cup {NoMac}
  BY <1>1 DEF WifiInit, Macs
<1>4. macFlag \in BOOLEAN /\ torn \in BOOLEAN
  BY <1>1 DEF WifiInit
<1>5. /\ mark \in {0, 1} /\ page \in {0, 1, Erased}
      /\ buf \in [Writers -> {0, 1}] /\ accepted \in Networks \cup {NoNet}
  BY <1>1 DEF WifiInit
<1> QED
  BY <1>2, <1>3, <1>4, <1>5 DEF WifiTypeOK, Confs, Requested, BootsSeen

\* A request SetWifiMode works on names a network.
RequestInv == \A t \in Servers : SettingWifi(t) => req[t].net \in Networks

LEMMA RequestInit == Init => RequestInv
BY DEF Init, RebootInit, RequestInv, SettingWifi, Threads

LEMMA RequestKept ==
  ASSUME RebootTypeOK, WifiTypeOK, RequestInv, Next \/ UNCHANGED vars
  PROVE  RequestInv'
<1> USE DEF RebootTypeOK, Threads, Servers
<1>1. CASE OutsideStep
  BY <1>1 DEF OutsideStep, wifiVars, confVars, RequestInv, SettingWifi
<1>2. CASE BootActs
  BY <1>2 DEF BootActs, Boots, RebootBoot, RequestInv, SettingWifi
<1>3. CASE WifiActs
  <2>1. CASE \E t \in Servers, m \in Modes, n \in Networks :
               SetWifiMode(t, m, n)
    <3>1. PICK t \in Servers, m \in Modes, n \in Networks : SetWifiMode(t, m, n)
      BY <2>1
    <3>2. \A u \in Servers : req'[u].net = IF u = t THEN n ELSE req[u].net
      BY <3>1 DEF SetWifiMode, WifiTypeOK
    <3>3. \A u \in Servers \ {t} : at'[u] = at[u]
      BY <3>1 DEF SetWifiMode, Goes
    <3> QED BY <3>2, <3>3 DEF RequestInv, SettingWifi
  <2>2. CASE \E t \in Servers : WifiAccepted(t) \/ WifiRefused(t)
    <3>1. PICK t \in Servers : WifiAccepted(t) \/ WifiRefused(t)
      BY <2>2
    <3>2. \A u \in Servers \ {t} : at'[u] = at[u]
      BY <3>1 DEF WifiAccepted, WifiLast, WifiRefused, Reboot, Goes
    <3>3. at'[t] \in {"count", "answer"}
      BY <3>1 DEF WifiAccepted, WifiLast, WifiRefused, Reboot, Goes
    <3>4. \A u \in Servers \ {t} : req'[u].net = req[u].net
      BY <3>1, RequestsAfter
         DEF WifiAccepted, WifiLast, WifiRefused, WifiTypeOK
    <3> QED BY <3>2, <3>3, <3>4 DEF RequestInv, SettingWifi
  <2>3. CASE \E t \in Servers : WifiCommand(t)
    <3>1. PICK t \in Servers : WifiCommand(t)
      BY <2>3
    <3>2. \A u \in Servers : req'[u].net = req[u].net
      BY <3>1, RequestsAfter DEF WifiCommand
    <3>3. \A u \in Servers : SettingWifi(u)' => SettingWifi(u)
      BY <3>1 DEF WifiCommand, Goes, SettingWifi
    <3> QED BY <3>2, <3>3 DEF RequestInv
  <2>4. CASE \/ ZoneChanges \/ ResetMarks
             \/ \E t \in Threads : ErasePage(t) \/ WritePage(t)
             \/ \E t \in Servers, m \in Macs \ {0} : ModifyMac(t, m)
             \/ \E t \in Servers : ModifyMacTail(t)
             \/ ModifyDevMac \/ MacRefused \/ MacSet
    BY <2>4 DEF ZoneChanges, ResetMarks, ErasePage, WritePage, ModifyMac,
                ModifyMacTail, ModifyDevMac, MacRefused, MacSet,
                Reboot, Goes, rebootVars, exceptAt, confVars, RequestInv,
                SettingWifi
  <2> QED BY <1>3, <2>1, <2>2, <2>3, <2>4 DEF WifiActs
<1> QED BY <1>1, <1>2, <1>3, OutsideSteps, NextParts DEF Parts

\* Of a request of which nothing was overwritten, the fields written so far are
\* still there.
NetworkInv ==
  /\ MixedOnlyIfOverwritten
  /\ \A t \in Servers :
       SettingWifi(t) /\ req[t].intact /\ req[t].mode = "STA" =>
         /\ at[t] # "first" => conf.staKey = req[t].net
         /\ at[t] = "third" => conf.mode = "STA"

LEMMA NetworkInit == Init => NetworkInv
<1> SUFFICES ASSUME RebootInit, WifiInit PROVE NetworkInv
  BY DEF Init
<1>1. \A t \in Servers : ~SettingWifi(t)
  BY DEF RebootInit, SettingWifi, Threads
<1> QED BY <1>1 DEF WifiInit, NetworkInv, MixedOnlyIfOverwritten

\* A step that moves no thread into the AT commands and touches no setting.
LEMMA NetworkAside ==
  ASSUME NetworkInv, UNCHANGED confVars,
         \A t \in Servers :
           at'[t] \in {"first", "second", "third"} => at'[t] = at[t]
  PROVE  NetworkInv'
BY DEF NetworkInv, MixedOnlyIfOverwritten, SettingWifi, confVars

LEMMA NetworkBoot ==
  ASSUME NetworkInv, BootActs
  PROVE  NetworkInv'
<1>1. \A t \in Servers : ~SettingWifi(t)'
  BY DEF BootActs, Boots, RebootBoot, SettingWifi, Threads
<1>2. MixedOnlyIfOverwritten'
  <2>1. CASE WifiBoot(conf, FALSE) /\ UNCHANGED accepted
    <3>1. conf.mode = "STA" => conf' = conf
      BY <2>1 DEF WifiBoot, LooksForUpgrade
    <3> QED BY <2>1, <3>1 DEF NetworkInv, MixedOnlyIfOverwritten
  <2>2. CASE ReloadBoot
    BY <2>2 DEF ReloadBoot, MixedOnlyIfOverwritten
  <2> QED BY <2>1, <2>2 DEF BootActs
<1> QED BY <1>1, <1>2 DEF NetworkInv

LEMMA NetworkAsked ==
  ASSUME RebootTypeOK, WifiTypeOK, NetworkInv,
         NEW t \in Servers, NEW m \in Modes, NEW n \in Networks,
         SetWifiMode(t, m, n)
  PROVE  NetworkInv'
<1>1. UNCHANGED <<conf, accepted>> /\ at'[t] = "first"
  BY DEF SetWifiMode, Goes, RebootTypeOK, Threads
<1>2. \A u \in Servers \ {t} : at'[u] = at[u] /\ req'[u] = req[u]
  BY DEF SetWifiMode, Goes, RebootTypeOK, WifiTypeOK, Threads
<1> QED
  BY <1>1, <1>2 DEF NetworkInv, MixedOnlyIfOverwritten, SettingWifi

LEMMA NetworkCommand ==
  ASSUME RebootTypeOK, WifiTypeOK, NetworkInv,
         NEW t \in Servers, WifiCommand(t)
  PROVE  NetworkInv'
<1>1. /\ at[t] \in {"first", "second"}
      /\ conf' = AtWrites(conf, req[t], at[t]) /\ req' = Requests(t)
      /\ accepted' = IF at[t] = "first" /\ req[t].mode = "STA"
                     THEN NoNet ELSE accepted
  BY DEF WifiCommand
<1>2. /\ at'[t] = IF at[t] = "first" THEN "second" ELSE "third"
      /\ \A u \in Servers \ {t} : at'[u] = at[u]
  BY DEF WifiCommand, Goes, RebootTypeOK, Threads
<1>3. conf \in Confs /\ req[t] \in Requested
  BY DEF WifiTypeOK, Confs, Requested
<1>4. /\ conf'.staKey = IF req[t].mode = "STA" /\ at[t] = "first"
                        THEN req[t].net ELSE conf.staKey
      /\ conf'.staSsid = conf.staSsid
      /\ conf'.mode = IF req[t].mode = "STA" /\ at[t] = "second"
                      THEN "STA" ELSE conf.mode
  BY <1>1, <1>3, AtKeeps
<1>5. MixedOnlyIfOverwritten'
  BY <1>1, <1>4 DEF NetworkInv, MixedOnlyIfOverwritten
<1>6. ASSUME NEW u \in Servers,
             SettingWifi(u)', req'[u].intact, req'[u].mode = "STA"
      PROVE  /\ at'[u] # "first" => conf'.staKey = req'[u].net
             /\ at'[u] = "third" => conf'.mode = "STA"
  <2>1. /\ req'[u].net = req[u].net /\ req[u].mode = "STA"
        /\ req[u].intact /\ ~Overwrites(t, u)
    BY <1>1, <1>6, RequestsAfter
  <2>2. SettingWifi(u)
    BY <1>1, <1>2, <1>6 DEF SettingWifi
  <2>3. CASE u = t
    BY <1>1, <1>2, <1>4, <2>1, <2>2, <2>3 DEF NetworkInv
  <2>4. CASE u # t
    <3>1. at'[u] = at[u]
      BY <1>2, <2>4
    <3>2. at[u] # "first" => ~(req[t].mode = "STA" /\ at[t] = "first")
      BY <2>1, <2>2 DEF Overwrites
    <3> QED BY <1>4, <2>1, <2>2, <3>1, <3>2 DEF NetworkInv
  <2> QED BY <2>3, <2>4
<1> QED BY <1>5, <1>6 DEF NetworkInv

LEMMA NetworkAccepted ==
  ASSUME RebootTypeOK, WifiTypeOK, NetworkInv,
         NEW t \in Servers, WifiAccepted(t)
  PROVE  NetworkInv'
<1>1. /\ at[t] = "third" /\ SettingWifi(t)
      /\ conf' = AtWrites(conf, req[t], "third")
      /\ accepted' = IF req[t].mode = "STA" /\ req[t].intact
                     THEN req[t].net ELSE NoNet
      /\ req' = [Requests(t) EXCEPT ![t] = Idle]
  BY DEF WifiAccepted, WifiLast, SettingWifi
<1>2. ~SettingWifi(t)' /\ \A u \in Servers \ {t} : at'[u] = at[u]
  BY DEF WifiAccepted, WifiLast, Reboot, Goes, RebootTypeOK, Threads,
         SettingWifi
<1>3. conf \in Confs /\ req[t] \in Requested
  BY DEF WifiTypeOK, Confs, Requested
<1>4. /\ conf'.staKey = conf.staKey
      /\ conf'.staSsid = IF req[t].mode = "STA" THEN req[t].net
                                                ELSE conf.staSsid
      /\ conf'.mode = IF req[t].mode = "AP" THEN "AP" ELSE conf.mode
  BY <1>1, <1>3, AtKeeps
<1>5. MixedOnlyIfOverwritten'
  <2>1. CASE req[t].mode = "STA" /\ req[t].intact
    <3>1. conf.mode = "STA" /\ conf.staKey = req[t].net
      BY <1>1, <2>1 DEF NetworkInv
    <3> QED BY <1>1, <1>4, <2>1, <3>1 DEF MixedOnlyIfOverwritten
  <2>2. CASE ~(req[t].mode = "STA" /\ req[t].intact)
    BY <1>1, <2>2 DEF MixedOnlyIfOverwritten
  <2> QED BY <2>1, <2>2
<1>6. ASSUME NEW u \in Servers,
             SettingWifi(u)', req'[u].intact, req'[u].mode = "STA"
      PROVE  /\ at'[u] # "first" => conf'.staKey = req'[u].net
             /\ at'[u] = "third" => conf'.mode = "STA"
  <2>1. u # t /\ at'[u] = at[u] /\ SettingWifi(u)
    BY <1>2, <1>6 DEF SettingWifi
  <2>2. req'[u] = Requests(t)[u]
    BY <1>1, <2>1, RequestsAfter
  <2>3. /\ req'[u].net = req[u].net /\ req[u].mode = "STA"
        /\ req[u].intact /\ ~Overwrites(t, u)
    BY <1>6, <2>2, RequestsAfter
  <2>4. at[u] = "third" => req[t].mode # "AP"
    BY <1>1, <2>1, <2>3 DEF Overwrites
  <2> QED BY <1>4, <2>1, <2>3, <2>4 DEF NetworkInv
<1> QED BY <1>5, <1>6 DEF NetworkInv

LEMMA NetworkRefused ==
  ASSUME RebootTypeOK, WifiTypeOK, NetworkInv,
         NEW t \in Servers, WifiRefused(t)
  PROVE  NetworkInv'
<1>1. UNCHANGED <<conf, accepted>> /\ ~SettingWifi(t)'
  BY DEF WifiRefused, Goes, RebootTypeOK, Threads, SettingWifi
<1>2. \A u \in Servers \ {t} : at'[u] = at[u] /\ req'[u] = req[u]
  BY DEF WifiRefused, Goes, RebootTypeOK, WifiTypeOK, Threads
<1> QED
  BY <1>1, <1>2 DEF NetworkInv, MixedOnlyIfOverwritten, SettingWifi

LEMMA NetworkKept ==
  ASSUME RebootTypeOK, WifiTypeOK, NetworkInv, Next \/ UNCHANGED vars
  PROVE  NetworkInv'
<1>1. CASE OutsideStep
  BY <1>1, NetworkAside DEF OutsideStep, wifiVars, Threads
<1>2. CASE WifiActs
  <2>1. CASE \E t \in Servers, m \in Modes, n \in Networks :
               SetWifiMode(t, m, n)
    BY <2>1, NetworkAsked
  <2>2. CASE \E t \in Servers : \/ WifiCommand(t) \/ WifiAccepted(t)
                                \/ WifiRefused(t)
    BY <2>2, NetworkCommand, NetworkAccepted, NetworkRefused
  <2>3. CASE \/ ZoneChanges \/ ResetMarks
             \/ \E t \in Threads : ErasePage(t) \/ WritePage(t)
             \/ \E t \in Servers, m \in Macs \ {0} : ModifyMac(t, m)
             \/ \E t \in Servers : ModifyMacTail(t)
             \/ ModifyDevMac \/ MacRefused \/ MacSet
    <3>1. UNCHANGED confVars
      BY <2>3 DEF ZoneChanges, ResetMarks, ErasePage, WritePage, ModifyMac,
                  ModifyMacTail, ModifyDevMac, MacRefused, MacSet
    <3>2. \A t \in Servers :
            at'[t] \in {"first", "second", "third"} => at'[t] = at[t]
      BY <2>3 DEF ZoneChanges, ResetMarks, ErasePage, WritePage, ModifyMac,
                  ModifyMacTail, ModifyDevMac, MacRefused, MacSet, Reboot,
                  Goes, rebootVars, RebootTypeOK, Threads
    <3> QED BY <3>1, <3>2, NetworkAside
  <2> QED BY <1>2, <2>1, <2>2, <2>3 DEF WifiActs
<1> QED
  BY <1>1, <1>2, NetworkBoot, OutsideSteps, NextParts DEF Parts

LEMMA WifiTypeConf ==
  ASSUME RebootTypeOK, WifiTypeOK, RequestInv,
         \/ \E t \in Servers, m \in Modes, n \in Networks : SetWifiMode(t, m, n)
         \/ \E t \in Servers : \/ WifiCommand(t) \/ WifiAccepted(t)
                               \/ WifiRefused(t)
  PROVE  WifiTypeOK'
<1>1. UNCHANGED <<pageVars, macVars, boot>>
  BY DEF SetWifiMode, WifiCommand, WifiAccepted, WifiLast, WifiRefused
<1>2. conf' \in Confs
  <2>1. conf \in Confs
    BY DEF WifiTypeOK, Confs
  <2>2. ASSUME NEW t \in Servers, WifiCommand(t) \/ WifiAccepted(t)
        PROVE  conf' \in Confs
    <3>1. req[t] \in Requested
      BY DEF WifiTypeOK, Requested
    <3>2. req[t].net \in Networks
      BY <2>2 DEF RequestInv, SettingWifi, WifiCommand, WifiAccepted,
                  WifiLast
    <3>3. \E place : conf' = AtWrites(conf, req[t], place)
      BY <2>2 DEF WifiCommand, WifiAccepted, WifiLast
    <3> QED BY <2>1, <3>1, <3>2, <3>3, AtWritesType
  <2> QED BY <2>1, <2>2 DEF SetWifiMode, WifiRefused
<1>3. req' \in [Servers -> Requested]
  <2>1. req \in [Servers -> Requested] /\ Idle \in Requested
    BY ConfTypes DEF WifiTypeOK, Requested
  <2>2. ASSUME NEW t \in Servers, NEW m \in Modes, NEW n \in Networks,
               SetWifiMode(t, m, n)
        PROVE  req' \in [Servers -> Requested]
    <3>1. [mode |-> m, net |-> n, intact |-> TRUE] \in Requested
      BY DEF Requested
    <3> QED BY <2>1, <2>2, <3>1 DEF SetWifiMode
  <2>3. ASSUME NEW t \in Servers, WifiCommand(t) \/ WifiAccepted(t)
        PROVE  req' \in [Servers -> Requested]
    BY <2>1, <2>3, RequestsAfter DEF WifiCommand, WifiAccepted, WifiLast
  <2> QED BY <2>1, <2>2, <2>3 DEF WifiRefused
<1>4. accepted' \in Networks \cup {NoNet}
  BY DEF WifiTypeOK, SetWifiMode, WifiCommand, WifiAccepted, WifiLast,
         WifiRefused
<1> QED
  BY <1>1, <1>2, <1>3, <1>4
     DEF WifiTypeOK, Confs, Requested, pageVars, macVars

LEMMA WifiTypePage ==
  ASSUME RebootTypeOK, WifiTypeOK, ResetInv,
         ZoneChanges \/ ResetMarks
           \/ \E t \in Threads : ErasePage(t) \/ WritePage(t)
  PROVE  WifiTypeOK'
<1>1. UNCHANGED <<confVars, macVars, boot>>
  BY DEF ZoneChanges, ResetMarks, ErasePage, WritePage
<1>2. mark' \in {0, 1}
  BY DEF WifiTypeOK, ZoneChanges, ResetMarks, ErasePage, WritePage
<1>3. torn' \in BOOLEAN
  <2>1. torn \in BOOLEAN /\ WritingPage("udp") \in BOOLEAN
    BY DEF WifiTypeOK, WritingPage
  <2>2. \/ torn' = torn \/ torn' = WritingPage("udp")
        \/ torn' = (torn \/ app \in {"reset", "reload"})
    BY DEF ZoneChanges, ResetMarks, ErasePage, WritePage
  <2> QED BY <2>1, <2>2
<1>4. buf' \in [Writers -> {0, 1}]
  BY DEF WifiTypeOK, ZoneChanges, ResetMarks, ErasePage, WritePage
<1>5. page' \in {0, 1, Erased}
  <2>1. ASSUME NEW t \in Threads, WritePage(t)
        PROVE  page' \in {0, 1, Erased}
    <3>1. t \in Writers
      BY <2>1 DEF WritePage, ResetInv, WritingPage, Threads, Servers, Writers
    <3>2. buf[t] \in {0, 1}
      BY <3>1 DEF WifiTypeOK
    <3> QED BY <2>1, <3>2 DEF WritePage, Programmed, WifiTypeOK
  <2> QED BY <2>1 DEF ZoneChanges, ResetMarks, ErasePage, WifiTypeOK
<1> QED BY <1>1, <1>2, <1>3, <1>4, <1>5 DEF WifiTypeOK, confVars, macVars

LEMMA WifiTypeMac ==
  ASSUME RebootTypeOK, WifiTypeOK,
         \/ \E t \in Servers, m \in Macs \ {0} : ModifyMac(t, m)
         \/ \E t \in Servers : ModifyMacTail(t)
         \/ ModifyDevMac \/ MacRefused \/ MacSet
  PROVE  WifiTypeOK'
<1>1. UNCHANGED <<confVars, pageVars, boot>>
  BY DEF ModifyMac, ModifyMacTail, ModifyDevMac, MacRefused, MacSet
<1>2. mac' \in Macs \X Macs
  BY DEF ModifyMac, ModifyMacTail, ModifyDevMac, MacRefused, MacSet, WifiTypeOK
<1>3. newMac' \in [Servers -> Macs]
  BY DEF ModifyMac, ModifyMacTail, ModifyDevMac, MacRefused, MacSet,
         WifiTypeOK, Macs
<1>4. macFlag' \in BOOLEAN
  BY DEF ModifyMac, ModifyMacTail, ModifyDevMac, MacRefused, MacSet, WifiTypeOK
<1>5. macConf' \in Macs \X Macs
  BY DEF ModifyMac, ModifyMacTail, ModifyDevMac, MacRefused, MacSet, WifiTypeOK
<1>6. sentMac' \in (Macs \X Macs) \cup {NoMac}
  BY DEF ModifyMac, ModifyMacTail, ModifyDevMac, MacRefused, MacSet, WifiTypeOK
<1> QED
  BY <1>1, <1>2, <1>3, <1>4, <1>5, <1>6 DEF WifiTypeOK, confVars, pageVars

LEMMA WifiTypeBoot ==
  ASSUME WifiTypeOK, BootActs
  PROVE  WifiTypeOK'
<1>1. PICK c \in Confs, reset \in BOOLEAN : WifiBoot(c, reset)
  <2>1. conf \in Confs
    BY DEF WifiTypeOK, Confs
  <2>2. CASE WifiBoot(conf, FALSE)
    BY <2>1, <2>2
  <2>3. CASE ReloadBoot
    BY <2>3, ConfTypes DEF ReloadBoot
  <2> QED BY <2>2, <2>3 DEF BootActs
<1>2. accepted' \in Networks \cup {NoNet}
  BY DEF BootActs, ReloadBoot, WifiTypeOK
<1>3. mark' \in {0, 1} /\ UNCHANGED <<page, torn, macConf>>
  BY <1>1 DEF WifiBoot, WifiTypeOK
<1>4. conf' \in Confs
  BY <1>1, ConfTypes DEF WifiBoot
<1>5. boot' \in BootsSeen
  BY <1>1, <1>4, ConfTypes DEF WifiBoot
<1>6. req' \in [Servers -> Requested] /\ buf' \in [Writers -> {0, 1}]
  BY <1>1, ConfTypes DEF WifiBoot
<1>7. mac' \in Macs \X Macs /\ sentMac' \in (Macs \X Macs) \cup {NoMac}
  BY <1>1 DEF WifiBoot, WifiTypeOK
<1>8. newMac' \in [Servers -> Macs]
  BY <1>1 DEF WifiBoot, Macs
<1>9. macFlag' \in BOOLEAN
  BY <1>1 DEF WifiBoot
<1> QED
  BY <1>2, <1>3, <1>4, <1>5, <1>6, <1>7, <1>8, <1>9
     DEF WifiTypeOK, Confs, Requested, BootsSeen

LEMMA WifiTypeKept ==
  ASSUME RebootTypeOK, WifiTypeOK, ResetInv, RequestInv,
         Next \/ UNCHANGED vars
  PROVE  WifiTypeOK'
<1>1. CASE OutsideStep
  BY <1>1 DEF OutsideStep, wifiVars, confVars, pageVars, macVars, WifiTypeOK
<1>2. CASE WifiActs
  BY <1>2, WifiTypeConf, WifiTypePage, WifiTypeMac DEF WifiActs
<1> QED
  BY <1>1, <1>2, WifiTypeBoot, OutsideSteps, NextParts DEF Parts

-----------------------------------------------------------------------------
(* The theorems *)

LEMMA LeftKept ==
  ASSUME left \in [Inputs -> Nat], Next \/ UNCHANGED vars
  PROVE  left' \in [Inputs -> Nat]
<1>1. ASSUME NEW what \in Inputs, Spend(what)
      PROVE  left' \in [Inputs -> Nat]
  <2>1. left[what] - 1 \in Nat
    BY <1>1 DEF Spend
  <2> QED BY <1>1, <2>1 DEF Spend
<1>2. CASE Asked
  BY <1>1, <1>2 DEF Asked, Inputs
<1>3. CASE Faults
  BY <1>1, <1>3 DEF Faults, Inputs
<1>4. CASE PowerFails
  BY <1>1, <1>4 DEF PowerFails, Inputs
<1> QED
  BY <1>2, <1>3, <1>4
     DEF Next, App, Restarts, Reloads, Receive, Sender, Stores, Clock, Serve,
         vars

\* What every reachable state satisfies.
IInv ==
  /\ TypeOK /\ TimerInv /\ AcceptedPends
  /\ UdpInv /\ ResetInv /\ RequestInv /\ NetworkInv

LEMMA Invariance == Spec => []IInv
<1>1. Init => IInv
  <2>1. Init => AcceptedPends
    BY DEF Init, RebootInit, AcceptedPends
  <2> QED
    BY <2>1, TimerInit, FwTypeInit, UdpInit, WifiTypeInit, ResetInit,
       RequestInit, NetworkInit, BudgetAssumption
       DEF Init, IInv, TypeOK
<1>2. IInv /\ [Next]_vars => IInv'
  <2> SUFFICES ASSUME IInv, Next \/ UNCHANGED vars
               PROVE  IInv'
    OBVIOUS
  <2>1. RebootTypeOK' /\ TimerInv' /\ AcceptedPends'
    BY TimerSteps, TimerKept, PendsKept DEF IInv, TypeOK, ResetInv
  <2>2. UdpInv' /\ FwTypeOK'
    BY UdpKept, FwTypeKept DEF IInv, TypeOK
  <2>3. ResetInv' /\ RequestInv' /\ NetworkInv' /\ WifiTypeOK'
    BY ResetKept, RequestKept, NetworkKept, WifiTypeKept DEF IInv, TypeOK
  <2>4. left' \in [Inputs -> Nat]
    BY LeftKept DEF IInv, TypeOK
  <2> QED BY <2>1, <2>2, <2>3, <2>4 DEF IInv, TypeOK
<1> QED BY <1>1, <1>2, PTL DEF Spec

\* The state stays well typed; in particular the lengths and sums of an update
\* stay in their ranges whatever packets come.
THEOREM MaintenanceTypeCorrect == Spec => []TypeOK
BY Invariance, PTL DEF IInv

\* Reboot's three writes and the timer's countdown: a command that comes alone
\* is not carried out before its delay is over.
THEOREM CommandsWait == Spec => []NotEarly
<1>1. IInv => NotEarly
  BY DEF IInv, TimerInv, NotEarly
<1> QED BY Invariance, <1>1, PTL

\* Reboot and RestartPoll: whatever threads overlap in Reboot and in the word of
\* flags, an accepted command stays pending until the application thread has
\* taken it.
THEOREM AcceptedCommandsPend == Spec => []AcceptedPends
BY Invariance, PTL DEF IInv

\* SetWifiMode and DevMode_Init: an accepted network is and stays set in full,
\* also when requests overlap, unless another's key or AP mode was written over
\* its own before its last command, or another writes later.
THEOREM AcceptedUnlessOverwritten == Spec => []MixedOnlyIfOverwritten
<1>1. IInv => MixedOnlyIfOverwritten
  BY DEF IInv, NetworkInv
<1> QED BY Invariance, <1>1, PTL

\* UdpUpdateAppFwAsSlave: for every image of which no set of blocks can be
\* missed without changing the sum, what is handed over is the whole image.
THEOREM UdpImageIsWhole == Spec => []UdpHandsOverWhole
<1>1. IInv => UdpHandsOverWhole
  BY DEF IInv, UdpInv
<1> QED BY Invariance, <1>1, PTL

\* FlashResetFactory leads to smart link, unless another writer of the page
\* overlaps it.
THEOREM ResetEntersSmartLink == Spec => []ResetLeadsToSmartLink
<1>1. IInv => ResetLeadsToSmartLink
  BY DEF IInv, ResetInv
<1> QED BY Invariance, <1>1, PTL
=============================================================================
