----------------------------- MODULE StripPorts -----------------------------
(***************************************************************************)
(* How the ports of the strip are switched.                                *)
(*                                                                         *)
(* The relays belong to the slave MCU (external: its firmware is not in    *)
(* this repository).  The WiFi module keeps a belief about them in RAM,    *)
(* PortInfor[].OnOffStatus, and a byte SwOnOffData packed from it.  Every  *)
(* actor that wants to switch one port updates the belief, repacks the     *)
(* WHOLE byte and sends it over the UART; the slave applies all of it.     *)
(* The module learns what the relays really do only from the status report *)
(* it polls every other second, which it merges into the same RAM.         *)
(*                                                                         *)
(* The actors, none of which takes a lock:                                 *)
(*   Clients   the UDP and the HTTP thread, running Switch_Ctl             *)
(*   app       the application thread, running Reboot_Control              *)
(*   timer     the 1 s timer: polls, masterSlaveControl, over-current      *)
(*   uart      the UART receive callback                                   *)
(*   key       the key scan in the 2 ms timer                              *)
(* A handler is one step up to each call that lets another actor in        *)
(* (hfuart_send, msleep).  The |= and &= of a packing loop are taken as     *)
(* one step: they touch only RAM and last a few instructions.              *)
(***************************************************************************)
EXTENDS PortMask, Sequences, FiniteSets

CONSTANTS
  Clients,        \* threads that run Switch_Ctl
  Udp,            \* the one that also sets the roles of the ports
  MsTypes,        \* the values of PortInfor[].msType that are set:
                  \* 1 master, 0 slave, 2 neither
  Reboots,        \* the values of rebootPort and isRebootEnable that are set
  BootImages,     \* the OnOffStatus values ReadDevStatus may load from flash
  BootRelays,     \* external: the relays the slave may start with
  Load,           \* current drawn by the appliance on each port
  Limit,          \* OverCurrentValueArr[iStandard]
  ConfirmCount,   \* CONFIRM_COUNT
  Warmup,         \* ticks before masterSlaveControl runs (5 in the code)
  Cap,            \* bound: messages in a UART direction
  Budgets         \* bounds: how many inputs of each kind come, and how many
                  \* frames noise spoils

\* Commands, settings, keys, appliances switched, Wi-Fi lost or back, restarts
\* and spoiled frames.
Inputs == {"cmd", "set", "key", "load", "wifi", "restart", "loss"}

ASSUME StripAssumption ==
  /\ Udp \in Clients
  /\ MsTypes \subseteq [Ports -> 0 .. 2]
  /\ Reboots \subseteq [ports : SUBSET Ports, enable : BOOLEAN]
  /\ BootImages \subseteq [Ports -> OnOffValues]
  /\ BootRelays \subseteq SUBSET Ports
  /\ Load \in [Ports -> Nat \ {0}]
  /\ Limit \in Nat
  /\ ConfirmCount \in Nat \ {0}
  /\ Warmup \in Nat
  /\ Cap \in Nat
  /\ Budgets \subseteq [Inputs -> Nat]

VARIABLES
  relay,      \* external: the ports the slave really powers
  active,     \* external: the ports whose appliance draws current when powered
  onoff,      \* PortInfor[].OnOffStatus
  cur0,       \* PortInfor[0].CurStatus, which only the key handler reads
  mask,       \* SwOnOffData
  toSlave,    \* frames sent and not yet taken by the slave
  toModule,   \* frames the slave sent and the callback has not taken
  sending,    \* clients between SetPortState and UsartControlPortOnOff
  msType,     \* PortInfor[].msType
  reboot,     \* the ports with rebootPort = 1, and isRebootEnable
  app,        \* where the application thread is in Reboot_Control
  wifi,       \* WIFI_WORK_NORMAL: nothing in the repository raises it
  lastWifi,   \* the static LastState of Reboot_Control
  timer,      \* where the 1 s timer callback is
  dataTurn,   \* readDataStatusMark
  ticks,      \* TimerCount, which matters up to Warmup
  drawing,    \* ports with record_ValidCurrent # 0, as last read
  powered,    \* ports with record_ValidPower # 0, as last read
  msCur, msLast,  \* the statics of masterSlaveControl
  confirm,    \* the static confirmCount
  trip,       \* the local maxID of OverCurrentProtectPoll
  order,      \* history: the last order on a port that still stands
  sent,       \* history: the last byte handed to the UART
  left        \* bounds: inputs still allowed

NoOrder == 2

belief == <<onoff, cur0, mask, order>>
appVars == <<app, wifi, lastWifi>>
timerVars == <<timer, dataTurn, ticks, msCur, msLast, confirm, trip>>
meter == <<drawing, powered>>
roles == <<msType, reboot>>
records == <<meter, roles>>
world == <<relay, active>>
link == <<toSlave, toModule, sent>>
vars == <<belief, sending, appVars, timerVars, records, world, link, left>>

Frame  == [cmd : {"switch", "readState", "readData"}, bits : SUBSET MaskBits]
Answer == [cmd : {"state", "data"}, bits : SUBSET Ports]
Switch(m) == [cmd |-> "switch", bits |-> m]
Ask(what) == [cmd |-> what, bits |-> {}]

Spend(what) == left[what] > 0 /\ left' = [left EXCEPT ![what] = @ - 1]

TypeOK ==
  /\ relay \subseteq Ports /\ active \subseteq Ports
  /\ onoff \in [Ports -> OnOffValues]
  /\ cur0 \in {0, 1}
  /\ mask \subseteq MaskBits
  /\ toSlave \in Seq(Frame) /\ toModule \in Seq(Answer)
  /\ sending \subseteq Clients
  /\ msType \in [Ports -> 0 .. 2]
  /\ reboot \in [ports : SUBSET Ports, enable : BOOLEAN]
  /\ app \in {"idle", "sendOff", "wait", "sendOn"}
  /\ wifi \in BOOLEAN /\ lastWifi \in BOOLEAN
  /\ timer \in {"idle", "ms", "msSend", "msAgain", "over", "trip"}
  /\ dataTurn \in BOOLEAN /\ ticks \in 0 .. Warmup
  /\ drawing \subseteq Ports /\ powered \subseteq Ports
  /\ msCur \in {0, 1} /\ msLast \in {0, 1}
  /\ confirm \in 0 .. ConfirmCount - 1
  /\ trip \in Ports
  /\ order \in [Ports -> 0 .. NoOrder]
  /\ sent \subseteq MaskBits
  /\ left \in [Inputs -> Nat]

RamAtBoot ==
  /\ mask' = {} /\ sending' = {} /\ app' = "idle" /\ lastWifi' = FALSE
  /\ wifi' = FALSE /\ timer' = "idle" /\ dataTurn' = FALSE /\ ticks' = 0
  /\ drawing' = {} /\ powered' = {} /\ msCur' = 0 /\ msLast' = 0
  /\ confirm' = 0 /\ trip' = 0 /\ order' = [p \in Ports |-> NoOrder]
  /\ toModule' = <<>> /\ sent' = {}

Init ==
  /\ relay \in BootRelays /\ active \in SUBSET Ports
  /\ onoff \in BootImages /\ cur0 \in {0, 1} /\ mask = {}
  /\ toSlave = <<>> /\ toModule = <<>> /\ sent = {}
  /\ sending = {} /\ app = "idle" /\ wifi = FALSE /\ lastWifi = FALSE
  /\ timer = "idle" /\ dataTurn = FALSE /\ ticks = 0
  /\ drawing = {} /\ powered = {} /\ msCur = 0 /\ msLast = 0
  /\ confirm = 0 /\ trip = 0
  /\ order = [p \in Ports |-> NoOrder]
  /\ msType \in MsTypes /\ reboot \in Reboots
  /\ left \in Budgets
-----------------------------------------------------------------------------
(* Switching ports in RAM *)

\* The orders left standing once the byte is packed from status st: a latched
\* port below turns the bit of a latched port on again.
Kept(st) == [p \in Ports |-> IF p \in Spilled(st) THEN NoOrder ELSE order[p]]

\* SetPortState that writes the byte and not the status.
SetOnlyByte(P, s) ==
  /\ mask' = IF s = 1 THEN mask \cup P ELSE mask \ P
  /\ order' = Given(order, P, s)
  /\ UNCHANGED <<onoff, cur0>>

\* SetPortState: P is all the ports or one of them.
SetPortState(P, s) ==
  /\ onoff' = Given(onoff, P, s)
  /\ mask' = Pack(mask, onoff')
  /\ cur0' = IF 0 \in P THEN s ELSE cur0
  /\ order' = Given(Kept(onoff'), P, s)

\* A loop of SetPortState calls over the ports of P.
SetEach(P, s) ==
  /\ onoff' = Given(onoff, P, s)
  /\ mask' = PackEach(mask, onoff, P, s)
  /\ cur0' = IF 0 \in P THEN s ELSE cur0
  /\ order' = Given(Kept(onoff), P, s)

Send(frame) == Len(toSlave) < Cap /\ toSlave' = Append(toSlave, frame)

\* UsartControlPortOnOff: the frame carries whatever the byte is by then.
UsartControlPortOnOff ==
  /\ Send(Switch(mask))
  /\ sent' = mask
  /\ UNCHANGED toModule
-----------------------------------------------------------------------------
(* The UDP and the HTTP thread *)

\* Switch_Ctl up to the send: port is 0 for all the ports, or 1 .. N.  "Off"
\* clears the readings at index port, the record of the port above.
Switch_Ctl(t, port, state) ==
  /\ t \notin sending
  /\ Spend("cmd")
  /\ LET cleared == IF state = 0 THEN {port} ELSE {}
     IN  drawing' = drawing \ cleared /\ powered' = powered \ cleared
  /\ SetPortState(IF port = 0 THEN Ports ELSE {port - 1}, state)
  /\ sending' = sending \cup {t}
  /\ UNCHANGED <<roles, appVars, timerVars, world, link>>

\* The rest of Switch_TurnOnOff.
Switch_Send(t) ==
  /\ t \in sending
  /\ UsartControlPortOnOff
  /\ sending' = sending \ {t}
  /\ UNCHANGED <<belief, appVars, timerVars, records, world, left>>

\* UdpSetHostSlave and UdpSetDevReboot: the roles of the ports, at any time.
Setting ==
  /\ Udp \notin sending
  /\ Spend("set")
  /\ UNCHANGED <<belief, sending, meter, appVars, timerVars, world, link>>

UdpSetHostSlave(types) == Setting /\ msType' = types /\ UNCHANGED reboot

UdpSetDevReboot(ports) == Setting /\ reboot' = ports /\ UNCHANGED msType
-----------------------------------------------------------------------------
(* The UART callback: a frame with a bad checksum is dropped *)

Arrived(cmd) == toModule # <<>> /\ Head(toModule).cmd = cmd

\* A report that does not correct a port an order stands for.
ReportKeepsOrders ==
  /\ Arrived("state")
  /\ toModule' = Tail(toModule)
  /\ onoff' = [p \in Ports |-> IF order[p] # NoOrder THEN onoff[p]
                              ELSE IF p \in Head(toModule).bits THEN 1 ELSE 0]
  /\ mask' = Pack(mask, onoff')
  /\ UNCHANGED <<cur0, order, toSlave, sent, sending, appVars, timerVars,
                 records, world, left>>

\* getPortState: the loop packs each OLD status before it takes the new one.
getPortState ==
  /\ Arrived("state")
  /\ toModule' = Tail(toModule)
  /\ LET bits == Head(toModule).bits
     IN  /\ mask' = Pack(mask, onoff)
         /\ onoff' = [p \in Ports |-> IF p \in bits THEN 1 ELSE 0]
         /\ order' = [p \in Ports |->
                        IF Kept(onoff)[p] = onoff'[p] THEN order[p] ELSE NoOrder]
  /\ UNCHANGED <<cur0, toSlave, sent, sending, appVars, timerVars, records,
                 world, left>>

getPortData ==
  /\ Arrived("data")
  /\ toModule' = Tail(toModule)
  /\ drawing' = Head(toModule).bits
  /\ powered' = {p \in Head(toModule).bits : onoff[p] # 0}
  /\ UNCHANGED <<belief, toSlave, sent, sending, roles, appVars, timerVars,
                 world, left>>

\* A frame that noise spoils is dropped by the receiver, at either end.
LoseAtModule ==
  /\ toModule # <<>> /\ Spend("loss")
  /\ toModule' = Tail(toModule)
  /\ UNCHANGED <<belief, toSlave, sent, sending, appVars, timerVars, records,
                 world>>

LoseAtSlave ==
  /\ toSlave # <<>> /\ Spend("loss")
  /\ toSlave' = Tail(toSlave)
  /\ UNCHANGED <<belief, toModule, sent, sending, appVars, timerVars, records,
                 world>>
-----------------------------------------------------------------------------
(* The 1 s timer: app_timer_callback1 polls the slave, data and state in    *)
(* turn, then runs masterSlaveControl (data turns) and the protection.      *)

Total == MapThenSumSet(LAMBDA p : Load[p], drawing)

\* maxID: the first of the ports with the largest reading.
IsMaxID(p) ==
  IF drawing = {} THEN p = 0
  ELSE /\ p \in drawing
       /\ \A q \in drawing : Load[q] < Load[p] \/ (Load[q] = Load[p] /\ p <= q)

Masters == {p \in Ports : msType[p] = 1}     \* findMasterPort takes the first
Slaves  == {p \in Ports : msType[p] = 0}

app_timer_callback1 ==
  /\ timer = "idle"
  /\ dataTurn' = ~dataTurn
  /\ Send(Ask(IF dataTurn' THEN "readData" ELSE "readState"))
  /\ ticks' = IF ticks < Warmup THEN ticks + 1 ELSE ticks
  /\ timer' = IF dataTurn' /\ ticks = Warmup THEN "ms" ELSE "over"
  /\ UNCHANGED <<belief, toModule, sent, sending, appVars, msCur, msLast,
                 confirm, trip, records, world, left>>

masterSlaveControl ==
  /\ timer = "ms"
  /\ msCur' = IF Masters = {} THEN msCur
              ELSE IF Min(Masters) \in powered THEN 1 ELSE 0
  /\ IF Masters = {} \/ msCur' = msLast
       THEN timer' = "over" /\ UNCHANGED belief
       ELSE /\ timer' = "msSend"
            /\ SetEach({p \in Slaves : onoff[p] = 1 - msCur'}, msCur')
  /\ UNCHANGED <<dataTurn, ticks, msLast, confirm, trip, sending, appVars,
                 records, world, link, left>>

\* The first of its two sends; msleep(500) follows.
MsSend ==
  /\ timer = "msSend"
  /\ UsartControlPortOnOff
  /\ timer' = "msAgain"
  /\ UNCHANGED <<belief, dataTurn, ticks, msCur, msLast, confirm, trip,
                 sending, appVars, records, world, left>>

\* The second send without msLastState = msCurState.
MsSendNoNote ==
  /\ timer = "msAgain"
  /\ UsartControlPortOnOff
  /\ timer' = "over"
  /\ UNCHANGED <<belief, dataTurn, ticks, msCur, msLast, confirm, trip, sending,
                 appVars, records, world, left>>

MsSendAgain ==
  /\ timer = "msAgain"
  /\ UsartControlPortOnOff
  /\ timer' = "over"
  /\ msLast' = msCur
  /\ UNCHANGED <<belief, dataTurn, ticks, msCur, confirm, trip, sending,
                 appVars, records, world, left>>

\* confirmCount, not reset by a trip.
CountOn(count) == count

\* confirmCount after a poll.
NextConfirm(count) == IF count >= ConfirmCount THEN 0 ELSE count

\* It counts ticks, not readings, and clears the count however the test of
\* the port's status ends.
OverCurrentProtectPoll ==
  /\ timer = "over"
  /\ LET count == IF Total > Limit THEN confirm + 1 ELSE 0
     IN  /\ confirm' = NextConfirm(count)
         /\ \E maxID \in Ports :
              /\ IsMaxID(maxID)
              /\ IF count >= ConfirmCount /\ onoff[maxID] # 0
                   THEN timer' = "trip" /\ trip' = maxID /\ SetPortState({maxID}, 0)
                   ELSE timer' = "idle" /\ UNCHANGED <<trip, belief>>
  /\ UNCHANGED <<dataTurn, ticks, msCur, msLast, sending, appVars, records,
                 world, link, left>>

\* The latch of a trip that was never sent.
LatchNoSend ==
  /\ timer = "trip"
  /\ onoff' = [onoff EXCEPT ![trip] = OverCurrent]
  /\ timer' = "idle"
  /\ UNCHANGED <<cur0, mask, order, dataTurn, ticks, msCur, msLast, confirm,
                 trip, sending, appVars, records, world, link, left>>

\* The send, then OnOffStatus = OVER_CURRENT_STATUS, whatever it was by then.
LatchOverCurrent ==
  /\ timer = "trip"
  /\ UsartControlPortOnOff
  /\ onoff' = [onoff EXCEPT ![trip] = OverCurrent]
  /\ timer' = "idle"
  /\ UNCHANGED <<cur0, mask, order, dataTurn, ticks, msCur, msLast, confirm,
                 trip, sending, appVars, records, world, left>>
-----------------------------------------------------------------------------
(* The key on the module: in this build it only changes RAM                 *)

KeyTurnOnOffSwitch ==
  /\ Spend("key")
  /\ cur0' = 1 - cur0
  /\ onoff' = [onoff EXCEPT ![0] = cur0']
  /\ order' = [order EXCEPT ![0] = NoOrder]
  /\ UNCHANGED <<mask, sending, appVars, timerVars, records, world, link>>
-----------------------------------------------------------------------------
(* The application thread: Reboot_Control, once a minute                    *)

AppUnchanged == UNCHANGED <<wifi, sending, timerVars, records, world, left>>

Reboot_Control ==
  /\ app = "idle" /\ reboot.enable /\ wifi # lastWifi
  /\ IF wifi
       THEN lastWifi' = TRUE /\ UNCHANGED <<app, belief>>
       ELSE app' = "sendOff" /\ SetEach(reboot.ports, 0) /\ UNCHANGED lastWifi
  /\ UNCHANGED link /\ AppUnchanged

RebootSendOff ==
  /\ app = "sendOff"
  /\ UsartControlPortOnOff
  /\ app' = "wait"
  /\ UNCHANGED <<belief, lastWifi>> /\ AppUnchanged

\* msleep(8000), then the ports come back on.
RebootTurnOn ==
  /\ app = "wait"
  /\ SetEach(reboot.ports, 1)
  /\ app' = "sendOn"
  /\ UNCHANGED <<lastWifi, link>> /\ AppUnchanged

RebootSendOn ==
  /\ app = "sendOn"
  /\ UsartControlPortOnOff
  /\ app' = "idle" /\ lastWifi' = FALSE
  /\ UNCHANGED belief /\ AppUnchanged
-----------------------------------------------------------------------------
(* The slave MCU and the world (external)                                   *)

SlaveUnchanged ==
  UNCHANGED <<belief, sent, sending, appVars, timerVars, records>>

Asked(cmd) == toSlave # <<>> /\ Head(toSlave).cmd = cmd

Report(cmd, bits) ==
  /\ Len(toModule) < Cap
  /\ toModule' = Append(toModule, [cmd |-> cmd, bits |-> bits])

SlaveSwitch ==
  /\ Asked("switch")
  /\ toSlave' = Tail(toSlave)
  /\ relay' = Head(toSlave).bits \cap Ports
  /\ UNCHANGED <<active, toModule, left>> /\ SlaveUnchanged

SlaveState ==
  /\ Asked("readState")
  /\ toSlave' = Tail(toSlave)
  /\ Report("state", relay)
  /\ UNCHANGED <<world, left>> /\ SlaveUnchanged

SlaveData ==
  /\ Asked("readData")
  /\ toSlave' = Tail(toSlave)
  /\ Report("data", relay \cap active)
  /\ UNCHANGED <<world, left>> /\ SlaveUnchanged

\* A press of a port's own button; the slave reports it unasked.
SlaveKey(p) ==
  /\ Spend("key")
  /\ relay' = IF p \in relay THEN relay \ {p} ELSE relay \cup {p}
  /\ Report("state", relay')
  /\ UNCHANGED <<active, toSlave>> /\ SlaveUnchanged

Appliance(p) ==
  /\ Spend("load")
  /\ active' = IF p \in active THEN active \ {p} ELSE active \cup {p}
  /\ UNCHANGED <<relay, toSlave, toModule>> /\ SlaveUnchanged

WifiChanges ==
  /\ Spend("wifi")
  /\ wifi' = ~wifi
  /\ UNCHANGED <<belief, app, lastWifi, sending, timerVars, records, world,
                 link>>

\* The module restarts with the settings of any save; the slave, its relays and
\* the line go on.
Restart ==
  /\ Spend("restart")
  /\ RamAtBoot
  /\ onoff' \in BootImages /\ cur0' \in {0, 1}
  /\ msType' \in MsTypes /\ reboot' \in Reboots
  /\ UNCHANGED <<world, toSlave>>
-----------------------------------------------------------------------------
Serve(t) == \/ \E port \in 0 .. N, state \in {0, 1} : Switch_Ctl(t, port, state)
            \/ Switch_Send(t)
            \/ t = Udp /\ \E types \in MsTypes : UdpSetHostSlave(types)
            \/ t = Udp /\ \E ports \in Reboots : UdpSetDevReboot(ports)
Client == \E t \in Clients : Serve(t)
Uart == getPortState \/ getPortData \/ LoseAtModule \/ LoseAtSlave
TimerWork == \/ masterSlaveControl \/ MsSend \/ MsSendAgain
             \/ OverCurrentProtectPoll \/ LatchOverCurrent
App == Reboot_Control \/ RebootSendOff \/ RebootTurnOn \/ RebootSendOn
Slave == SlaveSwitch \/ SlaveState \/ SlaveData
People == \/ KeyTurnOnOffSwitch \/ WifiChanges
          \/ \E p \in Ports : SlaveKey(p) \/ Appliance(p)

Others == Client \/ Uart \/ TimerWork \/ App \/ Slave \/ People \/ Restart

Next == app_timer_callback1 \/ Others

Spec == Init /\ [][Next]_vars

(* Liveness needs the pace of the line: at 115200 baud an exchange takes    *)
(* milliseconds, so it is over when the next tick comes, a second later.    *)
Quiet == toSlave = <<>> /\ toModule = <<>>
PacedTick == Quiet /\ app_timer_callback1
PacedNext == PacedTick \/ Others

\* The threads, the timer and the slave run.  A send needs strong fairness
\* only because a full line (bound Cap) blocks it here.
Fairness ==
  /\ \A t \in Clients : SF_vars(Switch_Send(t))
  /\ SF_vars(App) /\ WF_vars(PacedTick) /\ WF_vars(TimerWork)
  /\ WF_vars(Slave) /\ WF_vars(getPortState) /\ WF_vars(getPortData)

FairSpec == Init /\ [][PacedNext]_vars /\ Fairness
-----------------------------------------------------------------------------
(* Properties *)

\* An order stands in the byte: a port some actor switched (Switch_Ctl,
\* masterSlaveControl, Reboot_Control, the protection) keeps the bit it was
\* given through every other actor's packing, until a report contradicts it,
\* the module's key overrides it or a latched neighbour spills onto it.
OrderStands ==
  \A p \in Ports : order[p] # NoOrder => (p \in mask <=> order[p] = 1)

\* The status of an ordered port is the order, or the over-current latch.
OrderKnown ==
  \A p \in Ports : order[p] # NoOrder => onoff[p] \in {order[p], OverCurrent}

Sending == sending # {} \/ app \in {"sendOff", "sendOn"}
                        \/ timer \in {"msSend", "trip"}

\* No order is left unsent and none is undone by a frame that overtakes it:
\* once every actor is past its send, the last frame carries all the orders.
OrdersWereSent ==
  ~Sending => \A p \in Ports : order[p] # NoOrder
                                 => (p \in sent <=> order[p] = 1)

\* Belief and relays agree in the end: with no more input, the reports make
\* OnOffStatus and the byte equal to what the slave does, lost frames or not.
Agree == /\ mask \cap Ports = relay
         /\ \A p \in Ports : onoff[p] = (IF p \in relay THEN 1 ELSE 0)
Converges == <>[]Agree

\* The protection works: an overload does not last, even when its frames are
\* lost and other actors switch ports while it confirms.
Drawn == MapThenSumSet(LAMBDA p : Load[p], relay \cap active)
OverloadRelieved == <>[](Drawn <= Limit)

\* masterSlaveControl does not miss an edge of the master for good.
MasterTracked ==
  <>[](Masters # {} => (msLast = 1 <=> Min(Masters) \in relay \cap active))
=============================================================================
