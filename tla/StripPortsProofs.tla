-------------------------- MODULE StripPortsProofs --------------------------
(***************************************************************************)
(* What holds of StripPorts for any number of ports and of threads, any    *)
(* saved image, any loads and any bounds.                                  *)
(***************************************************************************)
EXTENDS StripPorts, TLAPS

-----------------------------------------------------------------------------
(* The packing loop, for a status st and whatever the byte m held *)

LEMMA GivenType ==
  ASSUME NEW st \in [Ports -> OnOffValues], NEW P, NEW s \in {0, 1}
  PROVE  Given(st, P, s) \in [Ports -> OnOffValues]
BY DEF Given, OnOffValues

LEMMA PackType ==
  ASSUME NEW m \in SUBSET MaskBits, NEW st \in [Ports -> OnOffValues]
  PROVE  Pack(m, st) \in SUBSET MaskBits
BY NAssumption DEF Pack, Ports, MaskBits

\* The bit of a port after the loop: set or cleared by 1 or 0, kept by the
\* latch 2 unless the latch of the port below spills onto it.
LEMMA PackBits ==
  ASSUME NEW m \in SUBSET MaskBits, NEW st \in [Ports -> OnOffValues],
         NEW p \in Ports
  PROVE  /\ st[p] = 1 => p \in Pack(m, st)
         /\ st[p] = 0 => p \notin Pack(m, st)
         /\ st[p] = OverCurrent /\ p \notin Spilled(st)
              => (p \in Pack(m, st) <=> p \in m)
<1>1. p # N
  BY NAssumption DEF Ports
<1> QED
  BY <1>1 DEF Pack, OverCurrent

LEMMA PackEachType ==
  ASSUME NEW m \in SUBSET MaskBits, NEW st \in [Ports -> OnOffValues],
         NEW P, NEW s \in {0, 1}
  PROVE  PackEach(m, st, P, s) \in SUBSET MaskBits
<1> DEFINE first == Given(st, {p \in P : p = Min(P)}, s)
<1>1. /\ first \in [Ports -> OnOffValues]
      /\ Given(st, P, s) \in [Ports -> OnOffValues]
  BY GivenType
<1>2. Pack(m, first) \in SUBSET MaskBits
  BY <1>1, PackType
<1> QED
  BY <1>1, <1>2, PackType DEF PackEach

\* A loop of SetPortState calls leaves the bits of its ports as they were
\* given, and the bit of any other port as one packing would.
LEMMA PackEachBits ==
  ASSUME NEW m \in SUBSET MaskBits, NEW st \in [Ports -> OnOffValues],
         NEW P, NEW s \in {0, 1}, NEW p \in Ports
  PROVE  LET end == Given(st, P, s)
         IN  /\ end[p] = 1 => p \in PackEach(m, st, P, s)
             /\ end[p] = 0 => p \notin PackEach(m, st, P, s)
             /\ end[p] = OverCurrent /\ p \notin Spilled(st)
                  => (p \in PackEach(m, st, P, s) <=> p \in m)
<1> DEFINE first == Given(st, {q \in P : q = Min(P)}, s)
           end   == Given(st, P, s)
<1>1. first \in [Ports -> OnOffValues] /\ end \in [Ports -> OnOffValues]
  BY GivenType
<1>2. Pack(m, first) \in SUBSET MaskBits
  BY <1>1, PackType
<1>3. end[p] = OverCurrent => p \notin P /\ first[p] = OverCurrent
  BY DEF Given, OverCurrent
<1>4. p \notin Spilled(st) => p \notin Spilled(first) /\ p \notin Spilled(end)
  <2>1. \A q \in Ports : /\ first[q] = OverCurrent => st[q] = OverCurrent
                         /\ end[q] = OverCurrent => st[q] = OverCurrent
    BY DEF Given, OverCurrent
  <2>2. p > 0 => p - 1 \in Ports
    BY NAssumption DEF Ports
  <2> QED
    BY <2>1, <2>2 DEF Spilled
<1> HIDE DEF first, end
<1>5. PackEach(m, st, P, s) = Pack(Pack(m, first), end)
  BY DEF PackEach, first, end
<1>6. /\ end[p] = 1 => p \in PackEach(m, st, P, s)
      /\ end[p] = 0 => p \notin PackEach(m, st, P, s)
  BY <1>1, <1>2, <1>5, PackBits
<1>7. ASSUME end[p] = OverCurrent, p \notin Spilled(st)
      PROVE  p \in PackEach(m, st, P, s) <=> p \in m
  <2>1. p \in Pack(Pack(m, first), end) <=> p \in Pack(m, first)
    BY <1>1, <1>2, <1>4, <1>7, PackBits
  <2>2. p \in Pack(m, first) <=> p \in m
    BY <1>1, <1>3, <1>4, <1>7, PackBits
  <2> QED
    BY <2>1, <2>2, <1>5
<1> QED
  BY <1>6, <1>7 DEF end
-----------------------------------------------------------------------------
(* The inductive invariant: an order stands in the byte because the status *)
(* from which the byte is packed again and again is the order or the latch *)

BeliefType ==
  /\ onoff \in [Ports -> OnOffValues]
  /\ cur0 \in {0, 1}
  /\ mask \in SUBSET MaskBits
  /\ order \in [Ports -> 0 .. NoOrder]

Belief == BeliefType /\ OrderStands /\ OrderKnown

LEMMA SetPortStateBelief ==
  ASSUME Belief, NEW P \in SUBSET Ports, NEW s \in {0, 1}, SetPortState(P, s)
  PROVE  Belief'
<1> USE DEF Belief, BeliefType
<1>1. onoff' = Given(onoff, P, s) /\ onoff' \in [Ports -> OnOffValues]
  BY GivenType DEF SetPortState
<1>2. mask' = Pack(mask, onoff') /\ mask' \in SUBSET MaskBits
  BY <1>1, PackType DEF SetPortState
<1>3. cur0' \in {0, 1} /\ order' \in [Ports -> 0 .. NoOrder]
  BY DEF SetPortState, Given, Kept, NoOrder
<1>4. ASSUME NEW p \in Ports, order'[p] # NoOrder
      PROVE  /\ p \in mask' <=> order'[p] = 1
             /\ onoff'[p] \in {order'[p], OverCurrent}
  <2>1. CASE p \in P
    <3>1. onoff'[p] = s /\ order'[p] = s
      BY <1>1, <2>1 DEF SetPortState, Given
    <3> QED
      BY <3>1, <1>1, <1>2, PackBits
  <2>2. CASE p \notin P
    <3>1. /\ onoff'[p] = onoff[p] /\ order'[p] = order[p]
          /\ p \notin Spilled(onoff')
      BY <1>1, <1>4, <2>2 DEF SetPortState, Given, Kept
    <3>2. (p \in mask <=> order[p] = 1) /\ onoff[p] \in {order[p], OverCurrent}
      BY <3>1, <1>4 DEF OrderStands, OrderKnown
    <3>3. order[p] \in {0, 1}
      BY <3>1, <1>4 DEF NoOrder
    <3> QED
      BY <3>1, <3>2, <3>3, <1>1, <1>2, PackBits
  <2> QED
    BY <2>1, <2>2
<1> QED
  BY <1>1, <1>2, <1>3, <1>4 DEF OrderStands, OrderKnown

LEMMA SetEachBelief ==
  ASSUME Belief, NEW P \in SUBSET Ports, NEW s \in {0, 1}, SetEach(P, s)
  PROVE  Belief'
<1> USE DEF Belief, BeliefType
<1>1. onoff' = Given(onoff, P, s) /\ onoff' \in [Ports -> OnOffValues]
  BY GivenType DEF SetEach
<1>2. mask' = PackEach(mask, onoff, P, s) /\ mask' \in SUBSET MaskBits
  BY PackEachType DEF SetEach
<1>3. cur0' \in {0, 1} /\ order' \in [Ports -> 0 .. NoOrder]
  BY DEF SetEach, Given, Kept, NoOrder
<1>4. ASSUME NEW p \in Ports, order'[p] # NoOrder
      PROVE  /\ p \in mask' <=> order'[p] = 1
             /\ onoff'[p] \in {order'[p], OverCurrent}
  <2>1. /\ onoff'[p] = 1 => p \in mask'
        /\ onoff'[p] = 0 => p \notin mask'
        /\ onoff'[p] = OverCurrent /\ p \notin Spilled(onoff)
             => (p \in mask' <=> p \in mask)
    BY <1>1, <1>2, PackEachBits
  <2>2. CASE p \in P
    <3>1. onoff'[p] = s /\ order'[p] = s
      BY <1>1, <2>2 DEF SetEach, Given
    <3> QED
      BY <3>1, <2>1
  <2>3. CASE p \notin P
    <3>1. /\ onoff'[p] = onoff[p] /\ order'[p] = order[p]
          /\ p \notin Spilled(onoff)
      BY <1>1, <1>4, <2>3 DEF SetEach, Given, Kept
    <3>2. (p \in mask <=> order[p] = 1) /\ onoff[p] \in {order[p], OverCurrent}
      BY <3>1, <1>4 DEF OrderStands, OrderKnown
    <3>3. order[p] \in {0, 1}
      BY <3>1, <1>4 DEF NoOrder
    <3> QED
      BY <3>1, <3>2, <3>3, <2>1
  <2> QED
    BY <2>2, <2>3
<1> QED
  BY <1>1, <1>2, <1>3, <1>4 DEF OrderStands, OrderKnown

LEMMA SameBelief ==
  ASSUME Belief, UNCHANGED belief
  PROVE  Belief'
BY DEF Belief, BeliefType, OrderStands, OrderKnown, belief

\* A status report: the byte is packed from the status it replaces.
LEMMA ReportBelief ==
  ASSUME Belief, NEW bits, UNCHANGED cur0, mask' = Pack(mask, onoff),
         onoff' = [p \in Ports |-> IF p \in bits THEN 1 ELSE 0],
         order' = [p \in Ports |->
                     IF Kept(onoff)[p] = onoff'[p] THEN order[p] ELSE NoOrder]
  PROVE  Belief'
<1> USE DEF Belief, BeliefType
<1>1. mask' \in SUBSET MaskBits
  BY PackType
<1>2. onoff' \in [Ports -> OnOffValues] /\ order' \in [Ports -> 0 .. NoOrder]
  BY DEF OnOffValues, NoOrder
<1>3. ASSUME NEW p \in Ports, order'[p] # NoOrder
      PROVE  (p \in mask' <=> order'[p] = 1) /\ onoff'[p] = order'[p]
  <2>1. order'[p] = order[p] /\ p \notin Spilled(onoff) /\ order[p] = onoff'[p]
    BY <1>3 DEF Kept, NoOrder
  <2>2. (p \in mask <=> order[p] = 1) /\ onoff[p] \in {order[p], OverCurrent}
    BY <2>1, <1>3 DEF OrderStands, OrderKnown
  <2>3. order[p] \in {0, 1}
    BY <2>1, <1>3 DEF NoOrder
  <2> QED
    BY <2>1, <2>2, <2>3, PackBits
<1> QED
  BY <1>1, <1>2, <1>3 DEF OrderStands, OrderKnown
-----------------------------------------------------------------------------
(* The last frame: an actor that changes an order has its own send ahead    *)

LEMMA SentKept ==
  ASSUME OrdersWereSent, ~Sending' => ~Sending, sent' = sent,
         \A p \in Ports : order'[p] \in {order[p], NoOrder}
  PROVE  OrdersWereSent'
BY DEF OrdersWereSent

LEMMA SentNow ==
  ASSUME OrderStands, UsartControlPortOnOff, order' = order
  PROVE  OrdersWereSent'
BY DEF OrdersWereSent, OrderStands, UsartControlPortOnOff
-----------------------------------------------------------------------------
(* The types of everything but the belief *)

RestType ==
  /\ relay \subseteq Ports /\ active \subseteq Ports
  /\ toSlave \in Seq(Frame) /\ toModule \in Seq(Answer)
  /\ sent \subseteq MaskBits
  /\ sending \subseteq Clients
  /\ app \in {"idle", "sendOff", "wait", "sendOn"}
  /\ wifi \in BOOLEAN /\ lastWifi \in BOOLEAN
  /\ timer \in {"idle", "ms", "msSend", "msAgain", "over", "trip"}
  /\ dataTurn \in BOOLEAN /\ ticks \in 0 .. Warmup
  /\ drawing \subseteq Ports /\ powered \subseteq Ports
  /\ msType \in [Ports -> 0 .. 2]
  /\ reboot \in [ports : SUBSET Ports, enable : BOOLEAN]
  /\ msCur \in {0, 1} /\ msLast \in {0, 1}
  /\ confirm \in 0 .. ConfirmCount - 1
  /\ trip \in Ports
  /\ left \in [Inputs -> Nat]

LEMMA SplitType == TypeOK <=> BeliefType /\ RestType
BY DEF TypeOK, BeliefType, RestType

LEMMA SwitchFrame ==
  ASSUME TypeOK, UsartControlPortOnOff
  PROVE  /\ toSlave' \in Seq(Frame) /\ toModule' = toModule
         /\ sent' \subseteq MaskBits
<1>1. Switch(mask) \in Frame
  BY DEF TypeOK, Switch, Frame
<1> QED
  BY <1>1 DEF TypeOK, UsartControlPortOnOff, Send

LEMMA SpendType ==
  ASSUME TypeOK, NEW what \in Inputs, Spend(what)
  PROVE  left' \in [Inputs -> Nat]
<1>1. left \in [Inputs -> Nat] /\ left[what] > 0
  BY DEF TypeOK, Spend
<1>2. left[what] - 1 \in Nat
  BY <1>1
<1> QED
  BY <1>1, <1>2 DEF Spend

\* The invariant, inductive as it stands.
IInv == TypeOK /\ OrderStands /\ OrderKnown /\ OrdersWereSent

LEMMA InvParts == IInv <=> Belief /\ RestType /\ OrdersWereSent
BY SplitType DEF IInv, Belief
-----------------------------------------------------------------------------
(* Every step keeps the invariant                                           *)

LEMMA Join ==
  ASSUME Belief', RestType', OrdersWereSent'
  PROVE  IInv'
BY DEF IInv, Belief, BeliefType, RestType, TypeOK

LEMMA Split ==
  ASSUME IInv
  PROVE  Belief /\ RestType /\ OrdersWereSent /\ TypeOK /\ OrderStands
BY InvParts DEF IInv

LEMMA Switch_CtlInv ==
  ASSUME IInv, NEW t \in Clients, NEW port \in 0 .. N,
         NEW state \in {0, 1}, Switch_Ctl(t, port, state)
  PROVE  IInv'
<1> USE Split
<1>1. Belief'
  <2>1. (IF port = 0 THEN Ports ELSE {port - 1}) \in SUBSET Ports
    BY NAssumption DEF Ports
  <2> QED
    BY <2>1, SetPortStateBelief DEF Switch_Ctl
<1>2. RestType'
  <2>1. left' \in [Inputs -> Nat]
    BY SpendType DEF Switch_Ctl, Inputs
  <2> QED
    BY <2>1 DEF Switch_Ctl, RestType, belief, link, appVars, timerVars,
                records, meter, roles, world
<1>3. OrdersWereSent'
  BY DEF Switch_Ctl, OrdersWereSent, Sending
<1> QED
  BY <1>1, <1>2, <1>3, Join

LEMMA Switch_SendInv ==
  ASSUME IInv, NEW t \in Clients, Switch_Send(t)
  PROVE  IInv'
<1> USE Split
<1>1. Belief'
  BY SameBelief DEF Switch_Send, belief
<1>2. RestType'
  BY SwitchFrame DEF Switch_Send, RestType, belief, link, appVars, timerVars,
                     records, meter, roles, world
<1>3. OrdersWereSent'
  BY SentNow DEF Switch_Send, belief
<1> QED
  BY <1>1, <1>2, <1>3, Join

LEMMA UdpSetHostSlaveInv ==
  ASSUME IInv, NEW types \in MsTypes, UdpSetHostSlave(types)
  PROVE  IInv'
<1> USE Split
<1>1. Belief'
  BY SameBelief DEF UdpSetHostSlave, Setting, belief
<1>2. RestType'
  <2>1. left' \in [Inputs -> Nat]
    BY SpendType DEF UdpSetHostSlave, Setting, Inputs
  <2> QED
    BY <2>1, StripAssumption DEF UdpSetHostSlave, Setting, RestType, belief,
                                 link, appVars, timerVars, records, meter,
                                 roles, world
<1>3. OrdersWereSent'
  BY SentKept DEF UdpSetHostSlave, Setting, Sending, belief, link, appVars,
                  timerVars, records, meter, roles, world
<1> QED
  BY <1>1, <1>2, <1>3, Join

LEMMA UdpSetDevRebootInv ==
  ASSUME IInv, NEW ports \in Reboots, UdpSetDevReboot(ports)
  PROVE  IInv'
<1> USE Split
<1>1. Belief'
  BY SameBelief DEF UdpSetDevReboot, Setting, belief
<1>2. RestType'
  <2>1. left' \in [Inputs -> Nat]
    BY SpendType DEF UdpSetDevReboot, Setting, Inputs
  <2> QED
    BY <2>1, StripAssumption DEF UdpSetDevReboot, Setting, RestType, belief,
                                 link, appVars, timerVars, records, meter,
                                 roles, world
<1>3. OrdersWereSent'
  BY SentKept DEF UdpSetDevReboot, Setting, Sending, belief, link, appVars,
                  timerVars, records, meter, roles, world
<1> QED
  BY <1>1, <1>2, <1>3, Join

LEMMA getPortStateInv ==
  ASSUME IInv, getPortState
  PROVE  IInv'
<1> USE Split
<1>1. Belief'
  BY ReportBelief DEF getPortState
<1>2. RestType'
  BY DEF getPortState, RestType, belief, link, appVars, timerVars, records,
         meter, roles, world, Arrived
<1>3. OrdersWereSent'
  <2>1. \A p \in Ports : order'[p] \in {order[p], NoOrder}
    BY DEF getPortState
  <2> QED
    BY <2>1, SentKept DEF getPortState, Sending, appVars, timerVars
<1> QED
  BY <1>1, <1>2, <1>3, Join

LEMMA getPortDataInv ==
  ASSUME IInv, getPortData
  PROVE  IInv'
<1> USE Split
<1>1. Belief'
  BY SameBelief DEF getPortData, belief
<1>2. RestType'
  <2>1. Head(toModule) \in Answer /\ Tail(toModule) \in Seq(Answer)
    BY DEF getPortData, Arrived, RestType
  <2> QED
    BY <2>1 DEF getPortData, RestType, Answer, belief, link, appVars,
                timerVars, records, meter, roles, world
<1>3. OrdersWereSent'
  BY SentKept DEF getPortData, Sending, belief, link, appVars, timerVars,
                  records, meter, roles, world
<1> QED
  BY <1>1, <1>2, <1>3, Join

LEMMA LoseAtModuleInv ==
  ASSUME IInv, LoseAtModule
  PROVE  IInv'
<1> USE Split
<1>1. Belief'
  BY SameBelief DEF LoseAtModule, belief
<1>2. RestType'
  <2>1. left' \in [Inputs -> Nat]
    BY SpendType DEF LoseAtModule, Inputs
  <2> QED
    BY <2>1 DEF LoseAtModule, RestType, belief, link, appVars, timerVars,
                records, meter, roles, world
<1>3. OrdersWereSent'
  BY SentKept DEF LoseAtModule, Sending, belief, link, appVars, timerVars,
                  records, meter, roles, world
<1> QED
  BY <1>1, <1>2, <1>3, Join

LEMMA LoseAtSlaveInv ==
  ASSUME IInv, LoseAtSlave
  PROVE  IInv'
<1> USE Split
<1>1. Belief'
  BY SameBelief DEF LoseAtSlave, belief
<1>2. RestType'
  <2>1. left' \in [Inputs -> Nat]
    BY SpendType DEF LoseAtSlave, Inputs
  <2> QED
    BY <2>1 DEF LoseAtSlave, RestType, belief, link, appVars, timerVars,
                records, meter, roles, world
<1>3. OrdersWereSent'
  BY SentKept DEF LoseAtSlave, Sending, belief, link, appVars, timerVars,
                  records, meter, roles, world
<1> QED
  BY <1>1, <1>2, <1>3, Join

LEMMA app_timer_callback1Inv ==
  ASSUME IInv, app_timer_callback1
  PROVE  IInv'
<1> USE Split
<1>1. Belief'
  BY SameBelief DEF app_timer_callback1, belief
<1>2. RestType'
  <2>1. /\ Ask("readData") \in Frame
        /\ Ask("readState") \in Frame
    BY DEF Ask, Frame
  <2>2. toSlave' \in Seq(Frame)
    BY <2>1 DEF app_timer_callback1, Send, RestType
  <2>3. ticks' \in 0 .. Warmup
    BY StripAssumption DEF app_timer_callback1, RestType
  <2> QED
    BY <2>2, <2>3 DEF app_timer_callback1, RestType, belief, link, appVars,
                      timerVars, records, meter, roles, world
<1>3. OrdersWereSent'
  BY SentKept DEF app_timer_callback1, Sending, belief, link, appVars,
                  timerVars, records, meter, roles, world
<1> QED
  BY <1>1, <1>2, <1>3, Join

LEMMA masterSlaveControlInv ==
  ASSUME IInv, masterSlaveControl
  PROVE  IInv'
<1> USE Split
<1>1. Belief'
  <2>1. msCur' \in {0, 1}
    BY DEF masterSlaveControl, RestType
  <2>2. CASE UNCHANGED belief
    BY <2>2, SameBelief
  <2>3. CASE SetEach({p \in Slaves : onoff[p] = 1 - msCur'}, msCur')
    <3>1. {p \in Slaves : onoff[p] = 1 - msCur'} \in SUBSET Ports
      BY DEF Slaves
    <3> QED
      BY <2>1, <2>3, <3>1, SetEachBelief
  <2> QED
    BY <2>2, <2>3 DEF masterSlaveControl
<1>2. RestType'
  BY DEF masterSlaveControl, RestType, belief, link, appVars, timerVars,
         records, meter, roles, world
<1>3. OrdersWereSent'
  <2>1. CASE timer' = "msSend"
    BY <2>1 DEF OrdersWereSent, Sending
  <2>2. CASE timer' # "msSend"
    BY <2>2, SentKept DEF masterSlaveControl, Sending, belief, link, appVars
  <2> QED
    BY <2>1, <2>2
<1> QED
  BY <1>1, <1>2, <1>3, Join

LEMMA MsSendInv ==
  ASSUME IInv, MsSend
  PROVE  IInv'
<1> USE Split
<1>1. Belief'
  BY SameBelief DEF MsSend, belief
<1>2. RestType'
  BY SwitchFrame DEF MsSend, RestType, belief, link, appVars, timerVars,
                     records, meter, roles, world
<1>3. OrdersWereSent'
  BY SentNow DEF MsSend, belief
<1> QED
  BY <1>1, <1>2, <1>3, Join

LEMMA MsSendAgainInv ==
  ASSUME IInv, MsSendAgain
  PROVE  IInv'
<1> USE Split
<1>1. Belief'
  BY SameBelief DEF MsSendAgain, belief
<1>2. RestType'
  BY SwitchFrame DEF MsSendAgain, RestType, belief, link, appVars, timerVars,
                     records, meter, roles, world
<1>3. OrdersWereSent'
  BY SentNow DEF MsSendAgain, belief
<1> QED
  BY <1>1, <1>2, <1>3, Join

LEMMA OverCurrentInv ==
  ASSUME IInv, OverCurrentProtectPoll
  PROVE  IInv'
<1> USE Split
<1>1. Belief'
  <2>1. CASE UNCHANGED belief
    BY <2>1, SameBelief
  <2>2. CASE \E maxID \in Ports : SetPortState({maxID}, 0)
    BY <2>2, SetPortStateBelief
  <2> QED
    BY <2>1, <2>2 DEF OverCurrentProtectPoll
<1>2. RestType'
  <2>1. confirm' \in 0 .. ConfirmCount - 1
    BY StripAssumption DEF OverCurrentProtectPoll, NextConfirm, RestType
  <2> QED
    BY <2>1 DEF OverCurrentProtectPoll, RestType, belief, link, appVars,
                timerVars, records, meter, roles, world
<1>3. OrdersWereSent'
  <2>1. CASE timer' = "trip"
    BY <2>1 DEF OrdersWereSent, Sending
  <2>2. CASE timer' # "trip"
    BY <2>2, SentKept DEF OverCurrentProtectPoll, Sending, belief, link, appVars
  <2> QED
    BY <2>1, <2>2
<1> QED
  BY <1>1, <1>2, <1>3, Join

LEMMA LatchOverCurrentInv ==
  ASSUME IInv, LatchOverCurrent
  PROVE  IInv'
<1> USE Split
<1>1. Belief'
  <2>1. onoff' \in [Ports -> OnOffValues]
    BY DEF LatchOverCurrent, Belief, BeliefType, RestType, OnOffValues,
           OverCurrent
  <2>2. \A p \in Ports : onoff'[p] \in {onoff[p], OverCurrent}
    BY DEF LatchOverCurrent, Belief, BeliefType
  <2> QED
    BY <2>1, <2>2 DEF LatchOverCurrent, Belief, BeliefType, OrderStands,
                      OrderKnown
<1>2. RestType'
  BY SwitchFrame DEF LatchOverCurrent, RestType, belief, link, appVars,
                     timerVars, records, meter, roles, world
<1>3. OrdersWereSent'
  BY SentNow DEF LatchOverCurrent
<1> QED
  BY <1>1, <1>2, <1>3, Join

LEMMA KeyInv ==
  ASSUME IInv, KeyTurnOnOffSwitch
  PROVE  IInv'
<1> USE Split
<1>1. Belief'
  <2>1. 0 \in Ports /\ cur0' \in {0, 1}
    BY NAssumption DEF KeyTurnOnOffSwitch, Belief, BeliefType, Ports
  <2>2. onoff' \in [Ports -> OnOffValues] /\ order' \in [Ports -> 0 .. NoOrder]
    BY <2>1 DEF KeyTurnOnOffSwitch, Belief, BeliefType, OnOffValues, NoOrder
  <2>3. \A p \in Ports : order'[p] # NoOrder
                         => order'[p] = order[p] /\ onoff'[p] = onoff[p]
    BY <2>1 DEF KeyTurnOnOffSwitch, Belief, BeliefType
  <2> QED
    BY <2>1, <2>2, <2>3 DEF KeyTurnOnOffSwitch, Belief, BeliefType, OrderStands,
                            OrderKnown
<1>2. RestType'
  <2>1. left' \in [Inputs -> Nat]
    BY SpendType DEF KeyTurnOnOffSwitch, Inputs
  <2> QED
    BY <2>1 DEF KeyTurnOnOffSwitch, RestType, belief, link, appVars, timerVars,
                records, meter, roles, world
<1>3. OrdersWereSent'
  <2>1. \A p \in Ports : order'[p] \in {order[p], NoOrder}
    BY DEF KeyTurnOnOffSwitch, Belief, BeliefType
  <2> QED
    BY <2>1, SentKept DEF KeyTurnOnOffSwitch, Sending, link, appVars, timerVars
<1> QED
  BY <1>1, <1>2, <1>3, Join

LEMMA Reboot_ControlInv ==
  ASSUME IInv, Reboot_Control
  PROVE  IInv'
<1> USE Split
<1>1. Belief'
  <2>1. CASE UNCHANGED belief
    BY <2>1, SameBelief
  <2>2. CASE SetEach(reboot.ports, 0)
    BY <2>2, SetEachBelief DEF RestType
  <2> QED
    BY <2>1, <2>2 DEF Reboot_Control
<1>2. RestType'
  BY DEF Reboot_Control, RestType, belief, link, appVars, timerVars, records,
         meter, roles, world, AppUnchanged
<1>3. OrdersWereSent'
  <2>1. CASE app' = "sendOff"
    BY <2>1 DEF OrdersWereSent, Sending
  <2>2. CASE app' # "sendOff"
    BY <2>2, SentKept DEF Reboot_Control, AppUnchanged, Sending, belief, link,
                          timerVars
  <2> QED
    BY <2>1, <2>2
<1> QED
  BY <1>1, <1>2, <1>3, Join

LEMMA RebootSendOffInv ==
  ASSUME IInv, RebootSendOff
  PROVE  IInv'
<1> USE Split
<1>1. Belief'
  BY SameBelief DEF RebootSendOff, belief
<1>2. RestType'
  BY SwitchFrame DEF RebootSendOff, RestType, belief, link, appVars, timerVars,
                     records, meter, roles, world, AppUnchanged
<1>3. OrdersWereSent'
  BY SentNow DEF RebootSendOff, belief
<1> QED
  BY <1>1, <1>2, <1>3, Join

LEMMA RebootSendOnInv ==
  ASSUME IInv, RebootSendOn
  PROVE  IInv'
<1> USE Split
<1>1. Belief'
  BY SameBelief DEF RebootSendOn, belief
<1>2. RestType'
  BY SwitchFrame DEF RebootSendOn, RestType, belief, link, appVars, timerVars,
                     records, meter, roles, world, AppUnchanged
<1>3. OrdersWereSent'
  BY SentNow DEF RebootSendOn, belief
<1> QED
  BY <1>1, <1>2, <1>3, Join

LEMMA RebootTurnOnInv ==
  ASSUME IInv, RebootTurnOn
  PROVE  IInv'
<1> USE Split
<1>1. Belief'
  BY SetEachBelief DEF RebootTurnOn, RestType
<1>2. RestType'
  BY DEF RebootTurnOn, RestType, belief, link, appVars, timerVars, records,
         meter, roles, world, AppUnchanged
<1>3. OrdersWereSent'
  BY DEF RebootTurnOn, OrdersWereSent, Sending
<1> QED
  BY <1>1, <1>2, <1>3, Join

LEMMA SlaveSwitchInv ==
  ASSUME IInv, SlaveSwitch
  PROVE  IInv'
<1> USE Split
<1>1. Belief'
  BY SameBelief DEF SlaveSwitch, SlaveUnchanged, belief
<1>2. RestType'
  BY DEF SlaveSwitch, RestType, belief, link, appVars, timerVars, records,
         meter, roles, world, Asked, SlaveUnchanged
<1>3. OrdersWereSent'
  BY SentKept DEF SlaveSwitch, SlaveUnchanged, Sending, belief, link, appVars,
                  timerVars, records, meter, roles, world
<1> QED
  BY <1>1, <1>2, <1>3, Join

LEMMA SlaveStateInv ==
  ASSUME IInv, SlaveState
  PROVE  IInv'
<1> USE Split
<1>1. Belief'
  BY SameBelief DEF SlaveState, SlaveUnchanged, belief
<1>2. RestType'
  <2>1. [cmd |-> "state", bits |-> relay] \in Answer
    BY DEF Answer, RestType
  <2> QED
    BY <2>1 DEF SlaveState, Report, Asked, SlaveUnchanged, RestType, belief,
                link, appVars, timerVars, records, meter, roles, world
<1>3. OrdersWereSent'
  BY SentKept DEF SlaveState, SlaveUnchanged, Sending, belief, link, appVars,
                  timerVars, records, meter, roles, world
<1> QED
  BY <1>1, <1>2, <1>3, Join

LEMMA SlaveDataInv ==
  ASSUME IInv, SlaveData
  PROVE  IInv'
<1> USE Split
<1>1. Belief'
  BY SameBelief DEF SlaveData, SlaveUnchanged, belief
<1>2. RestType'
  <2>1. [cmd |-> "data", bits |-> relay \cap active] \in Answer
    BY DEF Answer, RestType
  <2> QED
    BY <2>1 DEF SlaveData, Report, Asked, SlaveUnchanged, RestType, belief,
                link, appVars, timerVars, records, meter, roles, world
<1>3. OrdersWereSent'
  BY SentKept DEF SlaveData, SlaveUnchanged, Sending, belief, link, appVars,
                  timerVars, records, meter, roles, world
<1> QED
  BY <1>1, <1>2, <1>3, Join

LEMMA SlaveKeyInv ==
  ASSUME IInv, NEW p \in Ports, SlaveKey(p)
  PROVE  IInv'
<1> USE Split
<1>1. Belief'
  BY SameBelief DEF SlaveKey, SlaveUnchanged, belief
<1>2. RestType'
  <2>1. left' \in [Inputs -> Nat]
    BY SpendType DEF SlaveKey, Inputs
  <2>2. relay' \subseteq Ports
    BY DEF SlaveKey, RestType
  <2>3. [cmd |-> "state", bits |-> relay'] \in Answer
    BY <2>2 DEF Answer
  <2> QED
    BY <2>1, <2>2, <2>3 DEF SlaveKey, Report, SlaveUnchanged, RestType, belief,
                            link, appVars, timerVars, records, meter, roles,
                            world
<1>3. OrdersWereSent'
  BY SentKept DEF SlaveKey, SlaveUnchanged, Sending, belief, link, appVars,
                  timerVars, records, meter, roles, world
<1> QED
  BY <1>1, <1>2, <1>3, Join

LEMMA ApplianceInv ==
  ASSUME IInv, NEW p \in Ports, Appliance(p)
  PROVE  IInv'
<1> USE Split
<1>1. Belief'
  BY SameBelief DEF Appliance, SlaveUnchanged, belief
<1>2. RestType'
  <2>1. left' \in [Inputs -> Nat]
    BY SpendType DEF Appliance, Inputs
  <2> QED
    BY <2>1 DEF Appliance, RestType, belief, link, appVars, timerVars, records,
                meter, roles, world, SlaveUnchanged
<1>3. OrdersWereSent'
  BY SentKept DEF Appliance, SlaveUnchanged, Sending, belief, link, appVars,
                  timerVars, records, meter, roles, world
<1> QED
  BY <1>1, <1>2, <1>3, Join

LEMMA WifiChangesInv ==
  ASSUME IInv, WifiChanges
  PROVE  IInv'
<1> USE Split
<1>1. Belief'
  BY SameBelief DEF WifiChanges, belief
<1>2. RestType'
  <2>1. left' \in [Inputs -> Nat]
    BY SpendType DEF WifiChanges, Inputs
  <2> QED
    BY <2>1 DEF WifiChanges, RestType, belief, link, appVars, timerVars,
                records, meter, roles, world
<1>3. OrdersWereSent'
  BY SentKept DEF WifiChanges, Sending, belief, link, appVars, timerVars,
                  records, meter, roles, world
<1> QED
  BY <1>1, <1>2, <1>3, Join

LEMMA RestartInv ==
  ASSUME IInv, Restart
  PROVE  IInv'
<1> USE Split
<1>1. Belief'
  BY StripAssumption DEF Restart, RamAtBoot, Belief, BeliefType, OrderStands,
                         OrderKnown, NoOrder
<1>2. RestType'
  <2>1. left' \in [Inputs -> Nat]
    BY SpendType DEF Restart, Inputs
  <2>2. 0 \in Ports /\ 0 \in 0 .. ConfirmCount - 1 /\ 0 \in 0 .. Warmup
    BY NAssumption, StripAssumption DEF Ports
  <2>3. toSlave' \in Seq(Frame) /\ toModule' \in Seq(Answer)
    BY DEF Restart, RamAtBoot, RestType
  <2>4. wifi' \in BOOLEAN /\ lastWifi' \in BOOLEAN /\ dataTurn' \in BOOLEAN
    BY DEF Restart, RamAtBoot
  <2>5. /\ msType' \in [Ports -> 0 .. 2]
        /\ reboot' \in [ports : SUBSET Ports, enable : BOOLEAN]
    BY StripAssumption DEF Restart
  <2> QED
    BY <2>1, <2>2, <2>3, <2>4, <2>5 DEF Restart, RamAtBoot, RestType,
                                                   world
<1>3. OrdersWereSent'
  BY DEF Restart, RamAtBoot, OrdersWereSent, NoOrder
<1> QED
  BY <1>1, <1>2, <1>3, Join

LEMMA InitInv ==
  ASSUME Init
  PROVE  IInv
<1>1. 0 \in Ports /\ 0 \in 0 .. ConfirmCount - 1 /\ 0 \in 0 .. Warmup
  BY NAssumption, StripAssumption DEF Ports
<1>2. left \in [Inputs -> Nat]
  BY StripAssumption DEF Init, Inputs
<1>3. <<>> \in Seq(Frame) /\ <<>> \in Seq(Answer)
  OBVIOUS
<1>4. /\ msType \in [Ports -> 0 .. 2]
      /\ reboot \in [ports : SUBSET Ports, enable : BOOLEAN]
  BY StripAssumption DEF Init
<1>5. /\ relay \subseteq Ports /\ active \subseteq Ports
      /\ onoff \in [Ports -> OnOffValues]
  BY StripAssumption DEF Init
<1>6. TypeOK
  <2>1. BeliefType
    BY <1>5 DEF Init, BeliefType, NoOrder
  <2>2. RestType
    BY <1>1, <1>2, <1>3, <1>4, <1>5 DEF Init, RestType
  <2> QED
    BY <2>1, <2>2, SplitType
<1>7. OrderStands /\ OrderKnown /\ OrdersWereSent
  BY DEF Init, OrderStands, OrderKnown, OrdersWereSent, NoOrder
<1> QED
  BY <1>6, <1>7 DEF IInv

LEMMA StepInv ==
  ASSUME IInv, [Next]_vars
  PROVE  IInv'
<1>1. CASE Client
  BY <1>1, Switch_CtlInv, Switch_SendInv, UdpSetHostSlaveInv, UdpSetDevRebootInv
     DEF Client, Serve
<1>2. CASE Uart
  BY <1>2, getPortStateInv, getPortDataInv, LoseAtModuleInv, LoseAtSlaveInv
     DEF Uart
<1>3. CASE app_timer_callback1
  BY <1>3, app_timer_callback1Inv
<1>4. CASE TimerWork
  BY <1>4, masterSlaveControlInv, MsSendInv, MsSendAgainInv, OverCurrentInv,
     LatchOverCurrentInv DEF TimerWork
<1>5. CASE App
  BY <1>5, Reboot_ControlInv, RebootSendOffInv, RebootTurnOnInv,
     RebootSendOnInv DEF App
<1>6. CASE Slave
  BY <1>6, SlaveSwitchInv, SlaveStateInv, SlaveDataInv DEF Slave
<1>7. CASE People
  BY <1>7, KeyInv, WifiChangesInv, SlaveKeyInv, ApplianceInv DEF People
<1>8. CASE Restart
  BY <1>8, RestartInv
<1>9. CASE UNCHANGED vars
  <2>1. Belief' /\ RestType'
    BY <1>9, Split, SameBelief DEF RestType, vars, appVars, timerVars,
                                   records, meter, roles, world, link
  <2>2. OrdersWereSent'
    BY <1>9, Split, SentKept DEF Sending, vars, belief, appVars, timerVars, link
  <2> QED
    BY <2>1, <2>2, Join
<1> QED
  BY <1>1, <1>2, <1>3, <1>4, <1>5, <1>6, <1>7, <1>8, <1>9
     DEF Next, Others

THEOREM Invariance == Spec => []IInv
<1>1. Init => IInv
  BY InitInv
<1>2. IInv /\ [Next]_vars => IInv'
  BY StepInv
<1> QED
  BY <1>1, <1>2, PTL DEF Spec

\* Every variable of the strip keeps its type, for any N, any number of
\* threads, any saved image and any bounds.
THEOREM TypeCorrect == Spec => []TypeOK
<1>1. IInv => TypeOK
  BY DEF IInv
<1> QED
  BY <1>1, Invariance, PTL

\* No actor's packing undoes the order another actor left in SwOnOffData.
THEOREM OrdersStand == Spec => [](OrderStands /\ OrderKnown)
<1>1. IInv => OrderStands /\ OrderKnown
  BY DEF IInv
<1> QED
  BY <1>1, Invariance, PTL

\* Every order is in the last frame once all actors are past their sends,
\* however the sends of the threads, the timer and the application interleave.
THEOREM OrdersSent == Spec => []OrdersWereSent
<1>1. IInv => OrdersWereSent
  BY DEF IInv
<1> QED
  BY <1>1, Invariance, PTL
=============================================================================
