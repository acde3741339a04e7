--------------------------- MODULE MCStripRelated ---------------------------
(***************************************************************************)
(* Constants of StripPorts and StripRelated for TLC.  A run starts in one  *)
(* of several scenes, which differ in the roles of the ports, the saved    *)
(* image and the inputs that come: it covers their union, not their        *)
(* product.                                                                *)
(***************************************************************************)
EXTENDS StripRelated, TLC

Each(v) == [p \in Ports |-> v]

NoMaster == Each(2)
FirstIsMaster == [p \in Ports |-> IF p = 0 THEN 1 ELSE 0]
MasterOnly == {FirstIsMaster}
NoMasters == {NoMaster}
BothMsTypes == {NoMaster, FirstIsMaster}

NoReboot == [ports |-> {}, enable |-> FALSE]
LastReboots == [ports |-> {N - 1}, enable |-> TRUE]
NoReboots == {NoReboot}
BothReboots == {NoReboot, LastReboots}

AllOff == {Each(0)}
AllImages == [Ports -> OnOffValues]
AnyRelays == SUBSET Ports
NoRelays == {{}}
OneEach == Each(1)

\* Requests that turn the last port on and keep the others.
LastOn == [p \in Ports |-> IF p = N - 1 THEN 1 ELSE 2]
LastOnIn(delay, hold) == [states |-> LastOn, delay |-> delay, hold |-> hold]
OneOfEach == {LastOnIn(0, 0), LastOnIn(0, 1), LastOnIn(1, 1)}

Some(inputs) == inputs @@ [i \in Inputs |-> 0]
None == Some(<<>>)
OneCommand == Some("cmd" :> 1)
NoBudget == {None}
CommandBudget == {OneCommand}

NoRoles == msType = NoMaster /\ reboot = NoReboot
Roles == msType = FirstIsMaster /\ reboot = LastReboots
AllOffAtRest == relay = {} /\ onoff = Each(0) /\ active = {} /\ cur0 = 0
-----------------------------------------------------------------------------
(* Safety *)

OrderInputs == Some("cmd" :> 2 @@ "key" :> 1)
ControlInputs == Some("cmd" :> 1 @@ "set" :> 1 @@ "wifi" :> 2)
BootInputs == Some("cmd" :> 1 @@ "key" :> 1 @@ "restart" :> 1)
OneRestart == Some("restart" :> 1)
TwoWifi == Some("wifi" :> 2)
SafeBudgets ==
  {OrderInputs, ControlInputs, BootInputs, OneCommand, OneRestart, TwoWifi}

\* Two threads against the protection, with a key or a button.
OrderScene == /\ left = OrderInputs /\ asks = 0
              /\ active = Ports /\ relay = {} /\ onoff = Each(0) /\ NoRoles

\* masterSlaveControl against Reboot_Control, a command and new settings.
ControlScene == /\ left = ControlInputs /\ asks = 0
                /\ active = {0} /\ onoff = Each(0) /\ cur0 = 0 /\ Roles

\* A restart, with any saved image and any relays.
BootScene == /\ left = BootInputs /\ asks = 0
             /\ active = {0} /\ NoRoles

\* A related request with a command, with a restart, or with Reboot_Control.
RequestScene == /\ left \in {OneCommand, OneRestart} /\ asks = 1
                /\ AllOffAtRest /\ NoRoles

RequestRebootScene == /\ left = TwoWifi /\ asks = 1 /\ AllOffAtRest
                      /\ msType = NoMaster /\ reboot = LastReboots

SafeInit == /\ RelatedInit
            /\ \/ OrderScene \/ ControlScene \/ BootScene
               \/ RequestScene \/ RequestRebootScene
SafeSpec == SafeInit /\ [][RelatedNext]_allVars
-----------------------------------------------------------------------------
(* Liveness *)

SettleInputs == Some("cmd" :> 1 @@ "loss" :> 1)
FollowInputs == Some("cmd" :> 2 @@ "load" :> 1)
OneKey == Some("key" :> 1)
FairBudgets == {SettleInputs, FollowInputs, None, OneKey}

\* An overload, or one port on which a command makes an overload, with a
\* spoiled frame.
SettleScene == /\ left = SettleInputs /\ asks = 0
               /\ active = Ports /\ 0 \in relay /\ NoRoles

\* The edges of the master, with two commands.
FollowScene == /\ left = FollowInputs /\ asks = 0
               /\ active = {} /\ relay = {0} /\ Roles

\* Two related requests alone, or one and a key or button.
TwoScene == left = None /\ asks = 2 /\ AllOffAtRest /\ NoRoles
OneScene == left = OneKey /\ asks = 1 /\ AllOffAtRest /\ NoRoles

LiveInit == /\ RelatedInit
            /\ SettleScene \/ FollowScene \/ TwoScene \/ OneScene
LiveSpec == LiveInit /\ [][RelatedPacedNext]_allVars /\ RelatedFairness

\* All the appliances on, the first port is the master.
AllOnInit == RelatedInit /\ asks = 0 /\ active = Ports
AllOnSpec == AllOnInit /\ [][RelatedPacedNext]_allVars /\ RelatedFairness

\* Two related requests alone.
TwoInit == RelatedInit /\ TwoScene
TwoSpec == TwoInit /\ [][RelatedPacedNext]_allVars /\ RelatedFairness
=============================================================================
