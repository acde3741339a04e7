# Verification of the PowerStrip-HF_US firmware

TLA+ models of the Wi-Fi module of a six-port power strip (HF-LPB100, C, under
`src/src` and `src/inc`), their TLC configurations, and TLAPS proofs.
The build modelled is the shipped one: `PORT_NUM` 6, `VENDOR_REVOGI`,
`ZX_DETECT`, the DS1302 clock chip, the software watchdog and the key scan in
the tick timer (`src/inc/ConfigAll.h`).

1. [The system](#1-the-system)
2. [The order of the work](#2-the-order-of-the-work)
3. [The modules and the code](#3-the-modules-and-the-code)
4. [The runs](#4-the-runs)
5. [Pace, fairness and bounds](#5-pace-fairness-and-bounds)
6. [The proofs](#6-the-proofs)
7. [Disagreements found](#7-disagreements-found)
8. [What is not modelled](#8-what-is-not-modelled)

## 1. The system

The strip has two processors. The **slave MCU** owns the relays, the ports'
buttons and the meter; its firmware is not in the repository. The **Wi-Fi
module**, which is, talks to it over a UART, and to the cloud server and phones
over UDP and HTTP. Inside the module everything shares global structures without
locks:

| actor | code | what it does to the shared state |
|---|---|---|
| application thread | `SwitchApp.c:169` | every 500 ms: countdown, deferred reboot, hourly records, `Reboot_Control`, firmware updates, `SysTime_GetTime` (clock, related control), flash saves |
| UDP thread | `UdpServerCallBack.c` | commands of server and phone: switching, settings, related control, firmware blocks |
| HTTP thread | `HttpdCallBack.c` | commands of the phone: switching, names, time, update URL, reboot |
| 1 s timer | `TickClock.c:230` | polls the slave, `masterSlaveControl`, `OverCurrentProtectPoll`, flags for the application thread |
| 2 ms timer | `TickClock.c:458` | scans the module's key |
| UART callback | `Produce_Test.c:59`, `:297` | takes the slave's frames: states and readings |
| interrupts, Wi-Fi events | `read_power.c`, `app_main.c` | zero crossings; the Wi-Fi flag |

The components, the state each keeps, and what makes it correct:

| component | state | operations | correct when | hard because |
|---|---|---|---|---|
| port switching | `PortInfor[].OnOffStatus`, the byte `SwOnOffData`, frames on the line, statics of the controls | `Switch_Ctl`, `SetPortState`, `UsartControlPortOnOff`, `getPortState`, `masterSlaveControl`, `OverCurrentProtectPoll`, `Reboot_Control`, `KeyTurnOnOffSwitch` | no order is lost among the actors; belief and relays agree in the end; an overload is ended; the slaves follow the master | five actors pack and send one byte, with sleeps in between; frames are not resent; reports are up to two seconds old; restarts |
| related control | `RelatedCtrl` | `Switch_RelatedCtl`, `Switch_delayCtl` in `SysTime_GetTime` | a request is carried out when it is due and undone when its hold is over | two threads fill in and carry out one record, each across a send |
| settings page | `SwInformation`, its flash page and the page of names, the dirty bit in `TimelyCheck`, `iSaveSwStateCount` | `SaveDevStatusPoll`, `CheckSwState`, `UdpSetHostSlave`, `UdpSetDevReboot`, `ModifyDevName`, `WriteDevName`, `ReadDevStatus`, `FlashResetFactory` | what was set is there after a restart; a change is saved, and then no more is; a factory reset removes it | three savers without a lock; lost updates of a shared word; power loss between erase and write |
| deferred commands | code, 8-bit countdown, a bit of `TimelyCheck` | `RebootSyncDev`, `Reboot`, the timer's countdown, `RestartPoll`, `FlashResetFactory` | what was accepted happens, and not before it was answered | three unlocked writes by three threads; a second request overwrites the first; the countdown wraps; stale stores of the word |
| firmware update | update area of the flash, length, sum, last block, the URL and its mutex | `UdpUpdateAppFwAsSlave`, `SaveUpdateFw`, `UpdateFirmwareAsUdp`, `SetUpdateUrl`, `UpdateFirmwareAsHttpClient`, `update_as_http` | an image handed over is the whole one; an update ends | blocks lost, spoilt, repeated, late; restarts; two paths to one area |
| set-up commands | Wi-Fi settings and MAC in the vendor's firmware, the time zone page with the mark of a factory reset | `SetWifiMode`, `HttpModifyProductSn`, `ModifyDevMac`, `SetCurTime`, `WriteDevTimeZone`, `DevMode_Init` | what was accepted is in force after the restart | several AT commands each, any of which may fail; two server threads; pages written by two |
| key | `KeyObj`, the 2 ms timer | `Key_DriveEngine`, `Key_Scan`, `Key_Check`, `Key_Poll` | each press is answered once, in the right way | an edge between two scans; the limit between short and long |
| clock | DS1302, `DevTimeObj` | `get_rtctime`, `set_rtctime`, `SetCurTime`, the mark of the hour | what is read is a time that was; what is told is taken | seven registers one after the other, while the chip runs and another thread sets it |
| hourly records | sums and count of readings, the table of records | `getPortData`, `PowerRecord_StaticsData` | no reading is lost or counted twice; an hour is recorded once | the receive callback comes between the divisions; the hour is marked at each second of a window |
| rules, countdown, security mode | tables | their setters have no caller in this build | - | not modelled |
| dispatch, metering, LED, cJSON, SDK | - | text, pin I/O, vendor code | - | not modelled |

Interactions: the threads call `SetPortState` and `UsartControlPortOnOff`
directly; the timer sets bits of `TimelyCheck` which the application thread
tests and clears; the UART callback writes the same statuses the threads write.
`PROJECT.json` lists every hazard at its line, with the property that covers it
or the reason why none does.

## 2. The order of the work

1. `PortMask`, `StripPorts` and its proofs: the core, since every other part of the
   firmware ends in one byte handed to the slave.
2. `StripRelated`, composed with it, and its proofs.
3. `SettingsPage` and its proofs: every setting has to outlive the power.
4. `RebootTimer`, `FwUpdate` and `WifiSetup`, composed in `Maintenance`, and its
   proofs: everything that ends in a restart.
5. `KeyPress`, the abstract specification, `KeyDriver`, which implements it, and the
   proof of the refinement.
6. `Clock`, `HourRecord` and `PackLoops`: the numbers, and their proofs.
7. `WallClock`, the abstract specification of the clock, and the proof that `Clock`
   implements it.

Left: two more abstract specifications are worth stating: an *order book*, in which
an order is given, sent and reported, above `StripPorts`, and a *cell* that holds
the value last saved, above `SettingsPage`.

## 3. The modules and the code

**`PortMask`** - the byte `SwOnOffData` as the set of its bits. `PackLoop` is the
packing loop iteration by iteration (`DevRule.c:549`), `Pack` the closed form the
models use; `PackEach` is a loop of `SetPortState` calls followed by one more
packing (`masterSlaveControl`, `Reboot_Control`). A status is 0, 1 or 2; 2 is
`OVER_CURRENT_STATUS`, and shifted by the port's index it lands on the NEXT
port's bit, or on bit `N`, which is no port's. `RequestMask` is the byte
`Switch_RelatedCtl` builds.

**`StripPorts`** - the state is what the actors share: `onoff` (`OnOffStatus`),
`cur0` (`PortInfor[0].CurStatus`), `mask` (`SwOnOffData`), `msType` and `reboot`
(the roles of the ports), the readings, the Wi-Fi flag, the statics of each
control, the two directions of the line, and, outside the module, `relay` and
`active` (the appliances that draw current). A handler is one action up to each
call that lets another actor in (`hfuart_send`, `msleep`); the rest of the
handler is the next action, and a variable says where the actor stands
(`sending`, `app`, `timer`):

| action | code |
|---|---|
| `Switch_Ctl`, `Switch_Send` | `DevRule.c:261`, `:585`, by the UDP and the HTTP thread |
| `UdpSetHostSlave`, `UdpSetDevReboot` | `UdpServerCallBack.c:1024`, `:947` |
| `getPortState`, `getPortData` | `Produce_Test.c:517`, `:472`, from the receive callback |
| `app_timer_callback1` | `TickClock.c:230`: the poll, readings and states in turn |
| `masterSlaveControl`, `MsSend`, `MsSendAgain` | `UdpServerCallBack.c:1110` |
| `OverCurrentProtectPoll`, `LatchOverCurrent` | `rn8209.c:76`: the decision, then the send and the latch |
| `Reboot_Control`, `RebootSendOff`, `RebootTurnOn`, `RebootSendOn` | `PublicServerCom.c:163` |
| `KeyTurnOnOffSwitch` | `KeyDrv.c:63` |
| `Restart` | `flash.c:521`: RAM from start-up values, status and roles from an image of any age |
| `SlaveSwitch`, `SlaveState`, `SlaveData`, `SlaveKey`, `Appliance`, the losses | external: what the code expects of the slave and the line |

Details kept because they decide the outcome: `getPortState` packs each old
status before it takes the new one, so the byte lags the report by one; "off"
clears the readings of the port ABOVE (`DevRule.c:288` indexes from 1);
`LatchOverCurrent` writes the latch after the send, whatever the status is by
then; `masterSlaveControl` acts on edges and notes the edge after its second
send; the confirm count counts ticks, not readings; the key of this build
changes RAM only.

Two history variables carry the properties: `order`, for each port the last
order that still stands (it falls when a report contradicts it, the key
overrides it, or a latched neighbour spills onto it), and `sent`, the last byte
handed to the line.

**`StripRelated`** - extends `StripPorts`; all its actors go on. `rel` is
`RelatedCtrl`; `age` stands for `CurTimeSec - ctlTime`, so that the clock is
bounded. `RelatedNow` + `RelatedSend` and `RelatedLater` are
`Switch_RelatedCtl` (`DevRule.c:327`) with and without a send, `RelatedApply` to
`RelatedRestored` the part of `SysTime_GetTime` (`TickClock.c:164`) that carries
a request out and undoes it, `Second` the reading of the clock chip before that.
These write the byte directly and leave `OnOffStatus` to the next report.

**`SettingsPage`** - stands beside `StripPorts`, which has the effects of the
settings and of a restart on any image; here is what the image can be. `ram` is
`SwInformation`, cut into the parts the savers treat differently, `page` the
flash page it is copied to, in the order of the write: a power loss leaves
nothing, the first eight bytes (`Head`, with the valid flag) or all.

| action | code |
|---|---|
| `SaveDevStatusPoll`, `ErasePage`, `WriteHead`, `WriteBody` | `flash.c:579`: test and clear the bit, erase, write; for each of three actors |
| `CheckSwState` | `flash.c:552`, in the application thread's loop |
| `UdpSetHostSlave`, `UdpSetDevReboot`, `SetDirty` | `UdpServerCallBack.c:1024`, `:947`; the first saves itself, the second leaves it to the loop |
| `ModifyDevName`, `EraseName`, `WriteName` | `DevRule.c:209`, `WriteDevName` `flash.c:253` |
| `FlashResetFactory`, `WipePage`, `SwitchAllOn`, `ResetDone` | `flash.c:652`, by the application thread or the key scan |
| `LoadWord`, `StoreWord` | `DevLib.h:23`: any other bit of `TimelyCheck` set or cleared by a load and a store |
| `SwitchPort`, `KeyTurnOnOffSwitch` | `SetPortState` `DevRule.c:528`, `KeyDrv.c:63` |
| `PowerLoss`, `Boot` | `App_Init` `SwitchApp.c:384`: `ReadDevName`, then `ReadDevStatus` over it |

Kept because they decide the outcome: the bit is cleared BEFORE the erase, so a
setting during the save asks for another one; a second write without an erase
leaves the bits set in both (`Programmed`), which is why two savers at once must
write the same; `ReadDevStatus` tests the flag only. `dropped` is a history
variable: a stale store has cleared the bit since the last save.

**`RebootTimer`** - the deferred commands. `Reboot` is three writes (code,
countdown, bit) with any other actor in between; `Tick` is the timer's
`RebootCountDown--` modulo 2^8 while the bit is set; `RestartPoll` carries out.
`at` says where each thread stands, `app` which handler the application thread
calls next: they are shared by the two modules that follow.

| action | code |
|---|---|
| `RebootSyncDev`, `Reboot`, `RebootCount`, `RebootFlag`, `Answer` | `DevLib.c:222`, `:254`; the answer is sent after `Reboot` returns |
| `Tick` | `TickClock.c:240` |
| `RestartPoll`, `SyncData`, `ResetBegins`, `RestartNow` | `SwitchApp.c:261` |
| `LoadWord`, `StoreWord` | `DevLib.h:23`, another bit of `TimelyCheck` in another thread |

**`FwUpdate`** - `FirstBlock`, `LaterBlock`, `LastPacket`, `LastLength` are
`UdpUpdateAppFwAsSlave` (`UdpServerCallBack.c:449`) with `SaveUpdateFw`; the
length is written after `FirmwareCompleted`, hence the fourth. `UpdateFirmwareAsUdp`
(`SwitchApp.c:301`) hands over. `UrlBegins`, `GetFails`, `GetPiece`, `GetEnds`,
`UrlEnds` are `UpdateFirmwareAsHttpClient` and `update_as_http`
(`remote_update.c:28`). Sender, network and boot loader are external: a sender
repeats a packet until it is acknowledged and an image that was refused from its
first block. Bytes are abstracted to block numbers, sums to `SumOf`, of which only
what `SumAssumption` says is known. `CheckAssumption` - no set of blocks has the sum
of the whole except the whole - is what a 16 bit sum cannot give in general: an
image with a block whose bytes sum up to nothing is outside the properties.

**`WifiSetup`** - `SetWifiMode`, `WifiCommand`, `WifiAccepted`, `WifiRefused`
(`HttpdCallBack.c:237`, an AT command each); `ModifyMac`, `ModifyMacTail` (the bytes
one after the other, `HttpdCallBack.c:970`), `ModifyDevMac`, `MacRefused`, `MacSet`
(`:992`); `ZoneChanges`, `ErasePage`, `WritePage` (`DevLib.c:362`, `flash.c:331`);
`ResetMarks` (`flash.c:700`); `WifiBoot`, `ReloadBoot` (`flash.c:101`, `:239`).

**`Maintenance`** composes the three: one application thread, two server threads,
one countdown, one restart, and the power.

**`KeyPress`** is the abstract specification of the key: a person, a press that
is pending, two answers. **`KeyDriver`** is the 2 ms callback, one action per
outcome (`NoAnswer`, `ShortPress`, `LongPressed`), with `Key_DriveEngine`,
`Key_Scan`, `Key_Check` as functions of the record `KeyObj` in the order in which
the callback calls them (`TickClock.c:458`, `KeyDrv.c:102` to `:211`). It implements
`KeyPress` with `answered` mapped to "the last edge was read and nothing is
pending". A press so close to the limit that the scan period decides may be
answered either way, and only such a press.

**`Clock`** - `ReadBegins`, `Readbyte`, `ReadEnds` are `get_rtctime`
(`RtTime.c:133`), `SetCurTime` and `Writebyte` the path of a time told
(`DevLib.c:318`, `RtTime.c:180`), a register per action because only a register is
read or written with the threads suspended. `Bcd` and `FromBcd` are `num2hex` and
what `Readbyte` makes of a byte with `sprintf` and `atoi`. **`WallClock`** is its
abstract specification: seconds that pass, that are set at once and read at once.
A reading gives the second it began in; one during which a second passes, that or
the next, or a later time that marks no hour (a carry may tear it ahead, never into
the window of an hour); one that a set overlaps, any time. Under the mapping in
`Clock`, `TimeIs` is the time told from the first register written on, and `MayRead`
what the reading under way may still give. **`HourRecord`**
extends `Clock`: `getPortData` (`Produce_Test.c:472`) is the receive callback,
`CloseBegins`, `ClosePort`, `CloseEnds` are `PowerRecord_StaticsData`
(`PowerStaticsRecord.c:107`), a division per action. **`PackLoops`** runs
the loops of the code next to the closed forms of `PortMask`, on one byte each: any
statuses packed (`Repack`) and any loop of `SetPortState` calls (`CallEach`), in any
order.

**`MCStripRelated`, `MCSettingsPage`, `MCMaintenance`, `MCNumbers`** give the
constants values and define the *scenes* of the runs: the roles, the image and the
inputs a behaviour starts with. A run explores the union of its scenes, each with
all interleavings. **`StripPortsProofs`**, **`StripRelatedProofs`**,
**`SettingsPageProofs`**, **`MaintenanceProofs`**, **`KeyDriverProofs`**,
**`PackLoopsProofs`**, **`ClockProofs`**, **`HourRecordProofs`** hold the theorems.

## 4. The runs

| run | shows |
|---|---|
| `strip_safe` | `OrderStands`, `OrderKnown`, `OrdersWereSent`: an order given in RAM survives the packing of the other actors, and once every actor is past its send the last frame carries every order that stands - with two clients, key, buttons, protection; with `masterSlaveControl`, `Reboot_Control` and new settings; with a restart on any image; with the related control's direct writes, a command, a restart, `Reboot_Control` |
| `strip_live` | `Converges`, `OverloadRelieved`, `MasterTracked`: when the inputs stop, byte, belief and relays agree for good although a frame was spoiled and nothing is resent; no overload lasts; no edge of the master is missed for good. `HoldIsRestored`, `QuietRequestIsApplied`: holds end and requests are carried out when they are accepted outside a send, whichever takes whose place |
| `relapse` (violated) | with `CONFIRM_COUNT` 3 and an overloaded master port the overload comes back for ever |
| `related_lost` (violated) | a delayed request accepted during the application thread's send is lost |
| `settings` | `CleanIsSaved`: a clear bit means the roles are on the page, however three savers, resets and power losses interleave; `SettingIsSaved`: the page catches up with what was set, again and again; `ChangeIsSaved`: a port's new status gets to the page |
| `settings_wear` (violated) | after one change of a port the page is erased and written again for ever |
| `settings_reset` (violated) | a factory reset keeps the roles it says it erases |
| `settings_name` (violated) | a renamed port has lost its name after a restart |
| `maintenance` | `NotEarly`, `AcceptedPends`, `AcceptedRuns`: a command that comes alone waits for its countdown; one that was accepted, or the one that replaced it, stays pending with its own code, and is carried out. `MixedOnlyIfOverwritten`: key, SSID and mode of the Wi-Fi requests of two servers are mixed only when one writes its key, or AP mode, over the other's before the other's last command; otherwise an accepted network is set in full, and stays so. `UdpHandsOverWhole`, `UpdateInstalls`: what is handed over is the image sent, and an update comes to its end, with packets lost, spoilt, doubled and early, a restart anywhere, and a download on the same area. `AcceptedIsJoined`, `NewMacIsSet`, `ResetLeadsToSmartLink`: what set-up commands and resets leave for the next boot |
| `key` | `PressesAnswered`: the driver implements `KeyPress`, each press is answered once and in the right way; `EveryPressEnds`: in the end |
| `key_early` (violated) | a press of about one second resets the strip |
| `numbers` | `PackMatchesLoop`, `PackIsExact`: the closed forms are the loops, for 4 ports, every status and every byte that packings lead to. `NeverBehind`, `HourMarkTrue`, `SetTakes`, `ClockIsWallClock`: the clock read and set while it runs, from every moment. `ReadingsAreCounted`, `EachHourOnce`: the readings of two hours, in a strip that was told the time, and of one in a strip that was not |

`OverloadRelieved` is checked without a master (`SettleScene`) or with one load,
and `ConfirmCount` 2: `relapse` is the same property where it fails. `strip_live`
thus says precisely where the protection works: the port the overload is on must
not be switched by `masterSlaveControl`.

Several properties name the case they do not cover, each because the code fails there:
`alone` (another request in between), `spoilt` (the area written over by another
update, or a restart of an accepted one), `torn` (two writers of the time zone page),
not `intact` (a Wi-Fi request overwritten between its commands), `mixed` (a set during
a read), `dropped` (a stale store). Section 7 says what happens in them.

## 5. Pace, fairness and bounds

**Pace.** The safety runs and the theorems let every message wait as long as it
likes. The liveness runs use `PacedNext`: a tick comes only when the line is
empty. At 115200 baud an exchange takes a few milliseconds and the tick comes
once a second, so this is what the hardware does; without it a report could stay
on the line over any number of ticks.

**Fairness of the strip.** Weak fairness of the timer, its callback, the slave and the receive
callback: the scheduler and the slave run. Strong fairness of the sends and of
the related control's steps only because a full line (`Cap`) disables them from
time to time, which in the code is a blocking `hfuart_send`. No fairness of
commands, settings, keys, appliances, Wi-Fi, losses or restarts: they may stop,
and `Budgets` bounds them so that they do.

**Fairness of the page.** Weak fairness of every actor that is inside a handler:
its thread runs. Strong fairness of the application thread's `SaveDevStatusPoll`
and `CheckSwState` from its loop: the model lets the loop do other things in
between (set another bit, run a deferred reset), the code comes to each of its
calls in every turn. None of commands, resets and power losses.

**Pace and fairness of `Maintenance`.** The application thread takes its
handlers in turn, and comes round at least once between two ticks (its loop sleeps
half a second) except in a download: `PacedTick`. Weak fairness of the application
thread, the servers inside a request, the timer, the end of a stale store, the UDP
thread that has a packet, and the sender, which does not give up. None of requests,
faults and power losses. The safety theorems need neither.

**Pace of the key.** The timer runs; a contact rests at least `Steady` ticks (8
ms) after a change, which is what the missing debouncing of the driver asks for.

**Pace of the numbers.** Neither a read nor a set of the clock takes a second; a
reading is taken within the second it comes in, the application thread comes round
within two seconds of a mark, and a closing takes less than one.

**Bounds of `Maintenance`.** `Budgets` are ten scenes: each lets the inputs of one
or two parts meet the faults that concern them. `Delay` 2 and `CountMod` 4 let the
countdown wrap during a download; `K` is 2 blocks, first and last, with all sets of
blocks told apart by their sums; two networks, two new addresses.

**Bounds of the key and the numbers.** `LongPress` 13 instead of 500: more than
three scan periods, not a multiple of one; the theorems hold for any, and
`key_early` uses the code's. `Bases` 11, 2, 3: the seconds pass 9, where BCD differs
from binary, a carry runs through all registers, and the chip starts at every
moment. In the hour scene an hour is 22 seconds with a reading every other: with the
window of 5 seconds and two more for the thread, at most four readings fit between
the first mark and the last, so that `MinReadings` 5 stands to them as 10 does to
the four of the code (`PowerStaticsRecord.c:121`). The scene ends at `Evening`, some seconds after the
last of these hours is closed; the theorems have no such bound.

**Bounds of the page.** `SaveAfter` is 1 instead of 5: the count runs over all of
its values, and the theorems hold for any. Two ports, one of them the key's, since
`Differs` adds up over the ports; one value besides zero, since only "equal to
what was set" matters. Each budget lets one kind of disturbance (reset, two resets,
two power losses, switching and naming) meet settings; two power losses are
enough for one inside the save that repairs the first.

**Bounds of the strip.** `Cap` messages per direction (1 in the runs: the UART carries one
frame at a time and the sender waits; the theorems hold for any). `Budgets`: each
scene names how often each input comes. `MaxAge`: `age` stops where every request
is due and over. `MaxAsks`: two requests, enough for one to meet every step of
another. `N` = 2 ports: one acts while the other is acted upon, first and last
port, and the latch of one spills onto the other or beyond the last; the
per-port code is the same for each index, and the theorems hold for any `N`.
`Warmup` 0 starts `masterSlaveControl` at once; `ConfirmCount` is 1 (a trip as
often as possible), 2 and, in `relapse`, 3 as in the code. `Load` and `Limit`
are chosen so that one port is fine and two are an overload.

## 6. The proofs

`StripPortsProofs`, for any `N`, any threads, roles, images, loads, limits and
budgets, from `NAssumption` and `StripAssumption` (the types of the constants):

- `TypeCorrect`: `Spec => []TypeOK`;
- `OrdersStand`: `Spec => [](OrderStands /\ OrderKnown)`;
- `OrdersSent`: `Spec => []OrdersWereSent`.

The inductive invariant `IInv` is `TypeOK /\ OrderStands /\ OrderKnown /\
OrdersWereSent`. `OrderStands` alone is not inductive: the next actor packs the
byte from the STATUS, so one must know that the status of an ordered port is the
order or the latch (`OrderKnown`). The latch is the delicate case: value 2 keeps
the bit as it was (`PackBits`) unless the port below is latched too, which is why
`Kept` drops such an order. `OrdersWereSent` needs `OrderStands`: a frame carries
the byte at the time of the send, also an order of somebody who has not sent yet.
The lemmas `PackBits` and `PackEachBits` state what one packing and a loop of
`SetPortState` calls do to each bit; then one lemma per action, in three parts
(belief, types, what was sent).

`StripRelatedProofs`, from `RelatedAssumption` besides: `RelatedTypeCorrect`,
`RelatedOrders`, `RelatedSent`: `RelatedSpec => []RelatedType`, `[](OrderStands /\
OrderKnown)`, `[]OrdersWereSent`. The steps of `StripPorts` are reused through
`StepInv`; what is new is that writing the whole byte (`SetByteBelief`) drops the
orders it contradicts.

`SettingsPageProofs`, for any ports, values, `SaveAfter` and budgets, from
`SettingsAssumption` (finitely many ports, the key's among them; no value is
0xFF):

- `SettingsTypeCorrect`: `Spec => []TypeOK`;
- `PageIsSafe`: `Spec => []IInv`, and from it
- `SettingsKept`: `Spec => []CleanIsSaved`.

`CleanIsSaved` says nothing while somebody saves, so it is not inductive. `PageSafe`
says what holds then: a save is still to come and will begin with an erase
(`Pending`), or each setting on the page is the one set last, save what is erased
with a writer still before it (`Written`), or the page has no flag and the settings
are those of a boot without one (`NeverSaved`). Only an erase ends `Pending`, and it
establishes `Written`; a boot establishes one of the other two. That two savers
inside the write do no harm is `ProgrammedSetting`: what is programmed twice is the
same value, because a setting that changed in between made `Pending` true.

`MaintenanceProofs`, for any countdown, image, networks and numbers of inputs,
from `RebootAssumption` (the delay fits the counter), `UpdateAssumption` and
`SumAssumption` (sums add up modulo their width), `CheckAssumption` and
`BudgetAssumption`:

- `MaintenanceTypeCorrect`: `Spec => []TypeOK`;
- `CommandsWait`: `Spec => []NotEarly`;
- `AcceptedCommandsPend`: `Spec => []AcceptedPends`;
- `AcceptedUnlessOverwritten`: `Spec => []MixedOnlyIfOverwritten`;
- `UdpImageIsWhole`: `Spec => []UdpHandsOverWhole`;
- `ResetEntersSmartLink`: `Spec => []ResetLeadsToSmartLink`.

Each part has an inductive invariant of its own. `TimerInv`: whoever is inside
`Reboot` alone found nothing pending, and countdown and ticks waited add up to the
delay; a stale store breaks `alone`, not the sum. `UdpInv`: the blocks written are
those in the sum and at most the last one's number; either all up to the last are
there and in their places, or one is missing for good, since only newer blocks are
written; then the sum is not the whole's and the image is refused. `ResetInv`
follows the mark from the buffer to the page to the boot. `RequestInv`: a request
in progress names a network. `NetworkInv` adds to
`MixedOnlyIfOverwritten` that a request of which nothing was overwritten
(`Overwrites`) finds its key, and before the last command the mode, as it wrote them
(`AtKeeps` says what a command of the other server leaves); a boot changes the
settings only in AP mode, in which no accepted network is. `AcceptedPends`
is inductive as it stands, once `ResetInv` says that the application thread writes the
page of the time zone only within a reset: otherwise the end of that write could end
the turn of a command just taken. What the actions of one part do to another's
variables is said once (`QuietStep`, `OtherStep`, `AsideStep`, `OutsideStep`).

`KeyDriverProofs`, for any `LongPress`, `Steady` and `Cap` that `KeyAssumption`
allows: `KeyTypeCorrect`, `Spec => []KeyType`, and `PressRefinement`, `Spec =>
PressesAnswered`, that is `Press!PressSpec` under the refinement mapping. The
invariant `KeyInv` counts ticks: an edge that was not read is younger than a scan
period and its scan comes in time (`EdgeIsYoung`); the driver's counter runs one
behind the age of the press (`CountsThePress`). So what `Key_Poll` compares with
`LongPress` differs from the length of the press by less than a scan period, and
each callback maps to a step of `KeyPress`.

`PackLoopsProofs`, for any number of ports: `LoopsPack`, `PackSpec =>
[]PackMatchesLoop`, and `PackingExact`, `PackSpec => []PackIsExact`. So what
`StripPortsProofs` shows of the closed forms holds of the loops. What a loop holds
after `i` iterations is given in closed form too (`UpTo`; `CallsUpTo` for the loop
of calls, each of which packs); it satisfies the equation of the recursive function,
and a function that satisfies that equation cannot differ from it: there would be a
least `i` at which it does (`Least`, from the well-foundedness of `<` on `Nat`). The
library's induction theorems are not used, since they take an operator as a
parameter.

`ClockProofs`, for any number of registers from two on and any bases from 2 to 100
(what two BCD digits hold), from `ClockAssumption` and `TargetAssumption`:

- `ClockTypeCorrect`: `ClockSpec => []ClockType`;
- `ReadingNeverBehind`: `ClockSpec => []NeverBehind`;
- `HourMarkedInWindow`: `ClockSpec => []HourMarkTrue`;
- `TimeToldIsSet`: `ClockSpec => SetTakes`;
- `ClockKeepsWallTime`: `ClockSpec => ClockIsWallClock`, the refinement.

The registers are a number in a mixed base. `FieldInduction` and `Recursion` are
induction and definition by recursion over the registers, again by a least
counterexample; with them `Weight` is a product of bases (`WeightIs`), any registers
have a sum (`SumsExist`), and `Digits` and `Value` undo each other
(`ValueOfDigits`, `DigitsOfValue`). `TornReading` is the heart: a reading with the
registers below `k` of second `t` and those from `k` on of `t + 1` is
`(t % w) + (t + 1) - ((t + 1) % w)`, `w` the weight of register `k`: no less than
`t`, and ahead by `w - 1` at most. The invariant `ClockInv` has what makes a reading
such a one (`ReadPart`: the chip ticks once at most in a read, and the registers are
taken from the first up) and what makes a set safe (`SetPart`: the registers
written so far are the digits told, and the chip does not tick until the last of
them is). For the refinement one lemma per action says which step of `WallClock` it
is: a register read is none, the first register written sets the clock, and the end
of a reading has to give one of the times promised. For that `MarkedReading` shows
that a reading in the window of an hour is not torn at all: a carry beyond the
seconds needs them at their last value (`CarryNeedsEnd`), and those were read first.

`HourRecordProofs`, for any `Sockets`, `ReadEvery`, `RecordHours` and clock, from
`RecordAssumption`: `ReadingsCounted`, `HourSpec => []ReadingsAreCounted`
(`HourSpec` begins as the scene does, and at any moment), and `HoursRecordedOnce`,
`HourSpec => EachHourOnce`. A reading that comes into a closing finds some sums
divided and others not; two would break the bound of the first. Its invariant needs
`OneReading`: as long as the reading of this second has not been taken, the ports
divided so far have empty sums. A second reading needs a second to pass, and a
closing takes less (`SecondPasses`; section 5). The second theorem is about time:
`RecordInv` adds to `ClockInv` that a mark is of a second in the window and old by
two seconds at most (`MarkPart`), that an hour being closed has its readings and is
just over (`ClosePart`), and that the readings counted came after the newest record,
`ReadEvery` seconds apart (`PacePart`). Two conjuncts of `RecordAssumption` are what
the argument turns on, and the code's constants satisfy them: the readings asked for
take longer than the window with the thread's round, `HourWindow + 1 < (MinReadings -
1) * ReadEvery` (6 < 18), and the rounding does not reach the next hour from inside
the window, `HourWindow + Ahead <= Hour` (105 <= 3600). `HourSpec` sets no clock: a
strip that is told another time in the middle of an hour may well record it twice.

Only model-checked: the liveness properties (`Converges`, `OverloadRelieved`,
`MasterTracked`, `HoldIsRestored`, `QuietRequestIsApplied`, `SettingIsSaved`,
`ChangeIsSaved`, `AcceptedRuns`, `UpdateInstalls`, `AcceptedIsJoined`,
`NewMacIsSet`, `EveryPressEnds`), since fairness and `ENABLED` are beyond the prover.
Every invariant, action property and refinement that a passing run checks is a
theorem.

## 7. Disagreements found

Each is a run that TLC must find violated:

- `relapse`: `rn8209.c:67` promises protective measures for every port. The trip
  is decided on a tick that has just asked for the states; the answer still says
  "on", `getPortState` overwrites the latch, `masterSlaveControl` takes the loss
  of the master's power for an edge, packs every status and switches the
  overloaded port on again.
- `related_lost`: `afterMark` (and `ctlMark`, after a restore) is written after
  the send, over the one a new request has just set.
- `settings_wear`: `flash.c:544` says that a change found five times is saved.
  `CheckSwState` refreshes `OldStatus` after the loop (`flash.c:566`), of the spare
  entry behind the ports: the difference stays, and the page is erased and written
  every few seconds for as long as the port keeps its status.
- `settings_reset`: `flash.c:708` says that the reset erases the master/slave and
  reboot information. `FlashResetFactory` does not clear it in `SwInformation`, and
  `SaveDevStatusPoll` at its end (`flash.c:734`) writes it back.
- `settings_name`: `flash.c:247` and `:301` say that the names are stored and read;
  `App_Init` calls `ReadDevStatus` after `ReadDevName` (`SwitchApp.c:437`), which
  overwrites them with those of the last save of the other page, or with nothing.

- `key_early`: `KeyDrv.c:109` and the name `KEY_LONG_PRESS_3S` say that a press of
  more than 3 s is a long one. The constant is 500 (`KeyDrv.h:42`), counted in a 2 ms
  timer (`SwitchApp.c:380`): the factory reset comes after a second.

Met while modelling, without a run of their own.

*Ports.* A latched last port leaves bit 6 of the byte set for ever
(`Produce_Test.c:200` knows bits 0 to 5; the slave is assumed to ignore it). The
frame of a command for one port undoes a button press on another that has not been
reported yet (`DevRule.c:579`). An overload of a slave port relapses as that of the
master does. A related request writes `holdTime` before its send and `ctlTime` after
it (`DevRule.c:371`, `:424`), so a tick in between may restore at once; `preStates`
is packed from `OnOffStatus` (`DevRule.c:376`), which no related control writes, so
of two requests within one poll the second goes back to the state before the first.
If the Wi-Fi flag were ever raised, `UdpSetDevReboot` during the eight seconds of
`Reboot_Control` would leave a port off for good, since `rebootPort` is read again
(`PublicServerCom.c:219`).

*Deferred commands.* The comment at `DevLib.c:247` says 3 seconds, the countdown is
5; while a download keeps the application thread it wraps, and the command waits
another 256 seconds. A command within the countdown of another replaces it: a
resynchronisation takes the place of a restart that was confirmed. A stale store of
`TimelyCheck` drops a command.

*Update.* A first block that is repeated late, after the image was accepted, erases
it before it is handed over. A restart between the acceptance and the hand-over
loses an image that was acknowledged. The mutex of the URL path is not taken by the
UDP path: a download writes into its image. MD5 and `data_checksum` are compared
with nothing, and a download that is cut off is handed over. A block whose own sum is
wrong counts as received, so that an image is only refused at its end; blocks that
sum up to 0 modulo 2^16 can be missing unnoticed. An update that is given up leaves
the line to the slave closed (`hfuart_close`) until the next one ends.

*Set-up.* A refused `SetWifiMode` leaves what its first commands wrote; requests of
the two server threads mix key and SSID, both answered with 200, when one writes its
key between the first and the last command of the other, and the mode likewise. AP
mode never outlasts the next boot, which enters smart link or looks for `UPGRADE-AP`.
A MAC address that comes between `ModifyDevMac`'s command and its `MacChgFlag = 0` is
forgotten. A new time zone whose buffer was built before a factory reset's mark may
write over it: the strip then looks for `UPGRADE-AP` instead of entering smart link.

*Key.* The key scanned up to three ticks late resets a strip whose key was let go
just before the limit. A key that is down since power-on, or through the restart of
its own reset, toggles the first port when it is let go. Nothing debounces, but
sampling.

*Clock and records.* A reading torn by a carry can be ahead by a minute, an hour or
a day, and related control then acts early; a time told while a related control is
pending shifts it. Every boot sets the chip to 2000-01-01 (`SwitchApp.c:439`,
`PowerStatics_Init`). An hour is lost, and the next record is the mean of two, when
the application thread is busy for the whole window (a download). A reading that
comes between the division and the reset of the count is in the next sum but not in
its count. When the table is full (`RECORD_HOURS`) `recordCount` is 0 again and all its
records count as reported (`surplusRecordCount`).

## 8. What is not modelled

- In the modelled parts: `portChangeReason`, `OldStatus`, and `CurStatus` of the ports
  other than 0; the record one past the table that `Switch_Ctl` on the last port
  clears; a preemption inside one `|=`/`&=` of a packing loop, which may store a stale
  byte and lose an order of another actor; a strip of an unknown type (`dev_sn[6]`,
  `rn8209.c:92`), which has no protection; the acknowledge frame `SendAckToSlave`;
  `FlashResetFactory`'s `Switch_TurnOnOff(0, 1)`; setting requests with fewer entries
  than ports; a clock set by the server while a related control runs. The threshold
  `masterLimitWatt` is abstracted to whether the master's appliance draws power.
- In `SettingsPage`: `OnOffStatus` and `portChangeReason` on the page, names longer
  than their field, and the pages of rules, binding and security mode, which other
  functions write. A lost update of `TimelyCheck` is modelled for the bits of the
  page and of the deferred commands.
- In `Maintenance`: the name, the rules and the settings a reset erases (the last are
  in `SettingsPage`), the bits 9 and 12 of `TimelyCheck` that
  `PublicServer_SyncAllWithServer` sets in a resynchronisation when `isDevReg` is on
  (nothing in this repository sets it; bit 9 is the mark of `HourRecord`), a
  difference between a download that fails before its first byte and one that ends
  with none, a block that comes between `hfupdate_complete` and the restart,
  watchdogs, lengths of texts, the closed line's effect on the strip (its frames are
  lost, which `StripPorts` has one by one).
- In `Clock`: months of different lengths and `mktime`, the time zone's offset, the
  protocol on the wire. In `HourRecord`: power values and their scale, and reporting:
  bits 21 and 22 of `TimelyCheck` have no reader in this build.
- `WIFI_WORK_NORMAL` is raised by nothing in this repository, so `Reboot_Control`
  never acts in it; the model lets the flag change, which adds behaviours and takes
  none away.
- Rules, countdown and security mode: their setters have no caller in this build,
  and what runs on empty tables does nothing. Binding and registration: flags in RAM
  that a text sets and a text reads.
- Zero-crossing and metering (`read_power.c`, `rn8209.c`, SPI) are pin I/O; the
  build with six ports gets its readings from the slave. LED and `CheckDevMode`
  are outputs without feedback. Dispatch, the Wi-Fi scan list and the formatting of
  answers are text. Socket and thread creation, cJSON and the SDK are the vendor's.

Most of the lines of the repository are headers and examples of the SDK in two
versions, cJSON, and code under `#if` for other builds; the map names what runs in
this build and carries state.
