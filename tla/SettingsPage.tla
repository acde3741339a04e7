---------------------------- MODULE SettingsPage ----------------------------
(***************************************************************************)
(* The flash page that holds SwInformation: who changes SwInformation, who *)
(* saves it, and what a restart makes of the page.                         *)
(*                                                                         *)
(* Three actors save, without a lock, by SaveDevStatusPoll: the            *)
(* application thread in its loop, the UDP thread inside UdpSetHostSlave,  *)
(* and whoever runs FlashResetFactory, which is the application thread     *)
(* (deferred command) or the key scan in the 2 ms timer (long press).      *)
(* They agree by one bit of the word TimelyCheck.  Every update of that    *)
(* word is a load and a store, so a thread that touches ANOTHER bit of it  *)
(* may store back a stale copy of this one.                                *)
(*                                                                         *)
(* External: an erased page reads 0xFF; programming only clears bits; the  *)
(* power may fail between any two flash operations, and inside a write     *)
(* after the eight bytes in front of PortInfor, which hold the valid flag. *)
(***************************************************************************)
EXTENDS Naturals, FiniteSets

CONSTANTS
  Ports,
  KeyPort,    \* the port the module's key switches
  Data,       \* values a command may set
  Zero,       \* what memset leaves in a setting
  Default,    \* the names PORT1.. of FlashResetFactory and ReadDevName
  Erased,     \* 0xFF
  Mixed,      \* two values written over each other
  SaveAfter,  \* SAVE_SW_STATE_AFTER_CHANGE_TIME_SEC
  Budgets     \* bounds: how many inputs of each kind come

\* The parts of SwInformation in the order of the page.
Head == {"limit", "enable"}
Status == {"old", "cur"}
Body == {"types", "ports", "name"} \cup Status
Fields == Head \cup Body
\* Set by UdpSetHostSlave, by UdpSetDevReboot.
Roles == {"types", "limit"}
Reboots == {"ports", "enable"}
Settings == Roles \cup Reboots

Actors == {"app", "udp", "key"}
Threads == {"app", "udp"}
Resetters == {"app", "key"}
Inputs == {"roles", "reboots", "name", "switch", "key", "reset", "power"}

ASSUME SettingsAssumption ==
  /\ IsFiniteSet(Ports) /\ KeyPort \in Ports
  /\ SaveAfter \in Nat
  /\ Erased \notin Data \cup {Zero, Default, Mixed}
  /\ Budgets \subseteq [Inputs -> Nat]

VARIABLES
  ram,        \* SwInformation
  page,       \* external: the page at FLASH_DEV_STATUS_INFO_BUF_START
  namePage,   \* external: the names in the page of WriteDevName
  dirty,      \* TIMELY_CKECK_BIT_14_SW_STATE_IS_DIRTY_CMD
  held,       \* the copy of that bit a thread will store back
  count,      \* iSaveSwStateCount
  stage,      \* where each actor is
  resetting,  \* the actors inside FlashResetFactory
  dropped,    \* history: a stale store cleared the bit since the last save
  left        \* bounds: inputs still allowed

flash == <<page, namePage>>
word == <<dirty, held, dropped>>
vars == <<ram, flash, word, count, stage, resetting, left>>

Spend(what) == left[what] > 0 /\ left' = [left EXCEPT ![what] = @ - 1]
Go(a, where) == stage' = [stage EXCEPT ![a] = where]
At(a, where) == stage[a] = where

Values == Data \cup {Zero, Default, Erased, Mixed}
Stages == {"idle", "update", "mark", "poll", "erase", "head", "body",
           "only", "name", "nameWrite", "wipe", "switch"}

RamType ==
  /\ ram \in [Fields -> Values \cup SUBSET Ports]
  /\ \A f \in Fields \ Status : ram[f] \in Values
  /\ \A f \in Status : ram[f] \subseteq Ports

PageType ==
  /\ page \in [Fields -> Values \cup SUBSET Ports]
  /\ \A f \in Fields \ Status : page[f] \in Values
  /\ \A f \in Status : page[f] = Erased \/ page[f] \subseteq Ports

ControlType ==
  /\ namePage \in Values
  /\ dirty \in BOOLEAN /\ held \in [Threads -> BOOLEAN] /\ dropped \in BOOLEAN
  /\ count \in 0 .. SaveAfter
  /\ stage \in [Actors -> Stages]
  /\ resetting \subseteq Resetters
  /\ left \in [Inputs -> Nat]

TypeOK == RamType /\ PageType /\ ControlType

-----------------------------------------------------------------------------
(* Flash *)

\* A second write without an erase leaves the bits set in both.
Programmed(f, v) ==
  IF page[f] \in {Erased, v} THEN v
  ELSE IF f \in Status THEN page[f] \cap v ELSE Mixed

WritePart(part) ==
  page' = [f \in Fields |-> IF f \in part THEN Programmed(f, ram[f])
                                          ELSE page[f]]
Blank == [f \in Fields |-> Erased]

Cleared == [f \in Fields |-> IF f \in Status THEN {} ELSE Zero]

\* A byte 0xFF in a port's status is not 0.
Read(f) == IF f \in Status /\ page[f] = Erased THEN Ports ELSE page[f]

\* memcpy of the letters only: the rest of a longer name stays behind them.
DefaultName(name) == IF name \in {Zero, Default} THEN Default ELSE Mixed

ReadDevName(r) ==
  [r EXCEPT !["name"] = IF namePage = Erased THEN DefaultName(@) ELSE namePage]

\* The flag is written with the head.  All of SwInformation is overwritten.
ReadDevStatus(r) ==
  IF page["limit"] = Erased THEN Cleared ELSE [f \in DOMAIN r |-> Read(f)]

\* App_Init
Booted == ReadDevStatus(ReadDevName(Cleared))

Init ==
  /\ ram = Cleared
  /\ page = Blank
  /\ namePage = Erased
  /\ dirty = FALSE /\ held = [a \in Threads |-> FALSE] /\ dropped = FALSE
  /\ count = 0
  /\ stage = [a \in Actors |-> "idle"]
  /\ resetting = {}
  /\ left \in Budgets

-----------------------------------------------------------------------------
(* Saving *)

\* The application thread polls in its loop, the others after setting the bit.
Polls(a) == At(a, "poll") \/ (a = "app" /\ At(a, "idle") /\ a \notin resetting)

SaveDevStatusPoll(a) ==
  /\ Polls(a)
  /\ IF dirty
       THEN /\ Go(a, "erase")
            /\ dirty' = FALSE /\ dropped' = FALSE
       ELSE Go(a, "idle") /\ UNCHANGED <<dirty, dropped>>
  /\ UNCHANGED <<ram, flash, held, count, resetting, left>>

ErasePage(a) ==
  /\ At(a, "erase")
  /\ page' = Blank
  /\ Go(a, "head")
  /\ UNCHANGED <<ram, namePage, word, count, resetting, left>>

WriteHead(a) ==
  /\ At(a, "head")
  /\ WritePart(Head)
  /\ Go(a, "body")
  /\ UNCHANGED <<ram, namePage, word, count, resetting, left>>

\* Mutant: the bit is cleared when the page is written, not before.
WriteBodyClears(a) ==
  /\ At(a, "body")
  /\ WritePart(Body)
  /\ Go(a, "idle")
  /\ dirty' = FALSE
  /\ UNCHANGED <<ram, namePage, held, dropped, count, resetting, left>>

WriteBody(a) ==
  /\ At(a, "body")
  /\ WritePart(Body)
  /\ Go(a, "idle")
  /\ UNCHANGED <<ram, namePage, word, count, resetting, left>>

Differs == (ram["old"] \ ram["cur"]) \cup (ram["cur"] \ ram["old"])

\* Mutant: counts the ports that differ now instead of adding them up.
CheckAnew ==
  /\ At("app", "idle") /\ "app" \notin resetting
  /\ LET n == Cardinality(Differs)
     IN  IF n > SaveAfter THEN count' = 0 /\ dirty' = TRUE
                          ELSE count' = n /\ UNCHANGED dirty
  /\ UNCHANGED <<ram, flash, held, dropped, stage, resetting, left>>

\* Mutant: the count goes on after the bit is set.
CheckGoesOn ==
  /\ At("app", "idle") /\ "app" \notin resetting
  /\ LET n == count + Cardinality(Differs)
     IN  count' = n /\ dirty' = (dirty \/ n > SaveAfter)
  /\ UNCHANGED <<ram, flash, held, dropped, stage, resetting, left>>

\* The entry whose OldStatus it refreshes is the spare one behind the ports.
CheckSwState ==
  /\ At("app", "idle") /\ "app" \notin resetting
  /\ LET n == count + Cardinality(Differs)
     IN  IF n > SaveAfter THEN count' = 0 /\ dirty' = TRUE
                          ELSE count' = n /\ UNCHANGED dirty
  /\ UNCHANGED <<ram, flash, held, dropped, stage, resetting, left>>

-----------------------------------------------------------------------------
(* The word TimelyCheck *)

\* A thread changes another bit of the word.
LoadWord(a) ==
  /\ At(a, "idle") /\ a \notin resetting
  /\ held' = [held EXCEPT ![a] = dirty]
  /\ Go(a, "update")
  /\ UNCHANGED <<ram, flash, dirty, dropped, count, resetting, left>>

StoreWord(a) ==
  /\ At(a, "update")
  /\ dirty' = held[a]
  /\ dropped' = (dropped \/ (dirty /\ ~held[a]))
  /\ Go(a, "idle")
  /\ UNCHANGED <<ram, flash, held, count, resetting, left>>

\* SetBit, of the commands and of FlashResetFactory
SetDirty(a) ==
  /\ At(a, "mark") \/ At(a, "only")
  /\ dirty' = TRUE
  /\ Go(a, IF At(a, "mark") THEN "poll" ELSE "idle")
  /\ UNCHANGED <<ram, flash, held, dropped, count, resetting, left>>

-----------------------------------------------------------------------------
(* What changes SwInformation *)

Set(fields, v) ==
  ram' = [f \in Fields |-> IF f \in fields THEN v ELSE ram[f]]

UdpSetHostSlave(v) ==
  /\ At("udp", "idle") /\ Spend("roles")
  /\ Set(Roles, v)
  /\ Go("udp", "mark")
  /\ UNCHANGED <<flash, word, count, resetting>>

\* Mutant: nobody is asked to save.
RebootNoMark(v) ==
  /\ At("udp", "idle") /\ Spend("reboots")
  /\ Set(Reboots, v)
  /\ UNCHANGED <<flash, word, count, stage, resetting>>

\* It leaves the saving to the application thread.
UdpSetDevReboot(v) ==
  /\ At("udp", "idle") /\ Spend("reboots")
  /\ Set(Reboots, v)
  /\ Go("udp", "only")
  /\ UNCHANGED <<flash, word, count, resetting>>

ModifyDevName(v) ==
  /\ At("udp", "idle") /\ Spend("name")
  /\ Set({"name"}, v)
  /\ Go("udp", "name")
  /\ UNCHANGED <<flash, word, count, resetting>>

\* WriteDevName, of a command and of FlashResetFactory
EraseName(a) ==
  /\ At(a, "name")
  /\ namePage' = Erased
  /\ Go(a, "nameWrite")
  /\ UNCHANGED <<ram, page, word, count, resetting, left>>

WriteName(a) ==
  /\ At(a, "nameWrite")
  /\ namePage' = IF namePage \in {Erased, ram["name"]} THEN ram["name"]
                                                       ELSE Mixed
  /\ Go(a, IF a \in resetting THEN "wipe" ELSE "idle")
  /\ UNCHANGED <<ram, page, word, count, resetting, left>>

\* SetPortState, whoever calls it
SetPortState(ports, on) ==
  LET cur == IF on THEN ram["cur"] \cup ports ELSE ram["cur"] \ ports
  IN  ram' = [ram EXCEPT !["old"] = (@ \ ports) \cup (ram["cur"] \cap ports),
                         !["cur"] = cur]

SwitchPort(p, on) ==
  /\ Spend("switch")
  /\ SetPortState({p}, on)
  /\ UNCHANGED <<flash, word, count, stage, resetting>>

\* The time to the next save starts again.
KeyTurnOnOffSwitch ==
  /\ At("key", "idle") /\ "key" \notin resetting /\ Spend("key")
  /\ SetPortState({KeyPort}, KeyPort \notin ram["cur"])
  /\ count' = 0
  /\ UNCHANGED <<flash, word, stage, resetting>>

-----------------------------------------------------------------------------
(* FlashResetFactory *)

FlashResetFactory(a) ==
  /\ At(a, "idle") /\ a \notin resetting /\ Spend("reset")
  /\ resetting' = resetting \cup {a}
  /\ Set({"name"}, DefaultName(ram["name"]))
  /\ Go(a, "name")
  /\ UNCHANGED <<flash, word, count>>

WipePage(a) ==
  /\ At(a, "wipe")
  /\ page' = Blank
  /\ Go(a, "switch")
  /\ UNCHANGED <<ram, namePage, word, count, resetting, left>>

\* Switch_TurnOnOff(0, 1)
SwitchAllOn(a) ==
  /\ At(a, "switch")
  /\ SetPortState(Ports, TRUE)
  /\ Go(a, "mark")
  /\ UNCHANGED <<flash, word, count, resetting, left>>

-----------------------------------------------------------------------------
Boot ==
  /\ ram' = Booted
  /\ dirty' = FALSE /\ held' = [a \in Threads |-> FALSE] /\ dropped' = FALSE
  /\ count' = 0
  /\ stage' = [a \in Actors |-> "idle"]
  /\ resetting' = {}
  /\ UNCHANGED flash

PowerLoss == Spend("power") /\ Boot

\* ClearDevSmartLinkInfo ends in hfsys_reset.
ResetDone(a) == a \in resetting /\ At(a, "idle") /\ UNCHANGED left /\ Boot

Save(a) == SaveDevStatusPoll(a) \/ ErasePage(a) \/ WriteHead(a) \/ WriteBody(a)
Name(a) == EraseName(a) \/ WriteName(a)
Reset(a) == WipePage(a) \/ SwitchAllOn(a) \/ ResetDone(a)
Word(a) == LoadWord(a) \/ StoreWord(a)
Command == \E v \in Data :
             UdpSetHostSlave(v) \/ UdpSetDevReboot(v) \/ ModifyDevName(v)
Switches == \/ \E p \in Ports, on \in BOOLEAN : SwitchPort(p, on)
            \/ KeyTurnOnOffSwitch

Next ==
  \/ \E a \in Actors : Save(a) \/ SetDirty(a) \/ Name(a)
  \/ \E a \in Resetters : FlashResetFactory(a) \/ Reset(a)
  \/ \E a \in Threads : Word(a)
  \/ CheckSwState \/ Command \/ Switches \/ PowerLoss

Spec == Init /\ [][Next]_vars

\* Whoever is on its way goes on; the application thread's loop comes to each
\* of its calls again and again.
Fairness ==
  /\ \A a \in Actors : /\ WF_vars(At(a, "poll") /\ SaveDevStatusPoll(a))
                       /\ WF_vars(ErasePage(a) \/ WriteHead(a) \/ WriteBody(a))
                       /\ WF_vars(SetDirty(a)) /\ WF_vars(Name(a))
  /\ \A a \in Resetters : WF_vars(Reset(a))
  /\ \A a \in Threads : WF_vars(StoreWord(a))
  /\ SF_vars(At("app", "idle") /\ SaveDevStatusPoll("app"))
  /\ SF_vars(CheckSwState)

FairSpec == Spec /\ Fairness
-----------------------------------------------------------------------------
(* Properties *)

\* What a restart would make of the settings.
Kept == \A f \in Settings : ReadDevStatus(ram)[f] = ram[f]

Quiet == ~dirty /\ ~dropped /\ \A a \in Actors : stage[a] \in {"idle", "update"}

\* A clear bit means saved: when no actor is saving, setting or resetting and
\* the bit is clear, a restart brings back the roles of the ports that were
\* set, however the three savers got into each other's way, unless a thread
\* has stored a stale word over the bit.
CleanIsSaved == Quiet => Kept

\* Roles that were set get to the page (or the bit is lost, see CleanIsSaved),
\* whoever else saves, resets or restarts meanwhile.
SettingIsSaved == []<>(Kept \/ dropped)

\* A port's status that goes on being different from the one before it gets to
\* the page: CheckSwState asks for the save (SAVE_SW_STATE_AFTER_CHANGE).
ChangeIsSaved == <>[](Differs # {}) => []<>(Read("cur") = ram["cur"])

\* What the header of CheckSwState (flash.c:543) and its constant say, that a
\* change of a port's status is saved some seconds after it: with no more
\* changes there are no more saves.
SavingEnds == <>[]~dirty

\* What FlashResetFactory says of the page it erases (flash.c:708), "erase the
\* MS/Reboot port information": the restart that ends it finds no roles.
ResetForgets ==
  [][\A a \in Resetters : ResetDone(a) =>
       \A f \in Settings : ram'[f] = Zero]_vars

\* What WriteDevName and ReadDevName say (flash.c:249, "read the port name"),
\* that the port names are stored: a restart long after ModifyDevName brings
\* the name back.
NameIsKept ==
  [][PowerLoss /\ Quiet /\ resetting = {} => ram'["name"] = ram["name"]]_vars
=============================================================================
