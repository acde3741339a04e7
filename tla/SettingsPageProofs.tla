-------------------------- MODULE SettingsPageProofs --------------------------
(***************************************************************************)
(* CleanIsSaved for every set of ports and values and any number of        *)
(* commands, resets and power losses.  It is not inductive: it says        *)
(* nothing while somebody saves.  PageSafe says what the page may be then. *)
(***************************************************************************)
EXTENDS SettingsPage, FiniteSetTheorems, TLAPS

\* A save is still to come: it begins with an erase.
Pending ==
  dirty \/ dropped
  \/ \E a \in Actors : stage[a] \in {"mark", "only", "switch", "erase"}

Before(stages) == \E a \in Actors : stage[a] \in stages

\* What is on the page was set last; what is missing is still to be written.
Written ==
  /\ \A f \in {"limit", "enable"} :
       page[f] = ram[f] \/ (page[f] = Erased /\ Before({"head"}))
  /\ \A f \in {"types", "ports"} :
       page[f] = ram[f] \/ (page[f] = Erased /\ Before({"head", "body"}))

\* No save since a boot that found no flag.
NeverSaved ==
  /\ page["limit"] = Erased
  /\ \A f \in Settings : ram[f] = Zero
  /\ ~Before({"head", "body"})

PageSafe == /\ ram["limit"] # Erased
            /\ Pending \/ Written \/ NeverSaved

IInv == TypeOK /\ PageSafe

-----------------------------------------------------------------------------
(* Lemmas *)

\* Which settings there are.
LEMMA SettingNames == Settings = {"types", "limit", "ports", "enable"}
BY DEF Settings, Roles, Reboots

\* The fields of the two parts.
LEMMA FieldNames ==
  /\ Settings \subseteq Fields
  /\ Status \subseteq Fields
  /\ Settings \cap Status = {}
  /\ Roles \cup Reboots \cup {"name"} \subseteq Fields \ Status
BY DEF Settings, Roles, Reboots, Fields, Head, Body, Status

\* Programming a setting leaves one of the values, and exactly the value given
\* where the page was erased or holds it already.
LEMMA ProgrammedSetting ==
  ASSUME NEW f \in Settings, NEW v,
         page[f] \in {Erased, v}
  PROVE  Programmed(f, v) = v
BY FieldNames DEF Programmed

\* A port's status on the page stays a set of ports.
LEMMA ProgrammedStatus ==
  ASSUME TypeOK, NEW f \in Status
  PROVE  Programmed(f, ram[f]) \subseteq Ports
BY DEF Programmed, TypeOK, RamType, PageType

\* Any other field stays a value.
LEMMA ProgrammedValue ==
  ASSUME TypeOK, NEW f \in Fields \ Status
  PROVE  Programmed(f, ram[f]) \in Values
BY DEF Programmed, TypeOK, RamType, PageType, Values

\* Writing a part keeps the page well typed.
LEMMA WritePartType ==
  ASSUME TypeOK, NEW part, WritePart(part)
  PROVE  /\ page' \in [Fields -> Values \cup SUBSET Ports]
         /\ \A f \in Fields \ Status : page'[f] \in Values
         /\ \A f \in Status : page'[f] = Erased \/ page'[f] \subseteq Ports
<1>1. \A f \in Fields \ Status : page'[f] \in Values
  BY ProgrammedValue DEF WritePart, TypeOK, PageType
<1>2. \A f \in Status : page'[f] = Erased \/ page'[f] \subseteq Ports
  BY ProgrammedStatus, FieldNames DEF WritePart, TypeOK, PageType
<1>3. \A f \in Fields : page'[f] \in Values \cup SUBSET Ports
  BY <1>1, <1>2 DEF Values
<1> QED BY <1>1, <1>2, <1>3 DEF WritePart

\* An erased page is well typed.
LEMMA BlankType ==
  /\ Blank \in [Fields -> Values \cup SUBSET Ports]
  /\ \A f \in Fields : Blank[f] = Erased
  /\ Erased \in Values
BY DEF Blank, Values

\* What a boot loads is well typed.
LEMMA BootedType ==
  ASSUME TypeOK
  PROVE  /\ Booted \in [Fields -> Values \cup SUBSET Ports]
         /\ \A f \in Fields \ Status : Booted[f] \in Values
         /\ \A f \in Status : Booted[f] \subseteq Ports
<1>1. /\ Cleared \in [Fields -> Values \cup SUBSET Ports]
      /\ \A f \in Fields \ Status : Cleared[f] \in Values
      /\ \A f \in Status : Cleared[f] \subseteq Ports
  BY FieldNames DEF Cleared, Values
<1>2. DOMAIN ReadDevName(Cleared) = Fields
  BY DEF ReadDevName, Cleared
<1>3. /\ \A f \in Fields \ Status : Read(f) \in Values
      /\ \A f \in Status : Read(f) \subseteq Ports
  BY DEF Read, TypeOK, PageType
<1>4. \A f \in Fields : Read(f) \in Values \cup SUBSET Ports
  BY <1>3
<1> QED BY <1>1, <1>2, <1>3, <1>4, FieldNames DEF Booted, ReadDevStatus

\* A boot leaves everything but the bounds well typed.
LEMMA BootType ==
  ASSUME TypeOK, Boot, left' \in [Inputs -> Nat]
  PROVE  TypeOK'
<1>1. RamType'
  BY BootedType DEF RamType, Boot
<1>2. PageType'
  BY DEF TypeOK, PageType, Boot, flash
<1>3. /\ namePage' \in Values
      /\ dirty' \in BOOLEAN /\ dropped' \in BOOLEAN
  BY DEF TypeOK, ControlType, Boot, flash
<1>4. held' \in [Threads -> BOOLEAN]
  BY DEF Boot
<1>5. count' \in 0 .. SaveAfter
  BY SettingsAssumption DEF Boot, SettingsAssumption
<1>6. stage' \in [Actors -> Stages]
  BY DEF Boot, Stages
<1>7. resetting' \subseteq Resetters
  BY DEF Boot
<1> QED BY <1>1, <1>2, <1>3, <1>4, <1>5, <1>6, <1>7 DEF TypeOK, ControlType

\* What a boot loads of the settings.
LEMMA BootedSettings ==
  ASSUME TypeOK, NEW f \in Settings
  PROVE  Booted[f] = IF page["limit"] = Erased THEN Zero ELSE page[f]
<1>1. DOMAIN ReadDevName(Cleared) = Fields
  BY DEF ReadDevName, Cleared
<1> QED BY <1>1, FieldNames DEF Booted, ReadDevStatus, Cleared, Read

\* The number of ports that differ is a number.
LEMMA DiffersCounted ==
  ASSUME TypeOK
  PROVE  Cardinality(Differs) \in Nat
<1>1. Differs \subseteq Ports
  BY DEF Differs, TypeOK, RamType, Status
<1> QED BY <1>1, SettingsAssumption, FS_Subset, FS_CardinalityType
           DEF SettingsAssumption

\* SetPortState keeps the statuses sets of ports and touches nothing else.
LEMMA SetPortStateType ==
  ASSUME TypeOK, NEW ports \in SUBSET Ports, NEW on \in BOOLEAN,
         SetPortState(ports, on)
  PROVE  /\ ram' \in [Fields -> Values \cup SUBSET Ports]
         /\ \A f \in Fields \ Status : ram'[f] = ram[f]
         /\ \A f \in Status : ram'[f] \subseteq Ports
BY DEF SetPortState, TypeOK, RamType, Fields, Status, Head, Body

\* Setting fields that are not a status to a value keeps the types.
LEMMA SetType ==
  ASSUME TypeOK, NEW fields \in SUBSET (Fields \ Status), NEW v \in Values,
         Set(fields, v)
  PROVE  RamType'
BY FieldNames DEF Set, TypeOK, RamType

-----------------------------------------------------------------------------
(* Type correctness *)

\* Every step keeps the types.
LEMMA TypeStep ==
  ASSUME TypeOK, [Next]_vars
  PROVE  TypeOK'
<1>1. ASSUME NEW a \in Actors, SaveDevStatusPoll(a)
      PROVE  TypeOK'
  <2>1. RamType'
    BY <1>1 DEF SaveDevStatusPoll, TypeOK, RamType
  <2>2. PageType'
    BY <1>1 DEF SaveDevStatusPoll, TypeOK, PageType, flash
  <2>3. ControlType'
    <3>1. stage' \in [Actors -> Stages]
      BY <1>1 DEF SaveDevStatusPoll, TypeOK, ControlType, Go, Stages
    <3>2. /\ dirty' \in BOOLEAN /\ dropped' \in BOOLEAN
          /\ UNCHANGED <<namePage, held, count, resetting, left>>
      BY <1>1 DEF SaveDevStatusPoll, TypeOK, ControlType, flash
    <3> QED BY <3>1, <3>2 DEF TypeOK, ControlType
  <2> QED BY <2>1, <2>2, <2>3 DEF TypeOK
<1>2. ASSUME NEW a \in Actors, ErasePage(a)
      PROVE  TypeOK'
  <2>1. RamType'
    BY <1>2 DEF ErasePage, TypeOK, RamType
  <2>2. PageType'
    BY <1>2, BlankType, FieldNames DEF ErasePage, TypeOK, PageType
  <2>3. ControlType'
    BY <1>2 DEF ErasePage, TypeOK, ControlType, flash, word, At, Go, Stages,
       Actors, Threads
  <2> QED BY <2>1, <2>2, <2>3 DEF TypeOK
<1>3. ASSUME NEW a \in Actors, WriteHead(a)
      PROVE  TypeOK'
  <2>1. RamType'
    BY <1>3 DEF WriteHead, TypeOK, RamType
  <2>2. PageType'
    BY <1>3, WritePartType DEF WriteHead, TypeOK, PageType
  <2>3. ControlType'
    BY <1>3 DEF WriteHead, TypeOK, ControlType, flash, word, At, Go, Stages,
       Actors, Threads
  <2> QED BY <2>1, <2>2, <2>3 DEF TypeOK
<1>4. ASSUME NEW a \in Actors, WriteBody(a)
      PROVE  TypeOK'
  <2>1. RamType'
    BY <1>4 DEF WriteBody, TypeOK, RamType
  <2>2. PageType'
    BY <1>4, WritePartType DEF WriteBody, TypeOK, PageType
  <2>3. ControlType'
    BY <1>4 DEF WriteBody, TypeOK, ControlType, flash, word, At, Go, Stages,
       Actors, Threads
  <2> QED BY <2>1, <2>2, <2>3 DEF TypeOK
<1>5. ASSUME NEW a \in Actors, SetDirty(a)
      PROVE  TypeOK'
  <2>1. RamType'
    BY <1>5 DEF SetDirty, TypeOK, RamType
  <2>2. PageType'
    BY <1>5 DEF SetDirty, TypeOK, PageType, flash
  <2>3. ControlType'
    BY <1>5 DEF SetDirty, TypeOK, ControlType, flash, word, At, Go, Stages,
       Actors, Threads
  <2> QED BY <2>1, <2>2, <2>3 DEF TypeOK
<1>6. ASSUME NEW a \in Actors, EraseName(a)
      PROVE  TypeOK'
  <2>1. RamType'
    BY <1>6 DEF EraseName, TypeOK, RamType
  <2>2. PageType'
    BY <1>6 DEF EraseName, TypeOK, PageType, flash
  <2>3. ControlType'
    BY <1>6 DEF EraseName, TypeOK, ControlType, flash, word, At, Go, Stages,
       Actors, Threads, Values
  <2> QED BY <2>1, <2>2, <2>3 DEF TypeOK
<1>7. ASSUME NEW a \in Actors, WriteName(a)
      PROVE  TypeOK'
  <2>1. RamType'
    BY <1>7 DEF WriteName, TypeOK, RamType
  <2>2. PageType'
    BY <1>7 DEF WriteName, TypeOK, PageType, flash
  <2>3. ControlType'
    BY <1>7 DEF WriteName, TypeOK, ControlType, flash, word, At, Go, Stages,
       Actors, Threads, RamType, Values, Fields, Body, Status
  <2> QED BY <2>1, <2>2, <2>3 DEF TypeOK
<1>8. ASSUME NEW a \in Resetters, FlashResetFactory(a)
      PROVE  TypeOK'
  <2>1. RamType'
    BY <1>8, SetType, FieldNames DEF FlashResetFactory, TypeOK, RamType,
       DefaultName, Values
  <2>2. PageType'
    BY <1>8 DEF FlashResetFactory, TypeOK, PageType, flash
  <2>3. ControlType'
    BY <1>8 DEF FlashResetFactory, TypeOK, ControlType, flash, word, At, Go,
       Stages, Actors, Threads, Spend, Inputs, Resetters
  <2> QED BY <2>1, <2>2, <2>3 DEF TypeOK
<1>9. ASSUME NEW a \in Resetters, WipePage(a)
      PROVE  TypeOK'
  <2>1. RamType'
    BY <1>9 DEF WipePage, TypeOK, RamType
  <2>2. PageType'
    BY <1>9, BlankType, FieldNames DEF WipePage, TypeOK, PageType
  <2>3. ControlType'
    BY <1>9 DEF WipePage, TypeOK, ControlType, flash, word, At, Go, Stages,
       Actors, Threads, Resetters
  <2> QED BY <2>1, <2>2, <2>3 DEF TypeOK
<1>10. ASSUME NEW a \in Resetters, SwitchAllOn(a)
      PROVE  TypeOK'
  <2>1. RamType'
    BY <1>10, SetPortStateType DEF SwitchAllOn, TypeOK, RamType
  <2>2. PageType'
    BY <1>10 DEF SwitchAllOn, TypeOK, PageType, flash
  <2>3. ControlType'
    BY <1>10 DEF SwitchAllOn, TypeOK, ControlType, flash, word, At, Go,
       Stages, Actors, Threads, Resetters
  <2> QED BY <2>1, <2>2, <2>3 DEF TypeOK
<1>11. ASSUME NEW a \in Resetters, ResetDone(a)
      PROVE  TypeOK'
  BY <1>11, BootType DEF ResetDone, TypeOK, ControlType
<1>12. ASSUME NEW a \in Threads, LoadWord(a)
      PROVE  TypeOK'
  <2>1. RamType'
    BY <1>12 DEF LoadWord, TypeOK, RamType
  <2>2. PageType'
    BY <1>12 DEF LoadWord, TypeOK, PageType, flash
  <2>3. ControlType'
    BY <1>12 DEF LoadWord, TypeOK, ControlType, flash, word, At, Go, Stages,
       Actors, Threads
  <2> QED BY <2>1, <2>2, <2>3 DEF TypeOK
<1>13. ASSUME NEW a \in Threads, StoreWord(a)
      PROVE  TypeOK'
  <2>1. RamType'
    BY <1>13 DEF StoreWord, TypeOK, RamType
  <2>2. PageType'
    BY <1>13 DEF StoreWord, TypeOK, PageType, flash
  <2>3. ControlType'
    BY <1>13 DEF StoreWord, TypeOK, ControlType, flash, word, At, Go,
       Stages, Actors, Threads
  <2> QED BY <2>1, <2>2, <2>3 DEF TypeOK
<1>14. ASSUME CheckSwState
      PROVE  TypeOK'
  <2>1. RamType'
    BY <1>14 DEF CheckSwState, TypeOK, RamType
  <2>2. PageType'
    BY <1>14 DEF CheckSwState, TypeOK, PageType, flash
  <2>3. count' \in 0 .. SaveAfter
    BY <1>14, DiffersCounted, SettingsAssumption
       DEF CheckSwState, TypeOK, ControlType, SettingsAssumption
  <2>4. dirty' \in BOOLEAN
    BY <1>14 DEF CheckSwState, TypeOK, ControlType
  <2>5. ControlType'
    BY <1>14, <2>3, <2>4 DEF CheckSwState, TypeOK, ControlType, flash
  <2> QED BY <2>1, <2>2, <2>5 DEF TypeOK
<1>15. ASSUME NEW v \in Data, UdpSetHostSlave(v)
      PROVE  TypeOK'
  <2>1. RamType'
    BY <1>15, SetType, FieldNames DEF UdpSetHostSlave, TypeOK, RamType,
       Values
  <2>2. PageType'
    BY <1>15 DEF UdpSetHostSlave, TypeOK, PageType, flash
  <2>3. ControlType'
    BY <1>15 DEF UdpSetHostSlave, TypeOK, ControlType, flash, word, At, Go,
       Stages, Actors, Threads, Spend, Inputs
  <2> QED BY <2>1, <2>2, <2>3 DEF TypeOK
<1>16. ASSUME NEW v \in Data, UdpSetDevReboot(v)
      PROVE  TypeOK'
  <2>1. RamType'
    BY <1>16, SetType, FieldNames DEF UdpSetDevReboot, TypeOK, RamType,
       Values
  <2>2. PageType'
    BY <1>16 DEF UdpSetDevReboot, TypeOK, PageType, flash
  <2>3. ControlType'
    BY <1>16 DEF UdpSetDevReboot, TypeOK, ControlType, flash, word, At, Go,
       Stages, Actors, Threads, Spend, Inputs
  <2> QED BY <2>1, <2>2, <2>3 DEF TypeOK
<1>17. ASSUME NEW v \in Data, ModifyDevName(v)
      PROVE  TypeOK'
  <2>1. RamType'
    BY <1>17, SetType, FieldNames DEF ModifyDevName, TypeOK, RamType, Values
  <2>2. PageType'
    BY <1>17 DEF ModifyDevName, TypeOK, PageType, flash
  <2>3. ControlType'
    BY <1>17 DEF ModifyDevName, TypeOK, ControlType, flash, word, At, Go,
       Stages, Actors, Threads, Spend, Inputs
  <2> QED BY <2>1, <2>2, <2>3 DEF TypeOK
<1>18. ASSUME NEW p \in Ports, NEW on \in BOOLEAN, SwitchPort(p, on)
      PROVE  TypeOK'
  <2>1. RamType'
    BY <1>18, SetPortStateType DEF SwitchPort, TypeOK, RamType
  <2>2. PageType'
    BY <1>18 DEF SwitchPort, TypeOK, PageType, flash
  <2>3. ControlType'
    BY <1>18 DEF SwitchPort, TypeOK, ControlType, flash, word, At, Go,
       Stages, Actors, Threads, Spend, Inputs
  <2> QED BY <2>1, <2>2, <2>3 DEF TypeOK
<1>19. ASSUME KeyTurnOnOffSwitch
      PROVE  TypeOK'
  <2>1. RamType'
    BY <1>19, SetPortStateType, SettingsAssumption DEF KeyTurnOnOffSwitch,
       TypeOK, RamType, SettingsAssumption
  <2>2. PageType'
    BY <1>19 DEF KeyTurnOnOffSwitch, TypeOK, PageType, flash
  <2>3. ControlType'
    BY <1>19, SettingsAssumption DEF KeyTurnOnOffSwitch, TypeOK,
       ControlType, flash, word, At, Go, Stages, Actors, Threads, Spend,
       Inputs, SettingsAssumption
  <2> QED BY <2>1, <2>2, <2>3 DEF TypeOK
<1>20. ASSUME PowerLoss
      PROVE  TypeOK'
  <2>1. left' \in [Inputs -> Nat]
    BY <1>20 DEF PowerLoss, Spend, TypeOK, ControlType, Inputs
  <2> QED BY <1>20, <2>1, BootType DEF PowerLoss
<1>21. CASE UNCHANGED vars
  BY <1>21 DEF TypeOK, RamType, PageType, ControlType, vars, flash, word
<1> QED
  BY <1>1, <1>2, <1>3, <1>4, <1>5, <1>6, <1>7, <1>8, <1>9, <1>10, <1>11,
     <1>12, <1>13, <1>14, <1>15, <1>16, <1>17, <1>18, <1>19, <1>20, <1>21 DEF
     Next, Save, Name, Reset, Word, Command, Switches

-----------------------------------------------------------------------------
(* The page *)

\* The stages that PageSafe speaks of.
Saving == {"mark", "only", "switch", "erase", "head", "body"}

\* A step outside them that leaves the page and the settings alone, and no
\* less of the bit than there was, keeps PageSafe.
LEMMA Elsewhere ==
  ASSUME PageSafe,
         UNCHANGED page,
         \A f \in Settings : ram'[f] = ram[f],
         dirty \/ dropped => dirty' \/ dropped',
         \A a \in Actors :
           \/ stage'[a] = stage[a]
           \/ stage[a] \notin Saving /\ stage'[a] \notin Saving
  PROVE  PageSafe'
<1>1. ram'["limit"] # Erased
  BY SettingNames DEF PageSafe
<1>2. CASE Pending
  <2>1. Pending'
    BY <1>2 DEF Pending, Saving
  <2> QED BY <1>1, <2>1 DEF PageSafe
<1>3. CASE Written
  <2>1. /\ Before({"head"}) => Before({"head"})'
        /\ Before({"head", "body"}) => Before({"head", "body"})'
    BY DEF Before, Saving
  <2>2. Written'
    BY <1>3, <2>1, SettingNames DEF Written
  <2> QED BY <1>1, <2>2 DEF PageSafe
<1>4. CASE NeverSaved
  <2>1. Before({"head", "body"})' => Before({"head", "body"})
    BY DEF Before, Saving
  <2>2. NeverSaved'
    BY <1>4, <2>1 DEF NeverSaved
  <2> QED BY <1>1, <2>2 DEF PageSafe
<1> QED BY <1>2, <1>3, <1>4 DEF PageSafe

\* A boot finds all of a save, or no flag.
LEMMA BootSafe ==
  ASSUME TypeOK, Boot
  PROVE  PageSafe'
<1>1. /\ page' = page
      /\ \A f \in Settings :
           ram'[f] = IF page["limit"] = Erased THEN Zero ELSE page[f]
  BY BootedSettings DEF Boot, flash
<1>2. ~Before({"head", "body"})'
  BY DEF Boot, Before
<1>3. CASE page["limit"] = Erased
  <2>1. NeverSaved'
    BY <1>1, <1>2, <1>3 DEF NeverSaved
  <2>2. ram'["limit"] # Erased
    BY <1>1, <1>3, SettingNames, SettingsAssumption DEF SettingsAssumption
  <2> QED BY <2>1, <2>2 DEF PageSafe
<1>4. CASE page["limit"] # Erased
  <2>1. Written'
    BY <1>1, <1>4, SettingNames DEF Written
  <2>2. ram'["limit"] # Erased
    BY <1>1, <1>4, SettingNames
  <2> QED BY <2>1, <2>2 DEF PageSafe
<1> QED BY <1>3, <1>4

\* Every step keeps PageSafe.
LEMMA PageStep ==
  ASSUME TypeOK, PageSafe, [Next]_vars
  PROVE  PageSafe'
<1> USE DEF Go, At
<1>0. /\ DOMAIN stage = Actors
      /\ ram["limit"] # Erased
  BY DEF TypeOK, ControlType, PageSafe
<1>1. ASSUME NEW a \in Actors, SaveDevStatusPoll(a)
      PROVE  PageSafe'
  <2>1. CASE dirty
    <3>1. Pending'
      BY <1>0, <1>1, <2>1 DEF SaveDevStatusPoll, Pending
    <3> QED BY <1>0, <1>1, <3>1 DEF SaveDevStatusPoll, PageSafe
  <2>2. CASE ~dirty
    BY <1>0, <1>1, <2>2, Elsewhere
       DEF SaveDevStatusPoll, Polls, Saving, flash, TypeOK, ControlType
  <2> QED BY <2>1, <2>2
<1>2. ASSUME NEW a \in Actors, ErasePage(a)
      PROVE  PageSafe'
  <2>1. Before({"head"})' /\ Before({"head", "body"})'
    BY <1>0, <1>2 DEF ErasePage, Before
  <2>2. \A f \in Settings : page'[f] = Erased
    BY <1>2, BlankType, FieldNames DEF ErasePage
  <2>3. Written'
    BY <2>1, <2>2, SettingNames DEF Written
  <2> QED BY <1>0, <1>2, <2>3 DEF ErasePage, PageSafe
<1>3. ASSUME NEW a \in Actors, WriteHead(a)
      PROVE  PageSafe'
  <2>1. CASE Pending
    <3>1. Pending'
      BY <1>0, <1>3, <2>1 DEF WriteHead, Pending, word
    <3> QED BY <1>0, <1>3, <3>1 DEF WriteHead, PageSafe
  <2>2. CASE Written
    <3>1. \A f \in {"limit", "enable"} : page'[f] = ram'[f]
      BY <1>3, <2>2, ProgrammedSetting, SettingNames, FieldNames
         DEF WriteHead, WritePart, Written, Head
    <3>2. \A f \in {"types", "ports"} : page'[f] = page[f] /\ ram'[f] = ram[f]
      BY <1>3, SettingNames, FieldNames DEF WriteHead, WritePart, Head
    <3>3. Before({"head", "body"})'
      BY <1>0, <1>3 DEF WriteHead, Before
    <3>4. Written'
      BY <2>2, <3>1, <3>2, <3>3 DEF Written
    <3> QED BY <1>0, <1>3, <3>4 DEF WriteHead, PageSafe
  <2>3. ~NeverSaved
    BY <1>3 DEF WriteHead, NeverSaved, Before
  <2> QED BY <2>1, <2>2, <2>3 DEF PageSafe
<1>4. ASSUME NEW a \in Actors, WriteBody(a)
      PROVE  PageSafe'
  <2>1. CASE Pending
    <3>1. Pending'
      BY <1>0, <1>4, <2>1 DEF WriteBody, Pending, word
    <3> QED BY <1>0, <1>4, <3>1 DEF WriteBody, PageSafe
  <2>2. CASE Written
    <3>1. \A f \in {"types", "ports"} : page'[f] = ram'[f]
      BY <1>4, <2>2, ProgrammedSetting, SettingNames, FieldNames
         DEF WriteBody, WritePart, Written, Body
    <3>2. \A f \in {"limit", "enable"} : page'[f] = page[f] /\ ram'[f] = ram[f]
      BY <1>4, SettingNames, FieldNames
         DEF WriteBody, WritePart, Body, Status
    <3>3. Before({"head"}) => Before({"head"})'
      BY <1>0, <1>4 DEF WriteBody, Before
    <3>4. Written'
      BY <2>2, <3>1, <3>2, <3>3 DEF Written
    <3> QED BY <1>0, <1>4, <3>4 DEF WriteBody, PageSafe
  <2>3. ~NeverSaved
    BY <1>4 DEF WriteBody, NeverSaved, Before
  <2> QED BY <2>1, <2>2, <2>3 DEF PageSafe
<1>5. ASSUME NEW a \in Actors, SetDirty(a)
      PROVE  PageSafe'
  BY <1>0, <1>5 DEF SetDirty, PageSafe, Pending
<1>6. ASSUME NEW a \in Actors, Name(a)
      PROVE  PageSafe'
  BY <1>0, <1>6, Elsewhere
     DEF Name, EraseName, WriteName, Saving, flash, word
<1>7. ASSUME NEW a \in Resetters, FlashResetFactory(a)
      PROVE  PageSafe'
  <2>1. \A f \in Settings : ram'[f] = ram[f]
    BY <1>7, SettingNames, FieldNames DEF FlashResetFactory, Set
  <2> QED BY <1>0, <1>7, <2>1, Elsewhere
          DEF FlashResetFactory, Saving, flash, word
<1>8. ASSUME NEW a \in Resetters, WipePage(a)
      PROVE  PageSafe'
  <2>1. Pending'
    BY <1>0, <1>8 DEF WipePage, Pending, Resetters, Actors
  <2> QED BY <1>0, <1>8, <2>1 DEF WipePage, PageSafe
<1>9. ASSUME NEW a \in Resetters, SwitchAllOn(a)
      PROVE  PageSafe'
  <2>1. Pending'
    BY <1>0, <1>9 DEF SwitchAllOn, Pending, Resetters, Actors
  <2>2. ram'["limit"] = ram["limit"]
    BY <1>9, SetPortStateType, SettingNames, FieldNames DEF SwitchAllOn
  <2> QED BY <1>0, <2>1, <2>2 DEF PageSafe
<1>10. ASSUME NEW a \in Resetters, ResetDone(a)
       PROVE  PageSafe'
  BY <1>10, BootSafe DEF ResetDone
<1>11. ASSUME NEW a \in Threads, LoadWord(a)
       PROVE  PageSafe'
  BY <1>0, <1>11, Elsewhere DEF LoadWord, Saving, flash
<1>12. ASSUME NEW a \in Threads, StoreWord(a)
       PROVE  PageSafe'
  BY <1>0, <1>12, Elsewhere DEF StoreWord, Saving, flash
<1>13. ASSUME CheckSwState
       PROVE  PageSafe'
  BY <1>13, Elsewhere DEF CheckSwState, flash
<1>14. ASSUME NEW v \in Data, UdpSetHostSlave(v)
       PROVE  PageSafe'
  <2>1. Pending'
    BY <1>0, <1>14 DEF UdpSetHostSlave, Pending, Actors
  <2>2. ram'["limit"] = v
    BY <1>14, SettingNames, FieldNames DEF UdpSetHostSlave, Set, Roles
  <2> QED BY <2>1, <2>2, SettingsAssumption DEF PageSafe, SettingsAssumption
<1>15. ASSUME NEW v \in Data, UdpSetDevReboot(v)
       PROVE  PageSafe'
  <2>1. Pending'
    BY <1>0, <1>15 DEF UdpSetDevReboot, Pending, Actors
  <2>2. ram'["limit"] = ram["limit"]
    BY <1>15, SettingNames, FieldNames DEF UdpSetDevReboot, Set, Reboots
  <2> QED BY <1>0, <2>1, <2>2 DEF PageSafe
<1>16. ASSUME NEW v \in Data, ModifyDevName(v)
       PROVE  PageSafe'
  <2>1. \A f \in Settings : ram'[f] = ram[f]
    BY <1>16, SettingNames, FieldNames DEF ModifyDevName, Set
  <2> QED BY <1>0, <1>16, <2>1, Elsewhere
          DEF ModifyDevName, Saving, flash, word
<1>17. ASSUME NEW p \in Ports, NEW on \in BOOLEAN, SwitchPort(p, on)
       PROVE  PageSafe'
  <2>1. \A f \in Settings : ram'[f] = ram[f]
    BY <1>17, SetPortStateType, FieldNames DEF SwitchPort
  <2> QED BY <1>17, <2>1, Elsewhere DEF SwitchPort, flash, word
<1>18. ASSUME KeyTurnOnOffSwitch
       PROVE  PageSafe'
  <2>1. \A f \in Settings : ram'[f] = ram[f]
    BY <1>18, SetPortStateType, FieldNames, SettingsAssumption
       DEF KeyTurnOnOffSwitch, SettingsAssumption
  <2> QED BY <1>18, <2>1, Elsewhere DEF KeyTurnOnOffSwitch, flash, word
<1>19. ASSUME PowerLoss
       PROVE  PageSafe'
  BY <1>19, BootSafe DEF PowerLoss
<1>20. CASE UNCHANGED vars
  BY <1>20, Elsewhere DEF vars, flash, word
<1> QED
  BY <1>1, <1>2, <1>3, <1>4, <1>5, <1>6, <1>7, <1>8, <1>9, <1>10, <1>11,
     <1>12, <1>13, <1>14, <1>15, <1>16, <1>17, <1>18, <1>19, <1>20
     DEF Next, Save, Reset, Word, Command, Switches

-----------------------------------------------------------------------------
(* Theorems *)

\* The first boot of a new module.
LEMMA InitSafe ==
  ASSUME Init
  PROVE  IInv
<1>1. RamType
  BY FieldNames DEF Init, RamType, Cleared, Values
<1>2. PageType
  BY BlankType, FieldNames DEF Init, PageType
<1>3. /\ namePage \in Values
      /\ held \in [Threads -> BOOLEAN]
      /\ stage \in [Actors -> Stages]
      /\ dirty \in BOOLEAN /\ dropped \in BOOLEAN
      /\ resetting \subseteq Resetters
  BY DEF Init, Values, Stages
<1>4. count \in 0 .. SaveAfter /\ left \in [Inputs -> Nat]
  BY SettingsAssumption DEF Init, SettingsAssumption
<1>5. ControlType
  BY <1>3, <1>4 DEF ControlType
<1>6. \A f \in Settings : page[f] = Erased /\ ram[f] = Zero
  BY BlankType, FieldNames DEF Init, Cleared
<1>7. ~Before({"head", "body"})
  BY DEF Init, Before
<1>8. PageSafe
  BY <1>6, <1>7, SettingNames, SettingsAssumption
     DEF PageSafe, NeverSaved, SettingsAssumption
<1> QED BY <1>1, <1>2, <1>5, <1>8 DEF IInv, TypeOK

\* When nobody saves, PageSafe says what a restart finds.
LEMMA SafeIsKept ==
  ASSUME TypeOK, PageSafe
  PROVE  CleanIsSaved
<1> SUFFICES ASSUME Quiet
             PROVE  \A f \in Settings : ReadDevStatus(ram)[f] = ram[f]
  BY DEF CleanIsSaved, Kept
<1>1. ~Pending /\ ~Before({"head"}) /\ ~Before({"head", "body"})
  BY DEF Quiet, Pending, Before
<1>2. CASE Written
  <2>1. \A f \in Settings : page[f] = ram[f]
    BY <1>1, <1>2, SettingNames DEF Written
  <2>2. page["limit"] # Erased
    BY <2>1, SettingNames DEF PageSafe
  <2>3. DOMAIN ram = Fields
    BY DEF TypeOK, RamType
  <2> QED BY <2>1, <2>2, <2>3, FieldNames DEF ReadDevStatus, Read
<1>3. CASE NeverSaved
  BY <1>3, FieldNames DEF NeverSaved, ReadDevStatus, Cleared
<1> QED BY <1>1, <1>2, <1>3 DEF PageSafe

\* The page, the word and the actors have their types, whatever is saved,
\* reset or lost in whichever order.
THEOREM SettingsTypeCorrect == Spec => []TypeOK
<1>1. Init => TypeOK
  BY InitSafe DEF IInv
<1>2. TypeOK /\ [Next]_vars => TypeOK'
  BY TypeStep
<1> QED BY <1>1, <1>2, PTL DEF Spec

\* What is on the page, or still to be written to it, is what was set last.
THEOREM PageIsSafe == Spec => []IInv
<1>1. Init => IInv
  BY InitSafe
<1>2. IInv /\ [Next]_vars => IInv'
  BY TypeStep, PageStep DEF IInv
<1> QED BY <1>1, <1>2, PTL DEF Spec

\* A clear bit means saved: the three savers, the reset, and power that fails
\* anywhere in a write never leave roles in SwInformation that a restart loses
\* while nobody means to save them, unless a stale store dropped the bit.
THEOREM SettingsKept == Spec => []CleanIsSaved
<1>1. IInv => CleanIsSaved
  BY SafeIsKept DEF IInv
<1> QED BY <1>1, PageIsSafe, PTL
=============================================================================
