----------------------------- MODULE WifiSetup -----------------------------
(***************************************************************************)
(* What the commands that end in a restart leave for the next boot: the    *)
(* Wi-Fi settings of SetWifiMode, a new MAC address, the factory reset.    *)
(*                                                                         *)
(* The Wi-Fi settings and the MAC are kept by the vendor's firmware, which *)
(* takes them one AT command at a time and uses them after a restart.  One *)
(* flash page of the application holds the time zone and a mark, "factory  *)
(* programmed", that decides what the module does in AP mode at boot.      *)
(* The UDP and the HTTP thread and the application thread write all of     *)
(* these without a lock.                                                   *)
(***************************************************************************)
EXTENDS RebootTimer, FiniteSets

CONSTANT Networks       \* the networks a request may name: key and SSID

VARIABLES
  conf,     \* external: mode and, for either mode, the key and SSID kept
  req,      \* per server thread: the request SetWifiMode works on, and
            \* (history) whether all it has written so far still stands
  mark,     \* factoryProgramMark
  page,     \* the mark on the time zone page, or Erased
  buf,      \* per thread: the mark in the buffer WriteDevTimeZone has built
  mac,      \* Dev_Mac, in two halves
  macFlag,  \* MacChgFlag
  macConf,  \* external: the address kept
  newMac,   \* per server thread: the address HttpModifyProductSn stores
  sentMac,  \* the address in the AT command of ModifyDevMac, or NoMac
  boot,     \* what DevMode_Init did last: joined a network or entered smart
            \* link, and whether a factory reset that was not torn came before
  accepted, \* history: the network of the last STA request that was accepted
            \* and intact, until another writes a part of the same setting
  torn      \* history: another write of the page overlapped the reset's

NoNet == "none"
FactoryNet == "factory"     \* the vendor's default
UpgradeAP == "UPGRADE-AP"
NetNames == Networks \cup {FactoryNet, UpgradeAP}
Modes == {"AP", "STA"}
Erased == 2
NoMac == <<>>
Macs == 0 .. 2

confVars == <<conf, req, accepted>>
pageVars == <<mark, page, buf, torn>>
macVars == <<mac, macFlag, macConf, newMac, sentMac>>
wifiVars == <<confVars, pageVars, macVars, boot>>

Writers == {"udp", "app"}

WifiTypeOK ==
  /\ conf \in [mode : Modes, apKey : NetNames, apSsid : NetNames,
               staKey : NetNames, staSsid : NetNames]
  /\ req \in [Servers -> [mode : Modes, net : Networks \cup {NoNet},
                         intact : BOOLEAN]]
  /\ accepted \in Networks \cup {NoNet}
  /\ mark \in {0, 1} /\ page \in {0, 1, Erased}
  /\ buf \in [Writers -> {0, 1}]
  /\ torn \in BOOLEAN
  /\ mac \in Macs \X Macs /\ macFlag \in BOOLEAN /\ macConf \in Macs \X Macs
  /\ newMac \in [Servers -> Macs]
  /\ sentMac \in (Macs \X Macs) \cup {NoMac}
  /\ boot \in [did : {"joins", "smartlink"}, key : NetNames, ssid : NetNames,
              reset : BOOLEAN]

Factory == [mode |-> "AP", apKey |-> FactoryNet, apSsid |-> FactoryNet,
            staKey |-> FactoryNet, staSsid |-> FactoryNet]
Idle == [mode |-> "STA", net |-> NoNet, intact |-> TRUE]

Joins(c, reset) == [did |-> "joins", key |-> c.staKey, ssid |-> c.staSsid,
                    reset |-> reset]
SmartLink(c, reset) == [Joins(c, reset) EXCEPT !.did = "smartlink"]

\* A strip in use in a network, whose mark the factory has set or not.
WifiInit ==
  /\ conf = [Factory EXCEPT !.mode = "STA"]
  /\ req = [t \in Servers |-> Idle] /\ accepted = NoNet
  /\ page \in {0, 1} /\ mark = page
  /\ buf = [t \in Writers |-> 0]
  /\ torn = FALSE
  /\ mac = <<0, 0>> /\ macFlag = FALSE /\ macConf = mac
  /\ newMac = [t \in Servers |-> 0] /\ sentMac = NoMac
  /\ boot = Joins(conf, FALSE)
-----------------------------------------------------------------------------
(* SetWifiMode, from UDP or HTTP: three AT commands *)

\* The field that an AT command writes.  For AP the mode comes last, for STA
\* the SSID does.
ApWrites(c, r, place) ==
  CASE place = "first"  -> [c EXCEPT !.apKey = r.net]
    [] place = "second" -> [c EXCEPT !.apSsid = r.net]
    [] OTHER            -> [c EXCEPT !.mode = "AP"]

\* The mode written before the key.
StaModeFirst(c, r, place) ==
  CASE place = "first"  -> [c EXCEPT !.mode = "STA"]
    [] place = "second" -> [c EXCEPT !.staKey = r.net]
    [] OTHER            -> [c EXCEPT !.staSsid = r.net]

StaWrites(c, r, place) ==
  CASE place = "first"  -> [c EXCEPT !.staKey = r.net]
    [] place = "second" -> [c EXCEPT !.mode = "STA"]
    [] OTHER            -> [c EXCEPT !.staSsid = r.net]

AtWrites(c, r, place) ==
  IF r.mode = "AP" THEN ApWrites(c, r, place) ELSE StaWrites(c, r, place)

SettingWifi(t) == at[t] \in {"first", "second", "third"}

\* The command that t sends next overwrites the key or the mode that u has
\* written for a network.
Overwrites(t, u) ==
  /\ SettingWifi(u) /\ req[u].mode = "STA"
  /\ \/ at[t] = "first" /\ req[t].mode = "STA" /\ at[u] # "first"
     \/ at[t] = "third" /\ req[t].mode = "AP" /\ at[u] = "third"

\* The requests after that command.
Requests(t) ==
  [u \in Servers |-> [req[u] EXCEPT !.intact = @ /\ ~Overwrites(t, u)]]

SetWifiMode(t, m, n) ==
  /\ t \in Servers /\ at[t] = "idle"
  /\ Goes(t, "first")
  /\ req' = [req EXCEPT ![t] = [mode |-> m, net |-> n, intact |-> TRUE]]
  /\ UNCHANGED <<conf, accepted, pageVars, macVars, boot, exceptAt>>

\* The first and the second command.
WifiCommand(t) ==
  /\ at[t] \in {"first", "second"}
  /\ conf' = AtWrites(conf, req[t], at[t])
  /\ req' = Requests(t)
  /\ accepted' = IF at[t] = "first" /\ req[t].mode = "STA"
                 THEN NoNet ELSE accepted
  /\ Goes(t, IF at[t] = "first" THEN "second" ELSE "third")
  /\ UNCHANGED <<pageVars, macVars, boot, exceptAt>>

\* The third one.
WifiLast(t) ==
  /\ at[t] = "third"
  /\ conf' = AtWrites(conf, req[t], "third")
  /\ accepted' = IF req[t].mode = "STA" /\ req[t].intact
                 THEN req[t].net ELSE NoNet
  /\ req' = [Requests(t) EXCEPT ![t] = Idle]
  /\ UNCHANGED <<pageVars, macVars, boot>>

\* It without the restart.
WifiNoReboot(t) ==
  /\ WifiLast(t)
  /\ Goes(t, "answer")
  /\ UNCHANGED exceptAt

\* It, and Reboot(0).
WifiAccepted(t) ==
  /\ WifiLast(t)
  /\ Reboot(t, 0)
  /\ UNCHANGED <<copy, app, polled>>

\* An AT command fails: the answer is 400 and what was written stays.
WifiRefused(t) ==
  /\ SettingWifi(t)
  /\ req' = [req EXCEPT ![t] = Idle]
  /\ Goes(t, "answer")
  /\ UNCHANGED <<conf, accepted, pageVars, macVars, boot, exceptAt>>
-----------------------------------------------------------------------------
(* WriteDevTimeZone: one page for the time zone and the mark *)

\* SetCurTime with another time zone: the buffer is built.
ZoneChanges ==
  /\ at["udp"] = "idle"
  /\ Goes("udp", "erase")
  /\ buf' = [buf EXCEPT !["udp"] = mark]
  /\ torn' = (torn \/ app \in {"reset", "reload"})
  /\ UNCHANGED <<confVars, mark, page, macVars, boot, exceptAt>>

ErasePage(t) ==
  /\ at[t] = "erase"
  /\ page' = Erased
  /\ Goes(t, "write")
  /\ UNCHANGED <<confVars, mark, buf, torn, macVars, boot, exceptAt>>

\* A write only clears bits.
Programmed(m) == IF page = Erased \/ m < page THEN m ELSE page

WritePage(t) ==
  /\ at[t] = "write"
  /\ page' = Programmed(buf[t])
  /\ Goes(t, "idle")
  /\ app' = IF t = "app" THEN "reload" ELSE app
  /\ UNCHANGED <<confVars, mark, buf, torn, macVars, boot, code, count, flag,
                 owed, waited, alone, copy, polled>>

WritingPage(t) == at[t] \in {"erase", "write"}

\* The mark set only after the page was written.
MarksLater ==
  /\ AppAt("reset")
  /\ mark' = 1
  /\ Goes("app", "erase")
  /\ buf' = [buf EXCEPT !["app"] = mark]
  /\ torn' = WritingPage("udp")
  /\ UNCHANGED <<confVars, page, macVars, boot, exceptAt>>

\* FlashResetFactory up to WriteDevTimeZone.  The name and the other pages it
\* writes are in SettingsPage.
ResetMarks ==
  /\ AppAt("reset")
  /\ mark' = 1
  /\ Goes("app", "erase")
  /\ buf' = [buf EXCEPT !["app"] = mark']
  /\ torn' = WritingPage("udp")
  /\ UNCHANGED <<confVars, page, macVars, boot, exceptAt>>
-----------------------------------------------------------------------------
(* A new MAC address *)

\* HttpModifyProductSn and UdpModifyProductSn: the bytes one after the other.
ModifyMac(t, m) ==
  /\ t \in Servers /\ at[t] = "idle"
  /\ mac' = [mac EXCEPT ![1] = m] /\ newMac' = [newMac EXCEPT ![t] = m]
  /\ Goes(t, "tail")
  /\ UNCHANGED <<confVars, macFlag, macConf, sentMac, pageVars, boot, exceptAt>>

ModifyMacTail(t) ==
  /\ at[t] = "tail"
  /\ mac' = [mac EXCEPT ![2] = newMac[t]] /\ newMac' = [newMac EXCEPT ![t] = 0]
  /\ macFlag' = TRUE
  /\ Goes(t, "answer")
  /\ UNCHANGED <<confVars, macConf, sentMac, pageVars, boot, exceptAt>>

\* ModifyDevMac: the command is put together and sent twice.  (The code comes
\* here only in every fifth round of the thread.)
ModifyDevMac ==
  /\ AppAt("mac") /\ sentMac = NoMac
  /\ IF macFlag THEN sentMac' = mac /\ macConf' = mac /\ UNCHANGED app
                ELSE app' = "image" /\ UNCHANGED <<sentMac, macConf>>
  /\ UNCHANGED <<confVars, pageVars, mac, macFlag, newMac, boot, rebootVars,
                 copy, polled>>

\* The flag cleared although the AT command failed.
MacForgotten ==
  /\ AppAt("mac") /\ macFlag
  /\ sentMac' = NoMac /\ macFlag' = FALSE
  /\ app' = "image"
  /\ UNCHANGED <<confVars, pageVars, mac, macConf, newMac, boot, rebootVars,
                 copy, polled>>

\* It is tried again later when either AT command fails.
MacRefused ==
  /\ AppAt("mac") /\ macFlag
  /\ sentMac' = NoMac
  /\ app' = "image"
  /\ UNCHANGED <<confVars, pageVars, mac, macFlag, macConf, newMac, boot,
                 rebootVars, copy, polled>>

\* MacChgFlag = 0, whatever the address is by then, and Reboot(0).
MacSet ==
  /\ AppAt("mac") /\ sentMac # NoMac
  /\ macFlag' = FALSE /\ sentMac' = NoMac
  /\ Reboot("app", 0) /\ app' = "image"
  /\ UNCHANGED <<confVars, pageVars, mac, macConf, newMac, boot, copy, polled>>
-----------------------------------------------------------------------------
(* Booting *)

LooksForUpgrade(c, programmed) == c.mode = "AP" /\ programmed = 0

\* ReadDevTimeZone, then DevMode_Init, with the settings c: AP mode is never
\* kept.  A strip that was factory programmed enters smart link, any other
\* looks for the network of the factory.
WifiBoot(c, reset) ==
  LET programmed == IF page = Erased THEN 0 ELSE page
      upgrade == [c EXCEPT !.mode = "STA", !.staSsid = UpgradeAP]
  IN  /\ mark' = programmed
      /\ conf' = (IF LooksForUpgrade(c, programmed) THEN upgrade ELSE c)
      /\ boot' = (IF conf'.mode = "AP" THEN SmartLink(c, reset)
                                      ELSE Joins(conf', reset))
      /\ req' = [t \in Servers |-> Idle]
      /\ buf' = [t \in Writers |-> 0]
      /\ mac' = macConf /\ macFlag' = FALSE
      /\ newMac' = [t \in Servers |-> 0] /\ sentMac' = NoMac
      /\ UNCHANGED <<page, torn, macConf>>

\* ClearDevSmartLinkInfo: hfsys_reload and hfsys_reset.
ReloadBoot == WifiBoot(Factory, ~torn) /\ accepted' = NoNet
-----------------------------------------------------------------------------
(* Properties *)

\* Key, SSID and mode of a request that was accepted (code 200) are mixed with
\* those of another in one way only: the other has written its key, or AP mode,
\* over what this one had written before its own last command.  Otherwise the
\* network is set in full, also when the requests of the two servers overlap,
\* and stays so while others begin, are refused before they write, or are cut
\* off by a restart, whatever the boots do, until one writes a key or an SSID
\* for STA, or AP mode, or the settings are reset.
MixedOnlyIfOverwritten ==
  accepted # NoNet =>
    conf.mode = "STA" /\ conf.staKey = accepted /\ conf.staSsid = accepted

\* A network that was accepted (code 200), with nothing of it overwritten, is
\* the one the module boots into, key and SSID, unless another request writes
\* its own, or asks for a restart too, before that.
AcceptedIsJoined ==
  (accepted # NoNet /\ alone)
    ~> (\/ boot.key = accepted /\ boot.ssid = accepted
        \/ accepted = NoNet \/ ~alone)

\* A factory reset leads to smart link, from whatever state of the page, unless
\* a new time zone is being written to the page at the same time.
ResetLeadsToSmartLink == boot.reset => boot.did = "smartlink"

\* A new MAC address that comes while none is being set is kept and used from
\* a restart on, unless another comes or the module restarts before.
NewMacIsSet ==
  (macFlag /\ sentMac = NoMac /\ mac[1] = mac[2])
    ~> (macConf = mac \/ mac[1] # mac[2])
=============================================================================
