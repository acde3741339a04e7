------------------------------ MODULE FwUpdate ------------------------------
(***************************************************************************)
(* A new firmware comes over UDP, block by block, or from a URL.           *)
(*                                                                         *)
(* UDP: the sender (external) sends each block until it is acknowledged,   *)
(* then a last packet with the length and the sum of the image.  The       *)
(* module keeps the number of the last block, the sum and the length, all  *)
(* in RAM, and writes to the update area of the flash as the blocks come.  *)
(* Messages and answers are lost, delayed and doubled.  The application    *)
(* thread hands an accepted image over and restarts the module.            *)
(*                                                                         *)
(* URL: the application thread downloads, hands over whatever has come     *)
(* when the connection ends, and restarts.  FwUpdateMutx keeps the URL     *)
(* from being changed meanwhile; the UDP path does not take it, and both   *)
(* write to the same area.                                                 *)
(***************************************************************************)
EXTENDS RebootTimer

CONSTANTS
  K,            \* blocks of an image
  BlockSum,     \* the 16 bit sum of each block's bytes
  SumOf,        \* of each set of blocks
  SumMod        \* CheckSumWhole is an int16_t: 2^16 in the code

Blocks == 1 .. K

ASSUME UpdateAssumption == K \in Nat \ {0} /\ SumMod \in Nat \ {0}

ASSUME SumAssumption ==
  /\ BlockSum \in [Blocks -> Nat]
  /\ SumOf \in [SUBSET Blocks -> 0 .. SumMod - 1] /\ SumOf[{}] = 0
  /\ \A S \in SUBSET Blocks : \A b \in Blocks \ S :
       SumOf[S \cup {b}] = (SumOf[S] + BlockSum[b]) % SumMod

Total == SumOf[Blocks]

\* No set of blocks can be missed without changing the sum.  An image with a
\* block whose bytes sum up to nothing, all zeroes for one, is not of this kind.
ASSUME CheckAssumption ==
  \A S \in SUBSET Blocks : SumOf[S] = Total => S = Blocks

VARIABLES
  area,       \* the update area: what was written at each block's place
  last,       \* lastPackID
  sum,        \* CheckSumWhole
  len,        \* intFwLength, in blocks
  completed,  \* FirmwareCompleted = 2
  uart,       \* the line to the slave is open
  lock,       \* FwUpdateMutx: the application thread holds it
  url,        \* bit 5 of TimelyCheck
  size,       \* total_size of the download
  toModule,   \* external: packets under way, block numbers or Final
  toSender,   \* external: answers under way
  turn,       \* external: the packet the sender wants acknowledged, or Gone
  given,      \* external: the image handed over, by which path, spoilt or not
  firmware,   \* external: the image that runs
  written,    \* history: the blocks that are in the sum
  spoilt      \* history: another first block or a download wrote over this
              \* update, or a restart took it after it was accepted

areaVars == <<area, given, firmware, spoilt>>
udpVars == <<last, sum, len, written, completed, uart>>
urlVars == <<lock, url, size>>
netVars == <<toModule, toSender, turn>>
fwVars == <<areaVars, udpVars, urlVars, netVars>>

Final == 0
Gone == K + 1
Blank == 0
Piece == K + 1      \* what a download writes
Cells == Blocks \cup {Blank, Piece}
Whole == [b \in Blocks |-> b]
OldOne == <<>>
Nothing == [by |-> "nobody", image |-> OldOne, spoilt |-> FALSE]

FwTypeOK ==
  /\ area \in [Blocks -> Cells]
  /\ last \in 0 .. K /\ sum \in 0 .. SumMod - 1 /\ len \in 0 .. K
  /\ written \subseteq Blocks
  /\ completed \in BOOLEAN /\ uart \in BOOLEAN
  /\ lock \in BOOLEAN /\ url \in BOOLEAN /\ size \in 0 .. K
  /\ toModule \subseteq 0 .. K /\ toSender \subseteq (0 .. K) \X BOOLEAN
  /\ turn \in 0 .. Gone
  /\ given.by \in {"nobody", "udp", "url"} /\ spoilt \in BOOLEAN

FwInit ==
  /\ area = [b \in Blocks |-> Blank]
  /\ last = 0 /\ sum = 0 /\ len = 0 /\ written = {}
  /\ completed = FALSE /\ uart = TRUE
  /\ lock = FALSE /\ url = FALSE /\ size = 0
  /\ toModule = {} /\ toSender = {}
  /\ given = Nothing /\ firmware = OldOne /\ spoilt = FALSE

\* After a restart the boot loader installs an image that was handed over; one
\* that is not whole may be refused.
FwBoot ==
  /\ last' = 0 /\ sum' = 0 /\ len' = 0 /\ written' = {}
  /\ completed' = FALSE /\ uart' = TRUE
  /\ lock' = FALSE /\ url' = FALSE /\ size' = 0
  /\ given' = Nothing
  /\ \/ firmware' = given.image /\ given # Nothing
     \/ firmware' = firmware /\ given.image # Whole
  /\ spoilt' = (spoilt \/ completed)
  /\ UNCHANGED <<area, netVars>>
-----------------------------------------------------------------------------
(* The sender and the network (external) *)

After(n) == IF n = Final THEN Gone ELSE IF n = K THEN Final ELSE n + 1

\* A patient sender sends a packet again only when neither it nor its answer is
\* under way.
Sends ==
  /\ turn # Gone /\ turn \notin toModule /\ at["udp"] # "length"
  /\ \A answer \in toSender : answer[1] # turn
  /\ toModule' = toModule \cup {turn}
  /\ UNCHANGED <<toSender, turn, areaVars, udpVars, urlVars, timerVars>>

\* The delays of the network are not known to an impatient one.
SendsEarly ==
  /\ turn # Gone /\ turn \notin toModule
  /\ toModule' = toModule \cup {turn}
  /\ UNCHANGED <<toSender, turn, areaVars, udpVars, urlVars, timerVars>>

\* A block that was refused is sent again, an image from its first block.
Acked ==
  \E answer \in toSender :
    /\ toSender' = toSender \ {answer}
    /\ turn' = IF answer[1] # turn THEN turn
               ELSE IF answer[2] THEN After(turn)
               ELSE IF turn = Final THEN 1 ELSE turn
    /\ UNCHANGED <<toModule, areaVars, udpVars, urlVars, timerVars>>

Loses ==
  /\ \/ \E n \in toModule : toModule' = toModule \ {n} /\ UNCHANGED toSender
     \/ \E answer \in toSender :
          toSender' = toSender \ {answer} /\ UNCHANGED toModule
  /\ UNCHANGED <<turn, areaVars, udpVars, urlVars, timerVars>>
-----------------------------------------------------------------------------
(* The UDP thread: UdpUpdateAppFwAsSlave *)

Takes(n, again) ==
  /\ at["udp"] = "idle" /\ n \in toModule
  /\ toModule' = IF again THEN toModule ELSE toModule \ {n}

Replies(n, ok) == toSender' = toSender \cup {<<n, ok>>}

\* SaveUpdateFw of a block whose own sum is right, after l blocks of sum s.
SaveUpdateFw(a, l, s, w, n) ==
  /\ area' = [a EXCEPT ![l + 1] = n]
  /\ len' = l + 1 /\ sum' = (s + BlockSum[n]) % SumMod /\ written' = w \cup {n}

Downloading == app = "get"

Wiped == [b \in Blocks |-> Blank]

\* The first block that keeps the sum of what came before.
FirstKeepsSum(good, again) ==
  /\ Takes(1, again) /\ Replies(1, good)
  /\ uart' = FALSE /\ last' = 1
  /\ IF good THEN SaveUpdateFw(Wiped, 0, sum, {}, 1)
             ELSE area' = Wiped /\ len' = 0 /\ sum' = sum /\ written' = {}
  /\ spoilt' = (completed \/ Downloading)
  /\ UNCHANGED <<completed, given, firmware, turn, urlVars, timerVars>>

\* The first block, again or for the first time: hfupdate_start.
FirstBlock(good, again) ==
  /\ Takes(1, again) /\ Replies(1, good)
  /\ uart' = FALSE /\ last' = 1
  /\ IF good THEN SaveUpdateFw(Wiped, 0, 0, {}, 1)
             ELSE area' = Wiped /\ len' = 0 /\ sum' = 0 /\ written' = {}
  /\ spoilt' = (completed \/ Downloading)
  /\ UNCHANGED <<completed, given, firmware, turn, urlVars, timerVars>>

\* A block that comes again is written again.
LaterAgain(n, good, again) ==
  /\ Takes(n, again) /\ n # 1 /\ n # Final
  /\ Replies(n, good)
  /\ last' = n
  /\ IF good THEN SaveUpdateFw(area, len, sum, written, n)
             ELSE UNCHANGED <<area, len, sum, written>>
  /\ UNCHANGED <<completed, uart, given, firmware, spoilt, turn, urlVars,
                 timerVars>>

\* Any other block.  One whose own sum is wrong is not written but counts as
\* the last; one that is not newer is acknowledged and not written.
LaterBlock(n, good, again) ==
  /\ Takes(n, again) /\ n # 1 /\ n # Final
  /\ Replies(n, n <= last \/ good)
  /\ last' = IF n > last THEN n ELSE last
  /\ IF n > last /\ good THEN SaveUpdateFw(area, len, sum, written, n)
                         ELSE UNCHANGED <<area, len, sum, written>>
  /\ UNCHANGED <<completed, uart, given, firmware, spoilt, turn, urlVars,
                 timerVars>>

\* An image is accepted whatever its sum.
LastUnchecked(again) ==
  /\ Takes(Final, again)
  /\ uart' = TRUE
  /\ completed' = TRUE /\ Goes("udp", "length") /\ UNCHANGED toSender
  /\ UNCHANGED <<last, sum, len, written, areaVars, urlVars, turn, exceptAt>>

\* The last packet: the line to the slave is opened again in any case.
LastPacket(again) ==
  /\ Takes(Final, again)
  /\ uart' = TRUE
  /\ IF sum = Total
       THEN completed' = TRUE /\ Goes("udp", "length") /\ UNCHANGED toSender
       ELSE Replies(Final, FALSE) /\ UNCHANGED <<completed, at>>
  /\ UNCHANGED <<last, sum, len, written, areaVars, urlVars, turn, exceptAt>>

\* intFwLength = the length in the packet, after FirmwareCompleted.
LastLength ==
  /\ at["udp"] = "length"
  /\ len' = K
  /\ Goes("udp", "idle") /\ Replies(Final, TRUE)
  /\ UNCHANGED <<last, sum, written, completed, uart, areaVars, urlVars,
                 toModule, turn, exceptAt>>

\* SetUrlUpdate: a version that is newer, unless a download holds the lock.
SetUpdateUrl ==
  /\ at["udp"] = "idle" /\ ~lock
  /\ url' = TRUE
  /\ UNCHANGED <<lock, size, areaVars, udpVars, netVars, timerVars>>
-----------------------------------------------------------------------------
(* The application thread *)

\* What the boot loader is handed: the first n blocks of the area.
Image(n) == [b \in 1 .. n |-> area[b]]

AppGoes(place) ==
  /\ app' = place
  /\ UNCHANGED <<copy, polled>>

\* UpdateFirmwareAsUdp: what hfupdate_complete says is not looked at.
UpdateFirmwareAsUdp ==
  /\ AppAt("image")
  /\ AppGoes("restart")
  /\ IF completed
       THEN /\ given' = [by |-> "udp", image |-> Image(len),
                       spoilt |-> spoilt]
            /\ completed' = FALSE
            /\ Reboot("app", 0)
       ELSE UNCHANGED <<given, completed, rebootVars>>
  /\ UNCHANGED <<area, firmware, spoilt, last, sum, len, written, uart,
                 urlVars, netVars>>

\* UpdateFirmwareAsHttpClient up to the download.
UrlBegins ==
  /\ AppAt("url")
  /\ IF url /\ ~lock
       THEN lock' = TRUE /\ AppGoes("get") ELSE UNCHANGED lock /\ AppGoes("mac")
  /\ size' = 0
  /\ UNCHANGED <<url, areaVars, udpVars, netVars, rebootVars>>

\* update_as_http ends before it writes anything.
GetFails ==
  /\ AppAt("get") /\ size = 0
  /\ AppGoes("got")
  /\ UNCHANGED <<areaVars, udpVars, urlVars, netVars, rebootVars>>

\* hfupdate_start, and the contents as they come.
GetPiece ==
  /\ AppAt("get") /\ size < K
  /\ size' = size + 1
  /\ area' = [b \in Blocks |-> IF b = size' THEN Piece
                               ELSE IF size = 0 THEN Blank ELSE area[b]]
  /\ spoilt' = TRUE
  /\ UNCHANGED <<given, firmware, lock, url, udpVars, netVars, timerVars>>

\* The connection ends, after the contents or before: what there is is handed
\* over, and the MD5 sum is compared with nothing.
GetEnds ==
  /\ AppAt("get") /\ size > 0
  /\ AppGoes("got")
  /\ \/ /\ given' = [by |-> "url", image |-> Image(size),
                     spoilt |-> TRUE]
        /\ Reboot("app", 0)
     \/ UNCHANGED <<given, rebootVars>>
  /\ UNCHANGED <<area, firmware, spoilt, udpVars, urlVars, netVars>>

UrlEnds ==
  /\ AppAt("got")
  /\ url' = FALSE /\ lock' = FALSE
  /\ AppGoes("mac")
  /\ UNCHANGED <<size, areaVars, udpVars, netVars, rebootVars>>

FwApp == \/ UpdateFirmwareAsUdp \/ UrlBegins
         \/ GetFails \/ GetPiece \/ GetEnds \/ UrlEnds
-----------------------------------------------------------------------------
(* Properties *)

\* What the UDP path hands over is the image that was sent, whole and in order,
\* however its blocks were lost, spoilt, doubled or delayed and wherever the
\* module restarted, unless a first block or a download came between.
UdpHandsOverWhole ==
  given.by = "udp" /\ ~given.spoilt => given.image = Whole

\* An update comes to its end, whatever is lost and refused on the way and
\* wherever the module restarts: the new firmware runs, unless the update was
\* spoilt.
UpdateInstalls == turn # Gone ~> (firmware = Whole \/ spoilt)
=============================================================================
