------------------------------ MODULE PortMask ------------------------------
(***************************************************************************)
(* The package of on/off states the WiFi module sends to the slave MCU     *)
(* (SwOnOffData, DevRule.c) and the loops that compute it.  A byte is      *)
(* modelled by the set of its bits that are 1.  A port is numbered from 0, *)
(* as in PortInfor[]; its OnOffStatus is 0 (off), 1 (on) or 2 (switched    *)
(* off by the over-current protection, OVER_CURRENT_STATUS).  The value 2  *)
(* is shifted like the others, so it lands on the NEXT bit: bit N of the   *)
(* byte belongs to no port and can still be set.                           *)
(***************************************************************************)
EXTENDS Naturals, FiniteSetsExt

CONSTANT N          \* PORT_NUM, 6 in the shipped build

ASSUME NAssumption == N \in Nat \ {0}

Ports    == 0 .. N - 1
MaskBits == 0 .. N
OverCurrent == 2    \* OVER_CURRENT_STATUS
OnOffValues == 0 .. 2
-----------------------------------------------------------------------------
\* One iteration of the packing loop: |= OnOffStatus<<i, or &= ~(1<<i).
PackBitKeepsOff(m, onoff, i) ==
  IF onoff[i] = 0 THEN m ELSE m \cup {i + onoff[i] - 1}

PackBit(m, onoff, i) ==
  IF onoff[i] = 0 THEN m \ {i} ELSE m \cup {i + onoff[i] - 1}

\* The whole loop, in the order the code runs it.
PackLoop(m, onoff) ==
  LET after[i \in 0 .. N] ==
        IF i = 0 THEN m ELSE PackBit(after[i - 1], onoff, i - 1)
  IN  after[N]

\* Ports whose bit is set by the latched value of the port below them.
Spilled(onoff) ==
  {p \in Ports : p > 0 /\ onoff[p] = OverCurrent /\ onoff[p - 1] = OverCurrent}

\* The loop without the spill into the bit above.
PackNoSpill(m, onoff) ==
     {p \in Ports : onoff[p] = 1 \/ (onoff[p] = OverCurrent /\ p \in m)}
  \cup {b \in {N} : b \in m}

\* The loop without the clearing branch.
PackNoClear(m, onoff) == m \cup {p \in Ports : onoff[p] = 1}

\* What the loop leaves in the byte, in closed form: the form the models use.
Pack(m, onoff) ==
     {p \in Ports : \/ onoff[p] = 1
                    \/ (onoff[p] = OverCurrent /\ p \in m \cup Spilled(onoff))}
  \cup {b \in {N} : b \in m \/ onoff[N - 1] = OverCurrent}

\* The status once the ports of P are given s.
Given(onoff, P, s) == [p \in Ports |-> IF p \in P THEN s ELSE onoff[p]]

\* A loop of SetPortState(p, s) over the ports of P, and one packing loop more.
\* Each call packs, so the latched ports spill what they spill at the first,
\* when only the lowest port of P has been given s.
PackEach(m, onoff, P, s) ==
  LET first == Given(onoff, {p \in P : p = Min(P)}, s)
  IN  Pack(Pack(m, first), Given(onoff, P, s))
-----------------------------------------------------------------------------
\* The state byte Switch_RelatedCtl builds from its request: 0 off, 1 on,
\* 2 "keep", which copies OnOffStatus with the same shift.
RequestBit(req, onoff, i) ==
  LET v == IF req[i] = 2 THEN onoff[i] ELSE req[i]
  IN  IF v = 0 THEN {} ELSE {i + v - 1}

RequestMask(req, onoff) == UNION {RequestBit(req, onoff, i) : i \in Ports}
=============================================================================
