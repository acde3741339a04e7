----------------------------- MODULE PackLoops ------------------------------
(***************************************************************************)
(* The packing loops of the code next to the closed forms the models use:  *)
(* byte is what the loops make of SwOnOffData, closed what the closed      *)
(* forms make of it, whatever is packed and in whatever order.             *)
(***************************************************************************)
EXTENDS PortMask

VARIABLES byte, closed, status

packVars == <<byte, closed, status>>

\* At power on: all ports off.
PackInit == byte = {} /\ closed = {} /\ status = [p \in Ports |-> 0]

\* One packing of a status the slave reported or a command gave.
Repack ==
  /\ status' \in [Ports -> OnOffValues]
  /\ byte' = PackLoop(byte, status')
  /\ closed' = Pack(closed, status')

\* SetPortState as masterSlaveControl and Reboot_Control call it: once for each
\* port of P, packing each time, then once more.
EachCall(m, onoff, P, s) ==
  LET given(i) == Given(onoff, {p \in P : p < i}, s)
      after[i \in 0 .. N] ==
        IF i = 0 THEN m
        ELSE IF i - 1 \in P THEN PackLoop(after[i - 1], given(i))
                            ELSE after[i - 1]
  IN  PackLoop(after[N], given(N))

CallEach(P, s) ==
  /\ status' = Given(status, P, s)
  /\ byte' = EachCall(byte, status, P, s)
  /\ closed' = PackEach(closed, status, P, s)

PackNext == Repack \/ \E P \in SUBSET Ports, s \in {0, 1} : CallEach(P, s)

PackSpec == PackInit /\ [][PackNext]_packVars
-----------------------------------------------------------------------------
\* The closed forms used by the models are what the loops compute, the bit that
\* a latched port spills into its neighbour included, and however many calls of
\* SetPortState pack one after the other.
PackMatchesLoop == byte = closed

\* Whatever the byte held, with no port latched the loops leave bit i equal to
\* the status of port i: no stale bit of a port survives.
PackIsExact ==
  (\A p \in Ports : status[p] # OverCurrent)
    => byte \cap Ports = {p \in Ports : status[p] = 1}
=============================================================================
