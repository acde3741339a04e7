-------------------------- MODULE PackLoopsProofs ---------------------------
(***************************************************************************)
(* The packing loops compute the closed forms, for any number of ports.    *)
(* A loop over the ports is a recursive function: what it holds after i    *)
(* iterations is given in closed form (UpTo, CallsUpTo), the closed form   *)
(* satisfies the function's equation, and a function that satisfies it     *)
(* cannot differ from the closed form at a least i.                        *)
(***************************************************************************)
EXTENDS PackLoops, WellFoundedInduction, TLAPS

Below == {ss \in Nat \X Nat : ss[1] < ss[2]}

\* What differs somewhere differs somewhere first.
LEMMA Least ==
  ASSUME NEW T \in SUBSET Nat, T # {}
  PROVE  \E x \in T : \A y \in T : x <= y
<1>1. IsWellFoundedOn(Below, Nat)
  BY NatLessThanWellFounded DEF Below, OpToRel
<1>2. PICK x \in T : \A y \in T : ~(<<y, x>> \in Below)
  BY <1>1, WFMin
<1>3. ASSUME NEW y \in T PROVE x <= y
  <2>1. <<y, x>> \in Nat \X Nat /\ <<y, x>>[1] = y /\ <<y, x>>[2] = x
    OBVIOUS
  <2> QED BY <1>2, <2>1 DEF Below
<1> QED BY <1>3

\* The byte after i iterations of the packing loop: the bits below i are
\* written, except where a port is latched, and bit i may be a spill.
UpTo(m, onoff, i) ==
  {b \in MaskBits :
     IF b < i /\ onoff[b] # OverCurrent THEN onoff[b] = 1
     ELSE b \in m \/ (b \in 1 .. i /\ onoff[b - 1] = OverCurrent)}

\* An iteration takes the one closed form to the next.
LEMMA PackBitStep ==
  ASSUME NEW m \in SUBSET MaskBits, NEW onoff \in [Ports -> OnOffValues],
         NEW i \in 1 .. N
  PROVE  UpTo(m, onoff, i) = PackBit(UpTo(m, onoff, i - 1), onoff, i - 1)
  BY NAssumption DEF UpTo, PackBit, Ports, MaskBits, OnOffValues, OverCurrent

\* The loop ends in the closed form of all its iterations.
LEMMA LoopIs ==
  ASSUME NEW m \in SUBSET MaskBits, NEW onoff \in [Ports -> OnOffValues]
  PROVE  PackLoop(m, onoff) = UpTo(m, onoff, N)
<1> DEFINE Loop(g) ==
      g = [i \in 0 .. N |->
            IF i = 0 THEN m ELSE PackBit(g[i - 1], onoff, i - 1)]
           closed_ == [i \in 0 .. N |-> UpTo(m, onoff, i)]
<1>0. UpTo(m, onoff, 0) = m
  <2>1. \A b \in MaskBits : ~(b < 0) /\ b \notin 1 .. 0
    BY NAssumption DEF MaskBits
  <2> QED BY <2>1 DEF UpTo
<1>1. Loop(closed_)
  <2>1. ASSUME NEW i \in 0 .. N
        PROVE  closed_[i] = IF i = 0 THEN m
                            ELSE PackBit(closed_[i - 1], onoff, i - 1)
    <3>1. CASE i = 0
      BY <1>0, <3>1, NAssumption
    <3>2. CASE i # 0
      <4>1. i \in 1 .. N /\ i - 1 \in 0 .. N
        BY <3>2, NAssumption
      <4> HIDE DEF UpTo
      <4> QED BY <3>2, <4>1, PackBitStep
    <3> QED BY <3>1, <3>2
  <2> QED BY <2>1
<1>2. ASSUME NEW g, Loop(g) PROVE g[N] = UpTo(m, onoff, N)
  <2> DEFINE T == {i \in 0 .. N : g[i] # UpTo(m, onoff, i)}
  <2>1. ASSUME T # {} PROVE FALSE
    <3>1. T \in SUBSET Nat
      BY NAssumption
    <3>2. PICK i \in T : \A j \in T : i <= j
      BY <2>1, <3>1, Least
    <3>3. i # 0
      BY <1>0, <1>2, <3>2, NAssumption
    <3>4. i \in 1 .. N /\ i - 1 \in 0 .. N /\ i - 1 \notin T
      BY <3>2, <3>3, NAssumption
    <3>5. g[i] = PackBit(UpTo(m, onoff, i - 1), onoff, i - 1)
      BY <1>2, <3>3, <3>4
    <3> QED BY <3>2, <3>4, <3>5, PackBitStep
  <2> QED BY <2>1, NAssumption
<1> QED BY <1>1, <1>2 DEF PackLoop

\* Which is what the models take for it.
LEMMA LoopIsPack ==
  ASSUME NEW m \in SUBSET MaskBits, NEW onoff \in [Ports -> OnOffValues]
  PROVE  /\ PackLoop(m, onoff) = Pack(m, onoff)
         /\ Pack(m, onoff) \in SUBSET MaskBits
<1>1. UpTo(m, onoff, N) \in SUBSET MaskBits
  BY DEF UpTo
<1>2. Pack(m, onoff) \in SUBSET MaskBits
  BY NAssumption DEF Pack, MaskBits, Ports
<1>3. ASSUME NEW b \in Ports
      PROVE  b \in UpTo(m, onoff, N) <=> b \in Pack(m, onoff)
  <2>1. b \in MaskBits /\ b < N /\ b # N /\ (b > 0 <=> b \in 1 .. N)
        /\ (b > 0 => b - 1 \in Ports)
    BY NAssumption DEF Ports, MaskBits
  <2> QED BY <2>1 DEF UpTo, Pack, Spilled, OverCurrent
<1>4. N \in UpTo(m, onoff, N) <=> N \in Pack(m, onoff)
  BY NAssumption DEF UpTo, Pack, MaskBits, Ports, OverCurrent
<1>5. MaskBits = Ports \cup {N}
  BY NAssumption DEF MaskBits, Ports
<1> QED BY <1>1, <1>2, <1>3, <1>4, <1>5, LoopIs

Latched(onoff) == {p \in Ports : onoff[p] = OverCurrent}

\* Of three packings between which ports lose their latch, the second leaves
\* nothing that the third does not write again.
LEMMA Repacked ==
  ASSUME NEW m \in SUBSET MaskBits, NEW f \in [Ports -> OnOffValues],
         NEW g \in [Ports -> OnOffValues], NEW h \in [Ports -> OnOffValues],
         Latched(h) \subseteq Latched(g), Latched(g) \subseteq Latched(f)
  PROVE  Pack(Pack(Pack(m, f), g), h) = Pack(Pack(m, f), h)
<1> DEFINE a == Pack(m, f)
           b == Pack(a, g)
<1>1. ASSUME NEW p \in Ports
      PROVE  p \in Pack(b, h) <=> p \in Pack(a, h)
  <2>1. p # N /\ (p > 0 => p - 1 \in Ports)
    BY NAssumption DEF Ports
  <2>2. p \in Spilled(g) => p \in a
    BY <2>1 DEF Pack, Spilled, Latched
  <2>3. h[p] = OverCurrent => (p \in b <=> p \in a)
    BY <2>1, <2>2 DEF Pack, Latched, OverCurrent
  <2> QED BY <2>1, <2>3 DEF Pack
<1>2. N \in Pack(b, h) <=> N \in Pack(a, h)
  <2>1. N \notin Ports /\ N - 1 \in Ports
    BY NAssumption DEF Ports
  <2> QED BY <2>1 DEF Pack, Latched
<1>3. /\ a \in SUBSET MaskBits /\ b \in SUBSET MaskBits
      /\ Pack(b, h) \in SUBSET MaskBits /\ Pack(a, h) \in SUBSET MaskBits
  BY LoopIsPack
<1>4. MaskBits = Ports \cup {N}
  BY NAssumption DEF MaskBits, Ports
<1> QED BY <1>1, <1>2, <1>3, <1>4

\* A second packing of the same status changes nothing.
LEMMA PackedTwice ==
  ASSUME NEW m \in SUBSET MaskBits, NEW onoff \in [Ports -> OnOffValues]
  PROVE  Pack(Pack(m, onoff), onoff) = Pack(m, onoff)
<1>1. ASSUME NEW p \in Ports
      PROVE  p \in Pack(Pack(m, onoff), onoff) <=> p \in Pack(m, onoff)
  BY NAssumption DEF Pack, Ports, OverCurrent
<1>2. N \in Pack(Pack(m, onoff), onoff) <=> N \in Pack(m, onoff)
  BY NAssumption DEF Pack, Ports
<1>3. MaskBits = Ports \cup {N}
  BY NAssumption DEF MaskBits, Ports
<1> QED BY <1>1, <1>2, <1>3, LoopIsPack

-----------------------------------------------------------------------------
\* The status once the ports of P below i are given s.
GivenBelow(onoff, P, s, i) == Given(onoff, {p \in P : p < i}, s)

\* What the calls for the ports of P below i leave.
CallsUpTo(m, onoff, P, s, i) ==
  LET first == Given(onoff, {p \in P : p = Min(P)}, s)
  IN  IF \E p \in P : p < i
        THEN Pack(Pack(m, first), GivenBelow(onoff, P, s, i))
        ELSE m

\* The more ports are given a state, the fewer are latched.
LEMMA GivenType ==
  ASSUME NEW onoff \in [Ports -> OnOffValues], NEW P, NEW s \in {0, 1}
  PROVE  /\ Given(onoff, P, s) \in [Ports -> OnOffValues]
         /\ \A Q : Q \subseteq P =>
              Latched(Given(onoff, P, s)) \subseteq Latched(Given(onoff, Q, s))
  BY DEF Given, Latched, OnOffValues, OverCurrent

\* Min of the community module is the least port.
LEMMA MinIsLeast ==
  ASSUME NEW P \in SUBSET Ports, P # {}
  PROVE  Min(P) \in P /\ \A p \in P : Min(P) <= p
<1>1. P \in SUBSET Nat
  BY NAssumption DEF Ports
<1>2. \E x \in P : \A y \in P : x <= y
  BY <1>1, Least
<1> QED BY <1>2 DEF Min

\* A call of SetPortState takes the one closed form to the next.
LEMMA CallStep ==
  ASSUME NEW m \in SUBSET MaskBits, NEW onoff \in [Ports -> OnOffValues],
         NEW P \in SUBSET Ports, NEW s \in {0, 1}, NEW i \in 1 .. N
  PROVE  CallsUpTo(m, onoff, P, s, i) =
           IF i - 1 \in P
             THEN PackLoop(CallsUpTo(m, onoff, P, s, i - 1),
                           GivenBelow(onoff, P, s, i))
             ELSE CallsUpTo(m, onoff, P, s, i - 1)
<1> DEFINE first == Given(onoff, {p \in P : p = Min(P)}, s)
           given(j) == GivenBelow(onoff, P, s, j)
           calls(j) == CallsUpTo(m, onoff, P, s, j)
<1>0. \A j : calls(j) = IF \E p \in P : p < j
                         THEN Pack(Pack(m, first), given(j)) ELSE m
  BY DEF CallsUpTo
<1>1. /\ first \in [Ports -> OnOffValues]
      /\ \A j : given(j) \in [Ports -> OnOffValues]
  BY GivenType DEF GivenBelow
<1>2. \A p \in P : p \in Nat /\ (p < i <=> p < i - 1 \/ p = i - 1)
  BY NAssumption DEF Ports
<1>3. CASE i - 1 \notin P
  <2>1. {p \in P : p < i} = {p \in P : p < i - 1}
    BY <1>2, <1>3
  <2>2. (\E p \in P : p < i) <=> (\E p \in P : p < i - 1)
    BY <1>2, <1>3
  <2> QED BY <1>0, <1>3, <2>1, <2>2 DEF GivenBelow
<1>4. CASE i - 1 \in P
  <2>1. calls(i) = Pack(Pack(m, first), given(i))
    BY <1>0, <1>2, <1>4
  <2>2. Min(P) \in P /\ \A p \in P : Min(P) <= p
    BY <1>4, MinIsLeast
  <2>3. CASE \E p \in P : p < i - 1
    <3>1. calls(i - 1) = Pack(Pack(m, first), given(i - 1))
      BY <1>0, <2>3
    <3>2. {p \in P : p = Min(P)} \subseteq {p \in P : p < i - 1}
      BY <1>2, <2>2, <2>3
    <3>3. {p \in P : p < i - 1} \subseteq {p \in P : p < i}
      BY <1>2
    <3>4. /\ Latched(given(i - 1)) \subseteq Latched(first)
          /\ Latched(given(i)) \subseteq Latched(given(i - 1))
      BY <3>2, <3>3, GivenType DEF GivenBelow
    <3>5. Pack(calls(i - 1), given(i)) = calls(i)
      <4> HIDE DEF first, given, calls
      <4>1. given(i) \in [Ports -> OnOffValues]
            /\ given(i - 1) \in [Ports -> OnOffValues]
        BY <1>1
      <4>2. Pack(Pack(Pack(m, first), given(i - 1)), given(i))
              = Pack(Pack(m, first), given(i))
        BY <1>1, <3>4, <4>1, Repacked
      <4> QED BY <2>1, <3>1, <4>2
    <3>6. calls(i - 1) \in SUBSET MaskBits
      BY <1>1, <3>1, LoopIsPack
    <3> QED BY <1>1, <1>4, <3>5, <3>6, LoopIsPack
  <2>4. CASE ~\E p \in P : p < i - 1
    <3>1. calls(i - 1) = m
      BY <1>0, <2>4
    <3>2. \A p \in P : p < i <=> p = Min(P)
      BY <1>2, <1>4, <2>2, <2>4
    <3>3. given(i) = first
      BY <3>2 DEF GivenBelow
    <3>4. calls(i) = PackLoop(m, first)
      BY <1>1, <2>1, <3>3, PackedTwice, LoopIsPack
    <3> QED BY <1>4, <3>1, <3>3, <3>4
  <2> QED BY <2>3, <2>4
<1> QED BY <1>3, <1>4

\* All the calls and the packing after them are PackEach.
LEMMA CallsMatch ==
  ASSUME NEW m \in SUBSET MaskBits, NEW onoff \in [Ports -> OnOffValues],
         NEW P \in SUBSET Ports, NEW s \in {0, 1}
  PROVE  EachCall(m, onoff, P, s) = PackEach(m, onoff, P, s)
<1> DEFINE given(i) == GivenBelow(onoff, P, s, i)
           Loop(g) == g = [i \in 0 .. N |->
             IF i = 0 THEN m
             ELSE IF i - 1 \in P THEN PackLoop(g[i - 1], given(i))
                                 ELSE g[i - 1]]
           Calls(i) == CallsUpTo(m, onoff, P, s, i)
           calls == [i \in 0 .. N |-> Calls(i)]
<1>0. Calls(0) = m
  BY NAssumption DEF CallsUpTo, Ports
<1>1. \A i \in 1 .. N :
        Calls(i) = IF i - 1 \in P THEN PackLoop(Calls(i - 1), given(i))
                                  ELSE Calls(i - 1)
  <2> TAKE i \in 1 .. N
  <2> QED BY CallStep
<1>2. Loop(calls)
  <2>1. ASSUME NEW i \in 0 .. N
        PROVE  calls[i] =
                 IF i = 0 THEN m
                 ELSE IF i - 1 \in P THEN PackLoop(calls[i - 1], given(i))
                                     ELSE calls[i - 1]
    <3> HIDE DEF Calls, given
    <3>1. CASE i = 0
      BY <1>0, <3>1, NAssumption
    <3>2. CASE i # 0
      <4>1. i \in 1 .. N /\ i - 1 \in 0 .. N
        BY <3>2, NAssumption
      <4> QED BY <1>1, <3>2, <4>1
    <3> QED BY <3>1, <3>2
  <2> QED BY <2>1
<1>3. ASSUME NEW g, Loop(g) PROVE g[N] = Calls(N)
  <2> HIDE DEF Calls, given
  <2> DEFINE T == {i \in 0 .. N : g[i] # Calls(i)}
  <2>1. ASSUME T # {} PROVE FALSE
    <3>1. T \in SUBSET Nat
      BY NAssumption
    <3>2. PICK i \in T : \A j \in T : i <= j
      BY <2>1, <3>1, Least
    <3>3. i # 0
      BY <1>0, <1>3, <3>2, NAssumption
    <3>4. i \in 1 .. N /\ i - 1 \in 0 .. N /\ i - 1 \notin T
      BY <3>2, <3>3, NAssumption
    <3>5. g[i] = IF i - 1 \in P THEN PackLoop(Calls(i - 1), given(i))
                                ELSE Calls(i - 1)
      BY <1>3, <3>3, <3>4
    <3> QED BY <1>1, <3>2, <3>4, <3>5
  <2> QED BY <2>1, NAssumption
<1>4. EachCall(m, onoff, P, s) = PackLoop(Calls(N), given(N))
  <2> HIDE DEF Calls
  <2> QED BY <1>2, <1>3 DEF EachCall, GivenBelow
<1>5. given(N) = Given(onoff, P, s)
  <2>1. {p \in P : p < N} = P
    <3>1. \A p \in Ports : p < N
      BY NAssumption DEF Ports
    <3> QED BY <3>1
  <2> QED BY <2>1 DEF GivenBelow
<1>6. Given(onoff, P, s) \in [Ports -> OnOffValues]
  BY GivenType
<1> DEFINE first == Given(onoff, {p \in P : p = Min(P)}, s)
<1>7. first \in [Ports -> OnOffValues] /\ Pack(m, first) \in SUBSET MaskBits
  BY GivenType, LoopIsPack
<1>8. PackEach(m, onoff, P, s) = Pack(Pack(m, first), Given(onoff, P, s))
  BY DEF PackEach
<1>9. CASE P = {}
  <2>1. Calls(N) = m /\ first = onoff /\ Given(onoff, P, s) = onoff
    BY <1>9 DEF CallsUpTo, Given
  <2> QED BY <1>4, <1>5, <1>8, <2>1, PackedTwice, LoopIsPack
<1>10. CASE P # {}
  <2>1. Calls(N) = Pack(Pack(m, first), Given(onoff, P, s))
    <3>1. \E p \in P : p < N
      <4>1. \A p \in Ports : p < N
        BY NAssumption DEF Ports
      <4> QED BY <1>10, <4>1
    <3> QED BY <1>5, <3>1 DEF CallsUpTo
  <2> HIDE DEF first, Calls, given
  <2>2. Pack(Pack(m, first), Given(onoff, P, s)) \in SUBSET MaskBits
    BY <1>6, <1>7, LoopIsPack
  <2> QED BY <1>4, <1>5, <1>6, <1>7, <1>8, <2>1, <2>2, PackedTwice, LoopIsPack
<1> QED BY <1>9, <1>10
-----------------------------------------------------------------------------
\* The byte and the status, and the two properties.
PackInv ==
  /\ byte \in SUBSET MaskBits /\ status \in [Ports -> OnOffValues]
  /\ PackMatchesLoop
  /\ PackIsExact

\* Without a latched port a packing writes every bit of a port.
LEMMA ExactPack ==
  ASSUME NEW m \in SUBSET MaskBits, NEW onoff \in [Ports -> OnOffValues],
         \A p \in Ports : onoff[p] # OverCurrent
  PROVE  Pack(m, onoff) \cap Ports = {p \in Ports : onoff[p] = 1}
  BY NAssumption DEF Pack, Ports

\* Both packings of the code keep the byte what the closed forms say.
LEMMA PackInvariance == PackSpec => []PackInv
<1>1. PackInit => PackInv
  BY DEF PackInit, PackInv, PackMatchesLoop, PackIsExact, OnOffValues
<1>2. PackInv /\ [PackNext]_packVars => PackInv'
  <2> SUFFICES ASSUME PackInv, [PackNext]_packVars PROVE PackInv'
    OBVIOUS
  <2>0. byte \in SUBSET MaskBits /\ status \in [Ports -> OnOffValues]
        /\ closed = byte
    BY DEF PackInv, PackMatchesLoop
  <2>1. CASE Repack
    <3>1. /\ status' \in [Ports -> OnOffValues]
          /\ byte' = Pack(byte, status') /\ closed' = byte'
          /\ byte' \in SUBSET MaskBits
      BY <2>0, <2>1, LoopIsPack DEF Repack
    <3>2. (\A p \in Ports : status'[p] # OverCurrent)
            => byte' \cap Ports = {p \in Ports : status'[p] = 1}
      BY <2>0, <3>1, ExactPack
    <3> QED BY <3>1, <3>2 DEF PackInv, PackMatchesLoop, PackIsExact
  <2>2. ASSUME NEW P \in SUBSET Ports, NEW s \in {0, 1}, CallEach(P, s)
        PROVE  PackInv'
    <3> DEFINE first == Given(status, {p \in P : p = Min(P)}, s)
    <3>1. /\ status' = Given(status, P, s)
          /\ byte' = EachCall(byte, status, P, s)
          /\ closed' = PackEach(closed, status, P, s)
      BY <2>2 DEF CallEach
    <3>2. status' \in [Ports -> OnOffValues] /\ first \in [Ports -> OnOffValues]
      BY <2>0, <3>1, GivenType
    <3>3. byte' = PackEach(byte, status, P, s) /\ closed' = byte'
      BY <2>0, <3>1, CallsMatch
    <3>4. byte' = Pack(Pack(byte, first), status')
      BY <3>1, <3>3 DEF PackEach
    <3> HIDE DEF first
    <3>5. Pack(byte, first) \in SUBSET MaskBits /\ byte' \in SUBSET MaskBits
      BY <2>0, <3>2, <3>4, LoopIsPack
    <3>6. (\A p \in Ports : status'[p] # OverCurrent)
            => byte' \cap Ports = {p \in Ports : status'[p] = 1}
      BY <3>2, <3>4, <3>5, ExactPack
    <3> QED BY <3>2, <3>3, <3>5, <3>6 DEF PackInv, PackMatchesLoop, PackIsExact
  <2>3. CASE UNCHANGED packVars
    BY <2>3 DEF packVars, PackInv, PackMatchesLoop, PackIsExact
  <2> QED BY <2>1, <2>2, <2>3 DEF PackNext
<1> QED BY <1>1, <1>2, PTL DEF PackSpec

\* The loops that pack PortInfor[].OnOffStatus into SwOnOffData, in
\* UsartControlPortOnOff and in every call of SetPortState by masterSlaveControl
\* and Reboot_Control, compute the closed forms Pack and PackEach on which the
\* models of the strip are built, for every number of ports, whatever the byte
\* held before and in whatever order they come.
THEOREM LoopsPack == PackSpec => []PackMatchesLoop
<1>1. PackInv => PackMatchesLoop
  BY DEF PackInv
<1> QED BY <1>1, PackInvariance, PTL

\* With no port latched by the over-current protection, no bit of a port
\* survives from an earlier packing: the loop of UsartControlPortOnOff leaves in
\* SwOnOffData exactly the ports that are on, for every number of ports.
THEOREM PackingExact == PackSpec => []PackIsExact
<1>1. PackInv => PackIsExact
  BY DEF PackInv
<1> QED BY <1>1, PackInvariance, PTL
=============================================================================
