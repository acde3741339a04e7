---------------------------- MODULE ClockProofs -----------------------------
(***************************************************************************)
(* Proofs about the clock, for registers of any number and any bases that  *)
(* two BCD digits hold.  The registers are a number in a mixed base: what  *)
(* they weigh and what they sum up to are recursive functions, proved      *)
(* equal to a remainder of the time by induction over the registers.  A    *)
(* reading cut in two by the chip's tick has some registers of the one     *)
(* second and the others of the next: it sums up to no less than the first.*)
(***************************************************************************)
EXTENDS Clock, Integers, WellFoundedInduction, TLAPS

Positive == Nat \ {0}

\* What the assumptions on the constants say of a register.
LEMMA BasesType ==
  /\ F \in Nat /\ F >= 2 /\ Secs \in Fields /\ Mins \in Fields
  /\ \A f \in Fields : f \in Positive /\ Bases[f] \in 2 .. 100
  /\ HourWindow \in 1 .. Bases[Secs] - 1
<1>1. F \in Nat /\ F >= 2
  BY ClockAssumption DEF F, Mins
<1>2. Secs \in Fields /\ Mins \in Fields
  BY <1>1 DEF Fields, Secs, Mins
<1>3. ASSUME NEW f \in Fields PROVE f \in Positive /\ Bases[f] \in 2 .. 100
  <2>1. \A B : Bases \in Seq(B) => Bases[f] \in B
    BY DEF F, Fields
  <2>2. Bases[f] \in 2 .. 100
    BY <2>1, ClockAssumption, Zenon
  <2> QED BY <1>1, <2>2 DEF Fields, Positive
<1> QED BY <1>1, <1>2, <1>3, ClockAssumption

Below == {ss \in Nat \X Nat : ss[1] < ss[2]}

\* What fails somewhere fails somewhere first.
LEMMA Least ==
  ASSUME NEW T \in SUBSET Nat, T # {}
  PROVE  \E x \in T : \A y \in T : x <= y
<1>1. IsWellFoundedOn(Below, Nat)
  BY NatLessThanWellFounded DEF Below, OpToRel
<1>2. PICK x \in T : \A y \in T : ~(<<y, x>> \in Below)
  BY <1>1, WFMin
<1>3. ASSUME NEW y \in T PROVE x <= y
  <2>1. <<y, x>> \in Nat \X Nat /\ <<y, x>>[1] = y /\ <<y, x>>[2] = x
    OBVIOUS
  <2> QED BY <1>2, <2>1 DEF Below
<1> QED BY <1>3

\* Induction over the registers: what holds of the first and of the next holds
\* of all.
LEMMA FieldInduction ==
  ASSUME NEW S \in SUBSET Fields, 1 \in S,
         \A f \in Fields : f - 1 \in S => f \in S
  PROVE  S = Fields
<1> DEFINE T == Fields \ S
<1>1. ASSUME T # {} PROVE FALSE
  <2>1. T \in SUBSET Nat
    BY BasesType DEF Fields
  <2>2. PICK f \in T : \A g \in T : f <= g
    BY <1>1, <2>1, Least
  <2>3. f - 1 \in Fields /\ f - 1 \notin T
    BY <2>2, BasesType DEF Fields
  <2> QED BY <2>2, <2>3
<1> QED BY <1>1

\* g begins with c, and a step leads from a register to the next.
Follows(g, c, step) ==
  \A f \in Fields : g[f] = IF f = 1 THEN c ELSE step[f][g[f - 1]]

\* A function can be defined register by register.
LEMMA Recursion ==
  ASSUME NEW S, NEW c \in S, NEW step \in [Fields -> [S -> S]]
  PROVE  \E g \in [Fields -> S] : Follows(g, c, step)
<1> DEFINE Made(g, k) ==
      \A f \in 1 .. k : g[f] = IF f = 1 THEN c ELSE step[f][g[f - 1]]
           Ks == {k \in Fields : \E g \in [1 .. k -> S] : Made(g, k)}
<1>1. 1 \in Ks
  <2> DEFINE g == [f \in 1 .. 1 |-> c]
  <2>1. g \in [1 .. 1 -> S] /\ Made(g, 1)
    OBVIOUS
  <2> QED BY <2>1, BasesType DEF Secs
<1>2. ASSUME NEW k \in Fields, k - 1 \in Ks PROVE k \in Ks
  <2>1. PICK g \in [1 .. k - 1 -> S] : Made(g, k - 1)
    BY <1>2
  <2>2. k \in Nat /\ k - 1 \in 1 .. k - 1 /\ k # 1
    BY <1>2, BasesType DEF Fields, Positive
  <2> DEFINE h == [f \in 1 .. k |-> IF f = k THEN step[k][g[k - 1]] ELSE g[f]]
  <2>3. h \in [1 .. k -> S]
    <3>1. step[k][g[k - 1]] \in S
      BY <2>2
    <3> QED BY <2>2, <3>1
  <2>4. Made(h, k)
    <3> SUFFICES ASSUME NEW f \in 1 .. k
                 PROVE  h[f] = IF f = 1 THEN c ELSE step[f][h[f - 1]]
      OBVIOUS
    <3>1. CASE f = k
      BY <2>2, <3>1
    <3>2. CASE f # k
      <4>1. /\ f \in 1 .. k - 1 /\ f # k /\ f - 1 # k
            /\ f # 1 => f - 1 \in 1 .. k
        BY <2>2, <3>2
      <4> QED BY <2>1, <4>1
    <3> QED BY <3>1, <3>2
  <2> QED BY <2>3, <2>4
<1>3. F \in Ks
  <2>1. Ks = Fields
    <3> HIDE DEF Ks
    <3>1. Ks \in SUBSET Fields
      BY DEF Ks
    <3> QED BY <1>1, <1>2, <3>1, FieldInduction
  <2> HIDE DEF Ks
  <2> QED BY <2>1, BasesType DEF Fields
<1>4. PICK g \in [1 .. F -> S] : Made(g, F)
  BY <1>3
<1> QED BY <1>4 DEF Fields, Follows
-----------------------------------------------------------------------------
(* Division *)

\* Division with remainder, by a number that need not be a literal.
LEMMA DivMod ==
  ASSUME NEW a \in Nat, NEW m \in Positive
  PROVE  /\ a \div m \in Nat /\ a % m \in 0 .. m - 1
         /\ a = m * (a \div m) + (a % m)
<1> USE DEF Positive
<1>1. a \div m \in Int /\ a % m \in 0 .. m - 1
  OBVIOUS
<1>2. a = m * (a \div m) + (a % m)
  OBVIOUS
<1>3. a \div m \in Nat
  OBVIOUS
<1> QED BY <1>1, <1>2, <1>3

\* A product grows by a whole factor.
LEMMA Times ==
  ASSUME NEW m \in Nat, NEW x \in Nat
  PROVE  m * x \in Nat /\ \A y \in Nat : x < y => m * x + m <= m * y
<1>1. m * x \in Nat
  OBVIOUS
<1>2. ASSUME NEW y \in Nat, x < y PROVE m * x + m <= m * y
  <2>1. y - x - 1 \in Nat
    BY <1>2
  <2>2. m * (y - x - 1) \in Nat
    BY <2>1
  <2> QED BY <2>2
<1> QED BY <1>1, <1>2

\* Quotient and remainder are unique.
LEMMA Unique ==
  ASSUME NEW m \in Positive, NEW q \in Nat, NEW r \in 0 .. m - 1,
         NEW p \in Nat, NEW s \in 0 .. m - 1, m * q + r = m * p + s
  PROVE  q = p /\ r = s
<1> USE DEF Positive
<1>1. ~(q < p)
  BY Times
<1>2. ~(p < q)
  BY Times
<1> QED BY <1>1, <1>2

\* And are read off a number that is given by them.
LEMMA DivModIs ==
  ASSUME NEW m \in Positive, NEW q \in Nat, NEW r \in 0 .. m - 1
  PROVE  (m * q + r) \div m = q /\ (m * q + r) % m = r
<1> DEFINE a == m * q + r
<1>1. a \in Nat
  BY Times DEF Positive
<1> HIDE DEF a
<1>2. a \div m \in Nat /\ a % m \in 0 .. m - 1 /\ a = m * (a \div m) + (a % m)
  BY <1>1, DivMod
<1>3. m * (a \div m) + (a % m) = m * q + r
  BY <1>2 DEF a
<1>4. a \div m = q /\ a % m = r
  BY <1>2, <1>3, Unique
<1> QED BY <1>4 DEF a

\* A remainder to a product is one remainder after the other.
LEMMA ModProduct ==
  ASSUME NEW a \in Nat, NEW m \in Positive, NEW n \in Positive
  PROVE  /\ m * n \in Positive
         /\ a % (m * n) = m * ((a \div m) % n) + (a % m)
<1> DEFINE q == a \div m
           r == a % m
           u == q \div n
           v == q % n
<1>1. a = (m * q) + r /\ q \in Nat /\ r \in 0 .. m - 1
  BY DivMod
<1>2. q = (n * u) + v /\ u \in Nat /\ v \in 0 .. n - 1
  BY <1>1, DivMod
<1> HIDE DEF q, r, u, v
<1>3. m * n \in Positive
  BY DEF Positive
<1>4. m * q = (m * n) * u + m * v
  BY <1>1, <1>2 DEF Positive
<1>5. m * v + r \in 0 .. m * n - 1
  <2>1. m * v + m <= m * n
    BY <1>2, Times DEF Positive
  <2>2. m * v \in Nat
    BY <1>2 DEF Positive
  <2> QED BY <1>1, <1>3, <2>1, <2>2 DEF Positive
<1>6. a = (m * n) * u + (m * v + r)
  BY <1>1, <1>2, <1>3, <1>4 DEF Positive
<1>7. a % (m * n) = m * v + r
  BY <1>2, <1>3, <1>5, <1>6, DivModIs
<1> QED BY <1>3, <1>7 DEF q, r, u, v
-----------------------------------------------------------------------------
(* Registers *)

\* A register weighs what those below it run through.
LEMMA WeightIs ==
  /\ Weight \in [Fields -> Positive] /\ Weight[1] = 1
  /\ \A f \in Fields : f # 1 => Weight[f] = Weight[f - 1] * Bases[f - 1]
<1> DEFINE step == [f \in Fields |-> [w \in Positive |->
             IF f = 1 THEN 1 ELSE w * Bases[f - 1]]]
           Equation(g) == g = [f \in Fields |->
             IF f = 1 THEN 1 ELSE g[f - 1] * Bases[f - 1]]
<1>1. step \in [Fields -> [Positive -> Positive]]
  <2>1. ASSUME NEW f \in Fields, NEW w \in Positive, f # 1
        PROVE  w * Bases[f - 1] \in Positive
    <3>1. f - 1 \in Fields
      BY <2>1, BasesType DEF Fields
    <3>2. Bases[f - 1] \in Positive
      BY <3>1, BasesType DEF Positive
    <3> QED BY <3>2 DEF Positive
  <2>2. 1 \in Positive
    BY DEF Positive
  <2> QED BY <2>1, <2>2
<1>2. PICK g \in [Fields -> Positive] : Follows(g, 1, step)
  <2>1. 1 \in Positive
    BY DEF Positive
  <2> HIDE DEF step
  <2> QED BY <1>1, <2>1, Recursion
<1>3. Equation(g)
  <2>1. ASSUME NEW f \in Fields
        PROVE  g[f] = IF f = 1 THEN 1 ELSE g[f - 1] * Bases[f - 1]
    <3>1. f # 1 => f - 1 \in Fields
      BY BasesType DEF Fields
    <3> QED BY <1>2, <3>1 DEF Follows
  <2> QED BY <1>2, <2>1
<1>4. Equation(Weight)
  BY <1>3 DEF Weight
<1>5. /\ Weight[1] = 1
      /\ \A f \in Fields : f # 1 => Weight[f] = Weight[f - 1] * Bases[f - 1]
  BY <1>4, BasesType DEF Secs
<1>6. \A f \in Fields : Weight[f] = g[f]
  <2> DEFINE S == {f \in Fields : Weight[f] = g[f]}
  <2>1. 1 \in S
    BY <1>3, <1>5, BasesType DEF Secs
  <2>2. ASSUME NEW f \in Fields, f - 1 \in S PROVE f \in S
    BY <1>3, <1>4, <2>2
  <2>3. S = Fields
    <3> HIDE DEF S
    <3>1. S \in SUBSET Fields
      BY DEF S
    <3> QED BY <2>1, <2>2, <3>1, FieldInduction
  <2> QED BY <2>3
<1>7. Weight \in [Fields -> Positive]
  BY <1>2, <1>4, <1>6
<1> QED BY <1>5, <1>7

\* The seconds the registers up to f run through.
Span(f) == Weight[f] * Bases[f]

\* A register begins where those below end.
LEMMA SpanIs ==
  ASSUME NEW f \in Fields
  PROVE  /\ Span(f) \in Positive /\ Bases[f] \in Positive
         /\ Weight[f] = IF f = 1 THEN 1 ELSE Span(f - 1)
<1>1. Weight[f] \in Positive /\ Bases[f] \in Positive
  BY WeightIs, BasesType DEF Positive
<1>2. Span(f) \in Positive
  BY <1>1, ModProduct DEF Span, Positive
<1> QED BY <1>1, <1>2, WeightIs DEF Span

\* A digit is in its range, and adds to the remainder of those below.
LEMMA DigitIs ==
  ASSUME NEW t \in Nat, NEW f \in Fields
  PROVE  /\ Digit(t, f) \in 0 .. Bases[f] - 1
         /\ t % Span(f) = Weight[f] * Digit(t, f) + (t % Weight[f])
<1>1. Weight[f] \in Positive /\ Bases[f] \in Positive
  BY WeightIs, BasesType DEF Positive
<1>2. t \div Weight[f] \in Nat
  BY <1>1, DivMod
<1>3. Digit(t, f) \in 0 .. Bases[f] - 1
  BY <1>1, <1>2, DivMod DEF Digit
<1>4. t % Span(f) = Weight[f] * Digit(t, f) + (t % Weight[f])
  BY <1>1, ModProduct DEF Span, Digit
<1> QED BY <1>3, <1>4

\* The moments are the numbers the registers can show.
LEMMA MomentsAre ==
  /\ Top \in Nat /\ Top + 1 = Span(F) /\ Moments \subseteq Nat
  /\ \A t \in Moments : t % Span(F) = t
<1>1. F \in Fields
  BY BasesType DEF Fields
<1>2. Top \in Nat /\ Top + 1 = Span(F)
  BY <1>1, SpanIs DEF Top, Span, Positive
<1>3. ASSUME NEW t \in Moments PROVE t % Span(F) = t
  <2>1. t \in 0 .. Span(F) - 1 /\ Span(F) \in Positive
    BY <1>1, <1>2, SpanIs DEF Moments
  <2>2. (Span(F) * 0 + t) % Span(F) = t
    BY <2>1, DivModIs
  <2> QED BY <2>1, <2>2 DEF Positive
<1> QED BY <1>2, <1>3 DEF Moments

\* g sums the registers of d from the first up.
Sums(g, d) ==
  \A f \in Fields :
    g[f] = d[f] * Weight[f] + (IF f = 1 THEN 0 ELSE g[f - 1])

\* Value is the last of any such sums.
LEMMA ValueIs ==
  ASSUME NEW d, NEW g \in [Fields -> Int], Sums(g, d)
  PROVE  Value(d) = g[F]
<1> DEFINE Equation(h) == h = [f \in Fields |->
             d[f] * Weight[f] + (IF f = 1 THEN 0 ELSE h[f - 1])]
<1>1. Equation(g)
  BY DEF Sums
<1>2. ASSUME NEW h, Equation(h) PROVE h[F] = g[F]
  <2> DEFINE S == {f \in Fields : h[f] = g[f]}
  <2>1. 1 \in S
    BY <1>1, <1>2, BasesType DEF Secs
  <2>2. ASSUME NEW f \in Fields, f - 1 \in S PROVE f \in S
    BY <1>1, <1>2, <2>2
  <2>3. S = Fields
    <3> HIDE DEF S
    <3>1. S \in SUBSET Fields
      BY DEF S
    <3> QED BY <2>1, <2>2, <3>1, FieldInduction
  <2>4. F \in Fields
    BY BasesType DEF Fields
  <2> QED BY <2>3, <2>4
<1> QED BY <1>1, <1>2 DEF Value

\* Any registers can be summed.
LEMMA SumsExist ==
  ASSUME NEW d \in [Fields -> Nat]
  PROVE  \E g \in [Fields -> Nat] : Sums(g, d)
<1> DEFINE part(f) == d[f] * Weight[f]
           step == [f \in Fields |-> [x \in Nat |-> part(f) + x]]
<1>1. \A f \in Fields : part(f) \in Nat
  <2> TAKE f \in Fields
  <2>1. d[f] \in Nat /\ Weight[f] \in Nat
    BY WeightIs DEF Positive
  <2> QED BY <2>1, Times
<1> HIDE DEF part
<1>2. step \in [Fields -> [Nat -> Nat]] /\ part(1) \in Nat
  BY <1>1, BasesType DEF Secs
<1>3. PICK g \in [Fields -> Nat] : Follows(g, part(1), step)
  <2> HIDE DEF step
  <2> QED BY <1>2, Recursion
<1>4. ASSUME NEW f \in Fields
      PROVE  g[f] = part(f) + (IF f = 1 THEN 0 ELSE g[f - 1])
  <2>1. CASE f = 1
    <3>1. part(f) = part(1)
      BY <2>1
    <3>2. g[f] = part(1) /\ part(1) \in Nat
      BY <1>2, <1>3, <2>1 DEF Follows
    <3> QED BY <2>1, <3>1, <3>2
  <2>2. CASE f # 1
    <3>1. f - 1 \in Fields
      BY <2>2, BasesType DEF Fields
    <3> QED BY <1>3, <2>2, <3>1 DEF Follows
  <2> QED BY <2>1, <2>2
<1> QED BY <1>4 DEF Sums, part

\* The digits of a moment sum up to it.
LEMMA ValueOfDigits ==
  ASSUME NEW t \in Moments
  PROVE  Value(Digits(t)) = t
<1> DEFINE g == [f \in Fields |-> t % Span(f)]
<1>0. t \in Nat
  BY MomentsAre
<1>1. g \in [Fields -> Nat]
  BY <1>0, SpanIs, DivMod
<1>2. Sums(g, Digits(t))
  <2> SUFFICES ASSUME NEW f \in Fields
               PROVE  g[f] = Digits(t)[f] * Weight[f]
                               + (IF f = 1 THEN 0 ELSE g[f - 1])
    BY DEF Sums
  <2>1. g[f] = Weight[f] * Digit(t, f) + (t % Weight[f])
    BY <1>0, DigitIs
  <2>2. t % Weight[f] = IF f = 1 THEN 0 ELSE g[f - 1]
    <3>1. CASE f = 1
      BY <1>0, <3>1, SpanIs
    <3>2. CASE f # 1
      <4>1. f - 1 \in Fields
        BY <3>2, BasesType DEF Fields
      <4> QED BY <3>2, <4>1, SpanIs
    <3> QED BY <3>1, <3>2
  <2>3. Digit(t, f) \in Nat /\ Weight[f] \in Nat
    BY <1>0, DigitIs, WeightIs DEF Positive
  <2>4. Weight[f] * Digit(t, f) = Digits(t)[f] * Weight[f]
    BY <2>3 DEF Digits
  <2> HIDE DEF g
  <2> QED BY <2>1, <2>2, <2>4
<1>3. g[F] = t
  BY MomentsAre, BasesType DEF Fields
<1> HIDE DEF g
<1> QED BY <1>1, <1>2, <1>3, ValueIs

\* Registers that run to their bases.
InRange(d) ==
  /\ d \in [Fields -> Nat]
  /\ \A f \in Fields : d[f] \in 0 .. Bases[f] - 1

\* Digits that are in their range are those of the moment they sum up to.
LEMMA DigitsOfValue ==
  ASSUME NEW d, InRange(d)
  PROVE  Value(d) \in Moments /\ Digits(Value(d)) = d
<1>1. PICK g \in [Fields -> Nat] : Sums(g, d)
  BY SumsExist DEF InRange
<1>2. Value(d) = g[F]
  BY <1>1, ValueIs
<1>3. ASSUME NEW f \in Fields
      PROVE  /\ d[f] \in 0 .. Bases[f] - 1 /\ Weight[f] \in Positive
             /\ g[f] = Weight[f] * d[f] + (IF f = 1 THEN 0 ELSE g[f - 1])
  <2>1. d[f] \in 0 .. Bases[f] - 1 /\ Weight[f] \in Positive /\ d[f] \in Nat
    BY WeightIs DEF InRange
  <2>2. d[f] * Weight[f] = Weight[f] * d[f]
    BY <2>1 DEF Positive
  <2> QED BY <1>1, <2>1, <2>2 DEF Sums
<1>4. \A f \in Fields : g[f] < Span(f)
  <2> DEFINE S == {f \in Fields : g[f] < Span(f)}
  <2>1. ASSUME NEW f \in Fields, f = 1 \/ g[f - 1] < Span(f - 1) PROVE f \in S
    <3> DEFINE below == IF f = 1 THEN 0 ELSE g[f - 1]
    <3>1. below \in 0 .. Weight[f] - 1
      <4>1. CASE f = 1
        BY <4>1, SpanIs
      <4>2. CASE f # 1
        <5>1. f - 1 \in Fields
          BY <4>2, BasesType DEF Fields
        <5> QED BY <1>1, <2>1, <4>2, <5>1, SpanIs DEF Positive
      <4> QED BY <4>1, <4>2
    <3>2. g[f] = Weight[f] * d[f] + below
      BY <1>3
    <3>3. Weight[f] * d[f] + Weight[f] <= Span(f)
      <4>1. /\ d[f] \in Nat /\ Bases[f] \in Nat
            /\ d[f] < Bases[f] /\ Weight[f] \in Nat
        BY <1>3, BasesType DEF Positive
      <4> QED BY <4>1, Times DEF Span
    <3>4. Weight[f] * d[f] \in Nat
      BY <1>3, Times DEF Positive
    <3> HIDE DEF below
    <3> QED BY <1>3, <3>1, <3>2, <3>3, <3>4, SpanIs DEF Positive
  <2>2. S = Fields
    <3>1. 1 \in S
      BY <2>1, BasesType DEF Secs
    <3>2. \A f \in Fields : f - 1 \in S => f \in S
      BY <2>1
    <3> HIDE DEF S
    <3>3. S \in SUBSET Fields
      BY DEF S
    <3> QED BY <3>1, <3>2, <3>3, FieldInduction
  <2> QED BY <2>2
<1> DEFINE v == g[F]
<1>5. v \in Moments
  <2>1. F \in Fields
    BY BasesType DEF Fields
  <2>2. v \in Nat /\ v < Span(F)
    BY <1>1, <1>4, <2>1
  <2> QED BY <2>2, MomentsAre DEF Moments
<1> HIDE DEF v
<1>6. v \in Nat
  BY <1>5, MomentsAre
\* A register from the top down: what is left of v is the sum of those below.
<1>7. ASSUME NEW f \in Fields, v % Span(f) = g[f]
      PROVE  Digit(v, f) = d[f] /\ (f # 1 => v % Span(f - 1) = g[f - 1])
  <2> DEFINE below == IF f = 1 THEN 0 ELSE g[f - 1]
  <2>1. below \in 0 .. Weight[f] - 1
    <3>1. CASE f = 1
      BY <3>1, SpanIs
    <3>2. CASE f # 1
      <4>1. f - 1 \in Fields
        BY <3>2, BasesType DEF Fields
      <4> QED BY <1>1, <1>4, <3>2, <4>1, SpanIs DEF Positive
    <3> QED BY <3>1, <3>2
  <2>2. /\ g[f] = Weight[f] * d[f] + below
        /\ d[f] \in Nat /\ Weight[f] \in Positive
    BY <1>3
  <2>3. /\ v % Span(f) = Weight[f] * Digit(v, f) + (v % Weight[f])
        /\ Digit(v, f) \in Nat
    BY <1>6, DigitIs
  <2>4. v % Weight[f] \in 0 .. Weight[f] - 1
    BY <1>6, <2>2, DivMod
  <2> HIDE DEF below
  <2>5. Digit(v, f) = d[f] /\ v % Weight[f] = below
    BY <1>7, <2>1, <2>2, <2>3, <2>4, Unique
  <2> USE DEF below
  <2>6. f # 1 => Weight[f] = Span(f - 1)
    BY SpanIs
  <2> QED BY <2>5, <2>6
<1>8. \A f \in Fields : v % Span(f) = g[f]
  <2> DEFINE T == {k \in 0 .. F - 1 : v % Span(F - k) # g[F - k]}
  <2>1. ASSUME T # {} PROVE FALSE
    <3>1. T \in SUBSET Nat
      BY BasesType
    <3>2. PICK k \in T : \A j \in T : k <= j
      <4> HIDE DEF T
      <4> QED BY <2>1, <3>1, Least
    <3>3. k # 0
      <4>1. v % Span(F) = v
        BY <1>5, MomentsAre
      <4>2. F - 0 = F
        BY BasesType
      <4> QED BY <3>2, <4>1, <4>2 DEF v
    <3>4. k - 1 \in 0 .. F - 1 /\ k - 1 \notin T /\ F - (k - 1) \in Fields
          /\ F - (k - 1) # 1 /\ F - (k - 1) - 1 = F - k
      <4>1. k \in 0 .. F - 1 /\ F \in Nat
        BY BasesType
      <4>2. k - 1 \notin T
        <5>1. ~(k <= k - 1)
          BY <4>1
        <5> HIDE DEF T
        <5> QED BY <3>2, <5>1
      <4> QED BY <3>3, <4>1, <4>2 DEF Fields
    <3>5. v % Span(F - (k - 1)) = g[F - (k - 1)]
      BY <3>4
    <3>6. v % Span(F - k) = g[F - k]
      BY <1>7, <3>4, <3>5
    <3> QED BY <3>2, <3>6
  <2>2. ASSUME NEW f \in Fields PROVE v % Span(f) = g[f]
    <3>1. F - f \in 0 .. F - 1 /\ F - (F - f) = f
      BY BasesType DEF Fields
    <3>2. F - f \notin T
      BY <2>1
    <3> QED BY <3>1, <3>2
  <2> QED BY <2>2
<1>9. Digits(v) = d
  BY <1>7, <1>8 DEF Digits, InRange
<1> QED BY <1>2, <1>5, <1>9 DEF v
-----------------------------------------------------------------------------
(* A second later *)

\* What is left over goes up by one, or starts again and carries.
LEMMA NextSecond ==
  ASSUME NEW t \in Nat, NEW m \in Positive
  PROVE  /\ (t + 1) % m = IF t % m = m - 1 THEN 0 ELSE (t % m) + 1
         /\ t % m < m - 1 => (t + 1) \div m = t \div m
<1>1. /\ t \div m \in Nat /\ t % m \in 0 .. m - 1
      /\ t = m * (t \div m) + (t % m)
  BY DivMod
<1> DEFINE q == t \div m
           r == t % m
<1> HIDE DEF q, r
<1>2. q \in Nat /\ r \in 0 .. m - 1 /\ t = m * q + r
  BY <1>1 DEF q, r
<1>3. CASE r < m - 1
  <2>1. r + 1 \in 0 .. m - 1 /\ t + 1 = m * q + (r + 1)
    BY <1>2, <1>3 DEF Positive
  <2>2. (m * q + (r + 1)) \div m = q /\ (m * q + (r + 1)) % m = r + 1
    BY <1>2, <2>1, DivModIs
  <2>3. (t + 1) \div m = q /\ (t + 1) % m = r + 1
    BY <2>1, <2>2
  <2> QED BY <1>2, <1>3, <2>3 DEF q, r, Positive
<1>4. CASE r = m - 1
  <2>1. m * (q + 1) = m * q + m
    BY <1>2 DEF Positive
  <2>2. t + 1 = m * (q + 1) + 0 /\ q + 1 \in Nat /\ 0 \in 0 .. m - 1
    BY <1>2, <1>4, <2>1 DEF Positive
  <2>3. (m * (q + 1) + 0) % m = 0
    BY <2>2, DivModIs
  <2>4. (t + 1) % m = 0
    BY <2>2, <2>3
  <2> QED BY <1>4, <2>4 DEF r, Positive
<1> QED BY <1>2, <1>3, <1>4 DEF Positive

\* The registers below r are those of t up to k, and of the next second from
\* there.
Taken(d, r, t, k) ==
  \A g \in Fields : g < r => d[g] = Digit(IF g < k THEN t ELSE t + 1, g)

\* A reading that the chip's tick cuts in two is not behind.
LEMMA TornReading ==
  ASSUME NEW t \in Nat, t + 1 \in Moments, NEW d \in [Fields -> Nat],
         NEW k \in Fields, Taken(d, F + 1, t, k)
  PROVE  /\ Value(d) >= t
         /\ Value(d) = (t % Weight[k]) + (t + 1) - ((t + 1) % Weight[k])
<1> DEFINE w == Weight[k]
           g == [f \in Fields |->
                  IF f < k THEN t % Span(f)
                  ELSE (t % w) + ((t + 1) % Span(f)) - ((t + 1) % w)]
<1>1. /\ w \in Positive /\ t + 1 \in Nat
      /\ t % w \in Nat /\ (t + 1) % w \in Nat
  <2>1. w \in Positive /\ t + 1 \in Nat
    BY WeightIs
  <2> HIDE DEF w
  <2> QED BY <2>1, DivMod
<1>2. \A f \in Fields : t % Span(f) \in Nat /\ (t + 1) % Span(f) \in Nat
  <2> TAKE f \in Fields
  <2>1. Span(f) \in Positive
    BY SpanIs
  <2> QED BY <1>1, <2>1, DivMod
<1>3. g \in [Fields -> Int]
  BY <1>1, <1>2
<1>4. Sums(g, d)
  <2> SUFFICES ASSUME NEW f \in Fields
               PROVE  g[f] = d[f] * Weight[f] + (IF f = 1 THEN 0 ELSE g[f - 1])
    BY DEF Sums
  <2>0. f \in Nat /\ k \in Nat /\ f < F + 1 /\ Weight[f] \in Nat
        /\ f >= 1 /\ (f # 1 => f - 1 \in Fields) /\ k >= 1
    <3>1. Weight[f] \in Nat
      BY WeightIs DEF Positive
    <3>2. F \in Nat
      BY BasesType
    <3> HIDE DEF g
    <3> QED BY <3>1, <3>2 DEF Fields
  <2> DEFINE u == IF f < k THEN t ELSE t + 1
  <2>1. u \in Nat /\ d[f] = Digit(u, f) /\ d[f] \in Nat
    BY <1>1, <2>0 DEF Taken
  <2>2. u % Span(f) = Weight[f] * d[f] + (u % Weight[f])
    BY <2>1, DigitIs
  <2>3. Weight[f] * d[f] = d[f] * Weight[f] /\ d[f] * Weight[f] \in Nat
    BY <2>0, <2>1, Times
  <2>4. u % Weight[f] = IF f = 1 THEN 0 ELSE u % Span(f - 1)
    <3>1. CASE f = 1
      <4>1. Weight[f] = 1
        BY <3>1, SpanIs
      <4> QED BY <2>1, <3>1, <4>1
    <3>2. CASE f # 1
      BY <3>2, SpanIs
    <3> QED BY <3>1, <3>2
  <2>5. CASE f < k
    <3>1. g[f] = t % Span(f) /\ u = t
      BY <2>5
    <3>2. f # 1 => g[f - 1] = t % Span(f - 1)
      BY <2>0, <2>5
    <3> HIDE DEF g, u, w
    <3> QED BY <2>2, <2>3, <2>4, <3>1, <3>2
  <2>6. CASE f = k
    <3>1. /\ g[f] = (t % w) + ((t + 1) % Span(f)) - ((t + 1) % w)
          /\ u = t + 1 /\ w = Weight[f]
      BY <2>0, <2>6
    <3>2. f # 1 => g[f - 1] = t % Span(f - 1) /\ w = Span(f - 1)
      BY <2>0, <2>6, SpanIs
    <3>3. f = 1 => t % w = 0
      <4>1. f = 1 => w = 1
        BY <2>6, SpanIs
      <4> QED BY <4>1
    <3>4. (t + 1) % Span(f) \in Nat
      BY <1>2
    <3> HIDE DEF g, u, w
    <3> QED BY <1>1, <2>2, <2>3, <3>1, <3>2, <3>3, <3>4
  <2>7. CASE f > k
    <3>1. /\ g[f] = (t % w) + ((t + 1) % Span(f)) - ((t + 1) % w)
          /\ u = t + 1 /\ f # 1
      BY <2>0, <2>7
    <3>2. g[f - 1] = (t % w) + ((t + 1) % Span(f - 1)) - ((t + 1) % w)
      BY <2>0, <2>7
    <3>3. (t + 1) % Span(f) \in Nat /\ (t + 1) % Span(f - 1) \in Nat
      BY <1>2, <2>0, <3>1
    <3> HIDE DEF g, u, w
    <3> QED BY <1>1, <2>2, <2>3, <2>4, <3>1, <3>2, <3>3
  <2> QED BY <2>0, <2>5, <2>6, <2>7
<1>5. g[F] = (t % w) + (t + 1) - ((t + 1) % w)
  <2>1. F \in Fields /\ ~(F < k)
    BY BasesType DEF Fields
  <2> QED BY <2>1, MomentsAre
<1>6. (t + 1) % w <= (t % w) + 1
  BY <1>1, NextSecond
<1> HIDE DEF g
<1>7. Value(d) = g[F]
  BY <1>3, <1>4, ValueIs
<1>8. Value(d) = (t % w) + (t + 1) - ((t + 1) % w)
  BY <1>5, <1>7
<1>9. Value(d) >= t
  <2> HIDE DEF w
  <2> QED BY <1>1, <1>6, <1>8
<1> QED BY <1>8, <1>9

\* Nor does it tell of an hour that is over for a second that is not in the
\* window.
LEMMA TornHour ==
  ASSUME NEW t \in Nat, Digit(t, Secs) < HourWindow, Digit(t + 1, Mins) = 0
  PROVE  InWindow(t)
<1> DEFINE b == Bases[Secs]
<1>1. /\ b \in Positive /\ HourWindow \in 1 .. b - 1 /\ b \in Nat
      /\ Weight[Secs] = 1 /\ Weight[Mins] = b
  <2>1. Weight[Mins] = 1 * b /\ b \in Nat
    <3>1. Mins # 1 /\ Mins - 1 = Secs
      BY DEF Mins, Secs
    <3> QED BY <3>1, WeightIs, BasesType DEF Secs
  <2> QED BY <2>1, WeightIs, BasesType DEF Secs, Positive
<1> HIDE DEF b
<1>2. Digit(t, Secs) = t % b
  BY <1>1 DEF Digit, b
<1>3. t % b < b - 1
  <2>1. t % b \in 0 .. b - 1
    BY <1>1, DivMod
  <2> QED BY <1>1, <1>2, <2>1
<1>4. (t + 1) \div b = t \div b
  BY <1>1, <1>3, NextSecond
<1>5. Digit(t, Mins) = 0
  BY <1>1, <1>4 DEF Digit
<1> QED BY <1>5 DEF InWindow
-----------------------------------------------------------------------------
(* BCD *)

\* Two digits go through BCD and back unchanged, in a byte.
LEMMA BcdIs ==
  ASSUME NEW n \in 0 .. 99
  PROVE  FromBcd(Bcd(n)) = n /\ Bcd(n) \in 0 .. 255
<1>1. /\ n \div 10 \in 0 .. 9 /\ n % 10 \in 0 .. 9
      /\ n = 10 * (n \div 10) + (n % 10)
  OBVIOUS
<1> DEFINE q == n \div 10
           r == n % 10
<1> HIDE DEF q, r
<1>2. (q * 16 + r) \div 16 = q /\ (q * 16 + r) % 16 = r
  BY <1>1 DEF q, r
<1> QED BY <1>1, <1>2 DEF Bcd, FromBcd, q, r

\* Registers in BCD, each within its base.
Good(c) ==
  /\ c \in [Fields -> 0 .. 255]
  /\ \A f \in Fields : /\ FromBcd(c[f]) \in 0 .. Bases[f] - 1
                       /\ Bcd(FromBcd(c[f])) = c[f]

\* The time that registers in BCD show.
Shown(c) == Value([f \in Fields |-> FromBcd(c[f])])

\* So does every digit of a moment.
LEMMA DigitBcd ==
  ASSUME NEW t \in Nat, NEW f \in Fields
  PROVE  /\ FromBcd(Bcd(Digit(t, f))) = Digit(t, f)
         /\ Digit(t, f) \in 0 .. Bases[f] - 1 /\ Bcd(Digit(t, f)) \in 0 .. 255
<1>1. Digit(t, f) \in 0 .. Bases[f] - 1 /\ Bases[f] \in 2 .. 100
  BY DigitIs, BasesType
<1>2. Digit(t, f) \in 0 .. 99
  BY <1>1
<1> QED BY <1>1, <1>2, BcdIs

\* The chip set to a moment shows it.
LEMMA ChipShows ==
  ASSUME NEW t \in Moments
  PROVE  Good(Chip(t)) /\ Shown(Chip(t)) = t
<1>0. t \in Nat
  BY MomentsAre
<1>1. [f \in Fields |-> FromBcd(Chip(t)[f])] = Digits(t)
  BY <1>0, DigitBcd DEF Chip, Digits
<1>2. Good(Chip(t))
  BY <1>0, DigitBcd DEF Good, Chip
<1> QED BY <1>1, <1>2, ValueOfDigits DEF Shown

\* A chip with such registers shows some moment, digit by digit.
LEMMA GoodShows ==
  ASSUME NEW c, Good(c)
  PROVE  /\ Shown(c) \in Moments /\ Chip(Shown(c)) = c
         /\ \A f \in Fields : FromBcd(c[f]) = Digit(Shown(c), f)
<1> DEFINE d == [f \in Fields |-> FromBcd(c[f])]
<1>1. InRange(d)
  <2>1. \A f \in Fields :
          FromBcd(c[f]) \in 0 .. Bases[f] - 1 /\ Bases[f] \in Nat
    BY BasesType DEF Good
  <2> QED BY <2>1 DEF InRange
<1>2. Value(d) \in Moments /\ Digits(Value(d)) = d
  <2> HIDE DEF d
  <2> QED BY <1>1, DigitsOfValue
<1>3. \A f \in Fields : FromBcd(c[f]) = Digit(Shown(c), f)
  BY <1>2 DEF Shown, Digits
<1>4. Chip(Shown(c)) = c
  BY <1>3 DEF Chip, Good
<1> QED BY <1>2, <1>3, <1>4 DEF Shown
-----------------------------------------------------------------------------
(* The invariant *)

\* The variables, with the registers in their ranges.
Types ==
  /\ Good(chip) /\ InRange(tm)
  /\ stamp \in Moments /\ target \in Moments /\ began \in Moments
  /\ reading \in 0 .. F + 1 /\ setting \in 0 .. F
  /\ fresh \in BOOLEAN /\ hour \in BOOLEAN
  /\ ticked \in BOOLEAN /\ mixed \in BOOLEAN
  /\ sets \in 0 .. 1

\* A read that no set has overlapped: it has what the chip showed before its
\* tick and, from some register on, after it.
ReadPart ==
  ~mixed /\ reading # 0 =>
    /\ setting = 0
    /\ IF ticked THEN /\ Now = began + 1 /\ began < Top
                      /\ \E k \in 1 .. reading : Taken(tm, reading, began, k)
                 ELSE Now = began /\ Taken(tm, reading, began, reading)

\* A set that has written the seconds, and only such a one: the chip waits, with
\* the digits so far.
SetPart ==
  /\ fresh <=> setting > 1
  /\ setting > 1 =>
       \A g \in Fields : g < setting => FromBcd(chip[g]) = Digit(target, g)

ClockInv == Types /\ ReadPart /\ SetPart /\ NeverBehind /\ HourMarkTrue

\* The chip shows a moment.
LEMMA NowIs ==
  Good(chip) => /\ Now \in Moments /\ Now \in Nat /\ Chip(Now) = chip
                /\ \A f \in Fields : FromBcd(chip[f]) = Digit(Now, f)
<1>1. Now = Shown(chip)
  BY DEF Now, Shown
<1> QED BY <1>1, GoodShows, MomentsAre

\* Registers in their ranges give the type invariant.
LEMMA TypesImply == Types => ClockType
<1> SUFFICES ASSUME Types PROVE ClockType
  OBVIOUS
<1>1. Chip(Now) = chip /\ chip \in [Fields -> 0 .. 255]
  BY NowIs DEF Types, Good
<1>2. Digits(Value(tm)) = tm /\ tm \in [Fields -> Nat]
  <2>1. InRange(tm)
    BY DEF Types
  <2> QED BY <2>1, DigitsOfValue DEF InRange
<1> QED BY <1>1, <1>2 DEF Types, ClockType

\* The digits of a moment are in range.
LEMMA DigitsInRange == \A t \in Moments : InRange(Digits(t))
<1> TAKE t \in Moments
<1>1. t \in Nat
  BY MomentsAre
<1>2. ASSUME NEW f \in Fields
      PROVE  Digit(t, f) \in 0 .. Bases[f] - 1 /\ Bases[f] \in Nat
  <2>1. Digit(t, f) \in 0 .. Bases[f] - 1
    BY <1>1, DigitIs
  <2>2. Bases[f] \in 2 .. 100
    BY BasesType
  <2> QED BY <2>1, <2>2
<1> QED BY <1>2 DEF InRange, Digits

\* The invariant holds when the module starts.
LEMMA InitInv == ClockInit => ClockInv
<1> SUFFICES ASSUME ClockInit PROVE ClockInv
  OBVIOUS
<1>1. PICK t \in Moments :
        chip = Chip(t) /\ tm = Digits(t) /\ stamp = t /\ began = t
  BY DEF ClockInit
<1>2. 0 \in Moments /\ F \in Nat
  BY MomentsAre, BasesType DEF Moments
<1>3. Types
  <2>1. Good(chip) /\ InRange(tm)
    BY <1>1, ChipShows, DigitsInRange
  <2>2. /\ reading = 0 /\ setting = 0 /\ target = 0 /\ fresh = FALSE
        /\ hour = FALSE /\ ticked = FALSE /\ mixed = FALSE /\ sets \in {0, 1}
    BY DEF ClockInit
  <2>3. stamp \in Moments /\ began \in Moments
    BY <1>1
  <2>4. /\ fresh \in BOOLEAN /\ hour \in BOOLEAN
        /\ ticked \in BOOLEAN /\ mixed \in BOOLEAN
    BY <2>2
  <2>5. /\ reading \in 0 .. F + 1 /\ setting \in 0 .. F
        /\ target \in Moments /\ sets \in 0 .. 1
    BY <1>2, <2>2
  <2> QED BY <2>1, <2>3, <2>4, <2>5 DEF Types
<1>4. ReadPart /\ SetPart
  BY DEF ClockInit, ReadPart, SetPart
<1>5. NeverBehind
  <2>1. t \in Nat
    BY MomentsAre
  <2> QED BY <1>1, <2>1 DEF NeverBehind
<1>6. HourMarkTrue
  BY DEF ClockInit, HourMarkTrue
<1> QED BY <1>3, <1>4, <1>5, <1>6 DEF ClockInv

\* The tick takes the chip to the next second, once at most while it is read.
LEMMA TickInv ==
  ASSUME ClockInv, ChipTicks PROVE ClockInv' /\ Now' = Now + 1
<1>1. /\ Now < Top /\ (reading # 0 => ~ticked) /\ ~fresh
      /\ chip' = Chip(Now + 1) /\ ticked' = TRUE
      /\ UNCHANGED <<fresh, tm, stamp, reading, setting, target, hour, sets,
                     began, mixed>>
  BY DEF ChipTicks
<1>2. Types
  BY DEF ClockInv
<1>3. Now \in Moments /\ Now \in Nat
  BY <1>2, NowIs DEF Types
<1>4. Now + 1 \in Moments
  BY <1>1, <1>3, MomentsAre DEF Moments
<1>5. Good(chip') /\ Now' = Now + 1
  <2>1. Now' = Shown(chip')
    BY DEF Now, Shown
  <2> QED BY <1>1, <1>4, <2>1, ChipShows
<1>6. Types'
  BY <1>1, <1>2, <1>5 DEF Types
<1>7. ReadPart'
  <2> SUFFICES ASSUME ~mixed, reading # 0
               PROVE  /\ setting = 0 /\ Now' = began + 1 /\ began < Top
                      /\ \E k \in 1 .. reading : Taken(tm, reading, began, k)
    BY <1>1 DEF ReadPart, Taken
  <2>1. setting = 0 /\ Now = began /\ Taken(tm, reading, began, reading)
    BY <1>1 DEF ClockInv, ReadPart
  <2>2. reading \in 1 .. reading
    BY <1>2 DEF Types
  <2> QED BY <1>1, <1>5, <2>1, <2>2
<1>8. SetPart'
  BY <1>1 DEF ClockInv, SetPart
<1>9. NeverBehind' /\ HourMarkTrue'
  BY <1>1 DEF ClockInv, NeverBehind, HourMarkTrue, Read, InWindow
<1> QED BY <1>5, <1>6, <1>7, <1>8, <1>9 DEF ClockInv

\* get_rtctime begins with nothing read.
LEMMA BeginInv == ASSUME ClockInv, ReadBegins PROVE ClockInv'
<1>1. /\ reading = 0 /\ ~hour /\ reading' = Secs
      /\ began' = Now /\ ticked' = FALSE /\ mixed' = (setting # 0)
      /\ UNCHANGED <<chip, fresh, tm, stamp, setting, target, hour, sets>>
  BY DEF ReadBegins
<1>2. Types
  BY DEF ClockInv
<1>3. Now \in Moments /\ Now' = Now
  BY <1>1, <1>2, NowIs DEF Types, Now
<1>4. Types'
  <2>1. mixed' \in BOOLEAN
    BY <1>1
  <2>2. reading' \in 0 .. F + 1
    BY <1>1, BasesType DEF Secs
  <2> QED BY <1>1, <1>2, <1>3, <2>1, <2>2 DEF Types
<1>5. ReadPart'
  <2>1. Taken(tm, Secs, Now, Secs)
    BY BasesType DEF Taken, Secs, Fields
  <2> QED BY <1>1, <1>3, <2>1 DEF ReadPart
<1>6. SetPart'
  BY <1>1 DEF ClockInv, SetPart
<1>7. NeverBehind' /\ HourMarkTrue'
  BY <1>1 DEF NeverBehind, HourMarkTrue, Read, Secs
<1> QED BY <1>4, <1>5, <1>6, <1>7 DEF ClockInv

\* A register read is of the second the chip shows: of the first if it has not
\* ticked, of the next if it has.
LEMMA ReadbyteInv == ASSUME ClockInv, Readbyte PROVE ClockInv'
<1>1. /\ reading \in Fields /\ reading' = reading + 1
      /\ tm' = [tm EXCEPT ![reading] = FromBcd(chip[reading])]
      /\ UNCHANGED <<chip, fresh, stamp, setting, target, hour, sets, began,
                     ticked, mixed>>
  BY DEF Readbyte
<1>2. Types
  BY DEF ClockInv
<1>3. Now' = Now /\ FromBcd(chip[reading]) = Digit(Now, reading)
  BY <1>1, <1>2, NowIs DEF Types, Now
<1>4. reading \in Nat /\ reading >= 1 /\ reading <= F /\ F \in Nat
  BY <1>1, BasesType DEF Fields
<1>5. Types'
  <2>1. InRange(tm')
    <3>1. FromBcd(chip[reading]) \in 0 .. Bases[reading] - 1
          /\ Bases[reading] \in Nat
      BY <1>1, <1>2, BasesType DEF Types, Good
    <3> QED BY <1>1, <1>2, <3>1 DEF Types, InRange
  <2>2. reading' \in 0 .. F + 1
    BY <1>1, <1>4
  <2> QED BY <1>1, <1>2, <2>1, <2>2 DEF Types
<1>6. ReadPart'
  <2> SUFFICES ASSUME ~mixed
               PROVE  /\ setting = 0
                      /\ IF ticked
                           THEN /\ Now = began + 1 /\ began < Top
                                /\ \E k \in 1 .. reading + 1 :
                                     Taken(tm', reading + 1, began, k)
                           ELSE /\ Now = began
                                /\ Taken(tm', reading + 1, began, reading + 1)
    BY <1>1, <1>3 DEF ReadPart, Taken
  <2>1. /\ setting = 0
        /\ IF ticked THEN /\ Now = began + 1 /\ began < Top
                          /\ \E k \in 1 .. reading :
                               Taken(tm, reading, began, k)
                     ELSE Now = began /\ Taken(tm, reading, began, reading)
    BY <1>4 DEF ClockInv, ReadPart
  <2>2. /\ tm'[reading] = Digit(Now, reading)
        /\ \A g \in Fields : g < reading => tm'[g] = tm[g]
        /\ \A g \in Fields :
             g \in Nat /\ (g < reading + 1 => g < reading \/ g = reading)
    <3>1. tm \in [Fields -> Nat]
      BY <1>2 DEF Types, InRange
    <3> QED BY <1>1, <1>3, <1>4, <3>1, BasesType DEF Fields
  <2>3. CASE ticked
    <3>1. PICK k \in 1 .. reading : Taken(tm, reading, began, k)
      BY <2>1, <2>3
    <3>2. /\ Now = began + 1 /\ began < Top
          /\ ~(reading < k) /\ k \in 1 .. reading + 1
      BY <1>4, <2>1, <2>3
    <3>3. Taken(tm', reading + 1, began, k)
      BY <2>2, <3>1, <3>2 DEF Taken
    <3> QED BY <2>1, <2>3, <3>2, <3>3
  <2>4. CASE ~ticked
    <3>1. Taken(tm', reading + 1, began, reading + 1)
      BY <1>4, <2>1, <2>2, <2>4 DEF Taken
    <3> QED BY <2>1, <2>4, <3>1
  <2> QED BY <2>3, <2>4
<1>7. SetPart'
  BY <1>1 DEF ClockInv, SetPart
<1>8. NeverBehind' /\ HourMarkTrue'
  BY <1>1, <1>4 DEF NeverBehind, HourMarkTrue, Read
<1> QED BY <1>5, <1>6, <1>7, <1>8 DEF ClockInv

\* mktime and the mark, of a reading that may be torn.
LEMMA EndsInv == ASSUME ClockInv, ReadEnds PROVE ClockInv'
<1>1. /\ reading = F + 1 /\ stamp' = Value(tm) /\ hour' = HourIsOver(tm)
      /\ reading' = 0
      /\ UNCHANGED <<chip, fresh, tm, setting, target, sets, began, ticked,
                     mixed>>
  BY DEF ReadEnds
<1>2. Types
  BY DEF ClockInv
<1>3. Value(tm) \in Moments /\ F \in Nat /\ tm \in [Fields -> Nat]
  BY <1>2, DigitsOfValue, BasesType DEF Types, InRange
<1>4. Types'
  <2>1. hour' \in BOOLEAN
    BY <1>1 DEF HourIsOver
  <2>2. reading' \in 0 .. F + 1
    BY <1>1, <1>3
  <2> QED BY <1>1, <1>2, <1>3, <2>1, <2>2 DEF Types
<1>5. ReadPart' /\ SetPart'
  BY <1>1 DEF ClockInv, ReadPart, SetPart
<1>6. ASSUME ~mixed
      PROVE  /\ stamp' >= began /\ (~ticked => stamp' = began)
             /\ hour' => InWindow(began) \/ (ticked /\ InWindow(began + 1))
  <2>0. reading # 0 /\ began \in Moments /\ began \in Nat
    BY <1>1, <1>2, <1>3, MomentsAre DEF Types
  <2>1. Secs \in Fields /\ Mins \in Fields /\ Secs = 1 /\ Mins = 2
        /\ \A g \in Fields : g \in Nat /\ g < F + 1
    BY BasesType DEF Fields, Secs, Mins
  <2>2. CASE ticked
    <3>1. /\ began < Top
          /\ \E k \in 1 .. reading : Taken(tm, reading, began, k)
      BY <1>6, <2>0, <2>2 DEF ClockInv, ReadPart
    <3>2. PICK k \in 1 .. F + 1 : Taken(tm, F + 1, began, k)
      BY <1>1, <3>1
    <3>3. began + 1 \in Moments
      BY <2>0, <3>1, MomentsAre DEF Moments
    <3>4. Value(tm) >= began
      <4>1. CASE k \in Fields
        BY <1>3, <2>0, <3>2, <3>3, <4>1, TornReading
      <4>2. CASE k = F + 1
        <5>1. tm = Digits(began)
          BY <1>3, <2>1, <3>2, <4>2 DEF Taken, Digits
        <5> QED BY <2>0, <5>1, ValueOfDigits
      <4> QED BY <3>2, <4>1, <4>2, <1>3 DEF Fields
    <3>5. ASSUME HourIsOver(tm)
          PROVE  InWindow(began) \/ InWindow(began + 1)
      <4>1. tm[Mins] = 0 /\ tm[Secs] < HourWindow
        BY <3>5 DEF HourIsOver
      <4>2. /\ tm[Secs] = Digit(IF Secs < k THEN began ELSE began + 1, Secs)
            /\ tm[Mins] = Digit(IF Mins < k THEN began ELSE began + 1, Mins)
        BY <2>1, <3>2 DEF Taken
      <4>3. CASE Mins < k
        <5>1. Secs < k
          BY <2>1, <4>3
        <5> QED BY <4>1, <4>2, <4>3, <5>1 DEF InWindow
      <4>4. CASE ~(Mins < k) /\ Secs < k
        BY <2>0, <4>1, <4>2, <4>4, TornHour
      <4>5. CASE ~(Mins < k) /\ ~(Secs < k)
        BY <4>1, <4>2, <4>5 DEF InWindow
      <4> QED BY <4>3, <4>4, <4>5
    <3> QED BY <1>1, <2>2, <3>4, <3>5
  <2>3. CASE ~ticked
    <3>1. Taken(tm, F + 1, began, F + 1)
      BY <1>1, <1>6, <2>0, <2>3 DEF ClockInv, ReadPart
    <3>2. tm = Digits(began)
      BY <1>3, <2>1, <3>1 DEF Taken, Digits
    <3>3. Value(tm) = began
      BY <2>0, <3>2, ValueOfDigits
    <3>4. HourIsOver(tm) => InWindow(began)
      BY <2>1, <3>2 DEF HourIsOver, InWindow, Digits
    <3> QED BY <1>1, <2>0, <2>3, <3>3, <3>4
  <2> QED BY <2>2, <2>3
<1>7. NeverBehind' /\ HourMarkTrue'
  BY <1>1, <1>6 DEF NeverBehind, HourMarkTrue, Read, InWindow
<1> QED BY <1>4, <1>5, <1>7 DEF ClockInv

\* SetCurTime starts a set, which no read is proof against.
LEMMA ToldInv ==
  ASSUME ClockInv, NEW t \in Targets, SetCurTime(t) PROVE ClockInv'
<1>1. /\ setting = 0 /\ sets > 0 /\ sets' = sets - 1
      /\ stamp' = t /\ tm' = Digits(t)
      /\ target' = t /\ setting' = Secs /\ mixed' = TRUE
      /\ UNCHANGED <<chip, fresh, reading, hour, began, ticked>>
  BY DEF SetCurTime
<1>2. Types
  BY DEF ClockInv
<1>3. t \in Moments /\ InRange(Digits(t))
  BY TargetAssumption, DigitsInRange
<1>4. Types'
  <2>1. setting' \in 0 .. F /\ sets' \in 0 .. 1
    BY <1>1, <1>2, BasesType DEF Types, Secs
  <2> QED BY <1>1, <1>2, <1>3, <2>1 DEF Types
<1>5. ReadPart' /\ NeverBehind' /\ HourMarkTrue'
  BY <1>1 DEF ReadPart, NeverBehind, HourMarkTrue, Read
<1>6. SetPart'
  <2>1. ~fresh /\ ~fresh' /\ setting' = 1
    BY <1>1 DEF ClockInv, SetPart, Secs
  <2> QED BY <2>1 DEF SetPart
<1> QED BY <1>4, <1>5, <1>6 DEF ClockInv

\* set_rtctime writes the digits one by one, and with the last of them the chip
\* shows the time told.
LEMMA WriteInv ==
  ASSUME ClockInv, Writebyte
  PROVE  ClockInv' /\ (setting = F => Now' = target)
<1>1. /\ setting # 0
      /\ chip' = [chip EXCEPT ![setting] = Bcd(Digit(target, setting))]
      /\ setting' = IF setting = F THEN 0 ELSE setting + 1
      /\ fresh' = (setting # F /\ (setting = Secs \/ fresh))
      /\ mixed' = TRUE
      /\ UNCHANGED <<tm, stamp, reading, target, hour, sets, began, ticked>>
  BY DEF Writebyte, Write
<1>2. Types
  BY DEF ClockInv
<1>3. setting \in Fields /\ F \in Nat /\ target \in Moments /\ target \in Nat
      /\ setting \in Nat /\ setting <= F
  BY <1>1, <1>2, BasesType, MomentsAre DEF Types, Fields
<1>4. /\ Good(chip')
      /\ FromBcd(chip'[setting]) = Digit(target, setting)
      /\ \A g \in Fields : g # setting => chip'[g] = chip[g]
  <2>1. chip \in [Fields -> 0 .. 255]
    BY <1>2 DEF Types, Good
  <2>2. chip'[setting] = Bcd(Digit(target, setting))
        /\ \A g \in Fields : g # setting => chip'[g] = chip[g]
    BY <1>1, <1>3, <2>1
  <2>3. chip' \in [Fields -> 0 .. 255]
    BY <1>1, <1>3, <2>1, DigitBcd
  <2>4. ASSUME NEW f \in Fields
        PROVE  /\ FromBcd(chip'[f]) \in 0 .. Bases[f] - 1
               /\ Bcd(FromBcd(chip'[f])) = chip'[f]
    <3>1. CASE f = setting
      BY <1>3, <2>2, <3>1, DigitBcd
    <3>2. CASE f # setting
      BY <1>2, <2>2, <3>2 DEF Types, Good
    <3> QED BY <3>1, <3>2
  <2>5. FromBcd(chip'[setting]) = Digit(target, setting)
    BY <1>3, <2>2, DigitBcd
  <2> QED BY <2>2, <2>3, <2>4, <2>5 DEF Good
<1>5. Types'
  <2>1. setting' \in 0 .. F
    BY <1>1, <1>3
  <2>2. fresh' \in BOOLEAN /\ mixed' \in BOOLEAN
    BY <1>1
  <2> QED BY <1>1, <1>2, <1>4, <2>1, <2>2 DEF Types
<1>6. \A g \in Fields : g < setting + 1 => FromBcd(chip'[g]) = Digit(target, g)
  <2> SUFFICES ASSUME NEW g \in Fields, g < setting + 1
               PROVE  FromBcd(chip'[g]) = Digit(target, g)
    OBVIOUS
  <2>1. CASE g = setting
    BY <1>4, <2>1
  <2>2. CASE g # setting
    <3>1. g \in Nat /\ g >= 1 /\ g < setting
      BY <1>3, <2>2, BasesType DEF Fields
    <3>2. FromBcd(chip[g]) = Digit(target, g)
      BY <1>3, <3>1 DEF ClockInv, SetPart
    <3> QED BY <1>4, <2>2, <3>2
  <2> QED BY <2>1, <2>2
<1>7. SetPart'
  <2>0. fresh' <=> setting # F /\ (setting = Secs \/ fresh)
    BY <1>1, Zenon
  <2>1. CASE setting = F
    <3>1. ~fresh' /\ setting' = 0
      BY <1>1, <2>0, <2>1
    <3> QED BY <3>1 DEF SetPart
  <2>2. CASE setting # F
    <3>1. setting = Secs \/ fresh
      BY <1>1, <1>3 DEF ClockInv, SetPart, Secs
    <3>2. fresh' /\ setting' = setting + 1 /\ setting + 1 > 1
      BY <1>1, <1>3, <2>0, <2>2, <3>1, BasesType DEF Fields
    <3> QED BY <1>1, <1>6, <3>2 DEF SetPart
  <2> QED BY <2>1, <2>2
<1>8. ReadPart' /\ NeverBehind' /\ HourMarkTrue'
  BY <1>1 DEF ReadPart, NeverBehind, HourMarkTrue, Read
<1>9. ASSUME setting = F PROVE Now' = target
  <2>1. \A g \in Fields : FromBcd(chip'[g]) = Digit(target, g)
    BY <1>3, <1>6, <1>9, BasesType DEF Fields
  <2>2. Now' = Value(Digits(target))
    BY <2>1 DEF Now, Digits
  <2> QED BY <1>3, <2>2, ValueOfDigits
<1> QED BY <1>5, <1>7, <1>8, <1>9 DEF ClockInv

\* The mark taken away, or nothing.
LEMMA MarkInv ==
  ASSUME ClockInv, HourTaken \/ UNCHANGED clockVars PROVE ClockInv'
<1>1. /\ hour' = FALSE \/ hour' = hour
      /\ UNCHANGED <<chip, fresh, tm, stamp, reading, setting, target, sets,
                     began, ticked, mixed>>
  BY DEF HourTaken, clockVars
<1>2. Now' = Now
  BY <1>1 DEF Now
<1>3. Types'
  BY <1>1 DEF ClockInv, Types
<1>4. ReadPart' /\ SetPart'
  BY <1>1, <1>2 DEF ClockInv, ReadPart, SetPart, Taken
<1>5. NeverBehind' /\ HourMarkTrue'
  BY <1>1 DEF ClockInv, NeverBehind, HourMarkTrue, Read, InWindow
<1> QED BY <1>3, <1>4, <1>5 DEF ClockInv

\* Every step keeps the invariant, and a set that ends has taken.
LEMMA ClockStep ==
  ASSUME ClockInv, [ClockNext]_clockVars
  PROVE  ClockInv' /\ (setting = F /\ setting' = 0 => Now' = target)
<1>1. CASE Writebyte
  BY <1>1, WriteInv
<1>2. ASSUME NEW t \in Targets, SetCurTime(t)
      PROVE  ClockInv' /\ (setting = F /\ setting' = 0 => Now' = target)
  <2>1. setting = 0 /\ F # 0
    BY <1>2, BasesType DEF SetCurTime
  <2> QED BY <1>2, <2>1, ToldInv
<1>3. CASE ChipTicks \/ ReadBegins \/ Readbyte \/ ReadEnds \/ HourTaken
           \/ UNCHANGED clockVars
  <2>1. ClockInv'
    BY <1>3, TickInv, BeginInv, ReadbyteInv, EndsInv, MarkInv
  <2>2. setting' = setting /\ F # 0
    BY <1>3, BasesType
       DEF ChipTicks, ReadBegins, Readbyte, ReadEnds, HourTaken, clockVars
  <2> QED BY <2>1, <2>2
<1> QED BY <1>1, <1>2, <1>3 DEF ClockNext

\* So the invariant always holds.
LEMMA ClockInvariance == ClockSpec => []ClockInv
<1>1. ClockInv /\ [ClockNext]_clockVars => ClockInv'
  BY ClockStep
<1> QED BY <1>1, InitInv, PTL DEF ClockSpec
-----------------------------------------------------------------------------
\* The registers stay BCD digits of a moment (num2hex and the atoi of Readbyte
\* undo each other), also between two writes of set_rtctime, and what
\* get_rtctime puts into NowTimeTm is always the digits of a moment, however the
\* chip carries while it is read or the UDP thread writes in between.
THEOREM ClockTypeCorrect == ClockSpec => []ClockType
<1>1. ClockInv => ClockType
  BY TypesImply DEF ClockInv
<1> QED BY <1>1, ClockInvariance, PTL

\* get_rtctime reads the seconds first: a reading the chip's carry cuts in two
\* is never behind the time at which it began, and exact if the chip did not
\* tick, as long as no set overlaps it.
THEOREM ReadingNeverBehind == ClockSpec => []NeverBehind
<1>1. ClockInv => NeverBehind
  BY DEF ClockInv
<1> QED BY <1>1, ClockInvariance, PTL

\* SysTime_GetTime marks the hour only of a second within the window after the
\* full hour, also from a reading that the chip's carry cuts in two.
THEOREM HourMarkedInWindow == ClockSpec => []HourMarkTrue
<1>1. ClockInv => HourMarkTrue
  BY DEF ClockInv
<1> QED BY <1>1, ClockInvariance, PTL

\* set_rtctime writes the seconds first, so the chip that runs meanwhile shows
\* the time told when the last register is written, for any registers.
THEOREM TimeToldIsSet == ClockSpec => SetTakes
<1>1. ClockInv /\ [ClockNext]_clockVars
        => [setting = F /\ setting' = 0 => Now' = target]_clockVars
  BY ClockStep
<1> QED BY <1>1, ClockInvariance, PTL DEF ClockSpec, SetTakes
-----------------------------------------------------------------------------
(* A reading that marks the hour *)

\* Products of three.
LEMMA Spread ==
  ASSUME NEW b \in Nat, NEW m \in Nat \ {0}, NEW q \in Nat
  PROVE  /\ (b * m) * q = b * (m * q) /\ m * q \in Nat /\ (b * m) * q \in Nat
         /\ b * (m * q + (m - 1)) = (b * m) * q + b * m - b
<1>1. m * q \in Nat /\ b * m \in Nat
  OBVIOUS
<1>2. (b * m) * q = b * (m * q)
  OBVIOUS
<1>3. (b * m) * q \in Nat
  BY <1>1
<1>4. b * (m * q + (m - 1)) = b * (m * q) + b * m - b
  <2> DEFINE x == m * q
  <2>1. x \in Nat
    BY <1>1
  <2> HIDE DEF x
  <2>2. b * (x + (m - 1)) = b * x + b * m - b
    BY <2>1
  <2> QED BY <2>2 DEF x
<1> QED BY <1>1, <1>2, <1>3, <1>4

\* With the seconds of the window read first, no carry is under way: the chip
\* is at the end of no register but perhaps before the first.
LEMMA CarryNeedsEnd ==
  ASSUME NEW t \in Nat, NEW d, NEW k \in Fields, Taken(d, F + 1, t, k),
         HourIsOver(d), t % Weight[k] = Weight[k] - 1
  PROVE  Weight[k] = 1
<1> DEFINE b == Bases[Secs]
           S == {f \in Fields : f = 1 \/ \E m \in Positive : Weight[f] = b * m}
<1>1. b \in Positive /\ HourWindow \in 1 .. b - 1 /\ F \in Nat
      /\ Secs \in Fields /\ Weight[Secs] = 1 /\ Weight[1] = 1 /\ Secs = 1
  BY BasesType, WeightIs DEF Positive, Secs
<1> HIDE DEF b
<1>2. S = Fields
  <2>1. 1 \in S
    BY <1>1
  <2>2. ASSUME NEW f \in Fields, f - 1 \in S PROVE f \in S
    <3>0. f - 1 \in Fields /\ f # 1
      BY <2>2, BasesType DEF Fields
    <3>1. /\ f # 1 /\ Weight[f] = Weight[f - 1] * Bases[f - 1]
          /\ Bases[f - 1] \in Positive /\ Weight[f - 1] \in Positive
      <4> HIDE DEF S
      <4>1. Bases[f - 1] \in 2 .. 100
        BY <3>0, BasesType
      <4> QED BY <3>0, <4>1, WeightIs DEF Positive
    <3>2. CASE f - 1 = 1
      BY <1>1, <3>1, <3>2 DEF b, Positive
    <3>3. CASE f - 1 # 1
      <4>1. PICK m \in Positive : Weight[f - 1] = b * m
        BY <2>2, <3>3
      <4>2. Weight[f] = b * (m * Bases[f - 1])
        BY <1>1, <3>1, <4>1, Spread DEF Positive
      <4>3. m * Bases[f - 1] \in Positive
        BY <3>1, <4>1, ModProduct DEF Positive
      <4> QED BY <4>2, <4>3
    <3> QED BY <3>2, <3>3
  <2> HIDE DEF S
  <2>3. S \in SUBSET Fields
    BY DEF S
  <2> QED BY <2>1, <2>2, <2>3, FieldInduction
<1>3. CASE k = 1
  BY <1>1, <1>3
<1>4. CASE k # 1
  <2>1. PICK m \in Positive : Weight[k] = b * m
    BY <1>2, <1>4
  <2> DEFINE w == Weight[k]
             q == t \div w
  <2>2. w \in Positive /\ q \in Nat /\ t = w * q + (t % w)
    BY DivMod, WeightIs
  <2>3. t = b * (m * q + (m - 1)) + (b - 1) /\ m * q + (m - 1) \in Nat
    <3> HIDE DEF q
    <3>1. w = b * m /\ t = w * q + (w - 1)
      BY <2>1, <2>2
    <3>2. b * (m * q + (m - 1)) = (b * m) * q + b * m - b
          /\ m * q \in Nat /\ (b * m) * q \in Nat
      BY <1>1, <2>1, <2>2, Spread DEF Positive
    <3> HIDE DEF w
    <3>3. m * q + (m - 1) \in Nat
      BY <2>1, <3>2 DEF Positive
    <3>4. b * m \in Nat
      BY <1>1, <2>1 DEF Positive
    <3>5. t = (b * m) * q + (b * m - 1)
      BY <3>1
    <3> QED BY <1>1, <3>2, <3>3, <3>4, <3>5 DEF Positive
  <2>4. t % b = b - 1
    <3>1. b - 1 \in 0 .. b - 1
      BY <1>1 DEF Positive
    <3> QED BY <1>1, <2>3, <3>1, DivModIs
  <2>5. d[Secs] = Digit(t, Secs) /\ d[Secs] < HourWindow
    <3>1. Secs < k /\ Secs < F + 1
      <4> HIDE DEF S
      <4>1. k \in Nat /\ k >= 1 /\ k <= F
        BY <1>1 DEF Fields
      <4> QED BY <1>1, <1>4, <4>1
    <3> QED BY <1>1, <3>1 DEF Taken, HourIsOver
  <2>6. Digit(t, Secs) = t % b
    BY <1>1 DEF Digit, b
  <2> HIDE DEF S
  <2> QED BY <1>1, <2>4, <2>5, <2>6 DEF Positive
<1> QED BY <1>3, <1>4

\* A reading that marks the hour is not torn: the chip has carried into none of
\* the registers, if it has ticked at all.
LEMMA MarkedReading ==
  ASSUME ClockInv, ReadEnds, ~mixed, hour'
  PROVE  /\ InWindow(stamp') /\ stamp' \in Nat
         /\ stamp' <= Now /\ Now <= stamp' + 1
<1>1. /\ reading = F + 1 /\ stamp' = Value(tm) /\ HourIsOver(tm)
      /\ F \in Nat /\ reading # 0
  BY BasesType DEF ReadEnds
<1>2. InRange(tm) /\ began \in Moments /\ began \in Nat
  BY MomentsAre DEF ClockInv, Types
<1>3. stamp' \in Moments /\ stamp' \in Nat /\ Digits(stamp') = tm
  BY <1>1, <1>2, DigitsOfValue, MomentsAre
<1>4. InWindow(stamp')
  <2>1. tm[Mins] = Digit(stamp', Mins) /\ tm[Secs] = Digit(stamp', Secs)
    BY <1>3, BasesType DEF Digits
  <2> QED BY <1>1, <2>1 DEF InWindow, HourIsOver
<1>5. CASE ~ticked
  <2>1. Taken(tm, F + 1, began, F + 1) /\ Now = began
    BY <1>1, <1>5 DEF ClockInv, ReadPart
  <2>2. tm = Digits(began)
    <3>1. \A g \in Fields : g < F + 1
      BY <1>1 DEF Fields
    <3> QED BY <1>2, <2>1, <3>1 DEF Taken, Digits, InRange
  <2> QED BY <1>1, <1>2, <1>4, <2>1, <2>2, ValueOfDigits
<1>6. CASE ticked
  <2>1. PICK k \in 1 .. F + 1 : Taken(tm, F + 1, began, k)
    BY <1>1, <1>6 DEF ClockInv, ReadPart
  <2>2. Now = began + 1 /\ began < Top /\ began + 1 \in Moments
    BY <1>1, <1>2, <1>6, MomentsAre DEF ClockInv, ReadPart, Moments
  <2>3. CASE k = F + 1
    <3>1. tm = Digits(began)
      <4>1. \A g \in Fields : g < F + 1
        BY <1>1 DEF Fields
      <4> QED BY <1>2, <2>1, <2>3, <4>1 DEF Taken, Digits, InRange
    <3> QED BY <1>1, <1>2, <1>4, <2>2, <3>1, ValueOfDigits
  <2>4. CASE k \in Fields
    <3> DEFINE w == Weight[k]
    <3>1. stamp' = (began % w) + (began + 1) - ((began + 1) % w)
      BY <1>1, <1>2, <2>1, <2>2, <2>4, TornReading DEF InRange
    <3>2. w \in Positive /\ began % w \in 0 .. w - 1
      BY <1>2, <2>4, WeightIs, DivMod
    <3>3. (began + 1) % w = IF began % w = w - 1 THEN 0 ELSE (began % w) + 1
      BY <1>2, <3>2, NextSecond
    <3>4. began % w = w - 1 => w = 1
      BY <1>1, <1>2, <2>1, <2>4, CarryNeedsEnd
    <3> HIDE DEF w
    <3> QED BY <1>2, <1>4, <2>2, <3>1, <3>2, <3>3, <3>4 DEF Positive
  <2> QED BY <1>1, <2>3, <2>4 DEF Fields
<1> QED BY <1>5, <1>6
-----------------------------------------------------------------------------
(* The clock that is promised *)

\* The seconds and the times a torn reading gives are the moments.
LEMMA WallTimes ==
  /\ Wall!Times = Moments
  /\ \A t \in Moments :
       Wall!Torn(t) = {t, t + 1} \cup
                      {u \in Moments : u >= t /\ ~InWindow(u)}
<1>1. Wall!Times = Moments
  BY DEF Wall!Times, Moments
<1>2. ASSUME NEW t \in Moments
      PROVE  Wall!Torn(t) = {t, t + 1} \cup
                            {u \in Moments : u >= t /\ ~InWindow(u)}
  <2>1. t \in Nat /\ Top \in Nat
    BY MomentsAre
  <2>2. \A u : u \in t .. Top <=> u \in Moments /\ u >= t
    BY <2>1 DEF Moments
  <2> QED BY <2>2 DEF Wall!Torn
<1> QED BY <1>1, <1>2

\* What a reading under way may give.
LEMMA MayReadIs ==
  ASSUME Types
  PROVE  /\ reading = 0 <=> MayRead = {}
         /\ reading # 0 /\ mixed => MayRead = Moments
         /\ reading # 0 /\ ~mixed /\ ticked => MayRead = Wall!Torn(began)
         /\ reading # 0 /\ ~mixed /\ ~ticked => MayRead = {began}
<1>1. began \in Moments /\ 0 \in Moments
  BY MomentsAre DEF Types, Moments
<1>2. Wall!Torn(began) = {began, began + 1} \cup
                         {u \in Moments : u >= began /\ ~InWindow(u)}
  BY <1>1, WallTimes
<1> QED BY <1>1, <1>2 DEF MayRead

\* The next state's.
LEMMA MayReadNext ==
  ASSUME Types'
  PROVE  /\ reading' = 0 <=> MayRead' = {}
         /\ reading' # 0 /\ mixed' => MayRead' = Moments
         /\ reading' # 0 /\ ~mixed' /\ ticked' => MayRead' = Wall!Torn(began')
         /\ reading' # 0 /\ ~mixed' /\ ~ticked' => MayRead' = {began'}
<1>1. began' \in Moments /\ 0 \in Moments
  BY MomentsAre DEF Types, Moments
<1>2. Wall!Torn(began') = {began', began' + 1} \cup
                          {u \in Moments : u >= began' /\ ~InWindow(u)}
  BY <1>1, WallTimes
<1> QED BY <1>1, <1>2 DEF MayRead, InWindow

\* The module starts with its clock right and nothing under way.
LEMMA InitMaps == ClockInit => Wall!WallInit
<1> SUFFICES ASSUME ClockInit PROVE Wall!WallInit
  OBVIOUS
<1>1. PICK t \in Moments :
        chip = Chip(t) /\ tm = Digits(t) /\ stamp = t /\ began = t
  BY DEF ClockInit
<1>2. Now = t
  BY <1>1, ChipShows DEF Now, Shown
<1>3. setting = 0 /\ reading = 0 /\ target = 0 /\ hour = FALSE
  BY DEF ClockInit
<1>4. TimeIs = t /\ SetIs = "done" /\ MayRead = {}
  BY <1>2, <1>3 DEF TimeIs, SetIs, MayRead, Secs
<1> QED BY <1>1, <1>3, <1>4, WallTimes DEF Wall!WallInit

\* The chip ticks when no set has its seconds written.
LEMMA TickMaps == ASSUME ClockInv, ChipTicks PROVE Wall!SecondPasses
<1>1. /\ Now < Top /\ (reading # 0 => ~ticked) /\ ~fresh /\ ticked'
      /\ UNCHANGED <<stamp, reading, setting, target, hour, began, mixed>>
  BY DEF ChipTicks
<1>2. Types /\ Types' /\ Now' = Now + 1
  BY TickInv DEF ClockInv
<1>3. Now \in Moments /\ Now \in Nat /\ Now + 1 \in Moments
  <2>1. Now \in Moments /\ Now \in Nat
    BY <1>2, NowIs DEF Types
  <2> QED BY <1>1, <2>1, MomentsAre DEF Moments
<1>4. ~(setting > 1)
  BY <1>1 DEF ClockInv, SetPart
<1>5. TimeIs = Now /\ TimeIs' = Now + 1 /\ SetIs # "taking" /\ SetIs' = SetIs
  <2>1. setting \in Nat /\ (setting = 0 \/ setting = 1)
    BY <1>2, <1>4, BasesType DEF Types
  <2> QED BY <1>1, <1>2, <2>1 DEF TimeIs, SetIs, Secs
<1>6. MayRead' = IF MayRead = {Now} THEN Wall!Torn(Now) ELSE MayRead
  <2>1. CASE reading = 0
    BY <1>1, <1>2, <2>1, MayReadIs, MayReadNext
  <2>2. CASE reading # 0 /\ mixed
    <3>1. MayRead = Moments /\ MayRead' = Moments
      BY <1>1, <1>2, <2>2, MayReadIs, MayReadNext
    <3>2. Moments # {Now}
      BY <1>3
    <3> QED BY <3>1, <3>2
  <2>3. CASE reading # 0 /\ ~mixed
    <3>1. began = Now
      BY <1>1, <2>3 DEF ClockInv, ReadPart
    <3>2. MayRead = {began} /\ MayRead' = Wall!Torn(began)
      BY <1>1, <1>2, <2>3, MayReadIs, MayReadNext
    <3> QED BY <3>1, <3>2
  <2> QED BY <2>1, <2>2, <2>3
<1> QED BY <1>1, <1>5, <1>6 DEF Wall!SecondPasses

\* get_rtctime begins: exact, as long as no set is under way and nothing ticks.
LEMMA BeginMaps == ASSUME ClockInv, ReadBegins PROVE Wall!ReadBegins
<1>1. /\ reading = 0 /\ ~hour /\ reading' # 0
      /\ began' = Now /\ ~ticked' /\ (mixed' <=> setting # 0)
      /\ UNCHANGED <<chip, stamp, setting, target, hour>>
  <2>1. mixed' <=> setting # 0
    BY Zenon DEF ReadBegins
  <2> QED BY <2>1 DEF ReadBegins, Secs
<1>2. Types /\ Types' /\ setting \in Nat
  BY BeginInv, BasesType DEF ClockInv, Types
<1>3. UNCHANGED <<TimeIs, SetIs>>
  BY <1>1 DEF TimeIs, SetIs, Now
<1>4. MayRead = {}
  BY <1>1, <1>2, MayReadIs
<1>5. MayRead' = IF SetIs = "done" THEN {TimeIs} ELSE Wall!Times
  <2>1. CASE setting = 0
    <3>1. SetIs = "done" /\ TimeIs = Now
      BY <2>1 DEF SetIs, TimeIs, Secs
    <3> QED BY <1>1, <1>2, <2>1, <3>1, MayReadNext
  <2>2. CASE setting # 0
    <3>1. SetIs # "done"
      BY <2>2 DEF SetIs
    <3> QED BY <1>1, <1>2, <2>2, <3>1, MayReadNext, WallTimes
  <2> QED BY <2>1, <2>2
<1> QED BY <1>1, <1>3, <1>4, <1>5 DEF Wall!ReadBegins

\* A register read is no step of the clock.
LEMMA ReadbyteMaps == ASSUME ClockInv, Readbyte PROVE UNCHANGED Wall!wallVars
<1>1. /\ reading # 0 /\ reading' # 0
      /\ UNCHANGED <<chip, stamp, setting, target, hour, began, ticked, mixed>>
  <2>1. reading \in Fields /\ reading' = reading + 1
    BY DEF Readbyte
  <2>2. reading # 0 /\ reading + 1 # 0
    BY <2>1 DEF Fields
  <2> QED BY <2>1, <2>2 DEF Readbyte
<1>2. UNCHANGED <<TimeIs, SetIs>>
  BY <1>1 DEF TimeIs, SetIs, Now
<1>3. Types /\ Types'
  BY ReadbyteInv DEF ClockInv
<1>4. MayRead' = MayRead
  BY <1>1, <1>3, MayReadIs, MayReadNext
<1> QED BY <1>1, <1>2, <1>4 DEF Wall!wallVars

\* What the registers sum up to is a time the reading may give, and the hour is
\* marked of it.
LEMMA EndMaps == ASSUME ClockInv, ReadEnds PROVE Wall!ReadEnds
<1>1. /\ reading = F + 1 /\ reading # 0 /\ reading' = 0
      /\ stamp' = Value(tm) /\ hour' = HourIsOver(tm)
      /\ UNCHANGED <<chip, setting, target, began, ticked, mixed>>
  BY BasesType DEF ReadEnds
<1>2. Types /\ Types' /\ NeverBehind'
  BY EndsInv DEF ClockInv
<1>3. UNCHANGED <<TimeIs, SetIs>>
  BY <1>1 DEF TimeIs, SetIs, Now
<1>4. MayRead # {} /\ MayRead' = {}
  BY <1>1, <1>2, MayReadIs, MayReadNext
<1>5. /\ stamp' \in Moments /\ stamp' \in Nat /\ (hour' <=> InWindow(stamp'))
      /\ began \in Moments /\ began \in Nat
  <2>1. Value(tm) \in Moments /\ Digits(Value(tm)) = tm
    BY <1>2, DigitsOfValue DEF Types
  <2>2. tm[Mins] = Digit(Value(tm), Mins) /\ tm[Secs] = Digit(Value(tm), Secs)
    BY <2>1, BasesType DEF Digits
  <2>3. HourIsOver(tm) <=> InWindow(Value(tm))
    BY <2>2 DEF HourIsOver, InWindow
  <2> QED BY <1>1, <1>2, <2>1, <2>3, MomentsAre DEF Types
<1>6. stamp' \in MayRead
  <2>1. CASE mixed
    BY <1>1, <1>2, <1>5, <2>1, MayReadIs
  <2>2. CASE ~mixed /\ ~ticked
    <3>1. stamp' = began
      BY <1>1, <1>2, <2>2 DEF NeverBehind, Read
    <3> QED BY <1>1, <1>2, <2>2, <3>1, MayReadIs
  <2>3. CASE ~mixed /\ ticked
    <3>1. MayRead = {began, began + 1} \cup
                    {u \in Moments : u >= began /\ ~InWindow(u)}
      BY <1>1, <1>2, <1>5, <2>3, MayReadIs, WallTimes
    <3>2. CASE hour'
      <4>1. stamp' <= Now /\ Now <= stamp' + 1 /\ Now = began + 1
        BY <1>1, <2>3, <3>2, MarkedReading DEF ClockInv, ReadPart
      <4>2. stamp' = began \/ stamp' = began + 1
        <5> DEFINE t == stamp'
        <5>1. t \in Nat /\ t <= began + 1 /\ began + 1 <= t + 1
          BY <1>5, <4>1
        <5> HIDE DEF t
        <5>2. t = began \/ t = began + 1
          BY <1>5, <5>1
        <5> QED BY <5>2 DEF t
      <4> QED BY <3>1, <4>2
    <3>3. CASE ~hour'
      <4>1. stamp' >= began
        BY <1>1, <1>2, <2>3 DEF NeverBehind, Read
      <4> QED BY <1>5, <3>1, <3>3, <4>1
    <3> QED BY <3>2, <3>3
  <2> QED BY <2>1, <2>2, <2>3
<1>7. hour' = (stamp' \in {t \in Moments : InWindow(t)})
  BY <1>2, <1>5 DEF Types
<1> QED BY <1>1, <1>3, <1>4, <1>6, <1>7 DEF Wall!ReadEnds

\* SetCurTime: no reading under way is any good.
LEMMA ToldMaps ==
  ASSUME ClockInv, NEW t \in Targets, SetCurTime(t) PROVE Wall!IsTold(t)
<1>1. /\ setting = 0 /\ setting' = Secs /\ Secs = 1
      /\ stamp' = t /\ target' = t /\ mixed'
      /\ UNCHANGED <<chip, reading, hour>>
  BY DEF SetCurTime, Secs
<1>2. Types /\ Types'
  BY ToldInv DEF ClockInv
<1>3. /\ SetIs = "done" /\ SetIs' = "told" /\ TimeIs' = TimeIs
  BY <1>1 DEF SetIs, TimeIs, Now
<1>4. MayRead' = IF MayRead = {} THEN {} ELSE Wall!Times
  BY <1>1, <1>2, MayReadIs, MayReadNext, WallTimes
<1> QED BY <1>1, <1>3, <1>4 DEF Wall!IsTold

\* set_rtctime: the first register sets the clock, the last ends the set.
LEMMA WriteMaps ==
  ASSUME ClockInv, Writebyte
  PROVE  Wall!Takes \/ Wall!IsSet \/ UNCHANGED Wall!wallVars
<1>1. /\ setting # 0 /\ setting' = IF setting = F THEN 0 ELSE setting + 1
      /\ mixed' /\ UNCHANGED <<stamp, reading, target, hour>>
  BY DEF Writebyte, Write
<1>2. Types /\ Types' /\ (setting = F => Now' = target)
  BY WriteInv DEF ClockInv
<1>3. setting \in 1 .. F /\ F \in Nat /\ F >= 2 /\ Secs = 1
  BY <1>1, <1>2, BasesType DEF Types, Secs
<1>4. MayRead' = MayRead
  <2>1. reading # 0 => mixed
    BY <1>1 DEF ClockInv, ReadPart
  <2> QED BY <1>1, <1>2, <2>1, MayReadIs, MayReadNext
<1>5. CASE setting = 1
  <2>1. setting' = 2
    BY <1>1, <1>3, <1>5
  <2>2. SetIs = "told" /\ SetIs' = "taking" /\ TimeIs' = target
    BY <1>1, <1>3, <1>5, <2>1 DEF SetIs, TimeIs
  <2> QED BY <1>1, <1>4, <2>2 DEF Wall!Takes
<1>6. CASE setting = F
  <2>1. setting' = 0 /\ setting > 1
    BY <1>1, <1>3, <1>6
  <2>2. SetIs = "taking" /\ SetIs' = "done" /\ TimeIs = target
    BY <1>3, <2>1 DEF SetIs, TimeIs
  <2>3. TimeIs' = target
    BY <1>2, <1>3, <1>6, <2>1 DEF TimeIs
  <2> QED BY <1>1, <1>4, <2>2, <2>3 DEF Wall!IsSet
<1>7. CASE setting # 1 /\ setting # F
  <2>1. setting > 1 /\ setting' > 1
    BY <1>1, <1>3, <1>7
  <2>2. SetIs' = SetIs /\ TimeIs' = TimeIs
    BY <1>1, <1>3, <2>1 DEF SetIs, TimeIs
  <2> QED BY <1>1, <1>4, <2>2 DEF Wall!wallVars
<1> QED BY <1>5, <1>6, <1>7

\* The mark taken away is no more than that, and nothing is nothing.
LEMMA TakenMaps ==
  /\ HourTaken => Wall!HourTaken
  /\ UNCHANGED clockVars => UNCHANGED Wall!wallVars
<1>1. ASSUME UNCHANGED <<chip, stamp, reading, setting, target, began, ticked,
                         mixed>>
      PROVE  UNCHANGED <<TimeIs, SetIs, MayRead, target, stamp>>
  BY <1>1 DEF TimeIs, SetIs, MayRead, Now, InWindow
<1>2. reading = 0 => MayRead = {}
  BY DEF MayRead
<1>3. HourTaken => Wall!HourTaken
  BY <1>1, <1>2 DEF HourTaken, Wall!HourTaken
<1>4. UNCHANGED clockVars => UNCHANGED Wall!wallVars
  BY <1>1 DEF clockVars, Wall!wallVars
<1> QED BY <1>3, <1>4

\* Every step of the registers is one of the clock, or none.
LEMMA ClockStepMaps ==
  ASSUME ClockInv, [ClockNext]_clockVars PROVE [Wall!WallNext]_(Wall!wallVars)
<1>1. CASE HourTaken \/ UNCHANGED clockVars
  BY <1>1, TakenMaps DEF Wall!WallNext
<1>2. CASE ChipTicks
  BY <1>2, TickMaps DEF Wall!WallNext
<1>3. CASE ReadBegins
  BY <1>3, BeginMaps DEF Wall!WallNext
<1>4. CASE Readbyte
  BY <1>4, ReadbyteMaps
<1>5. CASE ReadEnds
  BY <1>5, EndMaps DEF Wall!WallNext
<1>6. ASSUME NEW t \in Targets, SetCurTime(t) PROVE Wall!WallNext
  BY <1>6, ToldMaps DEF Wall!WallNext
<1>7. CASE Writebyte
  BY <1>7, WriteMaps DEF Wall!WallNext
<1> QED BY <1>1, <1>2, <1>3, <1>4, <1>5, <1>6, <1>7 DEF ClockNext

\* get_rtctime and set_rtctime, a register at a time under a chip that runs, are
\* a clock that is read and set at once: a time told is the chip's from the
\* first register written, a reading gives the second it began in, the next or
\* a later one that marks no hour, and the mark is that of the time read.
THEOREM ClockKeepsWallTime == ClockSpec => ClockIsWallClock
<1>1. ClockInv /\ [ClockNext]_clockVars => [Wall!WallNext]_(Wall!wallVars)
  BY ClockStepMaps
<1> QED BY <1>1, InitMaps, ClockInvariance, PTL
        DEF ClockSpec, ClockIsWallClock, Wall!WallSpec
=============================================================================
