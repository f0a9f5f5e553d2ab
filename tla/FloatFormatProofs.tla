-------------------------- MODULE FloatFormatProofs --------------------------
(***************************************************************************)
(* The laws of the floats of FloatFormat, for every number of digits and   *)
(* every range: powers of two, division with remainder, how far floats are *)
(* from one another and what rounding does; from these, what becomes of a  *)
(* float to which a step is added, and which place of a buffer lies some   *)
(* delay behind another.                                                   *)
(***************************************************************************)
EXTENDS FloatFormat, WellFoundedInduction, TLAPS

(* Powers of two *)

Exponent == 0 .. Precision + MaxExponent

Less == {p \in Nat \X Nat : p[1] < p[2]}

\* Sets of naturals have a least element: what stands for induction here.
LEMMA Least ==
  ASSUME NEW T \in SUBSET Nat, T # {}
  PROVE  \E x \in T : \A y \in T : x <= y
<1>1. IsWellFoundedOn(Less, Nat)
  BY NatLessThanWellFounded, Zenon DEF OpToRel, Less
<1>2. PICK x \in T : \A y \in T : ~(<<y, x>> \in Less)
  BY <1>1, WFMin
<1>3. \A y \in T : ~(y < x)
  BY <1>2 DEF Less
<1> QED BY <1>3

\* g is the table of the powers up to 2^n.
IsTable(g, n) ==
  g \in [0 .. n -> Nat \ {0}] /\ \A k \in 0 .. n : g[k] = IF k = 0 THEN 1 ELSE 2 * g[k - 1]

\* A table of the powers exists up to any length: a least length without one
\* would extend the table before it.
LEMMA TableExists ==
  ASSUME NEW n \in Nat
  PROVE  \E g : IsTable(g, n)
<1> DEFINE T == {k \in Nat : ~\E g : IsTable(g, k)}
<1>1. SUFFICES ASSUME T # {} PROVE FALSE
  OBVIOUS
<1>2. PICK x \in T : \A y \in T : x <= y
  BY <1>1, Least
<1>3. CASE x = 0
  <2>1. IsTable([k \in 0 .. 0 |-> 1], 0)
    BY DEF IsTable
  <2> QED BY <1>3, <2>1
<1>4. CASE x # 0
  <2>1. x - 1 \in Nat /\ x - 1 \notin T
    BY <1>2, <1>4
  <2>2. PICK g : IsTable(g, x - 1)
    BY <2>1
  <2> DEFINE h == [k \in 0 .. x |-> IF k = x THEN 2 * g[x - 1] ELSE g[k]]
  <2>3. h \in [0 .. x -> Nat \ {0}]
    BY <1>4, <2>2 DEF IsTable
  <2>4. ASSUME NEW k \in 0 .. x
        PROVE  h[k] = IF k = 0 THEN 1 ELSE 2 * h[k - 1]
    <3>1. CASE k = x
      BY <1>4, <3>1
    <3>2. CASE k # x
      BY <1>4, <2>2, <3>2 DEF IsTable
    <3> QED BY <3>1, <3>2
  <2>5. IsTable(h, x)
    BY <2>3, <2>4 DEF IsTable
  <2> QED BY <2>5
<1> QED BY <1>3, <1>4

\* What the definition of Power says of it.
LEMMA PowerIs ==
  /\ Power \in [Exponent -> Nat \ {0}]
  /\ Power[0] = 1
  /\ \A n \in Exponent : n # 0 => n - 1 \in Exponent /\ Power[n] = 2 * Power[n - 1]
<1> DEFINE N == Precision + MaxExponent
<1>1. N \in Nat
  BY FloatAssumption
<1> HIDE DEF N
<1>2. PICK g : IsTable(g, N)
  BY <1>1, TableExists
<1>3. g = [n \in 0 .. N |-> IF n = 0 THEN 1 ELSE 2 * g[n - 1]]
  BY <1>2 DEF IsTable
<1>4. Power = [n \in 0 .. N |-> IF n = 0 THEN 1 ELSE 2 * Power[n - 1]]
  BY <1>3, Zenon DEF Power, N
<1>5. \A n \in 0 .. N : Power[n] = IF n = 0 THEN 1 ELSE 2 * Power[n - 1]
  BY <1>4
<1>6. ASSUME NEW n \in 0 .. N
      PROVE  Power[n] \in Nat \ {0}
  <2> DEFINE T == {k \in 0 .. N : Power[k] \notin Nat \ {0}}
  <2>1. SUFFICES ASSUME T # {} PROVE FALSE
    OBVIOUS
  <2>2. PICK x \in T : \A y \in T : x <= y
    <3>1. T \in SUBSET Nat
      BY <1>1
    <3> QED BY <2>1, <3>1, Least
  <2>3. x # 0
    BY <1>1, <1>5
  <2>4. x - 1 \in 0 .. N /\ x - 1 \notin T
    BY <2>2, <2>3, <1>1
  <2> QED BY <1>1, <1>5, <2>3, <2>4
<1>7. Power \in [0 .. N -> Nat \ {0}]
  BY <1>4, <1>6
<1>8. \A n \in 0 .. N : n # 0 => n - 1 \in 0 .. N
  BY <1>1
<1>9. 0 \in 0 .. N
  BY <1>1
<1>10. Power[0] = 1 /\ \A n \in 0 .. N : n # 0 => Power[n] = 2 * Power[n - 1]
  BY <1>5, <1>9
<1> QED BY <1>7, <1>8, <1>10 DEF Exponent, N

\* 2^(d + e) is 2^d * 2^e.
LEMMA PowerLaw ==
  ASSUME NEW d \in Exponent, NEW e \in Exponent, d + e \in Exponent
  PROVE  Power[d + e] = Power[d] * Power[e]
<1> DEFINE T == {k \in Exponent : d + k \in Exponent /\ Power[d + k] # Power[d] * Power[k]}
<1>1. SUFFICES ASSUME T # {} PROVE FALSE
  OBVIOUS
<1>2. Exponent \subseteq Nat /\ \A k \in Exponent : Power[k] \in Nat \ {0}
  BY PowerIs, FloatAssumption DEF Exponent
<1>3. PICK x \in T : \A y \in T : x <= y
  BY <1>1, <1>2, Least
<1>4. x # 0
  BY <1>2, PowerIs
<1>5. /\ x \in Nat /\ x - 1 \in Exponent /\ d + (x - 1) \in Exponent /\ x - 1 < x
      /\ d + x \in Exponent /\ d + x # 0 /\ (d + x) - 1 = d + (x - 1)
  BY <1>2, <1>4, FloatAssumption DEF Exponent
<1>6. Power[d + (x - 1)] = Power[d] * Power[x - 1]
  BY <1>3, <1>5
<1>7. Power[d + x] = 2 * Power[d + (x - 1)] /\ Power[x] = 2 * Power[x - 1]
  BY <1>4, <1>5, PowerIs
<1>8. Power[d + x] = Power[d] * Power[x]
  <2> DEFINE a == Power[d]
             b == Power[x - 1]
  <2>1. a \in Nat /\ b \in Nat
    BY <1>2, <1>5
  <2>2. Power[d + x] = 2 * (a * b) /\ Power[x] = 2 * b
    BY <1>6, <1>7
  <2> HIDE DEF a, b
  <2>3. 2 * (a * b) = a * (2 * b)
    BY <2>1
  <2> QED BY <2>2, <2>3 DEF a
<1> QED BY <1>5, <1>8

\* Larger powers are multiples of smaller ones, and as large.
LEMMA PowersDivide ==
  ASSUME NEW d \in Exponent, NEW e \in Exponent, d <= e
  PROVE  /\ \E k \in Nat \ {0} : Power[e] = k * Power[d]
         /\ Power[d] <= Power[e]
<1>1. e - d \in Exponent /\ d + (e - d) = e
  BY FloatAssumption DEF Exponent
<1> DEFINE k == Power[e - d]
           p == Power[d]
<1>2. k \in Nat \ {0} /\ p \in Nat \ {0} /\ Power[e] = p * k
  BY <1>1, PowerIs, PowerLaw
<1> HIDE DEF k, p
<1>3. p * k = k * p /\ p <= k * p
  BY <1>2
<1> QED BY <1>2, <1>3 DEF p

\* And a smaller one is less by half at least.
LEMMA PowersGrow ==
  ASSUME NEW d \in Exponent, NEW e \in Exponent, d < e
  PROVE  2 * Power[d] <= Power[e]
<1>1. d + 1 \in Exponent /\ d + 1 # 0 /\ d + 1 <= e /\ (d + 1) - 1 = d
  BY FloatAssumption DEF Exponent
<1>2. Power[d + 1] = 2 * Power[d]
  BY <1>1, PowerIs
<1> QED BY <1>1, <1>2, PowersDivide

-----------------------------------------------------------------------------
(* Division *)

\* Division with remainder, with a positive divisor.
LEMMA DivMod ==
  ASSUME NEW x \in Int, NEW s \in Nat \ {0}
  PROVE  /\ x \div s \in Int /\ x % s \in Int
         /\ x = (x \div s) * s + (x % s) /\ 0 <= x % s /\ x % s < s
BY SMT

\* Quotient and remainder are the only ones.
LEMMA DivUnique ==
  ASSUME NEW x \in Int, NEW s \in Nat \ {0}, NEW q \in Int, NEW r \in Int,
         x = q * s + r, 0 <= r, r < s
  PROVE  x \div s = q /\ x % s = r
<1> DEFINE p == x \div s
           t == x % s
<1>1. p \in Int /\ t \in Int /\ x = p * s + t /\ 0 <= t /\ t < s
  BY DivMod
<1> HIDE DEF p, t
<1>2. (p - q) * s = r - t
  BY <1>1
<1>3. p - q <= 0 /\ p - q >= 0
  BY <1>1, <1>2
<1>4. p = q
  BY <1>1, <1>3
<1> QED BY <1>1, <1>4 DEF p, t

-----------------------------------------------------------------------------
(* Rounding *)

\* The numbers whose neighbours the format distinguishes.
InRange(x) == x \in Int /\ Magnitude(x) < Power[Precision + MaxExponent]

IsExponent(x, e) ==
  /\ e \in 0 .. MaxExponent
  /\ Magnitude(x) < Power[e + Precision]
  /\ e = 0 \/ Magnitude(x) >= Power[e - 1 + Precision]

\* The distance between floats near x is the least power that leaves x no more
\* than Precision digits.
LEMMA StepIs ==
  ASSUME NEW x, InRange(x)
  PROVE  \E e : IsExponent(x, e) /\ Step(x) = Power[e] /\ e \in Exponent
<1> DEFINE T == {e \in 0 .. MaxExponent : Magnitude(x) < Power[e + Precision]}
<1>1. MaxExponent \in T
  <2>1. MaxExponent + Precision = Precision + MaxExponent /\ MaxExponent \in 0 .. MaxExponent
    BY FloatAssumption
  <2> QED BY <2>1 DEF InRange
<1>2. T \in SUBSET Nat
  BY FloatAssumption
<1>3. PICK e \in T : \A f \in T : e <= f
  BY <1>1, <1>2, Least
<1>4. e = 0 \/ Magnitude(x) >= Power[e - 1 + Precision]
  <2>1. CASE e # 0
    <3>1. e - 1 \in 0 .. MaxExponent /\ e - 1 \notin T
      BY <1>3, <2>1, FloatAssumption
    <3>2. ~(Magnitude(x) < Power[e - 1 + Precision])
      BY <3>1
    <3>3. Magnitude(x) \in Int
      BY DEF InRange, Magnitude
    <3>4. e - 1 + Precision \in Exponent
      BY <3>1, FloatAssumption DEF Exponent
    <3>5. Power[e - 1 + Precision] \in Int
      BY <3>4, PowerIs
    <3> QED BY <3>2, <3>3, <3>5
  <2> QED BY <2>1
<1>5. IsExponent(x, e)
  BY <1>3, <1>4 DEF IsExponent
<1> DEFINE chosen == CHOOSE f \in 0 .. MaxExponent :
                       /\ Magnitude(x) < Power[f + Precision]
                       /\ f = 0 \/ Magnitude(x) >= Power[f - 1 + Precision]
<1>6. IsExponent(x, chosen)
  BY <1>5 DEF IsExponent
<1>7. Step(x) = Power[chosen]
  BY DEF Step
<1>8. chosen \in Exponent
  BY <1>6, FloatAssumption DEF IsExponent, Exponent
<1> QED BY <1>6, <1>7, <1>8

\* Floats are as close to one another around a smaller number: the steps of
\* a larger one are whole steps of it.
LEMMA StepsDivide ==
  ASSUME NEW x, NEW y, InRange(x), InRange(y), Magnitude(x) <= Magnitude(y)
  PROVE  /\ Step(x) \in Nat \ {0} /\ Step(y) \in Nat \ {0}
         /\ Step(x) <= Step(y)
         /\ \E k \in Nat \ {0} : Step(y) = k * Step(x)
<1>1. PICK e : IsExponent(x, e) /\ Step(x) = Power[e] /\ e \in Exponent
  BY StepIs
<1>2. PICK f : IsExponent(y, f) /\ Step(y) = Power[f] /\ f \in Exponent
  BY StepIs
<1>3. Magnitude(x) \in Int /\ Magnitude(y) \in Int
  BY DEF InRange, Magnitude
<1>4. e \in Nat /\ f \in Nat
  BY <1>1, <1>2, FloatAssumption DEF Exponent
<1>5. e <= f
  <2>1. CASE f < e
    <3>1. /\ e - 1 + Precision \in Exponent /\ f + Precision \in Exponent
          /\ f + Precision <= e - 1 + Precision
      BY <1>1, <1>2, <2>1, FloatAssumption DEF IsExponent, Exponent
    <3>2. Power[f + Precision] <= Power[e - 1 + Precision]
      BY <3>1, PowersDivide
    <3>3. Magnitude(x) >= Power[e - 1 + Precision] /\ Magnitude(y) < Power[f + Precision]
      BY <1>1, <1>2, <1>4, <2>1 DEF IsExponent
    <3>4. Power[f + Precision] \in Int /\ Power[e - 1 + Precision] \in Int
      BY <3>1, PowerIs
    <3> QED BY <1>3, <3>2, <3>3, <3>4
  <2> QED BY <1>4, <2>1
<1> QED BY <1>1, <1>2, <1>5, PowersDivide, PowerIs

\* A result is one of the two floats around it, the nearer one.
LEMMA Rounding ==
  ASSUME NEW x, InRange(x)
  PROVE  /\ Step(x) \in Nat \ {0}
         /\ \E q \in Int : LET s == Step(x) IN
              /\ q * s <= x /\ x < (q + 1) * s
              /\ Round(x) \in {q * s, (q + 1) * s}
              /\ x = q * s => Round(x) = x
              /\ 2 * Magnitude(Round(x) - x) <= s
<1> DEFINE s == Step(x)
           q == x \div s
           r == x % s
<1>1. s \in Nat \ {0}
  BY StepsDivide DEF InRange, Magnitude
<1>2. Round(x) = (IF 2 * r > s \/ (2 * r = s /\ q % 2 = 1) THEN q + 1 ELSE q) * s
  BY DEF Round
<1>3. x \in Int
  BY DEF InRange
<1> HIDE DEF s
<1>4. q \in Int /\ r \in Int /\ x = q * s + r /\ 0 <= r /\ r < s
  BY <1>1, <1>3, DivMod
<1> HIDE DEF q, r
<1> DEFINE low == q * s
<1>5. low \in Int /\ (q + 1) * s = low + s
  BY <1>1, <1>4
<1>6. Round(x) = IF 2 * r > s \/ (2 * r = s /\ q % 2 = 1) THEN low + s ELSE low
  BY <1>2, <1>5
<1> HIDE DEF low
<1>7. /\ x = low + r
      /\ low <= x /\ x < low + s
      /\ Round(x) \in {low, low + s}
      /\ x = low => Round(x) = x
  BY <1>1, <1>3, <1>4, <1>5, <1>6 DEF low
<1>8. 2 * Magnitude(Round(x) - x) <= s
  BY <1>1, <1>4, <1>5, <1>6, <1>7 DEF Magnitude
<1>9. /\ q * s <= x /\ x < (q + 1) * s
      /\ Round(x) \in {q * s, (q + 1) * s}
      /\ x = q * s => Round(x) = x
  BY <1>5, <1>7 DEF low
<1> QED BY <1>1, <1>4, <1>8, <1>9 DEF s

\* Rounding stays on the side of every multiple of the step, and multiples
\* are not rounded.
LEMMA RoundingKeepsOrder ==
  ASSUME NEW x, InRange(x), NEW k \in Int
  PROVE  LET a == k * Step(x) IN
         /\ a \in Int /\ Round(x) \in Int
         /\ a <= x => a <= Round(x)
         /\ x <= a => Round(x) <= a
         /\ x = a => Round(x) = x
         /\ 2 * Magnitude(Round(x) - x) <= Step(x)
<1> DEFINE s == Step(x)
<1>1. PICK q \in Int :
        /\ q * s <= x /\ x < (q + 1) * s
        /\ Round(x) \in {q * s, (q + 1) * s}
        /\ x = q * s => Round(x) = x
        /\ 2 * Magnitude(Round(x) - x) <= s
  BY Rounding
<1>2. s \in Nat \ {0} /\ x \in Int
  BY Rounding DEF InRange
<1> HIDE DEF s
<1>3. k * s \in Int /\ q * s \in Int /\ (q + 1) * s \in Int
  BY <1>2
<1>4. k <= q \/ k >= q + 1
  OBVIOUS
<1>5. k <= q => k * s <= q * s
  BY <1>2
<1>6. k >= q + 1 => k * s >= (q + 1) * s
  BY <1>2
<1>7. q * s < (q + 1) * s
  BY <1>2
<1> DEFINE a == k * s
           b == q * s
           c == (q + 1) * s
<1>8. a \in Int /\ b \in Int /\ c \in Int /\ (a <= b \/ a >= c) /\ b < c
      /\ b <= x /\ x < c /\ Round(x) \in {b, c} /\ (x = b => Round(x) = x)
  BY <1>1, <1>3, <1>4, <1>5, <1>6, <1>7
<1> HIDE DEF a, b, c
<1>9. /\ a \in Int /\ Round(x) \in Int
      /\ a <= x => a <= Round(x)
      /\ x <= a => Round(x) <= a
      /\ x = a => Round(x) = x
  BY <1>2, <1>8
<1> QED BY <1>1, <1>9 DEF a, s

-----------------------------------------------------------------------------
(* Floats, and what is added to them *)

\* Floats are the multiples of the step around them.
LEMMA FloatIs ==
  ASSUME NEW x, InRange(x)
  PROVE  IsFloat(x) <=> \E k \in Int : x = k * Step(x)
<1>1. ASSUME NEW k \in Int, x = k * Step(x)
      PROVE  IsFloat(x)
  BY <1>1, RoundingKeepsOrder DEF IsFloat
<1>2. ASSUME IsFloat(x)
      PROVE  \E k \in Int : x = k * Step(x)
  <2>1. PICK q \in Int : Round(x) \in {q * Step(x), (q + 1) * Step(x)}
    BY Rounding
  <2>2. q + 1 \in Int /\ x \in {q * Step(x), (q + 1) * Step(x)}
    BY <1>2, <2>1 DEF IsFloat
  <2> QED BY <2>2
<1> QED BY <1>1, <1>2

\* Between two powers of two the step is the same; it divides both of them.
LEMMA BinadeIs ==
  ASSUME NEW e \in 0 .. MaxExponent
  PROVE  /\ e \in Exponent /\ e + Precision \in Exponent /\ e - 1 + Precision \in Exponent
         /\ Power[e] \in Nat \ {0} /\ Power[e + Precision] \in Nat \ {0}
         /\ Power[e - 1 + Precision] \in Nat \ {0}
         /\ \E k \in Nat : Power[e + Precision] = k * Power[e]
         /\ \E k \in Nat : Power[e - 1 + Precision] = k * Power[e]
<1>1. /\ e \in Exponent /\ e + Precision \in Exponent /\ e - 1 + Precision \in Exponent
      /\ e <= e + Precision /\ e <= e - 1 + Precision
  BY FloatAssumption DEF Exponent
<1> QED BY <1>1, PowerIs, PowersDivide

\* Multiples of the step around x, up to the next power of two, are floats.
LEMMA MultiplesAreFloats ==
  ASSUME NEW x, NEW e, IsExponent(x, e),
         NEW y \in Nat, InRange(y), y <= Power[e + Precision],
         NEW k \in Int, y = k * Power[e]
  PROVE  IsFloat(y)
<1>1. PICK f : IsExponent(y, f) /\ Step(y) = Power[f] /\ f \in Exponent
  BY StepIs
<1>2. e \in 0 .. MaxExponent /\ f \in 0 .. MaxExponent /\ Magnitude(y) = y
  BY <1>1 DEF IsExponent, Magnitude
<1>3. e \in Nat /\ f \in Nat
  BY <1>2, FloatAssumption
<1>4. f = 0 \/ Power[f - 1 + Precision] <= Power[e + Precision]
  <2>1. f = 0 \/ Power[f - 1 + Precision] <= y
    BY <1>1, <1>2, BinadeIs DEF IsExponent
  <2> QED BY <1>2, <2>1, BinadeIs
<1>5. f <= e + 1
  <2>1. CASE f > e + 1
    <3>1. /\ e + Precision \in Exponent /\ f - 1 + Precision \in Exponent
          /\ e + Precision < f - 1 + Precision
      <4>1. e + Precision \in Exponent /\ f - 1 + Precision \in Exponent
        BY <1>2, BinadeIs
      <4>2. e + Precision < f - 1 + Precision
        BY <1>3, <2>1, FloatAssumption
      <4> QED BY <4>1, <4>2
    <3>2. 2 * Power[e + Precision] <= Power[f - 1 + Precision]
      BY <3>1, PowersGrow
    <3>3. Power[e + Precision] \in Nat \ {0} /\ Power[f - 1 + Precision] \in Nat
      BY <1>2, BinadeIs
    <3> QED BY <1>3, <1>4, <2>1, <3>2, <3>3
  <2> QED BY <1>3, <2>1
<1>6. \E j \in Int : y = j * Power[f]
  <2>1. CASE f <= e
    <3>1. PICK j \in Nat \ {0} : Power[e] = j * Power[f]
      BY <1>1, <1>2, <2>1, BinadeIs, PowersDivide
    <3>2. Power[f] \in Nat
      BY <1>2, BinadeIs
    <3>3. k * (j * Power[f]) = (k * j) * Power[f] /\ k * j \in Int
      BY <3>1, <3>2
    <3> QED BY <3>1, <3>3
  <2>2. CASE f = e + 1
    <3>1. f - 1 + Precision = e + Precision /\ f # 0
      BY <1>3, <2>2, FloatAssumption
    <3>2. Power[f - 1 + Precision] <= y
      BY <1>1, <1>2, <3>1 DEF IsExponent
    <3>3. y = Power[f - 1 + Precision]
      BY <1>2, <3>1, <3>2, BinadeIs
    <3> QED BY <1>2, <3>3, BinadeIs
  <2> QED BY <1>3, <1>5, <2>1, <2>2
<1> QED BY <1>1, <1>6, FloatIs

\* A result that was rounded is a float, and no larger than the next power.
LEMMA RoundIsFloat ==
  ASSUME NEW x \in Nat, InRange(x)
  PROVE  /\ Round(x) \in Nat
         /\ InRange(Round(x)) => IsFloat(Round(x))
<1>1. PICK e : IsExponent(x, e) /\ Step(x) = Power[e] /\ e \in Exponent
  BY StepIs
<1>2. e \in 0 .. MaxExponent /\ Magnitude(x) = x /\ x < Power[e + Precision]
  BY <1>1 DEF IsExponent, Magnitude
<1>3. PICK k \in Nat : Power[e + Precision] = k * Power[e]
  BY <1>2, BinadeIs
<1>4. Power[e + Precision] \in Nat /\ Power[e] \in Nat \ {0}
  BY <1>2, BinadeIs
<1>5. Round(x) \in Int /\ Round(x) <= Power[e + Precision]
  BY <1>1, <1>2, <1>3, <1>4, RoundingKeepsOrder
<1>6. 0 <= Round(x)
  <2>1. 0 * Step(x) = 0
    BY <1>1, <1>4
  <2> QED BY <2>1, RoundingKeepsOrder
<1>7. PICK j \in Int : Round(x) = j * Power[e]
  <2>1. PICK q \in Int : Round(x) \in {q * Power[e], (q + 1) * Power[e]}
    BY <1>1, Rounding
  <2> QED BY <2>1
<1>8. Round(x) \in Nat
  BY <1>5, <1>6
<1> QED BY <1>1, <1>5, <1>7, <1>8, MultiplesAreFloats

\* What a step does to a float: nothing goes back; a step of more than half the
\* distance to the next float is a move, one of less is lost in the rounding.
LEMMA StepAdded ==
  ASSUME NEW p \in Nat, IsFloat(p), NEW s \in Nat, InRange(p + s)
  PROVE  LET r == Round(p + s) IN
         /\ r \in Nat /\ r >= p
         /\ 2 * s > Step(p) => r > p
         /\ 2 * s < Step(p) => r = p
<1> DEFINE x == p + s
           r == Round(x)
<1>1. x \in Nat /\ p <= x /\ Magnitude(x) = x /\ Magnitude(p) = p /\ InRange(x)
  BY DEF Magnitude
<1>2. InRange(p)
  BY <1>1, PowerIs, FloatAssumption DEF InRange, Exponent
<1> SUFFICES r >= p /\ (2 * s > Step(p) => r > p) /\ (2 * s < Step(p) => r = p)
  BY <1>1, RoundIsFloat
<1> HIDE DEF x
<1>3. PICK e : IsExponent(p, e) /\ Step(p) = Power[e] /\ e \in Exponent
  BY <1>2, StepIs
<1>4. PICK f : IsExponent(x, f) /\ Step(x) = Power[f] /\ f \in Exponent
  BY <1>1, StepIs
<1>5. e \in 0 .. MaxExponent /\ f \in 0 .. MaxExponent /\ e \in Nat /\ f \in Nat
  BY <1>3, <1>4, FloatAssumption DEF IsExponent
<1>6. Power[e] \in Nat \ {0} /\ Power[f] \in Nat \ {0}
  BY <1>5, BinadeIs
<1>7. r \in Nat
  BY <1>1, RoundIsFloat
<1>8. PICK k \in Int : p = k * Power[e]
  BY <1>2, <1>3, FloatIs
<1>9. (k + 1) * Power[e] = p + Power[e]
  <2> DEFINE w == Power[e]
  <2>1. w \in Nat /\ p = k * w
    BY <1>6, <1>8
  <2> HIDE DEF w
  <2>2. (k + 1) * w = p + w
    BY <2>1
  <2> QED BY <2>2 DEF w
<1>10. 2 * Magnitude(r - x) <= Power[f] /\ (r >= x \/ 2 * (x - r) <= Power[f])
  <2>1. 2 * Magnitude(r - x) <= Power[f]
    BY <1>1, <1>4, Rounding
  <2> QED BY <1>1, <1>6, <1>7, <2>1 DEF Magnitude
\* The step may be larger around the sum: then the sum has passed a power.
<1>11. CASE e < f
  <2>1. /\ e + Precision \in Exponent /\ f - 1 + Precision \in Exponent
        /\ e + Precision <= f - 1 + Precision /\ f # 0
    <3>1. e + Precision \in Exponent /\ f - 1 + Precision \in Exponent
      BY <1>5, BinadeIs
    <3>2. e + Precision <= f - 1 + Precision /\ f # 0
      BY <1>5, <1>11, FloatAssumption
    <3> QED BY <3>1, <3>2
  <2> DEFINE b == Power[f - 1 + Precision]
             c == Power[e + Precision]
  <2>2. c <= b /\ b \in Nat /\ c \in Nat
    BY <1>5, <2>1, PowersDivide, BinadeIs
  <2>3. p < c /\ b <= x
    BY <1>1, <1>3, <1>4, <2>1 DEF IsExponent
  <2>4. PICK j \in Nat : b = j * Power[f]
    BY <1>5, BinadeIs
  <2>5. b <= r
    BY <1>1, <1>4, <2>3, <2>4, RoundingKeepsOrder
  <2> HIDE DEF b, c
  <2>6. r > p
    BY <1>7, <2>2, <2>3, <2>5
  <2>7. ~(2 * s < Power[e])
    <3>1. PICK m \in Nat : c = m * Power[e]
      BY <1>5, BinadeIs DEF c
    <3>2. k < m
      BY <1>6, <1>8, <2>3, <3>1
    <3>3. (m - k) * Power[e] >= Power[e] /\ (m - k) * Power[e] = c - p
      BY <1>6, <1>8, <3>1, <3>2
    <3>4. c - p <= s
      BY <1>1, <2>2, <2>3 DEF x
    <3> QED BY <1>6, <2>2, <3>3, <3>4
  <2> QED BY <1>3, <1>6, <1>7, <2>6, <2>7
<1>12. CASE ~(e < f)
  <2>1. Power[f] <= Power[e]
    BY <1>5, <1>12, BinadeIs, PowersDivide
  <2>2. Step(p) <= Step(x)
    BY <1>1, <1>2, StepsDivide
  <2>3. Power[f] = Power[e]
    BY <1>3, <1>4, <1>6, <2>1, <2>2
  <2>4. p <= r
    BY <1>1, <1>4, <1>8, <2>3, RoundingKeepsOrder
  <2>5. x <= (k + 1) * Power[e] => r <= (k + 1) * Power[e]
    BY <1>1, <1>4, <2>3, RoundingKeepsOrder
  <2>6. 2 * s > Power[e] => r > p
    BY <1>1, <1>6, <1>7, <1>10, <2>3, <2>4 DEF x
  <2>7. 2 * s < Power[e] => r = p
    <3>1. PICK q \in Int : /\ q * Power[e] <= x /\ x < (q + 1) * Power[e]
                           /\ r \in {q * Power[e], (q + 1) * Power[e]}
      BY <1>1, <1>4, <2>3, Rounding
    <3>2. SUFFICES ASSUME 2 * s < Power[e] PROVE r = p
      OBVIOUS
    <3>3. q = k
      <4>1. s < Power[e] /\ p <= x /\ x < p + Power[e]
        BY <1>1, <1>6, <3>2 DEF x
      <4>2. (k + 1) * Power[e] = p + Power[e]
        BY <1>9
      <4>3. q * Power[e] < (k + 1) * Power[e] /\ k * Power[e] < (q + 1) * Power[e]
        <5> DEFINE a == q * Power[e]
                   d == (q + 1) * Power[e]
        <5>1. a \in Int /\ d \in Int
          BY <1>6
        <5> HIDE DEF a, d
        <5> QED BY <1>1, <1>6, <1>8, <3>1, <4>1, <4>2, <5>1 DEF a, d
      <4>4. q < k + 1 /\ k < q + 1
        BY <1>6, <4>3
      <4> QED BY <4>4
    <3>4. r = p \/ r = p + Power[e]
      BY <1>8, <1>9, <3>1, <3>3
    <3> QED BY <1>1, <1>6, <1>7, <1>10, <2>3, <3>2, <3>4 DEF x, Magnitude
  <2> QED BY <1>3, <1>7, <2>4, <2>6, <2>7
<1> QED BY <1>11, <1>12 DEF x

\* A number twice as large has floats twice as far apart at most.
LEMMA StepDoubles ==
  ASSUME NEW x \in Nat, InRange(2 * x)
  PROVE  /\ Step(2 * x) <= 2 * Step(x)
         /\ \E k \in Nat \ {0} : 2 * Step(x) = k * Step(2 * x)
<1> DEFINE y == 2 * x
<1>1. /\ y \in Nat /\ Magnitude(y) = y /\ Magnitude(x) = x /\ InRange(y) /\ InRange(x)
  BY PowerIs, FloatAssumption DEF InRange, Magnitude, Exponent
<1>2. PICK e : IsExponent(x, e) /\ Step(x) = Power[e] /\ e \in Exponent
  BY <1>1, StepIs
<1>3. PICK f : IsExponent(y, f) /\ Step(y) = Power[f] /\ f \in Exponent
  BY <1>1, StepIs
<1>4. /\ e \in 0 .. MaxExponent /\ f \in 0 .. MaxExponent /\ e \in Nat /\ f \in Nat
      /\ Power[e] \in Nat \ {0} /\ Power[f] \in Nat \ {0}
  BY <1>2, <1>3, FloatAssumption, BinadeIs DEF IsExponent
<1>5. CASE f <= e
  <2>1. PICK k \in Nat \ {0} : Power[e] = k * Power[f]
    BY <1>2, <1>3, <1>5, PowersDivide
  <2>2. Power[f] <= Power[e]
    BY <1>2, <1>3, <1>5, PowersDivide
  <2>3. 2 * Power[e] = (2 * k) * Power[f] /\ 2 * k \in Nat \ {0}
    <3> DEFINE w == Power[f]
    <3>1. w \in Nat /\ Power[e] = k * w
      BY <1>4, <2>1
    <3> HIDE DEF w
    <3>2. 2 * (k * w) = (2 * k) * w
      BY <2>1, <3>1
    <3> QED BY <2>1, <3>1, <3>2 DEF w
  <2> QED BY <1>2, <1>3, <1>4, <2>2, <2>3
<1>6. CASE f = e + 1
  <2>1. Power[f] = 2 * Power[e]
    BY <1>3, <1>4, <1>6, PowerIs
  <2>2. 2 * Power[e] = 1 * Power[f]
    BY <1>4, <2>1
  <2> QED BY <1>2, <1>3, <1>4, <2>1, <2>2
<1>7. CASE f > e + 1
  <2>1. e + Precision \in Exponent /\ f - 1 + Precision \in Exponent
    BY <1>4, BinadeIs
  <2>2. e + Precision < f - 1 + Precision /\ f # 0
    BY <1>4, <1>7, FloatAssumption
  <2>3. 2 * Power[e + Precision] <= Power[f - 1 + Precision]
    BY <2>1, <2>2, PowersGrow
  <2>4. x < Power[e + Precision] /\ y >= Power[f - 1 + Precision]
    BY <1>1, <1>2, <1>3, <2>2 DEF IsExponent
  <2>5. Power[e + Precision] \in Nat /\ Power[f - 1 + Precision] \in Nat
    BY <2>1, PowerIs
  <2> QED BY <2>3, <2>4, <2>5
<1> QED BY <1>4, <1>5, <1>6, <1>7

-----------------------------------------------------------------------------
(* Positions *)

\* A buffer of that size, and the delays of its taps.
Buffer(size) == size \in Nat \ {0} /\ Fits(size)

DelayOf(size, d) == d \in 0 .. (size - 1) * Unit /\ IsFloat(d)

\* The arithmetic of whole numbers of places on the grid.
LEMMA UnitIs ==
  /\ Unit \in Nat \ {0}
  /\ \A n \in Int : n * Unit \in Int /\ (n + 1) * Unit = n * Unit + Unit
                    /\ (n - 1) * Unit = n * Unit - Unit
  /\ \A m, n \in Int : /\ (m + n) * Unit = m * Unit + n * Unit
                       /\ (m - n) * Unit = m * Unit - n * Unit
                       /\ m < n => m * Unit + Unit <= n * Unit
  /\ 0 * Unit = 0
<1> DEFINE U == Unit
<1>1. U \in Nat \ {0}
  <2>1. PICK e \in Exponent : Unit = Power[e]
    BY UnitAssumption DEF Exponent
  <2> QED BY <2>1, PowerIs
<1> HIDE DEF U
<1>2. ASSUME NEW n \in Int
      PROVE  n * U \in Int /\ (n + 1) * U = n * U + U /\ (n - 1) * U = n * U - U
  BY <1>1
<1>3. ASSUME NEW m \in Int, NEW n \in Int
      PROVE  (m + n) * U = m * U + n * U /\ (m - n) * U = m * U - n * U
  BY <1>1
<1>4. ASSUME NEW m \in Int, NEW n \in Int, m < n
      PROVE  m * U + U <= n * U
  <2>1. (m + 1) * U <= n * U
    <3>1. m + 1 <= n
      BY <1>4
    <3>2. (n - (m + 1)) * U >= 0
      BY <1>1, <3>1
    <3>3. (n - (m + 1)) * U = n * U - (m + 1) * U
      BY <1>3
    <3> QED BY <1>2, <3>2, <3>3
  <2> QED BY <1>2, <2>1
<1>5. 0 * U = 0
  BY <1>1
<1> QED BY <1>1, <1>2, <1>3, <1>4, <1>5 DEF U

\* The numbers up to the size of the buffer; a sample is whole steps of any.
LEMMA GridOfLine ==
  ASSUME NEW size, Buffer(size), NEW x \in Int, Magnitude(x) <= size * Unit
  PROVE  /\ InRange(x) /\ Step(x) \in Nat \ {0}
         /\ \E k \in Nat \ {0} : Unit = k * Step(x)
<1> USE DEF Buffer
<1> DEFINE end == size * Unit
<1>1. end \in Nat /\ Magnitude(end) = end /\ InRange(end)
  <2>1. size \in Nat /\ Unit \in Nat /\ end < Power[Precision + MaxExponent]
    BY UnitIs DEF Fits
  <2>2. end \in Nat
    BY <2>1
  <2> HIDE DEF end
  <2> QED BY <2>1, <2>2 DEF InRange, Magnitude
<1>2. InRange(x)
  BY <1>1, PowerIs, FloatAssumption DEF InRange, Magnitude, Exponent
<1>3. PICK e : Step(end) = Power[e] /\ e \in Exponent
  BY <1>1, StepIs
<1>4. PICK u \in Exponent : Unit = Power[u]
  BY UnitAssumption DEF Exponent
<1>5. Power[e] <= Power[u] /\ Power[u] \in Nat \ {0}
  BY <1>3, <1>4, UnitIs DEF Fits
<1>6. e <= u
  <2>1. CASE u < e
    <3>1. 2 * Power[u] <= Power[e]
      BY <1>3, <1>4, <2>1, PowersGrow
    <3>2. Power[e] \in Int
      BY <1>3, PowerIs
    <3> QED BY <1>5, <3>1, <3>2
  <2> QED BY <1>3, <1>4, <2>1, FloatAssumption DEF Exponent
<1>7. PICK k1 \in Nat \ {0} : Unit = k1 * Step(end)
  BY <1>3, <1>4, <1>6, PowersDivide
<1> HIDE DEF end
<1>8. Magnitude(x) <= Magnitude(end)
  BY <1>1 DEF end
<1>9. PICK k2 \in Nat \ {0} : Step(end) = k2 * Step(x)
  BY <1>1, <1>2, <1>8, StepsDivide
<1>10. Step(x) \in Nat \ {0}
  BY <1>2, Rounding
<1>11. k1 * k2 \in Nat \ {0} /\ k1 * (k2 * Step(x)) = (k1 * k2) * Step(x)
  BY <1>10
<1> QED BY <1>2, <1>7, <1>9, <1>10, <1>11

\* Whole samples are whole steps.
LEMMA SamplesAreSteps ==
  ASSUME NEW size, Buffer(size), NEW x \in Int, Magnitude(x) <= size * Unit, NEW n \in Int
  PROVE  \E k \in Int : n * Unit = k * Step(x)
<1> USE DEF Buffer
<1>1. PICK k \in Nat \ {0} : Unit = k * Step(x)
  BY GridOfLine
<1>2. Step(x) \in Nat \ {0}
  BY GridOfLine
<1> DEFINE s == Step(x)
<1> HIDE DEF s
<1>3. n * Unit = n * (k * s) /\ n * (k * s) = (n * k) * s /\ n * k \in Int
  BY <1>1, <1>2 DEF s
<1> QED BY <1>3 DEF s

\* No rounding of a position within the line moves it further than HalfStep(size).
LEMMA HalfStepIs ==
  ASSUME NEW size, Buffer(size), NEW x \in Nat, x <= size * Unit - 1
  PROVE  /\ HalfStep(size) \in Nat
         /\ \A e \in Nat : 2 * e <= Step(x) => e <= HalfStep(size)
<1> USE DEF Buffer
<1> DEFINE last == size * Unit - 1
<1>1. last \in Nat /\ Magnitude(last) = last /\ Magnitude(x) = x /\ last <= size * Unit
  <2>1. size * Unit \in Int /\ 0 <= x /\ x <= last
    BY UnitIs
  <2> QED BY <2>1 DEF Magnitude
<1>2. InRange(last) /\ InRange(x)
  <2>1. last \in Int /\ Magnitude(last) <= size * Unit
    BY <1>1
  <2>2. x \in Int /\ Magnitude(x) <= size * Unit
    <3>1. size * Unit \in Int
      BY UnitIs
    <3> QED BY <1>1, <3>1
  <2> HIDE DEF last
  <2> QED BY <2>1, <2>2, GridOfLine
<1>3. Step(last) \in Nat \ {0} /\ Step(x) \in Nat \ {0} /\ Step(x) <= Step(last)
  BY <1>1, <1>2, StepsDivide
<1>4. HalfStep(size) = Step(last) \div 2
  BY DEF HalfStep
<1> HIDE DEF last
<1> QED BY <1>3, <1>4

\* A position R before the place n is rounded to n or stays between.
LEMMA RoundedPosition ==
  ASSUME NEW size, Buffer(size), NEW n \in Int, NEW R \in 0 .. Unit - 1,
         0 <= n * Unit - R, n * Unit - R <= size * Unit - 1
  PROVE  LET T == n * Unit - R IN
         /\ Round(T) \in Int
         /\ (n - 1) * Unit <= Round(T) /\ Round(T) <= n * Unit
         /\ R = 0 => Round(T) = n * Unit
         /\ Magnitude(Round(T) - T) <= HalfStep(size)
<1> USE DEF Buffer
<1> DEFINE T == n * Unit - R
<1>1. T \in Nat /\ T <= size * Unit - 1 /\ Magnitude(T) <= size * Unit /\ R \in Nat
  BY UnitIs DEF Magnitude
<1>2. InRange(T)
  BY <1>1, GridOfLine
<1>3. PICK k \in Int : n * Unit = k * Step(T)
  BY <1>1, SamplesAreSteps
<1>4. PICK l \in Int : (n - 1) * Unit = l * Step(T)
  BY <1>1, SamplesAreSteps
<1>5. (n - 1) * Unit <= T /\ T <= n * Unit /\ (R = 0 => T = n * Unit)
  BY UnitIs
<1>6. /\ T <= k * Step(T) => Round(T) <= k * Step(T)
      /\ T = k * Step(T) => Round(T) = T
      /\ Round(T) \in Int /\ 2 * Magnitude(Round(T) - T) <= Step(T)
  BY <1>2, RoundingKeepsOrder
<1>7. l * Step(T) <= T => l * Step(T) <= Round(T)
  BY <1>2, RoundingKeepsOrder
<1>8. Magnitude(Round(T) - T) <= HalfStep(size)
  <2>1. Magnitude(Round(T) - T) \in Nat
    BY <1>1, <1>6 DEF Magnitude
  <2> HIDE DEF T
  <2> QED BY <1>1, <1>6, <2>1, HalfStepIs
<1> HIDE DEF T
<1>9. /\ (n - 1) * Unit <= Round(T) /\ Round(T) <= n * Unit
      /\ R = 0 => Round(T) = n * Unit
  BY <1>3, <1>4, <1>5, <1>6, <1>7
<1> QED BY <1>6, <1>8, <1>9 DEF T

\* A delay and the samples in it.
LEMMA DelayIs ==
  ASSUME NEW size, Buffer(size), NEW d, DelayOf(size, d)
  PROVE  /\ d \in Nat /\ d <= (size - 1) * Unit /\ d <= size * Unit
         /\ Whole(d) \in 0 .. size - 1 /\ Rest(d) \in 0 .. Unit - 1
         /\ d = Whole(d) * Unit + Rest(d)
         /\ Whole(d) = size - 1 => Rest(d) = 0
<1> USE DEF Buffer
<1>1. d \in Nat /\ d <= (size - 1) * Unit
  BY UnitIs DEF DelayOf
<1>2. (size - 1) * Unit = size * Unit - Unit /\ size * Unit \in Int
  BY UnitIs
<1>3. /\ Whole(d) \in Int /\ Rest(d) \in Int /\ d = Whole(d) * Unit + Rest(d)
      /\ 0 <= Rest(d) /\ Rest(d) < Unit
  BY <1>1, UnitIs, DivMod DEF Whole, Rest
<1> DEFINE W == Whole(d)
           R == Rest(d)
<1> HIDE DEF W, R
<1>4. W >= 0
  <2>1. CASE W < 0
    <3>1. W * Unit + Unit <= 0 * Unit /\ 0 * Unit = 0 /\ W * Unit \in Int
      BY <1>3, <2>1, UnitIs DEF W
    <3> QED BY <1>1, <1>3, <3>1, UnitIs DEF W, R
  <2> QED BY <1>3, <2>1 DEF W
<1>5. W <= size - 1
  <2>1. CASE size - 1 < W
    <3>1. (size - 1) * Unit + Unit <= W * Unit /\ W * Unit \in Int /\ (size - 1) * Unit \in Int
      BY <1>3, <2>1, UnitIs DEF W
    <3> QED BY <1>1, <1>3, <3>1, UnitIs DEF W, R
  <2> QED BY <1>3, <2>1, UnitIs DEF W
<1>6. W = size - 1 => R = 0
  <2>1. CASE W = size - 1
    <3>1. d = (size - 1) * Unit + R /\ (size - 1) * Unit \in Int
      BY <1>3, <2>1, UnitIs DEF W, R
    <3> QED BY <1>1, <1>3, <3>1 DEF R
  <2> QED BY <2>1
<1>7. d <= size * Unit
  BY <1>1, <1>2, UnitIs
<1> QED BY <1>1, <1>3, <1>4, <1>5, <1>6, <1>7, UnitIs DEF W, R

\* A position below 0 is not rounded: it is whole steps of the delay, which
\* is the larger number.
LEMMA NegativeExact ==
  ASSUME NEW size, Buffer(size), NEW w \in 0 .. size - 1, NEW d, DelayOf(size, d),
         w * Unit - d < 0
  PROVE  Round(w * Unit - d) = w * Unit - d
<1> USE DEF Buffer
<1> DEFINE m == w * Unit - d
<1>1. d \in Nat /\ d <= size * Unit /\ Magnitude(d) = d
  BY DelayIs DEF Magnitude
<1>2. w * Unit \in Nat
  BY UnitIs
<1>3. m \in Int /\ Magnitude(m) <= d /\ Magnitude(m) <= size * Unit
  <2>1. m \in Int /\ Magnitude(m) = d - w * Unit
    BY <1>1, <1>2 DEF Magnitude
  <2>2. size * Unit \in Int
    BY UnitIs
  <2> HIDE DEF m
  <2> QED BY <1>1, <1>2, <2>1, <2>2
<1>4. InRange(d) /\ InRange(m)
  <2> HIDE DEF m
  <2> QED BY <1>1, <1>3, GridOfLine
<1>5. PICK q \in Int : d = q * Step(d)
  <2>1. IsFloat(d)
    BY DEF DelayOf
  <2>2. PICK p \in Int : Round(d) \in {p * Step(d), (p + 1) * Step(d)}
    BY <1>4, Rounding
  <2> QED BY <2>1, <2>2 DEF IsFloat
<1>6. PICK k \in Int : w * Unit = k * Step(d)
  BY <1>1, SamplesAreSteps
<1>7. Step(d) \in Nat \ {0} /\ Step(m) \in Nat \ {0}
  BY <1>4, Rounding
<1>8. PICK c \in Nat \ {0} : Step(d) = c * Step(m)
  <2> HIDE DEF m
  <2> QED BY <1>1, <1>3, <1>4, StepsDivide
<1> DEFINE s == Step(d)
           t == Step(m)
<1>9. s \in Nat \ {0} /\ t \in Nat \ {0} /\ s = c * t
  BY <1>7, <1>8
<1>10. m = k * s - q * s
  BY <1>5, <1>6
<1> HIDE DEF m, s, t
<1>11. k * s - q * s = (k - q) * s /\ (k - q) * (c * t) = ((k - q) * c) * t /\ (k - q) * c \in Int
  BY <1>9
<1>12. m = ((k - q) * c) * Step(m)
  BY <1>9, <1>10, <1>11 DEF t
<1>13. Round(m) = m
  BY <1>4, <1>11, <1>12, RoundingKeepsOrder
<1> QED BY <1>13 DEF m

\* The place that Position is before: the end of the sample that a delay of
\* whole samples would hear, in this lap of the buffer or the one before.
EndOf(size, w, d) ==
  IF d <= w * Unit THEN w - Whole(d) ELSE w - Whole(d) + size

\* The two branches of the code (a position, or a position plus the size) give
\* the same thing: the end of the delay, less its fraction, rounded.
LEMMA PositionIs ==
  ASSUME NEW size, Buffer(size), NEW w \in 0 .. size - 1, NEW d, DelayOf(size, d)
  PROVE  LET n == EndOf(size, w, d) IN
         /\ n \in Int /\ 0 <= n * Unit - Rest(d)
         /\ n * Unit - Rest(d) <= size * Unit - 1
         /\ Position(size, w, d) = Round(n * Unit - Rest(d))
<1> USE DEF Buffer
<1> DEFINE W == Whole(d)
           R == Rest(d)
           m == w * Unit - d
<1>1. /\ d \in Nat /\ d <= (size - 1) * Unit /\ W \in Int /\ R \in 0 .. Unit - 1
      /\ d = W * Unit + R
  BY DelayIs, UnitIs
<1>2. /\ w \in Nat /\ w <= size - 1 /\ w \in Int /\ size \in Int /\ Unit \in Nat \ {0}
      /\ w * Unit \in Int /\ W * Unit \in Int /\ size * Unit \in Int /\ (size - 1) * Unit \in Int
      /\ (size - 1) * Unit = size * Unit - Unit
  BY <1>1, UnitIs
<1>3. w * Unit <= (size - 1) * Unit /\ 0 <= w * Unit
  <2>1. CASE w < size - 1
    BY <1>2, <2>1, UnitIs
  <2>2. CASE w = size - 1
    BY <1>2, <2>2
  <2>3. 0 <= w * Unit
    BY <1>2
  <2> QED BY <1>2, <2>1, <2>2, <2>3
<1> HIDE DEF W, R
<1>4. CASE d <= w * Unit
  <2>1. EndOf(size, w, d) = w - W /\ (w - W) * Unit = w * Unit - W * Unit
    BY <1>1, <1>2, <1>4, UnitIs DEF EndOf, W
  <2>2. (w - W) * Unit - R = m /\ 0 <= m /\ m <= size * Unit - 1
    BY <1>1, <1>2, <1>3, <1>4, <2>1
  <2>3. Position(size, w, d) = Round(m)
    <3>1. m \in Int /\ Magnitude(m) <= size * Unit
      BY <1>1, <1>2, <2>2 DEF Magnitude
    <3> HIDE DEF m
    <3>2. Round(m) >= 0
      <4>1. InRange(m) /\ Step(m) \in Nat \ {0}
        BY <3>1, GridOfLine
      <4>2. 0 * Step(m) = 0
        BY <4>1
      <4>3. 0 * Step(m) <= m => 0 * Step(m) <= Round(m)
        BY <4>1, RoundingKeepsOrder
      <4> QED BY <2>2, <4>2, <4>3
    <3>3. Round(m) \in Int
      BY <3>1, GridOfLine, RoundingKeepsOrder
    <3>4. ~(Round(m) < 0)
      BY <3>2, <3>3
    <3> QED BY <3>4 DEF Position, m
  <2> HIDE DEF m
  <2> QED BY <1>1, <1>2, <2>1, <2>2, <2>3 DEF R
<1>5. CASE ~(d <= w * Unit)
  <2>1. m < 0 /\ m \in Int
    BY <1>1, <1>2, <1>5
  <2>2. Round(m) = m
    BY <2>1, NegativeExact
  <2>3. /\ EndOf(size, w, d) = w - W + size /\ (w - W) * Unit = w * Unit - W * Unit
        /\ (w - W + size) * Unit = (w - W) * Unit + size * Unit
    BY <1>1, <1>2, <1>5, UnitIs DEF EndOf, W
  <2>4. /\ (w - W + size) * Unit - R = m + size * Unit
        /\ 0 <= m + size * Unit /\ m + size * Unit <= size * Unit - 1
    BY <1>1, <1>2, <1>3, <2>1, <2>3
  <2>5. Position(size, w, d) = Round(m + size * Unit)
    BY <2>1, <2>2 DEF Position
  <2> HIDE DEF m
  <2> QED BY <1>1, <1>2, <2>3, <2>4, <2>5 DEF R
<1> QED BY <1>4, <1>5

\* The end of the delay lies before the index, or behind it in the lap before.
LEMMA EndIs ==
  ASSUME NEW size, Buffer(size), NEW w \in 0 .. size - 1, NEW d, DelayOf(size, d)
  PROVE  LET n == EndOf(size, w, d)  W == Whole(d)  R == Rest(d) IN
         \/ n = w - W /\ 0 <= W /\ W <= w /\ (R # 0 => W < w)
         \/ n = w - W + size /\ w <= W /\ W <= size - 1 /\ (W = w => R # 0)
            /\ (W = size - 1 => R = 0)
<1> USE DEF Buffer
<1> DEFINE W == Whole(d)
           R == Rest(d)
<1>1. /\ W \in 0 .. size - 1 /\ R \in 0 .. Unit - 1 /\ d = W * Unit + R
      /\ (W = size - 1 => R = 0) /\ d \in Nat
  BY DelayIs
<1>2. w \in Int /\ size \in Int /\ Unit \in Nat \ {0} /\ w * Unit \in Int /\ W * Unit \in Int
  BY <1>1, UnitIs
<1> HIDE DEF W, R
<1>3. CASE d <= w * Unit
  <2>1. W <= w /\ (R # 0 => W < w)
    <3>1. CASE w < W
      BY <1>1, <1>2, <1>3, <3>1, UnitIs
    <3>2. CASE w = W
      BY <1>1, <1>2, <1>3, <3>2
    <3> QED BY <1>1, <1>2, <3>1, <3>2
  <2> QED BY <1>1, <1>3, <2>1 DEF EndOf, W, R
<1>4. CASE ~(d <= w * Unit)
  <2>1. w <= W /\ (W = w => R # 0)
    <3>1. CASE W < w
      BY <1>1, <1>2, <1>4, <3>1, UnitIs
    <3>2. CASE W = w
      BY <1>1, <1>2, <1>4, <3>2
    <3> QED BY <1>1, <1>2, <3>1, <3>2
  <2> QED BY <1>1, <1>4, <2>1 DEF EndOf, W, R
<1> QED BY <1>3, <1>4

\* The place that is read is the one the delay names, with its fraction up to
\* rounding; or the next one exactly, where the fraction was rounded away.
LEMMA PlaceIs ==
  ASSUME NEW size, Buffer(size), NEW w \in 0 .. size - 1, NEW d, DelayOf(size, d)
  PROVE  LET n == EndOf(size, w, d)
             i == Whole(Position(size, w, d))
             f == Rest(Position(size, w, d)) IN
         /\ n \in Int /\ i \in Int /\ f \in 0 .. Unit - 1 /\ HalfStep(size) \in Nat
         /\ \/ i = n /\ f = 0 /\ (Rest(d) = 0 \/ NearlyWhole(size, d))
            \/ i = n - 1 /\ Rest(d) # 0
               /\ Magnitude(Unit - Rest(d) - f) <= HalfStep(size)
<1> USE DEF Buffer
<1> DEFINE n == EndOf(size, w, d)
           R == Rest(d)
           p == Position(size, w, d)
<1>1. /\ n \in Int /\ 0 <= n * Unit - R /\ n * Unit - R <= size * Unit - 1
      /\ p = Round(n * Unit - R)
  BY PositionIs
<1>2. R \in 0 .. Unit - 1 /\ Unit \in Nat \ {0}
  BY DelayIs, UnitIs
<1> HIDE DEF n, R, p
<1>3. /\ p \in Int /\ (n - 1) * Unit <= p /\ p <= n * Unit /\ (R = 0 => p = n * Unit)
      /\ Magnitude(p - (n * Unit - R)) <= HalfStep(size)
  BY <1>1, <1>2, RoundedPosition
<1>4. n * Unit \in Int /\ (n - 1) * Unit \in Int /\ (n - 1) * Unit = n * Unit - Unit
  BY <1>1, UnitIs
<1>5. HalfStep(size) \in Nat
  <2> DEFINE T == n * Unit - R
  <2>1. T \in Nat /\ T <= size * Unit - 1
    BY <1>1, <1>2, <1>4
  <2> HIDE DEF T
  <2> QED BY <2>1, HalfStepIs
<1>6. CASE p = n * Unit
  <2>1. p \div Unit = n /\ p % Unit = 0
    <3>1. /\ 0 \in Int /\ p = n * Unit + 0 /\ 0 < Unit
          /\ p \in Int /\ n \in Int /\ Unit \in Nat \ {0}
      BY <1>1, <1>2, <1>3, <1>4, <1>6
    <3> QED BY <3>1, DivUnique
  <2>2. R <= HalfStep(size)
    BY <1>2, <1>3, <1>4, <1>5, <1>6 DEF Magnitude
  <2>3. R = 0 \/ R \in 1 .. HalfStep(size)
    BY <1>2, <1>5, <2>2
  <2> QED BY <1>1, <1>2, <1>5, <2>1, <2>3 DEF NearlyWhole, Whole, Rest, R, p, n
<1>7. CASE p # n * Unit
  <2> DEFINE f == p - (n - 1) * Unit
  <2>1. f \in 0 .. Unit - 1 /\ p = (n - 1) * Unit + f /\ f \in Int /\ 0 <= f /\ f < Unit
    BY <1>2, <1>3, <1>4, <1>7
  <2>2. Magnitude(Unit - R - f) <= HalfStep(size)
    BY <1>2, <1>3, <1>4, <1>5 DEF Magnitude
  <2>3. R # 0
    BY <1>3, <1>7
  <2> HIDE DEF f
  <2>4. n - 1 \in Int
    BY <1>1
  <2>5. p \div Unit = n - 1 /\ p % Unit = f
    BY <1>2, <1>3, <2>1, <2>4, DivUnique
  <2> QED BY <1>1, <1>5, <2>1, <2>2, <2>3, <2>4, <2>5 DEF Whole, Rest, R, p, n
<1> QED BY <1>6, <1>7
=============================================================================
