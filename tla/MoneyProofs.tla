----------------------------- MODULE MoneyProofs -----------------------------
(***************************************************************************)
(* What the arithmetic of the paper account returns, for every balance,    *)
(* price and percentage, be they numbers, infinities or NaN.               *)
(***************************************************************************)
EXTENDS Money, TLAPS

(* Division rounds down.                                                   *)
LEMMA DivisionBounds ==
  ASSUME NEW a \in Int, NEW d \in Nat \ {0}
  PROVE  /\ a \div d \in Int
         /\ (a \div d) * d <= a
         /\ a < (a \div d + 1) * d
         /\ a \in Nat => a \div d \in Nat
  OBVIOUS

LEMMA ProductIsInt ==
  ASSUME NEW a \in Int, NEW b \in Int
  PROVE  a * b \in Int
  OBVIOUS

LEMMA ProductIsNat ==
  ASSUME NEW a \in Nat, NEW b \in Nat
  PROVE  a * b \in Nat
  OBVIOUS

LEMMA ProductIsPositive ==
  ASSUME NEW a \in Nat \ {0}, NEW b \in Nat \ {0}
  PROVE  a * b \in Nat \ {0}
  OBVIOUS

LEMMA CancelFactor ==
  ASSUME NEW u \in Nat \ {0}, NEW x \in Int, NEW y \in Int, u * x < u * y
  PROVE  x < y
OBVIOUS

----------------------------------------------------------------------------
(* Doubles are closed under the arithmetic.                                *)
LEMMA TimesType ==
  ASSUME NEW x \in Doubles, NEW y \in Doubles
  PROVE  Times(x, y) \in Doubles
<1>1. CASE x \in Int /\ y \in Int
  BY <1>1, ProductIsInt DEF Times, Doubles
<1>2. CASE ~(x \in Int /\ y \in Int)
  BY <1>2 DEF Times, Signed, Doubles
<1> QED
  BY <1>1, <1>2

LEMMA DividedType ==
  ASSUME NEW x \in Doubles, NEW y \in Doubles
  PROVE  Divided(x, y) \in Doubles
<1>1. CASE x \in Int /\ y \in Int \ {0}
  <2>1. CASE y > 0
    BY <1>1, <2>1, DivisionBounds DEF Divided, Quotient, Doubles
  <2>2. CASE ~(y > 0)
    <3>1. -x \in Int /\ -y \in Nat \ {0}
      BY <1>1, <2>2
    <3>2. (-x) \div (-y) \in Int
      BY <3>1, DivisionBounds
    <3> QED
      BY <1>1, <2>2, <3>2 DEF Divided, Quotient, Doubles
  <2> QED
    BY <2>1, <2>2
<1>2. CASE ~(x \in Int /\ y \in Int \ {0})
  BY <1>2 DEF Divided, Signed, Doubles
<1> QED
  BY <1>1, <1>2

(* A positive factor, or divisor, changes neither an infinity nor NaN.     *)
LEMMA ByPositive ==
  ASSUME NEW x \in Doubles, NEW k \in Nat \ {0}
  PROVE  /\ x \in Int => Times(x, k) = x * k /\ Divided(x, k) = x \div k
         /\ x \notin Int => Times(x, k) = x /\ Divided(x, k) = x
BY DoublesAssumption DEF Times, Divided, Quotient, Signed, Negative, Doubles

----------------------------------------------------------------------------
LEMMA MoneyFacts ==
  /\ Unit * FeeDen \in Nat \ {0} /\ Unit * FeeNum \in Nat \ {0}
  /\ 100 + TakePct \in Nat \ {0} /\ 100 - StopPct \in Nat
  /\ (100 + TakePct) * Unit \in Nat \ {0}
  /\ (100 - StopPct) * Unit \in Nat
<1>1. Unit \in Nat \ {0} /\ 100 + TakePct \in Nat \ {0} /\ 100 - StopPct \in Nat
  BY MoneyAssumption
<1> QED
  BY <1>1, ProductIsPositive, ProductIsNat DEF FeeDen, FeeNum

(* A purchase yields an amount of coins, whatever the price.               *)
LEMMA CoinsType ==
  ASSUME NEW b \in Doubles, NEW p \in Doubles
  PROVE  Coins(b, p) \in Doubles
<1>1. Unit * FeeNum \in Doubles /\ FeeDen \in Doubles
  BY MoneyFacts DEF Doubles, FeeDen
<1> QED
  BY <1>1, TimesType, DividedType DEF Coins

(* A natural amount, when the balance is one and the price is not 0.       *)
LEMMA CoinsOfQuote ==
  ASSUME NEW b \in Nat, NEW p \in Nat \ {0}
  PROVE  /\ Coins(b, p) = (b * (Unit * FeeNum)) \div (p * FeeDen)
         /\ Coins(b, p) \in Nat
<1>1. b * (Unit * FeeNum) \in Nat /\ p * FeeDen \in Nat \ {0}
  BY MoneyFacts, ProductIsNat, ProductIsPositive DEF FeeDen
<1>2. /\ Times(b, Unit * FeeNum) = b * (Unit * FeeNum)
      /\ Times(p, FeeDen) = p * FeeDen
  BY MoneyFacts DEF Times, FeeDen
<1>3. Coins(b, p) = (b * (Unit * FeeNum)) \div (p * FeeDen)
  <2> DEFINE x == b * (Unit * FeeNum)
             y == p * FeeDen
  <2>1. x \in Doubles /\ x \in Int /\ y \in Nat \ {0}
    BY <1>1 DEF Doubles
  <2>2. Coins(b, p) = Divided(x, y)
    BY <1>2 DEF Coins
  <2> HIDE DEF x, y
  <2>3. Divided(x, y) = x \div y
    BY <2>1, ByPositive
  <2> QED
    BY <2>2, <2>3 DEF x, y
<1> QED
  BY <1>1, <1>3, DivisionBounds

LEMMA WorthType ==
  ASSUME NEW c \in Doubles, NEW p \in Doubles
  PROVE  Worth(c, p) \in Doubles
BY TimesType DEF Worth

(* Rounding down costs less than one money unit, whatever the price: a     *)
(* finite worth of w, in 1/Unit, is sold for s with s <= w * 0.999 < s + 1, *)
(* and one that is not finite is sold for itself.                          *)
LEMMA ProceedsBounds ==
  ASSUME NEW c \in Doubles, NEW p \in Doubles
  PROVE  /\ Worth(c, p) \in Int =>
              /\ Proceeds(c, p) \in Int
              /\ Proceeds(c, p) * (Unit * FeeDen) <= Worth(c, p) * FeeNum
              /\ Worth(c, p) * FeeNum < (Proceeds(c, p) + 1) * (Unit * FeeDen)
              /\ Worth(c, p) \in Nat => Proceeds(c, p) \in Nat
         /\ Worth(c, p) \notin Int => Proceeds(c, p) = Worth(c, p)
<1> DEFINE w == Worth(c, p)
           d == Unit * FeeDen
<1>1. w \in Doubles
  BY WorthType
<1>2. d \in Nat \ {0} /\ FeeNum \in Nat \ {0}
  BY MoneyFacts DEF FeeNum
<1>3. Proceeds(c, p) = Divided(Times(w, FeeNum), d)
  BY DEF Proceeds
<1> HIDE DEF w, d
<1>4. CASE w \in Int
  <2> DEFINE a == w * FeeNum
  <2>1. a \in Int /\ Times(w, FeeNum) = a /\ (w \in Nat => a \in Nat)
    BY <1>1, <1>2, <1>4, ByPositive, ProductIsInt, ProductIsNat
  <2> HIDE DEF a
  <2>2. Proceeds(c, p) = a \div d
    BY <1>2, <1>3, <2>1, ByPositive DEF Doubles
  <2>3. /\ a \div d \in Int /\ (a \div d) * d <= a /\ a < (a \div d + 1) * d
        /\ (w \in Nat => a \div d \in Nat)
    BY <1>2, <2>1, DivisionBounds
  <2> QED
    BY <1>4, <2>2, <2>3 DEF a, w, d
<1>5. CASE w \notin Int
  <2>1. Times(w, FeeNum) = w /\ Divided(w, d) = w
    BY <1>1, <1>2, <1>5, ByPositive
  <2> QED
    BY <1>3, <1>5, <2>1 DEF w
<1> QED
  BY <1>4, <1>5 DEF w

LEMMA ProceedsType ==
  ASSUME NEW c \in Doubles, NEW p \in Doubles
  PROVE  Proceeds(c, p) \in Doubles
BY WorthType, ProceedsBounds DEF Doubles

(* What is sold is worth something, be it infinite: NaN satisfies neither  *)
(* comparison, so it never becomes the balance.                            *)
THEOREM SoldIsWorthSomething ==
  ASSUME NEW c \in Doubles, NEW p \in Doubles, NEW o \in Doubles,
         HitsTarget(c, p, o) \/ HitsStop(c, p, o)
  PROVE  Proceeds(c, p) # NaN
<1>1. Worth(c, p) \in Doubles
  BY WorthType
<1>2. Times(Worth(c, p), 100) # NaN
  BY DEF HitsTarget, HitsStop, AtLeast, Less
<1>3. Worth(c, p) # NaN
  BY <1>1, <1>2, ByPositive, DoublesAssumption
<1> QED
  BY <1>3, ProceedsBounds, DoublesAssumption

(* A position sold because it has reached the target is a gain.            *)
THEOREM TargetIsGain ==
  ASSUME NEW c \in Doubles, NEW p \in Doubles, NEW o \in Doubles,
         HitsTarget(c, p, o)
  PROVE  Gained(o, Proceeds(c, p))
<1> DEFINE w == Worth(c, p)
           s == Proceeds(c, p)
           k == (100 + TakePct) * Unit
           m == (100 + TakePct) * FeeNum
<1>1. /\ w \in Doubles /\ k \in Nat \ {0}
      /\ m \in Nat \ {0} /\ 100 * FeeDen \in Nat \ {0}
  BY WorthType, MoneyFacts, ProductIsPositive DEF FeeNum, FeeDen
<1>2. AtLeast(Times(w, 100), Times(o, k))
  BY DEF HitsTarget
<1>3. AtLeast(Times(RoundedUp(s), 100 * FeeDen), Times(o, m)) =>
        Gained(o, Proceeds(c, p))
  BY DEF Gained
<1>4. /\ w \in Int => /\ s \in Int
                     /\ w * FeeNum < (s + 1) * (Unit * FeeDen)
      /\ w \notin Int => s = w
  BY ProceedsBounds
<1> HIDE DEF w, s, k, m
<1>5. CASE w \notin Int
  <2>1. w = Inf \/ (w = NegInf /\ o = NegInf)
    BY <1>1, <1>2, <1>5, ByPositive, DoublesAssumption
    DEF AtLeast, Less, Doubles
  <2>2. Times(RoundedUp(s), 100 * FeeDen) = w /\ Times(w, 100) = w
    BY <1>1, <1>4, <1>5, ByPositive DEF RoundedUp
  <2>3. Times(o, m) # NaN
    BY <1>1, <1>2, ByPositive, DoublesAssumption DEF AtLeast
  <2>4. o = NegInf => Times(o, m) = NegInf
    BY <1>1, ByPositive, DoublesAssumption
  <2> QED
    BY <1>3, <2>1, <2>2, <2>3, <2>4, DoublesAssumption DEF AtLeast, Less
<1>6. CASE w \in Int
  <2>1. /\ Times(w, 100) = w * 100 /\ w * 100 \in Int
        /\ RoundedUp(s) = s + 1 /\ s + 1 \in Int /\ s \in Int
    BY <1>1, <1>4, <1>6, ByPositive DEF RoundedUp
  <2> DEFINE r == s + 1
  <2>2. Times(r, 100 * FeeDen) = r * (100 * FeeDen) /\ r * (100 * FeeDen) \in Int
    BY <1>1, <2>1, ByPositive DEF Doubles, FeeDen
  <2>3. CASE o \notin Int
    <3>1. o = NegInf
      BY <1>1, <1>2, <2>1, <2>3, ByPositive, DoublesAssumption
      DEF AtLeast, Less, Doubles
    <3>2. Times(o, m) = NegInf
      BY <1>1, <3>1, ByPositive, DoublesAssumption
    <3> QED
      BY <1>3, <2>1, <2>2, <3>2, DoublesAssumption DEF AtLeast, Less
  <2>4. CASE o \in Int
    <3>1. /\ Times(o, k) = o * k /\ Times(o, m) = o * m
          /\ o * k \in Int /\ o * m \in Int
      BY <1>1, <2>4, ByPositive, ProductIsInt
    <3>2. w * 100 >= o * k
      BY <1>2, <2>1, <3>1 DEF AtLeast, Less
    <3> DEFINE t == o * (100 + TakePct)
    <3>3. t \in Int /\ o * k = t * Unit /\ o * m = t * 999
      BY <2>4, MoneyAssumption DEF k, m, FeeNum
    <3> HIDE DEF t
    <3>4. t * Unit \in Int /\ t * Unit <= w * 100
      BY <3>1, <3>2, <3>3
    <3>5. w * 100 * 999 < Unit * (r * 100000)
      BY <1>4, <1>6, <2>1, MoneyAssumption DEF FeeNum, FeeDen
    <3>6. Unit * (t * 999) = t * Unit * 999
      BY <3>3, MoneyAssumption
    <3>7. Unit * (t * 999) < Unit * (r * 100000)
      <4>1. Unit * (r * 100000) \in Int
        BY <2>1, MoneyAssumption
      <4> QED
        BY <1>6, <3>4, <3>5, <3>6, <4>1
    <3>8. t * 999 < r * 100000
      <4>1. t * 999 \in Int /\ r * 100000 \in Int
        BY <2>1, <3>3
      <4> QED
        BY <3>7, <4>1, MoneyAssumption, CancelFactor
    <3>9. r * (100 * FeeDen) >= o * m
      BY <2>1, <3>1, <3>3, <3>8 DEF FeeDen
    <3> QED
      BY <1>3, <2>1, <2>2, <3>1, <3>9, DoublesAssumption DEF AtLeast, Less
  <2> QED
    BY <2>3, <2>4
<1> QED
  BY <1>5, <1>6

(* A position sold because it has fallen below the stop, and for no other  *)
(* reason, is a loss.                                                      *)
THEOREM StopIsLoss ==
  ASSUME NEW c \in Doubles, NEW p \in Doubles, NEW o \in Doubles,
         HitsStop(c, p, o)
  PROVE  Lost(o, Proceeds(c, p))
<1> DEFINE w == Worth(c, p)
           s == Proceeds(c, p)
           k == (100 - StopPct) * Unit
           m == (100 - StopPct) * FeeNum
<1>1. /\ w \in Doubles /\ k \in Nat
      /\ m \in Nat /\ 100 * FeeDen \in Nat \ {0}
  BY WorthType, MoneyFacts, ProductIsNat DEF FeeNum, FeeDen
<1>2. Less(Times(w, 100), Times(o, k))
  BY DEF HitsStop
<1>3. Less(Times(s, 100 * FeeDen), Times(o, m)) => Lost(o, Proceeds(c, p))
  BY DEF Lost
<1>4. /\ w \in Int => /\ s \in Int
                     /\ s * (Unit * FeeDen) <= w * FeeNum
      /\ w \notin Int => s = w
  BY ProceedsBounds
<1>5. (k = 0 <=> StopPct = 100) /\ (m = 0 <=> StopPct = 100)
  <2>1. CASE StopPct = 100
    BY <2>1, MoneyAssumption DEF FeeNum
  <2>2. CASE StopPct # 100
    <3>1. 100 - StopPct \in Nat \ {0}
      BY <2>2, MoneyAssumption
    <3> QED
      BY <2>2, <3>1, MoneyAssumption, ProductIsPositive DEF FeeNum
  <2> QED
    BY <2>1, <2>2
<1> HIDE DEF w, s, k, m
<1>6. o \notin Int => k # 0 /\ m # 0 /\ Times(o, k) = o /\ Times(o, m) = o
  <2>1. o \notin Int /\ k = 0 => Times(o, k) = NaN
    BY DEF Times
  <2> QED
    BY <1>1, <1>2, <1>5, <2>1, ByPositive DEF Less
<1>7. CASE w \notin Int
  <2>1. w = Inf \/ w = NegInf
    BY <1>1, <1>2, <1>7, ByPositive DEF Less, Doubles
  <2>2. Times(w, 100) = w /\ Times(s, 100 * FeeDen) = w
    BY <1>1, <1>4, <1>7, ByPositive
  <2>3. w = NegInf
    BY <1>2, <2>1, <2>2, DoublesAssumption DEF Less
  <2>4. Times(o, m) # NaN /\ Times(o, m) # NegInf
    <3>1. CASE o \in Int
      BY <1>1, <3>1, ProductIsInt, DoublesAssumption DEF Times
    <3>2. CASE o \notin Int
      BY <1>2, <1>6, <2>2, <2>3, <3>2, DoublesAssumption DEF Less
    <3> QED
      BY <3>1, <3>2
  <2> QED
    BY <1>3, <2>2, <2>3, <2>4, DoublesAssumption DEF Less
<1>8. CASE w \in Int
  <2>1. /\ Times(w, 100) = w * 100 /\ w * 100 \in Int /\ s \in Int
        /\ Times(s, 100 * FeeDen) = s * (100 * FeeDen)
        /\ s * (100 * FeeDen) \in Int
    <3>1. s \in Int /\ s \in Doubles /\ 100 * FeeDen \in Int
      BY <1>1, <1>4, <1>8 DEF Doubles
    <3>2. Times(w, 100) = w * 100 /\ w * 100 \in Int
      BY <1>1, <1>8, ByPositive
    <3>3. /\ Times(s, 100 * FeeDen) = s * (100 * FeeDen)
          /\ s * (100 * FeeDen) \in Int
      BY <1>1, <3>1, ByPositive, ProductIsInt
    <3> QED
      BY <3>1, <3>2, <3>3
  <2>2. CASE o \notin Int
    <3>1. Times(o, m) = Inf
      BY <1>2, <1>6, <2>1, <2>2, DoublesAssumption DEF Less
    <3> QED
      BY <1>3, <2>1, <3>1, DoublesAssumption DEF Less
  <2>3. CASE o \in Int
    <3>1. /\ Times(o, k) = o * k /\ Times(o, m) = o * m
          /\ o * k \in Int /\ o * m \in Int
      BY <1>1, <2>3, ProductIsInt DEF Times
    <3>2. w * 100 < o * k
      BY <1>2, <2>1, <3>1, DoublesAssumption DEF Less
    <3> DEFINE t == o * (100 - StopPct)
    <3>3. t \in Int /\ o * k = t * Unit /\ o * m = t * 999
      BY <2>3, MoneyAssumption DEF k, m, FeeNum
    <3> HIDE DEF t
    <3>4. t * Unit \in Int /\ w * 100 < t * Unit
      BY <3>1, <3>2, <3>3
    <3>5. Unit * (s * 100000) <= w * 100 * 999
      BY <1>4, <1>8, <2>1, MoneyAssumption DEF FeeNum, FeeDen
    <3>6. Unit * (t * 999) = t * Unit * 999
      BY <3>3, MoneyAssumption
    <3>7. Unit * (s * 100000) < Unit * (t * 999)
      <4>1. Unit * (s * 100000) \in Int
        BY <2>1, MoneyAssumption
      <4> QED
        BY <1>8, <3>4, <3>5, <3>6, <4>1
    <3>8. s * 100000 < t * 999
      <4>1. t * 999 \in Int /\ s * 100000 \in Int
        BY <2>1, <3>3
      <4> QED
        BY <3>7, <4>1, MoneyAssumption, CancelFactor
    <3>9. s * (100 * FeeDen) < o * m
      BY <2>1, <3>1, <3>3, <3>8 DEF FeeDen
    <3> QED
      BY <1>3, <2>1, <3>1, <3>9, DoublesAssumption DEF Less
  <2> QED
    BY <2>2, <2>3
<1> QED
  BY <1>7, <1>8

(* With a take-profit of at least one percent, a gain is a gain: the fee   *)
(* of the sale does not eat it.                                            *)
THEOREM GainKeepsCapital ==
  ASSUME TakePct >= 1, NEW o \in Nat, NEW c \in Nat, Gained(o, c)
  PROVE  c >= o
<1> DEFINE m == (100 + TakePct) * FeeNum
<1>1. m \in Nat \ {0} /\ 100 * FeeDen \in Nat \ {0}
  BY MoneyFacts, ProductIsPositive DEF FeeNum, FeeDen
<1>2. /\ Times(c + 1, 100 * FeeDen) = (c + 1) * (100 * FeeDen)
      /\ (c + 1) * (100 * FeeDen) \in Int
      /\ Times(o, m) = o * m /\ o * m \in Int
  <2>1. Times(c + 1, 100 * FeeDen) = (c + 1) * (100 * FeeDen)
    BY <1>1 DEF Times, FeeDen
  <2>2. Times(o, m) = o * m /\ o * m \in Int
    BY <1>1, ProductIsInt DEF Times
  <2> QED
    BY <2>1, <2>2 DEF FeeDen
<1>3. (c + 1) * (100 * FeeDen) >= o * m
  <2>1. AtLeast(Times(c + 1, 100 * FeeDen), Times(o, m))
    BY DEF Gained, RoundedUp
  <2> QED
    BY <1>2, <2>1 DEF AtLeast, Less
<1>4. m >= 101 * 999
  BY MoneyAssumption DEF FeeNum
<1> HIDE DEF m
<1>5. o * m >= o * (101 * 999)
  <2>1. m - 101 * 999 \in Nat
    BY <1>1, <1>4
  <2>2. o * (m - 101 * 999) \in Nat
    BY <2>1, ProductIsNat
  <2>3. o * m = o * (101 * 999) + o * (m - 101 * 999)
    BY <1>1
  <2> QED
    BY <2>2, <2>3
<1>6. (c + 1) * 100000 >= o * 100899
  BY <1>2, <1>3, <1>5 DEF FeeDen
<1> QED
  BY <1>6

(* Bought at p, a position is not below the stop at p or above, when the   *)
(* part of the capital that the stop-loss gives up, less the fee, is worth *)
(* the unit of coin that rounding may cost.                                *)
THEOREM BoughtAboveStop ==
  ASSUME NEW o \in Nat, NEW p \in Nat \ {0}, NEW c \in Nat, p <= c,
         (10 * StopPct - 1) * (o * Unit) >= 1000 * p
  PROVE  ~HitsStop(Coins(o, p), c, o)
<1> DEFINE x == o * Unit
           q == Coins(o, p)
<1>1. x \in Nat /\ StopPct \in 0 .. 100
  BY MoneyAssumption, ProductIsNat
<1>2. q \in Nat /\ q = (o * (Unit * FeeNum)) \div (p * FeeDen)
  BY CoinsOfQuote
<1>3. o * (Unit * FeeNum) \in Nat /\ p * FeeDen \in Nat \ {0}
  BY MoneyFacts, ProductIsNat, ProductIsPositive DEF FeeDen
<1>4. q \in Nat /\ x * 999 < (q + 1) * (p * 1000)
  <2> DEFINE a == o * (Unit * FeeNum)
             d == p * FeeDen
  <2>1. a \in Nat /\ d \in Nat \ {0} /\ q = a \div d /\ q \in Nat
    BY <1>2, <1>3
  <2>2. a = x * 999 /\ d = p * 1000
    BY MoneyAssumption DEF FeeNum, FeeDen
  <2> HIDE DEF a, d, q
  <2>3. a \div d \in Nat /\ a < (a \div d + 1) * d
    BY <2>1, DivisionBounds
  <2> QED
    BY <2>1, <2>2, <2>3
<1> HIDE DEF x, q
<1>5. q * p \in Nat /\ q * c \in Nat /\ q * p <= q * c
  <2>1. q * (c - p) \in Nat /\ q * c = q * p + q * (c - p)
    BY <1>4, ProductIsNat
  <2> QED
    BY <1>4, <2>1, ProductIsNat
<1>6. x * 999 < 1000 * (q * p) + 1000 * p
  BY <1>4
<1>7. (10 * StopPct - 1) * x >= 1000 * p
  BY DEF x
<1>8. (10 * StopPct - 1) * x = 10 * (StopPct * x) - x /\ StopPct * x \in Nat
  BY <1>1, ProductIsNat
<1>9. x * (100 - StopPct) = 100 * x - StopPct * x
  BY <1>1
<1>10. q * c * 100 >= x * (100 - StopPct)
  BY <1>1, <1>5, <1>6, <1>7, <1>8, <1>9
<1>11. /\ Worth(q, c) = q * c /\ q * c \in Int
       /\ Times(q * c, 100) = q * c * 100 /\ q * c * 100 \in Int
  BY <1>4, <1>5 DEF Worth, Times
<1>12. /\ Times(o, (100 - StopPct) * Unit) = o * ((100 - StopPct) * Unit)
       /\ o * ((100 - StopPct) * Unit) = x * (100 - StopPct)
       /\ x * (100 - StopPct) \in Int
  <2>1. (100 - StopPct) * Unit \in Int
    BY MoneyFacts
  <2>2. o * ((100 - StopPct) * Unit) = x * (100 - StopPct)
    BY <1>1, MoneyAssumption DEF x
  <2>3. x * (100 - StopPct) \in Int
    BY <1>1, ProductIsInt
  <2> QED
    BY <2>1, <2>2, <2>3 DEF Times
<1>13. ~Less(q * c * 100, x * (100 - StopPct))
  <2> DEFINE y == x * (100 - StopPct)
             z == q * c * 100
  <2>1. y \in Int /\ z \in Int /\ z >= y
    BY <1>10, <1>11, <1>12
  <2> HIDE DEF y, z
  <2>2. ~Less(z, y)
    BY <2>1, DoublesAssumption DEF Less
  <2> QED
    BY <2>2 DEF y, z
<1>14. ~HitsStop(q, c, o)
  BY <1>11, <1>12, <1>13 DEF HitsStop
<1> QED
  BY <1>14 DEF q
==============================================================================
