-------------------------- MODULE IndicatorProofs --------------------------
(***************************************************************************)
(* Proofs about the indicators: that rounding never accumulates, that an   *)
(* EMA lies within what it averages, and what the buy signal means, for    *)
(* every period, price, memory content and length of history.              *)
(*                                                                         *)
(* EMA, the loop of RSI and the exact average are recursive functions.     *)
(* Each is shown to be the solution of its equation (RecursionExists), and *)
(* what a step keeps the recursion keeps (RecursionKeeps); both rest on    *)
(* the smallest element of a set of numbers (SmallestOf).                  *)
(***************************************************************************)
EXTENDS MCTechnicalAnalysis, WellFoundedInduction, TLAPS

----------------------------------------------------------------------------
(* Recursion up to a bound.                                                *)

(* A set of numbers has a smallest element.                                *)
LEMMA SmallestOf ==
  ASSUME NEW T, T \subseteq Nat, T # {}
  PROVE  \E m \in T : \A k \in T : m <= k
<1>1. PICK m \in T : \A y \in T : <<y, m>> \notin OpToRel(<, Nat)
  BY WFMin, NatLessThanWellFounded, Zenon
<1>2. \A y \in T : ~(y < m)
  BY <1>1, Zenon DEF OpToRel
<1> QED
  BY <1>2

(* Induction up to a bound, on the set of numbers for which a fact holds.  *)
LEMMA UpTo ==
  ASSUME NEW m \in Nat, NEW T, 0 \in T,
         \A k \in 1 .. m : k - 1 \in T => k \in T
  PROVE  \A k \in 0 .. m : k \in T
<1> SUFFICES ASSUME (0 .. m) \ T # {} PROVE FALSE
  OBVIOUS
<1>1. (0 .. m) \ T \subseteq Nat
  OBVIOUS
<1>2. PICK k \in (0 .. m) \ T : \A j \in (0 .. m) \ T : k <= j
  BY <1>1, SmallestOf
<1>3. k # 0
  BY <1>2
<1>4. k - 1 \in T /\ k \in 1 .. m
  BY <1>2, <1>3
<1> QED
  BY <1>2, <1>4

(* A recursion on the natural numbers up to m: f starts at v and takes     *)
(* the step F[k] at k.                                                     *)
Recursion(m, v, F, f) ==
  f[0] = v /\ \A k \in 1 .. m : f[k] = F[k][f[k - 1]]

Recursive(m, V, v, F) == \E f \in [0 .. m -> V] : Recursion(m, v, F, f)

(* It has a solution.                                                      *)
LEMMA RecursionExists ==
  ASSUME NEW m \in Nat, NEW V, NEW v \in V, NEW F \in [1 .. m -> [V -> V]]
  PROVE  Recursive(m, V, v, F)
<1> DEFINE Solves(k, f) == /\ f[0] = v
                           /\ \A j \in 1 .. k : f[j] = F[j][f[j - 1]]
           T == {k \in 0 .. m : \E f \in [0 .. k -> V] : Solves(k, f)}
<1>1. 0 \in T
  <2>1. [j \in 0 .. 0 |-> v] \in [0 .. 0 -> V] /\ Solves(0, [j \in 0 .. 0 |-> v])
    OBVIOUS
  <2>2. 0 \in 0 .. m
    OBVIOUS
  <2> QED
    BY <2>1, <2>2
<1>2. ASSUME NEW k \in 1 .. m, k - 1 \in T PROVE k \in T
  <2>1. PICK f \in [0 .. k - 1 -> V] : Solves(k - 1, f)
    BY <1>2
  <2> DEFINE x == F[k][f[k - 1]]
             g == [j \in 0 .. k |-> IF j = k THEN x ELSE f[j]]
  <2>2. k \in Nat /\ k # 0 /\ k - 1 \in 0 .. k - 1 /\ k \in 0 .. m
    OBVIOUS
  <2>3. f[k - 1] \in V
    BY <2>2
  <2>4. x \in V
    BY <2>3
  <2>5. ASSUME NEW j \in 0 .. k PROVE (IF j = k THEN x ELSE f[j]) \in V
    <3>1. CASE j = k
      BY <2>4, <3>1
    <3>2. CASE j # k
      <4>1. j \in 0 .. k - 1
        BY <3>2
      <4> QED
        BY <3>2, <4>1
    <3> QED
      BY <3>1, <3>2
  <2>6. g \in [0 .. k -> V]
    BY <2>5
  <2>7. g[k] = x /\ \A j \in 0 .. k - 1 : g[j] = f[j]
    <3>1. k \in 0 .. k /\ \A j \in 0 .. k - 1 : j \in 0 .. k /\ j # k
      BY <2>2
    <3> QED
      BY <3>1
  <2> HIDE DEF g, x
  <2>8. g[0] = v
    <3>1. 0 \in 0 .. k - 1
      OBVIOUS
    <3> QED
      BY <2>1, <2>7, <3>1
  <2>9. ASSUME NEW j \in 1 .. k PROVE g[j] = F[j][g[j - 1]]
    <3>1. CASE j = k
      BY <2>2, <2>7, <3>1 DEF x
    <3>2. CASE j # k
      <4>1. j \in 1 .. k - 1 /\ j \in 0 .. k - 1 /\ j - 1 \in 0 .. k - 1
        BY <3>2
      <4> QED
        BY <2>1, <2>7, <4>1
    <3> QED
      BY <3>1, <3>2
  <2>10. Solves(k, g)
    BY <2>8, <2>9
  <2> QED
    BY <2>2, <2>6, <2>10
<1> HIDE DEF T
<1>3. \A k \in 0 .. m : k \in T
  BY <1>1, <1>2, UpTo
<1>4. m \in T
  BY <1>3
<1> QED
  BY <1>4 DEF T, Recursive, Recursion

(* What a step keeps, the recursion keeps.                                 *)
LEMMA RecursionKeeps ==
  ASSUME NEW m \in Nat, NEW f, NEW J,
         f[0] \in J[0],
         \A k \in 1 .. m : f[k - 1] \in J[k - 1] => f[k] \in J[k]
  PROVE  \A k \in 0 .. m : f[k] \in J[k]
<1> DEFINE T == {k \in 0 .. m : f[k] \in J[k]}
<1>1. 0 \in T /\ \A k \in 1 .. m : k - 1 \in T => k \in T
  OBVIOUS
<1> HIDE DEF T
<1>2. \A k \in 0 .. m : k \in T
  BY <1>1, UpTo
<1> QED
  BY <1>2 DEF T

----------------------------------------------------------------------------
(* Rounding.                                                               *)

LEMMA NatProduct ==
  ASSUME NEW a \in Nat, NEW b \in Nat
  PROVE  a * b \in Nat
  OBVIOUS

LEMMA PositiveProduct ==
  ASSUME NEW a \in Nat \ {0}, NEW b \in Nat \ {0}
  PROVE  a * b \in Nat \ {0}
  OBVIOUS

LEMMA Division ==
  ASSUME NEW a \in Nat, NEW d \in Nat \ {0}
  PROVE  /\ a \div d \in Nat
         /\ (a \div d) * d <= a
         /\ a < (a \div d + 1) * d
  OBVIOUS

LEMMA Cancel ==
  ASSUME NEW u \in Nat \ {0}, NEW x \in Int, NEW y \in Int, u * x < u * y
  PROVE  x < y
  OBVIOUS

LEMMA ScaledOrder ==
  ASSUME NEW u \in Nat, NEW x \in Int, NEW y \in Int, x <= y
  PROVE  u * x <= u * y
<1>1. u * (y - x) \in Nat /\ u * (y - x) = u * y - u * x
  OBVIOUS
<1> QED
  BY <1>1

LEMMA GridMultiple ==
  ASSUME NEW x \in Nat
  PROVE  x % Grid = 0 <=> \E a \in Nat : x = Grid * a
<1>1. Grid \in Nat \ {0}
  BY GridAssumption DEF GridAssumption
<1>2. x \div Grid \in Nat /\ x = Grid * (x \div Grid) + (x % Grid)
  BY <1>1
<1>3. ASSUME NEW a \in Nat, x = Grid * a PROVE x % Grid = 0
  BY <1>1, <1>3
<1>4. ASSUME x % Grid = 0 PROVE \E a \in Nat : x = Grid * a
  <2> DEFINE a == x \div Grid
  <2>1. a \in Nat /\ x = Grid * a
    BY <1>1, <1>2, <1>4
  <2> HIDE DEF a
  <2> QED
    BY <2>1
<1> QED
  BY <1>3, <1>4

(* accurize keeps within half a grid of what it rounds.                    *)
LEMMA AccurizeRounds ==
  ASSUME NEW num \in Nat, NEW den \in Nat \ {0}
  PROVE  \E q \in Nat :
           /\ accurize(num, den) = Grid * q
           /\ 2 * (den * (Grid * q)) <= 2 * num + Grid * den
           /\ 2 * num + Grid * den < 2 * (den * (Grid * q)) + 2 * (Grid * den)
<1> DEFINE g == Grid * den
           q == (2 * num + g) \div (2 * g)
<1>1. Grid \in Nat \ {0} /\ g \in Nat \ {0}
  BY GridAssumption, PositiveProduct DEF GridAssumption
<1>2. 2 * Grid * den = 2 * g
  BY <1>1
<1>3. accurize(num, den) = Grid * q
  BY <1>2 DEF accurize
<1> HIDE DEF g
<1>4. q \in Nat /\ q * (2 * g) <= 2 * num + g /\ 2 * num + g < (q + 1) * (2 * g)
  <2>1. 2 * num + g \in Nat /\ 2 * g \in Nat \ {0}
    BY <1>1
  <2> QED
    BY <2>1, Division
<1> HIDE DEF q
<1>5. q * (2 * g) = 2 * (q * g) /\ (q + 1) * (2 * g) = 2 * (q * g) + 2 * g
  BY <1>1, <1>4
<1>6. q * g = den * (Grid * q)
  BY <1>1, <1>4 DEF g
<1> QED
  BY <1>1, <1>3, <1>4, <1>5, <1>6 DEF g

(* Rounding to the grid does not leave an interval that ends on it.        *)
LEMMA AccurizeStays ==
  ASSUME NEW num \in Nat, NEW den \in Nat \ {0}, NEW lo \in Nat, NEW hi \in Nat,
         lo % Grid = 0, hi % Grid = 0, den * lo <= num, num <= den * hi
  PROVE  accurize(num, den) \in lo .. hi /\ accurize(num, den) % Grid = 0
<1>1. Grid \in Nat \ {0}
  BY GridAssumption DEF GridAssumption
<1>2. PICK q \in Nat :
        /\ accurize(num, den) = Grid * q
        /\ 2 * (den * (Grid * q)) <= 2 * num + Grid * den
        /\ 2 * num + Grid * den < 2 * (den * (Grid * q)) + 2 * (Grid * den)
  BY AccurizeRounds
<1>3. PICK a \in Nat : lo = Grid * a
  BY GridMultiple
<1>4. PICK b \in Nat : hi = Grid * b
  BY GridMultiple
<1> DEFINE g == Grid * den
<1>5. g \in Nat \ {0}
  BY <1>1, PositiveProduct
<1>6. den * (Grid * q) = g * q /\ den * lo = g * a /\ den * hi = g * b
  BY <1>1, <1>3, <1>4
<1> HIDE DEF g
<1>7. 2 * (g * q) <= 2 * num + g /\ 2 * num + g < 2 * (g * q) + 2 * g
      /\ g * a <= num /\ num <= g * b
  BY <1>2, <1>6 DEF g
<1>8. g * a < g * (q + 1) /\ g * q < g * (b + 1)
  <2>1. g * (q + 1) = g * q + g /\ g * (b + 1) = g * b + g
    BY <1>5
  <2>2. g * q \in Nat /\ g * a \in Nat /\ g * b \in Nat
    BY <1>5
  <2> QED
    BY <1>5, <1>7, <2>1, <2>2
<1>9. a <= q /\ q <= b
  <2>1. a < q + 1
    BY <1>5, <1>8, Cancel
  <2>2. q < b + 1
    BY <1>5, <1>8, Cancel
  <2> QED
    BY <2>1, <2>2
<1>10. Grid * a <= Grid * q /\ Grid * q <= Grid * b /\ Grid * q \in Nat
  BY <1>1, <1>9, ScaledOrder
<1> QED
  BY <1>2, <1>3, <1>4, <1>10, GridMultiple

LEMMA AccurizeType ==
  ASSUME NEW num \in Nat, NEW den \in Nat \ {0}
  PROVE  accurize(num, den) \in Nat
BY AccurizeRounds, GridAssumption, NatProduct DEF GridAssumption

(* A multiple of the grid is not moved.                                    *)
LEMMA AccurizeOnGrid ==
  ASSUME NEW x \in Nat, x % Grid = 0
  PROVE  accurize(x, 1) = x
<1>1. accurize(x, 1) \in x .. x
  BY AccurizeStays
<1> QED
  BY <1>1

LEMMA StepType ==
  ASSUME NEW k \in Nat \ {0}, NEW cur \in Nat, NEW prev \in Nat
  PROVE  EMAStep(k, cur, prev) \in Nat
<1>1. 2 * cur + (k - 1) * prev \in Nat /\ k + 1 \in Nat \ {0}
  BY NatProduct
<1> QED
  BY <1>1, AccurizeType DEF EMAStep

(* A step stays between what it averages.                                  *)
LEMMA StepStays ==
  ASSUME NEW k \in Nat \ {0}, NEW lo \in Nat, NEW hi \in Nat,
         lo % Grid = 0, hi % Grid = 0,
         NEW cur \in lo .. hi, NEW prev \in lo .. hi
  PROVE  /\ EMAStep(k, cur, prev) \in lo .. hi
         /\ EMAStep(k, cur, prev) % Grid = 0
<1> DEFINE w == k - 1
           num == 2 * cur + w * prev
<1>1. w \in Nat /\ cur \in Nat /\ prev \in Nat
  OBVIOUS
<1>2. w * lo <= w * prev /\ w * prev <= w * hi
  BY <1>1, ScaledOrder
<1>3. (k + 1) * lo = 2 * lo + w * lo /\ (k + 1) * hi = 2 * hi + w * hi
  OBVIOUS
<1>4. w * prev \in Nat /\ w * lo \in Nat /\ w * hi \in Nat
  BY <1>1, NatProduct
<1> HIDE DEF w
<1>5. num \in Nat /\ (k + 1) * lo <= num /\ num <= (k + 1) * hi
  BY <1>1, <1>2, <1>3, <1>4
<1>6. EMAStep(k, cur, prev) = accurize(num, k + 1)
  BY DEF EMAStep, w
<1> HIDE DEF num
<1> QED
  BY <1>5, <1>6, AccurizeStays

----------------------------------------------------------------------------
(* EMA, unfolded: the recursion of EMA has a solution, and EMA is it.      *)

EMABody(k0, d, past, ema) ==
  [k \in 0 .. Len(d) |->
     IF k = 0 THEN d[1]
     ELSE EMAStep(k0, Append(d, past)[k + 1], accurize(ema[k - 1], 1))]

LEMMA EMABodyAt ==
  ASSUME NEW k0, NEW d, NEW past, NEW f, f = EMABody(k0, d, past, f), Len(d) \in Nat
  PROVE  /\ f = [k \in 0 .. Len(d) |-> f[k]]
         /\ f[0] = d[1]
         /\ \A k \in 1 .. Len(d) :
              f[k] = EMAStep(k0, Append(d, past)[k + 1], accurize(f[k - 1], 1))
<1>1. \A k \in 0 .. Len(d) :
        f[k] = IF k = 0 THEN d[1]
               ELSE EMAStep(k0, Append(d, past)[k + 1], accurize(f[k - 1], 1))
  BY DEF EMABody
<1>2. 0 \in 0 .. Len(d) /\ \A k \in 1 .. Len(d) : k \in 0 .. Len(d) /\ k # 0
  OBVIOUS
<1>3. f = [k \in 0 .. Len(d) |-> f[k]]
  BY DEF EMABody
<1> QED
  BY <1>1, <1>2, <1>3

LEMMA EMAIsSolution ==
  ASSUME NEW k0 \in Nat \ {0}, NEW d \in Seq(Nat), d # << >>, NEW past \in Nat
  PROVE  \E ema \in [0 .. Len(d) -> Nat] :
           /\ ema = EMABody(k0, d, past, ema)
           /\ \A pos : EMA(k0, d, pos, past) = ema[pos]
<1> DEFINE m == Len(d)
           v == d[1]
           read == Append(d, past)
           F == [k \in 1 .. m |->
                   [e \in Nat |-> EMAStep(k0, read[k + 1], accurize(e, 1))]]
<1>1. m \in Nat /\ v \in Nat /\ \A k \in 1 .. m : read[k + 1] \in Nat
  OBVIOUS
<1> HIDE DEF m, v, read
<1>2. ASSUME NEW k \in 1 .. m, NEW e \in Nat
      PROVE  EMAStep(k0, read[k + 1], accurize(e, 1)) \in Nat
  <2>1. accurize(e, 1) \in Nat
    <3>1. 1 \in Nat \ {0}
      OBVIOUS
    <3> QED
      BY <3>1, AccurizeType
  <2> QED
    BY <1>1, <2>1, StepType
<1>3. F \in [1 .. m -> [Nat -> Nat]]
  BY <1>2
<1>4. \A k \in 1 .. m, e \in Nat :
        F[k][e] = EMAStep(k0, read[k + 1], accurize(e, 1))
  OBVIOUS
<1> HIDE DEF F
<1>5. PICK f \in [0 .. m -> Nat] :
        f[0] = v /\ \A k \in 1 .. m : f[k] = F[k][f[k - 1]]
  <2>1. Recursive(m, Nat, v, F)
    BY <1>1, <1>3, RecursionExists
  <2> QED
    BY <2>1 DEF Recursive, Recursion
<1>6. ASSUME NEW k \in 1 .. m PROVE k - 1 \in 0 .. m /\ k \in 0 .. m /\ k # 0
  BY <1>1
<1>7. \A k \in 1 .. m : f[k] = EMAStep(k0, read[k + 1], accurize(f[k - 1], 1))
  BY <1>4, <1>5, <1>6
<1>8. f = EMABody(k0, d, past, f)
  <2>1. ASSUME NEW k \in 0 .. m
        PROVE  f[k] = IF k = 0 THEN v
                      ELSE EMAStep(k0, read[k + 1], accurize(f[k - 1], 1))
    <3>1. k = 0 \/ k \in 1 .. m
      BY <1>1
    <3> QED
      BY <1>5, <1>6, <1>7, <3>1
  <2> QED
    BY <2>1 DEF EMABody, m, v, read
<1> DEFINE ema == CHOOSE e : e = EMABody(k0, d, past, e)
<1>9. ema = EMABody(k0, d, past, ema)
  BY <1>8, Zenon
<1>10. \A pos : EMA(k0, d, pos, past) = ema[pos]
  BY DEF EMA, EMABody
<1> HIDE DEF ema
<1>11. /\ ema = [k \in 0 .. m |-> ema[k]]
       /\ ema[0] = v
       /\ \A k \in 1 .. m : ema[k] = EMAStep(k0, read[k + 1], accurize(ema[k - 1], 1))
  BY <1>1, <1>9, EMABodyAt DEF m, v, read
<1>12. \A k \in 0 .. m : ema[k] \in Nat
  <2> DEFINE J == [k \in 0 .. m |-> Nat]
  <2>1. \A k \in 0 .. m : J[k] = Nat
    OBVIOUS
  <2> HIDE DEF J
  <2>2. ema[0] \in J[0]
    <3>1. 0 \in 0 .. m
      BY <1>1
    <3> QED
      BY <1>1, <1>11, <2>1, <3>1
  <2>3. \A k \in 1 .. m : ema[k - 1] \in J[k - 1] => ema[k] \in J[k]
    BY <1>2, <1>6, <1>11, <2>1
  <2>4. \A k \in 0 .. m : ema[k] \in J[k]
    BY <1>1, <2>2, <2>3, RecursionKeeps
  <2> QED
    BY <2>1, <2>4
<1>13. ema \in [0 .. m -> Nat]
  BY <1>11, <1>12
<1> QED
  BY <1>9, <1>10, <1>13 DEF m

(* The definition of EMA in ta.hpp, as an equation.                        *)
LEMMA EMAUnfolds ==
  ASSUME NEW k0 \in Nat \ {0}, NEW d \in Seq(Nat), d # << >>, NEW past \in Nat
  PROVE  /\ EMA(k0, d, 0, past) = d[1]
         /\ \A k \in 0 .. Len(d) : EMA(k0, d, k, past) \in Nat
         /\ \A k \in 1 .. Len(d) :
              EMA(k0, d, k, past) =
                EMAStep(k0, Append(d, past)[k + 1],
                        accurize(EMA(k0, d, k - 1, past), 1))
<1>1. PICK ema \in [0 .. Len(d) -> Nat] :
        /\ ema = EMABody(k0, d, past, ema)
        /\ \A pos : EMA(k0, d, pos, past) = ema[pos]
  BY EMAIsSolution
<1>2. Len(d) \in Nat
  OBVIOUS
<1>3. /\ ema[0] = d[1]
      /\ \A k \in 1 .. Len(d) :
           ema[k] = EMAStep(k0, Append(d, past)[k + 1], accurize(ema[k - 1], 1))
  BY <1>1, <1>2, EMABodyAt
<1> QED
  BY <1>1, <1>3

LEMMA EMAOfNothing ==
  ASSUME NEW k0, NEW pos, NEW past
  PROVE  EMA(k0, << >>, pos, past) = 0
BY DEF EMA

----------------------------------------------------------------------------
(* UpDown, unfolded.                                                       *)

Vectors(S) == [up : Seq(S), down : Seq(S)]

Empty == [up |-> << >>, down |-> << >>]

UpDownBody(moves, pushed) ==
  [k \in 0 .. Len(moves) |->
     IF k = 0 THEN Empty ELSE Push(pushed[k - 1], moves[k])]

(* A push appends to one vector and leaves the other, or appends a 0 to    *)
(* both.                                                                   *)
LEMMA PushFacts ==
  ASSUME NEW S, 0 \in S, NEW v \in Vectors(S), NEW m, m.close \in S
  PROVE  /\ Push(v, m) \in Vectors(S)
         /\ m.close > m.prev => /\ Push(v, m).up = Append(v.up, m.close)
                               /\ Push(v, m).down = v.down
         /\ m.close < m.prev /\ ~(m.close > m.prev) =>
              /\ Push(v, m).up = v.up
              /\ Push(v, m).down = Append(v.down, m.close)
<1> DEFINE T == Seq(S)
           x == Append(v.up, m.close)
           y == Append(v.down, m.close)
           z == Append(v.up, 0)
           w == Append(v.down, 0)
<1>1. v \in [up : T, down : T] /\ v.up \in T /\ v.down \in T
  BY DEF Vectors
<1>2. x \in T /\ y \in T /\ z \in T /\ w \in T
  BY <1>1
<1>3. Push(v, m) = IF m.close > m.prev THEN [v EXCEPT !.up = x]
                   ELSE IF m.close < m.prev THEN [v EXCEPT !.down = y]
                   ELSE [up |-> z, down |-> w]
  BY DEF Push
<1> HIDE DEF T, x, y, z, w
<1>4. LET u == [v EXCEPT !.up = x]
      IN u \in [up : T, down : T] /\ u.up = x /\ u.down = v.down
  BY <1>1, <1>2
<1>5. LET u == [v EXCEPT !.down = y]
      IN u \in [up : T, down : T] /\ u.up = v.up /\ u.down = y
  BY <1>1, <1>2
<1>6. [up |-> z, down |-> w] \in [up : T, down : T]
  BY <1>2
<1>7. Push(v, m) \in [up : T, down : T]
  BY <1>3, <1>4, <1>5, <1>6, Zenon
<1>8. m.close > m.prev => Push(v, m).up = x /\ Push(v, m).down = v.down
  BY <1>3, <1>4, Zenon
<1>9. m.close < m.prev /\ ~(m.close > m.prev) =>
        Push(v, m).up = v.up /\ Push(v, m).down = y
  BY <1>3, <1>5, Zenon
<1> QED
  BY <1>7, <1>8, <1>9 DEF Vectors, T, x, y

LEMMA UpDownIsSolution ==
  ASSUME NEW S, 0 \in S, NEW moves, Len(moves) \in Nat,
         \A k \in 1 .. Len(moves) : moves[k].close \in S
  PROVE  \E pushed :
           /\ \A k \in 0 .. Len(moves) : pushed[k] \in Vectors(S)
           /\ pushed[0] = Empty
           /\ \A k \in 1 .. Len(moves) : pushed[k] = Push(pushed[k - 1], moves[k])
           /\ UpDown(moves) = pushed[Len(moves)]
<1> DEFINE m == Len(moves)
           F == [k \in 1 .. m |-> [v \in Vectors(S) |-> Push(v, moves[k])]]
<1>1. m \in Nat /\ Empty \in Vectors(S)
  BY DEF Empty, Vectors
<1>2. \A k \in 1 .. m, v \in Vectors(S) : Push(v, moves[k]) \in Vectors(S)
  BY PushFacts
<1>3. F \in [1 .. m -> [Vectors(S) -> Vectors(S)]]
  BY <1>2
<1>4. \A k \in 1 .. m, v \in Vectors(S) : F[k][v] = Push(v, moves[k])
  OBVIOUS
<1> HIDE DEF F
<1>5. PICK f \in [0 .. m -> Vectors(S)] :
        f[0] = Empty /\ \A k \in 1 .. m : f[k] = F[k][f[k - 1]]
  <2>1. Recursive(m, Vectors(S), Empty, F)
    BY <1>1, <1>3, RecursionExists
  <2> QED
    BY <2>1 DEF Recursive, Recursion
<1>6. ASSUME NEW k \in 1 .. m PROVE k - 1 \in 0 .. m /\ k \in 0 .. m /\ k # 0
  BY <1>1
<1>7. \A k \in 1 .. m : f[k] = Push(f[k - 1], moves[k])
  BY <1>4, <1>5, <1>6
<1>8. f = UpDownBody(moves, f)
  <2>1. ASSUME NEW k \in 0 .. m
        PROVE  f[k] = IF k = 0 THEN Empty ELSE Push(f[k - 1], moves[k])
    <3>1. k = 0 \/ k \in 1 .. m
      BY <1>1
    <3> QED
      BY <1>5, <1>6, <1>7, <3>1
  <2> QED
    BY <2>1 DEF UpDownBody
<1> DEFINE pushed == CHOOSE p : p = UpDownBody(moves, p)
<1>9. pushed = UpDownBody(moves, pushed)
  BY <1>8, Zenon
<1>10. UpDown(moves) = pushed[m]
  BY DEF UpDown, UpDownBody, Empty
<1> HIDE DEF pushed
<1>11. \A k \in 0 .. m :
         pushed[k] = IF k = 0 THEN Empty ELSE Push(pushed[k - 1], moves[k])
  BY <1>9 DEF UpDownBody
<1>12. 0 \in 0 .. m /\ \A k \in 1 .. m : k \in 0 .. m /\ k # 0
  BY <1>1
<1>13. pushed[0] = Empty /\ \A k \in 1 .. m : pushed[k] = Push(pushed[k - 1], moves[k])
  BY <1>11, <1>12
<1>14. \A k \in 0 .. m : pushed[k] \in Vectors(S)
  <2> DEFINE J == [k \in 0 .. m |-> Vectors(S)]
  <2>1. \A k \in 0 .. m : J[k] = Vectors(S)
    OBVIOUS
  <2> HIDE DEF J
  <2>2. pushed[0] \in J[0]
    BY <1>1, <1>12, <1>13, <2>1
  <2>3. \A k \in 1 .. m : pushed[k - 1] \in J[k - 1] => pushed[k] \in J[k]
    BY <1>2, <1>6, <1>13, <2>1
  <2>4. \A k \in 0 .. m : pushed[k] \in J[k]
    BY <1>1, <2>2, <2>3, RecursionKeeps
  <2> QED
    BY <2>1, <2>4
<1> QED
  BY <1>10, <1>13, <1>14

LEMMA UpDownType ==
  ASSUME NEW S, 0 \in S, NEW moves, Len(moves) \in Nat,
         \A k \in 1 .. Len(moves) : moves[k].close \in S
  PROVE  UpDown(moves) \in Vectors(S)
<1>1. Len(moves) \in 0 .. Len(moves)
  OBVIOUS
<1> QED
  BY <1>1, UpDownIsSolution

(* What Moves returns.                                                     *)
LEMMA MovesFacts ==
  ASSUME NEW k0 \in Nat \ {0}, NEW S, NEW d \in Seq(S), NEW before,
         NEW moves, moves = Moves(k0, d, before)
  PROVE  /\ Len(moves) \in Nat
         /\ \A k \in 1 .. Len(moves) : moves[k].close \in S
         /\ Len(d) < k0 => moves = << >>
         /\ Len(d) >= k0 => Len(moves) = k0
         /\ Len(d) > k0 =>
              \A k \in 1 .. k0 :
                moves[k] = [close |-> d[Len(d) - k0 + k],
                            prev |-> d[(Len(d) - k0 + k) - 1]]
<1>1. CASE Len(d) < k0
  <2>1. moves = << >>
    BY <1>1 DEF Moves
  <2>2. Len(moves) = 0
    BY <2>1
  <2> QED
    BY <1>1, <2>1, <2>2
<1>2. CASE Len(d) >= k0
  <2> DEFINE move(k) ==
        [close |-> d[Len(d) - k0 + k],
         prev |-> IF Len(d) - k0 + k = 1 THEN before ELSE d[(Len(d) - k0 + k) - 1]]
  <2>1. moves = [k \in 1 .. k0 |-> move(k)]
    BY <1>2 DEF Moves
  <2>2. Len(moves) = k0
    BY <2>1
  <2>3. ASSUME NEW k \in 1 .. k0
        PROVE  /\ moves[k].close \in S
               /\ Len(d) > k0 => moves[k] = [close |-> d[Len(d) - k0 + k],
                                           prev |-> d[(Len(d) - k0 + k) - 1]]
    <3>1. Len(d) - k0 + k \in 1 .. Len(d) /\ (Len(d) > k0 => Len(d) - k0 + k # 1)
      BY <1>2
    <3>2. moves[k] = move(k)
      BY <2>1
    <3> QED
      BY <3>1, <3>2
  <2> QED
    BY <1>2, <2>2, <2>3
<1> QED
  BY <1>1, <1>2

----------------------------------------------------------------------------
(* The vector.                                                             *)

THEOREM VectorTypeCorrect == Spec => [](n \in Periods /\ data \in Seq(Prices))
<1>1. Init => n \in Periods /\ data \in Seq(Prices)
  BY DEF Init
<1>2. n \in Periods /\ data \in Seq(Prices) /\ [Next]_vars
        => (n \in Periods /\ data \in Seq(Prices))'
  <2> SUFFICES ASSUME n \in Periods, data \in Seq(Prices), [Next]_vars
               PROVE  n' \in Periods /\ data' \in Seq(Prices)
    OBVIOUS
  <2>1. ASSUME NEW p \in Prices, PushBack(p)
        PROVE  n' \in Periods /\ data' \in Seq(Prices)
    <3>1. Append(data, p) \in Seq(Prices) /\ Append(data, p) # << >>
      <4>1. Len(Append(data, p)) = Len(data) + 1 /\ Len(data) \in Nat
        OBVIOUS
      <4>2. Len(<< >>) = 0
        OBVIOUS
      <4> QED
        BY <4>1, <4>2
    <3>2. Tail(Append(data, p)) \in Seq(Prices)
      BY <3>1
    <3> QED
      BY <2>1, <3>1, <3>2 DEF PushBack
  <2>2. CASE UNCHANGED vars
    BY <2>2 DEF vars
  <2> QED
    BY <2>1, <2>2 DEF Next
<1> QED
  BY <1>1, <1>2, PTL DEF Spec

LEMMA WiderSeq ==
  ASSUME NEW S, NEW T, S \subseteq T, NEW d \in Seq(S)
  PROVE  d \in Seq(T)
<1>1. d \in [1 .. Len(d) -> S] /\ Len(d) \in Nat
  OBVIOUS
<1>2. d \in [1 .. Len(d) -> T]
  BY <1>1
<1> QED
  BY <1>1, <1>2

(* What the assumptions say of a vector.                                   *)
LEMMA VectorFacts ==
  ASSUME n \in Periods, data \in Seq(Prices)
  PROVE  /\ n \in Nat \ {0}
         /\ Len(data) \in Nat
         /\ \A k \in 1 .. Len(data) : data[k] \in Prices /\ data[k] \in Nat \ {0}
         /\ data \in Seq(Nat)
         /\ ToSet(data) = {data[k] : k \in 1 .. Len(data)}
<1>1. Prices \subseteq Nat \ {0} /\ Periods \subseteq Nat \ {0}
  BY PricesAssumption, PeriodsAssumption DEF PricesAssumption, PeriodsAssumption
<1>2. data \in [1 .. Len(data) -> Prices] /\ Len(data) \in Nat
  OBVIOUS
<1>3. \A k \in 1 .. Len(data) : data[k] \in Prices /\ data[k] \in Nat \ {0}
  BY <1>1, <1>2
<1>4. data \in Seq(Nat)
  <2>1. Prices \subseteq Nat
    BY <1>1
  <2> QED
    BY <2>1, WiderSeq
<1>5. ToSet(data) = {data[k] : k \in 1 .. Len(data)}
  BY <1>2 DEF ToSet
<1> QED
  BY <1>1, <1>2, <1>3, <1>4, <1>5

LEMMA JunkFacts ==
  ASSUME NEW j \in Junk
  PROVE  j.before \in Nat /\ j.up \in Nat /\ j.down \in Nat
         /\ j.before \in JunkReads /\ j.up \in JunkReads /\ j.down \in JunkReads
BY PricesAssumption DEF PricesAssumption, Junk

(* RSI's vectors are of what they are filled with.                         *)
LEMMA CallsType ==
  ASSUME n \in Periods, data \in Seq(Prices), NEW before, NEW S, 0 \in S,
         ToSet(data) \subseteq S
  PROVE  UpDown(Moves(n, data, before)) \in Vectors(S)
<1> DEFINE moves == Moves(n, data, before)
<1>1. data \in Seq(S)
  BY VectorFacts
<1>2. n \in Nat \ {0}
  BY VectorFacts
<1>3. Len(moves) \in Nat /\ \A k \in 1 .. Len(moves) : moves[k].close \in S
  BY <1>1, <1>2, MovesFacts
<1> HIDE DEF moves
<1>4. UpDown(moves) \in Vectors(S)
  BY <1>3, UpDownType
<1> QED
  BY <1>4 DEF moves

LEMMA OversoldIs ==
  ASSUME NEW k0, NEW d, NEW j, NEW v, v = UpDown(Moves(k0, d, j.before))
  PROVE  Oversold(k0, d, j) =
           RSIBelow(EMA(k0, v.up, Len(v.up), j.up),
                    EMA(k0, v.down, Len(v.down), j.down))
BY DEF Oversold, EMACalls

(* A history shorter than n candles is always a buy signal, for every      *)
(* period, price and memory content.                                       *)
THEOREM ShortHistoryIsOversold == Spec => []ShortHistorySignalsBuy
<1>1. ASSUME n \in Periods, data \in Seq(Prices) PROVE ShortHistorySignalsBuy
  <2> SUFFICES ASSUME Len(data) < n, NEW j \in Junk PROVE Oversold(n, data, j)
    BY DEF ShortHistorySignalsBuy
  <2> DEFINE v == UpDown(<< >>)
  <2>1. n \in Nat \ {0}
    BY <1>1, VectorFacts
  <2>2. Moves(n, data, j.before) = << >>
    BY <1>1, <2>1, MovesFacts
  <2>3. v = Empty
    <3>1. Len(<< >>) = 0 /\ \A k \in 1 .. Len(<< >>) : <<>>[k].close \in {0}
      OBVIOUS
    <3>2. PICK pushed : pushed[0] = Empty /\ UpDown(<< >>) = pushed[Len(<< >>)]
      BY <3>1, UpDownIsSolution
    <3> QED
      BY <3>1, <3>2
  <2> HIDE DEF v
  <2>4. EMA(n, v.down, Len(v.down), j.down) = 0
    BY <2>3, EMAOfNothing DEF Empty
  <2>5. Oversold(n, data, j) =
          RSIBelow(EMA(n, v.up, Len(v.up), j.up),
                   EMA(n, v.down, Len(v.down), j.down))
    BY <2>2, OversoldIs DEF v
  <2> QED
    BY <2>4, <2>5 DEF RSIBelow
<1> QED
  BY <1>1, VectorTypeCorrect, PTL

----------------------------------------------------------------------------
(* Quotes below the grid.                                                  *)

Tiny == {x \in Nat : 2 * x < Grid}

LEMMA TinyStep ==
  ASSUME NEW k \in Nat \ {0}, NEW cur \in Tiny, NEW x \in Tiny
  PROVE  accurize(x, 1) = 0 /\ EMAStep(k, cur, accurize(x, 1)) = 0
<1>1. Grid \in Nat \ {0}
  BY GridAssumption DEF GridAssumption
<1>2. ASSUME NEW num \in Nat, NEW den \in Nat \ {0}, 2 * num < Grid * den
      PROVE  accurize(num, den) = 0
  <2>1. PICK q \in Nat :
          /\ accurize(num, den) = Grid * q
          /\ 2 * (den * (Grid * q)) <= 2 * num + Grid * den
    BY AccurizeRounds
  <2> DEFINE g == Grid * den
  <2>2. g \in Nat \ {0} /\ den * (Grid * q) = g * q
    BY <1>1, PositiveProduct
  <2>3. 2 * (g * q) < 2 * g
    BY <1>2, <2>1, <2>2
  <2> HIDE DEF g
  <2>4. q = 0
    <3>1. g * q < g * 1
      BY <2>2, <2>3
    <3>2. q < 1
      BY <2>2, <3>1, Cancel
    <3> QED
      BY <3>2
  <2> QED
    BY <1>1, <2>1, <2>4
<1>3. accurize(x, 1) = 0
  <2>1. x \in Nat /\ 1 \in Nat \ {0} /\ 2 * x < Grid * 1
    BY <1>1 DEF Tiny
  <2> QED
    BY <1>2, <2>1
<1>4. 2 * (2 * cur) < Grid * (k + 1)
  <2>1. cur \in Nat /\ 2 * cur < Grid
    BY DEF Tiny
  <2>2. Grid * 2 <= Grid * (k + 1)
    BY <1>1, ScaledOrder
  <2> QED
    BY <1>1, <2>1, <2>2
<1>5. accurize(2 * cur, k + 1) = 0
  <2>1. 2 * cur \in Nat /\ k + 1 \in Nat \ {0}
    BY DEF Tiny
  <2> QED
    BY <1>2, <1>4, <2>1
<1>6. 2 * cur + (k - 1) * 0 = 2 * cur
  BY DEF Tiny
<1> QED
  BY <1>3, <1>5, <1>6 DEF EMAStep

(* The EMA of such quotes is 0 where RSI reads it.                         *)
LEMMA TinyEMA ==
  ASSUME NEW k0 \in Nat \ {0}, NEW d \in Seq(Tiny), NEW past \in Tiny
  PROVE  EMA(k0, d, Len(d), past) = 0
<1>1. CASE d = << >>
  BY <1>1, EMAOfNothing
<1>2. CASE d # << >>
  <2> DEFINE m == Len(d)
             f == [k \in 0 .. m |-> EMA(k0, d, k, past)]
             J == [k \in 0 .. m |-> Tiny]
             read == Append(d, past)
  <2>1. d \in Seq(Nat) /\ past \in Nat
    BY DEF Tiny
  <2>2. m \in Nat /\ m # 0
    BY <1>2
  <2>3. /\ EMA(k0, d, 0, past) = d[1]
        /\ \A k \in 1 .. m :
             EMA(k0, d, k, past) =
               EMAStep(k0, read[k + 1], accurize(EMA(k0, d, k - 1, past), 1))
    BY <1>2, <2>1, EMAUnfolds
  <2>4. d[1] \in Tiny /\ \A k \in 1 .. m : read[k + 1] \in Tiny
    BY <1>2, <2>2
  <2>5. 0 \in 0 .. m /\ \A k \in 1 .. m : k \in 0 .. m /\ k - 1 \in 0 .. m
    BY <2>2
  <2>6. \A k \in 0 .. m : J[k] = Tiny /\ f[k] = EMA(k0, d, k, past)
    OBVIOUS
  <2> HIDE DEF m, f, J, read
  <2>7. f[0] \in J[0]
    BY <2>3, <2>4, <2>5, <2>6
  <2>8. ASSUME NEW k \in 1 .. m, f[k - 1] \in J[k - 1] PROVE f[k] = 0 /\ f[k] \in J[k]
    <3>1. f[k - 1] \in Tiny /\ read[k + 1] \in Tiny
      BY <2>4, <2>5, <2>6, <2>8
    <3>2. f[k] = EMAStep(k0, read[k + 1], accurize(f[k - 1], 1))
      BY <2>3, <2>5, <2>6
    <3>3. f[k] = 0
      BY <3>1, <3>2, TinyStep
    <3>4. 0 \in Tiny
      BY GridAssumption DEF GridAssumption, Tiny
    <3> QED
      BY <2>5, <2>6, <3>3, <3>4
  <2>9. \A k \in 0 .. m : f[k] \in J[k]
    BY <2>2, <2>7, <2>8, RecursionKeeps
  <2>10. m \in 1 .. m /\ f[m - 1] \in J[m - 1]
    BY <2>2, <2>5, <2>9
  <2>11. f[m] = 0
    BY <2>8, <2>10
  <2> QED
    BY <2>2, <2>5, <2>6, <2>11, <2>10 DEF m
<1> QED
  BY <1>1, <1>2

(* A symbol quoted below half of 0.001 is always oversold.                 *)
THEOREM BelowGridIsOversold == Spec => []BelowGridAlwaysBuys
<1>1. ASSUME n \in Periods, data \in Seq(Prices) PROVE BelowGridAlwaysBuys
  <2> SUFFICES ASSUME NEW j \in Junk,
                      \A quote \in ToSet(data) \cup {j.before, j.up, j.down} :
                        2 * quote < Grid
               PROVE  Oversold(n, data, j)
    BY DEF BelowGridAlwaysBuys
  <2> DEFINE v == UpDown(Moves(n, data, j.before))
  <2>1. ToSet(data) \subseteq Tiny /\ 0 \in Tiny /\ j.down \in Tiny
    BY <1>1, VectorFacts, JunkFacts, GridAssumption DEF Tiny, GridAssumption
  <2>2. v \in Vectors(Tiny)
    BY <1>1, <2>1, CallsType
  <2>3. n \in Nat \ {0}
    BY <1>1, VectorFacts
  <2> HIDE DEF v
  <2>4. v.down \in Seq(Tiny)
    BY <2>2 DEF Vectors
  <2>5. EMA(n, v.down, Len(v.down), j.down) = 0
    BY <2>1, <2>3, <2>4, TinyEMA
  <2>6. Oversold(n, data, j) =
          RSIBelow(EMA(n, v.up, Len(v.up), j.up),
                   EMA(n, v.down, Len(v.down), j.down))
    BY OversoldIs DEF v
  <2> QED
    BY <2>5, <2>6 DEF RSIBelow
<1> QED
  BY <1>1, VectorTypeCorrect, PTL

----------------------------------------------------------------------------
(* Quotes on the grid.                                                     *)

Between(lo, hi) == {x \in lo .. hi : x % Grid = 0}

(* Between two values on the grid an EMA stays between them.               *)
LEMMA EMAStays ==
  ASSUME NEW k0 \in Nat \ {0}, NEW d \in Seq(Nat), NEW past \in Nat,
         NEW last \in 0 .. Len(d) - 1,
         NEW lo \in Nat, NEW hi \in Nat, lo % Grid = 0, hi % Grid = 0,
         \A k \in 1 .. last + 1 : d[k] \in Between(lo, hi)
  PROVE  \A k \in 0 .. last : EMA(k0, d, k, past) \in Between(lo, hi)
<1> DEFINE f == [k \in 0 .. last |-> EMA(k0, d, k, past)]
           J == [k \in 0 .. last |-> Between(lo, hi)]
           read == Append(d, past)
<1>1. Len(d) \in Nat /\ last \in Nat /\ last < Len(d) /\ d # << >>
  OBVIOUS
<1>2. /\ EMA(k0, d, 0, past) = d[1]
      /\ \A k \in 1 .. Len(d) :
           EMA(k0, d, k, past) =
             EMAStep(k0, read[k + 1], accurize(EMA(k0, d, k - 1, past), 1))
  BY <1>1, EMAUnfolds
<1>3. \A k \in 1 .. last : read[k + 1] = d[k + 1] /\ k + 1 \in 1 .. last + 1
  BY <1>1
<1>4. \A k \in 0 .. last : J[k] = Between(lo, hi) /\ f[k] = EMA(k0, d, k, past)
  OBVIOUS
<1>5. /\ 0 \in 0 .. last /\ 1 \in 1 .. last + 1
      /\ \A k \in 1 .. last : k \in 0 .. last /\ k - 1 \in 0 .. last /\ k \in 1 .. Len(d)
  BY <1>1
<1> HIDE DEF f, J, read
<1>6. f[0] \in J[0]
  BY <1>2, <1>4, <1>5
<1>7. ASSUME NEW k \in 1 .. last, f[k - 1] \in J[k - 1] PROVE f[k] \in J[k]
  <2>1. d[k + 1] \in lo .. hi
    BY <1>3 DEF Between
  <2>2. f[k - 1] \in lo .. hi /\ f[k - 1] % Grid = 0
    BY <1>4, <1>5, <1>7 DEF Between
  <2>3. accurize(f[k - 1], 1) = f[k - 1]
    <3>1. f[k - 1] \in Nat
      BY <2>2
    <3> QED
      BY <2>2, <3>1, AccurizeOnGrid
  <2>4. f[k] = EMAStep(k0, d[k + 1], f[k - 1])
    BY <1>2, <1>3, <1>4, <1>5, <2>3
  <2> DEFINE cur == d[k + 1]
             prev == f[k - 1]
  <2> HIDE DEF cur, prev
  <2>5. cur \in lo .. hi /\ prev \in lo .. hi /\ f[k] = EMAStep(k0, cur, prev)
    BY <2>1, <2>2, <2>4 DEF cur, prev
  <2>6. f[k] \in lo .. hi /\ f[k] % Grid = 0
    <3>1. cur \in lo .. hi /\ prev \in lo .. hi
      BY <2>5
    <3>2. EMAStep(k0, cur, prev) \in lo .. hi /\ EMAStep(k0, cur, prev) % Grid = 0
      BY <3>1, StepStays
    <3> QED
      BY <2>5, <3>2
  <2> QED
    BY <1>4, <1>5, <2>6 DEF Between
<1>8. \A k \in 0 .. last : f[k] \in J[k]
  BY <1>1, <1>6, <1>7, RecursionKeeps
<1> QED
  BY <1>4, <1>8

LEMMA LargestOf ==
  ASSUME NEW m \in Nat, NEW d, \A k \in 1 .. m + 1 : d[k] \in Nat
  PROVE  \E i \in 1 .. m + 1 : \A k \in 1 .. m + 1 : d[k] <= d[i]
<1> DEFINE T == {b \in 0 .. m : \E i \in 1 .. b + 1 :
                                  \A k \in 1 .. b + 1 : d[k] <= d[i]}
<1>1. 0 \in T
  <2>1. 1 \in 1 .. m + 1 /\ 0 \in 0 .. m /\ 1 \in 1 .. 0 + 1
    OBVIOUS
  <2>2. \A k \in 1 .. 0 + 1 : k = 1
    OBVIOUS
  <2>3. d[1] <= d[1]
    BY <2>1
  <2> QED
    BY <2>1, <2>2, <2>3
<1>2. ASSUME NEW b \in 1 .. m, b - 1 \in T PROVE b \in T
  <2>1. PICK i \in 1 .. b : \A k \in 1 .. b : d[k] <= d[i]
    <3>1. (b - 1) + 1 = b
      OBVIOUS
    <3> QED
      BY <1>2, <3>1
  <2>2. /\ b \in 0 .. m
        /\ \A k \in 1 .. b + 1 : d[k] \in Nat /\ (k = b + 1 \/ k \in 1 .. b)
        /\ i \in 1 .. b + 1 /\ b + 1 \in 1 .. b + 1
    OBVIOUS
  <2>3. CASE d[b + 1] <= d[i]
    <3>1. \A k \in 1 .. b + 1 : d[k] <= d[i]
      BY <2>1, <2>2, <2>3
    <3> QED
      BY <2>2, <3>1
  <2>4. CASE ~(d[b + 1] <= d[i])
    <3>1. \A k \in 1 .. b + 1 : d[k] <= d[b + 1]
      BY <2>1, <2>2, <2>4
    <3> QED
      BY <2>2, <3>1
  <2> QED
    BY <2>3, <2>4
<1> HIDE DEF T
<1>3. \A b \in 0 .. m : b \in T
  BY <1>1, <1>2, UpTo
<1>4. m \in T
  BY <1>3
<1> QED
  BY <1>4 DEF T

(* The smallest and the largest of some closes.                            *)
LEMMA MinMaxOf ==
  ASSUME NEW m \in Nat, NEW d, \A k \in 1 .. m + 1 : d[k] \in Nat,
         NEW I, I = {d[k] : k \in 1 .. m + 1}
  PROVE  Min(I) \in I /\ Max(I) \in I /\ \A x \in I : x \in Min(I) .. Max(I)
<1>1. I \subseteq Nat /\ I # {}
  <2>1. 1 \in 1 .. m + 1
    OBVIOUS
  <2> QED
    BY <2>1
<1>2. \E x \in I : \A y \in I : x <= y
  BY <1>1, SmallestOf
<1>3. \E x \in I : \A y \in I : x >= y
  <2>1. PICK i \in 1 .. m + 1 : \A k \in 1 .. m + 1 : d[k] <= d[i]
    BY LargestOf
  <2>2. d[i] \in I /\ \A y \in I : d[i] >= y
    BY <1>1, <2>1
  <2> QED
    BY <2>2
<1>4. Min(I) \in I /\ \A y \in I : Min(I) <= y
  BY <1>2 DEF Min
<1>5. Max(I) \in I /\ \A y \in I : Max(I) >= y
  BY <1>3 DEF Max
<1> DEFINE a == Min(I)
           b == Max(I)
<1> HIDE DEF a, b
<1>6. a \in I /\ b \in I /\ \A y \in I : a <= y /\ b >= y
  BY <1>4, <1>5 DEF a, b
<1>7. \A x \in I : x \in a .. b
  BY <1>1, <1>6
<1> QED
  BY <1>6, <1>7 DEF a, b

(* For every period, every length of history and every price on the grid,  *)
(* each of the three EMAs is between the closes it averages.               *)
THEOREM EMAsAreWithinCloses == Spec => []EMAWithinCloses
<1>1. ASSUME n \in Periods, data \in Seq(Prices) PROVE EMAWithinCloses
  <2> SUFFICES
        ASSUME NEW pos \in Positions,
               NEW closes, closes = {data[k] : k \in 1 .. pos + 1},
               NEW klines, klines = [k \in 1 .. pos + 1 |-> [close |-> data[k]]],
               NEW before,
               before = IF pos = 0 THEN data[1] ELSE EMA(n, data, pos - 1, 0),
               OnGrid(closes)
        PROVE  {EMA(n, data, pos, 0), EMAOfKlines(n, klines, pos, 0),
                EMAOfLast(n, klines, before)} \subseteq Min(closes) .. Max(closes)
    BY DEF EMAWithinCloses
  <2> DEFINE lo == Min(closes)
             hi == Max(closes)
             d == [k \in 1 .. pos + 1 |-> data[k]]
  <2>1. /\ n \in Nat \ {0} /\ data \in Seq(Nat) /\ Len(data) \in Nat
        /\ pos \in Nat /\ pos \in 0 .. Len(data) - 1
        /\ \A k \in 1 .. pos + 1 : data[k] \in Nat
    <3>1. n \in Nat \ {0} /\ data \in Seq(Nat) /\ Len(data) \in Nat
      BY <1>1, VectorFacts
    <3>2. pos \in 0 .. Len(data) - 1
      BY DEF Positions
    <3> QED
      BY <3>1, <3>2
  <2>2. lo \in closes /\ hi \in closes /\ \A x \in closes : x \in lo .. hi
    BY <2>1, MinMaxOf
  <2> HIDE DEF lo, hi
  <2>3. /\ lo \in Nat /\ hi \in Nat /\ lo % Grid = 0 /\ hi % Grid = 0
        /\ \A k \in 1 .. pos + 1 : data[k] \in Between(lo, hi)
    BY <2>1, <2>2 DEF OnGrid, Between
  <2>4. \A k \in 0 .. pos : EMA(n, data, k, 0) \in Between(lo, hi)
    BY <2>1, <2>3, EMAStays
  <2>5. EMA(n, data, pos, 0) \in lo .. hi
    BY <2>1, <2>4 DEF Between
  <2>6. EMAOfKlines(n, klines, pos, 0) \in lo .. hi
    <3>1. DOMAIN klines = 1 .. pos + 1 /\ \A k \in 1 .. pos + 1 : klines[k].close = data[k]
      OBVIOUS
    <3>2. EMAOfKlines(n, klines, pos, 0) = EMA(n, d, pos, 0)
      BY <3>1 DEF EMAOfKlines
    <3>3. d \in Seq(Nat) /\ Len(d) = pos + 1 /\ \A k \in 1 .. pos + 1 : d[k] = data[k]
      <4>1. d \in [1 .. pos + 1 -> Nat] /\ pos + 1 \in Nat
        BY <2>1
      <4> QED
        BY <4>1
    <3> HIDE DEF d
    <3>4. pos \in 0 .. Len(d) - 1
      BY <2>1, <3>3
    <3>5. \A k \in 1 .. pos + 1 : d[k] \in Between(lo, hi)
      BY <2>3, <3>3
    <3>6. \A k \in 0 .. pos : EMA(n, d, k, 0) \in Between(lo, hi)
      BY <2>1, <2>3, <3>3, <3>4, <3>5, EMAStays
    <3> QED
      BY <2>1, <3>2, <3>6 DEF Between
  <2>7. EMAOfLast(n, klines, before) \in lo .. hi
    <3>1. before \in lo .. hi
      <4>1. CASE pos = 0
        <5>1. 1 \in 1 .. pos + 1
          BY <2>1
        <5> QED
          BY <2>3, <4>1, <5>1 DEF Between
      <4>2. CASE pos # 0
        <5>1. pos - 1 \in 0 .. pos
          BY <2>1, <4>2
        <5> QED
          BY <2>4, <4>2, <5>1 DEF Between
      <4> QED
        BY <4>1, <4>2
    <3>2. Last(klines).close = data[pos + 1]
      <4>1. Len(klines) = pos + 1 /\ pos + 1 \in 1 .. pos + 1
        BY <2>1
      <4> QED
        BY <4>1 DEF Last
    <3>3. data[pos + 1] \in lo .. hi
      BY <2>1, <2>3 DEF Between
    <3>4. EMAStep(n, data[pos + 1], before) \in lo .. hi
      BY <2>1, <2>3, <3>1, <3>3, StepStays
    <3> QED
      BY <3>2, <3>4 DEF EMAOfLast
  <2> QED
    BY <2>5, <2>6, <2>7 DEF lo, hi
<1> QED
  BY <1>1, VectorTypeCorrect, PTL

----------------------------------------------------------------------------
(* The drift of the rounding.                                              *)

Fractions == [num : Nat, den : Nat]

ExactFirst == [num |-> data[1], den |-> 1]

ExactStep(k, x) ==
  [num |-> 2 * x.den * data[k + 1] + (n - 1) * x.num, den |-> (n + 1) * x.den]

ExactBody(exact) ==
  [k \in Positions |-> IF k = 0 THEN ExactFirst ELSE ExactStep(k, exact[k - 1])]

(* The exact average, unfolded.                                            *)
LEMMA ExactUnfolds ==
  ASSUME n \in Nat \ {0}, data \in Seq(Nat), data # << >>
  PROVE  /\ ExactEMA(0) = ExactFirst
         /\ \A k \in Positions : ExactEMA(k) \in Fractions
         /\ \A k \in 1 .. Len(data) - 1 : ExactEMA(k) = ExactStep(k, ExactEMA(k - 1))
<1> DEFINE m == Len(data) - 1
           F == [k \in 1 .. m |-> [x \in Fractions |-> ExactStep(k, x)]]
<1>1. m \in Nat /\ Positions = 0 .. m /\ ExactFirst \in Fractions
  BY DEF Positions, Fractions, ExactFirst
<1>2. ASSUME NEW k \in 1 .. m, NEW x \in Fractions
      PROVE  ExactStep(k, x) \in Fractions
  <2>1. data[k + 1] \in Nat /\ x.num \in Nat /\ x.den \in Nat /\ n - 1 \in Nat
    BY DEF Fractions
  <2>2. x.den * data[k + 1] \in Nat
    BY <2>1, NatProduct
  <2>3. (n - 1) * x.num \in Nat
    BY <2>1, NatProduct
  <2>4. (n + 1) * x.den \in Nat
    <3>1. n + 1 \in Nat
      OBVIOUS
    <3> QED
      BY <2>1, <3>1, NatProduct
  <2>5. 2 * x.den * data[k + 1] \in Nat
    BY <2>1, <2>2
  <2> QED
    BY <2>3, <2>4, <2>5 DEF ExactStep, Fractions
<1>3. F \in [1 .. m -> [Fractions -> Fractions]]
  BY <1>2
<1>4. \A k \in 1 .. m, x \in Fractions : F[k][x] = ExactStep(k, x)
  OBVIOUS
<1> HIDE DEF F, m
<1>5. PICK f \in [0 .. m -> Fractions] :
        f[0] = ExactFirst /\ \A k \in 1 .. m : f[k] = F[k][f[k - 1]]
  <2>1. Recursive(m, Fractions, ExactFirst, F)
    BY <1>1, <1>3, RecursionExists
  <2> QED
    BY <2>1 DEF Recursive, Recursion
<1>6. ASSUME NEW k \in 1 .. m PROVE k - 1 \in 0 .. m /\ k \in 0 .. m /\ k # 0
  BY <1>1
<1>7. \A k \in 1 .. m : f[k] = ExactStep(k, f[k - 1])
  BY <1>4, <1>5, <1>6
<1>8. f = ExactBody(f)
  <2>1. ASSUME NEW k \in 0 .. m
        PROVE  f[k] = IF k = 0 THEN ExactFirst ELSE ExactStep(k, f[k - 1])
    <3>1. k = 0 \/ k \in 1 .. m
      BY <1>1
    <3> QED
      BY <1>5, <1>6, <1>7, <3>1
  <2> QED
    BY <1>1, <2>1 DEF ExactBody
<1> DEFINE exact == CHOOSE e : e = ExactBody(e)
<1>9. exact = ExactBody(exact)
  BY <1>8, Zenon
<1>10. \A pos : ExactEMA(pos) = exact[pos]
  BY DEF ExactEMA, ExactBody, ExactFirst, ExactStep
<1> HIDE DEF exact
<1>11. \A k \in 0 .. m :
         exact[k] = IF k = 0 THEN ExactFirst ELSE ExactStep(k, exact[k - 1])
  BY <1>1, <1>9 DEF ExactBody
<1>12. 0 \in 0 .. m
  BY <1>1
<1>13. exact[0] = ExactFirst /\ \A k \in 1 .. m : exact[k] = ExactStep(k, exact[k - 1])
  BY <1>6, <1>11, <1>12
<1>14. \A k \in 0 .. m : exact[k] \in Fractions
  <2> DEFINE J == [k \in 0 .. m |-> Fractions]
  <2>1. \A k \in 0 .. m : J[k] = Fractions
    OBVIOUS
  <2> HIDE DEF J
  <2>2. exact[0] \in J[0]
    BY <1>1, <1>12, <1>13, <2>1
  <2>3. \A k \in 1 .. m : exact[k - 1] \in J[k - 1] => exact[k] \in J[k]
    BY <1>2, <1>6, <1>13, <2>1
  <2>4. \A k \in 0 .. m : exact[k] \in J[k]
    BY <1>1, <2>2, <2>3, RecursionKeeps
  <2> QED
    BY <2>1, <2>4
<1> QED
  BY <1>1, <1>10, <1>13, <1>14 DEF m

LEMMA DistanceIs ==
  ASSUME NEW a \in Int, NEW b \in Int, NEW c \in Int, NEW f \in Nat \ {0}
  PROVE  f * Distance(a, b) <= c <=> f * (a - b) <= c /\ f * (b - a) <= c
<1>1. f * (b - a) = -(f * (a - b)) /\ f * (a - b) \in Int
  OBVIOUS
<1>2. CASE a < b
  <2>1. f * (b - a) \in Nat
    BY <1>2
  <2> QED
    BY <1>1, <1>2, <2>1 DEF Distance
<1>3. CASE ~(a < b)
  <2>1. f * (a - b) \in Nat
    BY <1>3
  <2> QED
    BY <1>1, <1>3, <2>1 DEF Distance
<1> QED
  BY <1>2, <1>3

(* What one rounded step adds, an average with the exact value takes away. *)
LEMMA DriftStep ==
  ASSUME NEW k \in Nat \ {0}, NEW cur \in Nat, NEW prev \in Nat,
         NEW num \in Nat, NEW den \in Nat,
         4 * (prev * den - num) <= Grid * (k + 1) * den,
         4 * (num - prev * den) <= Grid * (k + 1) * den,
         NEW r, r = EMAStep(k, cur, prev),
         NEW x, x = 2 * den * cur + (k - 1) * num,
         NEW y, y = (k + 1) * den
  PROVE  /\ 4 * (r * y - x) <= Grid * (k + 1) * y
         /\ 4 * (x - r * y) <= Grid * (k + 1) * y
<1> DEFINE m == k + 1
           w == k - 1
           Q == Grid * m
           t == Q * den
           e == prev * den - num
           sum == 2 * cur + w * prev
           delta == m * r - sum
<1>1. /\ Grid \in Nat \ {0} /\ m \in Nat \ {0} /\ w \in Nat /\ Q \in Nat \ {0}
      /\ t \in Nat /\ e \in Int /\ sum \in Nat /\ m = w + 2
  <2>1. Grid \in Nat \ {0} /\ m \in Nat \ {0} /\ w \in Nat /\ m = w + 2
    BY GridAssumption DEF GridAssumption
  <2>2. Q \in Nat \ {0} /\ w * prev \in Nat /\ prev * den \in Nat
    BY <2>1, PositiveProduct, NatProduct
  <2>3. t \in Nat
    BY <2>2, NatProduct
  <2> QED
    BY <2>1, <2>2, <2>3
<1>2. r = accurize(sum, m)
  BY DEF EMAStep
<1> HIDE DEF sum
<1>3. PICK q \in Nat :
        /\ r = Grid * q
        /\ 2 * (m * r) <= 2 * sum + Q
        /\ 2 * sum + Q < 2 * (m * r) + 2 * Q
  <2> HIDE DEF m
  <2>1. PICK q \in Nat :
          /\ accurize(sum, m) = Grid * q
          /\ 2 * (m * (Grid * q)) <= 2 * sum + Grid * m
          /\ 2 * sum + Grid * m < 2 * (m * (Grid * q)) + 2 * (Grid * m)
    BY <1>1, AccurizeRounds
  <2> QED
    BY <1>2, <2>1
<1>4. r \in Nat
  BY <1>1, <1>3, NatProduct
<1> HIDE DEF m, w, Q, t, e
<1>5. m * r \in Nat
  BY <1>1, <1>4, NatProduct
<1>6. delta \in Int /\ 2 * delta <= Q /\ 2 * (-delta) <= Q
  BY <1>1, <1>3, <1>5
<1>7. m * r = sum + delta
  BY <1>1, <1>5
<1> HIDE DEF delta
<1>8. 4 * e <= t /\ 4 * (-e) <= t
  BY DEF e, t, Q, m
<1>9. r * y - x = w * e + den * delta
  <2>1. r * y = den * (m * r)
    BY <1>1, <1>4 DEF m
  <2>2. den * (m * r) = den * (2 * cur) + den * (w * prev) + den * delta
    <3>1. w * prev \in Nat
      BY <1>1, NatProduct
    <3> QED
      BY <1>1, <1>6, <1>7, <3>1 DEF sum
  <2>3. x = den * (2 * cur) + w * num
    BY <1>1 DEF w
  <2>4. den * (w * prev) - w * num = w * e
    BY <1>1 DEF e
  <2>5. /\ den * (2 * cur) \in Int /\ den * (w * prev) \in Int /\ w * num \in Int
        /\ den * delta \in Int /\ w * e \in Int
    BY <1>1, <1>6
  <2> QED
    BY <2>1, <2>2, <2>3, <2>4, <2>5
<1>10. w * (4 * e) <= w * t /\ w * (4 * (-e)) <= w * t
  BY <1>1, <1>8, ScaledOrder
<1>11. den * (2 * delta) <= den * Q /\ den * (2 * (-delta)) <= den * Q
  BY <1>1, <1>6, ScaledOrder
<1>12. /\ 4 * (w * e + den * delta) = w * (4 * e) + 2 * (den * (2 * delta))
       /\ 4 * (-(w * e + den * delta)) = w * (4 * (-e)) + 2 * (den * (2 * (-delta)))
  BY <1>1, <1>6
<1>13. den * Q = t /\ w * t + 2 * t = m * t
  BY <1>1 DEF t
<1>14. Grid * (k + 1) * y = m * t
  BY <1>1 DEF t, Q, m
<1>15. /\ 4 * (w * e + den * delta) <= m * t
       /\ 4 * (-(w * e + den * delta)) <= m * t
  <2>1. /\ w * (4 * e) \in Int /\ w * (4 * (-e)) \in Int /\ w * t \in Int
        /\ den * (2 * delta) \in Int /\ den * (2 * (-delta)) \in Int
    BY <1>1, <1>6
  <2> QED
    BY <1>1, <1>10, <1>11, <1>12, <1>13, <2>1
<1>16. r * y \in Int /\ x \in Int
  BY <1>1, <1>4
<1>17. x - r * y = -(w * e + den * delta)
  BY <1>9, <1>16
<1> QED
  BY <1>9, <1>14, <1>15, <1>17

(* Rounding never makes an EMA drift by more than (n+1)/4 thousandths from *)
(* the exact average: for every period, every price and any number of      *)
(* candles.                                                                *)
THEOREM DriftStaysBounded == Spec => []RoundingDriftBounded
<1>1. ASSUME n \in Periods, data \in Seq(Prices) PROVE RoundingDriftBounded
  <2> DEFINE m == Len(data) - 1
             ema(k) == EMA(n, data, k, 0)
             num(k) == ExactEMA(k).num
             den(k) == ExactEMA(k).den
             Near(x, k) == /\ 4 * (x * den(k) - num(k)) <= Grid * (n + 1) * den(k)
                           /\ 4 * (num(k) - x * den(k)) <= Grid * (n + 1) * den(k)
  <2> SUFFICES ASSUME data # << >> PROVE \A k \in 0 .. m : Near(ema(k), k)
    <3>1. CASE data = << >>
      <4>1. Positions = {}
        BY <3>1 DEF Positions
      <4> QED
        BY <4>1 DEF RoundingDriftBounded
    <3>2. CASE data # << >> /\ \A k \in 0 .. m : Near(ema(k), k)
      <4>1. ASSUME NEW k \in Positions
            PROVE  4 * Distance(ema(k) * den(k), num(k)) <= Grid * (n + 1) * den(k)
        <5>1. k \in 0 .. m /\ k \in 0 .. Len(data)
          BY <1>1 DEF Positions
        <5>2. n \in Nat \ {0} /\ data \in Seq(Nat) /\ Grid \in Nat
          BY <1>1, VectorFacts, GridAssumption DEF GridAssumption
        <5>3. num(k) \in Nat /\ den(k) \in Nat
          BY <3>2, <5>2, ExactUnfolds DEF Fractions
        <5>4. ema(k) \in Nat
          BY <3>2, <5>1, <5>2, EMAUnfolds
        <5>5. Near(ema(k), k)
          BY <3>2, <5>1
        <5> DEFINE a == ema(k) * den(k)
                   b == num(k)
                   c == Grid * (n + 1) * den(k)
        <5>6. a \in Int /\ b \in Int /\ c \in Int
          BY <5>2, <5>3, <5>4
        <5>7. 4 * (a - b) <= c /\ 4 * (b - a) <= c
          BY <5>5
        <5> HIDE DEF a, b, c
        <5>8. 4 * Distance(a, b) <= c
          BY <5>6, <5>7, DistanceIs
        <5> QED
          BY <5>8 DEF a, b, c
      <4> QED
        BY <4>1 DEF RoundingDriftBounded
    <3> QED
      BY <3>1, <3>2
  <2>1. /\ n \in Nat \ {0} /\ data \in Seq(Nat) /\ m \in Nat /\ Grid \in Nat \ {0}
        /\ Len(data) \in Nat /\ Positions = 0 .. m
        /\ \A k \in 0 .. m : data[k + 1] \in Nat /\ Append(data, 0)[k + 1] = data[k + 1]
    <3>1. n \in Nat \ {0} /\ data \in Seq(Nat) /\ Grid \in Nat \ {0}
      BY <1>1, VectorFacts, GridAssumption DEF GridAssumption
    <3>2. Len(data) \in Nat /\ Len(data) # 0
      OBVIOUS
    <3> QED
      BY <3>1, <3>2 DEF Positions
  <2>2. /\ ema(0) = data[1]
        /\ \A k \in 0 .. m : ema(k) \in Nat
        /\ \A k \in 1 .. m :
             ema(k) = EMAStep(n, data[k + 1], accurize(ema(k - 1), 1))
    <3>1. \A k \in 0 .. m : k \in 0 .. Len(data)
      BY <2>1
    <3>2. \A k \in 1 .. m : k \in 0 .. m /\ k \in 1 .. Len(data)
      BY <2>1
    <3>3. /\ ema(0) = data[1]
          /\ \A k \in 0 .. Len(data) : ema(k) \in Nat
          /\ \A k \in 1 .. Len(data) :
               ema(k) = EMAStep(n, Append(data, 0)[k + 1], accurize(ema(k - 1), 1))
      BY <2>1, EMAUnfolds
    <3> HIDE DEF ema
    <3>4. \A k \in 1 .. m : Append(data, 0)[k + 1] = data[k + 1]
      BY <2>1, <3>2
    <3> QED
      BY <3>1, <3>2, <3>3, <3>4
  <2>3. /\ \A k \in 0 .. m : num(k) \in Nat /\ den(k) \in Nat
        /\ num(0) = data[1] /\ den(0) = 1
        /\ \A k \in 1 .. m :
             /\ num(k) = 2 * den(k - 1) * data[k + 1] + (n - 1) * num(k - 1)
             /\ den(k) = (n + 1) * den(k - 1)
    BY <2>1, ExactUnfolds DEF Fractions, ExactFirst, ExactStep
  <2>4. /\ 0 \in 0 .. m
        /\ \A k \in 1 .. m : k \in 0 .. m /\ k - 1 \in 0 .. m
    BY <2>1
  <2> HIDE DEF m, ema, num, den
  <2> DEFINE J == [k \in 0 .. m |-> {x \in Nat : Near(x, k) /\ Near(accurize(x, 1), k)}]
             f == [k \in 0 .. m |-> ema(k)]
  <2>5. \A k \in 0 .. m : /\ f[k] = ema(k)
                          /\ J[k] = {x \in Nat : Near(x, k) /\ Near(accurize(x, 1), k)}
    OBVIOUS
  <2> HIDE DEF J, f
  <2>6. f[0] \in J[0]
    <3> DEFINE x == data[1]
               p == accurize(x, 1)
    <3>1. x \in Nat /\ 1 \in Nat \ {0}
      BY <2>1, <2>4
    <3>2. PICK q \in Nat :
            /\ p = Grid * q
            /\ 2 * (1 * (Grid * q)) <= 2 * x + Grid * 1
            /\ 2 * x + Grid * 1 < 2 * (1 * (Grid * q)) + 2 * (Grid * 1)
      BY <3>1, AccurizeRounds
    <3>3. p \in Nat /\ 2 * p <= 2 * x + Grid /\ 2 * x < 2 * p + Grid
      BY <2>1, <3>2, NatProduct
    <3>4. Grid * 2 <= Grid * (n + 1) /\ Grid * (n + 1) \in Nat
      BY <2>1, ScaledOrder, NatProduct
    <3> HIDE DEF x, p
    <3>5. /\ 4 * (x * 1 - x) <= Grid * (n + 1) * 1
          /\ 4 * (p * 1 - x) <= Grid * (n + 1) * 1
          /\ 4 * (x - x * 1) <= Grid * (n + 1) * 1
          /\ 4 * (x - p * 1) <= Grid * (n + 1) * 1
      BY <2>1, <3>1, <3>3, <3>4
    <3>6. Near(x, 0) /\ Near(p, 0)
      <4>1. num(0) = x /\ den(0) = 1
        BY <2>3 DEF x
      <4> QED
        BY <3>5, <4>1
    <3> QED
      BY <2>2, <2>4, <2>5, <3>1, <3>6 DEF x, p
  <2>7. ASSUME NEW k \in 1 .. m, f[k - 1] \in J[k - 1] PROVE f[k] \in J[k]
    <3> DEFINE p == accurize(ema(k - 1), 1)
               r == ema(k)
               cur == data[k + 1]
               x == num(k - 1)
               y == den(k - 1)
    <3>1. Near(p, k - 1)
      BY <2>4, <2>5, <2>7
    <3>2. p \in Nat /\ cur \in Nat /\ x \in Nat /\ y \in Nat /\ r \in Nat
      <4>1. ema(k - 1) \in Nat /\ 1 \in Nat \ {0}
        BY <2>2, <2>4
      <4>2. p \in Nat
        BY <4>1, AccurizeType
      <4> QED
        BY <2>1, <2>2, <2>3, <2>4, <4>2
    <3>3. /\ 4 * (p * y - x) <= Grid * (n + 1) * y
          /\ 4 * (x - p * y) <= Grid * (n + 1) * y
      BY <3>1
    <3>4. r = EMAStep(n, cur, p)
      BY <2>2
    <3>5. num(k) = 2 * y * cur + (n - 1) * x /\ den(k) = (n + 1) * y
      BY <2>3
    <3> HIDE DEF p, r, cur, x, y
    <3>6. /\ 4 * (r * den(k) - num(k)) <= Grid * (n + 1) * den(k)
          /\ 4 * (num(k) - r * den(k)) <= Grid * (n + 1) * den(k)
      BY <2>1, <3>2, <3>3, <3>4, <3>5, DriftStep
    <3>7. Near(r, k)
      BY <3>6
    <3>8. accurize(r, 1) = r
      <4>1. 2 * cur + (n - 1) * p \in Nat /\ n + 1 \in Nat \ {0} /\ Grid \in Nat
        BY <2>1, <3>2, NatProduct
      <4>2. PICK q \in Nat : r = Grid * q
        BY <3>4, <4>1, AccurizeRounds DEF EMAStep
      <4>3. r % Grid = 0
        BY <3>2, <4>2, GridMultiple
      <4> QED
        BY <3>2, <4>3, AccurizeOnGrid
    <3> HIDE DEF Near
    <3>9. r \in J[k] /\ f[k] = r
      BY <2>4, <2>5, <3>2, <3>7, <3>8 DEF r
    <3> QED
      BY <3>9
  <2>8. \A k \in 0 .. m : f[k] \in J[k]
    BY <2>1, <2>6, <2>7, RecursionKeeps
  <2> QED
    BY <2>5, <2>8
<1> QED
  BY <1>1, VectorTypeCorrect, PTL

----------------------------------------------------------------------------
(* The signal.                                                             *)

(* Without a flat move the vectors hold closes only, and each is empty     *)
(* only if there is no move of its kind.                                   *)
LEMMA Sides ==
  ASSUME NEW C, C \subseteq Nat, NEW moves, Len(moves) \in Nat,
         \A k \in 1 .. Len(moves) :
           /\ moves[k].close \in C /\ moves[k].prev \in Nat
           /\ moves[k].close # moves[k].prev,
         NEW v, v = UpDown(moves)
  PROVE  /\ v.up \in Seq(C) /\ v.down \in Seq(C)
         /\ v.up = << >> <=>
              \A k \in 1 .. Len(moves) : ~(moves[k].close > moves[k].prev)
         /\ v.down = << >> <=>
              \A k \in 1 .. Len(moves) : ~(moves[k].close < moves[k].prev)
<1> DEFINE S == C \cup {0}
           m == Len(moves)
           rise(k) == moves[k].close > moves[k].prev
           fall(k) == moves[k].close < moves[k].prev
           Good(x, k) == /\ x.up \in Seq(C) /\ x.down \in Seq(C)
                         /\ x.up = << >> <=> \A i \in 1 .. k : ~rise(i)
                         /\ x.down = << >> <=> \A i \in 1 .. k : ~fall(i)
           J == [k \in 0 .. m |-> {x \in Vectors(S) : Good(x, k)}]
<1>1. 0 \in S /\ m \in Nat /\ \A k \in 1 .. m : moves[k].close \in S
  OBVIOUS
<1>2. PICK pushed :
        /\ \A k \in 0 .. m : pushed[k] \in Vectors(S)
        /\ pushed[0] = Empty
        /\ \A k \in 1 .. m : pushed[k] = Push(pushed[k - 1], moves[k])
        /\ v = pushed[m]
  <2> HIDE DEF S
  <2> QED
    BY <1>1, UpDownIsSolution
<1>3. \A k \in 0 .. m : J[k] = {x \in Vectors(S) : Good(x, k)}
  OBVIOUS
<1>4. \A k \in 1 .. m : /\ rise(k) \/ fall(k)
                        /\ ~(rise(k) /\ fall(k))
                        /\ moves[k].close \in C /\ moves[k].close \in S
  <2> TAKE k \in 1 .. m
  <2> DEFINE a == moves[k].close
             b == moves[k].prev
  <2>1. a \in C /\ a \in Nat /\ b \in Nat /\ a # b /\ a \in S
    OBVIOUS
  <2> HIDE DEF a, b
  <2>2. (a > b \/ a < b) /\ ~(a > b /\ a < b)
    BY <2>1
  <2> QED
    BY <2>1, <2>2 DEF a, b
<1>5. /\ 0 \in 0 .. m /\ m \in 0 .. m
      /\ \A k \in 1 .. m : k \in 0 .. m /\ k - 1 \in 0 .. m
  BY <1>1
<1> HIDE DEF S, m, rise, fall, J
<1>6. pushed[0] \in J[0]
  <2>1. Empty.up = << >> /\ Empty.down = << >> /\ << >> \in Seq(C)
    BY DEF Empty
  <2>2. Good(Empty, 0)
    BY <2>1
  <2> QED
    BY <1>2, <1>3, <1>5, <2>2
<1>7. ASSUME NEW k \in 1 .. m, pushed[k - 1] \in J[k - 1] PROVE pushed[k] \in J[k]
  <2> DEFINE x == pushed[k - 1]
             y == pushed[k]
             c == moves[k].close
  <2>1. x \in Vectors(S) /\ Good(x, k - 1) /\ y \in Vectors(S) /\ y = Push(x, moves[k])
    BY <1>2, <1>3, <1>5, <1>7
  <2>2. /\ rise(k) => y.up = Append(x.up, c) /\ y.down = x.down
        /\ fall(k) => y.up = x.up /\ y.down = Append(x.down, c)
    <3>1. /\ rise(k) => /\ Push(x, moves[k]).up = Append(x.up, c)
                        /\ Push(x, moves[k]).down = x.down
          /\ fall(k) /\ ~rise(k) => /\ Push(x, moves[k]).up = x.up
                                    /\ Push(x, moves[k]).down = Append(x.down, c)
      <4>1. x \in Vectors(S) /\ 0 \in S /\ moves[k].close \in S
        BY <1>1, <1>4, <2>1
      <4> HIDE DEF x
      <4> QED
        BY <4>1, PushFacts DEF rise, fall
    <3> QED
      BY <1>4, <2>1, <3>1
  <2>3. c \in C
    BY <1>4
  <2> HIDE DEF x, y, c
  <2>4. ASSUME NEW s \in Seq(C) PROVE Append(s, c) \in Seq(C) /\ Append(s, c) # << >>
    <3>1. Len(Append(s, c)) = Len(s) + 1 /\ Len(s) \in Nat
      BY <2>3
    <3>2. Len(<< >>) = 0
      OBVIOUS
    <3> QED
      BY <2>3, <3>1, <3>2
  <2>5. /\ (\A i \in 1 .. k : ~rise(i)) <=> ~rise(k) /\ \A i \in 1 .. k - 1 : ~rise(i)
        /\ (\A i \in 1 .. k : ~fall(i)) <=> ~fall(k) /\ \A i \in 1 .. k - 1 : ~fall(i)
    <3>1. k \in 1 .. k /\ \A i \in 1 .. k : i = k \/ i \in 1 .. k - 1
      BY <1>1
    <3>2. \A i \in 1 .. k - 1 : i \in 1 .. k
      BY <1>1
    <3> QED
      BY <3>1, <3>2
  <2>6. Good(y, k)
    <3>1. CASE rise(k)
      BY <1>4, <2>1, <2>2, <2>4, <2>5, <3>1
    <3>2. CASE fall(k)
      BY <1>4, <2>1, <2>2, <2>4, <2>5, <3>2
    <3> QED
      BY <1>4, <3>1, <3>2
  <2> HIDE DEF Good
  <2> QED
    BY <1>3, <1>5, <2>1, <2>6 DEF y
<1>8. \A k \in 0 .. m : pushed[k] \in J[k]
  BY <1>1, <1>6, <1>7, RecursionKeeps
<1>9. Good(v, m)
  BY <1>2, <1>3, <1>5, <1>8
<1> QED
  BY <1>9 DEF m, rise, fall

(* What the moves of the window are, for a window that starts inside the   *)
(* vector.                                                                 *)
LEMMA WindowMoves ==
  ASSUME n \in Periods, data \in Seq(Prices), Len(data) > n, ~HasFlatMove,
         NEW before, NEW moves, moves = Moves(n, data, before)
  PROVE  /\ Len(moves) = n
         /\ \A k \in 1 .. n : /\ moves[k].close \in ToSet(data)
                              /\ moves[k].prev \in Nat
                              /\ moves[k].close # moves[k].prev
         /\ HasRise <=> \E k \in 1 .. n : moves[k].close > moves[k].prev
         /\ HasFall <=> \E k \in 1 .. n : moves[k].close < moves[k].prev
<1> DEFINE base == Len(data) - n
<1>1. n \in Nat \ {0} /\ Len(data) \in Nat /\ base \in Nat /\ base # 0
  BY VectorFacts
<1>2. Len(moves) = n /\ \A k \in 1 .. n :
        moves[k] = [close |-> data[base + k], prev |-> data[(base + k) - 1]]
  BY <1>1, MovesFacts
<1>3. /\ \A k \in 1 .. n : /\ base + k \in base + 1 .. Len(data)
                           /\ base + k \in 1 .. Len(data)
                           /\ (base + k) - 1 \in 1 .. Len(data)
      /\ \A i \in base + 1 .. Len(data) : i - base \in 1 .. n /\ base + (i - base) = i
  BY <1>1
<1> DEFINE window == base + 1 .. Len(data)
<1>4. /\ \A i \in window : data[i] # data[i - 1]
      /\ HasRise <=> \E i \in window : data[i] > data[i - 1]
      /\ HasFall <=> \E i \in window : data[i] < data[i - 1]
  BY DEF HasFlatMove, HasRise, HasFall
<1> HIDE DEF base, window
<1>5. /\ \A k \in 1 .. n : base + k \in window
      /\ \A i \in window : /\ i - base \in 1 .. n /\ base + (i - base) = i
                           /\ base + (i - base) - 1 = i - 1
  BY <1>1 DEF base, window
<1>6. \A k \in 1 .. n : /\ moves[k].close = data[base + k]
                        /\ moves[k].prev = data[(base + k) - 1]
  BY <1>2
<1>7. \A k \in 1 .. n : /\ moves[k].close \in ToSet(data)
                        /\ moves[k].prev \in Nat
                        /\ moves[k].close # moves[k].prev
  <2> TAKE k \in 1 .. n
  <2>1. data[base + k] \in ToSet(data) /\ data[(base + k) - 1] \in Nat
    BY <1>3, VectorFacts
  <2> DEFINE i == base + k
  <2>2. i \in window
    BY <1>5
  <2> HIDE DEF i
  <2>3. data[i] # data[i - 1]
    BY <1>4, <2>2
  <2>4. moves[k].close = data[i] /\ moves[k].prev = data[i - 1]
    BY <1>6 DEF i
  <2> QED
    BY <2>1, <2>3, <2>4 DEF i
<1>8. HasRise <=> \E k \in 1 .. n : data[base + k] > data[(base + k) - 1]
  <2>1. ASSUME NEW i \in window, data[i] > data[i - 1]
        PROVE  \E k \in 1 .. n : data[base + k] > data[(base + k) - 1]
    BY <1>5, <2>1
  <2>2. ASSUME NEW k \in 1 .. n, data[base + k] > data[(base + k) - 1]
        PROVE  \E i \in window : data[i] > data[i - 1]
    <3> DEFINE i == base + k
    <3>1. i \in window
      BY <1>5
    <3>2. data[i] > data[i - 1]
      BY <2>2
    <3> HIDE DEF i
    <3> QED
      BY <3>1, <3>2
  <2> QED
    BY <1>4, <2>1, <2>2
<1>9. HasFall <=> \E k \in 1 .. n : data[base + k] < data[(base + k) - 1]
  <2>1. ASSUME NEW i \in window, data[i] < data[i - 1]
        PROVE  \E k \in 1 .. n : data[base + k] < data[(base + k) - 1]
    BY <1>5, <2>1
  <2>2. ASSUME NEW k \in 1 .. n, data[base + k] < data[(base + k) - 1]
        PROVE  \E i \in window : data[i] < data[i - 1]
    <3> DEFINE i == base + k
    <3>1. i \in window
      BY <1>5
    <3>2. data[i] < data[i - 1]
      BY <2>2
    <3> HIDE DEF i
    <3> QED
      BY <3>1, <3>2
  <2> QED
    BY <1>4, <2>1, <2>2
<1> QED
  BY <1>2, <1>6, <1>7, <1>8, <1>9

(* The last n moves are all rises.                                         *)
RisingWindow == Len(data) > n /\ ~HasFlatMove /\ ~HasFall

(* A window that only rises is a buy signal, whatever the read past the    *)
(* end of "up" yields - it need not be a number: with no fall "down" is    *)
(* empty, its EMA is 0 and RSI returns 0 where the index would be 100.     *)
(* About hpp/ta.hpp:37-39, 90-111 and the test for 0.3.                    *)
THEOREM RisingWindowBuys ==
  ASSUME NEW j
  PROVE  Spec => [](RisingWindow => Oversold(n, data, j))
<1>1. ASSUME n \in Periods, data \in Seq(Prices), RisingWindow
      PROVE  Oversold(n, data, j)
  <2> DEFINE C == ToSet(data)
             moves == Moves(n, data, j.before)
             v == UpDown(moves)
  <2>1. C \subseteq Nat
    BY <1>1, VectorFacts
  <2>2. /\ Len(moves) = n /\ n \in Nat
        /\ \A k \in 1 .. n : /\ moves[k].close \in C
                             /\ moves[k].prev \in Nat
                             /\ moves[k].close # moves[k].prev
        /\ HasFall <=> \E k \in 1 .. n : moves[k].close < moves[k].prev
    BY <1>1, WindowMoves, VectorFacts DEF RisingWindow
  <2>3. Oversold(n, data, j) = RSIBelow(EMA(n, v.up, Len(v.up), j.up),
                                        EMA(n, v.down, Len(v.down), j.down))
    BY OversoldIs
  <2> HIDE DEF moves, C
  <2>4. v.down = << >>
    <3>1. v.down = << >> <=> \A k \in 1 .. n : ~(moves[k].close < moves[k].prev)
      BY <2>1, <2>2, Sides
    <3> QED
      BY <1>1, <2>2, <3>1 DEF RisingWindow
  <2> HIDE DEF v
  <2>5. EMA(n, v.down, Len(v.down), j.down) = 0
    BY <2>4, EMAOfNothing
  <2> QED
    BY <2>3, <2>5 DEF RSIBelow
<1> QED
  BY <1>1, VectorTypeCorrect, PTL
============================================================================
