------------------------------- MODULE Doubles -------------------------------
(***************************************************************************)
(* The IEEE 754 arithmetic that the strategy leaves to the hardware.  A    *)
(* double is a whole number of some unit, one of the two infinities, or    *)
(* NaN; a quotient is rounded down where the hardware rounds to 53 bits.   *)
(* Neither the sign of a zero nor overflow of a finite result is kept:     *)
(* both lead to infinities, which a division by zero gives as well.        *)
(***************************************************************************)
EXTENDS Integers

CONSTANTS Inf, NegInf, NaN

ASSUME DoublesAssumption ==
  /\ Inf \notin Int /\ NegInf \notin Int /\ NaN \notin Int
  /\ Inf # NegInf /\ Inf # NaN /\ NegInf # NaN

Doubles == Int \cup {Inf, NegInf, NaN}

Negative(x) == x = NegInf \/ (x \in Int /\ x < 0)

Signed(negative) == IF negative THEN NegInf ELSE Inf

Times(x, y) ==
  IF x \in Int /\ y \in Int THEN x * y
  ELSE IF NaN \in {x, y} \/ 0 \in {x, y} THEN NaN
  ELSE Signed(Negative(x) # Negative(y))

Quotient(x, y) == IF y > 0 THEN x \div y ELSE (-x) \div (-y)

Divided(x, y) ==
  IF x \in Int /\ y \in Int \ {0} THEN Quotient(x, y)
  ELSE IF NaN \in {x, y} \/ (x = 0 /\ y = 0) THEN NaN
  ELSE IF y \in Int THEN Signed(Negative(x) # Negative(y))
  ELSE IF x \in Int THEN 0
  ELSE NaN

(* Every comparison with NaN is false.                                     *)
Less(x, y) ==
  /\ NaN \notin {x, y}
  /\ \/ x \in Int /\ y \in Int /\ x < y
     \/ x = NegInf /\ y # NegInf
     \/ y = Inf /\ x # Inf

AtLeast(x, y) == NaN \notin {x, y} /\ ~Less(x, y)
==============================================================================
