------------------------------ MODULE FieldLimbs ------------------------------
(***************************************************************************)
(* The ARMlet's word arithmetic (library/arm/multiply.c): the P-256 field    *)
(* and the P-256 order by limbs, and the 16-bit schoolbook product.  A limb  *)
(* array is a function from 0; base Beta stands for 2^32, and what the code   *)
(* keeps in 64 bits is kept modulo Beta^2.                                  *)
(*                                                                          *)
(* At Beta = 2 the eight limbs of p = B^8 - B^7 + B^6 + B^3 - 1 make 199,    *)
(* a prime of the shape the reduction is written for.                       *)
(***************************************************************************)
EXTENDS Naturals, Sequences

CONSTANTS
    Beta,        \* 2^32
    OrderBeta,   \* 2^32, for the order's limbs
    OrderLimbs,  \* how many of them make a scalar
    Order        \* n, the order of the group

Limbs == 0..7
Wide == Beta * Beta
R == Beta ^ 8

ToLimbs(v) == [i \in Limbs |-> (v \div Beta^i) % Beta]
RECURSIVE Value(_, _, _)
Value(t, base, n) == IF n = 0 THEN 0 ELSE t[n - 1] * base^(n - 1) + Value(t, base, n - 1)
Val(f) == Value(f, Beta, 8)

kP == [i \in Limbs |-> CASE i \in {3, 4, 5} -> 0 [] i = 6 -> 1 [] OTHER -> Beta - 1]
Prime == Val(kP)
kOne == ToLimbs(1)
kR == ToLimbs(R % Prime)
kR2 == ToLimbs(((R % Prime) * (R % Prime)) % Prime)

(* The sums of a carry chain: each term and the carry of the sum before it. *)
RECURSIVE Chain(_, _, _)
Chain(term, n, base) ==
    IF n = 0 THEN <<>>
    ELSE LET before == Chain(term, n - 1, base)
             carry == IF n = 1 THEN 0 ELSE before[n - 1] \div base
         IN  Append(before, (term[n - 1] + carry) % (base * base))

Digits(sums, base) == [i \in 0..(Len(sums) - 1) |-> sums[i + 1] % base]
CarryOf(sums, base) == sums[Len(sums)] \div base

(* left - right, limb by limb, and whether it borrows at the end.           *)
Borrowing(left, right) ==
    LET less == Val(left) < Val(right)
    IN  [difference |-> ToLimbs((Val(left) + (IF less THEN R ELSE 0)) - Val(right)),
         borrow |-> less]

FeSubtract(left, right) ==
    LET d == Borrowing(left, right)
    IN  Digits(Chain([i \in Limbs |-> d.difference[i] + (IF d.borrow THEN kP[i] ELSE 0)],
                     8, Beta), Beta)

(* The end of FeAdd, FeMultiply and FeReduceWide: p comes off once, when     *)
(* there is a carry or what is there is no less than p.                     *)
ReducedOnce(value, carry) ==
    LET d == Borrowing(value, kP)
    IN  IF carry \/ ~d.borrow THEN d.difference ELSE value

FeAdd(left, right) ==
    LET sums == Chain([i \in Limbs |-> left[i] + right[i]], 8, Beta)
    IN  ReducedOnce(Digits(sums, Beta), CarryOf(sums, Beta) # 0)

FeCancelP256Digit(t) ==
    LET m == t[0]
        product == m * Beta - m
    IN  Chain([i \in 0..6 |->
                  CASE i = 0 -> product + t[1] + m
                    [] i \in {1, 6} -> product + t[i + 1]
                    [] i = 5 -> m + t[6]
                    [] OTHER -> t[i + 1]], 7, Beta)

(* One round of FeMultiply: t + left * limb, its low limb cancelled.        *)
MultiplyRound(t, left, limb) ==
    LET product == Chain([i \in Limbs |-> left[i] * limb + t[i]], 8, Beta)
        top == t[8] + CarryOf(product, Beta)
        cancelled == FeCancelP256Digit(Digits(product, Beta))
        low == Digits(cancelled, Beta)
        last == (top % Beta) + CarryOf(cancelled, Beta)
    IN  [i \in 0..8 |->
            CASE i < 7 -> low[i]
              [] i = 7 -> last % Beta
              [] i = 8 -> top \div Beta + last \div Beta]

RECURSIVE Rounds(_, _, _)
Rounds(left, right, n) ==
    IF n = 0 THEN [i \in 0..8 |-> 0]
    ELSE MultiplyRound(Rounds(left, right, n - 1), left, right[n - 1])

FeMultiply(left, right) ==
    LET t == Rounds(left, right, 8)
    IN  ReducedOnce([i \in Limbs |-> t[i]], t[8] # 0)

(* The carry of a cancelled limb runs on to the end of the accumulator.     *)
RECURSIVE ReduceRounds(_, _)
ReduceRounds(wide, outer) ==
    IF outer = 8 THEN wide
    ELSE LET sums == FeCancelP256Digit([i \in Limbs |-> wide[outer + i]])
             low == Digits(sums, Beta)
             tail == Chain([i \in 0..(8 - outer) |->
                               wide[outer + 8 + i]
                               + (IF i = 0 THEN CarryOf(sums, Beta) ELSE 0)],
                           9 - outer, Beta)
         IN  ReduceRounds([i \in 0..16 |->
                              IF i <= outer THEN wide[i]
                              ELSE IF i < outer + 8 THEN low[i - outer - 1]
                              ELSE Digits(tail, Beta)[i - outer - 8]], outer + 1)

FeReduceWide(low, high) ==
    LET t == ReduceRounds([i \in 0..16 |-> IF i < 8 THEN low[i]
                                           ELSE IF i < 16 THEN high[i - 8] ELSE 0], 0)
    IN  ReducedOnce([i \in Limbs |-> t[i + 8]], t[16] # 0)

FeReadBigEndian(v) == FeMultiply(ToLimbs(v), kR2)
FeWriteBigEndian(f) == Val(FeMultiply(f, kOne))
FeIsCanonical(f) == Borrowing(f, kP).borrow

(* P256Validate: out of range before anything is reduced, then the equation. *)
P256Validate(vx, vy, b) ==
    LET x == FeReadBigEndian(vx)
        y == FeReadBigEndian(vy)
        cube == FeMultiply(FeMultiply(x, x), x)
        three == FeAdd(FeAdd(x, x), x)
    IN  IF ~FeIsCanonical(ToLimbs(vx)) \/ ~FeIsCanonical(ToLimbs(vy)) THEN "OutOfRange"
        ELSE IF FeMultiply(y, y)
                = FeAdd(FeSubtract(cube, three), ToLimbs((b * R) % Prime))
        THEN "Success" ELSE "InvalidPoint"

-----------------------------------------------------------------------------
(* The order.                                                               *)

Answered(value) == [status |-> "Success", value |-> value]
Refused == [status |-> "Error"]

OrderR == OrderBeta ^ OrderLimbs
OrderR2 == ((OrderR % Order) * (OrderR % Order)) % Order
Places == 0..(OrderLimbs - 1)
OrderDigits(v) == [i \in Places |-> (v \div OrderBeta^i) % OrderBeta]

(* -n^-1 modulo the limb.                                                   *)
OrderK == CHOOSE k \in 0..(OrderBeta - 1) : (k * Order + 1) % OrderBeta = 0

OrderRound(t, left, limb) ==
    LET product == Chain([i \in Places |-> left[i] * limb + t[i]], OrderLimbs, OrderBeta)
        top == t[OrderLimbs] + CarryOf(product, OrderBeta)
        low == Digits(product, OrderBeta)
        multiplier == (low[0] * OrderK) % OrderBeta
        n == OrderDigits(Order)
        cancelled == Chain([i \in Places |-> multiplier * n[i] + low[i]], OrderLimbs, OrderBeta)
        last == (top % OrderBeta) + CarryOf(cancelled, OrderBeta)
    IN  [i \in 0..OrderLimbs |->
            CASE i < OrderLimbs - 1 -> Digits(cancelled, OrderBeta)[i + 1]
              [] i = OrderLimbs - 1 -> last % OrderBeta
              [] i = OrderLimbs -> top \div OrderBeta + last \div OrderBeta]

RECURSIVE OrderRounds(_, _, _)
OrderRounds(left, right, n) ==
    IF n = 0 THEN [i \in 0..OrderLimbs |-> 0]
    ELSE OrderRound(OrderRounds(left, right, n - 1), left, right[n - 1])

OrderMultiply(left, right) ==
    LET t == OrderRounds(OrderDigits(left), OrderDigits(right), OrderLimbs)
        value == Value(t, OrderBeta, OrderLimbs)
    IN  IF t[OrderLimbs] # 0 THEN (value + OrderR - Order) % OrderR
        ELSE IF value >= Order THEN value - Order ELSE value

OrderSubtractMod(left, right) ==
    IF left < right THEN left + Order - right ELSE left - right

(* Mutant of OrderHalfMod: that bit is lost.                                *)
OrderHalfModNarrow(v) ==
    IF v % 2 = 0 THEN v \div 2 ELSE ((v + Order) % OrderR) \div 2

(* The sum with n may need a bit more than a scalar has.                    *)
OrderHalfMod(v) == IF v % 2 = 0 THEN v \div 2 ELSE (v + Order) \div 2

(* Both evens are halved out, then the smaller comes off the larger.        *)
RECURSIVE Halved(_, _)
Halved(u, x) == IF u % 2 = 0 THEN Halved(u \div 2, OrderHalfMod(x)) ELSE <<u, x>>

RECURSIVE InverseLoop(_, _, _, _)
InverseLoop(u, x, v, y) ==
    IF u = 1 THEN x
    ELSE IF v = 1 THEN y
    ELSE LET a == Halved(u, x)
             b == Halved(v, y)
         IN  IF a[1] >= b[1]
             THEN InverseLoop(a[1] - b[1], OrderSubtractMod(a[2], b[2]), b[1], b[2])
             ELSE InverseLoop(a[1], a[2], b[1] - a[1], OrderSubtractMod(b[2], a[2]))

OrderInverse(v) == InverseLoop(v, 1, Order, 0)

(* u1 = e/s and u2 = r/s, from any digest e.                                *)
P256OrderScalars(e, r, s) ==
    IF r = 0 \/ s = 0 \/ r >= Order \/ s >= Order THEN Refused
    ELSE LET digest == IF e >= Order THEN e - Order ELSE e
             inverse == OrderInverse(s)
             montgomery == OrderMultiply(inverse, OrderR2)
         IN  Answered(<<OrderMultiply(digest, montgomery),
                        OrderMultiply(r, montgomery), inverse>>)

-----------------------------------------------------------------------------
(* PalmTlsArmletEntry's schoolbook product of two digit sequences, least    *)
(* significant first.  MaxDigits is PALM_TLS_ARMLET_MAX_DIGITS.             *)

(* One digit of left against all of right; the last carry is a digit.       *)
MultiplyRow(output, digit, right, index, base) ==
    LET sums == Chain([i \in 0..(Len(right) - 1) |->
                          output[index + i + 1] + digit * right[i + 1]],
                      Len(right), base)
    IN  [k \in DOMAIN output |->
            IF k <= index \/ k > index + Len(right) + 1 THEN output[k]
            ELSE IF k = index + Len(right) + 1
            THEN IF right = <<>> THEN 0 ELSE CarryOf(sums, base)
            ELSE sums[k - index] % base]

RECURSIVE MultiplyRows(_, _, _, _)
MultiplyRows(left, right, n, base) ==
    IF n = 0 THEN [k \in 1..(Len(left) + Len(right)) |-> 0]
    ELSE MultiplyRow(MultiplyRows(left, right, n - 1, base), left[n], right, n - 1, base)

RECURSIVE Trimmed(_)
Trimmed(digits) ==
    IF digits = <<>> THEN <<>>
    ELSE IF digits[Len(digits)] # 0 THEN digits
    ELSE Trimmed(SubSeq(digits, 1, Len(digits) - 1))

Multiply(left, right, base, maxDigits) ==
    IF Len(left) + Len(right) >= maxDigits THEN Refused
    ELSE Answered(Trimmed(MultiplyRows(left, right, Len(left), base)))
=============================================================================
