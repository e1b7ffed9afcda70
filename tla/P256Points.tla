------------------------------ MODULE P256Points ------------------------------
(***************************************************************************)
(* The ARMlet's point arithmetic (library/arm/multiply.c): Jacobian          *)
(* doubling, the four additions, the tables and the three loops' steps, on   *)
(* a curve y^2 = x^3 - 3x + b given by the constants.                       *)
(*                                                                          *)
(* An element of the field is the number whose Montgomery form the code      *)
(* holds (FieldLimbs has the limbs), so a conversion to or from bytes is a   *)
(* reduction modulo the prime.  The masked selections of the code, made so   *)
(* that secret digits leave no trace, are IFs here: only their values count. *)
(***************************************************************************)
EXTENDS Integers, Sequences

CONSTANTS
    FieldPrime,   \* p, at 3 modulo 4 or not: nothing here takes a root
    CurveB,       \* b
    GeneratorX, GeneratorY,
    GroupOrder,   \* n, the prime order of the generator
    Windows,      \* radix-16 digits of a scalar; 64 for P-256
    Teeth         \* of the generator's comb; 8 for P-256

ScalarBits == 4 * Windows
CombColumns == ScalarBits \div Teeth   \* 32 for P-256

(* What PointAddMixedWindow's comment and P256OrderScalars' rest on, and     *)
(* that the comb's columns cover the scalar.                                *)
ASSUME OrderAssumption ==
    /\ GroupOrder % 16 = 1
    /\ 2 * GroupOrder > 2^ScalarBits
    /\ GroupOrder + 30 < 2^ScalarBits
    /\ Teeth * CombColumns = ScalarBits

a (+) b == (a + b) % FieldPrime
a (-) b == (a + FieldPrime - b) % FieldPrime
a (\X) b == (a * b) % FieldPrime
Square(a) == a (\X) a

RECURSIVE Power(_, _)
Power(a, e) ==
    IF e = 0 THEN 1
    ELSE LET half == Square(Power(a, e \div 2))
         IN  IF e % 2 = 1 THEN half (\X) a ELSE half

(* The chain's exponent is p - 2; zero maps to zero.                        *)
FeInverse(a) == Power(a, FieldPrime - 2)

-----------------------------------------------------------------------------
(* Points.                                                                  *)

Jacobian(x, y) == [x |-> x, y |-> y, z |-> 1]
PointInfinity == [x |-> 1, y |-> 1, z |-> 0]
Generator == [x |-> GeneratorX, y |-> GeneratorY]

PointDouble(P) ==
    LET delta == Square(P.z)
        gamma == Square(P.y)
        beta == P.x (\X) gamma
        alpha == 3 (\X) ((P.x (-) delta) (\X) (P.x (+) delta))
        x == Square(alpha) (-) (8 (\X) beta)
    IN  [x |-> x,
         y |-> (alpha (\X) ((4 (\X) beta) (-) x)) (-) (8 (\X) Square(gamma)),
         z |-> (Square(P.y (+) P.z) (-) gamma) (-) delta]

(* The ordinary mixed formula, from what it has in common with its callers. *)
Mixed(P, A, h, r) ==
    LET i == 4 (\X) Square(h)
        j == h (\X) i
        v == P.x (\X) i
        twice == r (+) r
        x == (Square(twice) (-) j) (-) (v (+) v)
    IN  [x |-> x,
         y |-> (twice (\X) (v (-) x)) (-) (2 (\X) (P.y (\X) j)),
         z |-> (Square(P.z (+) h) (-) Square(P.z)) (-) Square(h)]

MixedH(P, A) == (A.x (\X) Square(P.z)) (-) P.x
MixedR(P, A) == (A.y (\X) (P.z (\X) Square(P.z))) (-) P.y

(* No case for equal points: the callers must not meet one.                 *)
PointAddMixed(P, A) ==
    IF P.z = 0 THEN Jacobian(A.x, A.y) ELSE Mixed(P, A, MixedH(P, A), MixedR(P, A))

(* Mutant of PointAddMixedWindow: the ordinary mixed addition.              *)
PointAddMixedWindowOrdinary(P, A, equalResult) == PointAddMixed(P, A)

(* Equal points give the result that was computed beforehand.               *)
PointAddMixedWindow(P, A, equalResult) ==
    LET h == MixedH(P, A)
        r == MixedR(P, A)
    IN  IF P.z = 0 THEN Jacobian(A.x, A.y)
        ELSE IF h = 0 THEN IF r = 0 THEN equalResult ELSE PointInfinity
        ELSE Mixed(P, A, h, r)

PointAddMixedPublic(P, A) ==
    LET h == MixedH(P, A)
        r == MixedR(P, A)
    IN  IF P.z = 0 THEN Jacobian(A.x, A.y)
        ELSE IF h = 0 THEN IF r = 0 THEN PointDouble(P) ELSE PointInfinity
        ELSE Mixed(P, A, h, r)

PointAddPublic(P, Q) ==
    LET z1z1 == Square(P.z)
        z2z2 == Square(Q.z)
        u1 == P.x (\X) z2z2
        s1 == P.y (\X) (Q.z (\X) z2z2)
        h == (Q.x (\X) z1z1) (-) u1
        r == (Q.y (\X) (P.z (\X) z1z1)) (-) s1
        i == Square(h (+) h)
        j == h (\X) i
        v == u1 (\X) i
        twice == r (+) r
        x == (Square(twice) (-) j) (-) (v (+) v)
    IN  IF P.z = 0 THEN Q
        ELSE IF Q.z = 0 THEN P
        ELSE IF h = 0 THEN IF r = 0 THEN PointDouble(P) ELSE PointInfinity
        ELSE [x |-> x,
              y |-> (twice (\X) (v (-) x)) (-) (2 (\X) (s1 (\X) j)),
              z |-> ((Square(P.z (+) Q.z) (-) z1z1) (-) z2z2) (\X) h]

Affine(P) ==
    LET inverse == FeInverse(P.z)
    IN  [x |-> P.x (\X) Square(inverse), y |-> P.y (\X) (inverse (\X) Square(inverse))]

-----------------------------------------------------------------------------
(* Tables.                                                                  *)

RECURSIVE WindowJacobian(_, _)
WindowJacobian(A, n) ==
    CASE n = 1 -> <<Jacobian(A.x, A.y)>>
      [] n = 2 -> Append(WindowJacobian(A, 1), PointDouble(Jacobian(A.x, A.y)))
      [] OTHER -> LET before == WindowJacobian(A, n - 1)
                  IN  Append(before, PointAddMixed(before[n - 1], A))

RECURSIVE ZProducts(_, _)
ZProducts(table, n) ==
    IF n = 1 THEN <<table[1].z>>
    ELSE LET before == ZProducts(table, n - 1)
         IN  Append(before, before[n - 1] (\X) table[n].z)

(* The reverse pass: inverse is that of the product of the first n.         *)
RECURSIVE Normalized(_, _, _, _)
Normalized(table, products, inverse, n) ==
    IF n = 0 THEN <<>>
    ELSE LET zInverse == IF n > 1 THEN inverse (\X) products[n - 1] ELSE inverse
             rest == Normalized(table, products, inverse (\X) table[n].z, n - 1)
         IN  Append(rest, [x |-> table[n].x (\X) Square(zInverse),
                           y |-> table[n].y (\X) (zInverse (\X) Square(zInverse))])

NormalizePointTable(table) ==
    LET products == ZProducts(table, Len(table))
    IN  Normalized(table, products, FeInverse(products[Len(table)]), Len(table))

(* multiples[d] is dQ; equal is what the code keeps in table[0].            *)
WindowTable(A) ==
    LET table == WindowJacobian(A, 15)
    IN  [multiples |-> NormalizePointTable(table), equal |-> PointDouble(table[15])]

RECURSIVE BuildOddPointTable(_, _)
BuildOddPointTable(A, n) ==
    IF n = 1 THEN <<Jacobian(A.x, A.y)>>
    ELSE LET before == BuildOddPointTable(A, n - 1)
         IN  Append(before, PointAddPublic(before[n - 1], PointDouble(before[1])))

-----------------------------------------------------------------------------
(* Scalars.                                                                 *)

WindowDigit(k, window) == (k \div 16^window) % 16

RECURSIVE CombDigitFrom(_, _, _)
CombDigitFrom(k, column, tooth) ==
    IF tooth = Teeth THEN 0
    ELSE ((k \div 2^(column + tooth * CombColumns)) % 2) * 2^tooth
         + CombDigitFrom(k, column, tooth + 1)
CombDigit(k, column) == CombDigitFrom(k, column, 0)

(* Mutant of WnafDigit: the window is a bit too narrow.                     *)
WnafDigitNarrow(words) ==
    IF words % 2 = 0 THEN 0
    ELSE IF words % 16 > 8 THEN (words % 16) - 16 ELSE words % 16

(* A digit is odd and below 16 in magnitude, or zero.                       *)
WnafDigit(words) ==
    IF words % 2 = 0 THEN 0
    ELSE IF words % 32 > 16 THEN (words % 32) - 32 ELSE words % 32

RECURSIVE WnafFrom(_, _)
WnafFrom(words, n) ==
    IF n = 0 THEN <<>>
    ELSE <<WnafDigit(words)>> \o WnafFrom((words - WnafDigit(words)) \div 2, n - 1)

(* One digit more than the scalar has bits; the first is the least.         *)
ScalarWnaf5(k) == WnafFrom(k, ScalarBits + 1)

-----------------------------------------------------------------------------
(* The loops' steps.                                                        *)

CombStep(P, k, column, comb) ==
    LET doubled == PointDouble(P)
        digit == CombDigit(k, column)
    IN  IF digit = 0 THEN doubled ELSE PointAddMixed(doubled, comb[digit])

(* Mutant of Sixteen: one doubling short.                                   *)
Eight(P) == PointDouble(PointDouble(PointDouble(P)))

Sixteen(P) == PointDouble(PointDouble(PointDouble(PointDouble(P))))

WindowStep(P, k, window, table) ==
    LET digit == WindowDigit(k, window)
    IN  IF digit = 0 THEN Sixteen(P)
        ELSE PointAddMixedWindow(Sixteen(P), table.multiples[digit], table.equal)

Magnitude(digit) == IF digit < 0 THEN -digit ELSE digit
Negated(y, digit) == IF digit < 0 THEN 0 (-) y ELSE y

(* A table of the generator is affine.                                      *)
AddWnafDigit(P, table, digit) ==
    LET entry == table.points[(Magnitude(digit) \div 2) + 1]
        signed == [entry EXCEPT !.y = Negated(entry.y, digit)]
    IN  IF digit = 0 THEN P
        ELSE IF table.affine THEN PointAddMixedPublic(P, signed)
        ELSE PointAddPublic(P, signed)

WnafStep(P, left, leftDigit, right, rightDigit) ==
    AddWnafDigit(AddWnafDigit(PointDouble(P), left, leftDigit), right, rightDigit)
=============================================================================
