------------------------------ MODULE NativeMath ------------------------------
(***************************************************************************)
(* PalmTlsArmletEntry's public-key commands (library/arm/multiply.c): one    *)
(* request of the 68K side at a time, the loops of the two scalar products   *)
(* a digit a step, and the reply.                                           *)
(*                                                                          *)
(* A point of a request is a multiple of the generator, as the callers'      *)
(* validation leaves it; the group has prime order, so these are all of      *)
(* them.  SHA-256, AES-GCM and ChaCha20-Poly1305 are not here.               *)
(***************************************************************************)
EXTENDS P256Points, FieldLimbs

CONSTANTS
    MulRequests,      \* [command, scalar, point, map]; a point is j of jG
    Mul2Requests,     \* [command, leftScalar, left, rightScalar, right]
    MapRequests,      \* [command, point, z]
    OrderRequests,    \* [command, e, r, s]
    ValidateRequests, \* [command, x, y]
    FieldRequests,    \* [command, a, b, operation, count]
    DigitRequests,    \* [command, left, right]
    DigitBase,        \* 2^16
    MaxDigits,        \* PALM_TLS_ARMLET_MAX_DIGITS
    EquationB         \* b, for the curve over FieldLimbs' prime

VARIABLES
    request,
    loop,    \* the loop of a scalar product: its kind, position, result and tables
    reply

vars == <<request, loop, reply>>

-----------------------------------------------------------------------------
(* The reference: the textbook's group law on affine points.                *)

Zero == [x |-> 0, y |-> 0, finite |-> FALSE]
Finite(A) == [x |-> A.x, y |-> A.y, finite |-> TRUE]

Slope(A, B) ==
    IF A = B THEN (3 (\X) (Square(A.x) (-) 1)) (\X) FeInverse(A.y (+) A.y)
    ELSE (B.y (-) A.y) (\X) FeInverse(B.x (-) A.x)

Plus(A, B) ==
    IF ~A.finite THEN B
    ELSE IF ~B.finite THEN A
    ELSE IF A.x = B.x /\ A.y # B.y THEN Zero
    ELSE LET s == Slope(A, B)
             x == (Square(s) (-) A.x) (-) B.x
         IN  [x |-> x, y |-> (s (\X) (A.x (-) x)) (-) A.y, finite |-> TRUE]

Minus(A) == IF A.finite THEN [A EXCEPT !.y = 0 (-) A.y] ELSE A

RECURSIVE Times(_, _)
Times(k, A) ==
    CASE k < 0 -> Times(-k, Minus(A))
      [] k = 0 -> Zero
      [] k > 0 /\ k % 2 = 0 -> Times(k \div 2, Plus(A, A))
      [] OTHER -> Plus(Times(k - 1, A), A)

Multiple(j) == Times(j, Finite(Generator))

(* The affine point a Jacobian triple stands for.                           *)
Represents(P, A) ==
    IF P.z = 0 THEN ~A.finite
    ELSE /\ A.finite
         /\ P.x = A.x (\X) Square(P.z)
         /\ P.y = A.y (\X) (P.z (\X) Square(P.z))

-----------------------------------------------------------------------------
(* The generator's tables, built into the ARMlet.                           *)

RECURSIVE CombMultiple(_, _)
CombMultiple(digit, tooth) ==
    IF tooth = Teeth THEN 0
    ELSE ((digit \div 2^tooth) % 2) * 2^(tooth * CombColumns)
         + CombMultiple(digit, tooth + 1)

kGeneratorComb == [digit \in 1..(2^Teeth - 1) |-> Multiple(CombMultiple(digit, 0))]
kGeneratorOdd == [i \in 1..8 |-> Multiple(2 * i - 1)]

IsGenerator(A) == A.x = GeneratorX /\ A.y = GeneratorY

BuildPublicPointTable(A) ==
    IF IsGenerator(A) THEN [affine |-> TRUE, points |-> kGeneratorOdd]
    ELSE [affine |-> FALSE, points |-> BuildOddPointTable(A, 8)]

-----------------------------------------------------------------------------
(* What the adapter asks for.                                               *)

Requests ==
    MulRequests \cup Mul2Requests \cup MapRequests \cup OrderRequests
    \cup ValidateRequests \cup FieldRequests \cup DigitRequests

NoReply == [status |-> "None"]
NoLoop == [kind |-> "None"]

-----------------------------------------------------------------------------
(* P256Multiply: the comb for the generator, the windows for another point. *)

MultiplyBegin ==
    /\ request.command = "P256_MUL" /\ loop.kind = "None" /\ reply = NoReply
    /\ LET A == Multiple(request.point)
       IN  loop' = IF IsGenerator(A)
                   THEN [kind |-> "Comb", position |-> CombColumns - 1,
                         result |-> PointInfinity, table |-> kGeneratorComb]
                   ELSE [kind |-> "Window", position |-> Windows - 1,
                         result |-> PointInfinity, table |-> WindowTable(A)]
    /\ UNCHANGED <<request, reply>>

Advance(result) ==
    /\ loop' = [loop EXCEPT !.position = @ - 1, !.result = result]
    /\ UNCHANGED <<request, reply>>

CombLoop ==
    /\ loop.kind = "Comb" /\ loop.position >= 0
    /\ Advance(CombStep(loop.result, request.scalar, loop.position, loop.table))

WindowLoop ==
    /\ loop.kind = "Window" /\ loop.position >= 0
    /\ Advance(WindowStep(loop.result, request.scalar, loop.position, loop.table))

P256WritePoint(P, map) == Answered(IF map THEN Affine(P) ELSE P)

LoopEnd(map) ==
    /\ loop.position = -1
    /\ reply' = IF loop.result.z = 0 THEN Refused ELSE P256WritePoint(loop.result, map)
    /\ loop' = NoLoop
    /\ UNCHANGED request

MultiplyEnd == loop.kind \in {"Comb", "Window"} /\ LoopEnd(request.map)

(* P256Multiply2Add.                                                        *)
Multiply2Begin ==
    /\ request.command = "P256_MUL2ADD" /\ loop.kind = "None" /\ reply = NoReply
    /\ loop' = [kind |-> "Wnaf", position |-> ScalarBits, result |-> PointInfinity,
                leftDigits |-> ScalarWnaf5(request.leftScalar),
                rightDigits |-> ScalarWnaf5(request.rightScalar),
                left |-> BuildPublicPointTable(Multiple(request.left)),
                right |-> BuildPublicPointTable(Multiple(request.right))]
    /\ UNCHANGED <<request, reply>>

WnafLoop ==
    /\ loop.kind = "Wnaf" /\ loop.position >= 0
    /\ Advance(WnafStep(loop.result,
                        loop.left, loop.leftDigits[loop.position + 1],
                        loop.right, loop.rightDigits[loop.position + 1]))

Multiply2End == loop.kind = "Wnaf" /\ LoopEnd(TRUE)

(* P256Map, of the triple a product left unmapped or of one given to it.    *)
P256Map(P) == IF P.z = 0 THEN Refused ELSE P256WritePoint(P, TRUE)

(* The 68K side hands the raw triple back.                                  *)
MapLater ==
    /\ request.command = "P256_MUL" /\ ~request.map /\ reply.status = "Success"
    /\ request' = [request EXCEPT !.map = TRUE]
    /\ reply' = P256Map(reply.value)
    /\ UNCHANGED loop

-----------------------------------------------------------------------------
(* The commands answered in one piece.                                      *)

RECURSIVE FieldRun(_, _, _, _)
FieldRun(operation, a, b, count) ==
    IF count = 0 THEN a
    ELSE FieldRun(operation,
                  CASE operation = "Multiply" -> FeMultiply(a, b)
                    [] operation = "Square" -> FeMultiply(a, a)
                    [] operation = "Reduce" -> FeReduceWide(a, b),
                  b, count - 1)

P256Field(r) ==
    LET a == ToLimbs(r.a)
        b == ToLimbs(r.b)
    IN  IF \/ r.count = 0
           \/ r.operation # "Reduce" /\ ~FeIsCanonical(a)
           \/ r.operation # "Square" /\ ~FeIsCanonical(b)
        THEN Refused
        ELSE Answered(Val(FieldRun(r.operation, a, b, r.count)))

AnswerOf(r) ==
    CASE r.command = "P256_MAP" ->
            LET A == Multiple(r.point)
            IN  P256Map([x |-> A.x (\X) Square(r.z),
                         y |-> A.y (\X) (r.z (\X) Square(r.z)), z |-> r.z])
      [] r.command = "P256_ORDER" -> P256OrderScalars(r.e, r.r, r.s)
      [] r.command = "P256_VALIDATE" -> Answered(P256Validate(r.x, r.y, EquationB))
      [] r.command = "P256_FIELD" -> P256Field(r)
      [] r.command = "MULTIPLY" -> Multiply(r.left, r.right, DigitBase, MaxDigits)

Answer ==
    /\ request.command \notin {"P256_MUL", "P256_MUL2ADD"} /\ reply = NoReply
    /\ reply' = AnswerOf(request)
    /\ UNCHANGED <<request, loop>>

Init == request \in Requests /\ loop = NoLoop /\ reply = NoReply

Next ==
    \/ MultiplyBegin \/ CombLoop \/ WindowLoop \/ MultiplyEnd \/ MapLater
    \/ Multiply2Begin \/ WnafLoop \/ Multiply2End
    \/ Answer

Spec == Init /\ [][Next]_vars

-----------------------------------------------------------------------------
(* Properties.                                                              *)

RECURSIVE WnafValue(_, _)
WnafValue(digits, from) ==
    IF from > Len(digits) THEN 0 ELSE digits[from] + 2 * WnafValue(digits, from + 1)

RECURSIVE CombPrefix(_, _, _)
CombPrefix(k, column, tooth) ==
    IF tooth = Teeth THEN 0
    ELSE (((k \div 2^(tooth * CombColumns)) % 2^CombColumns) \div 2^column)
             * 2^(tooth * CombColumns)
         + CombPrefix(k, column, tooth + 1)

(* What the digits taken so far amount to.                                  *)
SoFar ==
    CASE loop.kind = "Comb" -> Multiple(CombPrefix(request.scalar, loop.position + 1, 0))
      [] loop.kind = "Window" ->
            Times(request.scalar \div 16^(loop.position + 1), Multiple(request.point))
      [] loop.kind = "Wnaf" ->
            Plus(Times(WnafValue(loop.leftDigits, loop.position + 2), Multiple(request.left)),
                 Times(WnafValue(loop.rightDigits, loop.position + 2), Multiple(request.right)))

(* The loop invariant of the three scalar products: through infinity, equal   *)
(* and opposite points and the batch-normalised table, the accumulator is     *)
(* the multiple the digits taken so far stand for (multiply.c:1336-1410 and   *)
(* 1549-1581).                                                              *)
Products == loop.kind # "None" => Represents(loop.result, SoFar)

(* The reasons of the incomplete additions.  In the windows the accumulator  *)
(* meets the selected multiple itself only at the last digit, 15, of the      *)
(* scalar n + 30, which is why one precomputed result is enough               *)
(* (multiply.c:1044-1052); in the generator's comb it never does, which is    *)
(* why PointAddMixed has no case for it (multiply.c:1374).                    *)
EqualPoints ==
    /\ loop.kind = "Window" /\ loop.position >= 0 =>
           LET digit == WindowDigit(request.scalar, loop.position)
               before == Sixteen(loop.result)
           IN  /\ digit # 0 /\ before.z # 0
               /\ Represents(before, Finite(loop.table.multiples[digit]))
               => loop.position = 0 /\ digit = 15 /\ request.scalar = GroupOrder + 30
    /\ loop.kind = "Comb" /\ loop.position >= 0 =>
           LET digit == CombDigit(request.scalar, loop.position)
               before == PointDouble(loop.result)
           IN  digit # 0 /\ before.z # 0 => ~Represents(before, loop.table[digit])

(* The wNAF digits are the scalar's, odd and below 16 when not zero, with at  *)
(* least four zeros after each, and one digit more than the scalar's bits     *)
(* holds the last carry (multiply.c:1456-1494).                               *)
WnafForm ==
    loop.kind = "Wnaf" =>
        \A side \in {<<request.leftScalar, loop.leftDigits>>,
                     <<request.rightScalar, loop.rightDigits>>} :
            LET digits == side[2]
            IN  /\ WnafValue(digits, 1) = side[1]
                /\ \A i \in DOMAIN digits :
                       digits[i] # 0 =>
                           /\ digits[i] % 2 = 1 /\ Magnitude(digits[i]) < 16
                           /\ \A j \in DOMAIN digits : j \in (i + 1)..(i + 4) => digits[j] = 0

(* Coordinates as a caller sees them.                                       *)
Mapped(A) == Answered([x |-> A.x, y |-> A.y])

MulExpected(r, answer) ==
    LET A == Times(r.scalar, Multiple(r.point))
    IN  IF ~A.finite THEN answer = Refused
        ELSE IF r.map THEN answer = Mapped(A)
        ELSE answer.status = "Success" /\ Represents(answer.value, A)

PointExpected(A, answer) == answer = IF A.finite THEN Mapped(A) ELSE Refused

InverseModulo(a, modulus) == CHOOSE i \in 1..(modulus - 1) : (a * i) % modulus = 1

OrderExpected(r) ==
    IF r.r \in 1..(GroupOrder - 1) /\ r.s \in 1..(GroupOrder - 1)
    THEN LET inverse == InverseModulo(r.s, GroupOrder)
         IN  Answered(<<(r.e % GroupOrder) * inverse % GroupOrder,
                        r.r * inverse % GroupOrder, inverse>>)
    ELSE Refused

ValidateExpected(r) ==
    IF r.x >= Prime \/ r.y >= Prime THEN Answered("OutOfRange")
    ELSE IF (r.y * r.y) % Prime
            = (((r.x * r.x) % Prime) * r.x + (Prime - 3) * r.x + EquationB) % Prime
    THEN Answered("Success") ELSE Answered("InvalidPoint")

RInverse == InverseModulo(R % Prime, Prime)

RECURSIVE FieldExpectedValue(_, _)
FieldExpectedValue(r, count) ==
    IF count = 0 THEN r.a
    ELSE LET a == FieldExpectedValue(r, count - 1)
             wide == CASE r.operation = "Multiply" -> a * r.b
                       [] r.operation = "Square" -> a * a
                       [] r.operation = "Reduce" -> a + R * r.b
         IN  ((wide % Prime) * RInverse) % Prime

FieldExpected(r) ==
    IF \/ r.count = 0
       \/ r.operation # "Reduce" /\ r.a >= Prime
       \/ r.operation # "Square" /\ r.b >= Prime
    THEN Refused ELSE Answered(FieldExpectedValue(r, r.count))

RECURSIVE DigitsValue(_)
DigitsValue(digits) ==
    IF digits = <<>> THEN 0 ELSE Head(digits) + DigitBase * DigitsValue(Tail(digits))

DigitsExpected(r, answer) ==
    IF Len(r.left) + Len(r.right) >= MaxDigits THEN answer = Refused
    ELSE /\ DigitsValue(answer.value) = DigitsValue(r.left) * DigitsValue(r.right)
         /\ answer.value # <<>> => answer.value[Len(answer.value)] # 0

(* Every command answers what textbook arithmetic does, and refuses what it   *)
(* must: the point at infinity, a scalar of a signature out of range, a       *)
(* coordinate that is not reduced, a product too long for its digits          *)
(* (multiply.c:1436-1904).                                                   *)
Answers ==
    reply.status # "None" =>
        CASE request.command = "P256_MUL" -> MulExpected(request, reply)
          [] request.command = "P256_MUL2ADD" ->
                PointExpected(Plus(Times(request.leftScalar, Multiple(request.left)),
                                   Times(request.rightScalar, Multiple(request.right))), reply)
          [] request.command = "P256_MAP" ->
                PointExpected(IF request.z = 0 THEN Zero ELSE Multiple(request.point), reply)
          [] request.command = "P256_ORDER" -> reply = OrderExpected(request)
          [] request.command = "P256_VALIDATE" -> reply = ValidateExpected(request)
          [] request.command = "P256_FIELD" -> reply = FieldExpected(request)
          [] request.command = "MULTIPLY" -> DigitsExpected(request, reply)
=============================================================================
