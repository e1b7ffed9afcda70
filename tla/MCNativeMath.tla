----------------------------- MODULE MCNativeMath -----------------------------
(***************************************************************************)
(* The ARMlet's commands on a curve of the same kind as P-256: its order n = *)
(* 3889 is prime, 1 modulo 16, above half of 2^12, with n + 30 a scalar and  *)
(* the top digit 15.                                                        *)
(***************************************************************************)
EXTENDS NativeMath

Boundary == (0..33) \cup (1936..1952) \cup (3850..3930) \cup (4080..4095)
MCMulRequests ==
    [command : {"P256_MUL"}, scalar : 0..4095, point : {1}, map : {TRUE}]
    \cup [command : {"P256_MUL"}, scalar : Boundary, point : {1, 2, 1000, 3888},
          map : BOOLEAN]

Ends == {0, 1, 2, 15, 16, 17, 31, 33, 1945, 3888, 3889, 3890, 3919, 4095}
MCMul2Requests ==
    [command : {"P256_MUL2ADD"}, leftScalar : Ends, left : {1}, rightScalar : Ends,
     right : {1, 2, 3888}]

MCMapRequests ==
    [command : {"P256_MAP"}, point : {1, 2, 3888}, z : {0, 1, 2, 3852}]

MCOrderRequests ==
    [command : {"P256_ORDER"}, e : {0, 1, 3888, 3889, 4095}, r : {0, 1, 3888, 3889},
     s : (0..20) \cup (1940..1950) \cup (3870..3890) \cup {4095}]

MCValidateRequests ==
    [command : {"P256_VALIDATE"}, x : {0, 1, 2, 5, 198, 199, 200, 204}, y : 0..255]

Elements == {0, 1, 2, 3, 57, 100, 127, 128, 197, 198, 199, 200, 254, 255}
MCFieldRequests ==
    [command : {"P256_FIELD"}, a : Elements, b : Elements,
     operation : {"Multiply", "Square", "Reduce"}, count : 0..2]

DigitStrings(base) ==
    {<<>>} \cup [1..1 -> 0..(base - 1)] \cup [1..2 -> 0..(base - 1)]
MCDigitRequests ==
    [command : {"MULTIPLY"}, left : DigitStrings(4), right : DigitStrings(4)]
=============================================================================
