SPECIFICATION Spec
CONSTANTS
    Beta = 2
    OrderBeta = 16
    OrderLimbs = 3
    Order = 3889
    FieldPrime = 3853
    CurveB = 19
    GeneratorX = 4
    GeneratorY = 439
    GroupOrder = 3889
    Windows = 3
    Teeth = 3
    MulRequests <- MCMulRequests
    Mul2Requests <- MCMul2Requests
    MapRequests <- MCMapRequests
    OrderRequests <- MCOrderRequests
    ValidateRequests <- MCValidateRequests
    FieldRequests <- MCFieldRequests
    DigitRequests <- MCDigitRequests
    DigitBase = 4
    MaxDigits = 4
    EquationB = 7
INVARIANTS
    Products
    EqualPoints
    WnafForm
    Answers
CHECK_DEADLOCK FALSE
