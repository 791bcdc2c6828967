SPECIFICATION Spec
CONSTANTS
    Null = Null
    WrongOtp = WrongOtp
    Keys = {k1}
    Codes = {v1, v2, v3}
    Threads = {t1, t2}
    OTP_MAX_FAILED_ATTEMPTS = 2
SYMMETRY Symmetry
VIEW View
INVARIANTS
    TypeOK
    EffectsBounded
    ActiveBounded
    AttemptsWithinLimit
    GuessesBounded
CHECK_DEADLOCK FALSE
