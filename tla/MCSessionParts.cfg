CONSTANTS
    FLD_BITS = 12
    q = 4093
    con_d = 671
    con_j = 1059
    BaseX = 1936
    BaseY = 1638
    A24 = 66
    SC_LIMB_BITS = 7
    SC_LIMB_NUM = 2
    con_m = 521
    DigitBits = 2
    PackLen = 3
    SHA512_BLOCK_SIZE = 4
    LengthSize = 1
    InitialState <- MCInitialState
    compress <- MCcompress
    BLOCK = 4
    IV_LEN = 3
    BYTE_BITS = 4
    DIGIT_BITS = 2
    POLY = 54272
    SC_API_aes_cipher <- MCcipher
    BackendSecret = {1234, 8000}
    SignSecret = 777
    UserSecret = {3, 4321}
    SessionId = 42
    Name <- MCName
    Data <- MCData
    FirstIv <- MCFirstIv
    MaxSent = 2
    Widths64 <- MCWidths64
    Widths32 <- MCWidths32
    FoldC = 3
    Factor = {66}
    MaxCalls = 3
    Timer = {a, b}
    MaxTicks = 2
SPECIFICATION MCSpec
INVARIANT VerdictIsGroupEquation
INVARIANT KeysAgree
INVARIANT DatagramsOpen
INVARIANT ArithmeticExact
INVARIANT DestroyedInTime
PROPERTY TicksOn
CHECK_DEADLOCK FALSE
