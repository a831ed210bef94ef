-------------------------- MODULE MCSessionParts ---------------------------
(***************************************************************************)
(* One run for parts of a session that share no variable: the key exchange *)
(* and encryption, the arithmetic under them, and the periodic timers.     *)
(* Each moves while the others are in their initial states.  The curve is  *)
(* -x^2 + y^2 = 1 + 671 x^2 y^2 over the numbers modulo 4093 = 2^12 - 3,   *)
(* with 8 * 521 points and the base point u = 9.                           *)
(***************************************************************************)
EXTENDS SecureSession, LimbArithmetic, PeriodicTimers

MCWidths64 == <<5, 5, 5>>
MCWidths32 == <<4, 3, 4, 3>>

\* A hash state is a pair of 13-bit words, mixed with the units of a block.
MCInitialState == <<4711, 815>>

MCcompress(s, block) ==
    FoldLeft(LAMBDA h, u : <<(h[1] * 163 + h[2] * 7 + u * 29 + 5) % 8192,
                             (h[2] * 241 + h[1] * 3 + u * 57 + 11) % 8192>>, s, block)

\* A permutation of the 16-bit blocks for every key.
MCcipher(key, block) == (((block + 4099 * key) % 65536) * 20021 + 977) % 65536

MCName == {<< >>, <<65>>, <<65, 66, 67>>, <<65, 66, 67, 68, 69>>}

MCData == {<< >>, <<9>>, <<1, 2, 3, 4>>, <<15, 0, 7, 8, 12, 3>>}

MCFirstIv == {<<15, 15, 14>>, <<14, 0, 3>>}

MCInit == Init /\ LimbInit /\ TimersInit

\* The others need one of the initial states of each machine only.
SessionAtRest ==
    /\ result = "none"
    /\ secret = CHOOSE s \in [exchange : ExchangeKey, user : UserSecret] : TRUE
    /\ method.method = "other" /\ unsized = "none"

LimbsAtRest == layout = "scalar" /\ calls = 0

SessionStep    == LimbsAtRest /\ TimersInit /\ Next /\ UNCHANGED <<limbVars, timerVars>>
ArithmeticStep == SessionAtRest /\ TimersInit /\ LimbNext /\ UNCHANGED <<vars, timerVars>>
TimersStep     == SessionAtRest /\ LimbsAtRest /\ TimersNext /\ UNCHANGED <<vars, limbVars>>

MCNext == SessionStep \/ ArithmeticStep \/ TimersStep

\* Only the timers have something that must happen.
MCSpec == MCInit /\ [][MCNext]_<<vars, limbVars, timerVars>> /\ TimersFairness
=============================================================================
