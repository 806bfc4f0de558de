--------------------------- MODULE Amplification ---------------------------
(***************************************************************************)
(* contracts/stableswap-pool/src/amplification.rs: the coefficient A of a  *)
(* stable pool, which the admin moves along a ramp.  Storage keys that are *)
(* not set read as 0.                                                      *)
(***************************************************************************)
EXTENDS Integers

CONSTANTS
    Coefficients,     \* the values of A initialize and ramp_a are called with
    MaxA,             \* a bound on them
    MinRampTime,      \* MIN_RAMP_TIME, a day
    MaxTime,          \* bound on the ledger timestamp and on a ramp's end
    U128Modulus       \* 2^128

ASSUME MinRampTimeAssumption == MinRampTime \in Nat \ {0}
ASSUME MaxTimeAssumption     == MaxTime \in Nat
ASSUME U128ModulusAssumption == U128Modulus \in Nat \ {0}

\* The product of the interpolation is unchecked.  No coefficient is so large
\* that it wraps; the code leaves that to the admin.
ASSUME CoefficientAssumption ==
    MaxA \in Nat /\ Coefficients \subseteq 0..MaxA /\ MaxA * MaxTime < U128Modulus

VARIABLES
    a0, t0,           \* keys A0 and T0: where the ramp starts
    a1, t1,           \* keys A1 and T1: where it ends
    initialized,      \* key Init of the pool
    now               \* the ledger timestamp

ampVars == <<a0, t0, a1, t1, initialized, now>>

AmpTypeOK ==
    /\ a0 \in 0..MaxA /\ a1 \in 0..MaxA
    /\ t0 \in 0..MaxTime /\ t1 \in 0..MaxTime
    /\ initialized \in BOOLEAN
    /\ now \in 0..MaxTime

AmpInit ==
    /\ a0 = 0 /\ t0 = 0
    /\ a1 = 0 /\ t1 = 0
    /\ initialized = FALSE
    /\ now = 0

\* The part of a change that a ramp has made good after some of its time.
Progress(change, elapsed, total) ==
    ((change * elapsed) % U128Modulus) \div total

\* Mutant: a ramp that goes down is taken for one that goes up.
CurrentAUpwards ==
    IF now >= t1 \/ t1 = t0 THEN a1
    ELSE a0 + Progress(a1 - a0, now - t0, t1 - t0)

CurrentA ==
    IF now >= t1 \/ t1 = t0 THEN a1
    ELSE IF a1 > a0 THEN a0 + Progress(a1 - a0, now - t0, t1 - t0)
                    ELSE a0 - Progress(a0 - a1, now - t0, t1 - t0)

\* Part of the pool's initialize.
SetInitialA(a) ==
    /\ ~initialized
    /\ initialized' = TRUE
    /\ a0' = a /\ t0' = now
    /\ a1' = a /\ t1' = now
    /\ UNCHANGED now

\* Mutant: a ramp starts from the end of the one it replaces.
RampFromEnd(futureA, futureTime) ==
    /\ initialized
    /\ futureTime >= now + MinRampTime
    /\ a0' = a1      /\ t0' = now
    /\ a1' = futureA /\ t1' = futureTime
    /\ UNCHANGED <<initialized, now>>

\* The admin starts a ramp; get_admin unwraps the key.
RampA(futureA, futureTime) ==
    /\ initialized
    /\ futureTime >= now + MinRampTime
    /\ a0' = CurrentA /\ t0' = now
    /\ a1' = futureA  /\ t1' = futureTime
    /\ UNCHANGED <<initialized, now>>

\* The timestamp of the host.
TimePasses ==
    /\ now < MaxTime
    /\ now' = now + 1
    /\ UNCHANGED <<a0, t0, a1, t1, initialized>>

AmpNext ==
    \/ \E a \in Coefficients : SetInitialA(a)
    \/ \E a \in Coefficients, t \in 0..MaxTime : RampA(a, t)
    \/ TimePasses

AmpSpec == AmpInit /\ [][AmpNext]_ampVars

-----------------------------------------------------------------------------
Between(v, p, q) == (p <= v /\ v <= q) \/ (q <= v /\ v <= p)

\* A ramp that replaces another, also in the middle of it, starts at the value
\* A has at that moment: no call makes A, and with it D, jump.  Only the first
\* value of A replaces none.
RampIsContinuous ==
    [][now' = now /\ initialized => CurrentA' = CurrentA]_ampVars

\* As time passes A moves towards the end of the ramp, up or down, never past
\* it and never back, whatever the interpolation rounds off.
RampIsGradual ==
    [][now' # now => Between(CurrentA', CurrentA, a1)]_ampVars
=============================================================================
