---------------------------- MODULE HostInteger ----------------------------
(***************************************************************************)
(* The i128 of the Soroban contracts.  I128Max is 2^127 - 1 there; the     *)
(* model checker uses a small one, so that the limit is met.               *)
(***************************************************************************)
EXTENDS Integers

CONSTANT I128Max

ASSUME I128MaxAssumption == I128Max \in Nat \ {0, 1}

\* The result of a checked operation is inside i128.
Fits(x) == -I128Max - 1 <= x /\ x <= I128Max

I128 == -I128Max - 1..I128Max

\* What an unchecked + or - of two i128 leaves in a release build, whose
\* profile does not turn overflow checks on: it wraps around.
Wrap(x) ==
    IF x > I128Max THEN x - 2 * (I128Max + 1)
    ELSE IF x < -I128Max - 1 THEN x + 2 * (I128Max + 1)
    ELSE x

\* The same for an unchecked product, which may pass the width several times.
WrapProduct(x) ==
    ((x + I128Max + 1) % (2 * (I128Max + 1))) - I128Max - 1

\* Rust's / rounds towards zero, \div rounds down.
RustQuotient(n, d) ==
    LET magnitude(v) == IF v < 0 THEN -v ELSE v
        quotient == magnitude(n) \div magnitude(d)
    IN  IF (n < 0) = (d < 0) THEN quotient ELSE -quotient
=============================================================================
