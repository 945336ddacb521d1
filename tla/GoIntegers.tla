----------------------------- MODULE GoIntegers -----------------------------
(* Go's int64; its width is a parameter, so that TLC can enumerate it. *)
EXTENDS Integers

CONSTANT MaxInt64   \* the largest int64, and the largest time.Duration: 2^63 - 1

ASSUME MaxInt64Assumption == MaxInt64 \in Nat

MinInt64 == -MaxInt64 - 1

\* the result of an operation that may overflow
Wrap(n) == ((n - MinInt64) % (2 * (MaxInt64 + 1))) + MinInt64

\* division, towards zero
Quo(n, d) == IF n < 0 THEN -((-n) \div d) ELSE n \div d
=============================================================================
