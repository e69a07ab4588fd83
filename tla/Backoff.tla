------------------------------- MODULE Backoff -------------------------------
(***************************************************************************)
(* RetryPolicy and parse_retry_after (crates/fetch/src/fetcher.rs): how    *)
(* long fetch sleeps between two attempts.  Times are milliseconds, in     *)
(* unsigned integers of Width bits (64 in the code).                       *)
(***************************************************************************)
EXTENDS Integers

CONSTANTS Width, ShiftCap  \* ShiftCap is 16 in the code

MaxWord == 2^Width - 1
Smaller(m, n) == IF m <= n THEN m ELSE n

(* RetryPolicy::new                                                        *)
Policy(base, max) == [base |-> base, max |-> IF max >= base THEN max ELSE base]

SaturatingSub(m, n) == IF m >= n THEN m - n ELSE 0

(* Bug variant: the product wraps around.                                  *)
WrappingMul(m, n) == (m * n) % 2^Width

SaturatingMul(m, n) == Smaller(m * n, MaxWord)

(* What the jitter scales down, for attempt 1, 2, ...                      *)
Nominal(policy, attempt) ==
  LET shift == Smaller(SaturatingSub(attempt, 1), ShiftCap)
  IN  Smaller(SaturatingMul(Smaller(policy.base, MaxWord), 2^shift),
              Smaller(policy.max, MaxWord))

(* A random factor between a half and one, rounded down.                   *)
Delay(policy, attempt) ==
  LET nominal == Nominal(policy, attempt) IN (nominal \div 2)..nominal

(* A Retry-After header: [form : "seconds" | "date" | "none", value], a    *)
(* date being that many milliseconds after now; "none" is a header that is *)
(* absent or that cannot be read.                                          *)
RetryAfter(header) ==
  CASE header.form = "seconds" -> {1000 * header.value}
    [] header.form = "date"    -> {SaturatingSub(header.value, 0)}

(* How long fetch sleeps after its attempt number attempt, counted from 0, *)
(* has failed.                                                             *)
Sleep(policy, attempt, header) ==
  IF header.form = "none" THEN Delay(policy, attempt + 1) ELSE RetryAfter(header)
-----------------------------------------------------------------------------
(* Correctness.                                                            *)

(* The delay doubles with each attempt up to the maximum, or for ShiftCap  *)
(* attempts, and stays there, however many attempts follow and however     *)
(* large the base is: no overflow ever makes it short again.  Only the     *)
(* jitter takes off, at most one half.                                     *)
BackoffExact(base, max, attempts) ==
  LET policy == Policy(base, max)
      limit == Smaller(policy.max, MaxWord)
      longest(k) == CHOOSE d \in Sleep(policy, k, [form |-> "none"]) :
                      \A e \in Sleep(policy, k, [form |-> "none"]) : e <= d
  IN  \A k \in 0..attempts :
        /\ \A d \in Sleep(policy, k, [form |-> "none"]) : d <= limit /\ 2 * d >= longest(k) - 1
        /\ k <= ShiftCap => longest(k) = Smaller(limit, base * 2^k)
        /\ k > ShiftCap => longest(k) = longest(ShiftCap)
        /\ k > 0 => longest(k) >= longest(k - 1)
=============================================================================
