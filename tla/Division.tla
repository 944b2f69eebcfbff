------------------------------ MODULE Division ------------------------------
(***************************************************************************)
(* c/util: division of a double word by a word, as schoolbook division     *)
(* with two digits, and division by an invariant divisor with a            *)
(* multiplication and shifts.  A digit has DIGIT_BITS bits (32 in the      *)
(* code) and a word two digits.                                            *)
(***************************************************************************)
EXTENDS Integers, Job

CONSTANT DIGIT_BITS

ASSUME DivisionAssumption == DIGIT_BITS \in Nat \ {0}

(* 1 << n *)
pow2[n \in Nat] == IF n = 0 THEN 1 ELSE 2 * pow2[n - 1]

Base == pow2[DIGIT_BITS]
U64  == Base * Base

(* floor_log2 *)
floor_log2(n) == CHOOSE l \in 0 .. 2 * DIGIT_BITS : pow2[l] <= n /\ n < pow2[l + 1]

(* ceil_log2 *)
ceil_log2(n) == IF n > pow2[floor_log2(n)] THEN floor_log2(n) + 1 ELSE floor_log2(n)

-----------------------------------------------------------------------------
(* Mutant: the estimate is corrected at most once. *)
corrections_one == 1
(* Knuth: an estimate of a digit is too large by two at most. *)
corrections == 2

(* A digit of the quotient: estimated with the high digit of the divisor,   *)
(* then lowered while it is too large.  The loop ends early when the        *)
(* remainder no longer fits in a digit.                                     *)
quotient_digit(u, v1, v0, low) ==
    LET adjusted[n \in 0 .. corrections] ==
            IF n = 0 THEN [q |-> u \div v1, rhat |-> u % v1]
            ELSE LET d == adjusted[n - 1]
                 IN  IF d.rhat < Base /\ (d.q >= Base \/ d.q * v0 > d.rhat * Base + low)
                     THEN [q |-> d.q - 1, rhat |-> d.rhat + v1] ELSE d
    IN  adjusted[corrections].q

(* divmod128by64: for u1 < v, so that the quotient is a word. *)
divmod128by64(u1, u0, v) ==
    LET s   == 2 * DIGIT_BITS - 1 - floor_log2(v)
        vn  == v * pow2[s]
        v1  == vn \div Base
        v0  == vn % Base
        u   == (u1 * U64 + u0) * pow2[s]
        u32 == u \div U64
        l1  == (u % U64) \div Base
        l0  == u % Base
        q1  == quotient_digit(u32, v1, v0, l1)
        u21 == (u32 * Base + (l1 - q1 * vn)) % U64
        q0  == quotient_digit(u21, v1, v0, l0)
    IN  (q1 * Base + q0) % U64

(* Mutant: the constant is rounded down. *)
m_prime_floor(d) == divmod128by64(pow2[ceil_log2(d)] - d, 0, d)
(* prep_ct_div: the multiplier for a divisor. *)
m_prime(d) == (1 + divmod128by64(pow2[ceil_log2(d)] - d, 0, d)) % U64

(* prep_ct_div: the two shifts.  A divisor is at least two. *)
shift1(d) == IF ceil_log2(d) < 1 THEN ceil_log2(d) ELSE 1
shift2(d) == ceil_log2(d) - 1

(* ct_div, with muluh64 *)
ct_div(n, d) ==
    LET t1 == (m_prime(d) * n) \div U64
    IN  ((t1 + ((n - t1) \div pow2[shift1(d)])) % U64) \div pow2[shift2(d)]

(* ct_mod *)
ct_mod(n, d) == (n - ct_div(n, d) * d) % U64

(* Division by v is exact: of every double word whose quotient is a word,   *)
(* and of every word when v is an invariant divisor.                        *)
Exact(v) ==
    /\ \A u1 \in 0 .. v - 1, u0 \in 0 .. U64 - 1 : divmod128by64(u1, u0, v) = (u1 * U64 + u0) \div v
    /\ v \in 2 .. U64 \div 2 =>
         \A n \in 0 .. U64 - 1 : ct_div(n, v) = n \div v /\ ct_mod(n, v) = n % v

(* The divisors to check. *)
DivisionJobs == [what : {"division"}, v : 1 .. U64 - 1]

(* uint128div.c and util.h: both divisions are exact. *)
DivisionExact == job \in DivisionJobs => Exact(job.v)
=============================================================================
