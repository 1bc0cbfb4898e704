------------------------------ MODULE FixedPoint ------------------------------
(***************************************************************************)
(* The float arithmetic of the packet and chunk code, as arithmetic on     *)
(* multiples of a resolution that is 1: sums and products are exact,       *)
(* quotients and roots are truncated.  What other modules say about the    *)
(* value of an intensity holds up to this resolution; what they say about  *)
(* masks and about places in arrays does not depend on it.                 *)
(***************************************************************************)
EXTENDS Integers

One == 100     \* 1.0, where the code falls back to it

AtLeast(x, least) == IF x < least THEN least ELSE x
AtMost(x, most)   == IF x > most THEN most ELSE x

(* The sum of f[0] to f[n - 1]. *)
SumTo(n, f) ==
  LET sum[i \in 0 .. n] == IF i = 0 THEN 0 ELSE sum[i - 1] + f[i - 1] IN sum[n]

(* sqrt(), one bit of the result at a time; x < 2^30. *)
Bits == <<16384, 8192, 4096, 2048, 1024, 512, 256, 128, 64, 32, 16, 8, 4, 2, 1>>
Sqrt(x) ==
  LET root[k \in 0 .. 15] ==
        IF k = 0 THEN 0
        ELSE LET low  == root[k - 1]
                 high == low + Bits[k]
             IN  IF high * high <= x THEN high ELSE low
  IN  root[15]

(* num / den, num >= 0, to the nearest integer: ties away from zero as in  *)
(* roundf(), or to even as in the rounding mode of the vector unit.        *)
RoundHalfUp(num, den) == (2 * num + den) \div (2 * den)
RoundHalfEven(num, den) ==
  LET up == RoundHalfUp(num, den)
  IN  IF (2 * num + den) % (2 * den) = 0 /\ up % 2 = 1 THEN up - 1 ELSE up
===============================================================================
