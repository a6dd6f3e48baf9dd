---------------------------------- MODULE Jwt ----------------------------------
(***************************************************************************)
(* The tokens of the manager's authentication service.                      *)
(*                                                                          *)
(* A lifetime is a time.Duration, an int64 of nanoseconds, and NewJWT         *)
(* multiplies the configured number of days by that of a day, which may       *)
(* overflow.  A day is 1318359375 * 2^16 ns, so the product modulo 2^64 is    *)
(* kept as the product modulo 2^48 in units of 2^16 ns: four digits to the    *)
(* base 2^12, the lowest first.                                              *)
(*                                                                          *)
(* Source: src/manager/service/authservice                                   *)
(***************************************************************************)
EXTENDS Naturals, FiniteSetsExt

Base == 4096

\* The digits of a number below 2^36.
Digits(n) == [i \in 0 .. 3 |-> CASE i = 0 -> n % Base
                                 [] i = 1 -> (n \div Base) % Base
                                 [] i = 2 -> n \div (Base * Base)
                                 [] i = 3 -> 0]

Day == Digits(1318359375)

\* The column of a product that has the weight of digit k, before the carries.
Column(a, b, k) == MapThenSumSet(LAMBDA i : a[i] * b[k - i], 0 .. k)

\* Signed 64-bit multiplication: the carry out of the last digit is lost.
Times(a, b) ==
  LET c[k \in 0 .. 3] == Column(a, b, k) + (IF k = 0 THEN 0 ELSE c[k - 1] \div Base)
  IN  [k \in 0 .. 3 |-> c[k] % Base]

\* The sign is the highest bit.
IsNegative(d) == d[3] >= Base \div 2

NewJWT(secret, accessDays, refreshDays) ==
  [secret |-> secret, access |-> Times(Digits(accessDays), Day),
   refresh |-> Times(Digits(refreshDays), Day)]

\* A token carries the user id in base64 and expires after a lifetime.
createToken(jwt, id, subject, lifetime) ==
  [key |-> jwt.secret, subject |-> subject, userID |-> [base64 |-> id],
   lifetime |-> lifetime]

CreateAccessToken(jwt, id) == createToken(jwt, id, "ac", jwt.access)

CreateRefreshToken(jwt, id) == createToken(jwt, id, "rt", jwt.refresh)

\* A token just made is accepted if the key is that of the parser and the
\* expiry is not in the past.
ParseToken(jwt, token) == token.key = jwt.secret /\ ~IsNegative(token.lifetime)
=============================================================================
