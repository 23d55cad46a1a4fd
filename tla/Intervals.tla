----------------------------- MODULE Intervals -----------------------------
(***************************************************************************)
(* w1_verify_intervals with w1_gcd and w1_lcm: from the polling interval   *)
(* of every device and the delay of the configuration, the wake-up value   *)
(* (the new delay), the interval of every device and the cycle at which    *)
(* all of them are read together.                                          *)
(* An array of intervals is a function from devices to integers.  The      *)
(* product in w1_lcm is an unsigned long (modulo Word), its loop counter   *)
(* and result are ints (at most IntMax, IntMax < Word).                    *)
(* A definition named X_Slip... is a plausible mistake in X.               *)
(***************************************************************************)
EXTENDS Integers, FiniteSets, Functions

CONSTANTS Word, IntMax

ASSUME WordAssumption == Word \in Nat /\ IntMax \in Nat /\ 0 < IntMax /\ IntMax < Word

W1_MIN_INTVL == 10
W1_DEFAULT_INTVL == 120

Divides(d, n) == n % d = 0

-----------------------------------------------------------------------------
\* Euclid's algorithm, _w1_gcd(m, n).
Euclid[mn \in Nat \X Nat] ==
    IF mn[2] = 0 THEN mn[1] ELSE Euclid[<<mn[2], mn[1] % mn[2]>>]

w1_gcd(a) == FoldFunction(LAMBDA x, s : Euclid[<<s, x>>], 0, a)

Product(a) == FoldFunction(LAMBDA x, prod : (prod * x) % Word, 1, a)

Smallest(S) == CHOOSE x \in S : \A y \in S : x <= y
Largest(S)  == CHOOSE x \in S : \A y \in S : x >= y

Search_SlipAny(a, limit) ==
    LET amax   == Largest(Range(a))
        common == {k \in 1 .. limit \div amax : \E d \in DOMAIN a : Divides(a[d], k * amax)}
    IN  IF common = {} THEN -1 ELSE Smallest(common) * amax

\* The multiples of the largest interval are tried one after the other up to
\* the limit; -1 when no interval of the array divides any of them.
Search(a, limit) ==
    LET amax   == Largest(Range(a))
        common == {k \in 1 .. limit \div amax : \A d \in DOMAIN a : Divides(a[d], k * amax)}
    IN  IF common = {} THEN -1 ELSE Smallest(common) * amax

\* An unsigned long stored in an int.
AsInt(x) == IF x % Word > IntMax THEN (x % Word) - Word ELSE x % Word

\* When the loop counter would pass IntMax before a multiple is found, what
\* happens is undefined: a counter that wraps ends the loop with -1 (it compares
\* as a huge unsigned long), a counter the compiler widened goes on up to the
\* product.  The set of the values the build can give.
w1_lcm(a) ==
    LET prod == Product(a)
        s    == Search(a, IF prod <= IntMax THEN prod ELSE IntMax)
    IN  IF s # -1 \/ prod <= IntMax THEN {s} ELSE {-1, AsInt(Search(a, prod))}

-----------------------------------------------------------------------------
Clamped_SlipNoMax(delay, i) ==
    IF i = 0 THEN delay ELSE IF i < W1_MIN_INTVL THEN W1_MIN_INTVL ELSE i

\* The first loop: an interval is at least W1_MIN_INTVL and, before all, at most
\* the delay; without one a device is read at the delay.
Clamped(delay, i) ==
    LET atLeast == IF i < W1_MIN_INTVL THEN W1_MIN_INTVL ELSE i
    IN  IF i = 0 \/ atLeast > delay THEN delay ELSE atLeast

\* The second loop: down to a multiple of the smallest.
Rounded(mint, i) == IF i \div mint = 0 THEN mint ELSE (i \div mint) * mint

MinIntvl(delay, intvl) ==
    Smallest({delay} \cup {Clamped(delay, intvl[d]) : d \in DOMAIN intvl})

VerifiedIntvl(delay, intvl) ==
    [d \in DOMAIN intvl |->
        Rounded(MinIntvl(delay, intvl), Clamped(delay, intvl[d]))]

\* The plans w1_verify_intervals can leave, for a delay and intervals as loaded.
Plans(delay, intvl) ==
    LET v == VerifiedIntvl(delay, intvl)
    IN  {[delay |-> w1_gcd(v), intvl |-> v, cycle |-> c] : c \in w1_lcm(v)}
=============================================================================
