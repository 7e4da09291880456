-------------------------------- MODULE RtpTime --------------------------------
(***************************************************************************)
(* RTPTime and RTPNTPTime: moments and delays as two unsigned words,       *)
(* seconds and microseconds, and the conversion to the words of an NTP     *)
(* timestamp.  Floating point is modelled by the exact quotient, rounded   *)
(* down as the conversion to an integer does.                              *)
(***************************************************************************)
EXTENDS Integers

CONSTANTS
    Seconds,    \* 2^32: seconds wrap
    Micro,      \* 1000000: microseconds in a second
    Fraction,   \* 2^32: NTP units in a second
    Offset      \* RTP_NTPTIMEOFFSET, 2208988800

\* The NTP words are finer than microseconds, and count from earlier.
ASSUME WordAssumption ==
    /\ Seconds \in Nat /\ Micro \in Nat /\ Fraction \in Nat
    /\ 1 < Micro /\ Micro <= Fraction /\ Offset \in 0..(Seconds - 1)

RTPTime == [sec : 0..(Seconds - 1), microsec : 0..(Micro - 1)]
Value(t) == t.sec * Micro + t.microsec

-----------------------------------------------------------------------------
\* operator-=
Minus(a, b) ==
    LET borrow == IF b.microsec > a.microsec THEN 1 ELSE 0
    IN  [sec |-> (a.sec - b.sec - borrow) % Seconds,
         microsec |-> a.microsec + borrow * Micro - b.microsec]

\* operator+=
Plus(a, b) ==
    LET sum == a.microsec + b.microsec
        carry == IF sum >= Micro THEN 1 ELSE 0
    IN  [sec |-> (a.sec + b.sec + carry) % Seconds, microsec |-> sum - carry * Micro]

\* operator< and the three others
Less(a, b) == a.sec < b.sec \/ (a.sec = b.sec /\ a.microsec < b.microsec)
Greater(a, b) == a.sec > b.sec \/ (a.sec = b.sec /\ a.microsec > b.microsec)
AtMost(a, b) == a.sec < b.sec \/ (a.sec = b.sec /\ a.microsec <= b.microsec)
AtLeast(a, b) == a.sec > b.sec \/ (a.sec = b.sec /\ a.microsec >= b.microsec)

\* RTPTime(double), of the quotient n / d
OfQuotient(n, d) == [sec |-> n \div d, microsec |-> ((n % d) * Micro) \div d]

\* GetNTPTime, whose first word wraps
NTPTime(t) ==
    [msw |-> (t.sec + Offset) % Seconds, lsw |-> (t.microsec * Fraction) \div Micro]

\* RTPTime(RTPNTPTime)
OfNTPTime(n) ==
    IF n.msw < Offset THEN [sec |-> 0, microsec |-> 0]
    ELSE [sec |-> n.msw - Offset, microsec |-> (n.lsw * Micro) \div Fraction]

-----------------------------------------------------------------------------
\* Two times behave as whole numbers of microseconds: sums and differences, as far
\* as the seconds do not wrap, and all four comparisons.
Arithmetic(a, b) ==
    /\ Minus(a, b) \in RTPTime /\ Plus(a, b) \in RTPTime
    /\ Value(Minus(a, b)) = (Value(a) - Value(b)) % (Seconds * Micro)
    /\ Value(Plus(a, b)) = (Value(a) + Value(b)) % (Seconds * Micro)
    /\ Less(a, b) <=> Value(a) < Value(b)
    /\ Greater(a, b) <=> ~AtMost(a, b)
    /\ AtLeast(a, b) <=> ~Less(a, b)
    /\ AtMost(a, b) <=> Less(a, b) \/ a = b

\* A time that is sent as an NTP timestamp comes back at most one microsecond
\* earlier, and never later; after the wrap of the NTP seconds (in 2036) it
\* comes back as zero.
NTPRoundTrip(t) ==
    LET back == OfNTPTime(NTPTime(t))
    IN  IF t.sec + Offset < Seconds
        THEN Value(t) - Value(back) \in {0, 1}
        ELSE Value(back) = 0

\* A delay from a quotient is the quotient rounded down to whole microseconds.
QuotientRounded(n, d) ==
    LET v == Value(OfQuotient(n, d)) IN v * d <= n * Micro /\ n * Micro < (v + 1) * d
=============================================================================
