--------------------------- MODULE RtpCollisionList ---------------------------
(***************************************************************************)
(* The list of addresses that sent packets with our SSRC                   *)
(* (RTPCollisionList), as ProcessPolledData uses it: a collision with an   *)
(* address that is not in the list is answered with a BYE and a new SSRC,  *)
(* one with a known address is taken for our own packets coming back.      *)
(* Each round ends with the timeout of addresses; its delay is a multiple  *)
(* of the RTCP interval and changes with it.                               *)
(***************************************************************************)
EXTENDS RtpTime, Subsequences

CONSTANTS
    Address,    \* addresses of others
    TimeoutDelay,  \* delays of the timeout that may be computed
    StartTime,  \* the time when the session is created
    EndSecond,  \* bound on the clock
    Never

\* The clock shows more than any delay, and the run ends before its seconds wrap.
ASSUME CollisionAssumption ==
    /\ TimeoutDelay \subseteq RTPTime /\ TimeoutDelay # {}
    /\ StartTime \in RTPTime /\ \A d \in TimeoutDelay : AtMost(d, StartTime)
    /\ StartTime.sec <= EndSecond /\ EndSecond \in 0..(Seconds - 1)
    /\ Never \notin RTPTime

VARIABLES
    addresslist,  \* addresses with the time of their last packet
    clock,        \* RTPTime::CurrentTime()
    current,      \* our SSRC: it alternates between two values
    heard         \* history: when each address was last heard of, or Never

collisionvars == <<addresslist, clock, current, heard>>

CollisionInit ==
    /\ addresslist = <<>>
    /\ clock = StartTime
    /\ current = 0
    /\ heard = [a \in Address |-> Never]

Known(a) == \E i \in DOMAIN addresslist : addresslist[i].addr = a

\* Bug: the time of a known address is not renewed.
UpdateAddressOnce(a) ==
    IF Known(a) THEN addresslist
    ELSE Append(addresslist, [addr |-> a, recvtime |-> clock])

\* UpdateAddress: the new list; the address is created when it was not known.
UpdateAddress(a) ==
    IF Known(a)
    THEN [i \in DOMAIN addresslist |->
             IF addresslist[i].addr = a THEN [addresslist[i] EXCEPT !.recvtime = clock]
             ELSE addresslist[i]]
    ELSE Append(addresslist, [addr |-> a, recvtime |-> clock])

\* A packet with our SSRC from another address: a new address means a new SSRC.
OwnCollision(a) ==
    /\ addresslist' = UpdateAddress(a)
    /\ current' = IF Known(a) THEN current ELSE 1 - current
    /\ heard' = [heard EXCEPT ![a] = clock]
    /\ UNCHANGED clock

\* Timeout
Timeout(delay) ==
    LET checktime == Minus(clock, delay)
        fresh == {i \in DOMAIN addresslist : ~Less(addresslist[i].recvtime, checktime)}
    IN  /\ addresslist' = Picked(addresslist, fresh)
        /\ UNCHANGED <<clock, current, heard>>

\* Clear, when the session is left
Clear ==
    /\ addresslist' = <<>>
    /\ heard' = [a \in Address |-> Never]
    /\ UNCHANGED <<clock, current>>

Tick ==
    /\ clock.sec < EndSecond
    /\ clock' = Plus(clock, [sec |-> 0, microsec |-> 1])
    /\ UNCHANGED <<addresslist, current, heard>>

CollisionNext ==
    \/ \E a \in Address : OwnCollision(a)
    \/ \E d \in TimeoutDelay : Timeout(d)
    \/ Clear
    \/ Tick

CollisionSpec == CollisionInit /\ [][CollisionNext]_collisionvars

-----------------------------------------------------------------------------
Shortest == CHOOSE d \in TimeoutDelay : \A e \in TimeoutDelay : AtMost(d, e)

\* Our SSRC changes for an address only when nothing was heard from it for longer
\* than the shortest timeout: packets of ours that somebody sends back make us
\* change it once, not again and again, however long they keep coming.
CollisionsPaced ==
    [][current' # current =>
          \E a \in Address :
             /\ heard' = [heard EXCEPT ![a] = clock]
             /\ heard[a] = Never \/ Greater(Minus(clock, heard[a]), Shortest)]_collisionvars

\* The clock, which the paces are measured with, at any moment: against all other
\* times, as an NTP timestamp, and against the time a quotient gives (see RtpTime).
TimeSound ==
    /\ clock \in RTPTime
    /\ \A t \in RTPTime : Arithmetic(clock, t)
    /\ NTPRoundTrip(clock)
    /\ \A d \in 1..3 : QuotientRounded(Value(clock), d)

\* The parts above in the form the run checks.
CollisionsSound == CollisionsPaced /\ []TimeSound
=============================================================================
