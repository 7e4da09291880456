----------------------------- MODULE RtcpProofs -----------------------------
(***************************************************************************)
(* The RTCP timer for every number of members, every interval and every    *)
(* packet size: types, the time since the last packet, and the distance    *)
(* between packets.  The private SDES items of a source: the values kept,  *)
(* for any prefixes and any limit.  Report packets: every source has its   *)
(* block in turn and every item is sent once a round, for any members,     *)
(* packet sizes and intervals.  Compound packets: what the builder lays    *)
(* out is what the parser reads, and a datagram that is cut is refused or  *)
(* read up to the cut, for any packets added and any maximum.              *)
(***************************************************************************)
EXTENDS RtcpScheduler, RtcpSdesInfo, RtcpReports, RtcpRoundTrip, CommonProofs, TLAPS

\* What the timer believes, with the types it needs: inductive.
IInv == TypeOK /\ NeverAhead

-----------------------------------------------------------------------------
(* Arithmetic.                                                              *)

\* A quotient lies where the multiples of the divisor put it.
LEMMA Quotient ==
  ASSUME NEW a \in Int, NEW b \in Nat \ {0}
  PROVE  /\ a \div b \in Int
         /\ b * (a \div b) <= a
         /\ a < b * (a \div b) + b
  BY SMT

\* The factor m/p of a reverse reconsideration makes a time smaller, not negative.
LEMMA Scaled ==
  ASSUME NEW m \in Nat, NEW p \in Nat, m < p, NEW t \in Nat
  PROVE  (m * t) \div p \in 0..t
<1> DEFINE q == (m * t) \div p
<1>1. m * t \in Nat /\ p \in Nat \ {0}
  BY SMT
<1>2. q \in Int /\ p * q <= m * t /\ m * t < p * q + p
  BY <1>1, Quotient
<1> HIDE DEF q
<1>3. q >= 0
  <2>1. SUFFICES ASSUME q <= -1 PROVE FALSE
    BY <1>2, SMT
  <2>2. p * q <= p * (-1)
    BY <1>2, <2>1, SMT
  <2>3. p * q + p <= 0
    BY <1>2, <2>2, SMT
  <2> QED
    BY <1>1, <1>2, <2>3, SMT
<1>4. q <= t
  <2>1. SUFFICES ASSUME q >= t + 1 PROVE FALSE
    BY <1>2, SMT
  <2>2. p * (t + 1) <= p * q
    BY <1>2, <2>1, SMT
  <2>3. m * t <= p * t
    BY SMT
  <2>4. p * (t + 1) = p * t + p
    BY SMT
  <2>5. p * t \in Int /\ p * q \in Int /\ m * t \in Int /\ p > 0
    BY <1>2, SMT
  <2> QED
    BY <1>2, <2>2, <2>3, <2>4, <2>5, SMT
<1> QED
  BY <1>2, <1>3, <1>4, SMT DEF q

\* A deterministic interval is a number of ticks, and at least the minimum.
LEMMA IntervalBounds ==
  ASSUME TypeOK
  PROVE  /\ Deterministic \in Nat
         /\ Deterministic >= (IF UseHalf /\ ~hassentrtcp THEN Half(MinInterval)
                              ELSE MinInterval)
<1> DEFINE total == IF members = 0 THEN 1 ELSE members
           few == 4 * senders <= total
           third == (4 * Cost) \div 3
           spent == IF few /\ sender THEN senders * (4 * Cost)
                    ELSE IF few THEN (total - senders) * third
                    ELSE total * Cost
           least == IF ~hassentrtcp /\ UseHalf THEN Half(MinInterval) ELSE MinInterval
<1>1. members \in Nat /\ senders \in Nat /\ Cost \in Nat /\ MinInterval \in Nat
  BY MembersAssumption, IntervalAssumption, SMT DEF TypeOK
<1>2. total \in Nat
  BY <1>1, SMT
<1>3. third \in Nat
  BY <1>1, SMT
<1>4. few => total - senders \in Nat
  BY <1>1, <1>2, SMT
<1>5. least \in Nat
  BY <1>1, SMT DEF Half
<1>6. senders * (4 * Cost) \in Nat /\ total * Cost \in Nat
  BY <1>1, <1>2, SMT
<1>7. few => (total - senders) * third \in Nat
  <2> HIDE DEF total, third
  <2> QED
    BY <1>3, <1>4, SMT
<1>8. spent \in Nat
  BY <1>6, <1>7
<1>9. Deterministic = MaxOf(least, spent)
  BY DEF Deterministic
<1>10. Deterministic \in Nat /\ Deterministic >= least
  <2> HIDE DEF least, spent
  <2> QED
    BY <1>5, <1>8, <1>9, SMT DEF MaxOf
<1> QED
  BY <1>10

\* The random factor gives ticks again, never fewer than the least.
LEMMA DrawnBounds ==
  ASSUME NEW n \in Nat, NEW t \in Drawn(n)
  PROVE  t \in Nat /\ t >= Least(n)
  BY SMT DEF Drawn, Least

\* The least interval grows with the interval it is drawn from.
LEMMA LeastMonotone ==
  ASSUME NEW a \in Nat, NEW b \in Nat, a <= b
  PROVE  Least(a) <= Least(b) /\ Least(a) \in Nat /\ Least(b) \in Nat
  BY SMT DEF Least

\* What is drawn for reports and for BYEs is a number of ticks.
LEMMA IntervalTicks ==
  ASSUME TypeOK
  PROVE  Interval \subseteq Nat /\ ByeInterval \subseteq Nat
<1>1. Interval \subseteq Nat
  BY IntervalBounds, DrawnBounds DEF Interval
<1> DEFINE least == IF UseHalf THEN Half(MinInterval) ELSE MinInterval
           third == (4 * Cost) \div 3
<1>2. least \in Nat /\ third \in Nat
  BY IntervalAssumption, SMT DEF Half
<1>3. byemembers \in Nat
  BY LimitAssumption, SMT DEF TypeOK
<1>4. byemembers * third \in Nat
  <2> HIDE DEF third
  <2> QED
    BY <1>2, <1>3, SMT
<1>5. MaxOf(least, byemembers * third) \in Nat
  <2> HIDE DEF least, third
  <2> QED
    BY <1>2, <1>4, SMT DEF MaxOf
<1>6. ByeInterval = IF sendbyenow THEN {0} ELSE Drawn(MaxOf(least, byemembers * third))
  BY DEF ByeInterval
<1>7. \A t \in Drawn(MaxOf(least, byemembers * third)) : t \in Nat
  BY <1>5, DrawnBounds
<1>8. ByeInterval \subseteq Nat
  <2>1. CASE sendbyenow
    BY <1>6, <2>1
  <2>2. CASE ~sendbyenow
    BY <1>6, <1>7, <2>2
  <2> QED
    BY <2>1, <2>2
<1> QED
  BY <1>1, <1>8

-----------------------------------------------------------------------------
(* The invariant.                                                           *)

\* The constructor and Reset leave a timer of the right types.
LEMMA InitIInv == Init => IInv
<1> SUFFICES ASSUME Init PROVE IInv
  OBVIOUS
<1>1. TypeOK
  <2>1. members \in 0..MaxMembers /\ senders \in 0..MaxMembers /\ pmembers \in 0..MaxMembers
    BY MembersAssumption, SMT DEF Init
  <2>2. /\ sender \in BOOLEAN /\ firstcall \in BOOLEAN /\ hassentrtcp \in BOOLEAN
        /\ byescheduled \in BOOLEAN /\ sendbyenow \in BOOLEAN
        /\ event \in {"none", "other", "sent", "bye", "leave"}
    BY Zenon DEF Init
  <2>3. due \in Int /\ since \in 0..MaxTime /\ byemembers \in 0..MaxBye
        /\ elapsed \in 0..MaxTime
    BY LimitAssumption, SMT DEF Init
  <2> QED
    BY <2>1, <2>2, <2>3, Zenon DEF TypeOK
<1>2. NeverAhead
  BY Zenon DEF Init, NeverAhead
<1> QED
  BY <1>1, <1>2 DEF IInv

\* The first question starts the timer.
LEMMA FirstCallIInv ==
  ASSUME IInv, FirstCall
  PROVE  IInv'
<1>1. /\ members' = members /\ senders' = senders /\ sender' = sender
      /\ hassentrtcp' = hassentrtcp /\ byescheduled' = byescheduled
      /\ byemembers' = byemembers /\ sendbyenow' = sendbyenow /\ elapsed' = 0
      /\ firstcall' = FALSE /\ since' = 0 /\ pmembers' = members
      /\ due' \in Interval /\ event' = "other"
  BY Zenon DEF FirstCall, sourcevars, byevars
<1>2. /\ due' \in Int /\ since' \in 0..MaxTime /\ elapsed' \in 0..MaxTime
      /\ since' <= elapsed'
  BY <1>1, IntervalTicks, LimitAssumption, SMT DEF IInv, TypeOK
<1> QED
  BY <1>1, <1>2, Zenon DEF IInv, TypeOK, NeverAhead

\* Sending a packet starts both clocks anew.
LEMMA SendIInv ==
  ASSUME IInv, Send
  PROVE  IInv'
<1>1. /\ members' = members /\ senders' = senders /\ sender' = sender
      /\ firstcall' = firstcall /\ byemembers' = byemembers /\ sendbyenow' = sendbyenow
      /\ byescheduled' = FALSE /\ since' = 0 /\ pmembers' = members
      /\ due' \in Interval /\ hassentrtcp' = TRUE /\ elapsed' = 0
      /\ event' \in {"bye", "sent"}
  BY Zenon DEF Send, sourcevars
<1>2. due' \in Int
  BY <1>1, IntervalTicks, SMT DEF IInv
<1>3. since' \in 0..MaxTime /\ elapsed' \in 0..MaxTime /\ since' <= elapsed'
  BY <1>1, LimitAssumption, SMT
<1>4. event' \in {"none", "other", "sent", "bye", "leave"}
  BY <1>1, Zenon
<1> QED
  BY <1>1, <1>2, <1>3, <1>4, Zenon DEF IInv, TypeOK, NeverAhead

\* The timer is set again; the time since the last packet stays.
LEMMA ReconsiderIInv ==
  ASSUME IInv, Reconsider
  PROVE  IInv'
<1>1. PICK t \in (IF byescheduled THEN ByeInterval ELSE Interval) : due' = t - since
  BY Zenon DEF Reconsider
<1>2. /\ members' = members /\ senders' = senders /\ sender' = sender
      /\ firstcall' = firstcall /\ hassentrtcp' = hassentrtcp /\ since' = since
      /\ byescheduled' = byescheduled /\ byemembers' = byemembers
      /\ sendbyenow' = sendbyenow /\ elapsed' = elapsed
      /\ pmembers' = members /\ event' = "other"
  BY Zenon DEF Reconsider, sourcevars, byevars
<1>3. t \in Nat
  BY IntervalTicks, Zenon DEF IInv
<1>4. due' \in Int
  BY <1>1, <1>3, SMT DEF IInv, TypeOK
<1> QED
  BY <1>2, <1>4, Zenon DEF IInv, TypeOK, NeverAhead

\* A BYE of ours starts the timer for one member.
LEMMA ScheduleBYEIInv ==
  ASSUME IInv, ScheduleBYE
  PROVE  IInv'
<1>1. /\ members' = members /\ senders' = senders /\ sender' = sender
      /\ hassentrtcp' = hassentrtcp /\ firstcall' = FALSE
      /\ pmembers' = (IF firstcall THEN members ELSE pmembers)
      /\ byescheduled' = TRUE /\ byemembers' = 1 /\ sendbyenow' \in BOOLEAN
      /\ since' = 0 /\ elapsed' = 0 /\ event' = "other"
  BY Zenon DEF ScheduleBYE, sourcevars
<1>2. due' \in IF sendbyenow' THEN {0}
               ELSE Drawn(MaxOf(IF UseHalf THEN Half(MinInterval) ELSE MinInterval,
                                (4 * Cost) \div 3))
  BY Zenon DEF ScheduleBYE
<1> DEFINE n == MaxOf(IF UseHalf THEN Half(MinInterval) ELSE MinInterval, (4 * Cost) \div 3)
<1>3. n \in Nat
  BY IntervalAssumption, SMT DEF Half, MaxOf
<1>4. due' \in Int
  <2> HIDE DEF n
  <2>1. \A t \in Drawn(n) : t \in Nat
    BY <1>3, DrawnBounds
  <2>2. due' = 0 \/ due' \in Drawn(n)
    BY <1>2, Zenon DEF n
  <2> QED
    BY <2>1, <2>2, SMT
<1>5. pmembers' \in 0..MaxMembers
  BY <1>1, Zenon DEF IInv, TypeOK
<1>6. byemembers' \in 0..MaxBye /\ since' \in 0..MaxTime /\ elapsed' \in 0..MaxTime
      /\ since' <= elapsed'
  BY <1>1, LimitAssumption, SMT
<1> QED
  BY <1>1, <1>4, <1>5, <1>6, Zenon DEF IInv, TypeOK, NeverAhead

\* Other members' BYEs are counted.
LEMMA IncomingBYEIInv ==
  ASSUME IInv, IncomingBYE
  PROVE  IInv'
<1>1. /\ members' = members /\ senders' = senders /\ sender' = sender
      /\ firstcall' = firstcall /\ hassentrtcp' = hassentrtcp /\ pmembers' = pmembers
      /\ due' = due /\ since' = since /\ byescheduled' = byescheduled
      /\ sendbyenow' = sendbyenow /\ elapsed' = elapsed /\ event' = "other"
      /\ byemembers < MaxBye /\ byemembers' = byemembers + 1
  BY Zenon DEF IncomingBYE, sourcevars
<1>2. byemembers' \in 0..MaxBye
  BY <1>1, LimitAssumption, SMT DEF IInv, TypeOK
<1> QED
  BY <1>1, <1>2, Zenon DEF IInv, TypeOK, NeverAhead

\* Members come and change what they do; the timer is not touched.
LEMMA MembersIInv ==
  ASSUME IInv, Join \/ ChangeSenders
  PROVE  IInv'
<1>1. /\ firstcall' = firstcall /\ hassentrtcp' = hassentrtcp /\ pmembers' = pmembers
      /\ due' = due /\ since' = since /\ byescheduled' = byescheduled
      /\ byemembers' = byemembers /\ sendbyenow' = sendbyenow /\ elapsed' = elapsed
      /\ event' = "other"
  BY Zenon DEF Join, ChangeSenders, byevars
<1>2. members' \in 0..MaxMembers /\ senders' \in 0..MaxMembers
  <2>1. CASE Join
    BY <2>1, MembersAssumption, SMT DEF Join, IInv, TypeOK
  <2>2. CASE ChangeSenders
    BY <2>2, MembersAssumption, SMT DEF ChangeSenders, IInv, TypeOK
  <2> QED
    BY <2>1, <2>2
<1>3. sender' \in BOOLEAN
  BY Zenon DEF Join, ChangeSenders, IInv, TypeOK
<1> QED
  BY <1>1, <1>2, <1>3, Zenon DEF IInv, TypeOK, NeverAhead

\* Leaving moves both times towards now, and never past it.
LEMMA LeaveIInv ==
  ASSUME IInv, Leave
  PROVE  IInv'
<1>1. /\ firstcall' = firstcall /\ hassentrtcp' = hassentrtcp
      /\ byescheduled' = byescheduled /\ byemembers' = byemembers
      /\ sendbyenow' = sendbyenow /\ elapsed' = elapsed /\ event' = "leave"
  BY Zenon DEF Leave, byevars
<1>2. /\ members > 0 /\ members' = members - 1
      /\ senders' = IF senders < members THEN senders ELSE members - 1
  BY Zenon DEF Leave
<1>3. members' \in 0..MaxMembers /\ senders' \in 0..MaxMembers /\ members' \in Nat
  BY <1>2, MembersAssumption, SMT DEF IInv, TypeOK
<1>4. sender' \in BOOLEAN
  BY Zenon DEF Leave
<1>5. due' \in Int /\ since' \in 0..MaxTime /\ pmembers' \in 0..MaxMembers
      /\ since' <= since
  <2>1. CASE members' >= pmembers \/ firstcall
    <3>1. pmembers' = pmembers /\ due' = due /\ since' = since
      BY <2>1, Zenon DEF Leave
    <3> QED
      BY <3>1, LimitAssumption, SMT DEF IInv, TypeOK
  <2>2. CASE ~(members' >= pmembers \/ firstcall)
    <3>1. /\ due' = IF due > 0 THEN (members' * due) \div pmembers ELSE 0
          /\ since' = (members' * since) \div pmembers
          /\ pmembers' = members'
      BY <2>2, Zenon DEF Leave
    <3>2. pmembers \in Nat /\ since \in Nat /\ members' < pmembers /\ due \in Int
      BY <1>3, <2>2, MembersAssumption, LimitAssumption, SMT DEF IInv, TypeOK
    <3>3. since' \in 0..since
      BY <1>3, <3>1, <3>2, Scaled
    <3>4. due' \in Int
      <4>1. CASE due > 0
        <5>1. due \in Nat
          BY <3>2, <4>1, SMT
        <5>2. (members' * due) \div pmembers \in 0..due
          BY <1>3, <3>2, <5>1, Scaled
        <5> QED
          BY <3>1, <3>2, <4>1, <5>2, SMT
      <4>2. CASE ~(due > 0)
        BY <3>1, <4>2, SMT
      <4> QED
        BY <4>1, <4>2
    <3>5. since' \in 0..MaxTime /\ since' <= since
      BY <3>2, <3>3, LimitAssumption, SMT DEF IInv, TypeOK
    <3> QED
      BY <1>3, <3>1, <3>4, <3>5, Zenon
  <2> QED
    BY <2>1, <2>2
<1>6. NeverAhead'
  <2>1. firstcall' = firstcall /\ elapsed' = elapsed /\ since \in Int /\ elapsed \in Int
        /\ since' \in Int
    BY <1>1, <1>5, LimitAssumption, SMT DEF IInv, TypeOK
  <2>2. (~firstcall => since <= elapsed)
    BY Zenon DEF IInv, NeverAhead
  <2> QED
    BY <1>5, <2>1, <2>2, SMT DEF NeverAhead
<1>7. TypeOK'
  BY <1>1, <1>3, <1>4, <1>5, Zenon DEF IInv, TypeOK
<1> QED
  BY <1>6, <1>7, Zenon DEF IInv

\* Time passes for both clocks alike.
LEMMA TickIInv ==
  ASSUME IInv, Tick
  PROVE  IInv'
<1>1. /\ members' = members /\ senders' = senders /\ sender' = sender
      /\ firstcall' = firstcall /\ hassentrtcp' = hassentrtcp /\ pmembers' = pmembers
      /\ byescheduled' = byescheduled /\ byemembers' = byemembers
      /\ sendbyenow' = sendbyenow /\ event' = "other"
      /\ due' = (IF due >= 0 THEN due - 1 ELSE due)
      /\ since' = Capped(since) /\ elapsed' = Capped(elapsed)
  BY Zenon DEF Tick, sourcevars, byevars
<1>2. due' \in Int /\ since' \in 0..MaxTime /\ elapsed' \in 0..MaxTime
  BY <1>1, LimitAssumption, SMT DEF IInv, TypeOK, Capped
<1>3. since <= elapsed => since' <= elapsed'
  BY <1>1, LimitAssumption, SMT DEF IInv, TypeOK, Capped
<1> QED
  BY <1>1, <1>2, <1>3, Zenon DEF IInv, TypeOK, NeverAhead

\* Every step preserves the invariant.
LEMMA NextIInv == IInv /\ [Next]_vars => IInv'
<1> SUFFICES ASSUME IInv, [Next]_vars PROVE IInv'
  OBVIOUS
<1>1. CASE FirstCall BY <1>1, FirstCallIInv
<1>2. CASE Send BY <1>2, SendIInv
<1>3. CASE Reconsider BY <1>3, ReconsiderIInv
<1>4. CASE ScheduleBYE BY <1>4, ScheduleBYEIInv
<1>5. CASE IncomingBYE BY <1>5, IncomingBYEIInv
<1>6. CASE Join \/ ChangeSenders BY <1>6, MembersIInv
<1>7. CASE Leave BY <1>7, LeaveIInv
<1>8. CASE Tick BY <1>8, TickIInv
<1>9. CASE UNCHANGED vars
  BY <1>9, Zenon DEF vars, IInv, TypeOK, NeverAhead
<1> QED
  BY <1>1, <1>2, <1>3, <1>4, <1>5, <1>6, <1>7, <1>8, <1>9 DEF Next, IsTime

\* The invariant of every behaviour.
LEMMA Inductive == Spec => []IInv
<1>1. Init => IInv
  BY InitIInv
<1>2. IInv /\ [Next]_vars => IInv'
  BY NextIInv
<1> QED
  BY <1>1, <1>2, PTL DEF Spec

-----------------------------------------------------------------------------
(* Theorems.                                                                *)

\* Every variable of the scheduler keeps its type.
THEOREM TypeCorrect == Spec => []TypeOK
<1>1. IInv => TypeOK
  BY DEF IInv
<1> QED
  BY <1>1, Inductive, PTL

\* The time that IsTime reckons with is never more than the time since the last
\* packet, although PerformReverseReconsideration moves it.
THEOREM LateSide == Spec => []NeverAhead
<1>1. IInv => NeverAhead
  BY DEF IInv
<1> QED
  BY <1>1, Inductive, PTL

\* IsTime answers yes for a report only when the smallest interval has passed since
\* the last packet, or since the timer was started, whoever joined and left in between.
THEOREM Distance == Spec => SpacedOut
<1> DEFINE A == event' = "sent" =>
                  elapsed >= Least(IF UseHalf /\ ~hassentrtcp THEN Half(MinInterval)
                                   ELSE MinInterval)
<1>1. IInv /\ [Next]_vars => [A]_vars
  <2> SUFFICES ASSUME IInv, [Next]_vars, event' = "sent", ~UNCHANGED vars
               PROVE elapsed >= Least(IF UseHalf /\ ~hassentrtcp THEN Half(MinInterval)
                                      ELSE MinInterval)
    OBVIOUS
  <2>1. Send
    <3>1. "sent" # "other" /\ "sent" # "leave"
      OBVIOUS
    <3>2. FirstCall \/ Reconsider \/ ScheduleBYE \/ IncomingBYE \/ Join \/ ChangeSenders \/ Tick
          => event' = "other"
      BY Zenon DEF FirstCall, Reconsider, ScheduleBYE, IncomingBYE, Join, ChangeSenders, Tick
    <3>3. Leave => event' = "leave"
      BY Zenon DEF Leave
    <3> QED
      BY <3>1, <3>2, <3>3, Zenon DEF Next, IsTime
  <2>2. ~byescheduled
    <3>1. event' = IF byescheduled THEN "bye" ELSE "sent"
      BY <2>1, Zenon DEF Send
    <3>2. "bye" # "sent"
      OBVIOUS
    <3> QED
      BY <3>1, <3>2, Zenon
  <2>3. PICK t \in Interval : ~firstcall /\ t <= since
    BY <2>1, <2>2, Zenon DEF Send, Expired
  <2> DEFINE least == IF UseHalf /\ ~hassentrtcp THEN Half(MinInterval) ELSE MinInterval
  <2>4. least \in Nat
    BY IntervalAssumption, SMT DEF Half
  <2>5. Deterministic \in Nat /\ Deterministic >= least
    BY IntervalBounds, Zenon DEF IInv
  <2>6. t \in Nat /\ t >= Least(Deterministic)
    BY <2>3, <2>5, DrawnBounds DEF Interval
  <2>7. Least(least) <= Least(Deterministic) /\ Least(least) \in Nat
        /\ Least(Deterministic) \in Nat
    <3> HIDE DEF least
    <3> QED
      BY <2>4, <2>5, LeastMonotone
  <2>8. since <= elapsed /\ since \in Nat /\ elapsed \in Nat
    BY <2>3, LimitAssumption, SMT DEF IInv, TypeOK, NeverAhead
  <2>9. elapsed >= Least(least)
    <3> HIDE DEF least
    <3> QED
      BY <2>3, <2>6, <2>7, <2>8, SMT
  <2> QED
    BY <2>9
<1> QED
  BY <1>1, Inductive, PTL DEF Spec, SpacedOut

-----------------------------------------------------------------------------
(* The private SDES items.                                                  *)

PrivItem == [prefix : Prefix, value : Text]

\* Found, in any list.
FoundIn(s, p) ==
    LET hits == {i \in DOMAIN s : s[i].prefix = p}
    IN  IF hits = {} THEN 0 ELSE CHOOSE i \in hits : \A j \in hits : i <= j

\* A prefix no other is cut to has one item, with the value last accepted; any prefix has
\* the value last accepted for it.
Kept(s, p, v) ==
    /\ v # NoText => FoundIn(s, p) # 0 /\ s[FoundIn(s, p)].value = v
    /\ p \in Plain => /\ FoundIn(s, p) # 0 => s[FoundIn(s, p)].value = v
                      /\ \A i, j \in DOMAIN s : s[i].prefix = p /\ s[j].prefix = p => i = j

SdesInv ==
    /\ privitems \in Seq(PrivItem) /\ Len(privitems) <= MaxItems
    /\ accepted \in [Prefix -> Text \cup {NoText}]
    /\ \A p \in Prefix : Kept(privitems, p, accepted[p])

\* The first item with a prefix.
First(s, p, i) ==
    /\ i \in DOMAIN s /\ s[i].prefix = p
    /\ \A j \in DOMAIN s : s[j].prefix = p => i <= j

\* What the search finds is the first item, if there is one.
LEMMA FoundIs ==
  ASSUME NEW s \in Seq(PrivItem), NEW p
  PROVE  /\ FoundIn(s, p) # 0 => First(s, p, FoundIn(s, p))
         /\ FoundIn(s, p) = 0 <=> \A i \in DOMAIN s : s[i].prefix # p
         /\ \A i : First(s, p, i) => FoundIn(s, p) = i
<1> DEFINE hits == {i \in DOMAIN s : s[i].prefix = p}
           f == FoundIn(s, p)
<1>1. DOMAIN s = 1..Len(s) /\ Len(s) \in Nat
  BY LenProperties
<1>2. hits \in SUBSET Nat /\ 0 \notin hits
  BY <1>1
<1>3. hits # {} => \E i \in hits : \A j \in hits : i <= j
  <2> HIDE DEF hits
  <2> QED
    BY <1>2, LeastNat
<1>4. f = IF hits = {} THEN 0 ELSE CHOOSE i \in hits : \A j \in hits : i <= j
  BY DEF FoundIn
<1> HIDE DEF f
<1>5. hits # {} => f \in hits /\ \A j \in hits : f <= j
  <2> HIDE DEF hits
  <2> QED
    BY <1>3, <1>4
<1>6. f # 0 => First(s, p, f)
  BY <1>4, <1>5 DEF First
<1>7. f = 0 <=> \A i \in DOMAIN s : s[i].prefix # p
  BY <1>2, <1>4, <1>5
<1>8. ASSUME NEW i, First(s, p, i) PROVE f = i
  <2>1. i \in hits /\ \A j \in hits : i <= j
    BY <1>8 DEF First
  <2> HIDE DEF hits
  <2>2. f \in hits /\ f <= i /\ i <= f /\ i \in Nat /\ f \in Nat
    BY <1>2, <1>5, <2>1
  <2> QED
    BY <2>2
<1> QED
  BY <1>6, <1>7, <1>8 DEF f

\* The value of an item is changed where it stands.
LEMMA SetKnown ==
  ASSUME SdesInv, NEW p, NEW v \in Text, Found(p) # 0,
         privitems' = [privitems EXCEPT ![Found(p)].value = v],
         accepted' = [accepted EXCEPT ![p] = v]
  PROVE  SdesInv'
<1> DEFINE s == privitems
           f == FoundIn(s, p)
           t == [s EXCEPT ![f].value = v]
<1>0. Found(p) = f
  BY DEF Found, FoundIn
<1>1. /\ s \in Seq(PrivItem) /\ Len(s) <= MaxItems
      /\ accepted \in [Prefix -> Text \cup {NoText}]
      /\ \A q \in Prefix : Kept(s, q, accepted[q])
  BY DEF SdesInv
<1>2. First(s, p, f)
  BY <1>0, <1>1, FoundIs
<1>3. DOMAIN s = 1..Len(s) /\ Len(s) \in Nat /\ \A i \in DOMAIN s : s[i] \in PrivItem
  BY <1>1, LenProperties, ElementOfSeq
<1>4. f \in DOMAIN s /\ s[f].prefix = p /\ p \in Prefix
  BY <1>2, <1>3 DEF First, PrivItem
<1>9. privitems' = t
  BY <1>0
<1> HIDE DEF f
<1>5. /\ DOMAIN t = DOMAIN s
      /\ \A i \in DOMAIN s : i # f => t[i] = s[i]
      /\ t[f] = [s[f] EXCEPT !.value = v]
  BY <1>4
<1>6. t[f] \in PrivItem /\ t[f].prefix = p /\ t[f].value = v
  BY <1>3, <1>4, <1>5 DEF PrivItem
<1> HIDE DEF t
<1>7. \A i \in DOMAIN s : t[i] \in PrivItem /\ t[i].prefix = s[i].prefix
  BY <1>3, <1>4, <1>5, <1>6
<1>8. t \in Seq(PrivItem) /\ Len(t) = Len(s)
  <2> HIDE DEF s
  <2>1. t = [i \in 1..Len(s) |-> t[i]]
    BY <1>3, <1>5 DEF t
  <2>2. t \in [1..Len(s) -> PrivItem]
    BY <1>3, <1>7, <2>1
  <2>3. t \in Seq(PrivItem)
    BY <1>3, <2>2, SeqDef
  <2> QED
    BY <1>3, <1>5, <2>3, LenProperties
<1>10. accepted' \in [Prefix -> Text \cup {NoText}] /\ accepted'[p] = v
       /\ \A q \in Prefix : q # p => accepted'[q] = accepted[q]
  BY <1>1, <1>4
<1>11. ASSUME NEW q PROVE FoundIn(t, q) = FoundIn(s, q)
  <2> DEFINE new == {i \in DOMAIN t : t[i].prefix = q}
             hits == {i \in DOMAIN s : s[i].prefix = q}
  <2>1. new = hits
    BY <1>5, <1>7
  <2>2. /\ FoundIn(t, q) = IF new = {} THEN 0 ELSE CHOOSE i \in new : \A j \in new : i <= j
        /\ FoundIn(s, q) = IF hits = {} THEN 0 ELSE CHOOSE i \in hits : \A j \in hits : i <= j
    BY Zenon DEF FoundIn
  <2> HIDE DEF new, hits
  <2> QED
    BY <2>1, <2>2
<1>12. ASSUME NEW q \in Prefix PROVE Kept(t, q, accepted'[q])
  <2>1. Kept(s, q, accepted[q])
    BY <1>1
  <2>4. q \in Plain => \A i, j \in DOMAIN t : t[i].prefix = q /\ t[j].prefix = q => i = j
    BY <1>5, <1>7, <2>1 DEF Kept
  <2>2. CASE q = p
    <3>1. FoundIn(t, q) = f /\ t[f].value = v /\ accepted'[q] = v /\ f # 0
      BY <1>3, <1>4, <1>6, <1>10, <1>11, <2>2 DEF f
    <3> QED
      BY <2>4, <3>1 DEF Kept
  <2>3. CASE q # p
    <3>1. FoundIn(t, q) = FoundIn(s, q) /\ accepted'[q] = accepted[q]
      BY <1>10, <1>11, <2>3
    <3>2. FoundIn(s, q) # 0 => t[FoundIn(s, q)] = s[FoundIn(s, q)]
      <4>1. FoundIn(s, q) # 0 => FoundIn(s, q) \in DOMAIN s /\ s[FoundIn(s, q)].prefix = q
        BY <1>1, FoundIs DEF First
      <4> QED
        BY <1>4, <1>5, <2>3, <4>1
    <3> QED
      BY <2>1, <2>4, <3>1, <3>2 DEF Kept
  <2> QED
    BY <2>2, <2>3
<1> QED
  BY <1>1, <1>8, <1>9, <1>10, <1>12 DEF SdesInv

\* A new item goes to the front.
LEMMA SetNew ==
  ASSUME SdesInv, NEW p \in Prefix \cup LongPrefix, NEW v \in Text, Found(p) = 0,
         Len(privitems) < MaxItems,
         privitems' = <<[prefix |-> Stored(p), value |-> v]>> \o privitems,
         accepted' = [accepted EXCEPT ![Stored(p)] = v]
  PROVE  SdesInv'
<1> DEFINE s == privitems
           z == Stored(p)
           e == [prefix |-> z, value |-> v]
           t == <<e>> \o s
<1>1. /\ s \in Seq(PrivItem) /\ Len(s) < MaxItems
      /\ accepted \in [Prefix -> Text \cup {NoText}]
      /\ \A q \in Prefix : Kept(s, q, accepted[q])
      /\ privitems' = t
  BY DEF SdesInv
<1>2. z \in Prefix /\ (z \in Plain => z = p) /\ FoundIn(s, p) = 0
  BY PrefixAssumption DEF Stored, Plain, Found, FoundIn
<1>9. accepted' \in [Prefix -> Text \cup {NoText}] /\ accepted'[z] = v
      /\ \A q \in Prefix : q # z => accepted'[q] = accepted[q]
  BY <1>1, <1>2
<1> HIDE DEF z
<1>3. e \in PrivItem /\ e.prefix = z /\ e.value = v
  BY <1>2 DEF PrivItem
<1> HIDE DEF e
<1>4. /\ DOMAIN s = 1..Len(s) /\ Len(s) \in Nat
      /\ <<e>> \in Seq(PrivItem) /\ Len(<<e>>) = 1 /\ <<e>>[1] = e
  BY <1>1, <1>3, LenProperties
<1>5. /\ t \in Seq(PrivItem) /\ Len(t) = 1 + Len(s) /\ DOMAIN t = 1..(1 + Len(s))
      /\ \A i \in 1..1 : t[i] = <<e>>[i]
      /\ \A i \in 1..Len(s) : t[1 + i] = s[i]
  <2> DEFINE o == <<e>>
  <2>1. o \in Seq(PrivItem) /\ Len(o) = 1
    BY <1>4
  <2> HIDE DEF o
  <2> QED
    BY <1>1, <2>1, ConcatIs DEF o
<1> HIDE DEF t
<1>6. t[1] = e /\ 1 \in DOMAIN t /\ \A i \in DOMAIN s : 1 + i \in DOMAIN t /\ t[1 + i] = s[i]
  BY <1>4, <1>5
<1>7. \A i \in DOMAIN t : i = 1 \/ (i - 1 \in DOMAIN s /\ t[i] = s[i - 1])
  <2> SUFFICES ASSUME NEW i \in DOMAIN t, i # 1 PROVE i - 1 \in DOMAIN s /\ t[i] = s[i - 1]
    OBVIOUS
  <2>1. i - 1 \in 1..Len(s) /\ 1 + (i - 1) = i
    BY <1>4, <1>5
  <2> QED
    BY <1>4, <1>5, <2>1
<1>8. Len(t) <= MaxItems
  BY <1>1, <1>4, <1>5, PrefixAssumption
<1>10. FoundIn(t, z) = 1
  <2>1. First(t, z, 1)
    BY <1>3, <1>5, <1>6 DEF First
  <2> QED
    BY <1>5, <2>1, FoundIs
<1>11. ASSUME NEW q \in Prefix, q # z
       PROVE  FoundIn(t, q) = IF FoundIn(s, q) = 0 THEN 0 ELSE 1 + FoundIn(s, q)
  <2> DEFINE f == FoundIn(s, q)
  <2>1. /\ f # 0 => First(s, q, f)
        /\ f = 0 => \A i \in DOMAIN s : s[i].prefix # q
    BY <1>1, FoundIs
  <2> HIDE DEF f
  <2>2. CASE f = 0
    <3>1. \A i \in DOMAIN t : t[i].prefix # q
      BY <1>3, <1>6, <1>7, <1>11, <2>1, <2>2
    <3> QED
      BY <1>5, <2>2, <3>1, FoundIs DEF f
  <2>3. CASE f # 0
    <3>1. f \in DOMAIN s /\ s[f].prefix = q /\ f \in Nat
      BY <1>4, <2>1, <2>3 DEF First
    <3>2. ASSUME NEW j \in DOMAIN t, t[j].prefix = q PROVE 1 + f <= j
      <4>1. j - 1 \in DOMAIN s /\ t[j] = s[j - 1]
        BY <1>3, <1>6, <1>7, <1>11, <3>2
      <4>2. f <= j - 1
        BY <2>1, <2>3, <3>2, <4>1 DEF First
      <4>3. j \in Nat
        BY <1>5
      <4> QED
        BY <3>1, <4>2, <4>3
    <3>3. First(t, q, 1 + f)
      BY <1>6, <3>1, <3>2 DEF First
    <3> QED
      BY <1>5, <2>3, <3>3, FoundIs DEF f
  <2> QED
    BY <2>2, <2>3 DEF f
<1>12. ASSUME NEW q \in Prefix PROVE Kept(t, q, accepted'[q])
  <2>1. Kept(s, q, accepted[q])
    BY <1>1
  <2>2. CASE q = z
    <3>1. FoundIn(t, q) = 1 /\ t[1].value = v /\ accepted'[q] = v
      BY <1>3, <1>6, <1>9, <1>10, <2>2
    <3>2. ASSUME q \in Plain, NEW i \in DOMAIN t, t[i].prefix = q PROVE i = 1
      <4>1. \A j \in DOMAIN s : s[j].prefix # q
        BY <1>1, <1>2, <2>2, <3>2, FoundIs
      <4> QED
        BY <1>7, <3>2, <4>1
    <3> QED
      BY <3>1, <3>2 DEF Kept
  <2>3. CASE q # z
    <3>1. /\ FoundIn(t, q) = IF FoundIn(s, q) = 0 THEN 0 ELSE 1 + FoundIn(s, q)
          /\ accepted'[q] = accepted[q]
      BY <1>9, <1>11, <2>3
    <3>2. FoundIn(s, q) # 0 => FoundIn(s, q) \in Nat /\ FoundIn(s, q) \in DOMAIN s
      BY <1>1, <1>4, FoundIs DEF First
    <3>3. FoundIn(t, q) # 0 => FoundIn(s, q) # 0 /\ t[FoundIn(t, q)] = s[FoundIn(s, q)]
      BY <1>6, <3>1, <3>2
    <3>4. FoundIn(s, q) # 0 => FoundIn(t, q) # 0
      BY <3>1, <3>2
    <3>5. ASSUME q \in Plain, NEW i \in DOMAIN t, NEW j \in DOMAIN t,
                 t[i].prefix = q, t[j].prefix = q
          PROVE  i = j
      <4>1. i - 1 \in DOMAIN s /\ s[i - 1].prefix = q /\ j - 1 \in DOMAIN s /\ s[j - 1].prefix = q
        BY <1>3, <1>6, <1>7, <2>3, <3>5
      <4>2. i - 1 = j - 1
        BY <2>1, <3>5, <4>1 DEF Kept
      <4> QED
        BY <1>5, <4>2
    <3> QED
      BY <2>1, <3>1, <3>3, <3>4, <3>5 DEF Kept
  <2> QED
    BY <2>2, <2>3
<1> QED
  BY <1>1, <1>5, <1>8, <1>9, <1>12 DEF SdesInv

\* The first item with a prefix is taken out.
LEMMA DeleteKeeps ==
  ASSUME SdesInv, NEW p \in Prefix, DeletePrivatePrefix(p)
  PROVE  SdesInv'
<1> DEFINE s == privitems
           f == FoundIn(s, p)
           n == Len(s)
           A == SubSeq(s, 1, f - 1)
           B == SubSeq(s, f + 1, n)
           t == A \o B
<1>0. Found(p) = f
  BY DEF Found, FoundIn
<1>1. /\ s \in Seq(PrivItem) /\ n <= MaxItems
      /\ accepted \in [Prefix -> Text \cup {NoText}]
      /\ \A q \in Prefix : Kept(s, q, accepted[q])
      /\ privitems' = t /\ f # 0 /\ accepted' = [accepted EXCEPT ![p] = NoText]
  BY <1>0 DEF SdesInv, DeletePrivatePrefix
<1>2. First(s, p, f)
  BY <1>1, FoundIs
<1>3. DOMAIN s = 1..n /\ n \in Nat /\ \A i \in DOMAIN s : s[i] \in PrivItem
  BY <1>1, LenProperties, ElementOfSeq
<1>4. f \in 1..n /\ f \in Nat /\ s[f].prefix = p
  BY <1>2, <1>3 DEF First
<1> HIDE DEF f
<1>5. /\ A \in Seq(PrivItem) /\ Len(A) = f - 1 /\ \A i \in 1..(f - 1) : A[i] = s[i]
      /\ B \in Seq(PrivItem) /\ Len(B) = n - f /\ \A i \in 1..(n - f) : B[i] = s[i + f]
  <2> DEFINE g == f - 1
  <2>1. g \in 0..n /\ f \in 0..n
    BY <1>3, <1>4
  <2> HIDE DEF g
  <2>2. SubSeq(s, 1, g) \in Seq(PrivItem) /\ Len(SubSeq(s, 1, g)) = g
        /\ \A i \in 1..g : SubSeq(s, 1, g)[i] = s[i]
    BY <1>1, <2>1, CutIs
  <2>3. B \in Seq(PrivItem) /\ Len(B) = n - f /\ \A i \in 1..(n - f) : B[i] = s[i + f]
    BY <1>1, <2>1, CutIs
  <2> QED
    BY <2>2, <2>3 DEF g
<1> HIDE DEF A, B
<1>6. /\ t \in Seq(PrivItem) /\ Len(t) = Len(A) + Len(B) /\ DOMAIN t = 1..(Len(A) + Len(B))
      /\ \A i \in 1..Len(A) : t[i] = A[i]
      /\ \A i \in 1..Len(B) : t[Len(A) + i] = B[i]
  <2>1. A \in Seq(PrivItem) /\ B \in Seq(PrivItem)
    BY <1>5
  <2> QED
    BY <2>1, ConcatIs
<1> HIDE DEF t
\* Where an item of the new list was, and where one of the old list is.
<1> DEFINE old(i) == IF i < f THEN i ELSE i + 1
<1>7. DOMAIN t = 1..(n - 1) /\ Len(t) = n - 1
      /\ \A i \in DOMAIN t : old(i) \in DOMAIN s /\ old(i) # f /\ t[i] = s[old(i)]
  <2>1. DOMAIN t = 1..(n - 1) /\ Len(t) = n - 1
    <3>1. (f - 1) + (n - f) = n - 1
      BY <1>3, <1>4
    <3> QED
      BY <1>5, <1>6, <3>1
  <2>2. ASSUME NEW i \in 1..(n - 1)
        PROVE  old(i) \in DOMAIN s /\ old(i) # f /\ t[i] = s[old(i)]
    <3>1. CASE i < f
      <4>1. i \in 1..(f - 1) /\ i \in 1..n /\ i # f
        BY <1>3, <1>4, <3>1
      <4> QED
        BY <1>3, <1>5, <1>6, <3>1, <4>1
    <3>2. CASE ~(i < f)
      <4>1. (i - (f - 1)) \in 1..(n - f) /\ i + 1 \in 1..n /\ i + 1 # f
            /\ (f - 1) + (i - (f - 1)) = i /\ (i - (f - 1)) + f = i + 1
        BY <1>3, <1>4, <3>2
      <4>2. t[(f - 1) + (i - (f - 1))] = s[(i - (f - 1)) + f]
        BY <1>5, <1>6, <4>1
      <4> QED
        BY <1>3, <3>2, <4>1, <4>2
    <3> QED
      BY <3>1, <3>2
  <2> QED
    BY <2>1, <2>2
<1>8. \A j \in DOMAIN s : j # f => \E i \in DOMAIN t : old(i) = j
  <2> SUFFICES ASSUME NEW j \in DOMAIN s, j # f PROVE \E i \in DOMAIN t : old(i) = j
    OBVIOUS
  <2>1. CASE j < f
    <3>1. j \in DOMAIN t /\ old(j) = j
      BY <1>3, <1>4, <1>7, <2>1
    <3> QED
      BY <3>1
  <2>2. CASE j > f
    <3>1. j - 1 \in DOMAIN t /\ old(j - 1) = j
      BY <1>3, <1>4, <1>7, <2>2
    <3> QED
      BY <3>1
  <2> QED
    BY <1>3, <1>4, <2>1, <2>2
<1>9. \A i, j \in DOMAIN t : (old(i) <= old(j) <=> i <= j) /\ (old(i) = old(j) => i = j)
  BY <1>4, <1>7
<1>10. accepted' \in [Prefix -> Text \cup {NoText}] /\ accepted'[p] = NoText
       /\ \A q \in Prefix : q # p => accepted'[q] = accepted[q]
  BY <1>1
<1>11. Len(t) <= MaxItems
  BY <1>1, <1>3, <1>7, PrefixAssumption
<1> HIDE DEF old
<1>12. ASSUME NEW q \in Prefix PROVE Kept(t, q, accepted'[q])
  <2>1. Kept(s, q, accepted[q])
    BY <1>1
  <2>2. q \in Plain => \A i, j \in DOMAIN t : t[i].prefix = q /\ t[j].prefix = q => i = j
    BY <1>7, <1>9, <2>1 DEF Kept
  <2>3. CASE q = p
    <3>1. ASSUME q \in Plain PROVE FoundIn(t, q) = 0
      <4>1. \A i \in DOMAIN t : t[i].prefix # q
        BY <1>3, <1>4, <1>7, <2>1, <2>3, <3>1 DEF Kept
      <4> QED
        BY <1>6, <4>1, FoundIs
    <3> QED
      BY <1>10, <2>2, <2>3, <3>1 DEF Kept
  <2>4. CASE q # p
    <3> DEFINE g == FoundIn(s, q)
    <3>1. /\ g # 0 => First(s, q, g)
          /\ g = 0 => \A i \in DOMAIN s : s[i].prefix # q
      BY <1>1, FoundIs
    <3>2. Kept(s, q, accepted[q]) /\ accepted'[q] = accepted[q]
      BY <1>10, <2>1, <2>4
    <3> HIDE DEF g
    <3>3. CASE g = 0
      <4>1. \A i \in DOMAIN t : t[i].prefix # q
        BY <1>7, <3>1, <3>3
      <4>2. FoundIn(t, q) = 0
        BY <1>6, <4>1, FoundIs
      <4> QED
        BY <2>2, <3>2, <3>3, <4>2 DEF Kept, g
    <3>4. CASE g # 0
      <4>1. g \in DOMAIN s /\ g # f /\ s[g].prefix = q
        BY <1>4, <2>4, <3>1, <3>4 DEF First
      <4>2. PICK i \in DOMAIN t : old(i) = g
        BY <1>8, <4>1
      <4>3. t[i] = s[g]
        BY <1>7, <4>2
      <4>4. ASSUME NEW j \in DOMAIN t, t[j].prefix = q PROVE i <= j
        <5>1. old(j) \in DOMAIN s /\ s[old(j)].prefix = q
          BY <1>7, <4>4
        <5>2. g <= old(j)
          BY <3>1, <3>4, <5>1 DEF First
        <5> QED
          BY <1>9, <4>2, <5>2
      <4>5. First(t, q, i)
        BY <4>1, <4>3, <4>4 DEF First
      <4>6. FoundIn(t, q) = i
        BY <1>6, <4>5, FoundIs
      <4>7. i # 0
        BY <1>7
      <4> QED
        BY <2>2, <3>2, <3>4, <4>3, <4>6, <4>7 DEF Kept, g
    <3> QED
      BY <3>3, <3>4
  <2> QED
    BY <2>3, <2>4
<1> QED
  BY <1>1, <1>6, <1>10, <1>11, <1>12 DEF SdesInv

\* The empty list keeps what no value was accepted for.
LEMMA EmptyKeeps ==
  ASSUME privitems' = <<>>, accepted' = [p \in Prefix |-> NoText]
  PROVE  SdesInv'
<1>1. <<>> \in Seq(PrivItem) /\ Len(<<>>) = 0 /\ DOMAIN <<>> = {}
  BY EmptySeq
<1>2. \A p : FoundIn(<<>>, p) = 0
  BY <1>1 DEF FoundIn
<1>3. accepted' \in [Prefix -> Text \cup {NoText}] /\ \A p \in Prefix : accepted'[p] = NoText
  OBVIOUS
<1>4. \A p \in Prefix : Kept(<<>>, p, accepted'[p])
  BY <1>1, <1>2, <1>3 DEF Kept
<1> QED
  BY <1>1, <1>3, <1>4, PrefixAssumption DEF SdesInv

\* Every step keeps the invariant of the items.
LEMMA SdesStep == SdesInv /\ [SdesNext]_sdesvars => SdesInv'
<1> SUFFICES ASSUME SdesInv, [SdesNext]_sdesvars PROVE SdesInv'
  OBVIOUS
<1>1. ASSUME NEW p \in Prefix \cup LongPrefix, NEW v \in Text, SetPrivateValue(p, v)
      PROVE  SdesInv'
  <2>1. CASE Found(p) # 0
    BY <1>1, <2>1, SetKnown DEF SetPrivateValue
  <2>2. CASE Found(p) = 0 /\ Len(privitems) < MaxItems
    <3>1. ~(Len(privitems) >= MaxItems)
      BY <2>2, PrefixAssumption, LenProperties DEF SdesInv
    <3> QED
      BY <1>1, <2>2, <3>1, SetNew DEF SetPrivateValue
  <2>3. CASE UNCHANGED sdesvars
    BY <2>3 DEF sdesvars, SdesInv
  <2> QED
    BY <1>1, <2>1, <2>2, <2>3 DEF SetPrivateValue
<1>2. ASSUME NEW p \in Prefix, DeletePrivatePrefix(p) PROVE SdesInv'
  BY <1>2, DeleteKeeps
<1>3. CASE Clear
  BY <1>3, EmptyKeeps DEF Clear
<1>4. CASE UNCHANGED sdesvars
  BY <1>4 DEF sdesvars, SdesInv
<1> QED
  BY <1>1, <1>2, <1>3, <1>4 DEF SdesNext

\* RTCPSDESInfo: for any prefixes, values and limit the list stays within its limit, a
\* prefix no other is cut to has one item with the value last accepted, and what was
\* accepted for any prefix is what a search for its stored form finds.
THEOREM PrivateItemsAreSound == SdesSpec => []PrivateItemsSound
<1>1. SdesInit => SdesInv
  <2> SUFFICES ASSUME SdesInit PROVE SdesInv
    OBVIOUS
  <2>1. <<>> \in Seq(PrivItem) /\ Len(<<>>) = 0 /\ DOMAIN <<>> = {}
    BY EmptySeq
  <2>2. \A p : FoundIn(<<>>, p) = 0
    BY <2>1 DEF FoundIn
  <2>3. accepted \in [Prefix -> Text \cup {NoText}] /\ \A p \in Prefix : accepted[p] = NoText
    BY DEF SdesInit
  <2>4. \A p \in Prefix : Kept(<<>>, p, accepted[p])
    BY <2>1, <2>2, <2>3 DEF Kept
  <2> QED
    BY <2>1, <2>3, <2>4, PrefixAssumption DEF SdesInv, SdesInit
<1>2. SdesInv => PrivateItemsSound
  <2> SUFFICES ASSUME SdesInv PROVE PrivateItemsSound
    OBVIOUS
  <2>1. \A p : Found(p) = FoundIn(privitems, p)
    BY DEF Found, FoundIn
  <2>2. \A p : PrivateValue(p) = IF FoundIn(privitems, p) = 0 THEN NoText
                                 ELSE privitems[FoundIn(privitems, p)].value
    BY <2>1 DEF PrivateValue
  <2>3. \A p \in Prefix : Kept(privitems, p, accepted[p])
    BY DEF SdesInv
  <2>4. \A p \in Prefix : accepted[p] # NoText => PrivateValue(p) = accepted[p]
    BY <2>2, <2>3 DEF Kept
  <2>5. \A p \in Plain : /\ PrivateValue(p) = accepted[p]
                         /\ \A i, j \in DOMAIN privitems :
                               privitems[i].prefix = p /\ privitems[j].prefix = p => i = j
    BY <2>2, <2>3 DEF Kept, Plain
  <2> QED
    BY <2>4, <2>5 DEF PrivateItemsSound, SdesInv
<1> QED
  BY <1>1, <1>2, SdesStep, PTL DEF SdesSpec

-----------------------------------------------------------------------------
(* The report blocks.                                                       *)

EntryType == [ssrc : Member, sentdata : BOOLEAN, csrc : BOOLEAN, fresh : BOOLEAN,
              processed : BOOLEAN]
RunningBuilder == [init : {TRUE}, max : Nat, firstpacket : BOOLEAN, processing : BOOLEAN,
                   count : Int, interval : [SdesIds -> Int], due : SUBSET SdesIds,
                   done : SUBSET SdesIds]
IdleBuilder == [init : {FALSE}, done : SUBSET SdesIds]

ReportTypes ==
    /\ list \in Seq(EntryType)
    /\ builder \in RunningBuilder \cup IdleBuilder
    /\ steady \subseteq Member
    /\ reported \in [Member -> Nat]
    /\ round \in [sent : Seq(SdesIds), skipped : SUBSET SdesIds]
    /\ comp.blocks \in Seq(Member)

Bit(b) == IF b THEN 1 ELSE 0

\* A list of sources without repetition; a source that was heard sent data.
Proper(l) ==
    /\ \A j, k \in DOMAIN l : l[j].ssrc = l[k].ssrc => j = k
    /\ \A k \in DOMAIN l : l[k].fresh => l[k].sentdata

\* The members of S are in the list, and none of them is a CSRC.
Contained(l, S) == \A s \in S : \E k \in DOMAIN l : l[k].ssrc = s /\ ~l[k].csrc

\* In the order of the list the members of S have their turn before the others.
InOrder(l, S) ==
    \A j, k \in DOMAIN l :
        j < k /\ l[j].ssrc \in S /\ l[k].processed => l[j].processed

\* Of the members of S, those processed have one block more than the rest.
Level(l, n, S) ==
    \E m \in Int : \A k \in DOMAIN l :
        l[k].ssrc \in S => n[l[k].ssrc] = m + Bit(l[k].processed)

TurnsInv ==
    /\ Proper(list) /\ Contained(list, steady)
    /\ builder.init =>
          /\ InOrder(list, steady)
          /\ Level(list, reported, steady)
          /\ builder.firstpacket =>
                /\ \A k \in DOMAIN list : ~list[k].processed
                /\ \A s \in Member : reported[s] = 0
                /\ comp.blocks = <<>>
    /\ \A s \in steady : reported[s] <= 1 /\ Count(comp.blocks, s) <= 1

\* The items of a round that were sent were due, and not skipped; what is
\* neither is still to come.
RoundInv ==
    builder.init =>
        /\ EachItemOncePerRound
        /\ ToSet(round.sent) \cap round.skipped = {}
        /\ builder.processing => builder.done = round.skipped \cup ToSet(round.sent)

ReportsInv == ReportTypes /\ TurnsInv /\ RoundInv

-----------------------------------------------------------------------------
(* The turns of FillInReportBlocks.                                         *)

\* A loop over 1..n, as a recursive function of ReportOn, is one function.
TurnsOf(f, pack, l, first, maxcount, n) ==
    f = [k \in 0..n |->
            IF k = 0 THEN [pack |-> pack, list |-> l, added |-> 0, skipped |-> 0,
                           full |-> FALSE, stop |-> 0]
            ELSE ReportOn(f[k - 1], k, first, maxcount)]

\* The turns of the loop exist.
LEMMA TurnsExist ==
  ASSUME NEW pack, NEW l, NEW first, NEW maxcount, NEW N \in Nat
  PROVE  \E f : TurnsOf(f, pack, l, first, maxcount, N)
<1> DEFINE B == [pack |-> pack, list |-> l, added |-> 0, skipped |-> 0,
                 full |-> FALSE, stop |-> 0]
           G(g, k) == ReportOn(g[k - 1], k, first, maxcount)
           Is(f, n) == f = [k \in 0..n |-> IF k = 0 THEN B ELSE G(f, k)]
           T == {n \in Nat : ~ \E f : Is(f, n)}
<1>1. ASSUME NEW n \in Nat, NEW f, Is(f, n) PROVE \E g : Is(g, n + 1)
  <2> DEFINE g == [k \in 0..n + 1 |-> IF k = n + 1 THEN ReportOn(f[n], k, first, maxcount)
                                      ELSE f[k]]
  <2>1. ASSUME NEW k \in 0..n + 1 PROVE g[k] = IF k = 0 THEN B ELSE G(g, k)
    <3>1. CASE k = 0
      <4>1. 0 \in 0..n /\ 0 # n + 1
        OBVIOUS
      <4>2. f[0] = B
        BY <1>1, <4>1, Zenon
      <4> QED
        BY <3>1, <4>1, <4>2, Zenon
    <3>2. CASE k \in 1..n
      <4>1. k \in 0..n /\ k # 0 /\ k # n + 1 /\ k - 1 \in 0..n + 1 /\ k - 1 # n + 1
        BY <3>2
      <4>2. f[k] = G(f, k)
        BY <1>1, <4>1, Zenon
      <4>3. g[k] = f[k] /\ g[k - 1] = f[k - 1]
        BY <4>1, Zenon
      <4> QED
        BY <4>1, <4>2, <4>3, Zenon
    <3>3. CASE k = n + 1
      <4>1. n \in 0..n + 1 /\ n # n + 1 /\ k - 1 = n /\ k # 0
        BY <3>3
      <4>2. g[n] = f[n]
        BY <4>1, Zenon
      <4> QED
        BY <3>3, <4>1, <4>2, Zenon
    <3> QED
      BY <2>1, <3>1, <3>2, <3>3
  <2>2. g = [k \in 0..n + 1 |-> g[k]]
    OBVIOUS
  <2> HIDE DEF g, B, G
  <2>3. g = [k \in 0..n + 1 |-> IF k = 0 THEN B ELSE G(g, k)]
    BY <2>1, <2>2, Zenon
  <2> QED
    BY <2>3
<1>2. \E f : Is(f, 0)
  <2> DEFINE f == [k \in 0..0 |-> B]
  <2>1. \A k \in 0..0 : k = 0
    OBVIOUS
  <2>2. f = [k \in 0..0 |-> IF k = 0 THEN B ELSE G(f, k)]
    <3> HIDE DEF B, G
    <3> QED
      BY <2>1, Zenon
  <2> QED
    BY <2>2
<1>3. ASSUME T # {} PROVE FALSE
  <2>1. PICK n \in T : \A m \in T : n <= m
    <3>1. T \in SUBSET Nat
      OBVIOUS
    <3> HIDE DEF T
    <3> QED
      BY <1>3, <3>1, LeastNat
  <2>2. n # 0
    BY <1>2, <2>1
  <2>3. n - 1 \in Nat /\ ~(n <= n - 1)
    BY <2>1, <2>2
  <2>4. n - 1 \notin T
    BY <2>1, <2>3
  <2>5. PICK f : Is(f, n - 1)
    BY <2>3, <2>4
  <2>6. \E g : Is(g, n - 1 + 1)
    BY <1>1, <2>3, <2>5
  <2>7. n - 1 + 1 = n
    BY <2>1
  <2> QED
    BY <2>1, <2>6, <2>7
<1>4. N \notin T
  BY <1>3
<1> QED
  BY <1>4 DEF TurnsOf

\* The turns of the loop: the first state, and one ReportOn after the other.
LEMMA TurnsAre ==
  ASSUME NEW pack, NEW l, Len(l) \in Nat, NEW first, NEW maxcount
  PROVE  LET f == ReportTurns(pack, l, first, maxcount)
         IN  /\ f[0] = [pack |-> pack, list |-> l, added |-> 0, skipped |-> 0,
                        full |-> FALSE, stop |-> 0]
             /\ \A k \in 1..Len(l) : f[k] = ReportOn(f[k - 1], k, first, maxcount)
<1> DEFINE f == ReportTurns(pack, l, first, maxcount)
<1>1. f = CHOOSE g : TurnsOf(g, pack, l, first, maxcount, Len(l))
  BY DEF ReportTurns, TurnsOf
<1>2. TurnsOf(f, pack, l, first, maxcount, Len(l))
  BY <1>1, TurnsExist
<1> HIDE DEF f
<1>3. 0 \in 0..Len(l) /\ \A k \in 1..Len(l) : k \in 0..Len(l) /\ k # 0
  OBVIOUS
<1>4. f[0] = [pack |-> pack, list |-> l, added |-> 0, skipped |-> 0,
              full |-> FALSE, stop |-> 0]
  BY <1>2, <1>3, Zenon DEF TurnsOf
<1>5. ASSUME NEW k \in 1..Len(l) PROVE f[k] = ReportOn(f[k - 1], k, first, maxcount)
  BY <1>2, <1>3, Zenon DEF TurnsOf
<1> QED
  BY <1>4, <1>5 DEF f

-----------------------------------------------------------------------------
(* One turn.                                                                *)

\* Counting in a sequence, one element after the other.
LEMMA CountIs ==
  /\ \A s : Count(<<>>, s) = 0
  /\ \A b \in Seq(Member) : \A s : Count(b, s) \in Nat
  /\ \A b \in Seq(Member), x \in Member : \A s :
        Count(Append(b, x), s) = Count(b, s) + Bit(x = s)
<1> DEFINE P(b, s) == {k \in DOMAIN b : b[k] = s}
<1>1. ASSUME NEW s PROVE Count(<<>>, s) = 0
  <2>1. P(<<>>, s) = {}
    OBVIOUS
  <2> QED
    BY <2>1, FS_EmptySet DEF Count
<1>2. ASSUME NEW b \in Seq(Member), NEW s PROVE IsFiniteSet(P(b, s)) /\ P(b, s) \subseteq 1..Len(b)
  <2>1. IsFiniteSet(1..Len(b)) /\ P(b, s) \subseteq 1..Len(b)
    BY FS_Interval
  <2> QED
    BY <2>1, FS_Subset
<1>3. ASSUME NEW b \in Seq(Member), NEW s PROVE Count(b, s) \in Nat
  BY <1>2, FS_CardinalityType DEF Count
<1>4. ASSUME NEW b \in Seq(Member), NEW x \in Member, NEW s
      PROVE  Count(Append(b, x), s) = Count(b, s) + Bit(x = s)
  <2>1. P(Append(b, x), s) = IF x = s THEN P(b, s) \cup {Len(b) + 1} ELSE P(b, s)
    <3>1. DOMAIN Append(b, x) = 1..Len(b) + 1 /\ DOMAIN b = 1..Len(b) /\ Len(b) \in Nat
      OBVIOUS
    <3>2. \A k \in 1..Len(b) + 1 :
             Append(b, x)[k] = IF k = Len(b) + 1 THEN x ELSE b[k]
      OBVIOUS
    <3>3. \A k : k \in 1..Len(b) + 1 <=> (k \in 1..Len(b) \/ k = Len(b) + 1)
      BY <3>1
    <3>4. Len(b) + 1 \notin 1..Len(b)
      BY <3>1
    <3>5. ASSUME NEW k
          PROVE  k \in P(Append(b, x), s) <=> (k \in P(b, s) \/ (x = s /\ k = Len(b) + 1))
      BY <3>1, <3>2, <3>3, <3>4, Zenon
    <3> HIDE DEF P
    <3>6. CASE x = s
      <4>1. \A k : k \in P(Append(b, x), s) <=> k \in P(b, s) \cup {Len(b) + 1}
        BY <3>5, <3>6, Zenon
      <4> QED
        BY <3>6, <4>1, Zenon
    <3>7. CASE x # s
      <4>1. \A k : k \in P(Append(b, x), s) <=> k \in P(b, s)
        BY <3>5, <3>7, Zenon
      <4> QED
        BY <3>7, <4>1, Zenon
    <3> QED
      BY <3>6, <3>7
  <2>2. Len(b) + 1 \notin P(b, s)
    BY <1>2
  <2>5. /\ Count(Append(b, x), s) = Cardinality(P(Append(b, x), s))
        /\ Count(b, s) = Cardinality(P(b, s))
    BY DEF Count
  <2>6. Count(b, s) \in Nat /\ IsFiniteSet(P(b, s))
    BY <1>2, <1>3
  <2> HIDE DEF P
  <2>3. CASE x = s
    <3>1. Cardinality(P(b, s) \cup {Len(b) + 1}) = Cardinality(P(b, s)) + 1
      BY <2>2, <2>6, FS_AddElement
    <3> QED
      BY <2>1, <2>3, <2>5, <2>6, <3>1 DEF Bit
  <2>4. CASE x # s
    BY <2>1, <2>4, <2>5, <2>6 DEF Bit
  <2> QED
    BY <2>3, <2>4
<1> QED
  BY <1>1, <1>3, <1>4

\* The sources that are to be reported on: those that wait, and those that had
\* their turn already.
Waiting(l, first) == {j \in DOMAIN l : ShouldProcess(l[j], first) /\ ~l[j].processed}
Skipping(l, first) == {j \in DOMAIN l : ShouldProcess(l[j], first) /\ l[j].processed}

\* The list when those at M have got their block.
Marked(l, M) == [j \in DOMAIN l |-> [l[j] EXCEPT !.processed = IF j \in M THEN TRUE ELSE @]]

IsPack(p) == "blocks" \in DOMAIN p /\ p.blocks \in Seq(Member)

\* The blocks of q are those of p and one for each source at M.
OneEach(q, p, l, M) ==
    /\ IsPack(q)
    /\ \A s \in Member :
          Count(q.blocks, s) = Count(p.blocks, s) + Bit(\E j \in M : l[j].ssrc = s)

\* After k turns the sources at M have got a block.
AfterTurn(f, pack, l, first, maxcount, k, M) ==
    /\ f = [pack |-> f.pack, list |-> Marked(l, M), added |-> Cardinality(M),
            skipped |-> f.skipped, full |-> f.full, stop |-> f.stop]
    /\ OneEach(f.pack, pack, l, M)
    /\ f.full \in BOOLEAN /\ f.stop \in 0..k
    /\ IsFiniteSet(M) /\ Cardinality(M) <= maxcount
    /\ f.stop = 0 =>
          /\ M = Upto(Waiting(l, first), k)
          /\ f.skipped = Cardinality(Upto(Skipping(l, first), k))
          /\ ~f.full /\ Cardinality(M) < maxcount
    /\ f.stop # 0 =>
          /\ f.stop \in Waiting(l, first)
          /\ M = Upto(Waiting(l, first), IF f.full THEN f.stop - 1 ELSE f.stop)
          /\ ~f.full => Cardinality(M) = maxcount

\* The elements of a set up to one more place.
LEMMA UptoNext ==
  ASSUME NEW A, NEW n \in Nat, A \subseteq 1..n, NEW k \in 1..n
  PROVE  /\ Upto(A, k) = IF k \in A THEN Upto(A, k - 1) \cup {k} ELSE Upto(A, k - 1)
         /\ k \notin Upto(A, k - 1)
         /\ IsFiniteSet(Upto(A, k - 1)) /\ Upto(A, k) \subseteq A
<1>1. \A j \in A : j <= k <=> (j <= k - 1 \/ j = k)
  OBVIOUS
<1>2. IsFiniteSet(1..n) /\ Upto(A, k - 1) \subseteq 1..n
  <2>1. IsFiniteSet(1..n)
    BY FS_Interval
  <2> QED
    BY <2>1 DEF Upto
<1>3. ~(k <= k - 1) /\ k <= k
  OBVIOUS
<1> QED
  BY <1>1, <1>2, <1>3, FS_Subset DEF Upto

\* A list of sources keeps its type when some are marked.
LEMMA MarkedIs ==
  ASSUME NEW l \in Seq(EntryType), NEW M
  PROVE  /\ Marked(l, M) \in Seq(EntryType) /\ Len(Marked(l, M)) = Len(l)
         /\ DOMAIN Marked(l, M) = DOMAIN l
         /\ \A j \in DOMAIN l :
               /\ l[j] \in EntryType
               /\ Marked(l, M)[j].ssrc = l[j].ssrc
               /\ Marked(l, M)[j].csrc = l[j].csrc
               /\ Marked(l, M)[j].sentdata = l[j].sentdata
               /\ Marked(l, M)[j].fresh = l[j].fresh
               /\ Marked(l, M)[j].processed = (j \in M \/ l[j].processed)
               /\ j \notin M => Marked(l, M)[j] = l[j]
<1>1. DOMAIN l = 1..Len(l) /\ Len(l) \in Nat /\ \A j \in DOMAIN l : l[j] \in EntryType
  OBVIOUS
<1>2. ASSUME NEW j \in DOMAIN l
      PROVE  LET e == [l[j] EXCEPT !.processed = IF j \in M THEN TRUE ELSE @]
             IN  /\ e \in EntryType
                 /\ e.ssrc = l[j].ssrc /\ e.csrc = l[j].csrc
                 /\ e.sentdata = l[j].sentdata /\ e.fresh = l[j].fresh
                 /\ e.processed = (j \in M \/ l[j].processed)
                 /\ j \notin M => e = l[j]
  BY <1>1 DEF EntryType
<1>3. Marked(l, M) \in [1..Len(l) -> EntryType]
  BY <1>1, <1>2 DEF Marked
<1>4. Marked(l, M) \in Seq(EntryType) /\ Len(Marked(l, M)) = Len(l)
  BY <1>1, <1>3
<1> QED
  BY <1>1, <1>2, <1>4 DEF Marked

\* Adding a block to a packet.
LEMMA BlockAdded ==
  ASSUME NEW q, NEW p, NEW l \in Seq(EntryType), NEW M, M \subseteq DOMAIN l,
         Proper(l), OneEach(q, p, l, M),
         IsPack(p), NEW k \in DOMAIN l, k \notin M
  PROVE  OneEach(WithBlock(q, l[k].ssrc), p, l, M \cup {k})
<1>1. l[k].ssrc \in Member
  <2>1. l[k] \in EntryType
    BY MarkedIs
  <2> QED
    BY <2>1 DEF EntryType
<1>2. "blocks" \in DOMAIN q /\ q.blocks \in Seq(Member)
  BY DEF OneEach, IsPack
<1> DEFINE w == WithBlock(q, l[k].ssrc)
<1>3. "blocks" \in DOMAIN w /\ w.blocks = Append(q.blocks, l[k].ssrc)
  BY <1>2 DEF WithBlock
<1>4. IsPack(w)
  BY <1>1, <1>2, <1>3 DEF IsPack
<1>5. ASSUME NEW s \in Member
      PROVE  Count(w.blocks, s) = Count(p.blocks, s) + Bit(\E j \in M \cup {k} : l[j].ssrc = s)
  <2>1. Count(w.blocks, s) = Count(q.blocks, s) + Bit(l[k].ssrc = s)
    BY <1>1, <1>2, <1>3, CountIs
  <2>2. Count(q.blocks, s) = Count(p.blocks, s) + Bit(\E j \in M : l[j].ssrc = s)
    BY DEF OneEach
  <2>3. Count(p.blocks, s) \in Nat
    BY CountIs DEF IsPack
  <2>4. ~(l[k].ssrc = s /\ \E j \in M : l[j].ssrc = s)
    BY DEF Proper
  <2>5. (\E j \in M \cup {k} : l[j].ssrc = s) <=> (l[k].ssrc = s \/ \E j \in M : l[j].ssrc = s)
    OBVIOUS
  <2>6. CASE l[k].ssrc = s
    BY <2>1, <2>2, <2>3, <2>4, <2>5, <2>6 DEF Bit
  <2>7. CASE l[k].ssrc # s
    <3>1. (\E j \in M \cup {k} : l[j].ssrc = s) <=> (\E j \in M : l[j].ssrc = s)
      BY <2>5, <2>7
    <3>2. Bit(l[k].ssrc = s) = 0
      BY <2>7 DEF Bit
    <3>3. Bit(\E j \in M \cup {k} : l[j].ssrc = s) = Bit(\E j \in M : l[j].ssrc = s)
      BY <3>1, Zenon DEF Bit
    <3>4. Bit(\E j \in M : l[j].ssrc = s) \in Nat
      BY DEF Bit
    <3> DEFINE c == Bit(\E j \in M : l[j].ssrc = s)
               d == Bit(\E j \in M \cup {k} : l[j].ssrc = s)
               e == Bit(l[k].ssrc = s)
    <3>5. /\ Count(w.blocks, s) = Count(q.blocks, s) + e /\ e = 0
          /\ Count(q.blocks, s) = Count(p.blocks, s) + c
          /\ c \in Nat /\ d = c /\ Count(p.blocks, s) \in Nat
      BY <2>1, <2>2, <2>3, <3>2, <3>3, <3>4
    <3> HIDE DEF c, d, e, w
    <3>6. Count(w.blocks, s) = Count(p.blocks, s) + d
      BY <3>5
    <3> QED
      BY <3>6 DEF d, w
  <2> QED
    BY <2>6, <2>7
<1> QED
  BY <1>4, <1>5 DEF OneEach

\* One turn of the loop.
LEMMA TurnStep ==
  ASSUME NEW l \in Seq(EntryType), Proper(l), NEW pack, IsPack(pack), NEW first \in BOOLEAN,
         NEW maxcount \in Nat, NEW k \in 1..Len(l), NEW f, NEW M,
         AfterTurn(f, pack, l, first, maxcount, k - 1, M)
  PROVE  \E N : AfterTurn(ReportOn(f, k, first, maxcount), pack, l, first, maxcount, k, N)
<1> DEFINE W == Waiting(l, first)
           S == Skipping(l, first)
           g == ReportOn(f, k, first, maxcount)
<1>1. /\ Len(l) \in Nat /\ DOMAIN l = 1..Len(l)
      /\ W \subseteq 1..Len(l) /\ S \subseteq 1..Len(l)
  BY DEF Waiting, Skipping
<1>2. /\ f = [pack |-> f.pack, list |-> Marked(l, M), added |-> Cardinality(M),
              skipped |-> f.skipped, full |-> f.full, stop |-> f.stop]
      /\ OneEach(f.pack, pack, l, M)
      /\ f.full \in BOOLEAN /\ f.stop \in 0..k - 1
      /\ IsFiniteSet(M) /\ Cardinality(M) <= maxcount
  BY DEF AfterTurn
<1>3. CASE f.stop # 0
  <2>1. g = f
    BY <1>3 DEF ReportOn
  <2>2. f.stop \in 0..k
    BY <1>2
  <2> QED
    BY <1>2, <1>3, <2>1, <2>2, Zenon DEF AfterTurn
<1>4. CASE f.stop = 0
  <2>1. /\ M = Upto(W, k - 1) /\ f.skipped = Cardinality(Upto(S, k - 1))
        /\ ~f.full /\ Cardinality(M) < maxcount
    BY <1>4 DEF AfterTurn
  <2>2. /\ Upto(W, k) = IF k \in W THEN M \cup {k} ELSE M
        /\ k \notin M /\ IsFiniteSet(M)
        /\ Upto(W, k) \subseteq W
    <3> HIDE DEF W
    <3> QED
      BY <1>1, <2>1, UptoNext
  <2>3. /\ Upto(S, k) = IF k \in S THEN Upto(S, k - 1) \cup {k} ELSE Upto(S, k - 1)
        /\ k \notin Upto(S, k - 1) /\ IsFiniteSet(Upto(S, k - 1))
    <3> HIDE DEF S
    <3> QED
      BY <1>1, UptoNext
  <2>4. f.list[k] = l[k] /\ f.list = Marked(l, M) /\ l[k] \in EntryType
    <3>1. f.list = Marked(l, M)
      BY <1>2
    <3> QED
      BY <1>1, <2>2, <3>1, MarkedIs
  <2>5. 0 \in 0..k /\ k \in 0..k /\ k # 0 /\ k <= k /\ k - 1 + 1 = k
    OBVIOUS
  <2>6. CASE ~ShouldProcess(l[k], first)
    <3>1. g = f
      BY <2>4, <2>6 DEF ReportOn
    <3>2. k \notin W /\ k \notin S
      BY <2>6 DEF Waiting, Skipping
    <3>3. AfterTurn(f, pack, l, first, maxcount, k, M)
      <4> HIDE DEF W, S
      <4>1. M = Upto(W, k) /\ f.skipped = Cardinality(Upto(S, k))
        BY <2>1, <2>2, <2>3, <3>2
      <4> QED
        BY <1>2, <1>4, <2>1, <2>5, <4>1, Zenon DEF AfterTurn, W, S
    <3> QED
      BY <3>1, <3>3
  <2>7. CASE ShouldProcess(l[k], first) /\ l[k].processed
    <3>1. g = [f EXCEPT !.skipped = @ + 1]
      BY <1>4, <2>4, <2>7 DEF ReportOn
    <3>2. k \notin W /\ k \in S
      BY <1>1, <2>7 DEF Waiting, Skipping
    <3>3. /\ g = [pack |-> f.pack, list |-> Marked(l, M), added |-> Cardinality(M),
                  skipped |-> f.skipped + 1, full |-> f.full, stop |-> f.stop]
          /\ g.pack = f.pack /\ g.skipped = f.skipped + 1 /\ g.full = f.full
          /\ g.stop = f.stop
      <4> HIDE DEF g
      <4>1. g = [[pack |-> f.pack, list |-> Marked(l, M), added |-> Cardinality(M),
                 skipped |-> f.skipped, full |-> f.full, stop |-> f.stop]
                   EXCEPT !.skipped = f.skipped + 1]
        BY <1>2, <3>1, Zenon
      <4> QED
        BY <4>1
    <3>4. M = Upto(W, k) /\ f.skipped + 1 = Cardinality(Upto(S, k))
      <4> HIDE DEF W, S
      <4>1. Cardinality(Upto(S, k - 1) \cup {k}) = Cardinality(Upto(S, k - 1)) + 1
        BY <2>3, FS_AddElement
      <4> QED
        BY <2>1, <2>2, <2>3, <3>2, <4>1
    <3>5. AfterTurn(g, pack, l, first, maxcount, k, M)
      <4> HIDE DEF g
      <4> QED
        BY <1>2, <1>4, <2>1, <2>5, <3>3, <3>4, Zenon DEF AfterTurn
    <3> QED
      BY <3>5
  <2>8. CASE ShouldProcess(l[k], first) /\ ~l[k].processed /\ ~CanAddBlock(f.pack)
    <3>1. g = [f EXCEPT !.full = TRUE, !.stop = k]
      BY <1>4, <2>4, <2>8 DEF ReportOn
    <3>2. k \in W
      BY <1>1, <2>8 DEF Waiting
    <3>3. /\ g = [pack |-> f.pack, list |-> Marked(l, M), added |-> Cardinality(M),
                  skipped |-> f.skipped, full |-> TRUE, stop |-> k]
          /\ g.pack = f.pack /\ g.skipped = f.skipped /\ g.full = TRUE
          /\ g.stop = k
      <4> HIDE DEF g
      <4>1. g = [[pack |-> f.pack, list |-> Marked(l, M), added |-> Cardinality(M),
                 skipped |-> f.skipped, full |-> f.full, stop |-> f.stop]
                   EXCEPT !.full = TRUE, !.stop = k]
        BY <1>2, <3>1, Zenon
      <4> QED
        BY <4>1
    <3>5. AfterTurn(g, pack, l, first, maxcount, k, M)
      <4> HIDE DEF g
      <4> QED
        BY <1>2, <2>1, <2>5, <3>2, <3>3, Zenon DEF AfterTurn
    <3> QED
      BY <3>5
  <2>9. CASE ShouldProcess(l[k], first) /\ ~l[k].processed /\ CanAddBlock(f.pack)
    <3> DEFINE N == M \cup {k}
               p == WithBlock(f.pack, l[k].ssrc)
               stop == IF f.added + 1 >= maxcount THEN k ELSE 0
    <3>1. g = [f EXCEPT !.pack = WithBlock(@, f.list[k].ssrc),
                        !.list[k].processed = TRUE,
                        !.added = @ + 1,
                        !.stop = stop]
      BY <1>4, <2>4, <2>9 DEF ReportOn
    <3>2. k \in W /\ k \notin S
      BY <1>1, <2>9 DEF Waiting, Skipping
    <3>3. Cardinality(N) = Cardinality(M) + 1 /\ IsFiniteSet(N) /\ Cardinality(M) \in Nat
      BY <2>2, FS_AddElement, FS_CardinalityType
    <3>4. f.added = Cardinality(M)
      BY <1>2
    <3>5. [Marked(l, M) EXCEPT ![k].processed = TRUE] = Marked(l, N)
      <4>1. DOMAIN Marked(l, M) = DOMAIN l /\ Marked(l, M)[k] = l[k]
        BY <1>1, <2>2, MarkedIs
      <4>2. ASSUME NEW j \in DOMAIN l, j # k PROVE Marked(l, M)[j] = Marked(l, N)[j]
        BY <4>2 DEF Marked
      <4>3. [l[k] EXCEPT !.processed = TRUE] = Marked(l, N)[k]
        BY <1>1 DEF Marked
      <4>4. Marked(l, N) = [j \in DOMAIN l |-> Marked(l, N)[j]]
        BY DEF Marked
      <4> HIDE DEF N
      <4> QED
        BY <4>1, <4>2, <4>3, <4>4, Zenon
    <3>6. /\ g = [pack |-> p, list |-> Marked(l, N), added |-> Cardinality(N),
                  skipped |-> f.skipped, full |-> f.full, stop |-> stop]
          /\ g.pack = p /\ g.skipped = f.skipped /\ g.full = f.full
          /\ g.stop = stop
      <4>1. g = [[pack |-> f.pack, list |-> Marked(l, M), added |-> Cardinality(M),
                 skipped |-> f.skipped, full |-> f.full, stop |-> f.stop]
                   EXCEPT !.pack = p, !.list = Marked(l, N), !.added = Cardinality(N),
                          !.stop = stop]
        <5> HIDE DEF g, stop, N
        <5>1. f.pack = f.pack /\ f.list = Marked(l, M) /\ f.list[k] = l[k]
          BY <2>4
        <5>2. g = [f EXCEPT !.pack = p, !.list = [Marked(l, M) EXCEPT ![k].processed = TRUE],
                        !.added = Cardinality(M) + 1, !.stop = stop]
          BY <3>1, <3>4, <5>1
        <5> QED
          BY <1>2, <3>3, <3>5, <5>2
      <4> HIDE DEF g, p, stop, N
      <4> QED
        BY <4>1
    <3>7. OneEach(p, pack, l, N)
      <4>1. M \subseteq DOMAIN l
        BY <1>1, <2>1 DEF Upto, Waiting
      <4> QED
        BY <1>1, <1>2, <2>2, <4>1, BlockAdded
    <3>8. N = Upto(W, k) /\ f.skipped = Cardinality(Upto(S, k))
      <4> HIDE DEF W, S
      <4> QED
        BY <2>1, <2>2, <2>3, <3>2
    <3>9. /\ stop \in 0..k /\ Cardinality(N) <= maxcount
          /\ stop = 0 => Cardinality(N) < maxcount
          /\ stop # 0 => stop = k /\ Cardinality(N) = maxcount
      <4>1. Cardinality(M) \in Nat /\ Cardinality(M) < maxcount /\ f.added + 1 = Cardinality(N)
        BY <2>1, <3>3, <3>4
      <4> HIDE DEF N
      <4> QED
        BY <3>3, <4>1
    <3>10. AfterTurn(g, pack, l, first, maxcount, k, N)
      <4> HIDE DEF g, p, stop, N
      <4>1. stop = 0 =>
              /\ N = Upto(Waiting(l, first), k)
              /\ g.skipped = Cardinality(Upto(Skipping(l, first), k))
              /\ ~g.full /\ Cardinality(N) < maxcount
        BY <2>1, <3>6, <3>8, <3>9, Zenon
      <4>2. stop # 0 =>
              /\ stop \in Waiting(l, first)
              /\ N = Upto(Waiting(l, first), IF g.full THEN stop - 1 ELSE stop)
              /\ ~g.full => Cardinality(N) = maxcount
        BY <2>1, <3>2, <3>6, <3>8, <3>9, Zenon
      <4> QED
        BY <1>2, <3>3, <3>6, <3>7, <3>9, <4>1, <4>2, Zenon DEF AfterTurn
    <3> QED
      BY <3>10
  <2> QED
    BY <2>6, <2>7, <2>8, <2>9
<1> QED
  BY <1>3, <1>4

\* What FillInReportBlocks does: the sources at M get a block each.  They are
\* the first of those that wait; all of them, if there is room and not too many.
Filled(r, pack, l, first, maxcount, M) ==
    /\ M \subseteq Waiting(l, first) /\ IsFiniteSet(M)
    /\ r.list = Marked(l, M) /\ r.added = Cardinality(M) /\ r.full \in BOOLEAN
    /\ OneEach(r.pack, pack, l, M)
    /\ Cardinality(M) <= maxcount
    /\ \A j \in M : Upto(Waiting(l, first), j) \subseteq M
    /\ ~r.full /\ Cardinality(M) < maxcount =>
          M = Waiting(l, first) /\ r.skipped = Cardinality(Skipping(l, first))
    /\ r.atend => M = Waiting(l, first)

\* The loop, over all turns.
LEMMA FillIs ==
  ASSUME NEW l \in Seq(EntryType), Proper(l), NEW pack, IsPack(pack), NEW first \in BOOLEAN,
         NEW maxcount \in Nat \ {0}
  PROVE  \E M : Filled(FillInReportBlocks(pack, l, first, maxcount),
                       pack, l, first, maxcount, M)
<1> DEFINE h == ReportTurns(pack, l, first, maxcount)
           W == Waiting(l, first)
           S == Skipping(l, first)
           r == FillInReportBlocks(pack, l, first, maxcount)
           T == {k \in 0..Len(l) : ~ \E M : AfterTurn(h[k], pack, l, first, maxcount, k, M)}
<1>1. /\ Len(l) \in Nat /\ DOMAIN l = 1..Len(l)
      /\ W \subseteq 1..Len(l) /\ S \subseteq 1..Len(l)
  BY DEF Waiting, Skipping
<1>2. /\ h[0] = [pack |-> pack, list |-> l, added |-> 0, skipped |-> 0,
                 full |-> FALSE, stop |-> 0]
      /\ \A k \in 1..Len(l) : h[k] = ReportOn(h[k - 1], k, first, maxcount)
  BY <1>1, TurnsAre
<1> HIDE DEF h
<1>3. AfterTurn(h[0], pack, l, first, maxcount, 0, {})
  <2>1. Marked(l, {}) = l
    <3>1. \A j \in DOMAIN l : Marked(l, {})[j] = l[j]
      BY MarkedIs
    <3>2. l = [j \in DOMAIN l |-> l[j]] /\ Marked(l, {}) = [j \in DOMAIN l |-> Marked(l, {})[j]]
      BY DEF Marked
    <3> QED
      BY <3>1, <3>2, Zenon
  <2>2. Cardinality({}) = 0 /\ IsFiniteSet({})
    BY FS_EmptySet
  <2>3. OneEach(pack, pack, l, {})
    <3>1. \A s \in Member : Count(pack.blocks, s) \in Nat
      BY CountIs DEF IsPack
    <3>2. \A s \in Member : Bit(\E j \in {} : l[j].ssrc = s) = 0
      BY DEF Bit
    <3>3. \A s \in Member : Count(pack.blocks, s) = Count(pack.blocks, s) + 0
      BY <3>1
    <3> QED
      BY <3>2, <3>3, Zenon DEF OneEach
  <2>4. Upto(W, 0) = {} /\ Upto(S, 0) = {}
    <3> HIDE DEF W, S
    <3>1. \A j \in 1..Len(l) : ~(j <= 0)
      OBVIOUS
    <3> QED
      BY <1>1, <3>1 DEF Upto
  <2>5. 0 <= maxcount /\ 0 < maxcount /\ 0 \in 0..0
    OBVIOUS
  <2>6. /\ h[0].pack = pack /\ h[0].skipped = 0 /\ h[0].full = FALSE /\ h[0].stop = 0
    BY <1>2
  <2> HIDE DEF W, S
  <2>7. /\ h[0] = [pack |-> h[0].pack, list |-> Marked(l, {}), added |-> Cardinality({}),
                   skipped |-> h[0].skipped, full |-> h[0].full, stop |-> h[0].stop]
    BY <1>2, <2>1, <2>2, <2>6
  <2> QED
    BY <2>2, <2>3, <2>4, <2>5, <2>6, <2>7, Zenon DEF AfterTurn, W, S
<1>4. ASSUME T # {} PROVE FALSE
  <2>1. PICK k \in T : \A m \in T : k <= m
    <3>1. T \in SUBSET Nat
      OBVIOUS
    <3> HIDE DEF T
    <3> QED
      BY <1>4, <3>1, LeastNat
  <2>2. k # 0
    BY <1>3, <2>1
  <2>3. k \in 1..Len(l) /\ k - 1 \in 0..Len(l) /\ ~(k <= k - 1)
    BY <1>1, <2>1, <2>2
  <2>4. k - 1 \notin T
    BY <2>1, <2>3
  <2>5. PICK M : AfterTurn(h[k - 1], pack, l, first, maxcount, k - 1, M)
    BY <2>3, <2>4
  <2>6. \E N : AfterTurn(ReportOn(h[k - 1], k, first, maxcount),
                         pack, l, first, maxcount, k, N)
    BY <2>3, <2>5, TurnStep
  <2>7. \E N : AfterTurn(h[k], pack, l, first, maxcount, k, N)
    BY <1>2, <2>3, <2>6
  <2> QED
    BY <2>1, <2>7
<1> DEFINE f == h[Len(l)]
<1>5. PICK M : AfterTurn(f, pack, l, first, maxcount, Len(l), M)
  <2>1. Len(l) \in 0..Len(l)
    BY <1>1
  <2> QED
    BY <1>4, <2>1
<1> HIDE DEF f
<1>6. /\ r.pack = f.pack /\ r.list = f.list /\ r.added = f.added /\ r.skipped = f.skipped
      /\ r.full = f.full
      /\ r.atend => \/ f.stop = 0
                    \/ /\ ~f.full
                       /\ \A k \in f.stop + 1 .. Len(l) :
                            ~(ShouldProcess(f.list[k], first) /\ ~f.list[k].processed)
  BY Zenon DEF FillInReportBlocks, f, h
<1> HIDE DEF r
<1>7. /\ f = [pack |-> f.pack, list |-> Marked(l, M), added |-> Cardinality(M),
              skipped |-> f.skipped, full |-> f.full, stop |-> f.stop]
      /\ OneEach(f.pack, pack, l, M)
      /\ f.full \in BOOLEAN /\ f.stop \in 0..Len(l)
      /\ IsFiniteSet(M) /\ Cardinality(M) <= maxcount
      /\ f.stop = 0 =>
            /\ M = Upto(W, Len(l))
            /\ f.skipped = Cardinality(Upto(S, Len(l)))
            /\ ~f.full /\ Cardinality(M) < maxcount
      /\ f.stop # 0 =>
            /\ f.stop \in W
            /\ M = Upto(W, IF f.full THEN f.stop - 1 ELSE f.stop)
            /\ ~f.full => Cardinality(M) = maxcount
  BY <1>5, Zenon DEF AfterTurn, W, S
<1>8. f.list = Marked(l, M) /\ f.added = Cardinality(M)
  BY <1>7
<1>9. Upto(W, Len(l)) = W /\ Upto(S, Len(l)) = S
  <2>1. \A j \in 1..Len(l) : j <= Len(l)
    OBVIOUS
  <2> HIDE DEF W, S
  <2> QED
    BY <1>1, <2>1, Zenon DEF Upto
<1>10. \E n \in Int : M = Upto(W, n)
  <2>1. Len(l) \in Int /\ f.stop \in Int /\ f.stop - 1 \in Int
    BY <1>1, <1>7
  <2> HIDE DEF W, S
  <2> QED
    BY <1>7, <2>1, Zenon
<1>11. M \subseteq W /\ \A j \in M : Upto(W, j) \subseteq M
  <2>1. PICK n \in Int : M = Upto(W, n)
    BY <1>10
  <2>2. \A j \in 1..Len(l), i \in 1..Len(l) : j <= n /\ i <= j => i <= n
    OBVIOUS
  <2> HIDE DEF W, S
  <2> QED
    BY <1>1, <2>1, <2>2, Zenon DEF Upto
<1>12. ASSUME ~r.full, Cardinality(M) < maxcount
       PROVE  M = W /\ r.skipped = Cardinality(S)
  <2>1. f.stop = 0
    <3>1. Cardinality(M) # maxcount
      BY <1>7, <1>12, FS_CardinalityType
    <3> QED
      BY <1>6, <1>7, <1>12, <3>1, Zenon
  <2> HIDE DEF W, S
  <2> QED
    BY <1>6, <1>7, <1>9, <2>1, Zenon
<1>13. ASSUME r.atend PROVE M = W
  <2>1. CASE f.stop = 0
    BY <1>7, <1>9, <2>1, Zenon
  <2>2. CASE f.stop # 0
    <3>1. ~f.full /\ M = Upto(W, f.stop)
      BY <1>6, <1>7, <1>13, <2>2
    <3>2. ASSUME NEW j \in W, j \notin M PROVE FALSE
      <4>1. j \in 1..Len(l) /\ ~(j <= f.stop)
        BY <1>1, <3>1, <3>2 DEF Upto
      <4>2. j \in f.stop + 1 .. Len(l)
        BY <1>1, <1>7, <4>1
      <4>3. ~(ShouldProcess(f.list[j], first) /\ ~f.list[j].processed)
        BY <1>6, <1>13, <2>2, <4>2
      <4>4. f.list[j] = l[j]
        BY <1>1, <1>8, <3>2, MarkedIs
      <4> QED
        BY <3>2, <4>3, <4>4 DEF Waiting
    <3> QED
      BY <1>11, <3>2
  <2> QED
    BY <2>1, <2>2
<1> HIDE DEF W, S
<1>14. Filled(r, pack, l, first, maxcount, M)
  BY <1>6, <1>7, <1>8, <1>11, <1>12, <1>13, Zenon DEF Filled, W, S
<1> QED
  BY <1>14 DEF r

-----------------------------------------------------------------------------
(* The turns of FillInSDES.                                                 *)

\* The loop over the items in the same way.
ItemLoop(f, pack, todo, done, n) ==
    f = [k \in 0..n |->
            IF k = 0 THEN [pack |-> pack, done |-> done, items |-> <<>>, full |-> FALSE]
            ELSE FillInItem(f[k - 1], Sdes[k], todo)]

\* It exists.
LEMMA ItemLoopExists ==
  ASSUME NEW pack, NEW todo, NEW done, NEW N \in Nat
  PROVE  \E f : ItemLoop(f, pack, todo, done, N)
<1> DEFINE B == [pack |-> pack, done |-> done, items |-> <<>>, full |-> FALSE]
           G(g, k) == FillInItem(g[k - 1], Sdes[k], todo)
           Is(f, n) == f = [k \in 0..n |-> IF k = 0 THEN B ELSE G(f, k)]
           T == {n \in Nat : ~ \E f : Is(f, n)}
<1>1. ASSUME NEW n \in Nat, NEW f, Is(f, n) PROVE \E g : Is(g, n + 1)
  <2> DEFINE g == [k \in 0..n + 1 |-> IF k = n + 1 THEN FillInItem(f[n], Sdes[k], todo)
                                      ELSE f[k]]
  <2>1. ASSUME NEW k \in 0..n + 1 PROVE g[k] = IF k = 0 THEN B ELSE G(g, k)
    <3>1. CASE k = 0
      <4>1. 0 \in 0..n /\ 0 # n + 1
        OBVIOUS
      <4>2. f[0] = B
        BY <1>1, <4>1, Zenon
      <4> QED
        BY <3>1, <4>1, <4>2, Zenon
    <3>2. CASE k \in 1..n
      <4>1. k \in 0..n /\ k # 0 /\ k # n + 1 /\ k - 1 \in 0..n + 1 /\ k - 1 # n + 1
        BY <3>2
      <4>2. f[k] = G(f, k)
        BY <1>1, <4>1, Zenon
      <4>3. g[k] = f[k] /\ g[k - 1] = f[k - 1]
        BY <4>1, Zenon
      <4> QED
        BY <4>1, <4>2, <4>3, Zenon
    <3>3. CASE k = n + 1
      <4>1. n \in 0..n + 1 /\ n # n + 1 /\ k - 1 = n /\ k # 0
        BY <3>3
      <4>2. g[n] = f[n]
        BY <4>1, Zenon
      <4> QED
        BY <3>3, <4>1, <4>2, Zenon
    <3> QED
      BY <2>1, <3>1, <3>2, <3>3
  <2>2. g = [k \in 0..n + 1 |-> g[k]]
    OBVIOUS
  <2> HIDE DEF g, B, G
  <2>3. g = [k \in 0..n + 1 |-> IF k = 0 THEN B ELSE G(g, k)]
    BY <2>1, <2>2, Zenon
  <2> QED
    BY <2>3
<1>2. \E f : Is(f, 0)
  <2> DEFINE f == [k \in 0..0 |-> B]
  <2>1. \A k \in 0..0 : k = 0
    OBVIOUS
  <2>2. f = [k \in 0..0 |-> IF k = 0 THEN B ELSE G(f, k)]
    <3> HIDE DEF B, G
    <3> QED
      BY <2>1, Zenon
  <2> QED
    BY <2>2
<1>3. ASSUME T # {} PROVE FALSE
  <2>1. PICK n \in T : \A m \in T : n <= m
    <3>1. T \in SUBSET Nat
      OBVIOUS
    <3> HIDE DEF T
    <3> QED
      BY <1>3, <3>1, LeastNat
  <2>2. n # 0
    BY <1>2, <2>1
  <2>3. n - 1 \in Nat /\ ~(n <= n - 1)
    BY <2>1, <2>2
  <2>4. n - 1 \notin T
    BY <2>1, <2>3
  <2>5. PICK f : Is(f, n - 1)
    BY <2>3, <2>4
  <2>6. \E g : Is(g, n - 1 + 1)
    BY <1>1, <2>3, <2>5
  <2>7. n - 1 + 1 = n
    BY <2>1
  <2> QED
    BY <2>1, <2>6, <2>7
<1>4. N \notin T
  BY <1>3
<1> QED
  BY <1>4 DEF ItemLoop

\* The turns of the loop: the first state, and one item after the other.
LEMMA ItemTurnsAre ==
  ASSUME NEW pack, NEW todo, NEW done, Len(Sdes) \in Nat
  PROVE  LET f == ItemTurns(pack, todo, done)
         IN  /\ f[0] = [pack |-> pack, done |-> done, items |-> <<>>, full |-> FALSE]
             /\ \A k \in 1..Len(Sdes) : f[k] = FillInItem(f[k - 1], Sdes[k], todo)
<1> DEFINE f == ItemTurns(pack, todo, done)
<1>1. f = CHOOSE g : ItemLoop(g, pack, todo, done, Len(Sdes))
  BY DEF ItemTurns, ItemLoop
<1>2. ItemLoop(f, pack, todo, done, Len(Sdes))
  BY <1>1, ItemLoopExists
<1> HIDE DEF f
<1>3. 0 \in 0..Len(Sdes) /\ \A k \in 1..Len(Sdes) : k \in 0..Len(Sdes) /\ k # 0
  OBVIOUS
<1>4. f[0] = [pack |-> pack, done |-> done, items |-> <<>>, full |-> FALSE]
  BY <1>2, <1>3, Zenon DEF ItemLoop
<1>5. ASSUME NEW k \in 1..Len(Sdes) PROVE f[k] = FillInItem(f[k - 1], Sdes[k], todo)
  BY <1>2, <1>3, Zenon DEF ItemLoop
<1> QED
  BY <1>4, <1>5 DEF f

\* The items sent after k turns.
ItemsSoFar(f, pack, todo, done, k) ==
    /\ f = [pack |-> f.pack, done |-> done \cup ToSet(f.items), items |-> f.items,
            full |-> f.full]
    /\ f.full \in BOOLEAN /\ f.items \in Seq(SdesIds) /\ IsInjective(f.items)
    /\ ToSet(f.items) \subseteq todo \ done
    /\ IsPack(f.pack) /\ f.pack.blocks = pack.blocks
    /\ ~f.full => \A j \in 1..k : Sdes[j] \in todo => Sdes[j] \in f.done

\* A sequence grows by one element that is new.
LEMMA GrowsInjective ==
  ASSUME NEW S, NEW s \in Seq(S), IsInjective(s), NEW x \in S, x \notin ToSet(s)
  PROVE  /\ Append(s, x) \in Seq(S) /\ IsInjective(Append(s, x))
         /\ ToSet(Append(s, x)) = ToSet(s) \cup {x}
<1> DEFINE t == Append(s, x)
<1>1. /\ t \in Seq(S) /\ Len(s) \in Nat
      /\ DOMAIN t = 1..Len(s) + 1 /\ DOMAIN s = 1..Len(s)
      /\ \A k \in 1..Len(s) + 1 : t[k] = IF k = Len(s) + 1 THEN x ELSE s[k]
      /\ \A k : k \in 1..Len(s) + 1 <=> (k \in 1..Len(s) \/ k = Len(s) + 1)
      /\ Len(s) + 1 \notin 1..Len(s)
  OBVIOUS
<1> HIDE DEF t
<1>2. \A j, k \in DOMAIN s : s[j] = s[k] => j = k
  BY Zenon DEF IsInjective
<1>3. \A j \in DOMAIN s : s[j] # x
  BY Zenon DEF ToSet
<1>4. \A j, k \in DOMAIN t : t[j] = t[k] => j = k
  BY <1>1, <1>2, <1>3, Zenon
<1>5. \A y : (\E j \in DOMAIN t : y = t[j]) <=> ((\E j \in DOMAIN s : y = s[j]) \/ y = x)
  BY <1>1, Zenon
<1>6. ToSet(t) = ToSet(s) \cup {x}
  BY <1>5, Zenon DEF ToSet
<1> QED
  BY <1>1, <1>4, <1>6, Zenon DEF IsInjective, t

\* One item.
LEMMA ItemStep ==
  ASSUME NEW f, NEW pack, NEW todo, NEW done, NEW k \in 1..Len(Sdes),
         ItemsSoFar(f, pack, todo, done, k - 1)
  PROVE  ItemsSoFar(FillInItem(f, Sdes[k], todo), pack, todo, done, k)
<1> DEFINE g == FillInItem(f, Sdes[k], todo)
           i == Sdes[k]
<1>1. Len(Sdes) \in Nat /\ DOMAIN Sdes = 1..Len(Sdes) /\ Sdes[k] \in SdesIds
  BY SdesAssumption DEF SdesIds
<1>2. \A j : j \in 1..k <=> (j \in 1..k - 1 \/ j = k)
  OBVIOUS
<1>3. /\ f = [pack |-> f.pack, done |-> done \cup ToSet(f.items), items |-> f.items,
              full |-> f.full]
      /\ f.full \in BOOLEAN /\ f.items \in Seq(SdesIds) /\ IsInjective(f.items)
      /\ ToSet(f.items) \subseteq todo \ done
      /\ IsPack(f.pack) /\ f.pack.blocks = pack.blocks
      /\ ~f.full => \A j \in 1..k - 1 : Sdes[j] \in todo => Sdes[j] \in f.done
  BY DEF ItemsSoFar
<1>4. CASE f.full \/ i \notin todo \ f.done
  <2>1. g = f
    BY <1>4 DEF FillInItem
  <2> HIDE DEF g
  <2>2. ~f.full => \A j \in 1..k : Sdes[j] \in todo => Sdes[j] \in f.done
    BY <1>2, <1>3, <1>4, Zenon
  <2>3. ItemsSoFar(f, pack, todo, done, k)
    BY <1>3, <2>2, Zenon DEF ItemsSoFar
  <2> QED
    BY <2>1, <2>3 DEF g
<1>5. CASE ~(f.full \/ i \notin todo \ f.done) /\ ~CanAddItem(f.pack, SdesItem(i))
  <2>1. g = [f EXCEPT !.full = TRUE]
    BY <1>5 DEF FillInItem
  <2> HIDE DEF g
  <2>2. g = [[pack |-> f.pack, done |-> done \cup ToSet(f.items), items |-> f.items,
              full |-> f.full] EXCEPT !.full = TRUE]
    BY <1>3, <2>1, Zenon
  <2>3. /\ g = [pack |-> f.pack, done |-> done \cup ToSet(f.items), items |-> f.items,
                full |-> TRUE]
        /\ g.pack = f.pack /\ g.items = f.items /\ g.full = TRUE
    BY <2>2
  <2>4. ItemsSoFar(g, pack, todo, done, k)
    BY <1>3, <2>3, Zenon DEF ItemsSoFar
  <2> QED
    BY <2>4 DEF g
<1>6. CASE ~(f.full \/ i \notin todo \ f.done) /\ CanAddItem(f.pack, SdesItem(i))
  <2> DEFINE p == AddItem(f.pack, SdesItem(i))
             new == Append(f.items, i)
  <2>1. g = [f EXCEPT !.pack = AddItem(@, SdesItem(i)), !.done = @ \cup {i},
                      !.items = Append(@, i)]
    BY <1>6 DEF FillInItem
  <2>2. f.done = done \cup ToSet(f.items) /\ ~f.full
    BY <1>3, <1>6
  <2>3. i \in todo /\ i \notin done /\ i \notin ToSet(f.items)
    BY <1>6, <2>2
  <2>4. /\ new \in Seq(SdesIds) /\ IsInjective(new)
        /\ ToSet(new) = ToSet(f.items) \cup {i}
    BY <1>1, <1>3, <2>3, GrowsInjective
  <2>5. IsPack(p) /\ p.blocks = f.pack.blocks
    BY <1>3 DEF IsPack, AddItem
  <2> HIDE DEF g, p, new
  <2>6. g = [[pack |-> f.pack, done |-> done \cup ToSet(f.items), items |-> f.items,
              full |-> f.full] EXCEPT !.pack = p, !.done = done \cup ToSet(new), !.items = new]
    <3>1. done \cup ToSet(new) = f.done \cup {i}
      BY <2>2, <2>4
    <3>2. g = [f EXCEPT !.pack = p, !.done = done \cup ToSet(new), !.items = new]
      BY <2>1, <3>1 DEF p, new
    <3> QED
      BY <1>3, <3>2, Zenon
  <2>7. /\ g = [pack |-> p, done |-> done \cup ToSet(new), items |-> new, full |-> f.full]
        /\ g.pack = p /\ g.items = new /\ g.full = f.full /\ g.done = done \cup ToSet(new)
    BY <2>6
  <2>8. ~f.full => \A j \in 1..k : Sdes[j] \in todo => Sdes[j] \in g.done
    BY <1>2, <1>3, <2>2, <2>4, <2>7, Zenon
  <2>9. ToSet(new) \subseteq todo \ done
    BY <1>3, <2>3, <2>4, Zenon
  <2>10. ItemsSoFar(g, pack, todo, done, k)
    BY <1>3, <2>4, <2>5, <2>7, <2>8, <2>9, Zenon DEF ItemsSoFar
  <2> QED
    BY <2>10 DEF g
<1> QED
  BY <1>4, <1>5, <1>6

\* What FillInSDES sends: items that are due and not done, each once; all of
\* them, unless the packet is full.
ItemsSent(f, pack, todo, done) ==
    /\ f.full \in BOOLEAN /\ f.items \in Seq(SdesIds) /\ IsInjective(f.items)
    /\ f.done = done \cup ToSet(f.items)
    /\ ToSet(f.items) \subseteq todo \ done
    /\ ~f.full => ToSet(f.items) = todo \ done
    /\ IsPack(f.pack) /\ f.pack.blocks = pack.blocks

\* The loop, over all items.
LEMMA ItemsAre ==
  ASSUME NEW pack, IsPack(pack), NEW todo \in SUBSET SdesIds, NEW done
  PROVE  ItemsSent(FillInSDES(pack, todo, done), pack, todo, done)
<1> DEFINE h == ItemTurns(pack, todo, done)
           T == {k \in 0..Len(Sdes) : ~ItemsSoFar(h[k], pack, todo, done, k)}
<1>1. Len(Sdes) \in Nat /\ DOMAIN Sdes = 1..Len(Sdes)
  BY SdesAssumption
<1>2. /\ h[0] = [pack |-> pack, done |-> done, items |-> <<>>, full |-> FALSE]
      /\ \A k \in 1..Len(Sdes) : h[k] = FillInItem(h[k - 1], Sdes[k], todo)
  BY <1>1, ItemTurnsAre
<1> HIDE DEF h
<1>3. ItemsSoFar(h[0], pack, todo, done, 0)
  <2>1. ToSet(<<>>) = {} /\ <<>> \in Seq(SdesIds)
    BY DEF ToSet
  <2>2. IsInjective(<<>>)
    BY DEF IsInjective
  <2>3. /\ h[0].pack = pack /\ h[0].items = <<>> /\ h[0].full = FALSE
        /\ done \cup ToSet(<<>>) = done
    BY <1>2, <2>1
  <2>4. \A j : j \notin 1..0
    OBVIOUS
  <2> QED
    BY <1>2, <2>1, <2>2, <2>3, <2>4, Zenon DEF ItemsSoFar
<1>4. ASSUME T # {} PROVE FALSE
  <2>1. PICK k \in T : \A m \in T : k <= m
    <3>1. T \in SUBSET Nat
      OBVIOUS
    <3> HIDE DEF T
    <3> QED
      BY <1>4, <3>1, LeastNat
  <2>2. k # 0
    BY <1>3, <2>1
  <2>3. k \in 1..Len(Sdes) /\ k - 1 \in 0..Len(Sdes) /\ ~(k <= k - 1)
    BY <1>1, <2>1, <2>2
  <2>4. k - 1 \notin T
    BY <2>1, <2>3
  <2>5. ItemsSoFar(h[k - 1], pack, todo, done, k - 1)
    BY <2>3, <2>4
  <2>6. ItemsSoFar(FillInItem(h[k - 1], Sdes[k], todo), pack, todo, done, k)
    BY <2>3, <2>5, ItemStep
  <2>7. ItemsSoFar(h[k], pack, todo, done, k)
    BY <1>2, <2>3, <2>6
  <2> QED
    BY <2>1, <2>7
<1> DEFINE f == h[Len(Sdes)]
<1>5. ItemsSoFar(f, pack, todo, done, Len(Sdes))
  <2>1. Len(Sdes) \in 0..Len(Sdes)
    BY <1>1
  <2> QED
    BY <1>4, <2>1
<1>6. f = FillInSDES(pack, todo, done)
  BY DEF FillInSDES, h
<1> HIDE DEF f
<1>7. f.done = done \cup ToSet(f.items)
  BY <1>5 DEF ItemsSoFar
<1>8. ASSUME ~f.full PROVE ToSet(f.items) = todo \ done
  <2>1. \A j \in 1..Len(Sdes) : Sdes[j] \in todo => Sdes[j] \in f.done
    BY <1>5, <1>8 DEF ItemsSoFar
  <2>2. \A i \in todo : \E j \in 1..Len(Sdes) : i = Sdes[j]
    BY <1>1, Zenon DEF SdesIds
  <2>3. ToSet(f.items) \subseteq todo \ done
    BY <1>5 DEF ItemsSoFar
  <2> QED
    BY <1>7, <2>1, <2>2, <2>3, Zenon
<1>9. ItemsSent(f, pack, todo, done)
  BY <1>5, <1>7, <1>8, Zenon DEF ItemsSoFar, ItemsSent
<1> QED
  BY <1>6, <1>9

-----------------------------------------------------------------------------
(* Fair turns.                                                              *)

\* The same sources, with other flags.
SameSources(q, l) ==
    /\ q \in Seq(EntryType) /\ DOMAIN q = DOMAIN l
    /\ \A j \in DOMAIN l : /\ q[j].ssrc = l[j].ssrc /\ q[j].csrc = l[j].csrc
                           /\ q[j].sentdata = l[j].sentdata /\ q[j].fresh = l[j].fresh

\* The members of S are to be reported on.
Eligible(l, first, S) ==
    \A k \in DOMAIN l : l[k].ssrc \in S => ShouldProcess(l[k], first)

\* The number of blocks so far, those of a packet included.
Raw(n, b) == [s \in Member |-> n[s] + Count(b, s)]

\* Clearing the flags leaves everything else.
LEMMA ClearedIs ==
  ASSUME NEW l \in Seq(EntryType)
  PROVE  /\ SameSources(ClearAllSourceFlags(l), l)
         /\ \A k \in DOMAIN l : ~ClearAllSourceFlags(l)[k].processed
<1>1. DOMAIN l = 1..Len(l) /\ Len(l) \in Nat /\ \A j \in DOMAIN l : l[j] \in EntryType
  OBVIOUS
<1>2. ASSUME NEW j \in DOMAIN l
      PROVE  LET e == [l[j] EXCEPT !.processed = FALSE]
             IN  /\ e \in EntryType
                 /\ e.ssrc = l[j].ssrc /\ e.csrc = l[j].csrc
                 /\ e.sentdata = l[j].sentdata /\ e.fresh = l[j].fresh
                 /\ e.processed = FALSE
  BY <1>1 DEF EntryType
<1>3. ClearAllSourceFlags(l) \in [1..Len(l) -> EntryType]
  BY <1>1, <1>2 DEF ClearAllSourceFlags
<1>4. ClearAllSourceFlags(l) \in Seq(EntryType)
  BY <1>1, <1>3
<1> QED
  BY <1>1, <1>2, <1>4 DEF ClearAllSourceFlags, SameSources

\* What follows for the same sources.
LEMMA SameIs ==
  ASSUME NEW l \in Seq(EntryType), NEW q, SameSources(q, l)
  PROVE  /\ Proper(l) => Proper(q)
         /\ \A first, S : Eligible(l, first, S) => Eligible(q, first, S)
         /\ \A p : SameSources(p, q) => SameSources(p, l)
<1>1. Proper(l) => Proper(q)
  BY Zenon DEF SameSources, Proper
<1>2. ASSUME NEW first, NEW S, Eligible(l, first, S) PROVE Eligible(q, first, S)
  BY <1>2, Zenon DEF SameSources, Eligible, ShouldProcess
<1>3. ASSUME NEW p, SameSources(p, q) PROVE SameSources(p, l)
  BY <1>3, Zenon DEF SameSources
<1> QED
  BY <1>1, <1>2, <1>3

\* Marking leaves the sources the same.
LEMMA MarkedSame ==
  ASSUME NEW l \in Seq(EntryType), NEW M
  PROVE  SameSources(Marked(l, M), l)
  BY MarkedIs DEF SameSources

\* The members of S keep their order.
LEMMA FillInOrder ==
  ASSUME NEW l \in Seq(EntryType), NEW r, NEW pack, NEW first, NEW maxcount, NEW M,
         Filled(r, pack, l, first, maxcount, M),
         NEW S, NEW S2, S2 \subseteq S, InOrder(l, S), Eligible(l, first, S2)
  PROVE  InOrder(r.list, S2)
<1>1. r.list = Marked(l, M) /\ \A j \in M : Upto(Waiting(l, first), j) \subseteq M
  BY DEF Filled
<1>2. ASSUME NEW j \in DOMAIN l, NEW k \in DOMAIN l, j < k, l[j].ssrc \in S2,
             k \in M \/ l[k].processed
      PROVE  j \in M \/ l[j].processed
  <2>1. CASE l[k].processed
    BY <1>2, <2>1 DEF InOrder
  <2>2. CASE k \in M
    <3>1. ~l[j].processed => j \in Waiting(l, first)
      BY <1>2 DEF Waiting, Eligible
    <3>2. DOMAIN l = 1..Len(l)
      OBVIOUS
    <3>3. j <= k
      BY <1>2, <3>2
    <3> QED
      BY <1>1, <2>2, <3>1, <3>3, Zenon DEF Upto
  <2> QED
    BY <1>2, <2>1, <2>2
<1>3. /\ DOMAIN Marked(l, M) = DOMAIN l
      /\ \A j \in DOMAIN l : /\ Marked(l, M)[j].ssrc = l[j].ssrc
                             /\ Marked(l, M)[j].processed = (j \in M \/ l[j].processed)
  BY MarkedIs
<1> QED
  BY <1>1, <1>2, <1>3, Zenon DEF InOrder

\* A block for each member that is marked.
LEMMA FillCounts ==
  ASSUME NEW l \in Seq(EntryType), Proper(l), NEW q, NEW pack, NEW M, M \subseteq DOMAIN l,
         OneEach(q, pack, l, M), NEW k \in DOMAIN l
  PROVE  /\ l[k].ssrc \in Member
         /\ Count(q.blocks, l[k].ssrc) = Count(pack.blocks, l[k].ssrc) + Bit(k \in M)
<1>1. l[k].ssrc \in Member
  <2>1. l[k] \in EntryType
    BY MarkedIs
  <2> QED
    BY <2>1 DEF EntryType
<1>2. (\E j \in M : l[j].ssrc = l[k].ssrc) <=> k \in M
  BY DEF Proper
<1>3. Bit(\E j \in M : l[j].ssrc = l[k].ssrc) = Bit(k \in M)
  BY <1>2, Zenon DEF Bit
<1>4. Count(q.blocks, l[k].ssrc)
        = Count(pack.blocks, l[k].ssrc) + Bit(\E j \in M : l[j].ssrc = l[k].ssrc)
  BY <1>1, Zenon DEF OneEach
<1> QED
  BY <1>1, <1>3, <1>4, Zenon

\* Members that are marked are those that get a block.
LEMMA FillLevel ==
  ASSUME NEW l \in Seq(EntryType), Proper(l), NEW r, NEW pack, IsPack(pack), NEW first,
         NEW maxcount, NEW M, Filled(r, pack, l, first, maxcount, M),
         NEW n \in [Member -> Nat],
         NEW S, NEW S2, S2 \subseteq S, Level(l, Raw(n, pack.blocks), S)
  PROVE  Level(r.list, Raw(n, r.pack.blocks), S2)
<1>1. PICK m \in Int : \A k \in DOMAIN l :
          l[k].ssrc \in S => Raw(n, pack.blocks)[l[k].ssrc] = m + Bit(l[k].processed)
  BY DEF Level
<1>2. /\ r.list = Marked(l, M) /\ M \subseteq Waiting(l, first)
      /\ OneEach(r.pack, pack, l, M)
  BY DEF Filled
<1>3. /\ DOMAIN Marked(l, M) = DOMAIN l
      /\ \A j \in DOMAIN l : /\ Marked(l, M)[j].ssrc = l[j].ssrc
                             /\ Marked(l, M)[j].processed = (j \in M \/ l[j].processed)
  BY MarkedIs
<1>4. ASSUME NEW k \in DOMAIN l, l[k].ssrc \in S2
      PROVE  Raw(n, r.pack.blocks)[l[k].ssrc] = m + Bit(k \in M \/ l[k].processed)
  <2> DEFINE s == l[k].ssrc
  <2>1. M \subseteq DOMAIN l /\ (k \in M => ~l[k].processed)
    BY <1>2 DEF Waiting
  <2>2. s \in Member /\ Count(r.pack.blocks, s) = Count(pack.blocks, s) + Bit(k \in M)
    BY <1>2, <2>1, FillCounts
  <2>3. n[s] + Count(pack.blocks, s) = m + Bit(l[k].processed)
    BY <1>1, <1>4, <2>2 DEF Raw
  <2>4. n[s] \in Nat /\ Count(pack.blocks, s) \in Nat
    BY <2>2, CountIs DEF IsPack
  <2>5. Raw(n, r.pack.blocks)[s] = n[s] + Count(r.pack.blocks, s)
    BY <2>2 DEF Raw
  <2> HIDE DEF s
  <2>6. n[s] + Count(r.pack.blocks, s) = m + Bit(k \in M \/ l[k].processed)
    BY <2>1, <2>2, <2>3, <2>4 DEF Bit
  <2> QED
    BY <2>5, <2>6 DEF s
<1>5. \A k \in DOMAIN Marked(l, M) :
          Marked(l, M)[k].ssrc \in S2
            => Raw(n, r.pack.blocks)[Marked(l, M)[k].ssrc] = m + Bit(Marked(l, M)[k].processed)
  BY <1>3, <1>4, Zenon
<1> QED
  BY <1>2, <1>5, Zenon DEF Level

\* When all have had their turn they are level again.
LEMMA ClearedLevel ==
  ASSUME NEW l \in Seq(EntryType), NEW n, NEW S, Level(l, n, S),
         \A k \in DOMAIN l : l[k].ssrc \in S => l[k].processed
  PROVE  /\ Level(ClearAllSourceFlags(l), n, S)
         /\ InOrder(ClearAllSourceFlags(l), S)
<1> DEFINE q == ClearAllSourceFlags(l)
<1>1. PICK m \in Int : \A k \in DOMAIN l :
          l[k].ssrc \in S => n[l[k].ssrc] = m + Bit(l[k].processed)
  BY DEF Level
<1>2. /\ DOMAIN q = DOMAIN l
      /\ \A k \in DOMAIN l : q[k].ssrc = l[k].ssrc /\ ~q[k].processed
  BY ClearedIs DEF SameSources
<1> HIDE DEF q
<1>3. ASSUME NEW k \in DOMAIN q, q[k].ssrc \in S
      PROVE  n[q[k].ssrc] = m + 1 + Bit(q[k].processed)
  <2>1. n[q[k].ssrc] = m + Bit(l[k].processed) /\ l[k].processed /\ ~q[k].processed
    BY <1>1, <1>2, <1>3, Zenon
  <2> QED
    BY <2>1 DEF Bit
<1>4. m + 1 \in Int
  OBVIOUS
<1>5. Level(q, n, S)
  BY <1>3, <1>4, Zenon DEF Level
<1>6. InOrder(q, S)
  BY <1>2, Zenon DEF InOrder
<1> QED
  BY <1>5, <1>6 DEF q

\* When nobody is left waiting, the members of S have had their turn.
LEMMA AllTurned ==
  ASSUME NEW l \in Seq(EntryType), NEW first, NEW M, M = Waiting(l, first), NEW S,
         Eligible(l, first, S)
  PROVE  \A k \in DOMAIN Marked(l, M) :
            Marked(l, M)[k].ssrc \in S => Marked(l, M)[k].processed
<1>1. /\ DOMAIN Marked(l, M) = DOMAIN l
      /\ \A j \in DOMAIN l : /\ Marked(l, M)[j].ssrc = l[j].ssrc
                             /\ Marked(l, M)[j].processed = (j \in M \/ l[j].processed)
  BY MarkedIs
<1>2. \A k \in DOMAIN l : l[k].ssrc \in S => k \in M \/ l[k].processed
  BY DEF Waiting, Eligible
<1> QED
  BY <1>1, <1>2, Zenon

\* The blocks added after the SDES items are for sources that had none in
\* this packet: there are no more of them than had their turn before it, and a
\* member of S that waited is behind all of these.
LEMMA NoneTwice ==
  ASSUME NEW l \in Seq(EntryType), NEW first, NEW S, InOrder(l, S), Eligible(l, first, S),
         NEW q, SameSources(q, l), \A k \in DOMAIN l : ~q[k].processed,
         NEW r, NEW pack, NEW N, Filled(r, pack, q, first, Cardinality(Skipping(l, first)), N),
         NEW k \in Waiting(l, first), l[k].ssrc \in S, k \in N
  PROVE  FALSE
<1> DEFINE W == Waiting(q, first)
           K == Skipping(l, first)
<1>1. DOMAIN l = 1..Len(l) /\ Len(l) \in Nat /\ k \in DOMAIN l /\ ~l[k].processed
  BY DEF Waiting
<1>2. IsFiniteSet(K) /\ Cardinality(K) \in Nat /\ k \notin K
  <2>1. K \subseteq 1..Len(l) /\ k \notin K
    BY <1>1 DEF Skipping
  <2>2. IsFiniteSet(1..Len(l))
    BY <1>1, FS_Interval
  <2> HIDE DEF K
  <2> QED
    BY <2>1, <2>2, FS_Subset, FS_CardinalityType
<1>3. ASSUME NEW j \in K \cup {k} PROVE j \in Upto(W, k)
  <2>1. j \in DOMAIN l /\ ShouldProcess(l[j], first)
    BY <1>1, <1>3 DEF Skipping, Waiting
  <2>2. j \in W
    BY <2>1, Zenon DEF Waiting, SameSources, ShouldProcess
  <2>3. ~(k < j)
    <3>1. CASE j = k
      BY <1>1, <3>1
    <3>2. CASE j # k
      <4>1. l[j].processed
        BY <1>3, <3>2 DEF Skipping
      <4> QED
        BY <1>1, <2>1, <4>1 DEF InOrder
    <3> QED
      BY <3>1, <3>2
  <2>4. j <= k
    BY <1>1, <2>1, <2>3
  <2> QED
    BY <2>2, <2>4 DEF Upto
<1>4. K \cup {k} \subseteq N
  BY <1>3, Zenon DEF Filled
<1>5. IsFiniteSet(N) /\ Cardinality(N) <= Cardinality(K) /\ Cardinality(N) \in Nat
  BY FS_CardinalityType DEF Filled
<1> HIDE DEF K, W
<1>6. Cardinality(K \cup {k}) = Cardinality(K) + 1
  BY <1>2, FS_AddElement
<1>7. Cardinality(K \cup {k}) <= Cardinality(N)
  BY <1>4, <1>5, FS_Subset
<1> QED
  BY <1>2, <1>5, <1>6, <1>7

-----------------------------------------------------------------------------
(* The next packet.                                                         *)

\* The packet that a new one starts with has no report blocks.
LEMMA StartIs ==
  ASSUME NEW max, NEW sr, StartPacket(max, sr) # <<>>
  PROVE  IsPack(StartPacket(max, sr)[1]) /\ StartPacket(max, sr)[1].blocks = <<>>
<1> DEFINE p0 == Inited(max)
           p1 == WithReport(p0, Own, sr)
           p2 == WithSource(p1, Own)
           p3 == AddItem(p2, CnameItem)
<1>1. StartPacket(max, sr) = <<p3>>
  BY Zenon DEF StartPacket
<1>2. "blocks" \in DOMAIN p0 /\ p0.blocks = <<>>
  BY DEF Inited, Empty
<1> HIDE DEF p0
<1>3. "blocks" \in DOMAIN p1 /\ p1.blocks = <<>>
  BY <1>2 DEF WithReport
<1> HIDE DEF p1
<1>4. "blocks" \in DOMAIN p2 /\ p2.blocks = <<>>
  BY <1>3 DEF WithSource
<1> HIDE DEF p2
<1>5. "blocks" \in DOMAIN p3 /\ p3.blocks = <<>>
  BY <1>4 DEF AddItem
<1> HIDE DEF p3
<1>6. StartPacket(max, sr)[1] = p3 /\ <<>> \in Seq(Member)
  BY <1>1
<1> QED
  BY <1>5, <1>6 DEF IsPack

\* What a packet does for the members of S: flags and blocks go on in step, and
\* no member gets two blocks.
FairBlocks(pack, q, S) ==
    /\ IsPack(pack) /\ SameSources(q, list)
    /\ InOrder(q, S) /\ Level(q, Raw(reported, pack.blocks), S)
    /\ \A s \in S : Count(pack.blocks, s) <= 1

\* The state before a packet, and the members that are heard before it.
Before(S) ==
    /\ ReportTypes /\ Proper(list)
    /\ S \subseteq steady /\ Contained(list, S)
    /\ InOrder(list, steady) /\ Level(list, reported, steady)
    /\ Eligible(list, builder.firstpacket, S)
    /\ builder.init

\* A builder that is initialised.
LEMMA RunningIs ==
  ASSUME builder \in RunningBuilder \cup IdleBuilder, builder.init
  PROVE  builder \in RunningBuilder
<1>1. \A b \in IdleBuilder : ~b.init
  BY DEF IdleBuilder
<1> QED
  BY <1>1

\* The types before a packet.
LEMMA BeforeIs ==
  ASSUME NEW S, Before(S)
  PROVE  /\ list \in Seq(EntryType) /\ Proper(list)
         /\ Len(list) \in Nat /\ DOMAIN list = 1..Len(list)
         /\ Len(list) + 1 \in Nat \ {0} /\ Len(list) + 1 # 0
         /\ builder \in RunningBuilder /\ builder.firstpacket \in BOOLEAN
         /\ builder.due \in SUBSET SdesIds /\ builder.count \in Int
<1>1. builder \in RunningBuilder
  BY RunningIs DEF Before, ReportTypes
<1>2. /\ builder.firstpacket \in BOOLEAN
      /\ builder.due \in SUBSET SdesIds /\ builder.count \in Int
  BY <1>1 DEF RunningBuilder
<1>3. list \in Seq(EntryType) /\ Proper(list)
  BY DEF Before, ReportTypes
<1>4. Len(list) \in Nat /\ DOMAIN list = 1..Len(list)
  BY <1>3
<1> QED
  BY <1>1, <1>2, <1>3, <1>4

\* Without blocks nothing changes.
LEMMA NoBlocks ==
  ASSUME NEW S, Before(S), NEW pack, IsPack(pack), pack.blocks = <<>>
  PROVE  /\ FairBlocks(pack, list, S)
         /\ Level(list, Raw(reported, pack.blocks), steady)
<1>1. list \in Seq(EntryType) /\ reported \in [Member -> Nat] /\ S \subseteq steady
  BY DEF Before, ReportTypes
<1>2. Raw(reported, pack.blocks) = reported
  <2>1. \A s \in Member : reported[s] + Count(pack.blocks, s) = reported[s]
    BY <1>1, CountIs
  <2>2. Raw(reported, pack.blocks) = [s \in Member |-> reported[s]]
    BY <2>1, Zenon DEF Raw
  <2>3. reported = [s \in Member |-> reported[s]]
    BY <1>1
  <2> QED
    BY <2>2, <2>3, Zenon
<1>3. Level(list, Raw(reported, pack.blocks), steady)
  BY <1>2 DEF Before
<1>4. InOrder(list, S) /\ Level(list, Raw(reported, pack.blocks), S)
  BY <1>1, <1>2, Zenon DEF Before, InOrder, Level
<1>5. \A s \in S : Count(pack.blocks, s) <= 1
  BY CountIs
<1>6. SameSources(list, list)
  BY <1>1 DEF SameSources
<1> QED
  BY <1>3, <1>4, <1>5, <1>6 DEF FairBlocks

\* The first blocks of a packet.
LEMMA FirstBlocks ==
  ASSUME NEW S, Before(S), NEW pack, IsPack(pack), pack.blocks = <<>>,
         NEW r, NEW maxcount, NEW M,
         Filled(r, pack, list, builder.firstpacket, maxcount, M)
  PROVE  FairBlocks(r.pack, r.list, S)
<1>1. /\ list \in Seq(EntryType) /\ reported \in [Member -> Nat] /\ S \subseteq steady
      /\ Proper(list) /\ InOrder(list, steady) /\ Eligible(list, builder.firstpacket, S)
      /\ Contained(list, S)
  BY DEF Before, ReportTypes
<1>2. Level(list, Raw(reported, pack.blocks), steady)
  BY NoBlocks
<1>3. InOrder(r.list, S)
  BY <1>1, FillInOrder
<1>4. Level(r.list, Raw(reported, r.pack.blocks), S)
  BY <1>1, <1>2, FillLevel
<1>5. SameSources(r.list, list)
  BY <1>1, MarkedSame DEF Filled
<1>6. ASSUME NEW s \in S PROVE Count(r.pack.blocks, s) <= 1
  <2>1. PICK k \in DOMAIN list : list[k].ssrc = s
    BY <1>1 DEF Contained
  <2>2. M \subseteq DOMAIN list /\ OneEach(r.pack, pack, list, M)
    BY DEF Filled, Waiting
  <2>3. Count(r.pack.blocks, s) = Count(<<>>, s) + Bit(k \in M)
    BY <1>1, <2>1, <2>2, FillCounts
  <2>4. Count(<<>>, s) = 0
    BY CountIs
  <2> QED
    BY <2>3, <2>4 DEF Bit
<1> QED
  BY <1>3, <1>4, <1>5, <1>6 DEF FairBlocks, Filled, OneEach

\* All members of S have had their turn: the flags are cleared.
LEMMA TurnedOver ==
  ASSUME NEW S, Before(S), NEW pack, NEW M, M = Waiting(list, builder.firstpacket),
         FairBlocks(pack, Marked(list, M), S)
  PROVE  FairBlocks(pack, ClearAllSourceFlags(Marked(list, M)), S)
<1>1. /\ list \in Seq(EntryType) /\ Eligible(list, builder.firstpacket, S)
  BY DEF Before, ReportTypes
<1> DEFINE q == Marked(list, M)
<1>2. q \in Seq(EntryType)
  BY <1>1, MarkedIs
<1>3. \A k \in DOMAIN q : q[k].ssrc \in S => q[k].processed
  BY <1>1, AllTurned
<1>4. Level(q, Raw(reported, pack.blocks), S) /\ SameSources(q, list)
  BY DEF FairBlocks
<1> HIDE DEF q
<1>5. SameSources(ClearAllSourceFlags(q), q)
  BY <1>2, ClearedIs
<1>6. SameSources(ClearAllSourceFlags(q), list)
  BY <1>1, <1>4, <1>5, SameIs
<1>7. /\ Level(ClearAllSourceFlags(q), Raw(reported, pack.blocks), S)
      /\ InOrder(ClearAllSourceFlags(q), S)
  BY <1>2, <1>3, <1>4, ClearedLevel
<1> QED
  BY <1>6, <1>7 DEF FairBlocks, q

\* The blocks after the SDES items, when a round of reports is over.
LEMMA SecondBlocks ==
  ASSUME NEW S, Before(S), NEW start, IsPack(start), start.blocks = <<>>,
         NEW r, NEW maxcount, NEW M,
         Filled(r, start, list, builder.firstpacket, maxcount, M),
         M = Waiting(list, builder.firstpacket),
         NEW pack, IsPack(pack), pack.blocks = r.pack.blocks,
         NEW t, NEW N,
         Filled(t, pack, ClearAllSourceFlags(r.list), builder.firstpacket,
                Cardinality(Skipping(list, builder.firstpacket)), N)
  PROVE  FairBlocks(t.pack, t.list, S)
<1> DEFINE first == builder.firstpacket
           q == ClearAllSourceFlags(r.list)
<1>1. /\ list \in Seq(EntryType) /\ reported \in [Member -> Nat] /\ S \subseteq steady
      /\ Proper(list) /\ InOrder(list, steady) /\ Eligible(list, first, S)
      /\ Contained(list, S)
  BY DEF Before, ReportTypes
<1>2. r.list = Marked(list, M) /\ OneEach(r.pack, start, list, M) /\ M \subseteq DOMAIN list
  BY DEF Filled, Waiting
<1>3. FairBlocks(r.pack, q, S)
  <2>1. FairBlocks(r.pack, Marked(list, M), S)
    BY <1>2, FirstBlocks
  <2> QED
    BY <1>2, <2>1, TurnedOver
<1>4. /\ SameSources(q, list) /\ InOrder(q, S) /\ q \in Seq(EntryType)
      /\ Level(q, Raw(reported, pack.blocks), S)
  BY <1>3 DEF FairBlocks, SameSources
<1>5. Proper(q) /\ Eligible(q, first, S)
  BY <1>1, <1>4, SameIs
<1>6. \A k \in DOMAIN list : ~q[k].processed
  <2>1. Marked(list, M) \in Seq(EntryType) /\ DOMAIN Marked(list, M) = DOMAIN list
    BY <1>1, MarkedIs
  <2> QED
    BY <1>2, <2>1, ClearedIs
<1> HIDE DEF q
<1>7. Filled(t, pack, q, first, Cardinality(Skipping(list, first)), N)
  BY DEF q
<1>8. InOrder(t.list, S)
  BY <1>4, <1>5, <1>7, FillInOrder
<1>9. Level(t.list, Raw(reported, t.pack.blocks), S)
  <2>1. S \subseteq S /\ IsPack(pack)
    OBVIOUS
  <2> QED
    BY ONLY <1>1, <1>4, <1>5, <1>7, <2>1, FillLevel, ZenonT(60)
<1>10. SameSources(t.list, list)
  <2>1. SameSources(t.list, q)
    BY <1>4, <1>7, MarkedSame DEF Filled
  <2> QED
    BY <1>1, <1>4, <2>1, SameIs
<1>11. N \subseteq DOMAIN q /\ OneEach(t.pack, pack, q, N)
  BY <1>7 DEF Filled, Waiting
<1>12. ASSUME NEW s \in S PROVE Count(t.pack.blocks, s) <= 1
  <2>1. PICK k \in DOMAIN list : list[k].ssrc = s
    BY <1>1, <1>12 DEF Contained
  <2>2. k \in DOMAIN q /\ q[k].ssrc = s
    BY <1>4, <2>1 DEF SameSources
  <2>3. Count(t.pack.blocks, s) = Count(pack.blocks, s) + Bit(k \in N)
    BY <1>4, <1>5, <1>11, <2>2, FillCounts
  <2>4. Count(r.pack.blocks, s) = Count(<<>>, s) + Bit(k \in M)
    BY <1>1, <1>2, <2>1, FillCounts
  <2>5. Count(<<>>, s) = 0
    BY CountIs
  <2>6. ~(k \in M /\ k \in N)
    <3>1. ASSUME k \in M, k \in N PROVE FALSE
      <4>1. InOrder(list, S)
        BY <1>1, Zenon DEF InOrder
      <4>2. k \in Waiting(list, first) /\ list[k].ssrc \in S
        BY <1>12, <2>1, <3>1
      <4> QED
        BY <1>1, <1>4, <1>6, <1>7, <3>1, <4>1, <4>2, NoneTwice
    <3> QED
      BY <3>1
  <2>7. pack.blocks = r.pack.blocks
    OBVIOUS
  <2> QED
    BY <2>3, <2>4, <2>5, <2>6, <2>7 DEF Bit
<1> QED
  BY <1>8, <1>9, <1>10, <1>11, <1>12 DEF FairBlocks, OneEach

\* The items of the packet r and what becomes of the round.
RoundGoesOn(r) ==
    /\ r.builder \in RunningBuilder
    /\ r.items \in Seq(SdesIds) /\ IsInjective(r.items)
    /\ ToSet(r.items) \subseteq r.builder.due \ builder.done
    /\ r.newround \in BOOLEAN
    /\ r.newround \/ builder.processing =>
          /\ ~r.builder.processing => ToSet(r.items) = r.builder.due \ builder.done
          /\ r.builder.processing => r.builder.done = builder.done \cup ToSet(r.items)
    /\ ~r.newround => r.builder.due = builder.due
    /\ ~r.newround /\ ~builder.processing => r.items = <<>> /\ r.builder = builder

Follows(r, end) == RoundGoesOn(r) /\ r.pack = end.pack /\ r.list = end.list

\* What Result says of the round.
LEMMA ResultIs ==
  ASSUME builder \in RunningBuilder, NEW s, NEW end, NEW count \in Int,
         NEW todo \in SUBSET SdesIds, NEW pack, ItemsSent(s, pack, todo, builder.done)
  PROVE  /\ Follows(Result(s, end, count, todo, TRUE), end)
         /\ todo = builder.due /\ builder.processing
              => Follows(Result(s, end, count, todo, FALSE), end)
<1> DEFINE r == Result(s, end, count, todo, TRUE)
           p == Result(s, end, count, todo, FALSE)
           b == [builder EXCEPT !.processing = s.full, !.count = count, !.due = todo,
                                !.done = IF s.full THEN s.done ELSE {}]
<1>1. /\ r.pack = end.pack /\ r.list = end.list /\ r.builder = b /\ r.items = s.items
      /\ r.newround = TRUE
      /\ p.pack = end.pack /\ p.list = end.list /\ p.builder = b /\ p.items = s.items
      /\ p.newround = FALSE
  BY Zenon DEF Result
<1>2. /\ s.full \in BOOLEAN /\ s.items \in Seq(SdesIds) /\ IsInjective(s.items)
      /\ s.done = builder.done \cup ToSet(s.items)
      /\ ToSet(s.items) \subseteq todo \ builder.done
      /\ ~s.full => ToSet(s.items) = todo \ builder.done
  BY DEF ItemsSent
<1>3. (IF s.full THEN s.done ELSE {}) \in SUBSET SdesIds
  <2>1. builder.done \in SUBSET SdesIds
    BY DEF RunningBuilder
  <2> QED
    BY <1>2, <2>1, Zenon
<1>4. /\ b \in RunningBuilder /\ b.processing = s.full /\ b.due = todo
      /\ b.done = IF s.full THEN s.done ELSE {}
  BY <1>2, <1>3 DEF RunningBuilder
<1> HIDE DEF r, b, p
<1>5. Follows(r, end)
  BY <1>1, <1>2, <1>4, Zenon DEF RoundGoesOn, Follows
<1>6. ASSUME todo = builder.due, builder.processing PROVE Follows(p, end)
  BY <1>1, <1>2, <1>4, <1>6, Zenon DEF RoundGoesOn, Follows
<1> QED
  BY <1>5, <1>6 DEF r, p

\* The packet of a session without a round of items under way.
LEMMA ReportsFirst ==
  ASSUME NEW S, Before(S), ~builder.processing, NEW start, IsPack(start),
         start.blocks = <<>>, BuildReports(start).ok
  PROVE  LET r == BuildReports(start)
         IN  FairBlocks(r.pack, r.list, S) /\ RoundGoesOn(r)
<1> DEFINE first == builder.firstpacket
           most == Len(list) + 1
           u == FillInReportBlocks(start, list, first, most)
           out == AfterReports(u)
<1>1. /\ list \in Seq(EntryType) /\ Proper(list) /\ first \in BOOLEAN
      /\ most \in Nat \ {0} /\ Len(list) \in Nat /\ DOMAIN list = 1..Len(list)
      /\ builder \in RunningBuilder
  BY BeforeIs
<1>2. PICK M : Filled(u, start, list, first, most, M)
  <2> HIDE DEF first, most
  <2> QED
    BY <1>1, FillIs
<1>3. BuildReports(start) = out
  BY Zenon DEF BuildReports
<1> HIDE DEF u
<1>4. CASE u.full
  <2>1. /\ out.pack = u.pack /\ out.list = u.list /\ out.builder = builder
        /\ out.items = <<>> /\ out.newround = FALSE
    <3>1. out = IF u.added = 0 THEN NoResult
                ELSE [ok |-> TRUE, pack |-> u.pack, list |-> u.list, builder |-> builder,
                      items |-> <<>>, newround |-> FALSE]
      BY <1>4, Zenon DEF AfterReports
    <3>2. out # NoResult
      BY <1>3 DEF NoResult
    <3> QED
      BY <3>1, <3>2
  <2>2. FairBlocks(u.pack, u.list, S)
    BY <1>2, FirstBlocks
  <2>3. RoundGoesOn(out)
    <3>1. ToSet(<<>>) = {} /\ IsInjective(<<>>) /\ <<>> \in Seq(SdesIds)
      BY DEF ToSet, IsInjective
    <3> HIDE DEF out
    <3> QED
      BY <1>1, <2>1, <3>1, Zenon DEF RoundGoesOn
  <2> HIDE DEF out
  <2> QED
    BY <1>3, <2>1, <2>2, <2>3
<1>5. CASE ~u.full
  <2> DEFINE count == (builder.count + 1) % CountCycle
             todo == {i \in SdesIds : builder.interval[i] > 0 /\ count % builder.interval[i] = 0}
             s == FillInSDES(u.pack, todo, builder.done)
             q == ClearAllSourceFlags(u.list)
             t == FillInReportBlocks(s.pack, q, first, u.skipped)
             end == AfterItems(s, t, q, u.skipped, FALSE)
  <2>1. out = Result(s, end, count, todo, TRUE)
    BY <1>5, Zenon DEF AfterReports, ItemsAfterReports
  <2>2. M = Waiting(list, first) /\ u.skipped = Cardinality(Skipping(list, first))
    <3>1. Cardinality(M) < most
      <4>1. M \subseteq 1..Len(list)
        BY <1>1, <1>2 DEF Filled, Waiting
      <4>2. IsFiniteSet(1..Len(list)) /\ Cardinality(1..Len(list)) = Len(list)
        <5>1. /\ IsFiniteSet(1..Len(list))
              /\ Cardinality(1..Len(list)) = IF 1 > Len(list) THEN 0 ELSE Len(list) - 1 + 1
          <6>1. 1 \in Int /\ Len(list) \in Int
            BY <1>1
          <6> QED
            BY <6>1, FS_Interval, Zenon
        <5> QED
          BY <1>1, <5>1
      <4>3. Cardinality(M) <= Len(list) /\ Cardinality(M) \in Nat
        BY <4>1, <4>2, FS_Subset, FS_CardinalityType
      <4> QED
        BY <1>1, <4>3
    <3> HIDE DEF most, first
    <3> QED
      BY <1>2, <1>5, <3>1 DEF Filled
  <2>3. IsPack(u.pack) /\ u.list = Marked(list, M)
    BY <1>2 DEF Filled, OneEach
  <2>4. ItemsSent(s, u.pack, todo, builder.done)
    <3>1. todo \in SUBSET SdesIds
      OBVIOUS
    <3> HIDE DEF todo
    <3> QED
      BY <2>3, <3>1, ItemsAre
  <2>5. RoundGoesOn(out) /\ out.pack = end.pack /\ out.list = end.list
    <3>1. todo \in SUBSET SdesIds
      OBVIOUS
    <3>2. count \in Int
      <4>1. builder.count \in Int
        BY <1>1 DEF RunningBuilder
      <4> QED
        BY <4>1, SdesAssumption
    <3> HIDE DEF todo, count, s, end, out
    <3>3. Follows(out, end)
      BY <1>1, <2>1, <2>4, <3>1, <3>2, ResultIs
    <3> QED
      BY <3>3 DEF Follows
  <2> HIDE DEF out, todo, count, s
  <2>6. IsPack(s.pack) /\ s.pack.blocks = u.pack.blocks
    BY <2>4 DEF ItemsSent
  <2>7. FairBlocks(u.pack, u.list, S)
    BY <1>2, FirstBlocks
  <2>8. FairBlocks(u.pack, q, S)
    BY <2>2, <2>3, <2>7, TurnedOver
  <2>9. CASE s.full \/ u.skipped = 0
    <3>1. end.pack = s.pack /\ end.list = q
      BY <2>9 DEF AfterItems
    <3>2. FairBlocks(s.pack, q, S)
      BY <2>6, <2>8, Zenon DEF FairBlocks
    <3> HIDE DEF end, q
    <3> QED
      BY <1>3, <2>5, <3>1, <3>2
  <2>10. CASE ~(s.full \/ u.skipped = 0)
    <3>1. end.pack = t.pack /\ end.list = t.list
      BY <2>10 DEF AfterItems
    <3>2. q \in Seq(EntryType) /\ Proper(q)
      BY <1>1, <2>8, SameIs DEF FairBlocks, SameSources
    <3>3. u.skipped \in Nat \ {0}
      <4>1. Skipping(list, first) \subseteq 1..Len(list)
        BY <1>1 DEF Skipping
      <4>2. IsFiniteSet(1..Len(list))
        BY <1>1, FS_Interval
      <4>3. Cardinality(Skipping(list, first)) \in Nat
        BY <4>1, <4>2, FS_Subset, FS_CardinalityType
      <4> QED
        BY <2>2, <2>10, <4>3
    <3>4. PICK N : Filled(t, s.pack, q, first, u.skipped, N)
      <4> HIDE DEF q, first
      <4> QED
        BY <1>1, <2>6, <3>2, <3>3, FillIs
    <3> HIDE DEF t
    <3>5. FairBlocks(t.pack, t.list, S)
      BY <1>2, <2>2, <2>6, <3>4, SecondBlocks
    <3> HIDE DEF end, q
    <3> QED
      BY <1>3, <2>5, <3>1, <3>5
  <2> QED
    BY <2>9, <2>10
<1> QED
  BY <1>4, <1>5

\* The packet that goes on with the items.
LEMMA ItemsGoOn ==
  ASSUME NEW S, Before(S), builder.processing, NEW start, IsPack(start),
         start.blocks = <<>>, BuildItems(start).ok
  PROVE  LET r == BuildItems(start)
         IN  FairBlocks(r.pack, r.list, S) /\ RoundGoesOn(r)
<1> DEFINE first == builder.firstpacket
           most == Len(list) + 1
           s == FillInSDES(start, builder.due, builder.done)
           t == FillInReportBlocks(s.pack, list, first, most)
           end == AfterItems(s, t, list, most, TRUE)
           out == ItemsFirst(s)
<1>1. /\ list \in Seq(EntryType) /\ Proper(list) /\ first \in BOOLEAN
      /\ most \in Nat \ {0} /\ most # 0 /\ Len(list) \in Nat
      /\ builder \in RunningBuilder /\ builder.due \in SUBSET SdesIds /\ builder.count \in Int
  BY BeforeIs
<1>2. BuildItems(start) = out
  BY Zenon DEF BuildItems
<1>3. out = Result(s, end, builder.count, builder.due, FALSE)
  <2>1. out # NoResult
    BY <1>2 DEF NoResult
  <2> QED
    BY <2>1, Zenon DEF ItemsFirst
<1>4. ItemsSent(s, start, builder.due, builder.done)
  BY <1>1, ItemsAre
<1> HIDE DEF s, out
<1>5. RoundGoesOn(out) /\ out.pack = end.pack /\ out.list = end.list
  <2> HIDE DEF end
  <2>1. Follows(out, end)
    BY <1>1, <1>3, <1>4, ResultIs
  <2> QED
    BY <2>1 DEF Follows
<1>6. IsPack(s.pack) /\ s.pack.blocks = <<>>
  BY <1>4 DEF ItemsSent
<1>7. CASE s.full
  <2>1. end.pack = s.pack /\ end.list = list
    BY <1>7 DEF AfterItems
  <2>2. FairBlocks(s.pack, list, S)
    BY <1>6, NoBlocks
  <2> HIDE DEF end
  <2> QED
    BY <1>2, <1>5, <2>1, <2>2
<1>8. CASE ~s.full
  <2>1. /\ end.pack = t.pack
        /\ end.list = IF t.atend THEN ClearAllSourceFlags(t.list) ELSE t.list
    BY <1>1, <1>8, Zenon DEF AfterItems
  <2>2. PICK M : Filled(t, s.pack, list, first, most, M)
    <3> HIDE DEF first, most
    <3> QED
      BY <1>1, <1>6, FillIs
  <2> HIDE DEF t, end
  <2>3. FairBlocks(t.pack, t.list, S)
    BY <1>6, <2>2, FirstBlocks
  <2>4. t.atend => FairBlocks(t.pack, ClearAllSourceFlags(t.list), S)
    <3>1. t.list = Marked(list, M) /\ (t.atend => M = Waiting(list, first))
      BY <2>2 DEF Filled
    <3> QED
      BY <2>3, <3>1, TurnedOver
  <2> QED
    BY <1>2, <1>5, <2>1, <2>3, <2>4
<1> QED
  BY <1>7, <1>8

\* The report and its items together: a packet of NextPacket has fair blocks.
LEMMA NextPacketIs ==
  ASSUME NEW S, Before(S), NEW start, NextPacket(start).ok,
         start # <<>> => IsPack(start[1]) /\ start[1].blocks = <<>>
  PROVE  LET r == NextPacket(start)
         IN  FairBlocks(r.pack, r.list, S) /\ RoundGoesOn(r)
<1>1. start # <<>>
  BY DEF NextPacket, NoResult
<1>2. CASE builder.processing
  <2>1. NextPacket(start) = BuildItems(start[1])
    BY <1>1, <1>2, Zenon DEF NextPacket
  <2> QED
    BY <1>1, <1>2, <2>1, ItemsGoOn
<1>3. CASE ~builder.processing
  <2>1. NextPacket(start) = BuildReports(start[1])
    BY <1>1, <1>3, Zenon DEF NextPacket
  <2> QED
    BY <1>1, <1>3, <2>1, ReportsFirst
<1> QED
  BY <1>2, <1>3

-----------------------------------------------------------------------------
(* The operations keep the invariant.                                       *)

\* One sequence behind another.
LEMMA JoinedIs ==
  ASSUME NEW X, NEW s \in Seq(X), NEW t \in Seq(X)
  PROVE  /\ s \o t \in Seq(X) /\ ToSet(s \o t) = ToSet(s) \cup ToSet(t)
         /\ IsInjective(s) /\ IsInjective(t) /\ ToSet(s) \cap ToSet(t) = {}
              => IsInjective(s \o t)
<1> DEFINE u == s \o t
<1>1. /\ u \in Seq(X) /\ Len(s) \in Nat /\ Len(t) \in Nat
      /\ DOMAIN s = 1..Len(s) /\ DOMAIN t = 1..Len(t) /\ DOMAIN u = 1..Len(s) + Len(t)
      /\ \A k \in 1..Len(s) + Len(t) : u[k] = IF k <= Len(s) THEN s[k] ELSE t[k - Len(s)]
  OBVIOUS
<1> HIDE DEF u
<1>2. \A k \in DOMAIN u : \/ k \in DOMAIN s /\ u[k] = s[k]
                          \/ k - Len(s) \in DOMAIN t /\ u[k] = t[k - Len(s)] /\ ~(k <= Len(s))
  BY <1>1
<1>3. \A k \in DOMAIN s : k \in DOMAIN u /\ u[k] = s[k]
  BY <1>1
<1>4. \A k \in DOMAIN t : Len(s) + k \in DOMAIN u /\ u[Len(s) + k] = t[k]
  BY <1>1
<1>5. ToSet(u) = ToSet(s) \cup ToSet(t)
  <2>1. \A k \in DOMAIN u : u[k] \in ToSet(s) \cup ToSet(t)
    BY <1>2, Zenon DEF ToSet
  <2>2. \A k \in DOMAIN s : s[k] \in ToSet(u)
    BY <1>3, Zenon DEF ToSet
  <2>3. \A k \in DOMAIN t : t[k] \in ToSet(u)
    BY <1>4, Zenon DEF ToSet
  <2>4. ASSUME NEW y \in ToSet(u) PROVE y \in ToSet(s) \cup ToSet(t)
    <3>1. PICK k \in DOMAIN u : y = u[k]
      BY <2>4 DEF ToSet
    <3> QED
      BY <2>1, <3>1
  <2>5. ASSUME NEW y \in ToSet(s) PROVE y \in ToSet(u)
    <3>1. PICK k \in DOMAIN s : y = s[k]
      BY <2>5 DEF ToSet
    <3> QED
      BY <2>2, <3>1
  <2>6. ASSUME NEW y \in ToSet(t) PROVE y \in ToSet(u)
    <3>1. PICK k \in DOMAIN t : y = t[k]
      BY <2>6 DEF ToSet
    <3> QED
      BY <2>3, <3>1
  <2> QED
    BY <2>4, <2>5, <2>6
<1>6. ASSUME IsInjective(s), IsInjective(t), ToSet(s) \cap ToSet(t) = {}
      PROVE  IsInjective(u)
  <2>1. ASSUME NEW j \in DOMAIN u, NEW k \in DOMAIN u, u[j] = u[k] PROVE j = k
    <3>1. \A x, y : s[x] = t[y] => x \notin DOMAIN s \/ y \notin DOMAIN t
      BY <1>6, Zenon DEF ToSet
    <3>2. CASE j \in DOMAIN s /\ k \in DOMAIN s
      BY <1>3, <1>6, <2>1, <3>2 DEF IsInjective
    <3>3. CASE j - Len(s) \in DOMAIN t /\ k - Len(s) \in DOMAIN t
               /\ u[j] = t[j - Len(s)] /\ u[k] = t[k - Len(s)]
      <4>1. j - Len(s) = k - Len(s)
        BY <1>6, <2>1, <3>3 DEF IsInjective
      <4> QED
        BY <1>1, <4>1
    <3> QED
      BY <1>2, <1>3, <2>1, <3>1, <3>2, <3>3
  <2> QED
    BY <2>1 DEF IsInjective
<1> QED
  BY <1>1, <1>5, <1>6 DEF u

\* Of the numbers of blocks only the differences are kept: 0 and 1.
LEMMA ReportedIs ==
  ASSUME reported \in [Member -> Nat], NEW b \in Seq(Member), NEW S, S \subseteq Member,
         NEW q, Contained(q, S), Level(q, Raw(reported, b), S)
  PROVE  /\ Reported(b, S) \in [Member -> Nat]
         /\ Level(q, Reported(b, S), S)
         /\ \A s \in S : Reported(b, S)[s] <= 1
<1> DEFINE n == Raw(reported, b)
           V == {n[s] : s \in S}
           least == CHOOSE m \in V : \A s \in S : m <= n[s]
           new == Reported(b, S)
<1>1. \A s \in Member : n[s] \in Nat
  BY CountIs DEF Raw
<1>2. new = [s \in Member |-> IF s \in S THEN n[s] - least ELSE 0]
  BY Zenon DEF Reported, Raw
<1> HIDE DEF n
<1>3. S # {} => least \in V /\ \A s \in S : least <= n[s]
  <2>1. V \in SUBSET Nat
    BY <1>1
  <2>2. ASSUME S # {} PROVE \E m \in V : \A s \in S : m <= n[s]
    <3>1. V # {}
      BY <2>2
    <3>2. PICK m \in V : \A v \in V : m <= v
      <4> HIDE DEF V
      <4> QED
        BY <2>1, <3>1, LeastNat
    <3> QED
      BY <3>2
  <2> HIDE DEF V
  <2> QED
    BY <2>2, Zenon
<1> HIDE DEF least, new
<1>4. ASSUME NEW s \in S PROVE n[s] \in Nat /\ least \in Nat /\ least <= n[s]
  BY <1>1, <1>3
<1>5. new \in [Member -> Nat]
  <2>1. \A s \in Member : (IF s \in S THEN n[s] - least ELSE 0) \in Nat
    BY <1>4
  <2> QED
    BY <1>2, <2>1
<1>6. PICK m \in Int : \A k \in DOMAIN q :
          q[k].ssrc \in S => n[q[k].ssrc] = m + Bit(q[k].processed)
  BY DEF Level, n
<1>7. ASSUME NEW s \in S PROVE n[s] \in {m, m + 1}
  <2>1. PICK k \in DOMAIN q : q[k].ssrc = s
    BY DEF Contained
  <2>2. n[s] = m + Bit(q[k].processed)
    BY <1>6, <2>1
  <2> QED
    BY <2>2 DEF Bit
<1>8. ASSUME NEW s \in S PROVE new[s] = n[s] - least /\ new[s] <= 1
  <2>1. new[s] = n[s] - least
    BY <1>2
  <2>2. least \in {m, m + 1}
    BY <1>3, <1>7
  <2>3. n[s] \in {m, m + 1}
    BY <1>7
  <2> QED
    BY <2>1, <2>2, <2>3
<1>9. Level(q, new, S)
  <2>1. CASE S = {}
    BY <1>6, <2>1 DEF Level
  <2>2. CASE S # {}
    <3>1. least \in Int
      BY <1>4, <2>2
    <3>2. ASSUME NEW k \in DOMAIN q, q[k].ssrc \in S
          PROVE  new[q[k].ssrc] = (m - least) + Bit(q[k].processed)
      <4>1. new[q[k].ssrc] = n[q[k].ssrc] - least /\ n[q[k].ssrc] = m + Bit(q[k].processed)
        BY <1>6, <1>8, <3>2
      <4>2. Bit(q[k].processed) \in Int
        BY DEF Bit
      <4> QED
        BY <3>1, <4>1, <4>2
    <3>3. m - least \in Int
      BY <3>1
    <3> QED
      BY <3>2, <3>3 DEF Level
  <2> QED
    BY <2>1, <2>2
<1> QED
  BY <1>5, <1>8, <1>9 DEF new

\* The list when no source is fresh any more.
LEMMA StaleIs ==
  ASSUME NEW q \in Seq(EntryType)
  PROVE  LET p == [k \in DOMAIN q |-> [q[k] EXCEPT !.fresh = FALSE]]
         IN  /\ p \in Seq(EntryType) /\ DOMAIN p = DOMAIN q
             /\ \A k \in DOMAIN q : /\ p[k].ssrc = q[k].ssrc /\ p[k].csrc = q[k].csrc
                                    /\ p[k].processed = q[k].processed /\ ~p[k].fresh
<1> DEFINE p == [k \in DOMAIN q |-> [q[k] EXCEPT !.fresh = FALSE]]
<1>1. DOMAIN q = 1..Len(q) /\ Len(q) \in Nat /\ \A j \in DOMAIN q : q[j] \in EntryType
  OBVIOUS
<1>2. ASSUME NEW j \in DOMAIN q
      PROVE  LET e == [q[j] EXCEPT !.fresh = FALSE]
             IN  /\ e \in EntryType
                 /\ e.ssrc = q[j].ssrc /\ e.csrc = q[j].csrc
                 /\ e.processed = q[j].processed /\ e.fresh = FALSE
  BY <1>1 DEF EntryType
<1>3. p \in [1..Len(q) -> EntryType]
  BY <1>1, <1>2
<1>4. p \in Seq(EntryType)
  BY <1>1, <1>3
<1> QED
  BY <1>1, <1>2, <1>4

\* The members heard before a packet are reported on.
LEMMA HeardBefore ==
  ASSUME ReportsInv, builder.init
  PROVE  Before({s \in steady : \E k \in DOMAIN list : list[k].ssrc = s /\ list[k].fresh})
<1> DEFINE S == {s \in steady : \E k \in DOMAIN list : list[k].ssrc = s /\ list[k].fresh}
<1>1. /\ ReportTypes /\ Proper(list) /\ Contained(list, steady)
      /\ InOrder(list, steady) /\ Level(list, reported, steady)
  BY DEF ReportsInv, TurnsInv
<1>2. S \subseteq steady /\ Contained(list, S)
  BY <1>1 DEF Contained
<1>3. ASSUME NEW k \in DOMAIN list, list[k].ssrc \in S
      PROVE  ShouldProcess(list[k], builder.firstpacket)
  <2>1. list[k].fresh
    BY <1>1, <1>3, Zenon DEF Proper
  <2>2. list[k].sentdata
    BY <1>1, <2>1 DEF Proper
  <2>3. ~list[k].csrc
    BY <1>1, <1>2, <1>3, Zenon DEF Contained, Proper
  <2> QED
    BY <2>1, <2>2, <2>3 DEF ShouldProcess
<1> QED
  BY <1>1, <1>2, <1>3 DEF Before, Eligible

\* A packet.
LEMMA PacketKeeps ==
  ASSUME ReportsInv, BuildNextPacket
  PROVE  ReportsInv'
<1> DEFINE S == {s \in steady : \E k \in DOMAIN list : list[k].ssrc = s /\ list[k].fresh}
           start == StartPacket(builder.max, ownsender)
<1>1. PICK r \in {NextPacket(start)} :
        /\ builder.init /\ r.ok
        /\ comp' = Ended(r.pack)
        /\ list' = [k \in DOMAIN list |-> [r.list[k] EXCEPT !.fresh = FALSE]]
        /\ builder' = [r.builder EXCEPT !.firstpacket = FALSE]
        /\ steady' = S
        /\ reported' = Reported(r.pack.blocks, steady')
        /\ round' = IF r.newround THEN [sent |-> r.items, skipped |-> builder.done]
                    ELSE [round EXCEPT !.sent = @ \o r.items]
        /\ ownsender' = ownsender
  BY Zenon DEF BuildNextPacket
<1>2. Before(S)
  BY <1>1, HeardBefore
<1>3. start # <<>> => IsPack(start[1]) /\ start[1].blocks = <<>>
  BY StartIs
<1> HIDE DEF S, start
<1>4. FairBlocks(r.pack, r.list, S) /\ RoundGoesOn(r)
  <2>1. r = NextPacket(start) /\ NextPacket(start).ok
    BY <1>1
  <2> QED
    BY <1>2, <1>3, <2>1, NextPacketIs
<1>5. /\ builder \in RunningBuilder /\ Proper(list) /\ list \in Seq(EntryType)
      /\ S \subseteq steady /\ S \subseteq Member /\ Contained(list, S)
      /\ reported \in [Member -> Nat] /\ round \in [sent : Seq(SdesIds), skipped : SUBSET SdesIds]
  BY <1>2, BeforeIs DEF Before, ReportTypes
<1>6. /\ IsPack(r.pack) /\ r.list \in Seq(EntryType) /\ DOMAIN r.list = DOMAIN list
      /\ \A k \in DOMAIN list : r.list[k].ssrc = list[k].ssrc /\ r.list[k].csrc = list[k].csrc
      /\ InOrder(r.list, S) /\ Level(r.list, Raw(reported, r.pack.blocks), S)
      /\ \A s \in S : Count(r.pack.blocks, s) <= 1
      /\ r.pack.blocks \in Seq(Member)
  BY <1>4, Zenon DEF FairBlocks, SameSources, IsPack
<1>7. /\ list' \in Seq(EntryType) /\ DOMAIN list' = DOMAIN list
      /\ \A k \in DOMAIN list : /\ list'[k].ssrc = list[k].ssrc /\ list'[k].csrc = list[k].csrc
                                /\ list'[k].processed = r.list[k].processed /\ ~list'[k].fresh
  <2>1. list' = [k \in DOMAIN r.list |-> [r.list[k] EXCEPT !.fresh = FALSE]]
    BY <1>1, <1>6
  <2> DEFINE p == [k \in DOMAIN r.list |-> [r.list[k] EXCEPT !.fresh = FALSE]]
  <2>2. /\ p \in Seq(EntryType) /\ DOMAIN p = DOMAIN r.list
        /\ \A k \in DOMAIN r.list : /\ p[k].ssrc = r.list[k].ssrc
                                    /\ p[k].csrc = r.list[k].csrc
                                    /\ p[k].processed = r.list[k].processed
                                    /\ ~p[k].fresh
    BY <1>6, StaleIs
  <2> HIDE DEF p
  <2>3. /\ list' \in Seq(EntryType) /\ DOMAIN list' = DOMAIN r.list
        /\ \A k \in DOMAIN r.list : /\ list'[k].ssrc = r.list[k].ssrc
                                    /\ list'[k].csrc = r.list[k].csrc
                                    /\ list'[k].processed = r.list[k].processed
                                    /\ ~list'[k].fresh
    <3>1. list' = p
      BY <2>1 DEF p
    <3> QED
      BY <2>2, <3>1
  <2> QED
    BY <1>6, <2>3, Zenon
<1>8. Contained(r.list, S)
  <2>1. ASSUME NEW s \in S PROVE \E k \in DOMAIN r.list : r.list[k].ssrc = s /\ ~r.list[k].csrc
    <3>1. PICK k \in DOMAIN list : list[k].ssrc = s /\ ~list[k].csrc
      BY <1>5, <2>1 DEF Contained
    <3> QED
      BY <1>6, <3>1
  <2> QED
    BY <2>1 DEF Contained
<1>9. /\ reported' \in [Member -> Nat] /\ Level(r.list, reported', S)
      /\ \A s \in S : reported'[s] <= 1
  <2>1. reported' = Reported(r.pack.blocks, S)
    BY <1>1
  <2> QED
    BY <1>5, <1>6, <1>8, <2>1, ReportedIs
<1>10. comp'.blocks = r.pack.blocks
  BY <1>1, <1>6 DEF Ended, IsPack
<1>11. /\ builder' \in RunningBuilder /\ builder'.firstpacket = FALSE
       /\ builder'.processing = r.builder.processing /\ builder'.due = r.builder.due
       /\ builder'.done = r.builder.done /\ builder'.init
  <2>1. r.builder \in RunningBuilder
    BY <1>4 DEF RoundGoesOn
  <2> QED
    BY <1>1, <2>1 DEF RunningBuilder
<1>12. /\ r.items \in Seq(SdesIds) /\ IsInjective(r.items)
       /\ ToSet(r.items) \subseteq r.builder.due \ builder.done
       /\ r.newround \in BOOLEAN
       /\ r.newround \/ builder.processing =>
             /\ ~r.builder.processing => ToSet(r.items) = r.builder.due \ builder.done
             /\ r.builder.processing => r.builder.done = builder.done \cup ToSet(r.items)
       /\ ~r.newround => r.builder.due = builder.due
       /\ ~r.newround /\ ~builder.processing => r.items = <<>> /\ r.builder = builder
  BY <1>4, Zenon DEF RoundGoesOn
<1>13. /\ round.sent \in Seq(SdesIds) /\ IsInjective(round.sent)
       /\ ToSet(round.sent) \subseteq builder.due
       /\ ~builder.processing => ToSet(round.sent) = builder.due \ round.skipped
       /\ ToSet(round.sent) \cap round.skipped = {}
       /\ builder.processing => builder.done = round.skipped \cup ToSet(round.sent)
  BY <1>1, <1>5 DEF ReportsInv, RoundInv, EachItemOncePerRound
<1>14. TurnsInv'
  <2>1. Proper(list')
    BY <1>5, <1>7, Zenon DEF Proper
  <2>2. Contained(list', S)
    <3>1. ASSUME NEW s \in S PROVE \E k \in DOMAIN list' : list'[k].ssrc = s /\ ~list'[k].csrc
      <4>1. PICK k \in DOMAIN list : list[k].ssrc = s /\ ~list[k].csrc
        BY <1>5, <3>1 DEF Contained
      <4> QED
        BY <1>7, <4>1
    <3> QED
      BY <3>1 DEF Contained
  <2>3. InOrder(list', S)
    BY <1>6, <1>7, Zenon DEF InOrder
  <2>4. Level(list', reported', S)
    <3>1. PICK m \in Int : \A k \in DOMAIN r.list :
              r.list[k].ssrc \in S => reported'[r.list[k].ssrc] = m + Bit(r.list[k].processed)
      BY <1>9 DEF Level
    <3>2. \A k \in DOMAIN list' :
              list'[k].ssrc \in S => reported'[list'[k].ssrc] = m + Bit(list'[k].processed)
      BY <1>6, <1>7, <3>1, Zenon
    <3> QED
      BY <3>2, Zenon DEF Level
  <2>5. \A s \in S : reported'[s] <= 1 /\ Count(comp'.blocks, s) <= 1
    BY <1>6, <1>9, <1>10
  <2> QED
    BY <1>1, <1>11, <2>1, <2>2, <2>3, <2>4, <2>5, Zenon DEF TurnsInv
<1>15. /\ round' \in [sent : Seq(SdesIds), skipped : SUBSET SdesIds]
       /\ RoundInv'
  <2>1. CASE r.newround
    <3>1. round' = [sent |-> r.items, skipped |-> builder.done]
      BY <1>1, <2>1
    <3>2. builder.done \in SUBSET SdesIds
      BY <1>5 DEF RunningBuilder
    <3>3. /\ round' \in [sent : Seq(SdesIds), skipped : SUBSET SdesIds]
          /\ round'.sent = r.items /\ round'.skipped = builder.done
      BY <1>12, <3>1, <3>2
    <3>4. EachItemOncePerRound'
      <4>1. /\ IsInjective(round'.sent) /\ ToSet(round'.sent) \subseteq builder'.due
            /\ ~builder'.processing => ToSet(round'.sent) = builder'.due \ round'.skipped
        BY <1>11, <1>12, <2>1, <3>3, Zenon
      <4> QED
        BY <4>1, Zenon DEF EachItemOncePerRound
    <3>5. /\ ToSet(round'.sent) \cap round'.skipped = {}
          /\ builder'.processing => builder'.done = round'.skipped \cup ToSet(round'.sent)
      BY <1>11, <1>12, <2>1, <3>3, Zenon
    <3> QED
      BY <3>3, <3>4, <3>5, Zenon DEF RoundInv
  <2>2. CASE ~r.newround
    <3> DEFINE both == round.sent \o r.items
    <3>1. round' = [round EXCEPT !.sent = both]
      BY <1>1, <2>2
    <3>2. both \in Seq(SdesIds) /\ ToSet(both) = ToSet(round.sent) \cup ToSet(r.items)
      BY <1>12, <1>13, JoinedIs
    <3>3. ToSet(round.sent) \cap ToSet(r.items) = {}
      <4>1. CASE builder.processing
        BY <1>12, <1>13, <4>1, Zenon
      <4>2. CASE ~builder.processing
        <5>1. ToSet(<<>>) = {}
          BY DEF ToSet
        <5> QED
          BY <1>12, <2>2, <4>2, <5>1
      <4> QED
        BY <4>1, <4>2
    <3>4. IsInjective(both)
      BY <1>12, <1>13, <3>3, JoinedIs
    <3> HIDE DEF both
    <3>5. /\ round' \in [sent : Seq(SdesIds), skipped : SUBSET SdesIds]
          /\ round'.sent = both /\ round'.skipped = round.skipped
      BY <1>5, <3>1, <3>2
    <3>6. builder'.due = builder.due /\ ToSet(both) \subseteq builder.due
      BY <1>11, <1>12, <1>13, <2>2, <3>2, Zenon
    <3>7. /\ ToSet(both) \cap round.skipped = {}
          /\ builder'.processing => builder'.done = round.skipped \cup ToSet(both)
          /\ ~builder'.processing => ToSet(both) = builder.due \ round.skipped
      <4>1. CASE builder.processing
        <5>1. /\ builder'.due = builder.due
              /\ ~builder'.processing => ToSet(r.items) = builder.due \ builder.done
              /\ builder'.processing => builder'.done = builder.done \cup ToSet(r.items)
              /\ ToSet(r.items) \subseteq builder.due \ builder.done
          BY <1>11, <1>12, <2>2, <4>1, Zenon
        <5>2. builder.done = round.skipped \cup ToSet(round.sent)
          BY <1>13, <4>1
        <5> QED
          BY <1>13, <3>2, <5>1, <5>2
      <4>2. CASE ~builder.processing
        <5>1. r.builder = builder /\ ToSet(both) = ToSet(round.sent)
          <6>1. ToSet(<<>>) = {}
            BY DEF ToSet
          <6> QED
            BY <1>12, <2>2, <3>2, <4>2, <6>1
        <5> QED
          BY <1>11, <1>13, <4>2, <5>1
      <4> QED
        BY <4>1, <4>2
    <3>8. EachItemOncePerRound'
      <4>1. /\ IsInjective(round'.sent) /\ ToSet(round'.sent) \subseteq builder'.due
            /\ ~builder'.processing => ToSet(round'.sent) = builder'.due \ round'.skipped
        BY <3>4, <3>5, <3>6, <3>7, Zenon
      <4> QED
        BY <4>1, Zenon DEF EachItemOncePerRound
    <3> QED
      BY <3>5, <3>7, <3>8, Zenon DEF RoundInv
  <2> QED
    BY <1>12, <2>1, <2>2
<1>16. ReportTypes'
  <2>1. comp'.blocks \in Seq(Member) /\ steady' \subseteq Member
    BY <1>1, <1>5, <1>6, <1>10
  <2> QED
    BY <1>7, <1>9, <1>11, <1>15, <2>1 DEF ReportTypes
<1> QED
  BY <1>14, <1>15, <1>16 DEF ReportsInv

\* An element of a sequence behind another, and one removed.
LEMMA AppendedEntry ==
  ASSUME NEW l \in Seq(EntryType), NEW e \in EntryType
  PROVE  /\ Append(l, e) \in Seq(EntryType)
         /\ \A k : k \in DOMAIN Append(l, e) <=> k \in DOMAIN l \/ k = Len(l) + 1
         /\ Len(l) + 1 \notin DOMAIN l /\ Append(l, e)[Len(l) + 1] = e
         /\ \A k \in DOMAIN l : Append(l, e)[k] = l[k] /\ k < Len(l) + 1
  OBVIOUS

\* Where the entry at j of a list stood before the one at k was taken out, and
\* what holds of the list q that is left of l.
LeftAt(k, j) == IF j < k THEN j ELSE j + 1
LeftOf(l, k, q) ==
  /\ q \in Seq(EntryType)
  /\ \A j \in DOMAIN q : /\ LeftAt(k, j) \in DOMAIN l /\ LeftAt(k, j) # k
                         /\ q[j] = l[LeftAt(k, j)]
  /\ \A i, j \in DOMAIN q : /\ LeftAt(k, i) = LeftAt(k, j) => i = j
                            /\ i < j => LeftAt(k, i) < LeftAt(k, j)
  /\ \A i \in DOMAIN l : i # k => \E j \in DOMAIN q : LeftAt(k, j) = i

\* An entry leaves: the others keep their order.
LEMMA RemovedEntry ==
  ASSUME NEW l \in Seq(EntryType), NEW k \in DOMAIN l, NEW q, q = RemoveAt(l, k)
  PROVE  LeftOf(l, k, q)
<1> DEFINE A == SubSeq(l, 1, k - 1)
           B == SubSeq(l, k + 1, Len(l))
           at(j) == LeftAt(k, j)
<1>1. Len(l) \in Nat /\ DOMAIN l = 1..Len(l) /\ k \in 1..Len(l)
  OBVIOUS
<1>2. /\ A \in Seq(EntryType) /\ B \in Seq(EntryType)
      /\ Len(A) = k - 1 /\ Len(B) = Len(l) - k
      /\ \A j \in 1..k - 1 : A[j] = l[j]
      /\ \A j \in 1..Len(l) - k : B[j] = l[k + j]
  <2>1. /\ k - 1 \in Int /\ k + 1 \in Int /\ Len(l) \in Int /\ 1 \in Int
        /\ \A i \in 1..k - 1 : l[i] \in EntryType
        /\ \A i \in k + 1..Len(l) : l[i] \in EntryType
    BY <1>1
  <2>2. /\ A \in Seq(EntryType) /\ Len(A) = IF 1 <= k - 1 THEN k - 1 - 1 + 1 ELSE 0
        /\ \A i \in 1..k - 1 - 1 + 1 : A[i] = l[1 + i - 1]
    BY <2>1, SubSeqProperties
  <2>3. /\ B \in Seq(EntryType)
        /\ Len(B) = IF k + 1 <= Len(l) THEN Len(l) - (k + 1) + 1 ELSE 0
        /\ \A i \in 1..Len(l) - (k + 1) + 1 : B[i] = l[k + 1 + i - 1]
    BY <2>1, SubSeqProperties
  <2> HIDE DEF A, B
  <2>4. Len(A) = k - 1 /\ Len(B) = Len(l) - k
    BY <1>1, <2>2, <2>3
  <2>5. \A j \in 1..k - 1 : A[j] = l[j]
    BY <1>1, <2>2
  <2>6. \A j \in 1..Len(l) - k : B[j] = l[k + j]
    <3>1. /\ Len(l) - (k + 1) + 1 = Len(l) - k
          /\ \A j \in 1..Len(l) - k : k + 1 + j - 1 = k + j
      BY <1>1
    <3> QED
      BY <2>3, <3>1
  <2> QED
    BY <2>2, <2>3, <2>4, <2>5, <2>6
<1>3. q = A \o B
  BY DEF RemoveAt
<1> HIDE DEF A, B
<1>4. /\ q \in Seq(EntryType) /\ Len(q) = Len(l) - 1 /\ DOMAIN q = 1..Len(l) - 1
      /\ \A j \in 1..Len(l) - 1 : q[j] = IF j <= k - 1 THEN A[j] ELSE B[j - (k - 1)]
  <2>1. A \o B \in Seq(EntryType) /\ Len(A \o B) = Len(A) + Len(B)
    BY <1>2, ConcatProperties
  <2>2. \A j \in 1..Len(A) + Len(B) :
            (A \o B)[j] = IF j <= Len(A) THEN A[j] ELSE B[j - Len(A)]
    BY <1>2, ConcatProperties
  <2>3. Len(A) + Len(B) = Len(l) - 1
    BY <1>1, <1>2
  <2>4. DOMAIN q = 1..Len(q)
    BY <1>3, <2>1
  <2> QED
    BY <1>2, <1>3, <2>1, <2>2, <2>3, <2>4, Zenon
<1>5. ASSUME NEW j \in DOMAIN q PROVE at(j) \in DOMAIN l /\ at(j) # k /\ q[j] = l[at(j)]
  <2>1. j \in 1..Len(l) - 1
    BY <1>4
  <2>2. CASE j < k
    <3>1. j \in 1..k - 1 /\ j <= k - 1 /\ j # k /\ j \in 1..Len(l)
      BY <1>1, <2>1, <2>2
    <3>2. q[j] = l[j]
      BY <1>2, <1>4, <2>1, <3>1
    <3> QED
      BY <1>1, <2>2, <3>1, <3>2 DEF LeftAt
  <2>3. CASE ~(j < k)
    <3>1. /\ ~(j <= k - 1) /\ j - (k - 1) \in 1..Len(l) - k /\ k + (j - (k - 1)) = j + 1
          /\ j + 1 \in 1..Len(l) /\ j + 1 # k
      BY <1>1, <2>1, <2>3
    <3>2. q[j] = l[j + 1]
      BY <1>2, <1>4, <2>1, <3>1
    <3> QED
      BY <1>1, <2>3, <3>1, <3>2 DEF LeftAt
  <2> QED
    BY <2>2, <2>3
<1>6. \A i, j \in DOMAIN q : /\ at(i) = at(j) => i = j
                             /\ i < j => at(i) < at(j)
  BY <1>1, <1>4 DEF LeftAt
<1>7. ASSUME NEW i \in DOMAIN l, i # k PROVE \E j \in DOMAIN q : at(j) = i
  <2>1. CASE i < k
    <3>1. i \in DOMAIN q /\ at(i) = i
      BY <1>1, <1>4, <2>1 DEF LeftAt
    <3> QED
      BY <3>1
  <2>2. CASE ~(i < k)
    <3>1. i - 1 \in DOMAIN q /\ at(i - 1) = i
      BY <1>1, <1>4, <1>7, <2>2 DEF LeftAt
    <3> QED
      BY <3>1
  <2> QED
    BY <2>1, <2>2
<1> QED
  BY <1>4, <1>5, <1>6, <1>7, Zenon DEF LeftOf

\* The first state.
LEMMA ReportsStart == ReportsInit => ReportsInv
<1> SUFFICES ASSUME ReportsInit PROVE ReportsInv
  OBVIOUS
<1>1. /\ list = <<>> /\ builder = [init |-> FALSE, done |-> {}] /\ steady = {}
      /\ reported = [s \in Member |-> 0] /\ round = NoRound /\ comp = Empty
  BY DEF ReportsInit, CompoundInit
<1>2. comp.blocks = <<>> /\ ~builder.init
  BY <1>1 DEF Empty
<1>3. builder \in IdleBuilder
  BY <1>1 DEF IdleBuilder
<1>4. round \in [sent : Seq(SdesIds), skipped : SUBSET SdesIds]
  BY <1>1 DEF NoRound
<1>5. reported \in [Member -> Nat]
  BY <1>1
<1>6. ReportTypes
  BY <1>1, <1>2, <1>3, <1>4, <1>5 DEF ReportTypes
<1>7. TurnsInv
  BY <1>1, <1>2 DEF TurnsInv, Proper, Contained
<1>8. RoundInv
  BY <1>2 DEF RoundInv
<1> QED
  BY <1>6, <1>7, <1>8 DEF ReportsInv

\* A new builder.
LEMMA InitKeeps ==
  ASSUME ReportsInv, NEW max \in Nat, InitBuilder(max)
  PROVE  ReportsInv'
<1>1. /\ builder' = Fresh(max, builder) /\ list' = ClearAllSourceFlags(list)
      /\ steady' = {list[k].ssrc : k \in {j \in DOMAIN list : ~list[j].csrc}}
      /\ reported' = [s \in Member |-> 0] /\ round' = NoRound /\ comp' = Empty
  BY DEF InitBuilder
<1>2. /\ list \in Seq(EntryType) /\ Proper(list)
      /\ builder \in RunningBuilder \cup IdleBuilder
  BY DEF ReportsInv, ReportTypes, TurnsInv
<1>3. builder.done \in SUBSET SdesIds
  BY <1>2 DEF RunningBuilder, IdleBuilder
<1>4. /\ builder' \in RunningBuilder /\ builder'.due = {} /\ ~builder'.processing
  <2>1. [i \in SdesIds |-> -1] \in [SdesIds -> Int]
    OBVIOUS
  <2> QED
    BY <1>1, <1>3, <2>1 DEF Fresh, RunningBuilder
<1>5. /\ SameSources(list', list) /\ \A k \in DOMAIN list : ~list'[k].processed
      /\ list' \in Seq(EntryType) /\ DOMAIN list' = DOMAIN list
  BY <1>1, <1>2, ClearedIs DEF SameSources
<1>6. Proper(list')
  BY <1>2, <1>5, SameIs
<1>7. Contained(list', steady')
  <2>1. ASSUME NEW s \in steady' PROVE \E k \in DOMAIN list' : list'[k].ssrc = s /\ ~list'[k].csrc
    <3>1. PICK k \in DOMAIN list : list[k].ssrc = s /\ ~list[k].csrc
      BY <1>1, <2>1
    <3> QED
      BY <1>5, <3>1 DEF SameSources
  <2> QED
    BY <2>1 DEF Contained
<1>8. steady' \subseteq Member
  <2>1. \A k \in DOMAIN list : list[k].ssrc \in Member
    <3>1. \A k \in DOMAIN list : list[k] \in EntryType
      BY <1>2
    <3> QED
      BY <3>1 DEF EntryType
  <2> QED
    BY <1>1, <2>1
<1>9. comp'.blocks = <<>> /\ \A s \in steady' : reported'[s] = 0 /\ Count(comp'.blocks, s) = 0
  <2>1. comp'.blocks = <<>>
    BY <1>1 DEF Empty
  <2>2. \A s \in steady' : reported'[s] = 0
    BY <1>1, <1>8
  <2> QED
    BY <2>1, <2>2, CountIs
<1>10. Level(list', reported', steady') /\ InOrder(list', steady')
  <2>1. \A k \in DOMAIN list' : list'[k].ssrc \in steady'
            => reported'[list'[k].ssrc] = 0 + Bit(list'[k].processed)
    BY <1>5, <1>9 DEF Bit
  <2>2. Level(list', reported', steady')
    BY <2>1 DEF Level
  <2> QED
    BY <1>5, <2>2 DEF InOrder
<1>11. TurnsInv'
  <2>1. \A s \in Member : reported'[s] = 0
    BY <1>1
  <2>2. \A s \in steady' : reported'[s] <= 1 /\ Count(comp'.blocks, s) <= 1
    BY <1>9
  <2> QED
    BY <1>5, <1>6, <1>7, <1>9, <1>10, <2>1, <2>2, Zenon DEF TurnsInv
<1>12. /\ round' \in [sent : Seq(SdesIds), skipped : SUBSET SdesIds]
       /\ round'.sent = <<>> /\ round'.skipped = {}
  BY <1>1 DEF NoRound
<1>13. RoundInv'
  <2>1. ToSet(<<>>) = {} /\ IsInjective(<<>>)
    BY DEF ToSet, IsInjective
  <2> QED
    BY <1>4, <1>12, <2>1 DEF RoundInv, EachItemOncePerRound
<1>14. reported' \in [Member -> Nat]
  BY <1>1
<1>15. ReportTypes'
  BY <1>4, <1>5, <1>8, <1>9, <1>12, <1>14 DEF ReportTypes
<1> QED
  BY <1>11, <1>13, <1>15 DEF ReportsInv

\* The builder is destroyed.
LEMMA RemovalKeeps ==
  ASSUME ReportsInv, Destroy
  PROVE  ReportsInv'
<1>1. /\ builder' = [init |-> FALSE, done |-> builder.done]
      /\ UNCHANGED <<list, ownsender, steady, reported, round, comp>>
      /\ builder \in RunningBuilder \cup IdleBuilder
  BY DEF Destroy, ReportsInv, ReportTypes
<1>2. builder' \in IdleBuilder /\ ~builder'.init
  BY <1>1 DEF RunningBuilder, IdleBuilder
<1>3. ReportTypes'
  BY <1>1, <1>2 DEF ReportsInv, ReportTypes
<1>4. TurnsInv'
  BY <1>1, <1>2 DEF ReportsInv, TurnsInv
<1> QED
  BY <1>2, <1>3, <1>4 DEF ReportsInv, RoundInv

\* An interval is set.
LEMMA IntervalKeeps ==
  ASSUME ReportsInv, NEW i \in SdesIds, NEW n \in Int, SetInterval(i, n)
  PROVE  ReportsInv'
<1>1. /\ builder.init /\ builder' = [builder EXCEPT !.interval[i] = n]
      /\ UNCHANGED <<list, ownsender, steady, reported, round, comp>>
      /\ builder \in RunningBuilder
  BY RunningIs DEF SetInterval, ReportsInv, ReportTypes
<1>2. /\ builder' \in RunningBuilder
      /\ builder'.init = builder.init /\ builder'.firstpacket = builder.firstpacket
      /\ builder'.processing = builder.processing /\ builder'.due = builder.due
      /\ builder'.done = builder.done
  BY <1>1 DEF RunningBuilder
<1>3. ReportTypes'
  BY <1>1, <1>2 DEF ReportsInv, ReportTypes
<1>4. TurnsInv'
  BY <1>1, <1>2 DEF ReportsInv, TurnsInv
<1>5. RoundInv'
  BY <1>1, <1>2 DEF ReportsInv, RoundInv, EachItemOncePerRound
<1> QED
  BY <1>3, <1>4, <1>5 DEF ReportsInv

\* What concerns the items does not change with the members.
LEMMA RoundStays ==
  ASSUME ReportsInv, UNCHANGED <<builder, round>>
  PROVE  RoundInv'
  BY DEF ReportsInv, RoundInv, EachItemOncePerRound

\* A member is new.
LEMMA JoinKeeps ==
  ASSUME ReportsInv, NEW s \in Member, NEW csrc \in BOOLEAN, MemberJoins(s, csrc)
  PROVE  ReportsInv'
<1> DEFINE e == [Entry(s) EXCEPT !.csrc = csrc]
           new == Len(list) + 1
<1>1. /\ \A k \in DOMAIN list : list[k].ssrc # s
      /\ list' = Append(list, e)
      /\ steady' = IF ~csrc /\ builder.init /\ builder.firstpacket THEN steady \cup {s}
                   ELSE steady
      /\ UNCHANGED <<ownsender, builder, reported, round, comp>>
  BY DEF MemberJoins
<1>2. /\ ReportTypes /\ TurnsInv /\ list \in Seq(EntryType)
  BY DEF ReportsInv, ReportTypes
<1>3. /\ e \in EntryType /\ e.ssrc = s /\ e.csrc = csrc /\ ~e.processed /\ ~e.fresh
  BY DEF Entry, EntryType
<1> HIDE DEF e, new
<1>4. /\ list' \in Seq(EntryType)
      /\ \A k : k \in DOMAIN list' <=> k \in DOMAIN list \/ k = new
      /\ new \notin DOMAIN list /\ list'[new] = e
      /\ \A k \in DOMAIN list : list'[k] = list[k] /\ k < new
  BY <1>1, <1>2, <1>3, AppendedEntry DEF new
<1>5. Proper(list')
  <2>1. Proper(list)
    BY <1>2 DEF TurnsInv
  <2>2. ASSUME NEW j \in DOMAIN list', NEW k \in DOMAIN list', list'[j].ssrc = list'[k].ssrc
        PROVE  j = k
    <3>1. CASE j \in DOMAIN list /\ k \in DOMAIN list
      BY <1>4, <2>1, <2>2, <3>1, Zenon DEF Proper
    <3>2. CASE j \notin DOMAIN list \/ k \notin DOMAIN list
      <4>1. \A i \in DOMAIN list : list'[i].ssrc # s
        BY <1>1, <1>4, Zenon
      <4>2. list'[new].ssrc = s
        BY <1>3, <1>4, Zenon
      <4> QED
        BY <1>4, <2>2, <3>2, <4>1, <4>2, Zenon
    <3> QED
      BY <3>1, <3>2
  <2>3. \A k \in DOMAIN list' : list'[k].fresh => list'[k].sentdata
    BY <1>3, <1>4, <2>1, Zenon DEF Proper
  <2> QED
    BY <2>2, <2>3, Zenon DEF Proper
<1>6. s \notin steady
  BY <1>1, <1>2, Zenon DEF TurnsInv, Contained
<1>7. Contained(list', steady')
  <2>1. ASSUME NEW m \in steady' PROVE \E k \in DOMAIN list' : list'[k].ssrc = m /\ ~list'[k].csrc
    <3>1. CASE m \in steady
      <4>1. PICK k \in DOMAIN list : list[k].ssrc = m /\ ~list[k].csrc
        BY <1>2, <3>1, Zenon DEF TurnsInv, Contained
      <4> QED
        BY <1>4, <4>1
    <3>2. CASE m \notin steady
      <4>1. m = s /\ ~csrc
        BY <1>1, <2>1, <3>2
      <4> QED
        BY <1>3, <1>4, <4>1
    <3> QED
      BY <3>1, <3>2
  <2> QED
    BY <2>1 DEF Contained
<1>8. CASE steady' = steady
  <2>1. InOrder(list, steady) => InOrder(list', steady)
    <3>1. ASSUME NEW j \in DOMAIN list', NEW k \in DOMAIN list', j < k, list'[k].processed,
                 list'[j].ssrc \in steady, InOrder(list, steady)
          PROVE  list'[j].processed
      <4>1. k \in DOMAIN list /\ j \in DOMAIN list
        BY <1>3, <1>4, <1>6, <3>1, Zenon
      <4> QED
        BY <1>4, <3>1, <4>1 DEF InOrder
    <3> QED
      BY <3>1, Zenon DEF InOrder
  <2>2. Level(list, reported, steady) => Level(list', reported, steady)
    <3>1. SUFFICES ASSUME Level(list, reported, steady) PROVE Level(list', reported, steady)
      OBVIOUS
    <3>2. PICK m \in Int : \A k \in DOMAIN list :
              list[k].ssrc \in steady => reported[list[k].ssrc] = m + Bit(list[k].processed)
      BY <3>1 DEF Level
    <3>3. \A k \in DOMAIN list' :
              list'[k].ssrc \in steady => reported[list'[k].ssrc] = m + Bit(list'[k].processed)
      BY <1>3, <1>4, <1>6, <3>2, Zenon
    <3> QED
      BY <3>3 DEF Level
  <2>3. TurnsInv'
    <3>1. /\ Proper(list) /\ Contained(list, steady)
          /\ builder.init =>
                /\ InOrder(list, steady)
                /\ Level(list, reported, steady)
                /\ builder.firstpacket =>
                      /\ \A k \in DOMAIN list : ~list[k].processed
                      /\ \A m \in Member : reported[m] = 0
                      /\ comp.blocks = <<>>
          /\ \A m \in steady : reported[m] <= 1 /\ Count(comp.blocks, m) <= 1
      BY <1>2 DEF TurnsInv
    <3>2. (\A k \in DOMAIN list : ~list[k].processed)
            => \A k \in DOMAIN list' : ~list'[k].processed
      BY <1>3, <1>4, Zenon
    <3>3. builder' = builder /\ reported' = reported /\ comp' = comp
      BY <1>1
    <3> QED
      BY <1>5, <1>7, <1>8, <2>1, <2>2, <3>1, <3>2, <3>3, Zenon DEF TurnsInv
  <2>4. ReportTypes'
    BY <1>1, <1>2, <1>4, <1>8 DEF ReportTypes
  <2> QED
    BY <1>1, <2>3, <2>4, RoundStays DEF ReportsInv
<1>9. CASE steady' # steady
  <2>1. steady' = steady \cup {s} /\ builder.init /\ builder.firstpacket
    BY <1>1, <1>9
  <2>2. /\ \A k \in DOMAIN list : ~list[k].processed
        /\ \A m \in Member : reported[m] = 0
        /\ comp.blocks = <<>>
    BY <1>2, <2>1 DEF TurnsInv
  <2>3. \A k \in DOMAIN list' : ~list'[k].processed
    BY <1>3, <1>4, <2>2, Zenon
  <2>4. InOrder(list', steady')
    BY <2>3 DEF InOrder
  <2>5. steady' \subseteq Member
    BY <1>2, <2>1 DEF ReportTypes
  <2>6. Level(list', reported, steady')
    <3>1. \A k \in DOMAIN list' :
              list'[k].ssrc \in steady' => reported[list'[k].ssrc] = 0 + Bit(list'[k].processed)
      BY <2>2, <2>3, <2>5 DEF Bit
    <3> QED
      BY <3>1 DEF Level
  <2>7. \A m \in steady' : reported[m] <= 1 /\ Count(comp.blocks, m) <= 1
    <3>1. \A m \in steady' : reported[m] = 0 /\ Count(comp.blocks, m) = 0
      BY <2>2, <2>5, CountIs
    <3> QED
      BY <3>1
  <2>8. builder' = builder /\ reported' = reported /\ comp' = comp
    BY <1>1
  <2>9. TurnsInv'
    BY <1>5, <1>7, <2>2, <2>3, <2>4, <2>6, <2>7, <2>8, Zenon DEF TurnsInv
  <2>10. ReportTypes'
    BY <1>1, <1>2, <1>4, <2>5 DEF ReportTypes
  <2> QED
    BY <1>1, <2>9, <2>10, RoundStays DEF ReportsInv
<1> QED
  BY <1>8, <1>9

\* A member is gone.
LEMMA GoneKeeps ==
  ASSUME ReportsInv, NEW k \in DOMAIN list, Gone(k)
  PROVE  ReportsInv'
<1> DEFINE at(j) == LeftAt(k, j)
           S == steady \ {list[k].ssrc}
<1>1. /\ list' = RemoveAt(list, k) /\ steady' = S
      /\ UNCHANGED <<ownsender, builder, reported, round, comp>>
  BY DEF Gone
<1>2. /\ ReportTypes /\ TurnsInv /\ list \in Seq(EntryType) /\ Proper(list)
  BY DEF ReportsInv, ReportTypes, TurnsInv
<1>3. /\ list' \in Seq(EntryType)
      /\ \A j \in DOMAIN list' : at(j) \in DOMAIN list /\ at(j) # k /\ list'[j] = list[at(j)]
      /\ \A i, j \in DOMAIN list' : /\ at(i) = at(j) => i = j
                                    /\ i < j => at(i) < at(j)
      /\ \A i \in DOMAIN list : i # k => \E j \in DOMAIN list' : at(j) = i
  <2>1. LeftOf(list, k, list')
    BY <1>1, <1>2, RemovedEntry
  <2> QED
    BY <2>1, Zenon DEF LeftOf
<1> HIDE DEF at, S
<1>4. Proper(list')
  BY <1>2, <1>3, Zenon DEF Proper
<1>5. S \subseteq steady
  BY DEF S
<1>6. Contained(list', S)
  <2>1. ASSUME NEW m \in S PROVE \E j \in DOMAIN list' : list'[j].ssrc = m /\ ~list'[j].csrc
    <3>1. PICK i \in DOMAIN list : list[i].ssrc = m /\ ~list[i].csrc
      BY <1>2, <1>5, <2>1, Zenon DEF TurnsInv, Contained
    <3>2. i # k
      BY <2>1, <3>1 DEF S
    <3>3. PICK j \in DOMAIN list' : at(j) = i
      BY <1>3, <3>2
    <3> QED
      BY <1>3, <3>1, <3>3
  <2> QED
    BY <2>1 DEF Contained
<1>7. InOrder(list, steady) => InOrder(list', S)
  BY <1>3, <1>5, Zenon DEF InOrder
<1>8. Level(list, reported, steady) => Level(list', reported, S)
  <2>1. SUFFICES ASSUME Level(list, reported, steady) PROVE Level(list', reported, S)
    OBVIOUS
  <2>2. PICK m \in Int : \A j \in DOMAIN list :
            list[j].ssrc \in steady => reported[list[j].ssrc] = m + Bit(list[j].processed)
    BY <2>1 DEF Level
  <2>3. ASSUME NEW j \in DOMAIN list', list'[j].ssrc \in S
        PROVE  reported[list'[j].ssrc] = m + Bit(list'[j].processed)
    <3>1. at(j) \in DOMAIN list /\ list'[j] = list[at(j)]
      BY <1>3
    <3>2. list[at(j)].ssrc \in steady
      BY <1>5, <2>3, <3>1
    <3>3. reported[list[at(j)].ssrc] = m + Bit(list[at(j)].processed)
      BY <2>2, <3>1, <3>2
    <3> QED
      BY <3>1, <3>3
  <2> QED
    BY <2>3 DEF Level
<1>9. TurnsInv'
  <2>1. /\ builder.init =>
              /\ InOrder(list, steady)
              /\ Level(list, reported, steady)
              /\ builder.firstpacket =>
                    /\ \A j \in DOMAIN list : ~list[j].processed
                    /\ \A m \in Member : reported[m] = 0
                    /\ comp.blocks = <<>>
        /\ \A m \in steady : reported[m] <= 1 /\ Count(comp.blocks, m) <= 1
    BY <1>2 DEF TurnsInv
  <2>2. (\A j \in DOMAIN list : ~list[j].processed)
          => \A j \in DOMAIN list' : ~list'[j].processed
    BY <1>3, Zenon
  <2>3. builder' = builder /\ reported' = reported /\ comp' = comp
    BY <1>1
  <2>4. \A m \in S : reported[m] <= 1 /\ Count(comp.blocks, m) <= 1
    BY <1>5, <2>1, Zenon
  <2> QED
    BY <1>1, <1>4, <1>6, <1>7, <1>8, <2>1, <2>2, <2>3, <2>4, Zenon DEF TurnsInv
<1>10. ReportTypes'
  BY <1>1, <1>2, <1>3, <1>5 DEF ReportTypes
<1> QED
  BY <1>1, <1>9, <1>10, RoundStays DEF ReportsInv

\* A member is named by a CSRC list.
LEMMA NamedKeeps ==
  ASSUME ReportsInv, NEW k \in DOMAIN list, NamedAsCsrc(k)
  PROVE  ReportsInv'
<1> DEFINE S == steady \ {list[k].ssrc}
<1>1. /\ list' = [list EXCEPT ![k].csrc = TRUE] /\ steady' = S
      /\ UNCHANGED <<ownsender, builder, reported, round, comp>>
  BY DEF NamedAsCsrc
<1>2. /\ ReportTypes /\ TurnsInv /\ list \in Seq(EntryType) /\ Proper(list)
  BY DEF ReportsInv, ReportTypes, TurnsInv
<1>3. /\ list' \in Seq(EntryType) /\ DOMAIN list' = DOMAIN list
      /\ \A j \in DOMAIN list : /\ list'[j].ssrc = list[j].ssrc
                                /\ list'[j].processed = list[j].processed
                                /\ list'[j].fresh = list[j].fresh
                                /\ list'[j].sentdata = list[j].sentdata
                                /\ j # k => list'[j].csrc = list[j].csrc
  <2>1. /\ DOMAIN list = 1..Len(list) /\ Len(list) \in Nat
        /\ \A j \in DOMAIN list : list[j] \in EntryType
    BY <1>2
  <2>2. /\ list'[k] \in EntryType /\ list'[k].ssrc = list[k].ssrc
        /\ list'[k].processed = list[k].processed /\ list'[k].fresh = list[k].fresh
        /\ list'[k].sentdata = list[k].sentdata
    BY <1>1, <2>1 DEF EntryType
  <2>3. DOMAIN list' = DOMAIN list /\ \A j \in DOMAIN list : j # k => list'[j] = list[j]
    BY <1>1
  <2>4. list' \in [1..Len(list) -> EntryType]
    <3>1. list' = [j \in DOMAIN list |-> list'[j]]
      BY <1>1
    <3>2. \A j \in DOMAIN list : list'[j] \in EntryType
      BY <2>1, <2>2, <2>3
    <3> QED
      BY <2>1, <3>1, <3>2
  <2>5. list' \in Seq(EntryType)
    BY <2>1, <2>4
  <2> QED
    BY <2>2, <2>3, <2>5, Zenon
<1> HIDE DEF S
<1>4. Proper(list')
  BY <1>2, <1>3, Zenon DEF Proper
<1>5. S \subseteq steady
  BY DEF S
<1>6. Contained(list', S)
  <2>1. ASSUME NEW m \in S PROVE \E j \in DOMAIN list' : list'[j].ssrc = m /\ ~list'[j].csrc
    <3>1. PICK i \in DOMAIN list : list[i].ssrc = m /\ ~list[i].csrc
      BY <1>2, <1>5, <2>1, Zenon DEF TurnsInv, Contained
    <3>2. i # k
      BY <2>1, <3>1 DEF S
    <3> QED
      BY <1>3, <3>1, <3>2
  <2> QED
    BY <2>1 DEF Contained
<1>7. InOrder(list, steady) => InOrder(list', S)
  BY <1>3, <1>5, Zenon DEF InOrder
<1>8. Level(list, reported, steady) => Level(list', reported, S)
  <2>1. SUFFICES ASSUME Level(list, reported, steady) PROVE Level(list', reported, S)
    OBVIOUS
  <2>2. PICK m \in Int : \A j \in DOMAIN list :
            list[j].ssrc \in steady => reported[list[j].ssrc] = m + Bit(list[j].processed)
    BY <2>1 DEF Level
  <2>3. \A j \in DOMAIN list' :
            list'[j].ssrc \in S => reported[list'[j].ssrc] = m + Bit(list'[j].processed)
    BY <1>3, <1>5, <2>2
  <2> QED
    BY <2>3 DEF Level
<1>9. TurnsInv'
  <2>1. /\ builder.init =>
              /\ InOrder(list, steady)
              /\ Level(list, reported, steady)
              /\ builder.firstpacket =>
                    /\ \A j \in DOMAIN list : ~list[j].processed
                    /\ \A m \in Member : reported[m] = 0
                    /\ comp.blocks = <<>>
        /\ \A m \in steady : reported[m] <= 1 /\ Count(comp.blocks, m) <= 1
    BY <1>2 DEF TurnsInv
  <2>2. (\A j \in DOMAIN list : ~list[j].processed)
          => \A j \in DOMAIN list' : ~list'[j].processed
    BY <1>3, Zenon
  <2>3. builder' = builder /\ reported' = reported /\ comp' = comp
    BY <1>1
  <2>4. \A m \in S : reported[m] <= 1 /\ Count(comp.blocks, m) <= 1
    BY <1>5, <2>1, Zenon
  <2> QED
    BY <1>1, <1>4, <1>6, <1>7, <1>8, <2>1, <2>2, <2>3, <2>4, Zenon DEF TurnsInv
<1>10. ReportTypes'
  BY <1>1, <1>2, <1>3, <1>5 DEF ReportTypes
<1> QED
  BY <1>1, <1>9, <1>10, RoundStays DEF ReportsInv

\* A member is heard.
LEMMA HeardKeeps ==
  ASSUME ReportsInv, NEW k \in DOMAIN list, PacketFrom(k)
  PROVE  ReportsInv'
<1>1. /\ list' = [list EXCEPT ![k].sentdata = TRUE, ![k].fresh = TRUE]
      /\ UNCHANGED <<ownsender, builder, steady, reported, round, comp>>
  BY DEF PacketFrom
<1>2. /\ ReportTypes /\ TurnsInv /\ list \in Seq(EntryType) /\ Proper(list)
  BY DEF ReportsInv, ReportTypes, TurnsInv
<1>3. /\ list' \in Seq(EntryType) /\ DOMAIN list' = DOMAIN list
      /\ \A j \in DOMAIN list : /\ list'[j].ssrc = list[j].ssrc /\ list'[j].csrc = list[j].csrc
                                /\ list'[j].processed = list[j].processed
                                /\ list'[j].fresh => list'[j].sentdata
  <2>1. /\ DOMAIN list = 1..Len(list) /\ Len(list) \in Nat
        /\ \A j \in DOMAIN list : list[j] \in EntryType
    BY <1>2
  <2>2. /\ list'[k] \in EntryType /\ list'[k].ssrc = list[k].ssrc /\ list'[k].csrc = list[k].csrc
        /\ list'[k].processed = list[k].processed /\ list'[k].sentdata
    BY <1>1, <2>1 DEF EntryType
  <2>3. DOMAIN list' = DOMAIN list /\ \A j \in DOMAIN list : j # k => list'[j] = list[j]
    BY <1>1
  <2>4. list' \in [1..Len(list) -> EntryType]
    <3>1. list' = [j \in DOMAIN list |-> list'[j]]
      BY <1>1
    <3>2. \A j \in DOMAIN list : list'[j] \in EntryType
      BY <2>1, <2>2, <2>3
    <3> QED
      BY <2>1, <3>1, <3>2
  <2>5. list' \in Seq(EntryType)
    BY <2>1, <2>4
  <2> QED
    BY <1>2, <2>2, <2>3, <2>5, Zenon DEF Proper
<1>4. Proper(list')
  BY <1>2, <1>3, Zenon DEF Proper
<1>5. Contained(list, steady) => Contained(list', steady)
  <2>1. ASSUME NEW s \in steady, Contained(list, steady)
        PROVE  \E j \in DOMAIN list' : list'[j].ssrc = s /\ ~list'[j].csrc
    <3>1. PICK j \in DOMAIN list : list[j].ssrc = s /\ ~list[j].csrc
      BY <2>1 DEF Contained
    <3> QED
      BY <1>3, <3>1
  <2> QED
    BY <2>1 DEF Contained
<1>6. InOrder(list, steady) => InOrder(list', steady)
  BY <1>3, Zenon DEF InOrder
<1>7. Level(list, reported, steady) => Level(list', reported, steady)
  <2>1. SUFFICES ASSUME Level(list, reported, steady) PROVE Level(list', reported, steady)
    OBVIOUS
  <2>2. PICK m \in Int : \A j \in DOMAIN list :
            list[j].ssrc \in steady => reported[list[j].ssrc] = m + Bit(list[j].processed)
    BY <2>1 DEF Level
  <2>3. \A j \in DOMAIN list' :
            list'[j].ssrc \in steady => reported[list'[j].ssrc] = m + Bit(list'[j].processed)
    BY <1>3, <2>2
  <2> QED
    BY <2>3 DEF Level
<1>8. TurnsInv'
  <2>1. /\ Contained(list, steady)
        /\ builder.init =>
              /\ InOrder(list, steady)
              /\ Level(list, reported, steady)
              /\ builder.firstpacket =>
                    /\ \A j \in DOMAIN list : ~list[j].processed
                    /\ \A m \in Member : reported[m] = 0
                    /\ comp.blocks = <<>>
        /\ \A m \in steady : reported[m] <= 1 /\ Count(comp.blocks, m) <= 1
    BY <1>2 DEF TurnsInv
  <2>2. (\A j \in DOMAIN list : ~list[j].processed)
          => \A j \in DOMAIN list' : ~list'[j].processed
    BY <1>3, Zenon
  <2>3. builder' = builder /\ reported' = reported /\ comp' = comp /\ steady' = steady
    BY <1>1
  <2> QED
    BY <1>4, <1>5, <1>6, <1>7, <2>1, <2>2, <2>3, Zenon DEF TurnsInv
<1>9. ReportTypes'
  BY <1>1, <1>2, <1>3 DEF ReportTypes
<1> QED
  BY <1>1, <1>8, <1>9, RoundStays DEF ReportsInv

\* A BYE packet has no report blocks.
LEMMA ByeKeeps ==
  ASSUME ReportsInv, NEW reason, NEW usesr, BuildBYEPacket(reason, usesr)
  PROVE  ReportsInv'
<1> DEFINE start == StartPacket(builder.max, ownsender /\ usesr)
           y == [ssrcs |-> <<Own>>, reason |-> reason]
<1>1. start # <<>> /\ comp' = Ended(WithBYE(start[1], y)) /\ UNCHANGED repvars
  BY Zenon DEF BuildBYEPacket
<1>2. IsPack(start[1]) /\ start[1].blocks = <<>>
  BY <1>1, StartIs
<1> HIDE DEF start, y
<1>3. comp'.blocks = <<>>
  <2> DEFINE w == WithBYE(start[1], y)
  <2>1. "blocks" \in DOMAIN w /\ w.blocks = <<>>
    BY <1>2 DEF IsPack, WithBYE
  <2> HIDE DEF w
  <2>2. comp' = Ended(w)
    BY <1>1 DEF w
  <2> QED
    BY <2>1, <2>2 DEF Ended
<1>4. UNCHANGED <<list, ownsender, builder, steady, reported, round>>
  BY <1>1 DEF repvars
<1>5. \A s \in steady : Count(comp'.blocks, s) <= 1
  BY <1>3, CountIs
<1>6. TurnsInv'
  BY <1>3, <1>4, <1>5 DEF ReportsInv, TurnsInv
<1>7. ReportTypes'
  BY <1>3, <1>4 DEF ReportsInv, ReportTypes
<1> QED
  BY <1>4, <1>6, <1>7, RoundStays DEF ReportsInv

\* Every step.
LEMMA ReportsStep == ReportsInv /\ [ReportsNext]_<<comp, repvars>> => ReportsInv'
<1> SUFFICES ASSUME ReportsInv, [ReportsNext]_<<comp, repvars>> PROVE ReportsInv'
  OBVIOUS
<1>1. ASSUME NEW max \in Nat, InitBuilder(max) PROVE ReportsInv'
  BY <1>1, InitKeeps
<1>2. CASE Destroy
  BY <1>2, RemovalKeeps
<1>3. ASSUME NEW i \in SdesIds, NEW n \in Int, SetInterval(i, n) PROVE ReportsInv'
  BY <1>3, IntervalKeeps
<1>4. ASSUME NEW s \in Member, NEW csrc \in BOOLEAN, MemberJoins(s, csrc) PROVE ReportsInv'
  BY <1>4, JoinKeeps
<1>5. ASSUME NEW k \in DOMAIN list, Gone(k) PROVE ReportsInv'
  BY <1>5, GoneKeeps
<1>6. ASSUME NEW k \in DOMAIN list, PacketFrom(k) PROVE ReportsInv'
  BY <1>6, HeardKeeps
<1>7. CASE BuildNextPacket
  BY <1>7, PacketKeeps
<1>8. ASSUME NEW reason \in 0..255, NEW usesr \in BOOLEAN, BuildBYEPacket(reason, usesr)
      PROVE  ReportsInv'
  BY <1>8, ByeKeeps
<1>9. CASE UNCHANGED <<comp, repvars>>
  <2>1. UNCHANGED <<comp, list, ownsender, builder, steady, reported, round>>
    BY <1>9 DEF repvars
  <2>2. TurnsInv'
    BY <2>1 DEF ReportsInv, TurnsInv
  <2>3. ReportTypes'
    BY <2>1 DEF ReportsInv, ReportTypes
  <2> QED
    BY <2>1, <2>2, <2>3, RoundStays DEF ReportsInv
<1>10. ASSUME NEW k \in DOMAIN list, NamedAsCsrc(k) PROVE ReportsInv'
  BY <1>10, NamedKeeps
<1> QED
  BY <1>1, <1>2, <1>3, <1>4, <1>5, <1>6, <1>7, <1>8, <1>9, <1>10, Zenon DEF ReportsNext

\* For any members, packets of any size and any intervals of the items: no
\* source is passed over in the report blocks, none gets two in a packet, and no
\* item is passed over or sent twice in a round.
THEOREM ReportsAreFair == ReportsSpec => []ReportsFair
<1>1. ReportsInv => ReportsFair
  BY DEF ReportsInv, TurnsInv, RoundInv, ReportsFair, ReportsInTurn, EachItemOncePerRound
<1> QED
  BY <1>1, ReportsStart, ReportsStep, PTL DEF ReportsSpec

-----------------------------------------------------------------------------
(* Loops, sums and sequences one after the other.                           *)

\* A function of 1..n is a sequence of n elements.
LEMMA FunctionIsSeq ==
  ASSUME NEW X, NEW n \in Nat, NEW s \in [1..n -> X]
  PROVE  s \in Seq(X) /\ Len(s) = n /\ DOMAIN s = 1..n
  OBVIOUS

\* What is appended comes last, and the rest stays.
LEMMA AppendedIs ==
  ASSUME NEW X, NEW k \in Nat \ {0}, NEW a \in Seq(X), Len(a) = k - 1, NEW x \in X
  PROVE  /\ Append(a, x) \in Seq(X) /\ Len(Append(a, x)) = k /\ Append(a, x)[k] = x
         /\ \A j \in 1..k - 1 : Append(a, x)[j] = a[j]
  OBVIOUS

\* Two loops agree turn by turn.
Alike(f, g, N) ==
    f[0] = g[0] /\ \A k \in 1..N : f[k - 1] = g[k - 1] => f[k] = g[k]

\* Two loops that agree turn by turn agree throughout.
LEMMA TurnsAgree ==
  ASSUME NEW N \in Nat, NEW f, NEW g, Alike(f, g, N)
  PROVE  \A k \in 0..N : f[k] = g[k]
<1> DEFINE T == {k \in 0..N : f[k] # g[k]}
<1>1. SUFFICES ASSUME T # {} PROVE FALSE
  OBVIOUS
<1>2. T \in SUBSET Nat
  OBVIOUS
<1>3. PICK k \in T : \A y \in T : k <= y
  BY <1>1, <1>2, LeastNat, Zenon
<1>4. k \in 0..N /\ f[k] # g[k]
  BY <1>3
<1>5. k # 0 /\ k \in 1..N /\ k - 1 \in 0..N /\ ~(k <= k - 1)
  BY <1>4 DEF Alike
<1>6. f[k - 1] = g[k - 1]
  BY <1>3, <1>5, Zenon
<1> QED
  BY <1>4, <1>5, <1>6 DEF Alike

\* A loop whose turns are given by functions.
LoopOf(f, b, N, G) == f[0] = b /\ \A k \in 1..N : f[k] = G[k][f[k - 1]]

\* A loop whose turns are functions exists.
LEMMA LoopExists ==
  ASSUME NEW D, NEW b \in D, NEW N \in Nat, NEW G \in [1..N -> [D -> D]]
  PROVE  \E f \in [0..N -> D] : LoopOf(f, b, N, G)
<1> DEFINE P(n) == \E f \in [0..n -> D] : f[0] = b /\ \A k \in 1..n : f[k] = G[k][f[k - 1]]
           T == {n \in 0..N : ~P(n)}
<1>1. SUFFICES ASSUME T # {} PROVE FALSE
  <2>1. N \in 0..N
    OBVIOUS
  <2>2. ASSUME T = {} PROVE P(N)
    BY <2>1, <2>2
  <2> QED
    BY <2>2 DEF LoopOf
<1>2. T \in SUBSET Nat
  OBVIOUS
<1>3. PICK n \in T : \A y \in T : n <= y
  <2> HIDE DEF T
  <2> QED
    BY <1>1, <1>2, LeastNat, Zenon
<1>4. n \in 0..N /\ ~P(n)
  BY <1>3
<1>5. P(0)
  <2> DEFINE f == [k \in 0..0 |-> b]
  <2>1. f \in [0..0 -> D] /\ f[0] = b /\ 1..0 = {}
    OBVIOUS
  <2> QED
    BY <2>1
<1> HIDE DEF P
<1>6. n # 0 /\ n \in 1..N /\ n - 1 \in 0..N /\ ~(n <= n - 1)
  BY <1>4, <1>5
<1>7. P(n - 1)
  BY <1>3, <1>6
<1>8. PICK f \in [0..n - 1 -> D] : f[0] = b /\ \A k \in 1..n - 1 : f[k] = G[k][f[k - 1]]
  BY <1>7 DEF P
<1> DEFINE g == [k \in 0..n |-> IF k = n THEN G[n][f[n - 1]] ELSE f[k]]
<1>9. n - 1 \in 0..n - 1 /\ \A k \in 0..n : k # n => k \in 0..n - 1
  BY <1>6
<1>10. G[n][f[n - 1]] \in D
  BY <1>6, <1>8, <1>9
<1>11. g \in [0..n -> D]
  BY <1>8, <1>9, <1>10
<1>12. g[0] = b
  BY <1>6, <1>8
<1>13. ASSUME NEW k \in 1..n PROVE g[k] = G[k][g[k - 1]]
  <2>1. k \in 0..n /\ k - 1 \in 0..n /\ k - 1 # n /\ g[k - 1] = f[k - 1]
    BY <1>6
  <2>2. CASE k = n
    BY <2>1, <2>2
  <2>3. CASE k # n
    <3>1. k \in 1..n - 1 /\ g[k] = f[k]
      BY <1>6, <2>1, <2>3
    <3> QED
      BY <1>8, <2>1, <3>1
  <2> QED
    BY <2>2, <2>3
<1> HIDE DEF g
<1>14. P(n)
  BY <1>11, <1>12, <1>13 DEF P
<1> QED
  BY <1>4, <1>14

\* The sums of the first numbers of s.
Sums(t, s) ==
    /\ t \in [0..Len(s) -> Nat] /\ t[0] = 0
    /\ \A k \in 1..Len(s) : t[k] = t[k - 1] + s[k]

\* A sequence of numbers has sums.
LEMMA SumsExist ==
  ASSUME NEW s \in Seq(Nat)
  PROVE  \E t : Sums(t, s)
<1> DEFINE N == Len(s)
           G == [k \in 1..N |-> [x \in Nat |-> x + s[k]]]
<1>1. N \in Nat /\ \A k \in 1..N : s[k] \in Nat
  OBVIOUS
<1> HIDE DEF N
<1>2. G \in [1..N -> [Nat -> Nat]]
  BY <1>1
<1>3. PICK t \in [0..N -> Nat] : t[0] = 0 /\ \A k \in 1..N : t[k] = G[k][t[k - 1]]
  <2> HIDE DEF G
  <2> QED
    <3> DEFINE z == 0
    <3>1. z \in Nat
      OBVIOUS
    <3> HIDE DEF z
    <3>2. \E f \in [0..N -> Nat] : LoopOf(f, z, N, G)
      BY <1>1, <1>2, <3>1, LoopExists
    <3> QED
      BY <3>2 DEF z, LoopOf
<1>4. ASSUME NEW k \in 1..N PROVE t[k] = t[k - 1] + s[k]
  <2>1. k - 1 \in 0..N
    BY <1>1
  <2>2. t[k - 1] \in Nat
    BY <1>3, <2>1
  <2> QED
    BY <1>3, <2>2
<1>5. Sums(t, s)
  BY <1>3, <1>4 DEF Sums, N
<1> QED
  BY <1>5

\* Total as a loop.
SumLoop(f, s) == f = [k \in 0..Len(s) |-> IF k = 0 THEN 0 ELSE f[k - 1] + s[k]]

\* The total is the last sum.
LEMMA TotalIs ==
  ASSUME NEW s, Len(s) \in Nat, NEW t, Sums(t, s)
  PROVE  Total(s) = t[Len(s)]
<1> DEFINE N == Len(s)
           f == CHOOSE g : SumLoop(g, s)
<1>1. Total(s) = f[N]
  BY DEF Total, SumLoop
<1>2. t = [k \in 0..N |-> t[k]]
  BY DEF Sums
<1>3. \A k \in 0..N : t[k] = IF k = 0 THEN 0 ELSE t[k - 1] + s[k]
  <2>1. \A k \in 0..N : k # 0 => k \in 1..N
    OBVIOUS
  <2> QED
    BY <2>1 DEF Sums
<1>4. SumLoop(t, s)
  BY <1>2, <1>3, Zenon DEF SumLoop
<1>5. SumLoop(f, s)
  BY <1>4, Zenon
<1> HIDE DEF f
<1>6. f[0] = t[0]
  BY <1>5 DEF SumLoop, Sums
<1>7. \A k \in 1..N : f[k - 1] = t[k - 1] => f[k] = t[k]
  <2>1. \A k \in 1..N : k \in 0..N /\ k # 0
    OBVIOUS
  <2>2. \A k \in 1..N : f[k] = f[k - 1] + s[k]
    BY <1>5, <2>1 DEF SumLoop
  <2>3. \A k \in 1..N : t[k] = t[k - 1] + s[k]
    BY DEF Sums
  <2> QED
    BY <2>2, <2>3, Zenon
<1>8. \A k \in 0..N : f[k] = t[k]
  <2>1. N \in Nat /\ Alike(f, t, N)
    BY <1>6, <1>7 DEF Alike
  <2> QED
    BY <2>1, TurnsAgree
<1> QED
  BY <1>1, <1>8

\* The total of numbers is a number.
LEMMA TotalType ==
  ASSUME NEW s \in Seq(Nat)
  PROVE  Total(s) \in Nat
<1>1. PICK t : Sums(t, s)
  BY SumsExist
<1>2. Total(s) = t[Len(s)] /\ Len(s) \in 0..Len(s)
  BY <1>1, TotalIs
<1> QED
  BY <1>1, <1>2 DEF Sums

\* A later sum is not less than an earlier one.
LEMMA SumsGrow ==
  ASSUME NEW s \in Seq(Nat), NEW t, Sums(t, s), NEW j \in 0..Len(s)
  PROVE  \A k \in 0..Len(s) : j <= k => t[j] <= t[k]
<1> DEFINE N == Len(s)
           T == {k \in 0..N : j <= k /\ ~(t[j] <= t[k])}
<1>1. N \in Nat /\ j \in 0..N /\ \A k \in 0..N : t[k] \in Nat
  <2>1. t \in [0..N -> Nat]
    BY DEF Sums
  <2> QED
    BY <2>1
<1>2. \A k \in 1..N : t[k - 1] <= t[k]
  <2> SUFFICES ASSUME NEW k \in 1..N PROVE t[k - 1] <= t[k]
    OBVIOUS
  <2>1. t[k] = t[k - 1] + s[k] /\ s[k] \in Nat
    BY DEF Sums
  <2>2. t[k - 1] \in Nat
    BY <1>1
  <2> QED
    BY <2>1, <2>2
<1>3. SUFFICES ASSUME T # {} PROVE FALSE
  OBVIOUS
<1> HIDE DEF N
<1>4. T \in SUBSET Nat
  BY <1>1
<1>5. PICK k \in T : \A y \in T : k <= y
  <2> HIDE DEF T
  <2> QED
    BY <1>3, <1>4, LeastNat, Zenon
<1>6. k \in 0..N /\ j <= k /\ ~(t[j] <= t[k])
  BY <1>5
<1>7. k # j
  BY <1>1, <1>6
<1>8. k \in 1..N /\ k - 1 \in 0..N /\ j <= k - 1 /\ ~(k <= k - 1)
  BY <1>1, <1>6, <1>7
<1>9. k - 1 \notin T
  <2> HIDE DEF T
  <2> QED
    BY <1>5, <1>8, Zenon
<1>10. t[j] <= t[k - 1] /\ t[k - 1] <= t[k]
  BY <1>2, <1>8, <1>9
<1> QED
  BY <1>1, <1>6, <1>8, <1>10

\* Every place lies in one of the parts.
LEMMA Located ==
  ASSUME NEW s \in Seq(Nat), NEW t, Sums(t, s), NEW i \in 1..t[Len(s)]
  PROVE  \E k \in 1..Len(s) : t[k - 1] < i /\ i <= t[k]
<1> DEFINE N == Len(s)
           T == {k \in 0..N : i <= t[k]}
<1>1. N \in Nat /\ \A k \in 0..N : t[k] \in Nat
  <2>1. t \in [0..N -> Nat]
    BY DEF Sums
  <2> QED
    BY <2>1
<1>2. N \in 0..N /\ t[0] = 0 /\ t[N] \in Nat
  BY <1>1 DEF Sums
<1>3. i \in Nat /\ i >= 1 /\ i <= t[N]
  BY <1>2
<1>4. T # {} /\ T \in SUBSET Nat
  BY <1>1, <1>2, <1>3
<1> HIDE DEF N
<1>5. PICK k \in T : \A y \in T : k <= y
  <2> HIDE DEF T
  <2> QED
    BY <1>4, LeastNat, Zenon
<1>6. k \in 0..N /\ i <= t[k] /\ k # 0
  BY <1>2, <1>3, <1>5
<1>7. k \in 1..N /\ k - 1 \in 0..N /\ ~(k <= k - 1)
  BY <1>1, <1>6
<1>8. k - 1 \notin T
  <2> HIDE DEF T
  <2> QED
    BY <1>5, <1>7, Zenon
<1>9. ~(i <= t[k - 1])
  BY <1>7, <1>8
<1>10. t[k - 1] < i
  BY <1>1, <1>3, <1>7, <1>9
<1> QED
  BY <1>6, <1>7, <1>10 DEF N

\* The lengths of sequences.
Lens(ss) == [k \in 1..Len(ss) |-> Len(ss[k])]

\* The lengths of sequences are numbers.
LEMMA LensType ==
  ASSUME NEW X, NEW ss \in Seq(Seq(X))
  PROVE  /\ Lens(ss) \in Seq(Nat) /\ Len(Lens(ss)) = Len(ss)
         /\ \A k \in 1..Len(ss) : Lens(ss)[k] = Len(ss[k]) /\ ss[k] \in Seq(X)
<1>1. Len(ss) \in Nat /\ \A k \in 1..Len(ss) : ss[k] \in Seq(X)
  OBVIOUS
<1>2. \A k \in 1..Len(ss) : Len(ss[k]) \in Nat
  BY <1>1
<1>3. Lens(ss) \in [1..Len(ss) -> Nat]
  BY <1>2 DEF Lens
<1>4. \A k \in 1..Len(ss) : Lens(ss)[k] = Len(ss[k])
  BY DEF Lens
<1> QED
  BY <1>1, <1>3, <1>4

\* s is the parts of ss in a row; part k ends at place o[k].
Laid(o, ss, s) ==
    /\ Sums(o, Lens(ss))
    /\ Len(s) = o[Len(ss)]
    /\ \A k \in 1..Len(ss) : \A j \in 1..Len(ss[k]) : s[o[k - 1] + j] = ss[k][j]

\* FlattenSeq as a loop.
FlattenLoop(f, ss) ==
    f = [i \in 1..Len(ss) |-> IF i = 1 THEN ss[i] ELSE f[i - 1] \o ss[i]]

\* The first parts of ss in a row.
Joins(f, ss) == f[0] = <<>> /\ \A k \in 1..Len(ss) : f[k] = f[k - 1] \o ss[k]

\* What is flattened is joined part by part.
LEMMA FlattenTurns ==
  ASSUME NEW X, NEW ss \in Seq(Seq(X))
  PROVE  \E f \in [0..Len(ss) -> Seq(X)] : Joins(f, ss) /\ FlattenSeq(ss) = f[Len(ss)]
<1> DEFINE N == Len(ss)
           G == [k \in 1..N |-> [x \in Seq(X) |-> x \o ss[k]]]
           h == CHOOSE g : FlattenLoop(g, ss)
           z == <<>>
<1>1. N \in Nat /\ (\A k \in 1..N : ss[k] \in Seq(X)) /\ z \in Seq(X)
  OBVIOUS
<1>2. G \in [1..N -> [Seq(X) -> Seq(X)]]
  <2>1. \A k \in 1..N : \A x \in Seq(X) : x \o ss[k] \in Seq(X)
    BY <1>1, ConcatProperties
  <2> QED
    BY <2>1
<1>3. PICK f \in [0..N -> Seq(X)] : LoopOf(f, z, N, G)
  <2> HIDE DEF G, N, z
  <2> QED
    BY <1>1, <1>2, LoopExists
<1>4. f[0] = <<>> /\ \A k \in 1..N : f[k - 1] \in Seq(X) /\ f[k] = f[k - 1] \o ss[k]
  <2>1. \A k \in 1..N : k - 1 \in 0..N
    BY <1>1
  <2>2. \A k \in 1..N : f[k - 1] \in Seq(X)
    BY <2>1
  <2> QED
    BY <1>3, <2>2 DEF LoopOf
<1>5. Joins(f, ss)
  BY <1>4 DEF Joins
<1>6. CASE N = 0
  <2>1. FlattenSeq(ss) = ss /\ ss = <<>>
    BY <1>6 DEF FlattenSeq
  <2>2. FlattenSeq(ss) = f[N]
    BY <1>4, <1>6, <2>1
  <2> QED
    BY <1>5, <2>2
<1>7. CASE N # 0
  <2> DEFINE g == [i \in 1..N |-> f[i]]
  <2>1. FlattenSeq(ss) = h[N]
    BY <1>7, Zenon DEF FlattenSeq, FlattenLoop
  <2>2. f[1] = ss[1] /\ 1 \in 1..N
    <3>1. 1 \in 1..N
      BY <1>1, <1>7
    <3>2. f[1] = f[1 - 1] \o ss[1] /\ ss[1] \in Seq(X)
      BY <1>1, <1>4, <3>1, Zenon
    <3>3. 1 - 1 = 0
      OBVIOUS
    <3>4. f[1] = <<>> \o ss[1]
      BY <1>4, <3>2, <3>3, Zenon
    <3> QED
      BY <3>1, <3>2, <3>4, ConcatEmptySeq
  <2>3. \A i \in 1..N : g[i] = IF i = 1 THEN ss[i] ELSE g[i - 1] \o ss[i]
    <3>1. \A i \in 1..N : i # 1 => i - 1 \in 1..N
      BY <1>1
    <3> QED
      BY <1>4, <2>2, <3>1
  <2>4. g = [i \in 1..N |-> IF i = 1 THEN ss[i] ELSE g[i - 1] \o ss[i]]
    BY <2>3
  <2>5. FlattenLoop(g, ss)
    BY <2>4, Zenon DEF FlattenLoop
  <2>6. FlattenLoop(h, ss)
    BY <2>5, Zenon
  <2> DEFINE p == [k \in 0..N |-> IF k = 0 THEN <<>> ELSE h[k]]
  <2> HIDE DEF h, g
  <2>7. p[0] = f[0]
    BY <1>1, <1>4
  <2>8. \A k \in 1..N : p[k - 1] = f[k - 1] => p[k] = f[k]
    <3> SUFFICES ASSUME NEW k \in 1..N, p[k - 1] = f[k - 1] PROVE p[k] = f[k]
      OBVIOUS
    <3>1. k \in 0..N /\ k # 0 /\ k - 1 \in 0..N /\ p[k] = h[k]
      BY <1>1
    <3>2. h[k] = IF k = 1 THEN ss[k] ELSE h[k - 1] \o ss[k]
      BY <2>6 DEF FlattenLoop
    <3>3. CASE k = 1
      BY <2>2, <3>1, <3>2, <3>3
    <3>4. CASE k # 1
      <4>1. p[k - 1] = h[k - 1]
        BY <3>1, <3>4
      <4> QED
        BY <1>4, <3>1, <3>2, <3>4, <4>1
    <3> QED
      BY <3>3, <3>4
  <2> HIDE DEF p
  <2>9. \A k \in 0..N : p[k] = f[k]
    <3>1. Alike(p, f, N)
      BY <2>7, <2>8 DEF Alike
    <3> QED
      BY <1>1, <3>1, TurnsAgree
  <2>10. p[N] = h[N]
    BY <1>1, <1>7 DEF p
  <2> QED
    BY <1>1, <1>5, <2>1, <2>9, <2>10
<1> QED
  BY <1>6, <1>7

\* Flattening lays the parts in a row.
LEMMA FlattenIs ==
  ASSUME NEW X, NEW ss \in Seq(Seq(X))
  PROVE  FlattenSeq(ss) \in Seq(X) /\ \E o : Laid(o, ss, FlattenSeq(ss))
<1> DEFINE N == Len(ss)
<1>1. PICK f \in [0..N -> Seq(X)] : Joins(f, ss) /\ FlattenSeq(ss) = f[N]
  BY FlattenTurns
<1>2. N \in Nat /\ \A k \in 1..N : ss[k] \in Seq(X) /\ Len(ss[k]) \in Nat
  OBVIOUS
<1> DEFINE o == [k \in 0..N |-> Len(f[k])]
<1> HIDE DEF N
<1>3. \A k \in 0..N : f[k] \in Seq(X) /\ o[k] = Len(f[k]) /\ o[k] \in Nat
  BY <1>1
<1>4. \A k \in 1..N : k \in 0..N /\ k - 1 \in 0..N
  BY <1>2
<1>5. ASSUME NEW k \in 1..N
      PROVE  /\ o[k] = o[k - 1] + Len(ss[k])
             /\ \A j \in 1..o[k - 1] : f[k][j] = f[k - 1][j]
             /\ \A j \in 1..Len(ss[k]) : f[k][o[k - 1] + j] = ss[k][j]
  <2>1. f[k] = f[k - 1] \o ss[k]
    BY <1>1 DEF Joins, N
  <2>2. /\ f[k - 1] \in Seq(X) /\ ss[k] \in Seq(X)
        /\ o[k] = Len(f[k]) /\ o[k - 1] = Len(f[k - 1])
    BY <1>2, <1>3, <1>4
  <2> HIDE DEF o
  <2> DEFINE a == f[k - 1]
             c == ss[k]
  <2>3. a \in Seq(X) /\ c \in Seq(X)
    BY <2>2
  <2> HIDE DEF a, c
  <2>4. /\ Len(a \o c) = Len(a) + Len(c)
        /\ \A i \in 1..Len(a) : (a \o c)[i] = a[i]
        /\ \A i \in 1..Len(c) : (a \o c)[Len(a) + i] = c[i]
    BY <2>3, ConcatIs
  <2> QED
    BY <2>1, <2>2, <2>4, Zenon DEF a, c
<1>6. o[0] = 0
  BY <1>1, <1>2 DEF Joins
<1>7. Sums(o, Lens(ss))
  <2>1. Len(Lens(ss)) = N /\ \A k \in 1..N : Lens(ss)[k] = Len(ss[k])
    BY LensType DEF N
  <2>2. o \in [0..N -> Nat]
    BY <1>3
  <2> HIDE DEF o
  <2> QED
    BY <1>5, <1>6, <2>1, <2>2 DEF Sums
<1> HIDE DEF o
<1> DEFINE P(i) == \A k \in 1..i : \A j \in 1..Len(ss[k]) : f[i][o[k - 1] + j] = ss[k][j]
           T == {i \in 0..N : ~P(i)}
<1>8. T = {}
  <2>1. SUFFICES ASSUME T # {} PROVE FALSE
    OBVIOUS
  <2>2. T \in SUBSET Nat
    BY <1>2
  <2>3. PICK i \in T : \A y \in T : i <= y
    <3> HIDE DEF T
    <3> QED
      BY <2>1, <2>2, LeastNat, Zenon
  <2>4. i \in 0..N /\ ~P(i)
    BY <2>3
  <2>5. i # 0
    BY <2>4
  <2>6. i \in 1..N /\ i - 1 \in 0..N /\ ~(i <= i - 1)
    BY <1>2, <2>4, <2>5
  <2>7. i - 1 \notin T
    <3> HIDE DEF T
    <3> QED
      BY <2>3, <2>6, Zenon
  <2>8. P(i - 1)
    BY <2>6, <2>7
  <2>9. ASSUME NEW k \in 1..i, NEW j \in 1..Len(ss[k]) PROVE f[i][o[k - 1] + j] = ss[k][j]
    <3>1. CASE k = i
      BY <1>5, <2>6, <3>1
    <3>2. CASE k # i
      <4>1. k \in 1..i - 1 /\ k \in 1..N /\ k \in 0..i - 1
        <5>1. N \in Nat /\ i \in 1..N /\ k \in 1..i /\ k # i
          BY <1>2, <2>6, <3>2
        <5> QED
          BY ONLY <5>1
      <4>2. f[i - 1][o[k - 1] + j] = ss[k][j]
        BY <2>8, <4>1
      <4>3. o[k] <= o[i - 1]
        <5>1. Lens(ss) \in Seq(Nat) /\ Len(Lens(ss)) = N
          BY LensType DEF N
        <5>2. k \in 0..N /\ i - 1 \in 0..N /\ k <= i - 1
          BY <1>2, <2>6, <4>1
        <5> QED
          BY <1>7, <5>1, <5>2, SumsGrow
      <4>4. o[k - 1] + j \in 1..o[i - 1]
        <5>1. o[k] = o[k - 1] + Len(ss[k])
          BY <1>5, <4>1
        <5>2. o[k - 1] \in Nat /\ o[i - 1] \in Nat /\ Len(ss[k]) \in Nat /\ j \in 1..Len(ss[k])
          BY <1>2, <1>3, <1>4, <2>6, <4>1
        <5>3. j \in Nat /\ 1 <= j /\ j <= Len(ss[k])
          BY <5>2
        <5> HIDE DEF P, T
        <5> QED
          BY ONLY <4>3, <5>1, <5>2, <5>3
      <4> QED
        BY <1>5, <2>6, <4>2, <4>4
    <3> QED
      BY <3>1, <3>2
  <2> QED
    BY <2>4, <2>9
<1>9. P(N)
  <2>1. N \in 0..N
    BY <1>2
  <2> HIDE DEF P
  <2> QED
    BY <1>8, <2>1
<1>10. Laid(o, ss, FlattenSeq(ss))
  <2>1. Len(FlattenSeq(ss)) = o[N]
    BY <1>1, <1>2, <1>3
  <2> QED
    BY <1>1, <1>7, <1>9, <2>1 DEF Laid, N
<1>11. FlattenSeq(ss) \in Seq(X)
  BY <1>1, <1>2, <1>3
<1> QED
  BY <1>10, <1>11

\* The places of the parts are what the sums of their lengths say.
LEMMA FlattenLaid ==
  ASSUME NEW X, NEW ss \in Seq(Seq(X)), NEW o, Sums(o, Lens(ss))
  PROVE  Laid(o, ss, FlattenSeq(ss))
<1> DEFINE N == Len(ss)
<1>1. PICK p : Laid(p, ss, FlattenSeq(ss))
  BY FlattenIs
<1>2. N \in Nat /\ Len(Lens(ss)) = N
  BY LensType
<1>3. /\ p[0] = 0 /\ o[0] = 0
      /\ \A k \in 1..N : o[k] = o[k - 1] + Lens(ss)[k]
      /\ \A k \in 1..N : p[k] = p[k - 1] + Lens(ss)[k]
  BY <1>1, <1>2, Zenon DEF Laid, Sums
<1>4. p[0] = o[0]
  BY <1>3
<1>5. \A k \in 1..N : p[k - 1] = o[k - 1] => p[k] = o[k]
  BY <1>3, Zenon
<1> HIDE DEF N
<1>6. \A k \in 0..N : p[k] = o[k]
  <2>1. Alike(p, o, N)
    BY <1>4, <1>5 DEF Alike
  <2> QED
    BY <1>2, <2>1, TurnsAgree
<1>7. N \in 0..N /\ \A k \in 1..N : k - 1 \in 0..N
  BY <1>2
<1>8. p[N] = o[N] /\ \A k \in 1..N : p[k - 1] = o[k - 1]
  BY <1>6, <1>7, Zenon
<1> QED
  BY <1>1, <1>8, Zenon DEF Laid, N

\* A row is told by its parts.
LEMMA FlattenEquals ==
  ASSUME NEW X, NEW ss \in Seq(Seq(X)), NEW s \in Seq(X), NEW o, Laid(o, ss, s)
  PROVE  FlattenSeq(ss) = s
<1> DEFINE t == FlattenSeq(ss)
           N == Len(ss)
<1>1. t \in Seq(X) /\ Laid(o, ss, t)
  BY FlattenIs, FlattenLaid DEF Laid
<1>2. Len(t) = o[N] /\ Len(s) = o[N]
  BY <1>1 DEF Laid
<1>3. /\ Lens(ss) \in Seq(Nat) /\ Len(Lens(ss)) = N /\ Sums(o, Lens(ss))
      /\ \A k \in 1..N : Lens(ss)[k] = Len(ss[k]) /\ Len(ss[k]) \in Nat
  BY LensType DEF Laid
<1> HIDE DEF t, N
<1>4. ASSUME NEW i \in 1..o[N] PROVE t[i] = s[i]
  <2>1. PICK k \in 1..N : o[k - 1] < i /\ i <= o[k]
    BY <1>3, Located
  <2>2. o[k] = o[k - 1] + Len(ss[k])
    BY <1>3 DEF Sums
  <2>3. o[k - 1] \in Nat /\ o[N] \in Nat
    <3>1. N \in Nat
      BY <1>3
    <3>2. o \in [0..N -> Nat] /\ k - 1 \in 0..N /\ N \in 0..N
      BY <1>3, <3>1 DEF Sums
    <3> QED
      BY <3>2
  <2> DEFINE j == i - o[k - 1]
  <2>4. j \in 1..Len(ss[k]) /\ o[k - 1] + j = i
    <3>1. Len(ss[k]) \in Nat /\ i \in Nat
      BY <1>3, <2>3
    <3> QED
      BY <2>1, <2>2, <2>3, <3>1
  <2> HIDE DEF j
  <2>5. t[o[k - 1] + j] = ss[k][j] /\ s[o[k - 1] + j] = ss[k][j]
    BY <1>1, <2>4 DEF Laid, N
  <2> QED
    BY <2>4, <2>5
<1>5. t = s
  BY <1>1, <1>2, <1>4
<1> QED
  BY <1>5 DEF t

\* The total of one number more.
LEMMA TotalOneMore ==
  ASSUME NEW s \in Seq(Nat), NEW t \in Seq(Nat), Len(t) = Len(s) + 1,
         \A k \in 1..Len(s) : t[k] = s[k]
  PROVE  Total(t) = Total(s) + t[Len(t)]
<1> DEFINE n == Len(s)
<1>1. n \in Nat /\ n + 1 \in 1..Len(t) /\ t[n + 1] \in Nat
  OBVIOUS
<1>2. PICK a : Sums(a, s)
  BY SumsExist
<1> DEFINE c == [k \in 0..n + 1 |-> IF k = n + 1 THEN a[n] + t[n + 1] ELSE a[k]]
<1>3. a \in [0..n -> Nat] /\ a[0] = 0 /\ \A k \in 1..n : a[k] = a[k - 1] + s[k]
  BY <1>2 DEF Sums
<1>4. n \in 0..n /\ a[n] \in Nat
  BY <1>1, <1>3
<1>5. Total(s) = a[n]
  BY <1>2, TotalIs, <1>1
<1>6. c[0] = 0 /\ c[n + 1] = a[n] + t[n + 1]
  BY <1>1, <1>3
<1>7. ASSUME NEW k \in 0..n + 1 PROVE c[k] \in Nat
  <2>1. CASE k # n + 1
    <3>1. k \in 0..n
      BY <1>1, <2>1
    <3>2. a[k] \in Nat
      BY <1>3, <3>1
    <3> QED
      BY <2>1, <3>2
  <2>2. CASE k = n + 1
    <3>1. c[k] = a[n] + t[n + 1] /\ t[n + 1] \in Nat
      BY <1>1, <2>2
    <3> HIDE DEF c
    <3> QED
      BY <1>4, <3>1
  <2> QED
    BY <2>1, <2>2
<1>8. ASSUME NEW k \in 1..n + 1 PROVE c[k] = c[k - 1] + t[k]
  <2>1. CASE k = n + 1
    <3>1. k - 1 = n /\ n \in 0..n + 1 /\ n # n + 1
      BY <1>1, <2>1
    <3>2. c[k - 1] = a[n]
      BY <3>1
    <3> QED
      BY <1>6, <2>1, <3>2
  <2>2. CASE k # n + 1
    <3>1. k \in 1..n /\ k \in 0..n + 1 /\ k - 1 \in 0..n + 1 /\ k - 1 # n + 1
      BY <1>1, <2>2
    <3>2. c[k] = a[k] /\ c[k - 1] = a[k - 1]
      BY <2>2, <3>1
    <3> QED
      BY <1>3, <3>1, <3>2
  <2> QED
    BY <2>1, <2>2
<1>9. Len(t) = n + 1
  OBVIOUS
<1>10. c \in [0..n + 1 -> Nat]
  BY <1>7
<1> HIDE DEF c, n
<1>11. Sums(c, t)
  BY <1>6, <1>8, <1>9, <1>10 DEF Sums
<1>12. Total(t) = c[n + 1]
  BY <1>1, <1>9, <1>11, TotalIs
<1> QED
  BY <1>5, <1>6, <1>9, <1>12

\* Two sequences of numbers in a row.
LEMMA TotalConcat ==
  ASSUME NEW s \in Seq(Nat), NEW t \in Seq(Nat)
  PROVE  Total(s \o t) = Total(s) + Total(t)
<1> DEFINE n == Len(s)
           m == Len(t)
           u == s \o t
<1>1. n \in Nat /\ m \in Nat
  OBVIOUS
<1>2. PICK a : Sums(a, s)
  BY SumsExist
<1>3. PICK b : Sums(b, t)
  BY SumsExist
<1> DEFINE c == [k \in 0..n + m |-> IF k <= n THEN a[k] ELSE a[n] + b[k - n]]
<1>4. a \in [0..n -> Nat] /\ a[0] = 0 /\ \A k \in 1..n : a[k] = a[k - 1] + s[k]
  BY <1>2 DEF Sums
<1>5. b \in [0..m -> Nat] /\ b[0] = 0 /\ \A k \in 1..m : b[k] = b[k - 1] + t[k]
  BY <1>3 DEF Sums
<1>6. Total(s) = a[n] /\ Total(t) = b[m]
  BY <1>1, <1>2, <1>3, TotalIs
<1>7. n \in 0..n /\ m \in 0..m /\ 0 \in 0..m /\ a[n] \in Nat /\ b[m] \in Nat
  <2> HIDE DEF n, m
  <2>1. n \in 0..n /\ m \in 0..m /\ 0 \in 0..m
    BY <1>1
  <2>2. a[n] \in Nat
    BY <1>4, <2>1
  <2>3. b[m] \in Nat
    BY <1>5, <2>1
  <2> QED
    BY <2>1, <2>2, <2>3
<1>8. /\ u \in Seq(Nat) /\ Len(u) = n + m
      /\ \A k \in 1..n : u[k] = s[k]
      /\ \A k \in 1..m : u[n + k] = t[k]
  BY ConcatIs
<1> HIDE DEF n, m, u
<1>9. ASSUME NEW k \in 0..n + m PROVE c[k] \in Nat
  <2>1. CASE k <= n
    <3>1. k \in 0..n
      BY <1>1, <2>1
    <3> QED
      BY <1>4, <2>1, <3>1
  <2>2. CASE ~(k <= n)
    <3>1. k - n \in 0..m
      BY <1>1, <2>2
    <3>2. b[k - n] \in Nat
      BY <1>5, <3>1
    <3>3. c[k] = a[n] + b[k - n]
      BY <2>2
    <3> HIDE DEF c
    <3> QED
      BY <1>7, <3>2, <3>3
  <2> QED
    BY <2>1, <2>2
<1>10. c[0] = 0 /\ c[n + m] = a[n] + b[m]
  <2>1. 0 \in 0..n + m /\ 0 <= n /\ n + m \in 0..n + m
    BY <1>1
  <2>2. CASE m = 0
    <3>1. n + m = n /\ n <= n
      BY <1>1, <2>2
    <3>2. c[n + m] = a[n]
      BY <2>1, <3>1
    <3> QED
      BY <1>4, <1>5, <1>7, <2>1, <2>2, <3>2
  <2>3. CASE m # 0
    <3>1. ~(n + m <= n) /\ n + m - n = m
      BY <1>1, <2>3
    <3> DEFINE e == n + m
    <3>4. e \in 0..n + m /\ ~(e <= n) /\ e - n = m
      <4> HIDE DEF c
      <4> QED
        BY <1>1, <2>1, <3>1
    <3> HIDE DEF e
    <3>5. c[e] = a[n] + b[e - n]
      BY <3>4
    <3>2. c[n + m] = a[n] + b[m]
      BY <3>4, <3>5, Zenon DEF e
    <3>3. c[0] = a[0]
      BY <2>1
    <3> HIDE DEF c
    <3> QED
      BY <1>4, <3>2, <3>3
  <2> QED
    BY <2>2, <2>3
<1>11. ASSUME NEW k \in 1..n + m PROVE c[k] = c[k - 1] + u[k]
  <2>1. k \in 0..n + m /\ k - 1 \in 0..n + m
    BY <1>1
  <2>2. CASE k <= n
    <3>1. k \in 1..n /\ k - 1 <= n
      BY <1>1, <2>2
    <3>2. c[k] = a[k] /\ c[k - 1] = a[k - 1]
      BY <2>1, <2>2, <3>1
    <3> QED
      BY <1>4, <1>8, <3>1, <3>2
  <2>3. CASE ~(k <= n)
    <3> DEFINE j == k - n
    <3>1. j \in 1..m /\ n + j = k /\ j - 1 \in 0..m /\ j - 1 = k - 1 - n
      BY <1>1, <2>3
    <3>2. c[k] = a[n] + b[j]
      BY <2>1, <2>3
    <3>3. c[k - 1] = a[n] + b[j - 1]
      <4>1. CASE k - 1 <= n
        <5>1. k - 1 = n /\ j - 1 = 0
          BY <1>1, <2>3, <4>1
        <5>2. c[k - 1] = a[n]
          BY <2>1, <4>1, <5>1
        <5> QED
          BY <1>5, <1>7, <5>1, <5>2
      <4>2. CASE ~(k - 1 <= n)
        BY <2>1, <3>1, <4>2
      <4> QED
        BY <4>1, <4>2
    <3> HIDE DEF j, c
    <3>4. b[j] = b[j - 1] + t[j] /\ u[k] = t[j] /\ b[j - 1] \in Nat
      BY <1>5, <1>8, <3>1
    <3>5. t[j] \in Nat
      BY <3>1 DEF m
    <3>6. a[n] \in Nat
      BY <1>7
    <3> QED
      BY ONLY <3>2, <3>3, <3>4, <3>5, <3>6
  <2> QED
    BY <2>2, <2>3
<1>12. c \in [0..n + m -> Nat]
  BY <1>9
<1> HIDE DEF c
<1>13. Sums(c, u)
  BY <1>8, <1>10, <1>11, <1>12 DEF Sums
<1>14. Total(u) = c[n + m]
  <2>1. Len(u) = n + m /\ n + m \in Nat
    BY <1>1, <1>8
  <2> QED
    BY <1>13, <2>1, TotalIs
<1> QED
  BY <1>6, <1>10, <1>14 DEF u

\* The total of no number is 0.
LEMMA TotalEmpty == Total(<<>>) = 0
<1>1. <<>> \in Seq(Nat) /\ Len(<<>>) = 0
  OBVIOUS
<1>2. PICK t : Sums(t, <<>>)
  BY <1>1, SumsExist
<1>3. Total(<<>>) = t[0]
  BY <1>1, <1>2, TotalIs
<1> QED
  BY <1>2, <1>3 DEF Sums

-----------------------------------------------------------------------------
(* Words and groups.                                                        *)

\* Four times a number is a multiple of four.
LEMMA FourTimes ==
  ASSUME NEW k \in Nat
  PROVE  (4 * k) % 4 = 0
  OBVIOUS

\* A size is rounded up to a word.
LEMMA RoundUpIs ==
  ASSUME NEW n \in Nat
  PROVE  /\ RoundUp(n) \in Nat /\ RoundUp(n) % 4 = 0
         /\ n <= RoundUp(n) /\ RoundUp(n) < n + 4
         /\ n % 4 = 0 => RoundUp(n) = n
  BY SMT DEF RoundUp

\* The next multiple of a word is the only one within a word.
LEMMA RoundUpSays ==
  ASSUME NEW n \in Nat, NEW m \in Nat, m % 4 = 0, n <= m, m < n + 4
  PROVE  RoundUp(n) = m
  BY SMT DEF RoundUp

\* The number of groups.
LEMMA GroupsAre ==
  ASSUME NEW n \in Nat
  PROVE  /\ Groups(n) \in Nat /\ n <= Groups(n) * MaxCount
         /\ n = 0 => Groups(n) = 0
         /\ n # 0 => Groups(n) # 0 /\ (Groups(n) - 1) * MaxCount < n
<1> DEFINE M == MaxCount
           q == n \div M
           r == n % M
<1>1. M \in Nat \ {0}
  BY CountAssumption
<1>2. q \in Int /\ r \in 0..(M - 1) /\ n = M * q + r
  BY <1>1, Divided
<1>3. Groups(n) = q + (IF r # 0 THEN 1 ELSE 0)
  BY DEF Groups
<1> HIDE DEF M, q, r
<1>4. q >= 0
  <2>1. SUFFICES ASSUME q <= -1 PROVE FALSE
    BY <1>2
  <2>2. M * q <= M * (-1)
    BY <1>1, <1>2, <2>1, SMT
  <2> QED
    BY <1>1, <1>2, <2>2, SMT
<1>5. M * q = q * M
  BY <1>1, <1>2, SMT
<1>6. CASE r = 0
  <2>1. Groups(n) = q /\ q * M = n
    BY <1>1, <1>2, <1>3, <1>5, <1>6
  <2>2. n = 0 => q = 0
    <3>1. q >= 1 => q * M >= 1
      BY <1>1, <1>2, SMT
    <3> QED
      BY <1>2, <1>4, <2>1, <3>1
  <2>3. n # 0 => q # 0
    BY <1>1, <2>1, SMT
  <2>4. (q - 1) * M = q * M - M
    BY <1>1, <1>2, SMT
  <2>5. (q - 1) * M < n
    BY <1>1, <2>1, <2>4
  <2> QED
    BY <1>2, <1>4, <2>1, <2>2, <2>3, <2>5 DEF M
<1>7. CASE r # 0
  <2>1. Groups(n) = q + 1
    BY <1>3, <1>7
  <2>2. (q + 1) * M = q * M + M /\ q + 1 - 1 = q
    BY <1>1, <1>2, SMT
  <2>3. q * M \in Int
    BY <1>1, <1>2, SMT
  <2>4. q * M < n /\ n <= q * M + M /\ n # 0
    <3>1. q * M >= 0
      BY <1>1, <1>2, <1>4, SMT
    <3> QED
      BY <1>1, <1>2, <1>5, <1>7, <2>3, <3>1
  <2> QED
    BY <1>2, <1>4, <2>1, <2>2, <2>4 DEF M
<1> QED
  BY <1>6, <1>7

\* Where the i-th group of n elements ends.
Ends(n, i) == IF i * MaxCount < n THEN i * MaxCount ELSE n

\* N groups are enough for n elements, and none begins behind them.
Enough(n, N) == N \in Nat /\ n <= N * MaxCount /\ (N # 0 => (N - 1) * MaxCount <= n)

\* A group is a piece.
LEMMA GroupIs ==
  ASSUME NEW X, NEW s \in Seq(X), NEW N, Enough(Len(s), N), NEW i \in 1..N
  PROVE  /\ Group(s, i) \in Seq(X)
         /\ Ends(Len(s), i - 1) = (i - 1) * MaxCount
         /\ (i - 1) * MaxCount \in Nat /\ Ends(Len(s), i) \in Nat /\ Ends(Len(s), i) <= Len(s)
         /\ Ends(Len(s), i) = (i - 1) * MaxCount + Len(Group(s, i))
         /\ Len(Group(s, i)) \in 0..MaxCount
         /\ \A j \in 1..Len(Group(s, i)) : /\ (i - 1) * MaxCount + j \in 1..Len(s)
                                           /\ Group(s, i)[j] = s[(i - 1) * MaxCount + j]
<1> DEFINE n == Len(s)
           M == MaxCount
           a == (i - 1) * M
           e == Ends(n, i)
           g == Group(s, i)
<1>1. n \in Nat /\ M \in Nat \ {0} /\ N \in Nat /\ i \in Nat /\ i >= 1 /\ i <= N
  BY CountAssumption DEF Enough
<1>2. a \in Nat /\ a <= n /\ i * M = a + M
  <2>1. (N - 1) * M <= n
    BY <1>1 DEF Enough
  <2> HIDE DEF n, M
  <2>2. (i - 1) * M <= (N - 1) * M /\ (i - 1) * M >= 0 /\ (i - 1) * M \in Int /\ (N - 1) * M \in Int
    <3>1. i - 1 \in Nat /\ N - 1 \in Nat /\ i - 1 <= N - 1
      BY <1>1
    <3> DEFINE x == i - 1
               y == N - 1
    <3> HIDE DEF x, y
    <3>2. x \in Nat /\ y \in Nat /\ x <= y
      BY <3>1 DEF x, y
    <3>3. x * M <= y * M /\ x * M >= 0 /\ x * M \in Int /\ y * M \in Int
      BY <1>1, <3>2, SMT
    <3> QED
      BY <3>3 DEF x, y
  <2>3. i * M = a + M
    BY <1>1, SMT
  <2> QED
    BY <1>1, <2>1, <2>2, <2>3
<1>3. e = (IF a + M < n THEN a + M ELSE n) /\ g = SubSeq(s, a + 1, e)
  BY <1>2 DEF Ends, Group
<1>4. Ends(n, i - 1) = a
  <2>1. Ends(n, i - 1) = IF a < n THEN a ELSE n
    BY DEF Ends
  <2> HIDE DEF a, n
  <2> QED
    BY <1>1, <1>2, <2>1
<1> HIDE DEF a, e, g, M
<1>5. e \in Nat /\ e <= n /\ a <= e /\ e <= a + M
  BY <1>1, <1>2, <1>3
<1>6. \A k \in a + 1..e : s[k] \in X
  BY <1>1, <1>2, <1>5
<1>7. /\ g \in Seq(X) /\ Len(g) = (IF a + 1 <= e THEN e - (a + 1) + 1 ELSE 0)
      /\ \A k \in 1..e - (a + 1) + 1 : g[k] = s[a + 1 + k - 1]
  <2>1. a + 1 \in Int /\ e \in Int
    BY <1>2, <1>5
  <2> QED
    BY <1>3, <1>6, <2>1, SubSeqProperties
<1> HIDE DEF n
<1>8. Len(g) = e - a
  <2>1. a \in Nat /\ e \in Nat /\ a <= e
        /\ Len(g) = (IF a + 1 <= e THEN e - (a + 1) + 1 ELSE 0)
    BY <1>2, <1>5, <1>7
  <2> QED
    BY ONLY <2>1
<1>9. ASSUME NEW j \in 1..Len(g) PROVE a + j \in 1..n /\ g[j] = s[a + j]
  <2>1. j \in 1..e - (a + 1) + 1 /\ a + 1 + j - 1 = a + j /\ a + j \in 1..n
    BY <1>1, <1>2, <1>5, <1>8
  <2> QED
    BY <1>7, <2>1
<1>10. Len(g) \in 0..M /\ e = a + Len(g)
  BY <1>1, <1>2, <1>5, <1>8
<1> QED
  BY <1>2, <1>4, <1>5, <1>7, <1>9, <1>10 DEF a, e, g, n, M

\* The groups of s.
AllGroups(s, N) == [i \in 1..N |-> Group(s, i)]

\* Their ends are where a row of them lies.
LEMMA GroupSums ==
  ASSUME NEW X, NEW s \in Seq(X), NEW N, Enough(Len(s), N)
  PROVE  /\ AllGroups(s, N) \in Seq(Seq(X)) /\ Len(AllGroups(s, N)) = N
         /\ Sums([i \in 0..N |-> Ends(Len(s), i)], Lens(AllGroups(s, N)))
         /\ Ends(Len(s), 0) = 0 /\ Ends(Len(s), N) = Len(s)
<1> DEFINE n == Len(s)
           g == AllGroups(s, N)
           o == [i \in 0..N |-> Ends(n, i)]
<1>1. N \in Nat /\ n \in Nat /\ MaxCount \in Nat \ {0} /\ n <= N * MaxCount
  BY CountAssumption DEF Enough
<1>2. \A i \in 1..N : /\ Group(s, i) \in Seq(X) /\ Len(Group(s, i)) \in Nat
                      /\ Ends(n, i) \in Nat
                      /\ Ends(n, i) = Ends(n, i - 1) + Len(Group(s, i))
  BY GroupIs
<1>3. Ends(n, 0) = 0 /\ Ends(n, N) = n
  <2>1. 0 * MaxCount = 0 /\ N * MaxCount \in Nat
    BY <1>1, SMT
  <2> QED
    BY <1>1, <2>1 DEF Ends
<1> HIDE DEF n
<1>4. g \in Seq(Seq(X)) /\ Len(g) = N /\ \A i \in 1..N : g[i] = Group(s, i)
  BY <1>1, <1>2 DEF AllGroups
<1> HIDE DEF g
<1>5. Len(Lens(g)) = N /\ \A i \in 1..N : Lens(g)[i] = Len(Group(s, i))
  <2>1. Len(Lens(g)) = Len(g) /\ \A k \in 1..Len(g) : Lens(g)[k] = Len(g[k])
    BY <1>4, LensType
  <2> QED
    BY <1>4, <2>1
<1>6. o \in [0..N -> Nat]
  <2>1. \A i \in 0..N : i = 0 \/ i \in 1..N
    BY <1>1
  <2>2. \A i \in 0..N : Ends(n, i) \in Nat
    BY <1>2, <1>3, <2>1
  <2> QED
    BY <2>2
<1>7. \A i \in 1..N : o[i] = Ends(n, i) /\ o[i - 1] = Ends(n, i - 1)
  <2>1. \A i \in 1..N : i \in 0..N /\ i - 1 \in 0..N
    BY <1>1
  <2> QED
    BY <2>1
<1>8. o[0] = 0
  BY <1>1, <1>3
<1> HIDE DEF o
<1>9. Sums(o, Lens(g))
  BY <1>2, <1>5, <1>6, <1>7, <1>8 DEF Sums
<1> QED
  BY <1>3, <1>4, <1>9 DEF o, g, n

\* The groups in a row are s.
LEMMA FlattenGroups ==
  ASSUME NEW X, NEW s \in Seq(X), NEW N, Enough(Len(s), N)
  PROVE  FlattenSeq(AllGroups(s, N)) = s
<1> DEFINE n == Len(s)
           g == AllGroups(s, N)
           o == [i \in 0..N |-> Ends(n, i)]
<1>1. /\ g \in Seq(Seq(X)) /\ Len(g) = N /\ Sums(o, Lens(g))
      /\ Ends(n, N) = n
  BY GroupSums
<1>5. N \in Nat
  BY DEF Enough
<1>2. ASSUME NEW i \in 1..N, NEW j \in 1..Len(g[i]) PROVE s[o[i - 1] + j] = g[i][j]
  <2>1. g[i] = Group(s, i)
    BY DEF AllGroups
  <2>2. o[i - 1] = (i - 1) * MaxCount
    <3>1. i - 1 \in 0..N
      BY <1>5
    <3>2. o[i - 1] = Ends(n, i - 1)
      BY <3>1
    <3> HIDE DEF o, g
    <3> QED
      BY <3>2, GroupIs
  <2> HIDE DEF o, g
  <2> QED
    BY <2>1, <2>2, GroupIs
<1>3. o[N] = n
  BY <1>1, <1>5
<1> HIDE DEF g, o
<1>4. Laid(o, g, s)
  BY <1>1, <1>2, <1>3 DEF Laid, n
<1> QED
  BY <1>1, <1>4, FlattenEquals DEF g

\* The lengths of parts in a row, and of what they make.
LEMMA FlattenLength ==
  ASSUME NEW X, NEW ss \in Seq(Seq(X))
  PROVE  Len(FlattenSeq(ss)) = Total(Lens(ss))
<1>1. PICK o : Laid(o, ss, FlattenSeq(ss))
  BY FlattenIs
<1>2. Len(Lens(ss)) = Len(ss) /\ Len(ss) \in Nat
  BY LensType
<1> QED
  BY <1>1, <1>2, TotalIs DEF Laid

\* More parts, more lengths.
LEMMA LensConcat ==
  ASSUME NEW X, NEW a \in Seq(Seq(X)), NEW b \in Seq(Seq(X))
  PROVE  Total(Lens(a \o b)) = Total(Lens(a)) + Total(Lens(b))
<1> DEFINE c == a \o b
           u == Lens(a) \o Lens(b)
<1>1. /\ c \in Seq(Seq(X)) /\ Len(c) = Len(a) + Len(b)
      /\ \A i \in 1..Len(a) : c[i] = a[i]
      /\ \A i \in 1..Len(b) : c[Len(a) + i] = b[i]
  BY ConcatIs
<1>2. /\ Lens(a) \in Seq(Nat) /\ Len(Lens(a)) = Len(a)
      /\ \A k \in 1..Len(a) : Lens(a)[k] = Len(a[k])
  BY LensType
<1>3. /\ Lens(b) \in Seq(Nat) /\ Len(Lens(b)) = Len(b)
      /\ \A k \in 1..Len(b) : Lens(b)[k] = Len(b[k])
  BY LensType
<1>4. /\ Lens(c) \in Seq(Nat) /\ Len(Lens(c)) = Len(c)
      /\ \A k \in 1..Len(c) : Lens(c)[k] = Len(c[k])
  <2> HIDE DEF c
  <2> QED
    BY <1>1, LensType
<1>5. /\ u \in Seq(Nat) /\ Len(u) = Len(a) + Len(b)
      /\ \A i \in 1..Len(a) : u[i] = Lens(a)[i]
      /\ \A i \in 1..Len(b) : u[Len(a) + i] = Lens(b)[i]
  <2> DEFINE v == Lens(a)
             w == Lens(b)
  <2>1. v \in Seq(Nat) /\ w \in Seq(Nat) /\ Len(v) = Len(a) /\ Len(w) = Len(b)
    BY <1>2, <1>3
  <2> HIDE DEF v, w
  <2>3. v \in Seq(Nat) /\ w \in Seq(Nat)
    BY <2>1
  <2>2. /\ v \o w \in Seq(Nat) /\ Len(v \o w) = Len(v) + Len(w)
        /\ \A i \in 1..Len(v) : (v \o w)[i] = v[i]
        /\ \A i \in 1..Len(w) : (v \o w)[Len(v) + i] = w[i]
    BY <2>3, ConcatIs
  <2> QED
    BY <2>1, <2>2 DEF v, w
<1> DEFINE n == Len(a)
           m == Len(b)
<1>6. n \in Nat /\ m \in Nat
  OBVIOUS
<1> HIDE DEF c, u, n, m
<1>7. ASSUME NEW k \in 1..n + m PROVE Lens(c)[k] = u[k]
  <2>1. CASE k <= n
    <3>1. k \in 1..n /\ k \in 1..Len(c)
      BY <1>1, <1>6, <2>1 DEF n, m
    <3> QED
      BY <1>1, <1>2, <1>4, <1>5, <3>1, Zenon DEF n
  <2>2. CASE ~(k <= n)
    <3> DEFINE j == k - n
    <3>1. j \in 1..m /\ n + j = k
      BY <1>6, <2>2
    <3> HIDE DEF j
    <3>2. n + j \in 1..Len(c)
      BY <1>1, <1>6, <3>1 DEF n, m
    <3>3. Lens(c)[n + j] = u[n + j]
      BY <1>1, <1>3, <1>4, <1>5, <3>1, <3>2, Zenon DEF n, m
    <3> QED
      BY <3>1, <3>3
  <2> QED
    BY <2>1, <2>2
<1>8. Len(Lens(c)) = n + m /\ Len(u) = n + m
  BY <1>1, <1>4, <1>5 DEF n, m
<1>9. Lens(c) = u
  <2> DEFINE v == Lens(c)
  <2>1. v \in Seq(Nat) /\ u \in Seq(Nat) /\ Len(v) = n + m /\ Len(u) = n + m
    BY <1>4, <1>5, <1>8
  <2>2. \A k \in 1..n + m : v[k] = u[k]
    BY <1>7
  <2> HIDE DEF v
  <2>3. v = u
    BY <2>1, <2>2
  <2> QED
    BY <2>3 DEF v
<1>10. Total(u) = Total(Lens(a)) + Total(Lens(b))
  BY <1>2, <1>3, TotalConcat DEF u
<1> QED
  BY <1>9, <1>10 DEF c

\* Parts of the same length.
LEMMA SameLength ==
  ASSUME NEW X, NEW ss \in Seq(Seq(X)), NEW w \in Nat,
         \A k \in 1..Len(ss) : Len(ss[k]) = w
  PROVE  /\ Len(FlattenSeq(ss)) = w * Len(ss)
         /\ \A k \in 1..Len(ss) : \A j \in 1..w :
               FlattenSeq(ss)[w * (k - 1) + j] = ss[k][j]
<1> DEFINE N == Len(ss)
           o == [k \in 0..N |-> w * k]
<1>1. /\ N \in Nat /\ Len(Lens(ss)) = N /\ \A k \in 1..N : Lens(ss)[k] = w
  BY LensType
<1> HIDE DEF N
<1>2. ASSUME NEW k \in 0..N PROVE w * k \in Nat
  BY <1>1, <1>2, SMT
<1>3. o \in [0..N -> Nat]
  BY <1>2
<1>4. w * 0 = 0 /\ \A k \in 1..N : w * k = w * (k - 1) + w
  BY <1>1, SMT
<1>5. o[0] = 0 /\ \A k \in 1..N : o[k] = w * k /\ o[k - 1] = w * (k - 1)
  <2>1. 0 \in 0..N /\ \A k \in 1..N : k \in 0..N /\ k - 1 \in 0..N
    BY <1>1
  <2>2. w * 0 = 0
    BY <1>4
  <2>3. \A k \in 0..N : o[k] = w * k
    OBVIOUS
  <2> HIDE DEF o
  <2> QED
    BY <2>1, <2>2, <2>3, Zenon
<1>6. o[N] = w * N
  <2>1. N \in 0..N
    BY <1>1
  <2> QED
    BY <2>1
<1> HIDE DEF o
<1>7. \A k \in 1..N : o[k] = o[k - 1] + Lens(ss)[k]
  BY <1>1, <1>4, <1>5, Zenon
<1>8. Sums(o, Lens(ss))
  BY <1>1, <1>3, <1>5, <1>7, Zenon DEF Sums
<1>9. Laid(o, ss, FlattenSeq(ss))
  BY <1>8, FlattenLaid
<1> QED
  BY <1>5, <1>6, <1>9, Zenon DEF Laid, N

\* Sums of numbers of w or more.
LEMMA SumsReach ==
  ASSUME NEW w \in Nat, NEW s \in Seq(Nat), NEW t, Sums(t, s),
         \A k \in 1..Len(s) : s[k] >= w
  PROVE  \A k \in 0..Len(s) : t[k] \in Nat /\ w * k <= t[k]
<1> DEFINE N == Len(s)
           M == [k \in 0..N |-> w * k]
           T == {k \in 0..N : ~(M[k] <= t[k])}
<1>1. N \in Nat /\ \A k \in 0..N : t[k] \in Nat
  <2>1. t \in [0..N -> Nat]
    BY DEF Sums
  <2> QED
    BY <2>1
<1>2. \A k \in 0..N : M[k] = w * k
  OBVIOUS
<1>3. ASSUME NEW k \in 1..N PROVE t[k] = t[k - 1] + s[k] /\ s[k] \in Nat /\ s[k] >= w
  BY DEF Sums
<1> HIDE DEF N, M
<1>4. w * 0 = 0 /\ (\A k \in 1..N : w * k = w * (k - 1) + w) /\ \A k \in 0..N : w * k \in Nat
  BY <1>1, SMT
<1>5. /\ M[0] = 0 /\ \A k \in 0..N : M[k] \in Nat
      /\ \A k \in 1..N : M[k] = M[k - 1] + w
  <2>1. 0 \in 0..N /\ \A k \in 1..N : k \in 0..N /\ k - 1 \in 0..N
    BY <1>1
  <2> QED
    BY <1>2, <1>4, <2>1, Zenon
<1>6. ASSUME T # {} PROVE FALSE
  <2>1. T \in SUBSET Nat
    BY <1>1
  <2>2. PICK k \in T : \A y \in T : k <= y
    <3> HIDE DEF T
    <3> QED
      BY <1>6, <2>1, LeastNat, Zenon
  <2>3. k \in 0..N /\ ~(M[k] <= t[k])
    BY <2>2
  <2>4. k # 0
    <3>1. t[0] = 0 /\ M[0] = 0 /\ 0 <= 0
      BY <1>5 DEF Sums
    <3> QED
      BY <2>3, <3>1
  <2>5. k \in 1..N /\ k - 1 \in 0..N /\ ~(k <= k - 1)
    BY <1>1, <2>3, <2>4
  <2>6. k - 1 \notin T
    <3> HIDE DEF T
    <3> QED
      BY <2>2, <2>5, Zenon
  <2>7. M[k - 1] <= t[k - 1]
    BY <2>5, <2>6
  <2>8. M[k] = M[k - 1] + w /\ M[k - 1] \in Nat /\ t[k - 1] \in Nat
    BY <1>1, <1>5, <2>5
  <2>9. t[k] = t[k - 1] + s[k] /\ s[k] \in Nat /\ s[k] >= w
    BY <1>3, <2>5
  <2> DEFINE a == t[k - 1]
             b == M[k - 1]
             c == s[k]
  <2>10. /\ t[k] = a + c /\ M[k] = b + w /\ b <= a /\ c >= w
         /\ a \in Nat /\ b \in Nat /\ c \in Nat
    BY <2>7, <2>8, <2>9
  <2> HIDE DEF T, a, b, c
  <2>11. b + w <= a + c
    BY ONLY <2>10, w \in Nat
  <2>12. ~(M[k] <= t[k])
    BY <2>3
  <2> QED
    BY ONLY <2>10, <2>11, <2>12, Zenon
<1>7. \A k \in 0..N : M[k] <= t[k]
  BY <1>6
<1> QED
  BY <1>1, <1>2, <1>7 DEF N

-----------------------------------------------------------------------------
(* The bytes of RTCP packets.                                              *)

-----------------------------------------------------------------------------
(* The bytes of a packet.                                                   *)

PacketTypes == {"SR", "RR", "SDES", "APP", "BYE"}
HeadFields == [type : PacketTypes, count : Nat, padding : {FALSE}, length : Nat]
Octet ==
    [role : {"head"}, v : HeadFields] \cup [role : {"ssrc"}, v : Source]
    \cup [role : {"id", "len"}, v : Nat] \cup [role : {"fill", "zero"}, v : {0}]

\* What the builder writes.
LEMMA OctetIs ==
  /\ \A s \in Source : Byte("ssrc", s) \in Octet
  /\ \A n \in Nat : Byte("id", n) \in Octet /\ Byte("len", n) \in Octet
  /\ Byte("fill", 0) \in Octet /\ Byte("zero", 0) \in Octet
  /\ \A h \in HeadFields : Byte("head", h) \in Octet
  BY DEF Octet, Byte

\* Filling is made of bytes, as many as asked for.
LEMMA FillingIs ==
  ASSUME NEW n \in Nat
  PROVE  /\ Fill(n) \in Seq(Octet) /\ Len(Fill(n)) = n
         /\ \A i \in 1..n : Fill(n)[i] = Byte("fill", 0)
  BY OctetIs DEF Fill

\* So are zeros.
LEMMA ZerosAre ==
  ASSUME NEW n \in Nat
  PROVE  /\ Zeros(n) \in Seq(Octet) /\ Len(Zeros(n)) = n
         /\ \A i \in 1..n : Zeros(n)[i] = Byte("zero", 0)
  BY OctetIs DEF Zeros

\* One byte is a row of bytes.
LEMMA OneByte ==
  ASSUME NEW x \in Octet
  PROVE  <<x>> \in Seq(Octet) /\ Len(<<x>>) = 1 /\ <<x>>[1] = x
  OBVIOUS

\* A word has four bytes, and its first one says what it holds.
LEMMA WordIs ==
  ASSUME NEW role, NEW v, Byte(role, v) \in Octet
  PROVE  /\ Word(role, v) \in Seq(Octet) /\ Len(Word(role, v)) = 4
         /\ Word(role, v)[1] = Byte(role, v)
<1> DEFINE x == Byte(role, v)
           f == Fill(WordSize - 1)
<1>1. f \in Seq(Octet) /\ Len(f) = 3
  <2>1. WordSize - 1 = 3 /\ 3 \in Nat
    BY DEF WordSize
  <2> QED
    BY <2>1, FillingIs, Zenon
<1>2. x \in Octet /\ Word(role, v) = <<x>> \o f
  BY DEF Word
<1> HIDE DEF x, f
<1> DEFINE s == <<x>>
<1>3. s \in Seq(Octet) /\ Len(s) = 1 /\ s[1] = x
  BY <1>2, OneByte
<1> HIDE DEF s
<1>4. /\ s \o f \in Seq(Octet) /\ Len(s \o f) = Len(s) + Len(f)
      /\ \A i \in 1..Len(s) : (s \o f)[i] = s[i]
  <2>1. s \in Seq(Octet) /\ f \in Seq(Octet)
    BY <1>1, <1>3
  <2> QED
    BY <2>1, ConcatIs
<1> QED
  BY <1>1, <1>2, <1>3, <1>4 DEF s, x

\* Where a sequence of bytes lies in another.
At(d, o, p) == Len(d) >= o + Len(p) /\ \A j \in 1..Len(p) : d[o + j] = p[j]

\* Two rows of bytes make one.
LEMMA Rows ==
  ASSUME NEW p \in Seq(Octet), NEW q \in Seq(Octet)
  PROVE  /\ p \o q \in Seq(Octet) /\ Len(p \o q) = Len(p) + Len(q)
         /\ At(p \o q, 0, p) /\ At(p \o q, Len(p), q)
<1>1. /\ p \o q \in Seq(Octet) /\ Len(p \o q) = Len(p) + Len(q)
      /\ \A i \in 1..Len(p) : (p \o q)[i] = p[i]
      /\ \A i \in 1..Len(q) : (p \o q)[Len(p) + i] = q[i]
  BY ConcatIs
<1> DEFINE u == p \o q
           n == Len(p)
           m == Len(q)
<1>2. n \in Nat /\ m \in Nat
  OBVIOUS
<1> HIDE DEF u, n, m
<1>3. \A i \in 1..n : 0 + i = i
  BY <1>2
<1> QED
  BY <1>1, <1>2, <1>3 DEF At, u, n, m

\* What lies in what lies in d lies in d.
LEMMA AtAt ==
  ASSUME NEW d \in Seq(Octet), NEW p \in Seq(Octet), NEW q \in Seq(Octet),
         NEW o \in Nat, NEW i \in Nat, At(d, o, p), At(p, i, q)
  PROVE  At(d, o + i, q)
<1> DEFINE n == Len(d)
           m == Len(p)
           l == Len(q)
<1>1. n \in Nat /\ m \in Nat /\ l \in Nat /\ n >= o + m /\ m >= i + l
  BY DEF At
<1>2. (\A j \in 1..m : d[o + j] = p[j]) /\ (\A j \in 1..l : p[i + j] = q[j])
  BY DEF At
<1> HIDE DEF n, m, l
<1>3. ASSUME NEW j \in 1..l PROVE d[o + i + j] = q[j]
  <2>1. i + j \in 1..m /\ o + (i + j) = o + i + j
    BY <1>1
  <2>2. d[o + (i + j)] = p[i + j]
    BY <1>2, <2>1
  <2> QED
    BY <1>2, <2>1, <2>2
<1>4. n >= o + i + l
  BY <1>1
<1> QED
  BY <1>3, <1>4 DEF At, n, m, l

-----------------------------------------------------------------------------
(* A packet.                                                                *)

\* A packet with this header.
Shape(p, type, count) ==
    /\ p \in Seq(Octet) /\ Len(p) >= HeaderSize /\ Len(p) % 4 = 0
    /\ p[1] = Byte("head", [type |-> type, count |-> count, padding |-> FALSE,
                            length |-> (Len(p) \div WordSize - 1) % LengthModulus])

\* A header and what follows it.
Packet(type, count, body) == Header(type, count, HeaderSize + Len(body)) \o body

\* The shape that the header gives a packet, when its length is one of words.
LEMMA HeadSays ==
  ASSUME NEW type \in PacketTypes, NEW count \in Nat, NEW body \in Seq(Octet),
         (HeaderSize + Len(body)) % 4 = 0
  PROVE  /\ Shape(Packet(type, count, body), type, count)
         /\ Len(Packet(type, count, body)) = HeaderSize + Len(body)
         /\ At(Packet(type, count, body), HeaderSize, body)
<1> DEFINE size == HeaderSize + Len(body)
           p == Packet(type, count, body)
           l == (size \div WordSize - 1) % LengthModulus
           h == [type |-> type, count |-> count, padding |-> FALSE, length |-> l]
           w == Header(type, count, size)
<1>1. size \in Nat /\ size >= 4 /\ size % 4 = 0
  BY DEF HeaderSize
<1>10. p = w \o body
  BY DEF Packet
<1> HIDE DEF p, size
<1>2. l \in Nat
  BY <1>1 DEF WordSize, LengthModulus
<1> HIDE DEF l
<1>3. h \in HeadFields
  BY <1>2 DEF HeadFields
<1>4. w = Word("head", h)
  BY DEF Header, l
<1> HIDE DEF h, w
<1>5. w \in Seq(Octet) /\ Len(w) = 4 /\ w[1] = Byte("head", h)
  BY <1>3, <1>4, OctetIs, WordIs
<1>6. /\ p \in Seq(Octet) /\ Len(p) = Len(w) + Len(body)
      /\ At(p, 0, w) /\ At(p, Len(w), body)
  BY <1>5, <1>10, Rows
<1>7. p[1] = Byte("head", h)
  <2>1. 1 \in 1..Len(w) /\ 0 + 1 = 1
    BY <1>5
  <2>2. p[0 + 1] = w[1]
    BY <1>6, <2>1 DEF At
  <2> QED
    BY <1>5, <2>1, <2>2
<1>8. Len(p) = size
  BY <1>5, <1>6 DEF HeaderSize, size
<1>9. At(p, HeaderSize, body)
  BY <1>5, <1>6 DEF HeaderSize
<1> QED
  BY <1>1, <1>6, <1>7, <1>8, <1>9 DEF Shape, h, l, HeaderSize, size, p

\* What the parser makes of the header.
LEMMA ShapeSays ==
  ASSUME NEW p, NEW type, NEW count, Shape(p, type, count)
  PROVE  /\ Unpadded(p) = p /\ p # <<>> /\ p[1].v.type = type /\ p[1].v.count = count
         /\ ~p[1].v.padding /\ IsHead(p[1])
         /\ Len(p) <= WordSize * LengthModulus => PacketSize(p) = Len(p)
<1> DEFINE n == Len(p)
           l == (n \div WordSize - 1) % LengthModulus
           h == [type |-> type, count |-> count, padding |-> FALSE, length |-> l]
<1>1. n \in Nat /\ n >= 4 /\ n % 4 = 0 /\ p[1] = Byte("head", h)
  BY DEF Shape, HeaderSize
<1>2. p # <<>>
  BY <1>1
<1> HIDE DEF n, l
<1>3. /\ p[1].v.type = type /\ p[1].v.count = count /\ p[1].v.length = l
      /\ p[1].role = "head"
  BY <1>1 DEF Byte
<1>4. ~p[1].v.padding
  BY <1>1 DEF Byte
<1>5. Unpadded(p) = p
  BY <1>4, Zenon DEF Unpadded
<1>6. ASSUME n <= WordSize * LengthModulus PROVE PacketSize(p) = n
  <2> DEFINE q == n \div 4
             k == q - 1
             L == LengthModulus
  <2>1. q \in Int /\ n = 4 * q + (n % 4)
    BY <1>1, Divided
  <2>2. l = k % L
    BY DEF l, WordSize
  <2>3. n <= 4 * L
    BY <1>6 DEF WordSize
  <2>8. L \in Nat \ {0}
    BY SMT DEF LengthModulus
  <2> HIDE DEF q, L
  <2>4. k \in Nat /\ k < L
    BY <1>1, <2>1, <2>3, <2>8
  <2> HIDE DEF k
  <2>5. l = k
    BY <2>2, <2>4, <2>8, SMTT(30)
  <2>6. PacketSize(p) = 4 * (k + 1)
    BY <1>3, <2>5 DEF PacketSize, WordSize
  <2>7. k + 1 = q
    BY <2>1 DEF k
  <2> QED
    BY <1>1, <2>1, <2>6, <2>7
<1> QED
  BY <1>2, <1>3, <1>4, <1>5, <1>6 DEF n, IsHead

-----------------------------------------------------------------------------
(* Reports are read as they were built.                                    *)

\* A source that was written is read.
LEMMA SsrcRead ==
  ASSUME NEW d, NEW o \in Nat, NEW s, o <= Len(d), d[o] = Byte("ssrc", s)
  PROVE  SsrcAt(d, o) = s
  BY DEF SsrcAt, Byte

\* The bytes of a report block.
BlockData(s) == Word("ssrc", s) \o Fill(BlockSize - WordSize)

\* They begin with the source.
LEMMA BlockDataIs ==
  ASSUME NEW s \in Source
  PROVE  /\ BlockData(s) \in Seq(Octet) /\ Len(BlockData(s)) = 24
         /\ BlockData(s)[1] = Byte("ssrc", s)
<1> DEFINE w == Word("ssrc", s)
           f == Fill(BlockSize - WordSize)
<1>1. w \in Seq(Octet) /\ Len(w) = 4 /\ w[1] = Byte("ssrc", s)
  BY OctetIs, WordIs
<1>2. f \in Seq(Octet) /\ Len(f) = 20
  <2>1. BlockSize - WordSize = 20 /\ 20 \in Nat
    BY DEF BlockSize, WordSize
  <2> QED
    BY <2>1, FillingIs
<1> HIDE DEF w, f
<1>3. w \o f \in Seq(Octet) /\ Len(w \o f) = Len(w) + Len(f) /\ At(w \o f, 0, w)
  <2>1. w \in Seq(Octet) /\ f \in Seq(Octet)
    BY <1>1, <1>2
  <2> QED
    BY <2>1, Rows
<1>4. (w \o f)[1] = w[1]
  <2>1. (w \o f)[0 + 1] = w[1] /\ 0 + 1 = 1
    BY <1>1, <1>3 DEF At
  <2> QED
    BY <2>1, Zenon
<1>5. BlockData(s) = w \o f
  BY DEF BlockData, w, f
<1> QED
  BY <1>1, <1>2, <1>3, <1>4, <1>5

\* The report blocks of one packet.
BlocksData(g) == FlattenSeq([k \in DOMAIN g |-> BlockData(g[k])])

\* Where each of them begins.
LEMMA BlocksDataIs ==
  ASSUME NEW g \in Seq(Source)
  PROVE  /\ BlocksData(g) \in Seq(Octet) /\ Len(BlocksData(g)) = 24 * Len(g)
         /\ \A k \in 1..Len(g) : BlocksData(g)[24 * (k - 1) + 1] = Byte("ssrc", g[k])
<1> DEFINE ss == [k \in DOMAIN g |-> BlockData(g[k])]
           n == Len(g)
<1>1. n \in Nat /\ DOMAIN g = 1..n /\ \A k \in 1..n : g[k] \in Source
  OBVIOUS
<1>2. \A k \in 1..n : /\ ss[k] \in Seq(Octet) /\ Len(ss[k]) = 24
                      /\ ss[k][1] = Byte("ssrc", g[k])
  BY <1>1, BlockDataIs
<1>3. ss \in Seq(Seq(Octet)) /\ Len(ss) = n
  <2>1. ss \in [1..n -> Seq(Octet)]
    BY <1>1, <1>2
  <2> HIDE DEF ss
  <2> QED
    BY <1>1, <2>1
<1> HIDE DEF ss, n
<1> DEFINE w == 24
<1>4. w \in Nat /\ 1 \in 1..w
  OBVIOUS
<1>5. \A k \in 1..Len(ss) : Len(ss[k]) = w
  BY <1>2, <1>3
<1> HIDE DEF w
<1>6. /\ Len(FlattenSeq(ss)) = w * Len(ss)
      /\ \A k \in 1..Len(ss) : \A j \in 1..w :
            FlattenSeq(ss)[w * (k - 1) + j] = ss[k][j]
  BY <1>3, <1>4, <1>5, SameLength
<1>7. FlattenSeq(ss) \in Seq(Octet)
  BY <1>3, FlattenIs
<1>8. BlocksData(g) = FlattenSeq(ss)
  BY DEF BlocksData, ss
<1>9. \A k \in 1..n : FlattenSeq(ss)[w * (k - 1) + 1] = Byte("ssrc", g[k])
  BY <1>2, <1>3, <1>4, <1>6
<1> QED
  BY <1>3, <1>6, <1>7, <1>8, <1>9 DEF w, n

\* The sender info.
Info(sr) == IF sr THEN SenderInfoSize ELSE 0
InfoData(sr) == IF sr THEN Fill(SenderInfoSize) ELSE <<>>

\* The length of the sender info.
LEMMA InfoIs ==
  ASSUME NEW sr \in BOOLEAN
  PROVE  InfoData(sr) \in Seq(Octet) /\ Len(InfoData(sr)) = Info(sr) /\ Info(sr) \in {0, 20}
<1>1. SenderInfoSize = 20 /\ SenderInfoSize \in Nat
  BY DEF SenderInfoSize
<1>2. CASE sr
  BY <1>1, <1>2, FillingIs DEF Info, InfoData
<1>3. CASE ~sr
  BY <1>3 DEF Info, InfoData
<1> QED
  BY <1>2, <1>3

\* A report packet: its length, and what the parser reads in it.
LEMMA ReportRead ==
  ASSUME NEW b, b.ssrc \in Source, b.sr \in BOOLEAN, b.blocks \in Seq(Source),
         NEW N, Enough(Len(b.blocks), N), NEW i \in 1..N,
         NEW g, g = Group(b.blocks, i), NEW sr, sr = (b.sr /\ i = 1),
         NEW p, p = ReportPacket(b, i)
  PROVE  /\ Shape(p, IF sr THEN "SR" ELSE "RR", Len(g))
         /\ Len(p) = HeaderSize + WordSize + Info(sr) + BlockSize * Len(g)
         /\ ParsePacket(p) = [type |-> IF sr THEN "SR" ELSE "RR", known |-> TRUE,
                              ssrc |-> b.ssrc, blocks |-> g]
<1> DEFINE w == Word("ssrc", b.ssrc)
           f == InfoData(sr)
           t == BlocksData(g)
           body == w \o f \o t
           type == IF sr THEN "SR" ELSE "RR"
           n == Len(g)
           size == HeaderSize + Len(body)
           a == Info(sr)
<1>1. g \in Seq(Source) /\ n \in Nat
  BY GroupIs
<1>2. p = Header(type, n, size) \o body
  BY DEF ReportPacket, BlocksData, BlockData, InfoData
<1>3. w \in Seq(Octet) /\ Len(w) = 4 /\ w[1] = Byte("ssrc", b.ssrc)
  BY OctetIs, WordIs
<1>4. f \in Seq(Octet) /\ Len(f) = a /\ a \in {0, 20}
  <2>1. sr \in BOOLEAN
    OBVIOUS
  <2> QED
    BY <2>1, InfoIs
<1>5. /\ t \in Seq(Octet) /\ Len(t) = 24 * n
      /\ \A k \in 1..n : t[24 * (k - 1) + 1] = Byte("ssrc", g[k])
  BY <1>1, BlocksDataIs
<1> HIDE DEF w, f, t
<1> DEFINE v == w \o f
<1>6. v \in Seq(Octet) /\ Len(v) = 4 + a /\ At(v, 0, w)
  <2>1. v \in Seq(Octet) /\ Len(v) = Len(w) + Len(f) /\ At(v, 0, w)
    BY <1>3, <1>4, Rows
  <2> QED
    BY <1>3, <1>4, <2>1
<1>7. body = v \o t
  OBVIOUS
<1> HIDE DEF v, body
<1>8. /\ body \in Seq(Octet) /\ Len(body) = Len(v) + Len(t)
      /\ At(body, 0, v) /\ At(body, Len(v), t)
  BY <1>5, <1>6, <1>7, Rows
<1>9. At(body, 0, w)
  <2>1. At(body, 0 + 0, w)
    <3> DEFINE z == 0
    <3>1. z \in Nat /\ At(body, z, v) /\ At(v, z, w)
      BY <1>6, <1>8
    <3> HIDE DEF z
    <3>2. At(body, z + z, w)
      BY <1>3, <1>6, <1>8, <3>1, AtAt
    <3> QED
      BY <3>2 DEF z
  <2> QED
    BY <2>1
<1>10. size = 8 + a + 24 * n /\ size % 4 = 0 /\ Len(body) = 4 + a + 24 * n
  <2> HIDE DEF a, n
  <2>1. Len(body) = 4 + a + 24 * n
    BY <1>1, <1>4, <1>5, <1>6, <1>8
  <2>2. size = 4 + (4 + a + 24 * n)
    BY <2>1 DEF HeaderSize
  <2>3. (8 + a + 24 * n) % 4 = 0
    <3>1. n \in Nat /\ a \in {0, 20}
      BY <1>1, <1>4
    <3>2. 8 + a + 24 * n = 4 * ((IF a = 0 THEN 2 ELSE 7) + 6 * n)
      BY ONLY <3>1
    <3>3. (IF a = 0 THEN 2 ELSE 7) + 6 * n \in Nat
      BY ONLY <3>1
    <3> QED
      BY ONLY <3>2, <3>3, FourTimes
  <2> QED
    BY <1>1, <1>4, <2>1, <2>2, <2>3
<1>11. Shape(p, type, n) /\ Len(p) = size /\ At(p, HeaderSize, body)
  <2>1. type \in PacketTypes
    BY DEF PacketTypes
  <2>2. size = HeaderSize + Len(body) /\ size % 4 = 0
    BY <1>10
  <2>3. n \in Nat /\ body \in Seq(Octet) /\ p = Header(type, n, size) \o body
    BY <1>1, <1>2, <1>8
  <2> HIDE DEF type, n, size
  <2> QED
    BY <2>1, <2>2, <2>3, HeadSays DEF Packet
<1>12. p[5] = Byte("ssrc", b.ssrc) /\ 5 <= Len(p)
  <2>1. body[0 + 1] = w[1] /\ p[4 + 1] = body[1]
    <3>1. 1 \in 1..Len(body) /\ 1 \in 1..Len(w)
      BY <1>1, <1>3, <1>4, <1>10
    <3> QED
      BY <1>9, <1>11, <3>1 DEF At, HeaderSize
  <2>2. 0 + 1 = 1 /\ 4 + 1 = 5
    OBVIOUS
  <2>3. 5 <= Len(p)
    BY <1>1, <1>4, <1>10, <1>11
  <2> QED
    BY <1>3, <2>1, <2>2, <2>3
<1>13. ASSUME NEW k \in 1..n
       PROVE  /\ p[8 + a + 24 * (k - 1) + 1] = Byte("ssrc", g[k])
              /\ 8 + a + 24 * (k - 1) + 1 \in 1..Len(p)
  <2> HIDE DEF a, n
  <2> DEFINE j == 24 * (k - 1) + 1
             e == 4 + a + j
  <2>1. j \in 1..Len(t) /\ e \in 1..Len(body) /\ 8 + a + 24 * (k - 1) + 1 = 4 + e
    BY <1>1, <1>4, <1>5, <1>10
  <2>2. t[j] = Byte("ssrc", g[k])
    BY <1>5
  <2> HIDE DEF j
  <2>3. Len(v) + j = e
    BY <1>6
  <2>4. body[Len(v) + j] = t[j]
    BY <1>8, <2>1 DEF At
  <2> HIDE DEF e
  <2>5. p[4 + e] = body[e]
    BY <1>11, <2>1 DEF At, HeaderSize
  <2>6. 4 + e \in 1..Len(p)
    BY <1>1, <1>4, <1>10, <1>11, <2>1
  <2> QED
    BY <2>1, <2>2, <2>3, <2>4, <2>5, <2>6
<1>14. /\ Unpadded(p) = p /\ p[1].v.type = type /\ p[1].v.count = n
  <2> HIDE DEF type, n
  <2> QED
    BY <1>11, ShapeSays
<1>15. [k \in 1..n |-> SsrcAt(p, 8 + a + 24 * (k - 1) + 1)] = g
  <2>1. g = [k \in 1..n |-> g[k]]
    BY <1>1
  <2>2. ASSUME NEW k \in 1..n PROVE SsrcAt(p, 8 + a + 24 * (k - 1) + 1) = g[k]
    <3> DEFINE o == 8 + a + 24 * (k - 1) + 1
    <3>1. o \in 1..Len(p) /\ p[o] = Byte("ssrc", g[k])
      BY <1>13
    <3> HIDE DEF o
    <3>2. SsrcAt(p, o) = g[k]
      <4>1. Len(p) \in Nat
        BY <1>11 DEF Shape
      <4> QED
        BY <3>1, <4>1, SsrcRead
    <3> QED
      BY <3>2 DEF o
  <2> HIDE DEF n
  <2> QED
    BY <2>1, <2>2
<1>16. SsrcAt(p, 5) = b.ssrc
  <2> DEFINE o == 5
  <2>1. o \in Nat /\ o <= Len(p) /\ p[o] = Byte("ssrc", b.ssrc)
    BY <1>12
  <2> HIDE DEF o
  <2>2. SsrcAt(p, o) = b.ssrc
    BY <2>1, SsrcRead
  <2> QED
    BY <2>2 DEF o
<1>17. ParsePacket(p) = [type |-> type, known |-> TRUE, ssrc |-> b.ssrc, blocks |-> g]
  <2>1. ParsePacket(p) = ParseReport(p)
    BY <1>14 DEF ParsePacket
  <2>2. (IF type = "SR" THEN SenderInfoSize ELSE 0) = a
    BY DEF Info
  <2> HIDE DEF type, a, n
  <2>3. Len(p) = 8 + a + 24 * n
    BY <1>10, <1>11
  <2>4. HeaderSize + WordSize + a = 8 + a /\ HeaderSize + 1 = 5 /\ BlockSize = 24
    BY <1>4 DEF HeaderSize, WordSize, BlockSize
  <2>5. ParseReport(p) = [type |-> type, known |-> TRUE, ssrc |-> b.ssrc, blocks |-> g]
    BY <1>14, <1>15, <1>16, <2>2, <2>3, <2>4, Zenon DEF ParseReport
  <2> QED
    BY <2>1, <2>5
<1>18. Len(p) = HeaderSize + WordSize + a + BlockSize * n
  <2> HIDE DEF a, n
  <2> QED
    BY <1>1, <1>4, <1>10, <1>11 DEF HeaderSize, WordSize, BlockSize
<1> QED
  BY <1>11, <1>17, <1>18

-----------------------------------------------------------------------------
(* APP packets are read as they were built.                                *)

\* A header is a word.
LEMMA HeaderType ==
  ASSUME NEW type \in PacketTypes, NEW count \in Nat, NEW size \in Nat
  PROVE  Header(type, count, size) \in Seq(Octet)
<1> DEFINE l == (size \div WordSize - 1) % LengthModulus
           h == [type |-> type, count |-> count, padding |-> FALSE, length |-> l]
<1>1. l \in Nat
  BY DEF WordSize, LengthModulus
<1>2. Header(type, count, size) = Word("head", h)
  BY DEF Header
<1> HIDE DEF l
<1>3. h \in HeadFields
  BY <1>1 DEF HeadFields
<1> HIDE DEF h
<1> QED
  BY <1>2, <1>3, OctetIs, WordIs

\* Bytes at a place are bytes of the packet.
LEMMA AtSays ==
  ASSUME NEW d, NEW o \in Nat, NEW p \in Seq(Octet), At(d, o, p), NEW j \in 1..Len(p)
  PROVE  d[o + j] = p[j]
  BY DEF At

\* The order in which rows are put together does not matter.
LEMMA RowsAssociate ==
  ASSUME NEW s \in Seq(Octet), NEW t \in Seq(Octet), NEW u \in Seq(Octet)
  PROVE  (s \o t) \o u = s \o (t \o u)
<1> DEFINE n == Len(s)
           m == Len(t)
           l == Len(u)
           st == s \o t
           tu == t \o u
           a == st \o u
           b == s \o tu
<1>1. n \in Nat /\ m \in Nat /\ l \in Nat
  OBVIOUS
<1>2. /\ st \in Seq(Octet) /\ Len(st) = n + m
      /\ \A i \in 1..n : st[i] = s[i]
      /\ \A i \in 1..m : st[n + i] = t[i]
  BY ConcatIs
<1>3. /\ tu \in Seq(Octet) /\ Len(tu) = m + l
      /\ \A i \in 1..m : tu[i] = t[i]
      /\ \A i \in 1..l : tu[m + i] = u[i]
  BY ConcatIs
<1> HIDE DEF st, tu
<1>4. /\ a \in Seq(Octet) /\ Len(a) = Len(st) + l
      /\ \A i \in 1..Len(st) : a[i] = st[i]
      /\ \A i \in 1..l : a[Len(st) + i] = u[i]
  <2>1. st \in Seq(Octet)
    BY <1>2
  <2> QED
    BY <2>1, ConcatIs
<1>5. /\ b \in Seq(Octet) /\ Len(b) = n + Len(tu)
      /\ \A i \in 1..n : b[i] = s[i]
      /\ \A i \in 1..Len(tu) : b[n + i] = tu[i]
  <2>1. tu \in Seq(Octet)
    BY <1>3
  <2> QED
    BY <2>1, ConcatIs
<1> HIDE DEF a, b, n, m, l
<1>6. ASSUME NEW i \in 1..n + m + l PROVE a[i] = b[i]
  <2>1. CASE i <= n
    <3>1. i \in 1..n /\ i \in 1..n + m
      BY <1>1, <2>1
    <3> QED
      BY <1>2, <1>4, <1>5, <3>1
  <2>2. CASE n < i /\ i <= n + m
    <3> DEFINE j == i - n
    <3>1. j \in 1..m /\ j \in 1..m + l /\ n + j = i /\ n + j \in 1..n + m
      BY <1>1, <2>2
    <3> HIDE DEF j
    <3>2. a[n + j] = t[j] /\ b[n + j] = t[j]
      BY <1>2, <1>3, <1>4, <1>5, <3>1
    <3> QED
      BY <3>1, <3>2
  <2>3. CASE n + m < i
    <3> DEFINE j == i - (n + m)
               k == m + j
    <3>1. j \in 1..l /\ k \in 1..m + l /\ n + k = i /\ n + m + j = i
      BY <1>1, <2>3
    <3>2. k = m + j
      OBVIOUS
    <3> HIDE DEF j, k
    <3>3. a[n + m + j] = u[j]
      BY <1>2, <1>4, <3>1
    <3>4. b[n + k] = tu[k] /\ tu[m + j] = u[j]
      BY <1>3, <1>5, <3>1
    <3> QED
      BY <3>1, <3>2, <3>3, <3>4
  <2> QED
    BY <1>1, <2>1, <2>2, <2>3
<1>7. Len(a) = n + m + l /\ Len(b) = n + m + l
  BY <1>1, <1>2, <1>3, <1>4, <1>5
<1>8. a = b
  <2> DEFINE N == n + m + l
  <2>1. /\ a \in Seq(Octet) /\ b \in Seq(Octet) /\ Len(a) = N /\ Len(b) = N
        /\ \A i \in 1..N : a[i] = b[i]
    BY <1>4, <1>5, <1>6, <1>7
  <2> HIDE DEF N
  <2> QED
    BY <2>1
<1> QED
  BY <1>8 DEF a, b, st, tu

\* An APP packet: its length, and what the parser reads in it.
LEMMA AppRead ==
  ASSUME NEW a, a.subtype \in Nat, a.ssrc \in Source, a.length \in Nat, a.length % 4 = 0,
         NEW p, p = AppPacket(a)
  PROVE  /\ Shape(p, "APP", a.subtype) /\ Len(p) = AppBytes(a)
         /\ ParsePacket(p) = [type |-> "APP", known |-> TRUE, subtype |-> a.subtype,
                              ssrc |-> a.ssrc, length |-> a.length]
<1> DEFINE w == Word("ssrc", a.ssrc)
           m == WordSize + a.length
           f == Fill(m)
           h == Header("APP", a.subtype, AppBytes(a))
           body == w \o f
           l == a.length
           type == "APP"
<1>1. l \in Nat /\ l % 4 = 0 /\ m = 4 + l /\ m \in Nat
  BY DEF WordSize
<1>2. type \in PacketTypes /\ AppBytes(a) \in Nat /\ AppBytes(a) = 12 + l
  BY DEF PacketTypes, AppBytes, HeaderSize, WordSize
<1>3. w \in Seq(Octet) /\ Len(w) = 4 /\ w[1] = Byte("ssrc", a.ssrc)
  BY OctetIs, WordIs
<1> HIDE DEF m
<1>4. f \in Seq(Octet) /\ Len(f) = m
  BY <1>1, FillingIs
<1>5. h \in Seq(Octet)
  <2> HIDE DEF type
  <2>1. Header(type, a.subtype, AppBytes(a)) \in Seq(Octet)
    BY <1>2, HeaderType
  <2> QED
    BY <2>1 DEF type
<1>6. p = (h \o w) \o f
  BY DEF AppPacket, m
<1> HIDE DEF h, w, f
<1>7. p = h \o body
  <2>1. h \in Seq(Octet) /\ w \in Seq(Octet) /\ f \in Seq(Octet)
    BY <1>3, <1>4, <1>5
  <2>2. (h \o w) \o f = h \o (w \o f)
    BY <2>1, RowsAssociate
  <2> QED
    BY <1>6, <2>2, Zenon
<1>8. body \in Seq(Octet) /\ Len(body) = Len(w) + Len(f) /\ At(body, 0, w)
  BY <1>3, <1>4, Rows
<1> HIDE DEF body, l
<1>9. HeaderSize + Len(body) = 12 + l /\ (12 + l) % 4 = 0 /\ Len(body) = 8 + l
  BY <1>1, <1>3, <1>4, <1>8 DEF HeaderSize
<1>10. p = Packet("APP", a.subtype, body)
  BY <1>2, <1>7, <1>9 DEF Packet, h
<1>11. /\ Shape(p, "APP", a.subtype) /\ Len(p) = HeaderSize + Len(body)
       /\ At(p, HeaderSize, body)
  <2>1. p = Packet(type, a.subtype, body) /\ (HeaderSize + Len(body)) % 4 = 0
    BY <1>9, <1>10
  <2> HIDE DEF type
  <2>2. /\ Shape(p, type, a.subtype) /\ Len(p) = HeaderSize + Len(body)
        /\ At(p, HeaderSize, body)
    BY <1>2, <1>8, <2>1, HeadSays
  <2> QED
    BY <2>2 DEF type
<1>12. SsrcAt(p, 5) = a.ssrc
  <2>1. body[0 + 1] = w[1] /\ p[4 + 1] = body[1]
    <3>1. 1 \in 1..Len(body) /\ 1 \in 1..Len(w)
      BY <1>1, <1>3, <1>9
    <3> QED
      BY <1>8, <1>11, <3>1 DEF At, HeaderSize
  <2>2. 0 + 1 = 1 /\ 4 + 1 = 5
    OBVIOUS
  <2> DEFINE o == 5
  <2>3. o \in Nat /\ o <= Len(p) /\ p[o] = Byte("ssrc", a.ssrc)
    BY <1>1, <1>3, <1>9, <1>11, <2>1, <2>2
  <2> HIDE DEF o
  <2>4. SsrcAt(p, o) = a.ssrc
    BY <2>3, SsrcRead
  <2> QED
    BY <2>4 DEF o
<1>13. Unpadded(p) = p /\ p[1].v.type = "APP" /\ p[1].v.count = a.subtype
  <2> HIDE DEF type
  <2>1. Shape(p, type, a.subtype)
    BY <1>11 DEF type
  <2>2. Unpadded(p) = p /\ p[1].v.type = type /\ p[1].v.count = a.subtype
    BY <2>1, ShapeSays
  <2> QED
    BY <2>2 DEF type
<1>14. ParsePacket(p) = ParseAPP(p)
  BY <1>13 DEF ParsePacket
<1>15. /\ ~(Len(p) < HeaderSize + 2 * WordSize) /\ HeaderSize + 1 = 5
       /\ Len(p) - HeaderSize - 2 * WordSize = l
  BY <1>1, <1>9, <1>11 DEF HeaderSize, WordSize
<1>16. ParseAPP(p) = [type |-> "APP", known |-> TRUE, subtype |-> a.subtype,
                      ssrc |-> a.ssrc, length |-> l]
  BY <1>12, <1>13, <1>15, Zenon DEF ParseAPP
<1>17. Len(p) = AppBytes(a)
  BY <1>2, <1>9, <1>11
<1> QED
  BY <1>11, <1>14, <1>16, <1>17 DEF l

\* Words in a row.
LEMMA WordsAre ==
  ASSUME NEW s \in Seq(Source)
  PROVE  /\ Words("ssrc", s) \in Seq(Octet) /\ Len(Words("ssrc", s)) = 4 * Len(s)
         /\ \A k \in 1..Len(s) : Words("ssrc", s)[4 * (k - 1) + 1] = Byte("ssrc", s[k])
<1> DEFINE n == Len(s)
           w == Words("ssrc", s)
<1>1. n \in Nat /\ \A k \in 1..n : s[k] \in Source
  OBVIOUS
<1>2. w = [k \in 1..4 * n |-> IF k % 4 = 1 THEN Byte("ssrc", s[(k - 1) \div 4 + 1])
                              ELSE Byte("fill", 0)]
  BY DEF Words, WordSize
<1> HIDE DEF n, w
<1>3. ASSUME NEW k \in 1..4 * n PROVE w[k] \in Octet
  <2>1. CASE k % 4 = 1
    <3>1. (k - 1) \div 4 + 1 \in 1..n
      BY <1>1
    <3>2. w[k] = Byte("ssrc", s[(k - 1) \div 4 + 1])
      BY <1>2, <2>1
    <3> QED
      BY <1>1, <3>1, <3>2, OctetIs
  <2>2. CASE k % 4 # 1
    <3>1. w[k] = Byte("fill", 0)
      BY <1>2, <2>2
    <3> QED
      BY <3>1, OctetIs
  <2> QED
    BY <2>1, <2>2
<1>4. w \in Seq(Octet) /\ Len(w) = 4 * n
  <2> DEFINE m == 4 * n
  <2>1. m \in Nat
    BY <1>1
  <2>2. w = [k \in 1..m |-> w[k]]
    BY <1>2
  <2>3. \A k \in 1..m : w[k] \in Octet
    BY <1>3
  <2> HIDE DEF m
  <2>4. w \in [1..m -> Octet]
    BY <2>2, <2>3
  <2>5. w \in Seq(Octet) /\ Len(w) = m
    BY <2>1, <2>4
  <2> QED
    BY <2>5 DEF m
<1>5. ASSUME NEW k \in 1..n PROVE w[4 * (k - 1) + 1] = Byte("ssrc", s[k])
  <2> DEFINE j == 4 * (k - 1) + 1
  <2>1. j \in 1..4 * n /\ j % 4 = 1 /\ (j - 1) \div 4 + 1 = k
    BY <1>1
  <2> HIDE DEF j
  <2>2. w[j] = Byte("ssrc", s[(j - 1) \div 4 + 1])
    BY <1>2, <2>1
  <2> QED
    BY <2>1, <2>2 DEF j
<1> QED
  BY <1>4, <1>5 DEF n, w

\* The reason of a BYE packet.
ReasonData(r) == IF r = 0 THEN <<>> ELSE <<Byte("len", r)>> \o Fill(r)

\* Its length comes first.
LEMMA ReasonIs ==
  ASSUME NEW r \in Nat
  PROVE  /\ ReasonData(r) \in Seq(Octet) /\ Len(ReasonData(r)) = (IF r = 0 THEN 0 ELSE 1 + r)
         /\ r # 0 => ReasonData(r)[1] = Byte("len", r)
<1>1. CASE r = 0
  BY <1>1 DEF ReasonData
<1>2. CASE r # 0
  <2> DEFINE x == Byte("len", r)
             s == <<x>>
             f == Fill(r)
  <2>1. s \in Seq(Octet) /\ Len(s) = 1 /\ s[1] = x
    BY OctetIs, OneByte
  <2>2. f \in Seq(Octet) /\ Len(f) = r
    BY FillingIs
  <2>3. ReasonData(r) = s \o f
    BY <1>2 DEF ReasonData
  <2> HIDE DEF x, s, f
  <2>4. s \o f \in Seq(Octet) /\ Len(s \o f) = Len(s) + Len(f) /\ At(s \o f, 0, s)
    <3>1. s \in Seq(Octet) /\ f \in Seq(Octet)
      BY <2>1, <2>2
    <3> QED
      BY <3>1, Rows
  <2>5. (s \o f)[1] = s[1]
    <3>1. 1 \in 1..Len(s) /\ 0 + 1 = 1
      BY <2>1
    <3>2. (s \o f)[0 + 1] = s[1]
      BY <2>4, <3>1 DEF At
    <3> QED
      BY <3>1, <3>2, Zenon
  <2>6. Len(ReasonData(r)) = 1 + r
    BY <2>1, <2>2, <2>3, <2>4
  <2> QED
    BY <1>2, <2>1, <2>3, <2>4, <2>5, <2>6 DEF x
<1> QED
  BY <1>1, <1>2

-----------------------------------------------------------------------------
(* BYE packets are read as they were built.                                *)

\* What the first of two rows says at its beginning.
LEMMA FirstOf ==
  ASSUME NEW p \in Seq(Octet), NEW q \in Seq(Octet), NEW j \in 1..Len(p)
  PROVE  (p \o q)[j] = p[j]
  BY ConcatIs

\* The length of a BYE packet.
LEMMA ByeSize ==
  ASSUME NEW y, y.ssrcs \in Seq(Source), y.reason \in Nat,
         NEW o, o = HeaderSize + 4 * Len(y.ssrcs),
         NEW r, r = (IF y.reason = 0 THEN 0 ELSE 1 + y.reason)
  PROVE  /\ ByeBytes(y) \in Nat /\ ByeBytes(y) % 4 = 0 /\ o \in Nat /\ r \in Nat
         /\ o + r <= ByeBytes(y)
         /\ y.reason = 0 => ByeBytes(y) = o
<1> DEFINE n == Len(y.ssrcs)
           m == o + 1 + y.reason
<1>1. n \in Nat /\ o = 4 + 4 * n /\ WordSize = 4 /\ HeaderSize = 4
  BY DEF HeaderSize, WordSize
<1>2. o \in Nat /\ o % 4 = 0 /\ r \in Nat /\ m \in Nat
  <2>1. m = o + 1 + y.reason
    OBVIOUS
  <2> HIDE DEF n, m
  <2>2. (4 + 4 * n) % 4 = 0 /\ 4 + 4 * n \in Nat
    BY <1>1
  <2>3. o \in Nat /\ o % 4 = 0
    BY <1>1, <2>2
  <2>4. r \in Nat
    OBVIOUS
  <2>5. y.reason \in Nat
    OBVIOUS
  <2> QED
    BY ONLY <2>1, <2>3, <2>4, <2>5
<1>3. ByeBytes(y) = IF y.reason > 0 THEN RoundUp(m) ELSE o
  BY <1>1 DEF ByeBytes
<1> HIDE DEF m, n
<1>4. RoundUp(m) \in Nat /\ RoundUp(m) % 4 = 0 /\ m <= RoundUp(m)
  BY <1>2, RoundUpIs
<1>5. CASE y.reason = 0
  BY <1>2, <1>3, <1>5
<1>6. CASE y.reason # 0
  <2>1. y.reason > 0 /\ r = 1 + y.reason
    BY <1>6
  <2>3. ByeBytes(y) = RoundUp(m)
    BY <1>3, <2>1
  <2>2. o \in Nat /\ y.reason \in Nat /\ r = 1 + y.reason /\ m = o + 1 + y.reason
    BY <1>2, <2>1 DEF m
  <2>4. o + r = m
    BY ONLY <2>2
  <2> QED
    BY <1>2, <1>4, <1>6, <2>3, <2>4
<1> QED
  BY <1>5, <1>6

\* Where the reason begins, after n sources and before m zeros.
LEMMA ReasonPlace ==
  ASSUME NEW n \in Nat, NEW r \in Nat, NEW m \in Nat, NEW b, b = 4 * n + (1 + r) + m,
         NEW q, q = 1 + r + m
  PROVE  4 * n + 1 \in 1..b /\ 1 \in 1..q
  OBVIOUS

\* A BYE packet: its length, and what the parser reads in it.
LEMMA ByeRead ==
  ASSUME NEW y, y.ssrcs \in Seq(Source), y.reason \in Nat,
         NEW p, p = ByePacket(y)
  PROVE  /\ Shape(p, "BYE", Len(y.ssrcs)) /\ Len(p) = ByeBytes(y)
         /\ ParsePacket(p) = [type |-> "BYE", known |-> TRUE, ssrcs |-> y.ssrcs,
                              reason |-> y.reason]
<1> DEFINE n == Len(y.ssrcs)
           ids == Words("ssrc", y.ssrcs)
           r == ReasonData(y.reason)
           m == ByeBytes(y) - HeaderSize - Len(ids) - Len(r)
           z == Zeros(m)
           h == Header("BYE", n, ByeBytes(y))
           q == r \o z
           body == ids \o q
           type == "BYE"
           o == HeaderSize + 4 * n
           e == IF y.reason = 0 THEN 0 ELSE 1 + y.reason
           B == ByeBytes(y)
<1>1. n \in Nat /\ o = 4 + 4 * n /\ o \in Nat
  BY DEF HeaderSize
<1>2. /\ ids \in Seq(Octet) /\ Len(ids) = 4 * n
      /\ \A k \in 1..n : ids[4 * (k - 1) + 1] = Byte("ssrc", y.ssrcs[k])
  BY WordsAre
<1>3. /\ r \in Seq(Octet) /\ Len(r) = e
      /\ y.reason # 0 => r[1] = Byte("len", y.reason)
  BY ReasonIs
<1>4. /\ B \in Nat /\ B % 4 = 0 /\ e \in Nat /\ o + e <= B
      /\ y.reason = 0 => B = o
  BY ByeSize
<1>5. p = ((h \o ids) \o r) \o z
  BY DEF ByePacket, ReasonData
<1>6. h \in Seq(Octet)
  <2>1. type \in PacketTypes
    BY DEF PacketTypes
  <2> HIDE DEF type, n
  <2>2. Header(type, n, ByeBytes(y)) \in Seq(Octet)
    BY <1>1, <1>4, <2>1, HeaderType
  <2> QED
    BY <2>2 DEF type
<1> HIDE DEF ids, r, e, B, o
<1>7. m = B - o - e /\ m \in Nat
  <2>1. m = B - 4 - 4 * n - e
    BY <1>2, <1>3 DEF B, HeaderSize
  <2> HIDE DEF m, n
  <2> QED
    BY <1>1, <1>4, <2>1
<1> HIDE DEF m
<1>8. z \in Seq(Octet) /\ Len(z) = m
  BY <1>7, ZerosAre
<1> HIDE DEF z, h
<1>9. q \in Seq(Octet) /\ Len(q) = e + m
  <2>1. q \in Seq(Octet) /\ Len(q) = Len(r) + Len(z)
    BY <1>3, <1>8, Rows
  <2> QED
    BY <1>3, <1>8, <2>1
<1>10. y.reason # 0 => q[1] = Byte("len", y.reason)
  <2>1. ASSUME y.reason # 0 PROVE q[1] = r[1]
    <3> DEFINE j == 1
    <3>1. j \in 1..Len(r)
      BY <1>3, <1>4, <2>1 DEF e
    <3> HIDE DEF j
    <3>2. q[j] = r[j]
      BY <1>3, <1>8, <3>1, FirstOf
    <3> QED
      BY <3>2 DEF j
  <2> QED
    BY <1>3, <2>1
<1>11. p = h \o body
  <2>1. h \o ids \in Seq(Octet)
    BY <1>2, <1>6, Rows
  <2>2. ((h \o ids) \o r) \o z = (h \o ids) \o (r \o z)
    <3> DEFINE t == h \o ids
    <3>1. t \in Seq(Octet)
      BY <2>1
    <3> HIDE DEF t
    <3>2. (t \o r) \o z = t \o (r \o z)
      BY <1>3, <1>8, <3>1, RowsAssociate
    <3> QED
      BY <3>2 DEF t
  <2> HIDE DEF q
  <2>3. (h \o ids) \o q = h \o (ids \o q)
    BY <1>2, <1>6, <1>9, RowsAssociate
  <2> QED
    BY <1>5, <2>2, <2>3, Zenon DEF q
<1> HIDE DEF q
<1>12. /\ body \in Seq(Octet) /\ Len(body) = Len(ids) + Len(q)
       /\ At(body, 0, ids) /\ At(body, Len(ids), q)
  BY <1>2, <1>9, Rows
<1> HIDE DEF body
<1>16. Len(body) = 4 * n + e + m
  <2> HIDE DEF n
  <2>1. /\ Len(body) = Len(ids) + Len(q) /\ Len(ids) = 4 * n /\ Len(q) = e + m
        /\ n \in Nat /\ e \in Nat /\ m \in Nat
    BY <1>1, <1>2, <1>4, <1>7, <1>9, <1>12
  <2> QED
    BY ONLY <2>1
<1>13. HeaderSize + Len(body) = B
  <2> HIDE DEF n
  <2>1. /\ Len(body) = 4 * n + e + m /\ n \in Nat /\ e \in Nat /\ m \in Nat /\ B \in Nat
        /\ m = B - o - e /\ o = 4 + 4 * n /\ HeaderSize = 4
    BY <1>1, <1>4, <1>7, <1>16 DEF HeaderSize
  <2> QED
    BY ONLY <2>1
<1>14. /\ Shape(p, type, n) /\ Len(p) = B /\ At(p, HeaderSize, body)
  <2>1. type \in PacketTypes
    BY DEF PacketTypes
  <2>2. p = Packet(type, n, body)
    BY <1>11, <1>13 DEF Packet, h, B
  <2>3. (HeaderSize + Len(body)) % 4 = 0
    BY <1>4, <1>13
  <2> HIDE DEF type, n
  <2>4. /\ Shape(p, type, n) /\ Len(p) = HeaderSize + Len(body)
        /\ At(p, HeaderSize, body)
    BY <1>1, <1>12, <2>1, <2>2, <2>3, HeadSays
  <2> QED
    BY <1>13, <2>4
<1>15. /\ Unpadded(p) = p /\ p # <<>> /\ p[1].v.type = type /\ p[1].v.count = n
  <2> HIDE DEF type, n
  <2> QED
    BY <1>14, ShapeSays
<1>17. [k \in 1..n |-> SsrcAt(p, HeaderSize + WordSize * (k - 1) + 1)] = y.ssrcs
  <2>1. y.ssrcs = [k \in 1..n |-> y.ssrcs[k]]
    OBVIOUS
  <2>2. ASSUME NEW k \in 1..n
        PROVE  SsrcAt(p, HeaderSize + WordSize * (k - 1) + 1) = y.ssrcs[k]
    <3> DEFINE j == 4 * (k - 1) + 1
               x == 4 + j
    <3> HIDE DEF n
    <3>1. j \in 1..4 * n /\ j \in 1..Len(body) /\ x = 4 + j /\ x \in Nat /\ x <= Len(p)
      BY <1>1, <1>4, <1>7, <1>13, <1>14, <1>16 DEF HeaderSize
    <3>2. ids[j] = Byte("ssrc", y.ssrcs[k])
      BY <1>2
    <3>3. HeaderSize + WordSize * (k - 1) + 1 = x
      BY <1>1 DEF HeaderSize, WordSize
    <3> HIDE DEF j, x
    <3>4. body[0 + j] = ids[j] /\ 0 + j = j
      BY <1>2, <1>12, <3>1 DEF At
    <3>5. p[4 + j] = body[j]
      BY <1>14, <3>1 DEF At, HeaderSize
    <3>6. p[x] = Byte("ssrc", y.ssrcs[k])
      BY <3>1, <3>2, <3>4, <3>5
    <3> QED
      BY <3>1, <3>3, <3>6, SsrcRead
  <2> HIDE DEF n
  <2> QED
    BY <2>1, <2>2
<1>18. ASSUME y.reason # 0
       PROVE  /\ o < Len(p) /\ Value(p[o + 1]) = y.reason
              /\ ~(Value(p[o + 1]) > Len(p) - o - 1)
  <2>1. e = 1 + y.reason
    BY <1>18 DEF e
  <2> HIDE DEF n
  <2>2. o < Len(p) /\ ~(y.reason > Len(p) - o - 1)
    BY <1>1, <1>4, <1>14, <2>1
  <2> DEFINE j == 4 * n + 1
  <2>3. j \in 1..Len(body) /\ 1 \in 1..Len(q) /\ Len(ids) + 1 = j /\ o + 1 = 4 + j
    <3>1. n \in Nat /\ m \in Nat /\ y.reason \in Nat
      BY <1>1, <1>7
    <3>2. Len(body) = 4 * n + (1 + y.reason) + m /\ Len(q) = 1 + y.reason + m
      <4>1. Len(body) = 4 * n + e + m /\ Len(q) = e + m
        BY <1>9, <1>16
      <4> QED
        BY ONLY <2>1, <3>1, <4>1
    <3>3. 4 * n + 1 \in 1..Len(body) /\ 1 \in 1..Len(q)
      BY ONLY <3>1, <3>2, ReasonPlace, Zenon
    <3>4. j = 4 * n + 1 /\ o = 4 + 4 * n /\ Len(ids) = 4 * n
      BY <1>1, <1>2
    <3> HIDE DEF j
    <3>5. Len(ids) + 1 = j /\ o + 1 = 4 + j
      BY ONLY <3>1, <3>4
    <3> QED
      BY ONLY <3>3, <3>4, <3>5
  <2> HIDE DEF j
  <2>4. body[Len(ids) + 1] = q[1]
    BY <1>12, <2>3 DEF At
  <2>5. p[4 + j] = body[j]
    BY <1>14, <2>3 DEF At, HeaderSize
  <2>6. p[o + 1] = Byte("len", y.reason)
    BY <1>10, <1>18, <2>3, <2>4, <2>5
  <2>7. Value(p[o + 1]) = y.reason
    BY <2>6 DEF Value, Byte
  <2> QED
    BY <2>2, <2>7
<1>19. ParsePacket(p) = ParseBYE(p)
  BY <1>15 DEF ParsePacket
<1>20. HeaderSize + WordSize * n = o
  BY DEF o, WordSize
<1>21. ParseBYE(p) = [type |-> "BYE", known |-> TRUE, ssrcs |-> y.ssrcs,
                      reason |-> y.reason]
  <2>1. CASE y.reason = 0
    <3>1. ~(o > Len(p)) /\ ~(o < Len(p))
      BY <1>1, <1>4, <1>14, <2>1
    <3> HIDE DEF n
    <3> QED
      BY <1>15, <1>17, <1>20, <2>1, <3>1, Zenon DEF ParseBYE
  <2>2. CASE y.reason # 0
    <3>1. ~(o > Len(p))
      BY <1>1, <1>4, <1>14
    <3> HIDE DEF n
    <3> QED
      BY <1>15, <1>17, <1>18, <1>20, <2>2, <3>1, Zenon DEF ParseBYE
  <2> QED
    BY <2>1, <2>2
<1> QED
  BY <1>14, <1>19, <1>21 DEF B

-----------------------------------------------------------------------------
(* SDES items are read as they were built.                                 *)

\* An item of the calls.
LEMMA ItemIs ==
  ASSUME NEW i \in Item
  PROVE  /\ i.id \in 1..8 /\ i.length \in Nat /\ i.prefix \in Nat
         /\ i.id = 8 => i.prefix < i.length
         /\ i.id # 8 => i.prefix = 0
         /\ ItemBytes(i) = 2 + i.length
<1>1. i \in [id : 1..8, length : 0..255, prefix : 0..254]
  BY CallAssumption, SMT
<1>2. i.id \in 1..8 /\ i.length \in 0..255 /\ i.prefix \in 0..254
  BY <1>1, SMT
<1>3. IF i.id = 8 THEN i.prefix < i.length ELSE i.prefix = 0
  BY CallAssumption, SMT
<1> QED
  BY <1>2, <1>3, SMT DEF ItemBytes, ItemHeaderSize

\* It has three fields.
LEMMA ItemFields ==
  ASSUME NEW i \in Item
  PROVE  i = [id |-> i.id, length |-> i.length, prefix |-> i.prefix]
<1>1. i \in [id : 1..8, length : 0..255, prefix : 0..254]
  BY CallAssumption, SMT
<1> QED
  BY <1>1, SMT

\* Two bytes are a row of bytes.
LEMMA TwoBytes ==
  ASSUME NEW x \in Octet, NEW y \in Octet
  PROVE  <<x, y>> \in Seq(Octet) /\ Len(<<x, y>>) = 2 /\ <<x, y>>[1] = x /\ <<x, y>>[2] = y
  OBVIOUS

\* The bytes behind the header of an item.
ItemBody(i) ==
    IF i.id = 8 THEN <<Byte("len", i.prefix)>> \o Fill(i.length - 1) ELSE Fill(i.length)

\* A private item begins with its prefix.
LEMMA ItemBodyIs ==
  ASSUME NEW i \in Item
  PROVE  /\ ItemBody(i) \in Seq(Octet) /\ Len(ItemBody(i)) = i.length
         /\ i.id = 8 => ItemBody(i)[1] = Byte("len", i.prefix)
<1>1. CASE i.id = 8
  <2> DEFINE x == Byte("len", i.prefix)
             s == <<x>>
             m == i.length - 1
             f == Fill(m)
  <2>1. s \in Seq(Octet) /\ Len(s) = 1 /\ s[1] = x
    BY ItemIs, OctetIs, OneByte
  <2>2. m \in Nat /\ i.length = 1 + m
    BY <1>1, ItemIs
  <2> HIDE DEF m
  <2>3. f \in Seq(Octet) /\ Len(f) = m
    BY <2>2, FillingIs
  <2>4. ItemBody(i) = s \o f
    BY <1>1 DEF ItemBody, m
  <2> HIDE DEF x, s, f
  <2>5. s \o f \in Seq(Octet) /\ Len(s \o f) = Len(s) + Len(f)
    <3>1. s \in Seq(Octet) /\ f \in Seq(Octet)
      BY <2>1, <2>3
    <3> QED
      BY <3>1, Rows
  <2>6. (s \o f)[1] = s[1]
    <3> DEFINE j == 1
    <3>1. j \in 1..Len(s)
      BY <2>1
    <3> HIDE DEF j
    <3>2. (s \o f)[j] = s[j]
      BY <2>1, <2>3, <3>1, FirstOf
    <3> QED
      BY <3>2 DEF j
  <2> QED
    BY <2>1, <2>2, <2>3, <2>4, <2>5, <2>6 DEF x
<1>2. CASE i.id # 8
  <2>1. i.length \in Nat /\ ItemBody(i) = Fill(i.length)
    BY <1>2, ItemIs DEF ItemBody
  <2> QED
    BY <1>2, <2>1, FillingIs
<1> QED
  BY <1>1, <1>2

\* The bytes of an item.
LEMMA ItemDataIs ==
  ASSUME NEW i \in Item
  PROVE  /\ ItemData(i) \in Seq(Octet) /\ Len(ItemData(i)) = ItemBytes(i)
         /\ ItemData(i)[1] = Byte("id", i.id) /\ ItemData(i)[2] = Byte("len", i.length)
         /\ i.id = 8 => ItemData(i)[3] = Byte("len", i.prefix)
<1> DEFINE x == Byte("id", i.id)
           y == Byte("len", i.length)
           h == <<x, y>>
           b == ItemBody(i)
           d == h \o b
<1>1. x \in Octet /\ y \in Octet
  BY ItemIs, OctetIs
<1>2. ItemData(i) = d
  BY DEF ItemData, ItemBody
<1> HIDE DEF x, y
<1>3. h \in Seq(Octet) /\ Len(h) = 2 /\ h[1] = x /\ h[2] = y
  BY <1>1, TwoBytes
<1>4. /\ b \in Seq(Octet) /\ Len(b) = i.length
      /\ i.id = 8 => b[1] = Byte("len", i.prefix)
  BY ItemBodyIs
<1> HIDE DEF h, b
<1>5. d \in Seq(Octet) /\ Len(d) = Len(h) + Len(b)
  BY <1>3, <1>4, Rows
<1>6. d[1] = h[1] /\ d[2] = h[2]
  <2>1. \A j \in 1..Len(h) : d[j] = h[j]
    BY <1>3, <1>4, FirstOf
  <2>2. 1 \in 1..Len(h) /\ 2 \in 1..Len(h)
    BY <1>3
  <2> QED
    BY <2>1, <2>2
<1>7. ASSUME i.id = 8 PROVE d[3] = b[1]
  <2>1. At(d, Len(h), b)
    BY <1>3, <1>4, Rows
  <2>2. 1 \in 1..Len(b) /\ Len(h) + 1 = 3
    <3>1. i.length >= 1 /\ i.length \in Nat
      BY <1>7, ItemIs
    <3> QED
      BY <1>3, <1>4, <3>1
  <2>3. d[Len(h) + 1] = b[1]
    BY <2>1, <2>2 DEF At
  <2> QED
    BY <2>2, <2>3
<1> HIDE DEF d
<1> QED
  BY <1>2, <1>3, <1>4, <1>5, <1>6, <1>7, ItemIs DEF x, y

\* What the parser is about to do with an item.
Reading(o, items) == [at |-> o, items |-> items, state |-> "reading"]
Stopped(o, items) == [at |-> o, items |-> items, state |-> "ended"]

\* It reads an item as it was written.
LEMMA ItemRead ==
  ASSUME NEW u \in Seq(Octet), NEW i \in Item, NEW o \in Nat, At(u, o, ItemData(i)), NEW its
  PROVE  ItemTurn(u, Reading(o, its)) = Reading(o + ItemBytes(i), Append(its, i))
<1> DEFINE d == ItemData(i)
           f == Reading(o, its)
           n == Len(u)
           l == i.length
<1>1. /\ d \in Seq(Octet) /\ Len(d) = 2 + l /\ l \in Nat
      /\ d[1] = Byte("id", i.id) /\ d[2] = Byte("len", l)
      /\ i.id = 8 => d[3] = Byte("len", i.prefix)
  BY ItemDataIs, ItemIs
<1>2. n \in Nat /\ n >= o + Len(d) /\ \A j \in 1..Len(d) : u[o + j] = d[j]
  BY DEF At
<1> HIDE DEF d, n
<1>3. u[o + 1] = Byte("id", i.id) /\ u[o + 2] = Byte("len", l)
  <2>1. 1 \in 1..Len(d) /\ 2 \in 1..Len(d)
    BY <1>1
  <2> QED
    BY <1>1, <1>2, <2>1
<1>4. i.id = 8 => u[o + 3] = Byte("len", i.prefix)
  <2>1. ASSUME i.id = 8 PROVE 3 \in 1..Len(d)
    BY <1>1, <2>1, ItemIs
  <2> QED
    BY <1>1, <1>2, <2>1
<1>5. Value(u[o + 1]) = i.id /\ Value(u[o + 2]) = l
  BY <1>3 DEF Value, Byte
<1>6. i.id = 8 => Value(u[o + 3]) = i.prefix
  BY <1>4 DEF Value, Byte
<1>7. f.at = o /\ f.items = its /\ f.state = "reading"
  BY DEF Reading
<1> DEFINE prefix == IF i.id # 8 \/ l = 0 THEN 0
                     ELSE IF Value(u[o + 3]) > l - 1 THEN 0 ELSE Value(u[o + 3])
<1>8. prefix = i.prefix
  <2>1. CASE i.id = 8
    <3>1. l # 0 /\ ~(i.prefix > l - 1)
      BY <1>1, <2>1, ItemIs
    <3> QED
      BY <1>6, <2>1, <3>1
  <2>2. CASE i.id # 8
    BY <2>2, ItemIs
  <2> QED
    BY <2>1, <2>2
<1>9. /\ ~(o >= n) /\ Value(u[o + 1]) # 0 /\ ~(o + ItemHeaderSize > n)
      /\ ~(o + ItemHeaderSize + l > n)
  <2>1. Value(u[o + 1]) # 0
    <3>1. i.id \in 1..8
      BY ItemIs
    <3> QED
      BY <1>5, <3>1
  <2>2. ItemHeaderSize = 2 /\ n >= o + (2 + l)
    BY <1>1, <1>2 DEF ItemHeaderSize
  <2> HIDE DEF l
  <2>3. ~(o >= n) /\ ~(o + 2 > n) /\ ~(o + 2 + l > n)
    BY <1>1, <1>2, <2>2
  <2> QED
    BY <2>1, <2>2, <2>3
<1> HIDE DEF f, prefix
<1>10. ItemTurn(u, f)
         = [at |-> o + ItemHeaderSize + l,
            items |-> Append(its, [id |-> i.id, length |-> l, prefix |-> prefix]),
            state |-> "reading"]
  BY <1>5, <1>7, <1>9, Zenon DEF ItemTurn, prefix, n
<1>11. [id |-> i.id, length |-> l, prefix |-> prefix] = i
  BY <1>8, ItemFields
<1>12. o + ItemHeaderSize + l = o + ItemBytes(i)
  <2>1. ItemHeaderSize = 2 /\ ItemBytes(i) = 2 + l
    BY ItemIs DEF ItemHeaderSize
  <2> HIDE DEF l
  <2> QED
    BY <1>1, <2>1
<1> QED
  BY <1>10, <1>11, <1>12, Zenon DEF f, Reading

\* It stops at the zero byte, at the end of a word.
LEMMA ItemsEnd ==
  ASSUME NEW u \in Seq(Octet), NEW o \in Nat, NEW its, o < Len(u),
         u[o + 1] = Byte("zero", 0), RoundUp(o + 1) <= Len(u)
  PROVE  ItemTurn(u, Reading(o, its)) = Stopped(RoundUp(o + 1), its)
<1> DEFINE f == Reading(o, its)
<1>1. Value(u[o + 1]) = 0
  BY DEF Value, Byte
<1>2. f.at = o /\ f.items = its /\ f.state = "reading"
  BY DEF Reading
<1>3. ~(o >= Len(u)) /\ ~(RoundUp(o + 1) > Len(u))
  <2>1. RoundUp(o + 1) \in Nat
    BY RoundUpIs
  <2> QED
    BY <2>1
<1> HIDE DEF f
<1>4. ItemTurn(u, f) = [at |-> RoundUp(o + 1), items |-> its, state |-> "ended"]
  BY <1>1, <1>2, <1>3, Zenon DEF ItemTurn
<1> QED
  BY <1>4, Zenon DEF f, Stopped

-----------------------------------------------------------------------------
(* The bytes of a chunk.                                                   *)

\* Where the parts of a row lie.
LEMMA LaidAt ==
  ASSUME NEW ss \in Seq(Seq(Octet)), NEW s \in Seq(Octet), NEW o, Laid(o, ss, s)
  PROVE  /\ o[0] = 0 /\ o[Len(ss)] = Len(s)
         /\ \A k \in 0..Len(ss) : o[k] \in Nat /\ o[k] <= Len(s)
         /\ \A k \in 1..Len(ss) : /\ ss[k] \in Seq(Octet)
                                  /\ o[k] = o[k - 1] + Len(ss[k])
                                  /\ At(s, o[k - 1], ss[k])
<1> DEFINE N == Len(ss)
<1>1. /\ Lens(ss) \in Seq(Nat) /\ Len(Lens(ss)) = N /\ N \in Nat
      /\ \A k \in 1..N : Lens(ss)[k] = Len(ss[k]) /\ ss[k] \in Seq(Octet)
  BY LensType
<1>2. /\ Sums(o, Lens(ss)) /\ Len(s) = o[N]
      /\ \A k \in 1..N : \A j \in 1..Len(ss[k]) : s[o[k - 1] + j] = ss[k][j]
  BY DEF Laid
<1> HIDE DEF N
<1>3. o \in [0..N -> Nat] /\ o[0] = 0 /\ \A k \in 1..N : o[k] = o[k - 1] + Lens(ss)[k]
  BY <1>1, <1>2 DEF Sums
<1>4. ASSUME NEW k \in 0..N PROVE o[k] \in Nat /\ o[k] <= Len(s)
  <2>1. o[k] \in Nat
    BY <1>3
  <2>2. N \in 0..N /\ k <= N
    BY <1>1
  <2>3. \A j \in 0..N : k <= j => o[k] <= o[j]
    BY <1>1, <1>2, SumsGrow
  <2> QED
    BY <1>2, <2>1, <2>2, <2>3
<1>5. ASSUME NEW k \in 1..N
      PROVE  /\ ss[k] \in Seq(Octet) /\ o[k] = o[k - 1] + Len(ss[k])
             /\ At(s, o[k - 1], ss[k])
  <2>1. ss[k] \in Seq(Octet) /\ o[k] = o[k - 1] + Len(ss[k])
    BY <1>1, <1>3
  <2>2. k \in 0..N
    BY <1>1
  <2>3. o[k] <= Len(s)
    BY <1>4, <2>2
  <2>4. Len(s) >= o[k - 1] + Len(ss[k])
    <3>1. o[k] \in Nat /\ Len(s) \in Nat
      BY <1>4, <2>2
    <3> QED
      BY <2>1, <2>3, <3>1
  <2> QED
    BY <1>2, <2>1, <2>4 DEF At
<1> QED
  BY <1>2, <1>3, <1>4, <1>5 DEF N

\* The lengths of items.
ItemLens(items) == [k \in DOMAIN items |-> ItemBytes(items[k])]

\* They are numbers above 0.
LEMMA ItemLensAre ==
  ASSUME NEW items \in Seq(Item)
  PROVE  /\ ItemLens(items) \in Seq(Nat) /\ Len(ItemLens(items)) = Len(items)
         /\ Len(items) \in Nat
         /\ \A k \in 1..Len(items) : /\ items[k] \in Item
                                     /\ ItemLens(items)[k] = ItemBytes(items[k])
                                     /\ ItemLens(items)[k] \in Nat \ {0}
<1> DEFINE n == Len(items)
           s == ItemLens(items)
<1>1. n \in Nat /\ DOMAIN items = 1..n /\ \A k \in 1..n : items[k] \in Item
  OBVIOUS
<1>2. s = [k \in 1..n |-> ItemBytes(items[k])]
  BY <1>1 DEF ItemLens
<1> HIDE DEF s, n
<1>3. \A k \in 1..n : ItemBytes(items[k]) \in Nat \ {0}
  <2> SUFFICES ASSUME NEW k \in 1..n PROVE ItemBytes(items[k]) \in Nat \ {0}
    OBVIOUS
  <2>1. items[k] \in Item
    BY <1>1
  <2>2. items[k].length \in Nat /\ ItemBytes(items[k]) = 2 + items[k].length
    BY <2>1, ItemIs
  <2> QED
    BY <2>2
<1>4. s \in [1..n -> Nat]
  BY <1>2, <1>3
<1>5. s \in Seq(Nat) /\ Len(s) = n
  BY <1>1, <1>4
<1> QED
  BY <1>1, <1>2, <1>3, <1>5 DEF s, n

\* The bytes of a chunk: where its items begin, and the zero behind them.
LEMMA ChunkDataIs ==
  ASSUME NEW c, c.ssrc \in Source, c.items \in Seq(Item),
         NEW t, Sums(t, ItemLens(c.items)),
         NEW d, d = ChunkData(c), NEW n, n = Len(c.items)
  PROVE  /\ d \in Seq(Octet) /\ Len(d) = ChunkBytes(c.items)
         /\ Len(d) % 4 = 0 /\ Len(d) >= 8
         /\ n \in Nat /\ t[0] = 0 /\ t[n] \in Nat /\ n + n <= t[n] /\ 4 + t[n] < Len(d)
         /\ RoundUp(4 + t[n] + 1) = Len(d)
         /\ d[1] = Byte("ssrc", c.ssrc)
         /\ \A k \in 1..n : /\ t[k - 1] \in Nat
                            /\ t[k] = t[k - 1] + ItemBytes(c.items[k])
                            /\ At(d, 4 + t[k - 1], ItemData(c.items[k]))
         /\ d[4 + t[n] + 1] = Byte("zero", 0)
<1> DEFINE ds == [k \in DOMAIN c.items |-> ItemData(c.items[k])]
           its == FlattenSeq(ds)
           w == Word("ssrc", c.ssrc)
           L == Len(its)
           m == RoundUp(L + 1) - L
           z == Zeros(m)
           q == its \o z
<1>1. /\ ItemLens(c.items) \in Seq(Nat) /\ Len(ItemLens(c.items)) = n /\ n \in Nat
      /\ \A k \in 1..n : /\ c.items[k] \in Item
                         /\ ItemLens(c.items)[k] = ItemBytes(c.items[k])
                         /\ ItemLens(c.items)[k] \in Nat \ {0}
  BY ItemLensAre
<1>2. \A k \in 1..n : ds[k] = ItemData(c.items[k]) /\ ds[k] \in Seq(Octet)
                      /\ Len(ds[k]) = ItemBytes(c.items[k])
  BY <1>1, ItemDataIs
<1>3. ds \in Seq(Seq(Octet)) /\ Len(ds) = n
  <2>1. DOMAIN c.items = 1..n
    OBVIOUS
  <2>2. ds \in [1..n -> Seq(Octet)] /\ n \in Nat
    BY <1>1, <1>2, <2>1
  <2> HIDE DEF ds
  <2> QED
    BY ONLY <2>2, FunctionIsSeq
<1>4. d = (w \o its) \o z
  BY DEF ChunkData
<1>5. Sums(t, Lens(ds))
  <2>1. Len(Lens(ds)) = Len(ds) /\ \A k \in 1..Len(ds) : Lens(ds)[k] = Len(ds[k])
    BY <1>3, LensType
  <2> HIDE DEF ds
  <2>2. Len(Lens(ds)) = n /\ \A k \in 1..n : Lens(ds)[k] = ItemLens(c.items)[k]
    BY <1>1, <1>2, <1>3, <2>1
  <2> QED
    BY <1>1, <2>2 DEF Sums
<1> HIDE DEF ds
<1>6. its \in Seq(Octet) /\ Laid(t, ds, its)
  BY <1>3, <1>5, FlattenIs, FlattenLaid
<1> HIDE DEF its
<1>7. /\ t[0] = 0 /\ t[n] = L /\ (\A k \in 0..n : t[k] \in Nat)
      /\ \A k \in 1..n : t[k] = t[k - 1] + Len(ds[k]) /\ At(its, t[k - 1], ds[k])
  <2>1. /\ t[0] = 0 /\ t[Len(ds)] = Len(its)
        /\ \A k \in 0..Len(ds) : t[k] \in Nat
        /\ \A k \in 1..Len(ds) : t[k] = t[k - 1] + Len(ds[k]) /\ At(its, t[k - 1], ds[k])
    BY <1>3, <1>6, LaidAt
  <2> QED
    BY <1>3, <2>1, Zenon
<1>8. L \in Nat
  BY <1>6
<1> HIDE DEF L
<1>9. /\ m \in Nat /\ m >= 1 /\ L + m = RoundUp(L + 1) /\ RoundUp(L + 1) % 4 = 0
      /\ RoundUp(L + 1) \in Nat /\ RoundUp(L + 1) < L + 1 + 4 /\ L + 1 <= RoundUp(L + 1)
  <2> DEFINE x == L + 1
  <2>1. x \in Nat
    BY <1>8
  <2> HIDE DEF x
  <2>2. /\ RoundUp(x) \in Nat /\ RoundUp(x) % 4 = 0
        /\ x <= RoundUp(x) /\ RoundUp(x) < x + 4
    BY <2>1, RoundUpIs
  <2>3. m = RoundUp(x) - L
    BY DEF x
  <2> HIDE DEF m
  <2>4. m \in Nat /\ m >= 1 /\ L + m = RoundUp(x)
    BY <1>8, <2>2, <2>3 DEF x
  <2> QED
    BY <2>2, <2>4 DEF x
<1> HIDE DEF m
<1>10. z \in Seq(Octet) /\ Len(z) = m /\ z[1] = Byte("zero", 0)
  BY <1>9, ZerosAre
<1>11. w \in Seq(Octet) /\ Len(w) = 4 /\ w[1] = Byte("ssrc", c.ssrc)
  BY OctetIs, WordIs
<1> HIDE DEF z, w
<1>12. d = w \o q
  BY <1>4, <1>6, <1>10, <1>11, RowsAssociate
<1>13. /\ q \in Seq(Octet) /\ Len(q) = Len(its) + Len(z)
       /\ At(q, 0, its) /\ At(q, Len(its), z)
  BY <1>6, <1>10, Rows
<1> HIDE DEF q
<1>14. d \in Seq(Octet) /\ Len(d) = Len(w) + Len(q) /\ At(d, 0, w) /\ At(d, Len(w), q)
  BY <1>11, <1>12, <1>13, Rows
<1>15. Len(d) = 4 + RoundUp(L + 1) /\ Len(q) = L + m
  <2>1. Len(q) = L + m
    BY <1>10, <1>13 DEF L
  <2> QED
    BY <1>9, <1>11, <1>14, <2>1
<1>16. d[1] = Byte("ssrc", c.ssrc)
  <2> DEFINE j == 1
  <2>1. j \in 1..Len(w)
    BY <1>11
  <2> HIDE DEF j
  <2>2. d[j] = w[j]
    BY <1>11, <1>12, <1>13, <2>1, FirstOf
  <2> QED
    BY <1>11, <2>2 DEF j
<1>17. d[4 + L + 1] = Byte("zero", 0)
  <2>1. 1 \in 1..Len(z) /\ L + 1 \in 1..Len(q) /\ 4 + (L + 1) = 4 + L + 1
    BY <1>8, <1>9, <1>10, <1>15
  <2>2. q[L + 1] = z[1]
    BY <1>13, <2>1 DEF At, L
  <2>3. d[4 + (L + 1)] = q[L + 1]
    BY <1>11, <1>14, <2>1 DEF At
  <2> QED
    BY <1>10, <2>1, <2>2, <2>3
<1>18. ASSUME NEW k \in 1..n
       PROVE  /\ t[k - 1] \in Nat /\ t[k] = t[k - 1] + ItemBytes(c.items[k])
              /\ At(d, 4 + t[k - 1], ItemData(c.items[k]))
  <2>1. t[k - 1] \in Nat
    <3>1. k - 1 \in 0..n
      BY <1>1
    <3> QED
      BY <1>7, <3>1
  <2>2. t[k] = t[k - 1] + ItemBytes(c.items[k]) /\ At(its, t[k - 1], ds[k])
    BY <1>2, <1>7
  <2> DEFINE x == t[k - 1]
             b == ds[k]
             zero == 0
             four == Len(w)
  <2>3. x \in Nat /\ b \in Seq(Octet) /\ At(its, x, b) /\ zero \in Nat /\ four \in Nat
    BY <1>2, <1>11, <2>1, <2>2
  <2>4. At(q, zero, its) /\ At(d, four, q) /\ zero + x = x /\ four + x = 4 + t[k - 1]
    BY <1>11, <1>13, <1>14, <2>1
  <2>5. b = ItemData(c.items[k])
    BY <1>2
  <2> HIDE DEF x, b, zero, four
  <2>6. At(q, zero + x, b)
    BY <1>6, <1>13, <2>3, <2>4, AtAt
  <2>7. At(d, four + x, b)
    BY <1>13, <1>14, <2>3, <2>4, <2>6, AtAt
  <2> QED
    BY <2>1, <2>2, <2>4, <2>5, <2>7
<1>19. Len(d) = ChunkBytes(c.items)
  <2>1. Total(ItemLens(c.items)) = t[n]
    BY <1>1, TotalIs
  <2>2. ChunkBytes(c.items) = 4 + RoundUp(L + 1)
    BY <1>7, <2>1 DEF ChunkBytes, ItemLens, WordSize
  <2> QED
    BY <1>15, <2>2
<1>20. RoundUp(4 + L + 1) = Len(d) /\ Len(d) % 4 = 0 /\ Len(d) >= 8 /\ 4 + L < Len(d)
  <2> DEFINE x == 4 + L + 1
             y == Len(d)
             r == RoundUp(L + 1)
  <2>1. y = 4 + r /\ r \in Nat /\ r % 4 = 0 /\ L + 1 <= r /\ r < L + 1 + 4
    BY <1>9, <1>15
  <2> HIDE DEF r, y
  <2>2. x \in Nat /\ y \in Nat /\ y % 4 = 0 /\ x <= y /\ y < x + 4 /\ y >= 8 /\ 4 + L < y
    BY <1>8, <2>1
  <2> HIDE DEF x
  <2>3. RoundUp(x) = y
    BY <2>2, RoundUpSays
  <2> QED
    BY <2>2, <2>3 DEF x, y
<1>21. n + n <= t[n]
  <2>1. \A k \in 1..Len(ItemLens(c.items)) : ItemLens(c.items)[k] >= 2
    <3> SUFFICES ASSUME NEW k \in 1..n PROVE ItemLens(c.items)[k] >= 2
      BY <1>1
    <3>1. c.items[k] \in Item /\ ItemLens(c.items)[k] = ItemBytes(c.items[k])
      BY <1>1
    <3>2. c.items[k].length \in Nat /\ ItemBytes(c.items[k]) = 2 + c.items[k].length
      BY <3>1, ItemIs
    <3> QED
      BY <3>1, <3>2
  <2>2. \A k \in 0..Len(ItemLens(c.items)) : t[k] \in Nat /\ 2 * k <= t[k]
    BY <1>1, <2>1, SumsReach
  <2>3. n \in 0..n
    BY <1>1
  <2>4. 2 * n <= t[n]
    BY <1>1, <2>2, <2>3
  <2> QED
    BY <1>1, <2>4
<1> QED
  BY <1>1, <1>7, <1>8, <1>14, <1>16, <1>17, <1>18, <1>19, <1>20, <1>21

-----------------------------------------------------------------------------
(* The items of a chunk are read.                                          *)

\* The first k elements.
Leading(s, k) == [j \in 1..k |-> s[j]]

\* One more at a time.
LEMMA LeadingIs ==
  ASSUME NEW X, NEW s \in Seq(X)
  PROVE  /\ Leading(s, 0) = <<>> /\ Leading(s, Len(s)) = s
         /\ \A k \in 0..Len(s) : Leading(s, k) \in Seq(X) /\ Len(Leading(s, k)) = k
         /\ \A k \in 1..Len(s) : Append(Leading(s, k - 1), s[k]) = Leading(s, k)
<1> DEFINE n == Len(s)
<1>1. n \in Nat /\ s = [j \in 1..n |-> s[j]] /\ \A j \in 1..n : s[j] \in X
  OBVIOUS
<1>2. Leading(s, n) = s
  BY <1>1 DEF Leading
<1>3. Leading(s, 0) = <<>>
  BY DEF Leading
<1> HIDE DEF n
<1>4. ASSUME NEW k \in 0..n PROVE Leading(s, k) \in Seq(X) /\ Len(Leading(s, k)) = k
  <2>1. k \in Nat /\ \A j \in 1..k : j \in 1..n
    BY <1>1
  <2>2. Leading(s, k) \in [1..k -> X]
    BY <1>1, <2>1 DEF Leading
  <2> QED
    BY <2>1, <2>2
<1>5. ASSUME NEW k \in 1..n PROVE Append(Leading(s, k - 1), s[k]) = Leading(s, k)
  <2> DEFINE a == Leading(s, k - 1)
             b == Leading(s, k)
             x == s[k]
             e == Append(a, x)
  <2>1. k - 1 \in 0..n /\ k \in 0..n
    BY <1>1
  <2>2. a \in Seq(X) /\ Len(a) = k - 1 /\ b \in Seq(X) /\ Len(b) = k /\ x \in X
    BY <1>1, <1>4, <2>1
  <2>3. (\A j \in 1..k - 1 : a[j] = s[j]) /\ \A j \in 1..k : b[j] = s[j]
    BY DEF Leading
  <2> HIDE DEF a, b, x
  <2>4. e \in Seq(X) /\ Len(e) = k /\ e[k] = x /\ \A j \in 1..k - 1 : e[j] = a[j]
    <3>1. k \in Nat \ {0} /\ a \in Seq(X) /\ Len(a) = k - 1 /\ x \in X
      BY <1>1, <2>2
    <3> QED
      BY ONLY <3>1, AppendedIs
  <2> HIDE DEF e
  <2>5. Len(e) = k /\ e[k] = x /\ \A j \in 1..k - 1 : e[j] = s[j]
    BY ONLY <2>3, <2>4
  <2>6. \A j \in 1..k : e[j] = b[j]
    <3> SUFFICES ASSUME NEW j \in 1..k PROVE e[j] = b[j]
      OBVIOUS
    <3>1. j = k \/ j \in 1..k - 1
      BY <2>1
    <3> QED
      BY <2>3, <2>5, <3>1 DEF x
  <2>7. e = b
    BY <2>2, <2>4, <2>5, <2>6
  <2> QED
    BY <2>7 DEF e, a, b, x
<1> QED
  BY <1>2, <1>3, <1>4, <1>5 DEF n

\* ItemsOf as a loop.
ItemsLoop(f, u) ==
    f = [k \in 0..(Len(u) \div ItemHeaderSize) |->
            IF k = 0 THEN [at |-> WordSize, items |-> <<>>, state |-> "reading"]
            ELSE ItemTurn(u, f[k - 1])]

\* What is after its last turn is the result.
LEMMA ItemsOfIs ==
  ASSUME NEW u, NEW N \in Nat, N = Len(u) \div ItemHeaderSize, NEW E,
         E = [k \in 0..N |-> E[k]], E[0] = Reading(4, <<>>),
         \A k \in 1..N : E[k] = ItemTurn(u, E[k - 1])
  PROVE  ItemsOf(u) = E[N]
<1> DEFINE f == CHOOSE g : ItemsLoop(g, u)
           z == [at |-> WordSize, items |-> <<>>, state |-> "reading"]
<1>1. ItemsOf(u) = f[N]
  BY Zenon DEF ItemsOf, ItemsLoop
<1>2. E[0] = z
  BY DEF Reading, WordSize
<1> HIDE DEF z
<1>3. \A k \in 0..N : E[k] = IF k = 0 THEN z ELSE ItemTurn(u, E[k - 1])
  <2>1. \A k \in 0..N : k # 0 => k \in 1..N
    OBVIOUS
  <2> QED
    BY <1>2, <2>1
<1>4. E = [k \in 0..N |-> IF k = 0 THEN z ELSE ItemTurn(u, E[k - 1])]
  BY <1>3
<1>5. ItemsLoop(E, u)
  BY <1>4, Zenon DEF ItemsLoop, z
<1>6. ItemsLoop(f, u)
  BY <1>5, Zenon
<1> HIDE DEF f
<1>7. f = [k \in 0..N |-> IF k = 0 THEN z ELSE ItemTurn(u, f[k - 1])]
  BY <1>6, Zenon DEF ItemsLoop, z
<1>8. f[0] = E[0]
  <2>1. 0 \in 0..N
    OBVIOUS
  <2> QED
    BY ONLY <1>2, <1>7, <2>1
<1>9. \A k \in 1..N : f[k - 1] = E[k - 1] => f[k] = E[k]
  <2>1. \A k \in 1..N : k \in 0..N /\ k # 0
    OBVIOUS
  <2>2. \A k \in 1..N : f[k] = ItemTurn(u, f[k - 1])
    BY <1>7, <2>1
  <2> QED
    BY <2>2, Zenon
<1>10. \A k \in 0..N : f[k] = E[k]
  <2>1. Alike(f, E, N)
    BY <1>8, <1>9 DEF Alike
  <2> QED
    BY <2>1, TurnsAgree
<1>11. N \in 0..N
  OBVIOUS
<1> QED
  BY <1>1, <1>10, <1>11, Zenon

\* The items of a chunk are read as they were written.
LEMMA ItemsRead ==
  ASSUME NEW c, c.ssrc \in Source, c.items \in Seq(Item),
         NEW u \in Seq(Octet), NEW d, d = ChunkData(c), At(u, 0, d)
  PROVE  ItemsOf(u) = Stopped(Len(d), c.items)
<1> DEFINE items == c.items
           n == Len(items)
           N == Len(u) \div ItemHeaderSize
<1>1. ItemLens(items) \in Seq(Nat) /\ \A k \in 1..n : items[k] \in Item
  BY ItemLensAre
<1>2. PICK t : Sums(t, ItemLens(items))
  BY <1>1, SumsExist
<1>3. /\ d \in Seq(Octet) /\ n \in Nat /\ t[0] = 0 /\ t[n] \in Nat /\ n + n <= t[n]
      /\ 4 + t[n] < Len(d) /\ RoundUp(4 + t[n] + 1) = Len(d)
      /\ \A k \in 1..n : /\ t[k - 1] \in Nat
                         /\ t[k] = t[k - 1] + ItemBytes(items[k])
                         /\ At(d, 4 + t[k - 1], ItemData(items[k]))
      /\ d[4 + t[n] + 1] = Byte("zero", 0)
  <2>1. /\ c.ssrc \in Source /\ c.items \in Seq(Item) /\ d = ChunkData(c)
        /\ n = Len(c.items) /\ Sums(t, ItemLens(c.items))
    BY <1>2
  <2> HIDE DEF n
  <2>2. /\ d \in Seq(Octet) /\ n \in Nat /\ t[0] = 0 /\ t[n] \in Nat
        /\ n + n <= t[n] /\ 4 + t[n] < Len(d) /\ RoundUp(4 + t[n] + 1) = Len(d)
    BY ONLY <2>1, ChunkDataIs
  <2>3. \A k \in 1..n : /\ t[k - 1] \in Nat
                         /\ t[k] = t[k - 1] + ItemBytes(c.items[k])
                         /\ At(d, 4 + t[k - 1], ItemData(c.items[k]))
    BY ONLY <2>1, ChunkDataIs
  <2>4. d[4 + t[n] + 1] = Byte("zero", 0)
    BY ONLY <2>1, ChunkDataIs
  <2> QED
    BY <2>2, <2>3, <2>4
<1>4. /\ Len(u) \in Nat /\ Len(d) \in Nat /\ Len(u) >= Len(d)
      /\ \A j \in 1..Len(d) : u[j] = d[j]
  <2>1. Len(u) \in Nat /\ Len(d) \in Nat /\ Len(u) >= 0 + Len(d)
        /\ \A j \in 1..Len(d) : u[0 + j] = d[j]
    BY <1>3 DEF At
  <2>2. \A j \in 1..Len(d) : 0 + j = j
    BY <2>1
  <2> QED
    BY <2>1, <2>2
<1> DEFINE E == [k \in 0..N |-> IF k <= n THEN Reading(4 + t[k], Leading(items, k))
                                ELSE Stopped(Len(d), items)]
<1>5. n < N /\ N \in Nat
  BY <1>3, <1>4 DEF ItemHeaderSize
<1>6. Leading(items, 0) = <<>> /\ Leading(items, n) = items
      /\ \A k \in 1..n : Append(Leading(items, k - 1), items[k]) = Leading(items, k)
  BY LeadingIs
<1> HIDE DEF n, N, items
<1>7. E[0] = Reading(4, <<>>)
  <2>1. 0 \in 0..N /\ 0 <= n /\ 4 + t[0] = 4
    BY <1>3, <1>5
  <2>2. E[0] = Reading(4 + t[0], Leading(items, 0))
    BY <2>1
  <2> HIDE DEF E
  <2> QED
    BY <1>6, <2>1, <2>2
<1>8. ASSUME NEW k \in 1..n PROVE E[k] = ItemTurn(u, E[k - 1])
  <2>1. k \in 0..N /\ k <= n /\ k - 1 \in 0..N /\ k - 1 <= n
    BY <1>3, <1>5
  <2>2. E[k] = Reading(4 + t[k], Leading(items, k))
    BY <2>1
  <2>3. E[k - 1] = Reading(4 + t[k - 1], Leading(items, k - 1))
    BY <2>1
  <2> HIDE DEF E
  <2> DEFINE i == items[k]
             o == 4 + t[k - 1]
             b == ItemData(i)
             z == 0
  <2>4. i \in Item /\ o \in Nat /\ At(d, o, b) /\ z \in Nat /\ At(u, z, d) /\ z + o = o
    <3>1. i \in Item
      BY <1>1 DEF n
    <3>2. At(d, o, b)
      BY <1>3, Zenon
    <3>3. t[k - 1] \in Nat
      BY <1>3, Zenon
    <3>4. o \in Nat /\ z + o = o
      BY ONLY <3>3
    <3>5. At(u, z, d)
      BY <1>4
    <3> QED
      BY <3>1, <3>2, <3>4, <3>5
  <2>5. b \in Seq(Octet)
    BY <2>4, ItemDataIs
  <2>6. o + ItemBytes(i) = 4 + t[k]
    <3>1. t[k] = t[k - 1] + ItemBytes(i) /\ t[k - 1] \in Nat
      BY <1>3
    <3>2. ItemBytes(i) \in Nat
      <4>1. i.length \in Nat /\ ItemBytes(i) = 2 + i.length
        BY <2>4, ItemIs
      <4> QED
        BY <4>1
    <3> QED
      BY <3>1, <3>2
  <2>7. Append(Leading(items, k - 1), i) = Leading(items, k)
    BY <1>6
  <2> HIDE DEF i, o, b, z
  <2>8. At(u, z + o, b)
    BY <1>3, <2>4, <2>5, AtAt
  <2>9. ItemTurn(u, Reading(o, Leading(items, k - 1)))
          = Reading(o + ItemBytes(i), Append(Leading(items, k - 1), i))
    BY <2>4, <2>8, ItemRead DEF b
  <2> QED
    BY <2>2, <2>3, <2>6, <2>7, <2>9 DEF o
<1>9. E[n + 1] = ItemTurn(u, E[n])
  <2>1. n + 1 \in 0..N /\ ~(n + 1 <= n) /\ n \in 0..N /\ n <= n
    BY <1>3, <1>5
  <2>2. E[n + 1] = Stopped(Len(d), items) /\ E[n] = Reading(4 + t[n], Leading(items, n))
    BY <2>1
  <2> HIDE DEF E
  <2> DEFINE o == 4 + t[n]
  <2>3. o \in Nat /\ o < Len(u) /\ RoundUp(o + 1) = Len(d) /\ o + 1 \in 1..Len(d)
    BY <1>3, <1>4
  <2>4. u[o + 1] = Byte("zero", 0)
    <3>1. d[o + 1] = Byte("zero", 0)
      BY <1>3
    <3> HIDE DEF o
    <3> QED
      BY <1>4, <2>3, <3>1
  <2> HIDE DEF o
  <2>5. ItemTurn(u, Reading(o, items)) = Stopped(RoundUp(o + 1), items)
    BY <1>4, <2>3, <2>4, ItemsEnd
  <2> QED
    BY <1>6, <2>2, <2>3, <2>5 DEF o
<1>10. ASSUME NEW k \in 1..N, k > n + 1 PROVE E[k] = ItemTurn(u, E[k - 1])
  <2>1. k \in 0..N /\ ~(k <= n) /\ k - 1 \in 0..N /\ ~(k - 1 <= n)
    BY <1>3, <1>5, <1>10
  <2>2. E[k] = Stopped(Len(d), items) /\ E[k - 1] = Stopped(Len(d), items)
    BY <2>1
  <2>3. Stopped(Len(d), items).state # "reading"
    BY DEF Stopped
  <2> HIDE DEF E
  <2> QED
    BY <2>2, <2>3, Zenon DEF ItemTurn
<1>11. \A k \in 1..N : E[k] = ItemTurn(u, E[k - 1])
  <2> SUFFICES ASSUME NEW k \in 1..N PROVE E[k] = ItemTurn(u, E[k - 1])
    OBVIOUS
  <2> HIDE DEF E
  <2>1. CASE k <= n
    <3>1. k \in 1..n
      BY <1>3, <2>1
    <3> QED
      BY <1>8, <3>1
  <2>2. CASE k = n + 1
    <3>1. k - 1 = n
      BY <1>3, <2>2
    <3> QED
      BY <1>9, <2>2, <3>1, Zenon
  <2>3. CASE k > n + 1
    BY <1>10, <2>3
  <2> QED
    BY <1>3, <2>1, <2>2, <2>3
<1>12. E[N] = Stopped(Len(d), items)
  <2>1. N \in 0..N /\ ~(N <= n)
    BY <1>3, <1>5
  <2> QED
    BY <2>1
<1>13. E = [k \in 0..N |-> E[k]]
  OBVIOUS
<1> HIDE DEF E
<1>14. ItemsOf(u) = E[N]
  <2>1. N \in Nat /\ N = Len(u) \div ItemHeaderSize
    BY <1>5 DEF N
  <2> QED
    BY ONLY <1>7, <1>11, <1>13, <2>1, ItemsOfIs
<1> QED
  BY <1>12, <1>14 DEF items

-----------------------------------------------------------------------------
(* Chunks are read as they were built.                                     *)

\* Sums of words are words.
LEMMA SumsOfWords ==
  ASSUME NEW s \in Seq(Nat), NEW t, Sums(t, s), \A k \in 1..Len(s) : s[k] % 4 = 0
  PROVE  \A k \in 0..Len(s) : t[k] % 4 = 0
<1> DEFINE N == Len(s)
           T == {k \in 0..N : t[k] % 4 # 0}
<1>1. N \in Nat /\ \A k \in 0..N : t[k] \in Nat
  <2>1. t \in [0..N -> Nat]
    BY DEF Sums
  <2> QED
    BY <2>1
<1>2. SUFFICES ASSUME T # {} PROVE FALSE
  OBVIOUS
<1>3. ASSUME NEW k \in 1..N PROVE t[k] = t[k - 1] + s[k] /\ s[k] \in Nat /\ s[k] % 4 = 0
  BY DEF Sums
<1> HIDE DEF N
<1>4. T \in SUBSET Nat
  BY <1>1
<1>5. PICK k \in T : \A y \in T : k <= y
  <2> HIDE DEF T
  <2> QED
    BY <1>2, <1>4, LeastNat, Zenon
<1>6. k \in 0..N /\ t[k] % 4 # 0
  BY <1>5
<1>7. k # 0
  <2>1. t[0] = 0 /\ 0 % 4 = 0
    BY DEF Sums
  <2> QED
    BY <1>6, <2>1
<1>8. k \in 1..N /\ k - 1 \in 0..N /\ ~(k <= k - 1)
  BY <1>1, <1>6, <1>7
<1>9. k - 1 \notin T
  <2> HIDE DEF T
  <2> QED
    BY <1>5, <1>8, Zenon
<1>10. t[k - 1] % 4 = 0 /\ t[k - 1] \in Nat
  BY <1>1, <1>8, <1>9
<1>11. t[k] = t[k - 1] + s[k] /\ s[k] \in Nat /\ s[k] % 4 = 0
  BY <1>3, <1>8
<1> DEFINE x == t[k - 1]
           y == s[k]
<1>12. x \in Nat /\ y \in Nat /\ x % 4 = 0 /\ y % 4 = 0 /\ t[k] = x + y
  BY <1>10, <1>11
<1> HIDE DEF T, x, y
<1>13. (x + y) % 4 = 0
  BY ONLY <1>12, SMT
<1> QED
  BY <1>6, <1>12, <1>13

\* The rest of a packet.
LEMMA FromAt ==
  ASSUME NEW u \in Seq(Octet), NEW o \in Nat, NEW d \in Seq(Octet), At(u, o, d),
         NEW c, c = From(u, o + 1)
  PROVE  c \in Seq(Octet) /\ Len(c) = Len(u) - o /\ At(c, 0, d)
<1> DEFINE n == Len(u)
           m == Len(d)
<1>1. n \in Nat /\ m \in Nat /\ n >= o + m /\ \A j \in 1..m : u[o + j] = d[j]
  BY DEF At
<1>2. \A j \in o + 1..n : u[j] \in Octet
  BY <1>1
<1>3. c = SubSeq(u, o + 1, n)
  BY DEF From
<1> DEFINE a == o + 1
<1>7. a \in Int /\ n \in Int /\ c = SubSeq(u, a, n) /\ \A j \in a..n : u[j] \in Octet
  BY <1>1, <1>2, <1>3
<1> HIDE DEF n, m, a
<1>4. /\ c \in Seq(Octet) /\ Len(c) = (IF a <= n THEN n - a + 1 ELSE 0)
      /\ \A j \in 1..n - a + 1 : c[j] = u[a + j - 1]
  <2>1. a \in Int /\ n \in Int
    BY <1>7
  <2>2. \A j \in a..n : u[j] \in Octet
    BY <1>7
  <2>3. /\ SubSeq(u, a, n) \in Seq(Octet)
        /\ Len(SubSeq(u, a, n)) = (IF a <= n THEN n - a + 1 ELSE 0)
        /\ \A j \in 1..n - a + 1 : SubSeq(u, a, n)[j] = u[a + j - 1]
    BY <2>1, <2>2, SubSeqProperties
  <2> QED
    BY <1>7, <2>3, Zenon
<1>5. Len(c) = n - o
  <2>1. Len(c) = (IF a <= n THEN n - a + 1 ELSE 0)
    BY <1>4
  <2> QED
    BY <1>1, <2>1 DEF a
<1>6. ASSUME NEW j \in 1..m PROVE c[0 + j] = d[j]
  <2>1. j \in 1..n - a + 1 /\ a + j - 1 = o + j /\ 0 + j = j
    BY <1>1 DEF a
  <2> QED
    BY <1>1, <1>4, <2>1
<1> QED
  BY <1>1, <1>4, <1>5, <1>6 DEF At, n, m

Chunk == [ssrc : Source, items : Seq(Item)]

\* The lengths of chunks.
ChunkLens(g) == [k \in DOMAIN g |-> ChunkBytes(g[k].items)]

\* The bytes of a chunk are words.
LEMMA ChunkIs ==
  ASSUME NEW c \in Chunk
  PROVE  /\ ChunkData(c) \in Seq(Octet) /\ Len(ChunkData(c)) = ChunkBytes(c.items)
         /\ ChunkBytes(c.items) \in Nat /\ ChunkBytes(c.items) % 4 = 0
         /\ ChunkBytes(c.items) >= 8
         /\ ChunkData(c)[1] = Byte("ssrc", c.ssrc)
         /\ c.ssrc \in Source /\ c.items \in Seq(Item)
<1>1. c.ssrc \in Source /\ c.items \in Seq(Item)
  BY DEF Chunk
<1>2. ItemLens(c.items) \in Seq(Nat)
  BY <1>1, ItemLensAre
<1>3. PICK t : Sums(t, ItemLens(c.items))
  BY <1>2, SumsExist
<1> DEFINE d == ChunkData(c)
<1>4. /\ d \in Seq(Octet) /\ Len(d) = ChunkBytes(c.items)
      /\ Len(d) % 4 = 0 /\ Len(d) >= 8
      /\ d[1] = Byte("ssrc", c.ssrc)
  BY <1>1, <1>3, ChunkDataIs
<1>5. Len(d) \in Nat
  BY <1>4
<1> HIDE DEF d
<1> QED
  BY <1>1, <1>4, <1>5 DEF d

\* A chunk is its two fields.
LEMMA ChunkFields ==
  ASSUME NEW c \in Chunk
  PROVE  c = [ssrc |-> c.ssrc, items |-> c.items]
  BY DEF Chunk

ReadingChunks(o, chunks) == [at |-> o, chunks |-> chunks, ok |-> TRUE]

\* A chunk is read as it was written.
LEMMA ChunkRead ==
  ASSUME NEW u \in Seq(Octet), NEW c \in Chunk, NEW o \in Nat, At(u, o, ChunkData(c)),
         NEW chunks
  PROVE  ChunkTurn(u, ReadingChunks(o, chunks))
           = ReadingChunks(o + ChunkBytes(c.items), Append(chunks, c))
<1> DEFINE d == ChunkData(c)
           f == ReadingChunks(o, chunks)
           r == From(u, o + 1)
           all == ItemsOf(r)
           l == ChunkBytes(c.items)
<1>1. /\ d \in Seq(Octet) /\ Len(d) = l /\ l \in Nat /\ l >= 8
      /\ d[1] = Byte("ssrc", c.ssrc)
      /\ c.ssrc \in Source /\ c.items \in Seq(Item)
  BY ChunkIs
<1>2. r \in Seq(Octet) /\ Len(r) = Len(u) - o /\ At(r, 0, d)
  <2>1. d \in Seq(Octet) /\ At(u, o, d)
    BY <1>1
  <2> HIDE DEF d
  <2> QED
    BY <2>1, FromAt
<1> HIDE DEF r
<1>3. all = Stopped(l, c.items)
  <2>1. all = Stopped(Len(d), c.items)
    BY <1>1, <1>2, ItemsRead
  <2> QED
    BY <1>1, <2>1
<1> HIDE DEF d, l
<1>4. Len(u) \in Nat /\ Len(u) >= o + l
  BY <1>1 DEF At, d
<1>5. ~(Len(u) - o < 2 * WordSize) /\ 1 <= Len(r)
  BY <1>1, <1>2, <1>4 DEF WordSize
<1>6. SsrcAt(r, 1) = c.ssrc
  <2> DEFINE j == 1
  <2>1. j \in Nat /\ j \in 1..Len(d) /\ 0 + j = j /\ j <= Len(r)
    BY <1>1, <1>5
  <2>2. d[j] = Byte("ssrc", c.ssrc)
    BY <1>1
  <2> HIDE DEF j
  <2>3. r[0 + j] = d[j]
    BY <1>2, <2>1 DEF At
  <2>4. r[j] = Byte("ssrc", c.ssrc)
    BY <2>1, <2>2, <2>3
  <2>5. SsrcAt(r, j) = c.ssrc
    BY <2>1, <2>4, SsrcRead
  <2> QED
    BY <2>5 DEF j
<1>7. all.state = "ended" /\ all.at = l /\ all.items = c.items
  BY <1>3 DEF Stopped
<1>8. f.at = o /\ f.chunks = chunks /\ f.ok
  BY DEF ReadingChunks
<1> HIDE DEF f, all
<1>9. ChunkTurn(u, f) = [at |-> o + l,
                         chunks |-> Append(chunks, [ssrc |-> c.ssrc, items |-> c.items]),
                         ok |-> TRUE]
  BY <1>5, <1>6, <1>7, <1>8, Zenon DEF ChunkTurn, all, r
<1> QED
  BY <1>9, ChunkFields, Zenon DEF f, l, ReadingChunks

\* ChunksOf as a loop.
ChunkLoop(f, u, n) ==
    f = [k \in 0..n |-> IF k = 0 THEN [at |-> HeaderSize, chunks |-> <<>>, ok |-> TRUE]
                        ELSE ChunkTurn(u, f[k - 1])]

\* The same loop, turn by turn.
ChunkTurns(E, u, N) ==
    /\ E = [k \in 0..N |-> E[k]] /\ E[0] = ReadingChunks(4, <<>>)
    /\ \A k \in 1..N : E[k] = ChunkTurn(u, E[k - 1])

\* What is after its last turn is the result.
LEMMA ChunksOfIs ==
  ASSUME NEW u, NEW N \in Nat, NEW E, ChunkTurns(E, u, N)
  PROVE  ChunksOf(u, N) = E[N]
<1> DEFINE f == CHOOSE g : ChunkLoop(g, u, N)
           z == [at |-> HeaderSize, chunks |-> <<>>, ok |-> TRUE]
<1>1. ChunksOf(u, N) = f[N]
  BY Zenon DEF ChunksOf, ChunkLoop
<1>2. E[0] = z
  BY DEF ReadingChunks, HeaderSize, ChunkTurns
<1> HIDE DEF z
<1>3. \A k \in 0..N : E[k] = IF k = 0 THEN z ELSE ChunkTurn(u, E[k - 1])
  <2>1. \A k \in 0..N : k # 0 => k \in 1..N
    OBVIOUS
  <2>2. \A k \in 1..N : E[k] = ChunkTurn(u, E[k - 1])
    BY DEF ChunkTurns
  <2> QED
    BY <1>2, <2>1, <2>2
<1>4. E = [k \in 0..N |-> IF k = 0 THEN z ELSE ChunkTurn(u, E[k - 1])]
  <2>1. E = [k \in 0..N |-> E[k]]
    BY Zenon DEF ChunkTurns
  <2> QED
    BY <1>3, <2>1
<1>5. ChunkLoop(E, u, N)
  BY <1>4, Zenon DEF ChunkLoop, z
<1>6. ChunkLoop(f, u, N)
  BY <1>5, Zenon
<1> HIDE DEF f
<1>7. f = [k \in 0..N |-> IF k = 0 THEN z ELSE ChunkTurn(u, f[k - 1])]
  BY <1>6, Zenon DEF ChunkLoop, z
<1>8. f[0] = E[0]
  BY <1>2, <1>7
<1>9. \A k \in 1..N : f[k - 1] = E[k - 1] => f[k] = E[k]
  <2>1. \A k \in 1..N : k \in 0..N /\ k # 0
    OBVIOUS
  <2>2. \A k \in 1..N : f[k] = ChunkTurn(u, f[k - 1])
    BY <1>7, <2>1
  <2>3. \A k \in 1..N : E[k] = ChunkTurn(u, E[k - 1])
    BY DEF ChunkTurns
  <2> QED
    BY <2>2, <2>3, Zenon
<1>10. \A k \in 0..N : f[k] = E[k]
  <2>1. Alike(f, E, N)
    BY <1>8, <1>9 DEF Alike
  <2> QED
    BY <2>1, TurnsAgree
<1> QED
  BY <1>1, <1>10

-----------------------------------------------------------------------------
(* SDES packets are read as they were built.                               *)

\* The bytes of the chunks of one packet.
ChunksData(g) == [k \in DOMAIN g |-> ChunkData(g[k])]

\* The bytes of chunks, and the lengths that the builder reckons with.
LEMMA ChunksDataIs ==
  ASSUME NEW g \in Seq(Chunk)
  PROVE  /\ ChunksData(g) \in Seq(Seq(Octet)) /\ Len(ChunksData(g)) = Len(g)
         /\ Lens(ChunksData(g)) = ChunkLens(g)
         /\ ChunkLens(g) \in Seq(Nat) /\ Len(ChunkLens(g)) = Len(g) /\ Len(g) \in Nat
         /\ \A k \in 1..Len(g) : /\ g[k] \in Chunk /\ ChunksData(g)[k] = ChunkData(g[k])
                                 /\ ChunkLens(g)[k] = ChunkBytes(g[k].items)
                                 /\ ChunkLens(g)[k] % 4 = 0
<1> DEFINE n == Len(g)
           ds == ChunksData(g)
           ls == ChunkLens(g)
<1>1. n \in Nat /\ DOMAIN g = 1..n /\ \A k \in 1..n : g[k] \in Chunk
  OBVIOUS
<1> HIDE DEF n
<1>2. \A k \in 1..n : /\ ChunkData(g[k]) \in Seq(Octet)
                      /\ Len(ChunkData(g[k])) = ChunkBytes(g[k].items)
                      /\ ChunkBytes(g[k].items) \in Nat /\ ChunkBytes(g[k].items) % 4 = 0
  <2> SUFFICES ASSUME NEW k \in 1..n
               PROVE  /\ ChunkData(g[k]) \in Seq(Octet)
                      /\ Len(ChunkData(g[k])) = ChunkBytes(g[k].items)
                      /\ ChunkBytes(g[k].items) \in Nat /\ ChunkBytes(g[k].items) % 4 = 0
    OBVIOUS
  <2> DEFINE c == g[k]
  <2>1. c \in Chunk
    BY <1>1
  <2> HIDE DEF c
  <2>2. /\ ChunkData(c) \in Seq(Octet) /\ Len(ChunkData(c)) = ChunkBytes(c.items)
        /\ ChunkBytes(c.items) \in Nat /\ ChunkBytes(c.items) % 4 = 0
    BY <2>1, ChunkIs
  <2> QED
    BY <2>2 DEF c
<1>3. ds = [k \in 1..n |-> ChunkData(g[k])] /\ ls = [k \in 1..n |-> ChunkBytes(g[k].items)]
  BY <1>1 DEF ChunksData, ChunkLens
<1> HIDE DEF ds, ls
<1>4. ds \in [1..n -> Seq(Octet)] /\ ls \in [1..n -> Nat]
  BY <1>2, <1>3
<1>5. ds \in Seq(Seq(Octet)) /\ Len(ds) = n /\ ls \in Seq(Nat) /\ Len(ls) = n
  BY <1>1, <1>4
<1>6. \A k \in 1..n : ds[k] = ChunkData(g[k]) /\ ls[k] = ChunkBytes(g[k].items)
  BY <1>3
<1>7. Lens(ds) = ls
  <2>1. Lens(ds) = [k \in 1..n |-> Len(ds[k])]
    BY <1>5 DEF Lens
  <2>2. \A k \in 1..n : Len(ds[k]) = ls[k]
    BY <1>2, <1>6
  <2>3. ls = [k \in 1..n |-> ls[k]]
    BY <1>4
  <2> QED
    BY <2>1, <2>2, <2>3
<1>8. \A k \in 1..n : ls[k] % 4 = 0
  BY <1>2, <1>6
<1> QED
  BY <1>1, <1>5, <1>6, <1>7, <1>8 DEF n, ds, ls

\* The chunks of a packet are read as they were written.
LEMMA ChunksRead ==
  ASSUME NEW g \in Seq(Chunk), NEW u \in Seq(Octet), NEW o,
         Laid(o, ChunksData(g), FlattenSeq(ChunksData(g))),
         At(u, HeaderSize, FlattenSeq(ChunksData(g)))
  PROVE  ChunksOf(u, Len(g)) = ReadingChunks(4 + o[Len(g)], g)
<1> DEFINE n == Len(g)
           ds == ChunksData(g)
           s == FlattenSeq(ds)
           E == [k \in 0..n |-> ReadingChunks(4 + o[k], Leading(g, k))]
<1>1. /\ ds \in Seq(Seq(Octet)) /\ Len(ds) = n /\ n \in Nat
      /\ \A k \in 1..n : g[k] \in Chunk /\ ds[k] = ChunkData(g[k])
  BY ChunksDataIs
<1>2. s \in Seq(Octet)
  BY <1>1, FlattenIs
<1>3. /\ o[0] = 0 /\ \A k \in 0..n : o[k] \in Nat
      /\ \A k \in 1..n : /\ ds[k] \in Seq(Octet) /\ o[k] = o[k - 1] + Len(ds[k])
                         /\ At(s, o[k - 1], ds[k])
  <2> HIDE DEF s, ds
  <2>1. Laid(o, ds, s)
    BY DEF ds, s
  <2> QED
    BY <1>1, <1>2, <2>1, LaidAt
<1>4. At(u, HeaderSize, s)
  OBVIOUS
<1> HIDE DEF s, ds
<1>5. /\ Leading(g, 0) = <<>> /\ Leading(g, n) = g
      /\ \A k \in 1..n : Append(Leading(g, k - 1), g[k]) = Leading(g, k)
  BY LeadingIs
<1> HIDE DEF n
<1>6. E[0] = ReadingChunks(4, <<>>)
  <2>1. 0 \in 0..n /\ 4 + o[0] = 4
    BY <1>1, <1>3
  <2>2. E[0] = ReadingChunks(4 + o[0], Leading(g, 0))
    BY <2>1
  <2> HIDE DEF E
  <2> QED
    BY <1>5, <2>1, <2>2
<1>7. ASSUME NEW k \in 1..n PROVE E[k] = ChunkTurn(u, E[k - 1])
  <2>1. k \in 0..n /\ k - 1 \in 0..n
    BY <1>1
  <2>2. /\ E[k] = ReadingChunks(4 + o[k], Leading(g, k))
        /\ E[k - 1] = ReadingChunks(4 + o[k - 1], Leading(g, k - 1))
    BY <2>1
  <2> HIDE DEF E
  <2> DEFINE c == g[k]
             d == ChunkData(c)
             x == o[k - 1]
             h == HeaderSize
             a == h + x
             l == ChunkBytes(c.items)
  <2>3. c \in Chunk /\ d = ds[k]
    BY <1>1
  <2>4. d \in Seq(Octet) /\ Len(d) = l /\ l \in Nat
    <3> HIDE DEF c
    <3> QED
      BY <2>3, ChunkIs
  <2>5. x \in Nat /\ h \in Nat /\ h = 4 /\ a = 4 + o[k - 1] /\ a \in Nat
    BY <1>3, <2>1 DEF HeaderSize
  <2>6. At(s, x, d) /\ o[k] = x + Len(d) /\ At(u, h, s)
    BY <1>3, <1>4, <2>3
  <2>7. a + l = 4 + o[k]
    <3> HIDE DEF l, x, d, a, h
    <3> QED
      BY <2>4, <2>5, <2>6 DEF a
  <2>8. Append(Leading(g, k - 1), c) = Leading(g, k)
    BY <1>5
  <2> HIDE DEF x, h, d
  <2>9. At(u, h + x, d)
    BY <1>2, <2>4, <2>5, <2>6, AtAt
  <2> HIDE DEF a, c
  <2>10. ChunkTurn(u, ReadingChunks(a, Leading(g, k - 1)))
           = ReadingChunks(a + ChunkBytes(c.items), Append(Leading(g, k - 1), c))
    <3>1. At(u, a, ChunkData(c))
      BY <2>9 DEF a, d
    <3> QED
      BY <2>3, <2>5, <3>1, ChunkRead
  <2> QED
    BY <2>2, <2>5, <2>7, <2>8, <2>10
<1>8. E[n] = ReadingChunks(4 + o[n], g)
  <2>1. n \in 0..n
    BY <1>1
  <2>2. E[n] = ReadingChunks(4 + o[n], Leading(g, n))
    BY <2>1
  <2> HIDE DEF E
  <2> QED
    BY <1>5, <2>2
<1>9. E = [k \in 0..n |-> E[k]]
  OBVIOUS
<1> HIDE DEF E
<1>10. ChunksOf(u, n) = E[n]
  <2>1. n \in Nat /\ \A k \in 1..n : E[k] = ChunkTurn(u, E[k - 1])
    BY <1>1, <1>7
  <2>2. ChunkTurns(E, u, n)
    BY <1>6, <1>9, <2>1 DEF ChunkTurns
  <2> QED
    BY <2>1, <2>2, ChunksOfIs
<1> QED
  BY <1>8, <1>10 DEF n

\* An SDES packet: its length, and what the parser reads in it.
LEMMA SdesRead ==
  ASSUME NEW b, b.chunks \in Seq(Chunk), NEW N, Enough(Len(b.chunks), N), NEW i \in 1..N,
         NEW g, g = Group(b.chunks, i), NEW p, p = SdesPacket(b, i)
  PROVE  /\ Shape(p, "SDES", Len(g)) /\ Len(p) = HeaderSize + Total(ChunkLens(g))
         /\ ParsePacket(p) = [type |-> "SDES", known |-> TRUE, chunks |-> g]
<1> DEFINE n == Len(g)
           ds == ChunksData(g)
           s == FlattenSeq(ds)
           type == "SDES"
<1>1. g \in Seq(Chunk) /\ n \in Nat
  BY GroupIs
<1>2. /\ ds \in Seq(Seq(Octet)) /\ Len(ds) = n /\ Lens(ds) = ChunkLens(g)
      /\ ChunkLens(g) \in Seq(Nat) /\ Len(ChunkLens(g)) = n
      /\ \A k \in 1..n : ChunkLens(g)[k] % 4 = 0
  BY <1>1, ChunksDataIs
<1>3. s \in Seq(Octet) /\ \E o : Laid(o, ds, s)
  BY <1>2, FlattenIs
<1>4. PICK o : Laid(o, ds, s)
  BY <1>3
<1>5. p = Packet("SDES", n, s)
  BY DEF SdesPacket, Packet, ChunksData
<1>6. Len(s) = o[n] /\ Sums(o, ChunkLens(g))
  BY <1>2, <1>4, Zenon DEF Laid
<1>7. Total(ChunkLens(g)) = Len(s)
  BY <1>1, <1>2, <1>6, TotalIs
<1>8. Len(s) % 4 = 0
  <2>1. \A k \in 0..Len(ChunkLens(g)) : o[k] % 4 = 0
    BY <1>2, <1>6, SumsOfWords
  <2>2. n \in 0..Len(ChunkLens(g))
    BY <1>1, <1>2
  <2> QED
    BY <1>6, <2>1, <2>2
<1> HIDE DEF s, ds, n
<1>9. Shape(p, type, n) /\ Len(p) = HeaderSize + Len(s) /\ At(p, HeaderSize, s)
  <2>1. type \in PacketTypes
    BY DEF PacketTypes
  <2>2. (HeaderSize + Len(s)) % 4 = 0
    <3> DEFINE l == Len(s)
    <3>1. l \in Nat /\ l % 4 = 0 /\ HeaderSize + Len(s) = 4 + l
      BY <1>3, <1>8 DEF HeaderSize
    <3> HIDE DEF l
    <3> QED
      BY <3>1
  <2>3. p = Packet(type, n, s)
    BY <1>5
  <2> HIDE DEF type
  <2> QED
    BY <1>1, <1>3, <2>1, <2>2, <2>3, HeadSays
<1>10. p \in Seq(Octet)
  BY <1>9 DEF Shape
<1>11. Unpadded(p) = p /\ p # <<>> /\ p[1].v.type = type /\ p[1].v.count = n
  <2> HIDE DEF type
  <2> QED
    BY <1>9, ShapeSays
<1>12. ChunksOf(p, n) = ReadingChunks(4 + o[n], g)
  BY <1>1, <1>4, <1>9, <1>10, ChunksRead DEF s, ds, n
<1>13. Len(p) = 4 + o[n]
  BY <1>6, <1>9 DEF HeaderSize
<1>14. /\ ChunksOf(p, n).ok /\ ChunksOf(p, n).at = Len(p) /\ ChunksOf(p, n).chunks = g
  BY <1>12, <1>13 DEF ReadingChunks
<1>15. ParsePacket(p) = ParseSDES(p)
  BY <1>11 DEF ParsePacket
<1>16. ParseSDES(p) = [type |-> "SDES", known |-> TRUE, chunks |-> g]
  BY <1>11, <1>14, Zenon DEF ParseSDES
<1> QED
  BY <1>7, <1>9, <1>15, <1>16 DEF n

-----------------------------------------------------------------------------
(* A datagram is read packet by packet.                                    *)

\* What the loop over the packets of a datagram requires of one.
Sound(p) ==
    /\ p \in Seq(Octet) /\ Len(p) >= HeaderSize /\ IsHead(p[1]) /\ ~p[1].v.padding
    /\ PacketSize(p) = Len(p)

IsReport(p) == p[1].v.type \in {"SR", "RR"}

\* The parser between two packets; and when it has given up.
Going(o, packets) == [at |-> o, packets |-> packets, bad |-> FALSE]
GivenUp(o, packets) == [at |-> o, packets |-> packets, bad |-> TRUE]

\* The first bytes of a packet at its place are all the loop looks at.
LEMMA RestIs ==
  ASSUME NEW d \in Seq(Octet), NEW o \in Nat, NEW p, Sound(p), o < Len(d), d[o + 1] = p[1],
         NEW r, r = From(d, o + 1)
  PROVE  /\ r \in Seq(Octet) /\ Len(r) = Len(d) - o /\ r[1] = p[1]
         /\ PacketSize(r) = Len(p) /\ IsHead(r[1]) /\ ~r[1].v.padding
         /\ r[1].v.type = p[1].v.type
<1> DEFINE x == p[1]
           w == <<x>>
           z == 1
<1>1. x \in Octet
  BY DEF Sound, HeaderSize
<1>2. d[o + z] = x /\ o + 1 <= Len(d) /\ z = 1
  OBVIOUS
<1> HIDE DEF x
<1>3. w \in Seq(Octet) /\ Len(w) = 1 /\ w[1] = x
  BY <1>1, OneByte
<1> HIDE DEF w, z
<1>4. At(d, o, w)
  <2>1. \A j \in 1..Len(w) : j = 1
    BY <1>3
  <2>2. \A j \in 1..Len(w) : d[o + j] = w[j]
    BY <1>2, <1>3, <2>1
  <2>3. Len(d) >= o + Len(w)
    BY <1>2, <1>3
  <2> QED
    BY <2>2, <2>3 DEF At
<1>5. r \in Seq(Octet) /\ Len(r) = Len(d) - o /\ At(r, 0, w)
  BY <1>3, <1>4, FromAt
<1>6. r[1] = x
  <2>1. 1 \in 1..Len(w) /\ 0 + 1 = 1
    BY <1>3
  <2>2. r[0 + 1] = w[1]
    BY <1>5, <2>1 DEF At
  <2> QED
    BY <1>3, <2>1, <2>2, Zenon
<1>7. PacketSize(r) = PacketSize(p)
  BY <1>6, Zenon DEF PacketSize, x
<1> QED
  BY <1>5, <1>6, <1>7, Zenon DEF x, Sound

\* A packet that is there is read, and the loop goes on behind it.
LEMMA PacketRead ==
  ASSUME NEW d \in Seq(Octet), NEW o \in Nat, NEW p, Sound(p), At(d, o, p),
         o = 0 => IsReport(p), NEW R
  PROVE  PacketTurn(d, Going(o, R)) = Going(o + Len(p), Append(R, ParsePacket(p)))
<1> DEFINE r == From(d, o + 1)
           f == Going(o, R)
           n == Len(p)
<1>1. p \in Seq(Octet) /\ n \in Nat /\ n >= 4
  BY DEF Sound, HeaderSize
<1>2. Len(d) \in Nat /\ Len(d) >= o + n /\ \A j \in 1..n : d[o + j] = p[j]
  BY DEF At
<1>3. o < Len(d) /\ d[o + 1] = p[1]
  <2>1. 1 \in 1..n
    BY <1>1
  <2>2. d[o + 1] = p[1]
    BY <1>2, <2>1
  <2> HIDE DEF n
  <2> QED
    BY <1>1, <1>2, <2>2
<1>4. /\ r \in Seq(Octet) /\ Len(r) = Len(d) - o /\ r[1] = p[1]
      /\ PacketSize(r) = n /\ IsHead(r[1]) /\ ~r[1].v.padding
      /\ r[1].v.type = p[1].v.type
  BY <1>3, RestIs
<1>5. At(r, 0, p)
  BY <1>1, FromAt
<1>6. f.at = o /\ f.packets = R /\ ~f.bad
  BY DEF Going
<1> HIDE DEF r, f, n
<1>7. SubSeq(r, 1, n) = p
  <2> DEFINE q == SubSeq(r, 1, n)
             one == 1
  <2>1. n <= Len(r) /\ Len(r) \in Nat /\ one \in Int /\ n \in Int
    BY <1>1, <1>2, <1>4
  <2>2. \A j \in one..n : r[j] \in Octet
    BY <1>4, <2>1
  <2> HIDE DEF one
  <2>3. /\ SubSeq(r, one, n) \in Seq(Octet)
        /\ Len(SubSeq(r, one, n)) = (IF one <= n THEN n - one + 1 ELSE 0)
        /\ \A j \in 1..n - one + 1 : SubSeq(r, one, n)[j] = r[one + j - 1]
    BY <2>1, <2>2, SubSeqProperties
  <2>4. q = SubSeq(r, one, n)
    BY DEF one
  <2> HIDE DEF q
  <2>5. q \in Seq(Octet) /\ Len(q) = n
    BY <1>1, <2>3, <2>4 DEF one
  <2>6. \A j \in 1..n : q[j] = r[j]
    <3>1. \A j \in 1..n : j \in 1..n - one + 1 /\ one + j - 1 = j
      BY <1>1 DEF one
    <3> QED
      BY <2>3, <2>4, <3>1
  <2>7. \A j \in 1..n : r[j] = p[j]
    <3>1. \A j \in 1..n : 0 + j = j
      BY <1>1
    <3> QED
      BY <1>5, <3>1 DEF At, n
  <2>8. q = p
    BY <1>1, <2>5, <2>6, <2>7 DEF n
  <2> QED
    BY <2>8 DEF q
<1>8. ~IllFormed(r, o = 0)
  <2>1. ~(PacketSize(r) > Len(r))
    BY <1>1, <1>2, <1>4
  <2>2. o = 0 => r[1].v.type \in {"SR", "RR"}
    BY <1>4 DEF IsReport
  <2> QED
    BY <1>4, <2>1, <2>2, Zenon DEF IllFormed
<1>9. ~(Len(d) - o < HeaderSize)
  BY <1>1, <1>2 DEF HeaderSize
<1>10. PacketTurn(d, f) = [at |-> o + n, packets |-> Append(R, ParsePacket(p)), bad |-> FALSE]
  BY <1>4, <1>6, <1>7, <1>8, <1>9, Zenon DEF PacketTurn, r
<1> QED
  BY <1>10, Zenon DEF f, n, Going

\* A packet that is not all there ends the loop, or is not looked at.
LEMMA PacketCut ==
  ASSUME NEW d \in Seq(Octet), NEW o \in Nat, NEW p, Sound(p), o <= Len(d),
         Len(d) < o + Len(p), o < Len(d) => d[o + 1] = p[1], NEW R
  PROVE  PacketTurn(d, Going(o, R)) = IF Len(d) - o >= 4 THEN GivenUp(o, R) ELSE Going(o, R)
<1> DEFINE r == From(d, o + 1)
           f == Going(o, R)
           n == Len(p)
<1>1. p \in Seq(Octet) /\ n \in Nat /\ Len(d) \in Nat /\ Len(d) < o + n
  BY DEF Sound
<1>2. f.at = o /\ f.packets = R /\ ~f.bad
  BY DEF Going
<1>3. CASE Len(d) - o >= 4
  <2>1. o < Len(d) /\ d[o + 1] = p[1]
    BY <1>1, <1>3
  <2>2. Len(r) = Len(d) - o /\ PacketSize(r) = n
    BY <2>1, RestIs
  <2> HIDE DEF r, f, n
  <2>3. IllFormed(r, o = 0)
    <3>1. PacketSize(r) > Len(r)
      BY <1>1, <2>2
    <3> QED
      BY <3>1 DEF IllFormed
  <2>4. ~(Len(d) - o < HeaderSize)
    BY <1>1, <1>3 DEF HeaderSize
  <2>5. PacketTurn(d, f) = [at |-> o, packets |-> R, bad |-> TRUE]
    BY <1>2, <2>3, <2>4, Zenon DEF PacketTurn, r
  <2> QED
    BY <1>3, <2>5, Zenon DEF f, GivenUp
<1>4. CASE ~(Len(d) - o >= 4)
  <2>1. Len(d) - o < HeaderSize
    BY <1>1, <1>4 DEF HeaderSize
  <2> HIDE DEF f
  <2>2. PacketTurn(d, f) = f
    BY <1>2, <2>1, Zenon DEF PacketTurn
  <2> QED
    BY <1>4, <2>2, Zenon DEF f
<1> QED
  BY <1>3, <1>4

\* Nothing is looked at after that.
LEMMA NoTurn ==
  ASSUME NEW d, NEW o, NEW R
  PROVE  /\ PacketTurn(d, GivenUp(o, R)) = GivenUp(o, R)
         /\ Len(d) - o < 4 => PacketTurn(d, Going(o, R)) = Going(o, R)
<1>1. GivenUp(o, R).bad /\ Going(o, R).at = o
  BY DEF GivenUp, Going
<1> QED
  BY <1>1, Zenon DEF PacketTurn, HeaderSize

\* ParseData as a loop.
PacketLoop(f, d) ==
    f = [k \in 0..(Len(d) \div HeaderSize) |->
            IF k = 0 THEN [at |-> 0, packets |-> <<>>, bad |-> FALSE]
            ELSE PacketTurn(d, f[k - 1])]

\* The same loop, turn by turn.
PacketTurns(E, d, N) ==
    /\ E = [k \in 0..N |-> E[k]] /\ E[0] = Going(0, <<>>)
    /\ \A k \in 1..N : E[k] = PacketTurn(d, E[k - 1])

\* What is after its last turn decides.
LEMMA ParseDataIs ==
  ASSUME NEW d, NEW N \in Nat, N = Len(d) \div HeaderSize, NEW E, PacketTurns(E, d, N)
  PROVE  ParseData(d) = IF E[N].bad \/ E[N].at # Len(d) \/ d = <<>> THEN Invalid
                        ELSE [valid |-> TRUE, packets |-> E[N].packets]
<1> DEFINE f == CHOOSE g : PacketLoop(g, d)
           z == [at |-> 0, packets |-> <<>>, bad |-> FALSE]
<1>1. ParseData(d) = IF f[N].bad \/ f[N].at # Len(d) \/ d = <<>> THEN Invalid
                     ELSE [valid |-> TRUE, packets |-> f[N].packets]
  BY Zenon DEF ParseData, PacketLoop
<1>2. E[0] = z
  BY DEF Going, PacketTurns
<1> HIDE DEF z
<1>3. \A k \in 0..N : E[k] = IF k = 0 THEN z ELSE PacketTurn(d, E[k - 1])
  <2>1. \A k \in 0..N : k # 0 => k \in 1..N
    OBVIOUS
  <2>2. \A k \in 1..N : E[k] = PacketTurn(d, E[k - 1])
    BY DEF PacketTurns
  <2> QED
    BY <1>2, <2>1, <2>2
<1>4. E = [k \in 0..N |-> IF k = 0 THEN z ELSE PacketTurn(d, E[k - 1])]
  <2>1. E = [k \in 0..N |-> E[k]]
    BY Zenon DEF PacketTurns
  <2> QED
    BY <1>3, <2>1
<1>5. PacketLoop(E, d)
  BY <1>4, Zenon DEF PacketLoop, z
<1>6. PacketLoop(f, d)
  BY <1>5, Zenon
<1> HIDE DEF f
<1>7. f = [k \in 0..N |-> IF k = 0 THEN z ELSE PacketTurn(d, f[k - 1])]
  BY <1>6, Zenon DEF PacketLoop, z
<1>8. f[0] = E[0]
  BY <1>2, <1>7
<1>9. \A k \in 1..N : f[k - 1] = E[k - 1] => f[k] = E[k]
  <2>1. \A k \in 1..N : k \in 0..N /\ k # 0
    OBVIOUS
  <2>2. \A k \in 1..N : f[k] = PacketTurn(d, f[k - 1])
    BY <1>7, <2>1
  <2>3. \A k \in 1..N : E[k] = PacketTurn(d, E[k - 1])
    BY DEF PacketTurns
  <2> QED
    BY <2>2, <2>3, Zenon
<1>10. \A k \in 0..N : f[k] = E[k]
  <2>1. Alike(f, E, N)
    BY <1>8, <1>9 DEF Alike
  <2> QED
    BY <2>1, TurnsAgree
<1>11. f[N] = E[N]
  BY <1>10
<1> QED
  BY <1>1, <1>11, Zenon

-----------------------------------------------------------------------------
(* A datagram that is cut.                                                 *)

\* The first elements are a piece.
LEMMA LeadingSubSeq ==
  ASSUME NEW X, NEW s \in Seq(X), NEW k \in 0..Len(s)
  PROVE  SubSeq(s, 1, k) = Leading(s, k)
<1> DEFINE a == SubSeq(s, 1, k)
           b == Leading(s, k)
           one == 1
<1>1. k \in Nat /\ one \in Int /\ k \in Int /\ \A j \in one..k : s[j] \in X
  OBVIOUS
<1>2. b \in Seq(X) /\ Len(b) = k /\ \A j \in 1..k : b[j] = s[j]
  BY LeadingIs DEF Leading
<1> HIDE DEF b, one
<1>3. /\ SubSeq(s, one, k) \in Seq(X)
      /\ Len(SubSeq(s, one, k)) = (IF one <= k THEN k - one + 1 ELSE 0)
      /\ \A j \in 1..k - one + 1 : SubSeq(s, one, k)[j] = s[one + j - 1]
  BY <1>1, SubSeqProperties
<1>4. a = SubSeq(s, one, k)
  BY DEF one
<1> HIDE DEF a
<1>5. a \in Seq(X) /\ Len(a) = k
  BY <1>1, <1>3, <1>4 DEF one
<1>6. \A j \in 1..k : a[j] = s[j]
  <2>1. \A j \in 1..k : j \in 1..k - one + 1 /\ one + j - 1 = j
    BY <1>1 DEF one
  <2> QED
    BY <1>3, <1>4, <2>1
<1>7. a = b
  BY <1>1, <1>2, <1>5, <1>6
<1> QED
  BY <1>7 DEF a, b

\* The first elements are a prefix.
LEMMA LeadingIsPrefix ==
  ASSUME NEW X, NEW s \in Seq(X), NEW k \in 0..Len(s)
  PROVE  IsPrefix(Leading(s, k), s)
<1> DEFINE b == Leading(s, k)
<1>1. b \in Seq(X) /\ Len(b) = k
  BY LeadingIs
<1> HIDE DEF b
<1>2. SubSeq(b, 1, Len(b)) = b
  BY <1>1, SubSeqFull
<1>3. SubSeq(s, 1, Len(b)) = b
  BY <1>1, LeadingSubSeq DEF b
<1>4. Len(b) <= Len(s)
  BY <1>1
<1> QED
  BY <1>2, <1>3, <1>4 DEF IsPrefix, b

\* Packets in a row.
PacketsLaid(ps, o, s) ==
    /\ ps \in Seq(Seq(Octet)) /\ s \in Seq(Octet) /\ Laid(o, ps, s)
    /\ Len(ps) # 0 /\ IsReport(ps[1]) /\ \A k \in 1..Len(ps) : Sound(ps[k])

\* What they tell.
Results(ps) == [k \in 1..Len(ps) |-> ParsePacket(ps[k])]

\* Every packet has its place, and none is empty.
LEMMA PlacesOf ==
  ASSUME NEW ps, NEW o, NEW s, PacketsLaid(ps, o, s)
  PROVE  /\ Len(ps) \in Nat /\ Len(ps) # 0 /\ Len(s) \in Nat
         /\ o[0] = 0 /\ o[Len(ps)] = Len(s)
         /\ \A k \in 0..Len(ps) : o[k] \in Nat /\ 4 * k <= o[k] /\ o[k] <= Len(s)
         /\ \A k \in 1..Len(ps) : /\ Sound(ps[k]) /\ o[k] = o[k - 1] + Len(ps[k])
                                  /\ At(s, o[k - 1], ps[k])
         /\ \A j, k \in 0..Len(ps) : j <= k => o[j] <= o[k]
<1> DEFINE N == Len(ps)
           ls == Lens(ps)
<1>1. ps \in Seq(Seq(Octet)) /\ s \in Seq(Octet) /\ Laid(o, ps, s)
  BY DEF PacketsLaid
<1>2. /\ o[0] = 0 /\ o[N] = Len(s)
      /\ \A k \in 0..N : o[k] \in Nat /\ o[k] <= Len(s)
      /\ \A k \in 1..N : o[k] = o[k - 1] + Len(ps[k]) /\ At(s, o[k - 1], ps[k])
  BY <1>1, LaidAt
<1>3. N \in Nat /\ Len(s) \in Nat /\ N # 0 /\ \A k \in 1..N : Sound(ps[k])
  BY <1>1 DEF PacketsLaid
<1>4. ls \in Seq(Nat) /\ Len(ls) = N /\ \A k \in 1..N : ls[k] = Len(ps[k])
  BY <1>1, LensType
<1>5. Sums(o, ls)
  BY <1>1 DEF Laid
<1> HIDE DEF N, ls
<1>6. \A k \in 0..N : 4 * k <= o[k]
  <2>1. \A k \in 1..Len(ls) : ls[k] >= 4
    <3> SUFFICES ASSUME NEW k \in 1..Len(ls) PROVE ls[k] >= 4
      OBVIOUS
    <3>1. k \in 1..N
      BY <1>4
    <3>2. Len(ps[k]) >= 4
      BY <1>3, <3>1 DEF Sound, HeaderSize
    <3> QED
      BY <1>4, <3>1, <3>2
  <2> QED
    BY <1>4, <1>5, <2>1, SumsReach
<1>7. \A j, k \in 0..N : j <= k => o[j] <= o[k]
  BY <1>4, <1>5, SumsGrow
<1> QED
  BY <1>2, <1>3, <1>6, <1>7 DEF N

\* A beginning of s.
LEMMA BeginningIs ==
  ASSUME NEW s \in Seq(Octet), NEW n \in 0..Len(s)
  PROVE  /\ SubSeq(s, 1, n) \in Seq(Octet) /\ Len(SubSeq(s, 1, n)) = n
         /\ \A j \in 1..n : SubSeq(s, 1, n)[j] = s[j]
<1>1. SubSeq(s, 1, n) = Leading(s, n)
  BY LeadingSubSeq
<1>2. Leading(s, n) \in Seq(Octet) /\ Len(Leading(s, n)) = n
  BY LeadingIs
<1> QED
  BY <1>1, <1>2 DEF Leading

\* A datagram that is cut within packet K + 1, or behind it.
LEMMA CutRead ==
  ASSUME NEW ps, NEW o, NEW s, PacketsLaid(ps, o, s),
         NEW n \in 0..Len(s), NEW d, d = SubSeq(s, 1, n),
         NEW K \in 0..Len(ps), o[K] <= n, K # Len(ps) => n < o[K + 1]
  PROVE  ParseData(d) = IF n = o[K] /\ n # 0
                        THEN [valid |-> TRUE, packets |-> Leading(Results(ps), K)]
                        ELSE Invalid
<1> DEFINE N == Len(ps)
           R == Results(ps)
           X == {ParsePacket(ps[k]) : k \in 1..N}
           bad == n - o[K] >= 4
           T == n \div HeaderSize
           E == [k \in 0..T |-> IF k <= K THEN Going(o[k], Leading(R, k))
                                ELSE IF bad THEN GivenUp(o[K], Leading(R, K))
                                ELSE Going(o[K], Leading(R, K))]
<1>1. /\ N \in Nat /\ N # 0 /\ Len(s) \in Nat
      /\ o[0] = 0 /\ o[N] = Len(s)
      /\ \A k \in 0..N : o[k] \in Nat /\ 4 * k <= o[k] /\ o[k] <= Len(s)
      /\ \A k \in 1..N : /\ Sound(ps[k]) /\ o[k] = o[k - 1] + Len(ps[k])
                         /\ At(s, o[k - 1], ps[k])
      /\ \A j, k \in 0..N : j <= k => o[j] <= o[k]
  BY PlacesOf
<1>2. s \in Seq(Octet) /\ IsReport(ps[1])
  BY DEF PacketsLaid
<1>3. d \in Seq(Octet) /\ Len(d) = n /\ \A j \in 1..n : d[j] = s[j]
  BY <1>2, BeginningIs
<1>4. n \in Nat /\ n <= Len(s) /\ K \in Nat /\ K <= N /\ 4 * K <= o[K] /\ o[K] \in Nat
      /\ T \in Nat /\ K <= T /\ (bad <=> n - o[K] >= 4) /\ (bad => K < T)
  BY <1>1 DEF HeaderSize
<1>5. R \in Seq(X) /\ Len(R) = N /\ \A k \in 1..N : R[k] = ParsePacket(ps[k])
  <2>1. R = [k \in 1..N |-> ParsePacket(ps[k])]
    BY DEF Results
  <2>2. R \in [1..N -> X]
    BY <2>1
  <2> HIDE DEF N, R, X
  <2> QED
    BY <1>1, <2>1, <2>2
<1> HIDE DEF N, R, X
<1>6. /\ Leading(R, 0) = <<>>
      /\ \A k \in 1..N : Append(Leading(R, k - 1), R[k]) = Leading(R, k)
  BY <1>5, LeadingIs
<1> HIDE DEF bad, T
<1>7. E[0] = Going(0, <<>>)
  <2>1. 0 \in 0..T /\ 0 <= K
    BY <1>4
  <2>2. E[0] = Going(o[0], Leading(R, 0))
    BY <2>1
  <2> HIDE DEF E
  <2> QED
    BY <1>1, <1>6, <2>2
<1>8. ASSUME NEW k \in 1..K PROVE E[k] = PacketTurn(d, E[k - 1])
  <2>1. /\ k \in 0..T /\ k <= K /\ k - 1 \in 0..T /\ k - 1 <= K
        /\ k \in 1..N /\ k \in 0..N /\ k - 1 \in 0..N
    BY <1>1, <1>4
  <2>2. /\ E[k] = Going(o[k], Leading(R, k))
        /\ E[k - 1] = Going(o[k - 1], Leading(R, k - 1))
    BY <2>1
  <2> HIDE DEF E
  <2> DEFINE p == ps[k]
             x == o[k - 1]
  <2>3. Sound(p) /\ x \in Nat /\ o[k] = x + Len(p) /\ o[k] \in Nat /\ At(s, x, p) /\ 4 * (k - 1) <= x
    BY <1>1, <2>1
  <2>4. o[k] <= n
    <3>1. k \in 0..N /\ K \in 0..N /\ k <= K
      BY <1>1, <1>4, <2>1
    <3>2. \A i, j \in 0..N : i <= j => o[i] <= o[j]
      BY <1>1
    <3>3. o[k] <= o[K]
      BY <3>1, <3>2, Zenon
    <3> QED
      BY <1>4, <2>3, <3>3
  <2>5. R[k] = ParsePacket(p)
    BY <1>5, <2>1
  <2>6. x = 0 => IsReport(p)
    <3>1. ASSUME x = 0 PROVE k = 1
      BY <2>1, <2>3, <3>1
    <3> QED
      BY <1>2, <3>1
  <2>7. Append(Leading(R, k - 1), ParsePacket(p)) = Leading(R, k)
    BY <1>6, <2>1, <2>5
  <2> HIDE DEF p, x
  <2>8. At(d, x, p)
    <3>1. Len(p) \in Nat
      BY <2>3 DEF Sound
    <3>2. \A j \in 1..Len(p) : x + j \in 1..n /\ s[x + j] = p[j]
      <4>1. \A j \in 1..Len(p) : x + j \in 1..n
        BY <2>3, <2>4, <3>1, <1>4
      <4> QED
        BY <2>3, <4>1 DEF At
    <3>3. \A j \in 1..Len(p) : d[x + j] = p[j]
      BY <1>3, <3>2
    <3>4. Len(d) >= x + Len(p)
      BY <1>3, <1>4, <2>3, <2>4
    <3> QED
      BY <3>3, <3>4 DEF At
  <2>9. PacketTurn(d, Going(x, Leading(R, k - 1)))
          = Going(x + Len(p), Append(Leading(R, k - 1), ParsePacket(p)))
    <3>1. d \in Seq(Octet) /\ x \in Nat /\ Sound(p) /\ At(d, x, p) /\ (x = 0 => IsReport(p))
      BY <1>3, <2>3, <2>6, <2>8
    <3> QED
      BY ONLY <3>1, PacketRead, Zenon
  <2> QED
    BY <2>2, <2>3, <2>7, <2>9, Zenon DEF x
<1> DEFINE end == IF bad THEN GivenUp(o[K], Leading(R, K)) ELSE Going(o[K], Leading(R, K))
<1>9. PacketTurn(d, Going(o[K], Leading(R, K))) = end
  <2>1. CASE K = N
    <3>1. o[K] = Len(s) /\ Len(d) - o[K] < 4 /\ ~bad
      BY <1>1, <1>3, <1>4, <2>1 DEF bad
    <3> QED
      BY <3>1, NoTurn
  <2>2. CASE K # N
    <3> DEFINE p == ps[K + 1]
               x == o[K]
    <3>1. K + 1 \in 1..N /\ K + 1 - 1 = K
      BY <1>1, <1>4, <2>2
    <3>2. Sound(p) /\ o[K + 1] = x + Len(p) /\ At(s, x, p) /\ n < o[K + 1]
      <4>1. /\ Sound(p) /\ o[K + 1] = o[K + 1 - 1] + Len(p)
            /\ At(s, o[K + 1 - 1], p)
        BY <1>1, <3>1
      <4>2. n < o[K + 1]
        BY <2>2 DEF N
      <4> QED
        BY <3>1, <4>1, <4>2
    <3>3. x \in Nat /\ x <= n
      BY <1>4
    <3> HIDE DEF p, x
    <3>4. Len(p) \in Nat /\ Len(p) >= 4
      BY <3>2 DEF Sound, HeaderSize
    <3>5. x < Len(d) => d[x + 1] = p[1]
      <4>1. 1 \in 1..Len(p)
        BY <3>4
      <4>2. s[x + 1] = p[1]
        BY <3>2, <4>1 DEF At
      <4>3. x < n => x + 1 \in 1..n
        BY <1>4, <3>3
      <4> QED
        BY <1>3, <4>2, <4>3
    <3>6. x <= Len(d) /\ Len(d) < x + Len(p)
      BY <1>3, <3>2, <3>3
    <3>7. PacketTurn(d, Going(x, Leading(R, K)))
            = IF Len(d) - x >= 4 THEN GivenUp(x, Leading(R, K)) ELSE Going(x, Leading(R, K))
      BY <1>3, <3>2, <3>3, <3>5, <3>6, PacketCut
    <3> QED
      BY <1>3, <3>7, Zenon DEF x, bad
  <2> QED
    BY <2>1, <2>2
<1>10. PacketTurn(d, end) = end
  <2>1. CASE bad
    BY <2>1, NoTurn, Zenon
  <2>2. CASE ~bad
    BY <1>9, <2>2, Zenon
  <2> QED
    BY <2>1, <2>2
<1>11. ASSUME NEW k \in 1..T, k > K PROVE E[k] = PacketTurn(d, E[k - 1])
  <2>1. k \in 0..T /\ k - 1 \in 0..T /\ ~(k <= K) /\ K \in 0..T /\ K <= K
    BY <1>4, <1>11
  <2>2. E[k] = end
    BY <2>1
  <2>3. CASE k - 1 = K
    <3>1. E[K] = Going(o[K], Leading(R, K))
      BY <2>1
    <3> HIDE DEF E, end
    <3> QED
      BY <1>9, <2>2, <2>3, <3>1
  <2>4. CASE k - 1 # K
    <3>1. ~(k - 1 <= K)
      BY <1>4, <1>11, <2>4
    <3>2. E[k - 1] = end
      BY <2>1, <3>1
    <3> HIDE DEF E, end
    <3> QED
      BY <1>10, <2>2, <3>2
  <2> QED
    BY <2>3, <2>4
<1>12. PacketTurns(E, d, T)
  <2>1. E = [k \in 0..T |-> E[k]]
    OBVIOUS
  <2> HIDE DEF E
  <2>2. ASSUME NEW k \in 1..T PROVE E[k] = PacketTurn(d, E[k - 1])
    <3>1. k \in 1..K \/ k > K
      BY <1>4
    <3> QED
      BY <1>8, <1>11, <3>1
  <2> QED
    BY <1>7, <2>1, <2>2 DEF PacketTurns
<1>13. E[T] = IF n - o[K] >= 4 THEN GivenUp(o[K], Leading(R, K)) ELSE Going(o[K], Leading(R, K))
  <2>1. T \in 0..T
    BY <1>4
  <2>2. CASE T <= K
    <3>1. T = K /\ ~bad
      BY <1>4, <2>2
    <3>2. E[T] = Going(o[T], Leading(R, T))
      BY <2>1, <2>2
    <3> HIDE DEF E
    <3> QED
      BY <3>1, <3>2 DEF bad
  <2>3. CASE ~(T <= K)
    BY <2>1, <2>3 DEF bad
  <2> QED
    BY <2>2, <2>3
<1> HIDE DEF E
<1>14. ParseData(d) = IF E[T].bad \/ E[T].at # n \/ d = <<>> THEN Invalid
                      ELSE [valid |-> TRUE, packets |-> E[T].packets]
  <2>1. n = Len(d)
    BY <1>3
  <2>2. T \in Nat /\ T = Len(d) \div HeaderSize
    BY <1>4, <2>1 DEF T
  <2>3. ParseData(d) = IF E[T].bad \/ E[T].at # Len(d) \/ d = <<>> THEN Invalid
                       ELSE [valid |-> TRUE, packets |-> E[T].packets]
    BY <1>12, <2>2, ParseDataIs, Zenon
  <2> QED
    BY <2>1, <2>3, Zenon
<1>15. d = <<>> <=> n = 0
  BY <1>3
<1>16. CASE n - o[K] >= 4
  <2>1. E[T].bad
    BY <1>13, <1>16 DEF GivenUp
  <2>2. n # o[K]
    BY <1>4, <1>16
  <2> QED
    BY <1>14, <2>1, <2>2, Zenon
<1>17. CASE ~(n - o[K] >= 4)
  <2>1. ~E[T].bad /\ E[T].at = o[K] /\ E[T].packets = Leading(R, K)
    BY <1>13, <1>17 DEF Going
  <2> QED
    BY <1>14, <1>15, <2>1, Zenon DEF R
<1> QED
  BY <1>16, <1>17

\* All of the packets are read.
LEMMA AllRead ==
  ASSUME NEW ps, NEW o, NEW s, PacketsLaid(ps, o, s)
  PROVE  ParseData(s) = [valid |-> TRUE, packets |-> Results(ps)]
<1> DEFINE N == Len(ps)
           n == Len(s)
           d == SubSeq(s, 1, n)
           R == Results(ps)
           X == {ParsePacket(ps[k]) : k \in 1..N}
<1>1. s \in Seq(Octet)
  BY DEF PacketsLaid
<1>2. d = s
  BY <1>1, SubSeqFull
<1>3. N \in Nat /\ N # 0 /\ n \in Nat /\ o[N] = n /\ N <= n
  <2>1. /\ N \in Nat /\ N # 0 /\ n \in Nat /\ o[N] = n
        /\ \A k \in 0..N : o[k] \in Nat /\ 4 * k <= o[k] /\ o[k] <= n
    BY PlacesOf
  <2>2. N \in 0..N
    BY <2>1
  <2> QED
    BY <2>1, <2>2
<1>4. R \in Seq(X) /\ Len(R) = N
  <2>1. R = [k \in 1..N |-> ParsePacket(ps[k])]
    BY DEF Results
  <2>2. R \in [1..N -> X]
    BY <2>1
  <2> HIDE DEF N, R, X
  <2> QED
    BY <1>3, <2>1, <2>2
<1>5. Leading(R, N) = R
  <2>1. Leading(R, N) = SubSeq(R, 1, N)
    <3>1. N \in 0..Len(R)
      BY <1>3, <1>4
    <3> HIDE DEF N, R, X
    <3> QED
      BY <1>4, <3>1, LeadingSubSeq
  <2> HIDE DEF N, R, X
  <2> QED
    BY <1>4, <2>1, SubSeqFull
<1>6. n \in 0..Len(s) /\ N \in 0..Len(ps) /\ o[N] <= n
  BY <1>3
<1>7. N # Len(ps) => n < o[N + 1]
  OBVIOUS
<1> HIDE DEF d, n, N
<1>8. d = SubSeq(s, 1, n)
  BY DEF d
<1>9. ParseData(d) = IF n = o[N] /\ n # 0
                     THEN [valid |-> TRUE, packets |-> Leading(Results(ps), N)]
                     ELSE Invalid
  BY <1>6, <1>7, <1>8, CutRead
<1>10. n = o[N] /\ n # 0
  BY <1>3
<1> QED
  BY <1>2, <1>5, <1>9, <1>10, Zenon DEF R

\* Of a datagram that is cut, whole packets are read, or none.
LEMMA CutsRead ==
  ASSUME NEW ps, NEW o, NEW s, PacketsLaid(ps, o, s), NEW n \in 0..Len(s) - 1,
         ParseData(SubSeq(s, 1, n)).valid
  PROVE  IsHead(s[n + 1]) /\ IsPrefix(ParseData(SubSeq(s, 1, n)).packets, Results(ps))
<1> DEFINE N == Len(ps)
           ls == Lens(ps)
           d == SubSeq(s, 1, n)
           R == Results(ps)
           X == {ParsePacket(ps[k]) : k \in 1..N}
<1>1. /\ N \in Nat /\ N # 0 /\ Len(s) \in Nat /\ o[N] = Len(s)
      /\ \A k \in 0..N : o[k] \in Nat
      /\ \A k \in 1..N : /\ Sound(ps[k]) /\ o[k] = o[k - 1] + Len(ps[k])
                         /\ At(s, o[k - 1], ps[k])
  BY PlacesOf
<1>2. ps \in Seq(Seq(Octet)) /\ s \in Seq(Octet) /\ Sums(o, ls)
  BY DEF PacketsLaid, Laid
<1>3. ls \in Seq(Nat) /\ Len(ls) = N
  BY <1>2, LensType
<1> HIDE DEF ls, N
<1>4. PICK k \in 1..N : o[k - 1] < n + 1 /\ n + 1 <= o[k]
  <2>1. n + 1 \in 1..o[Len(ls)]
    BY <1>1, <1>3
  <2> QED
    BY <1>2, <1>3, <2>1, Located
<1> DEFINE K == k - 1
           p == ps[k]
<1>5. K \in 0..N /\ K + 1 = k /\ K + 1 \in 1..N /\ K # N /\ K \in 0..Len(ps) /\ n \in Nat
  BY <1>1 DEF N
<1>6. o[K] \in Nat /\ o[k] \in Nat
  <2>1. k \in 0..N
    OBVIOUS
  <2> QED
    BY <1>1, <1>5, <2>1
<1>7. o[K] <= n /\ n < o[k]
  BY <1>4, <1>5, <1>6
<1>8. Sound(p) /\ At(s, o[K], p)
  BY <1>1
<1> HIDE DEF K, p
<1>9. K # Len(ps) => n < o[K + 1]
  BY <1>5, <1>7
<1>10. n \in 0..Len(s) /\ d = SubSeq(s, 1, n)
  BY <1>1
<1> HIDE DEF d
<1>11. ParseData(d) = IF n = o[K] /\ n # 0
                      THEN [valid |-> TRUE, packets |-> Leading(Results(ps), K)]
                      ELSE Invalid
  BY <1>5, <1>7, <1>9, <1>10, CutRead
<1>12. ParseData(d).valid
  BY DEF d
<1>13. n = o[K] /\ ParseData(d).packets = Leading(R, K)
  <2>1. CASE n = o[K] /\ n # 0
    BY <1>11, <2>1 DEF R
  <2>2. CASE ~(n = o[K] /\ n # 0)
    <3>1. ParseData(d) = Invalid
      BY <1>11, <2>2, Zenon
    <3> QED
      BY <1>12, <3>1 DEF Invalid
  <2> QED
    BY <2>1, <2>2
<1>14. IsHead(s[n + 1])
  <2>1. Len(p) \in Nat /\ 1 \in 1..Len(p)
    BY <1>8 DEF Sound, HeaderSize
  <2>2. s[o[K] + 1] = p[1] /\ IsHead(p[1])
    BY <1>8, <2>1 DEF At, Sound
  <2> QED
    BY <1>13, <2>2
<1>15. IsPrefix(Leading(R, K), R)
  <2>1. R = [i \in 1..N |-> ParsePacket(ps[i])]
    BY DEF Results, N
  <2>2. R \in [1..N -> X]
    BY <2>1
  <2> HIDE DEF R, X
  <2>3. R \in Seq(X) /\ Len(R) = N
    BY <1>1, <2>1, <2>2
  <2>4. K \in 0..Len(R)
    BY <1>5, <2>3
  <2> QED
    BY <2>3, <2>4, LeadingIsPrefix
<1> QED
  BY <1>13, <1>14, <1>15, Zenon DEF d, R

-----------------------------------------------------------------------------
(* The sizes that are computed are those that are written.                 *)

\* What a packet builder holds when it writes.
Collected(b) ==
    /\ b.ssrc \in Source /\ b.sr \in BOOLEAN /\ b.blocks \in Seq(Source)
    /\ b.chunks \in Seq(Chunk) /\ b.apps \in Seq(App) /\ b.byes \in Seq(Bye)
    /\ \A k \in 1..Len(b.apps) : b.apps[k].length % 4 = 0

\* The four kinds of packets it writes.
ReportsOf(b) == [i \in 1..ReportCount(b) |-> ReportPacket(b, i)]
SdesOf(b) == [i \in 1..Groups(Len(b.chunks)) |-> SdesPacket(b, i)]
AppsOf(b) == [i \in DOMAIN b.apps |-> AppPacket(b.apps[i])]
ByesOf(b) == [i \in DOMAIN b.byes |-> ByePacket(b.byes[i])]

\* Numbers above 0 are as many as the multiples say.
LEMMA GroupsEnough ==
  ASSUME NEW n \in Nat
  PROVE  Enough(n, Groups(n))
<1>1. /\ Groups(n) \in Nat /\ n <= Groups(n) * MaxCount
      /\ n = 0 => Groups(n) = 0
      /\ n # 0 => Groups(n) # 0 /\ (Groups(n) - 1) * MaxCount < n
  BY GroupsAre
<1>2. MaxCount \in Nat
  BY CountAssumption
<1> DEFINE N == Groups(n)
           m == (N - 1) * MaxCount
<1>3. N # 0 => m < n /\ N - 1 \in Nat
  BY <1>1
<1>4. N # 0 => m \in Nat
  BY <1>2, <1>3
<1> HIDE DEF m, N
<1>5. N # 0 => m <= n
  BY <1>3, <1>4
<1> QED
  BY <1>1, <1>5, Zenon DEF Enough, m, N

\* One report packet is enough for no blocks.
LEMMA ReportsEnough ==
  ASSUME NEW b, b.blocks \in Seq(Source)
  PROVE  Enough(Len(b.blocks), ReportCount(b)) /\ ReportCount(b) # 0
<1> DEFINE n == Len(b.blocks)
<1>1. n \in Nat
  OBVIOUS
<1>2. CASE b.blocks = <<>>
  <2>1. n = 0 /\ ReportCount(b) = 1
    BY <1>2 DEF ReportCount
  <2>2. MaxCount \in Nat
    BY CountAssumption
  <2> HIDE DEF n
  <2> QED
    BY <2>1, <2>2 DEF Enough, n
<1>3. CASE b.blocks # <<>>
  <2>1. n # 0 /\ ReportCount(b) = Groups(n)
    BY <1>3 DEF ReportCount
  <2>2. Groups(n) # 0
    BY <1>1, <2>1, GroupsAre
  <2>3. Enough(n, Groups(n))
    BY <1>1, GroupsEnough
  <2> QED
    BY <2>1, <2>2, <2>3
<1> QED
  BY <1>2, <1>3

\* The total of a piece is the distance between its ends.
LEMMA PieceTotal ==
  ASSUME NEW s \in Seq(Nat), NEW t, Sums(t, s), NEW j \in 0..Len(s), NEW k \in 0..Len(s),
         NEW p, Len(p) = k - j, j <= k, \A i \in 1..k - j : p[i] = s[j + i]
  PROVE  t[k] = t[j] + Total(p) /\ t[j] \in Nat /\ Total(p) \in Nat
<1> DEFINE n == k - j
           u == [i \in 0..n |-> t[j + i] - t[j]]
<1>1. n \in Nat /\ n = Len(p) /\ j + n = k /\ j \in Nat /\ Len(s) \in Nat
  OBVIOUS
<1>2. \A i \in 0..n : j + i \in 0..Len(s) /\ j <= j + i
  BY <1>1
<1>3. /\ t \in [0..Len(s) -> Nat]
      /\ \A i \in 1..Len(s) : t[i] = t[i - 1] + s[i]
  BY DEF Sums
<1>4. \A i \in 0..Len(s) : t[i] \in Nat /\ (j <= i => t[j] <= t[i])
  BY <1>3, SumsGrow
<1>5. t[j] \in Nat
  BY <1>4
<1>6. \A i \in 0..n : u[i] = t[j + i] - t[j] /\ u[i] \in Nat
  <2> SUFFICES ASSUME NEW i \in 0..n PROVE u[i] = t[j + i] - t[j] /\ u[i] \in Nat
    OBVIOUS
  <2>1. u[i] = t[j + i] - t[j]
    OBVIOUS
  <2> HIDE DEF u, n
  <2>2. t[j + i] \in Nat /\ t[j] <= t[j + i]
    <3>1. j + i \in 0..Len(s) /\ j <= j + i
      BY <1>2
    <3> QED
      BY <1>4, <3>1
  <2> QED
    BY <1>5, <2>1, <2>2
<1>7. u \in [0..n -> Nat]
  <2>1. u = [i \in 0..n |-> u[i]]
    OBVIOUS
  <2> HIDE DEF u
  <2> QED
    BY <1>6, <2>1
<1> HIDE DEF u, n
<1>8. u[0] = 0
  <2>1. 0 \in 0..n /\ j + 0 = j
    BY <1>1
  <2> QED
    BY <1>5, <1>6, <2>1
<1>9. ASSUME NEW i \in 1..n PROVE u[i] = u[i - 1] + p[i]
  <2>1. i \in 0..n /\ i - 1 \in 0..n /\ j + i \in 1..Len(s) /\ j + (i - 1) = j + i - 1
        /\ j + i \in 0..Len(s) /\ j + i - 1 \in 0..Len(s)
    <3>1. /\ n \in Nat /\ i \in 1..n /\ j + n = k /\ j \in Nat
          /\ Len(s) \in Nat /\ k \in 0..Len(s)
      BY <1>1
    <3> QED
      BY ONLY <3>1
  <2>2. u[i] = t[j + i] - t[j] /\ u[i - 1] = t[j + i - 1] - t[j]
    BY <1>6, <2>1
  <2>3. t[j + i] = t[j + i - 1] + s[j + i] /\ p[i] = s[j + i]
    BY <1>3, <2>1 DEF n
  <2>4. t[j + i] \in Nat /\ t[j + i - 1] \in Nat /\ s[j + i] \in Nat
    <3>1. s[j + i] \in Nat
      BY <2>1
    <3> QED
      BY <1>4, <2>1, <3>1
  <2>5. /\ u[i] = t[j + i] - t[j] /\ u[i - 1] = t[j + i - 1] - t[j] /\ t[j] \in Nat
        /\ t[j + i] = t[j + i - 1] + p[i] /\ t[j + i - 1] \in Nat /\ p[i] \in Nat
    BY <1>5, <2>2, <2>3, <2>4
  <2> QED
    BY ONLY <2>5
<1>10. Sums(u, p)
  BY <1>1, <1>7, <1>8, <1>9 DEF Sums
<1>11. Total(p) = u[n]
  BY <1>1, <1>10, TotalIs
<1>12. n \in 0..n /\ u[n] = t[k] - t[j]
  BY <1>1, <1>6
<1>13. t[k] \in Nat
  BY <1>4
<1>14. u[n] \in Nat
  BY <1>7, <1>12
<1> QED
  BY <1>5, <1>11, <1>12, <1>13, <1>14

\* The sender information comes once.
LEMMA ReportLens ==
  ASSUME NEW b, Collected(b), NEW i \in 1..ReportCount(b)
  PROVE  /\ ReportsOf(b)[i] = ReportPacket(b, i)
         /\ Len(ReportPacket(b, i))
              = 8 + (IF i = 1 THEN Info(b.sr) ELSE 0) + 24 * Len(Group(b.blocks, i))
         /\ Shape(ReportPacket(b, i), IF b.sr /\ i = 1 THEN "SR" ELSE "RR",
                  Len(Group(b.blocks, i)))
         /\ ParsePacket(ReportPacket(b, i))
              = [type |-> IF b.sr /\ i = 1 THEN "SR" ELSE "RR", known |-> TRUE,
                 ssrc |-> b.ssrc, blocks |-> Group(b.blocks, i)]
         /\ Group(b.blocks, i) \in Seq(Source)
<1> DEFINE N == ReportCount(b)
           g == Group(b.blocks, i)
           sr == b.sr /\ i = 1
           p == ReportPacket(b, i)
<1>1. b.ssrc \in Source /\ b.sr \in BOOLEAN /\ b.blocks \in Seq(Source)
  BY DEF Collected
<1>2. Enough(Len(b.blocks), N)
  BY <1>1, ReportsEnough
<1>3. g \in Seq(Source)
  BY <1>1, <1>2, GroupIs
<1>4. g = Group(b.blocks, i) /\ sr = (b.sr /\ i = 1) /\ p = ReportPacket(b, i)
  OBVIOUS
<1>5. ReportsOf(b)[i] = p
  BY DEF ReportsOf
<1> HIDE DEF N, g, sr, p
<1>6. /\ Shape(p, IF sr THEN "SR" ELSE "RR", Len(g))
      /\ Len(p) = HeaderSize + WordSize + Info(sr) + BlockSize * Len(g)
      /\ ParsePacket(p) = [type |-> IF sr THEN "SR" ELSE "RR", known |-> TRUE,
                           ssrc |-> b.ssrc, blocks |-> g]
  <2>1. i \in 1..N
    BY DEF N
  <2> QED
    BY <1>1, <1>2, <1>4, <2>1, ReportRead
<1>7. Info(sr) = (IF i = 1 THEN Info(b.sr) ELSE 0)
  BY <1>1, <1>4 DEF Info
<1>8. Len(p) = 8 + (IF i = 1 THEN Info(b.sr) ELSE 0) + 24 * Len(g)
  <2>1. HeaderSize + WordSize = 8 /\ BlockSize = 24
    BY DEF HeaderSize, WordSize, BlockSize
  <2> QED
    BY <1>6, <1>7, <2>1, Zenon
<1> QED
  BY <1>3, <1>4, <1>5, <1>6, <1>8, Zenon

\* The size of the reports is what is written.
LEMMA ReportsLength ==
  ASSUME NEW b, Collected(b)
  PROVE  Total(Lens(ReportsOf(b))) = ReportBytes(b) /\ ReportBytes(b) \in Nat
<1> DEFINE N == ReportCount(b)
           n == Len(b.blocks)
           A == ReportsOf(b)
           I == Info(b.sr)
           E == [i \in 0..N |-> Ends(n, i)]
           G == AllGroups(b.blocks, N)
           t == [i \in 0..N |-> 8 * i + (IF i = 0 THEN 0 ELSE I) + 24 * E[i]]
<1>1. b.sr \in BOOLEAN /\ b.blocks \in Seq(Source) /\ b.ssrc \in Source
  BY DEF Collected
<1>2. Enough(n, N) /\ N # 0 /\ N \in Nat /\ n \in Nat
  BY <1>1, ReportsEnough DEF Enough
<1>3. G \in Seq(Seq(Source)) /\ Len(G) = N /\ Sums(E, Lens(G)) /\ Ends(n, 0) = 0 /\ Ends(n, N) = n
  <2>1. /\ G \in Seq(Seq(Source)) /\ Len(G) = N
        /\ Sums([i \in 0..N |-> Ends(Len(b.blocks), i)], Lens(G))
        /\ Ends(Len(b.blocks), 0) = 0 /\ Ends(Len(b.blocks), N) = Len(b.blocks)
    <3>1. Enough(Len(b.blocks), N)
      BY <1>2
    <3> HIDE DEF N
    <3> QED
      BY <1>1, <3>1, GroupSums, Zenon
  <2> QED
    BY <2>1, Zenon
<1>4. I \in Nat /\ I = IF b.sr THEN SenderInfoSize ELSE 0
  BY <1>1, InfoIs DEF Info
<1>5. /\ Lens(G) \in Seq(Nat) /\ Len(Lens(G)) = N
      /\ \A i \in 1..N : Lens(G)[i] = Len(G[i]) /\ G[i] \in Seq(Source)
  BY <1>3, LensType
<1>6. \A i \in 1..N : G[i] = Group(b.blocks, i)
  BY DEF AllGroups
<1>7. E[0] = 0 /\ E[N] = n
  <2>1. 0 \in 0..N /\ N \in 0..N
    BY <1>2
  <2> QED
    BY <1>3, <2>1
<1> HIDE DEF E, G
<1>8. /\ E \in [0..N -> Nat]
      /\ \A i \in 1..N : E[i] = E[i - 1] + Len(Group(b.blocks, i))
  <2>1. /\ E \in [0..N -> Nat]
        /\ \A i \in 1..N : E[i] = E[i - 1] + Lens(G)[i]
    BY <1>3, <1>5 DEF Sums
  <2> QED
    BY <1>5, <1>6, <2>1
<1>9. \A i \in 0..N : E[i] \in Nat
  BY <1>8
<1> HIDE DEF I, n
<1>10. t \in [0..N -> Nat] /\ \A i \in 0..N : t[i] = 8 * i + (IF i = 0 THEN 0 ELSE I) + 24 * E[i]
  <2>1. \A i \in 0..N : 8 * i + (IF i = 0 THEN 0 ELSE I) + 24 * E[i] \in Nat
    BY <1>4, <1>9
  <2> QED
    BY <2>1
<1>11. Len(A) = N /\ Len(Lens(A)) = N /\ \A i \in 1..N : Lens(A)[i] = Len(A[i])
  BY <1>2 DEF ReportsOf, Lens
<1> HIDE DEF t, N, A
<1>12. ASSUME NEW i \in 1..N PROVE t[i] = t[i - 1] + Lens(A)[i]
  <2>1. i \in 0..N /\ i - 1 \in 0..N /\ i # 0 /\ (i - 1 = 0 <=> i = 1)
    BY <1>2
  <2>2. A[i] = ReportPacket(b, i)
        /\ Len(ReportPacket(b, i)) = 8 + (IF i = 1 THEN Info(b.sr) ELSE 0)
                                        + 24 * Len(Group(b.blocks, i))
        /\ Group(b.blocks, i) \in Seq(Source)
    <3>1. i \in 1..ReportCount(b)
      BY DEF N
    <3> QED
      BY <3>1, ReportLens, Zenon DEF A
  <2> DEFINE m == Len(Group(b.blocks, i))
             x == E[i - 1]
  <2>3. m \in Nat
    BY <2>2
  <2>4. Lens(A)[i] = 8 + (IF i = 1 THEN I ELSE 0) + 24 * m
    <3>1. Lens(A)[i] = Len(A[i])
      BY <1>11
    <3> QED
      BY <2>2, <3>1, Zenon DEF I
  <2>5. x \in Nat /\ E[i] = x + m
    BY <1>8, <1>9, <2>1
  <2>6. t[i] = 8 * i + I + 24 * E[i]
    BY <1>10, <2>1
  <2>7. t[i - 1] = 8 * (i - 1) + (IF i = 1 THEN 0 ELSE I) + 24 * x
    BY <1>10, <2>1
  <2> HIDE DEF m, x
  <2> QED
    BY <1>4, <2>3, <2>4, <2>5, <2>6, <2>7
<1>13. t[0] = 0 /\ t[N] = 8 * N + I + 24 * n
  <2>1. 0 \in 0..N /\ N \in 0..N
    BY <1>2
  <2> QED
    BY <1>2, <1>7, <1>10, <2>1
<1>14. Total(Lens(A)) = t[N]
  <2>1. Sums(t, Lens(A))
    BY <1>10, <1>11, <1>12, <1>13 DEF Sums
  <2>2. Len(Lens(A)) \in Nat
    BY <1>2, <1>11
  <2> QED
    BY <1>11, <2>1, <2>2, TotalIs
<1>15. ReportBytes(b) = 8 * N + I + 24 * n
  <2>1. HasReport(b)
    BY <1>1, CallAssumption DEF HasReport
  <2>2. HeaderSize + WordSize = 8 /\ BlockSize = 24
    BY DEF HeaderSize, WordSize, BlockSize
  <2>3. CASE b.blocks = <<>>
    <3>1. N = 1 /\ n = 0
      BY <2>3 DEF N, n, ReportCount
    <3>2. ReportBytes(b) = 8 + I
      BY <1>4, <2>1, <2>2, <2>3 DEF ReportBytes
    <3> QED
      BY <1>4, <3>1, <3>2
  <2>4. CASE b.blocks # <<>>
    <3>1. N = Groups(n)
      BY <2>4 DEF N, n, ReportCount
    <3>2. ReportBytes(b) = n * BlockSize + Groups(n) * (HeaderSize + WordSize) + I
      BY <1>4, <2>1, <2>4 DEF ReportBytes, BlocksBytes, n
    <3> QED
      BY <1>2, <1>4, <2>2, <3>1, <3>2
  <2> QED
    BY <2>3, <2>4
<1>16. t[N] \in Nat
  BY <1>2, <1>10
<1> QED
  BY <1>13, <1>14, <1>15, <1>16 DEF A

\* An SDES packet.
LEMMA SdesLens ==
  ASSUME NEW b, Collected(b), NEW i \in 1..Groups(Len(b.chunks))
  PROVE  /\ SdesOf(b)[i] = SdesPacket(b, i)
         /\ Len(SdesPacket(b, i)) = 4 + Total(ChunkLens(Group(b.chunks, i)))
         /\ Shape(SdesPacket(b, i), "SDES", Len(Group(b.chunks, i)))
         /\ ParsePacket(SdesPacket(b, i))
              = [type |-> "SDES", known |-> TRUE, chunks |-> Group(b.chunks, i)]
<1> DEFINE N == Groups(Len(b.chunks))
           g == Group(b.chunks, i)
           p == SdesPacket(b, i)
<1>1. b.chunks \in Seq(Chunk)
  BY DEF Collected
<1>2. Enough(Len(b.chunks), N)
  <2>1. Len(b.chunks) \in Nat
    BY <1>1
  <2> QED
    BY <2>1, GroupsEnough
<1>3. g = Group(b.chunks, i) /\ p = SdesPacket(b, i) /\ i \in 1..N
  OBVIOUS
<1>4. SdesOf(b)[i] = p
  BY DEF SdesOf
<1> HIDE DEF N, g, p
<1>5. /\ Shape(p, "SDES", Len(g)) /\ Len(p) = HeaderSize + Total(ChunkLens(g))
      /\ ParsePacket(p) = [type |-> "SDES", known |-> TRUE, chunks |-> g]
  BY <1>1, <1>2, <1>3, SdesRead
<1> QED
  BY <1>3, <1>4, <1>5, Zenon DEF HeaderSize

\* The size of the SDES packets is what is written.
LEMMA SdesLength ==
  ASSUME NEW b, Collected(b)
  PROVE  Total(Lens(SdesOf(b))) = SdesBytes(b) /\ SdesBytes(b) \in Nat
<1> DEFINE s == b.chunks
           n == Len(s)
           N == Groups(n)
           A == SdesOf(b)
           ls == ChunkLens(s)
           E == [i \in 0..N |-> Ends(n, i)]
           G == AllGroups(s, N)
<1>1. s \in Seq(Chunk) /\ n \in Nat
  BY DEF Collected
<1>2. Enough(n, N) /\ N \in Nat
  BY <1>1, GroupsEnough DEF Enough
<1>3. /\ Ends(n, 0) = 0 /\ Ends(n, N) = n
      /\ \A i \in 1..N : Group(s, i) \in Seq(Chunk)
  <2>1. Ends(Len(s), 0) = 0 /\ Ends(Len(s), N) = Len(s)
    <3>1. Enough(Len(s), N)
      BY <1>2
    <3> HIDE DEF N
    <3> QED
      BY <1>1, <3>1, GroupSums, Zenon
  <2>2. \A i \in 1..N : Group(s, i) \in Seq(Chunk)
    BY <1>1, <1>2, GroupIs
  <2> QED
    BY <2>1, <2>2, Zenon
<1>4. ls \in Seq(Nat) /\ Len(ls) = n /\ \A k \in 1..n : ls[k] = ChunkBytes(s[k].items)
  BY <1>1, ChunksDataIs
<1>5. PICK c : Sums(c, ls)
  BY <1>4, SumsExist
<1>6. c \in [0..n -> Nat] /\ c[0] = 0 /\ Total(ls) = c[n]
  BY <1>4, <1>5, TotalIs DEF Sums
<1>7. E[0] = 0 /\ E[N] = n
  <2>1. 0 \in 0..N /\ N \in 0..N
    BY <1>2
  <2> QED
    BY <1>3, <2>1
<1>8. ASSUME NEW i \in 1..N
      PROVE  /\ E[i] \in 0..n /\ E[i - 1] \in 0..n
             /\ c[E[i]] = c[E[i - 1]] + Total(ChunkLens(Group(s, i)))
             /\ c[E[i - 1]] \in Nat /\ Total(ChunkLens(Group(s, i))) \in Nat
  <2> DEFINE g == Group(s, i)
             j == (i - 1) * MaxCount
             k == Ends(n, i)
  <2>1. /\ Ends(n, i - 1) = j /\ j \in Nat /\ k \in Nat /\ k <= n
        /\ k = j + Len(g) /\ Len(g) \in 0..MaxCount
        /\ \A h \in 1..Len(g) : j + h \in 1..n /\ g[h] = s[j + h]
    BY <1>1, <1>2, GroupIs
  <2>2. g \in Seq(Chunk)
    BY <1>3
  <2>3. E[i] = k /\ E[i - 1] = j
    <3>1. i \in 0..N /\ i - 1 \in 0..N
      BY <1>2
    <3> QED
      BY <2>1, <3>1
  <2>4. /\ Len(ChunkLens(g)) = Len(g) /\ Len(g) \in Nat
        /\ \A h \in 1..Len(g) : ChunkLens(g)[h] = ChunkBytes(g[h].items)
    BY <2>2, ChunksDataIs
  <2> DEFINE p == ChunkLens(g)
  <2> HIDE DEF g, j, k, p, E, ls, n
  <2>5. j \in 0..n /\ k \in 0..n /\ j <= k /\ Len(p) = k - j
    BY <1>1, <2>1, <2>4 DEF p
  <2>6. \A h \in 1..k - j : p[h] = ls[j + h]
    <3> SUFFICES ASSUME NEW h \in 1..k - j PROVE p[h] = ls[j + h]
      OBVIOUS
    <3>1. h \in 1..Len(g)
      BY <2>4, <2>5 DEF p
    <3>2. j + h \in 1..n /\ g[h] = s[j + h] /\ p[h] = ChunkBytes(g[h].items)
      BY <2>1, <2>4, <3>1 DEF p
    <3>3. ls[j + h] = ChunkBytes(s[j + h].items)
      BY <1>4, <3>2
    <3> QED
      BY <3>2, <3>3
  <2>7. j \in 0..Len(ls) /\ k \in 0..Len(ls)
    BY <1>4, <2>5
  <2>8. c[k] = c[j] + Total(p) /\ c[j] \in Nat /\ Total(p) \in Nat
    BY <1>4, <1>5, <2>5, <2>6, <2>7, PieceTotal
  <2> QED
    BY <2>3, <2>5, <2>8, Zenon DEF p, g
<1> DEFINE e == [i \in 0..N |-> c[E[i]]]
           t == [i \in 0..N |-> 4 * i + e[i]]
<1>9. \A i \in 1..N : Group(s, i) \in Seq(Chunk) /\ A[i] = SdesPacket(b, i)
                      /\ Len(SdesPacket(b, i)) = 4 + Total(ChunkLens(Group(s, i)))
  BY <1>3, SdesLens
<1>10. Len(A) = N /\ Len(Lens(A)) = N /\ \A i \in 1..N : Lens(A)[i] = Len(A[i])
  BY <1>2 DEF SdesOf, Lens
<1> HIDE DEF A, E
<1>11. e[0] = 0 /\ e[N] = c[n]
  <2>1. 0 \in 0..N /\ N \in 0..N
    BY <1>2
  <2> QED
    BY <1>6, <1>7, <2>1
<1>12. \A i \in 1..N : /\ e[i] = e[i - 1] + Total(ChunkLens(Group(s, i)))
                       /\ e[i] \in Nat /\ Total(ChunkLens(Group(s, i))) \in Nat
  <2> SUFFICES ASSUME NEW i \in 1..N
               PROVE  /\ e[i] = e[i - 1] + Total(ChunkLens(Group(s, i)))
                      /\ e[i] \in Nat /\ Total(ChunkLens(Group(s, i))) \in Nat
    OBVIOUS
  <2>1. i \in 0..N /\ i - 1 \in 0..N
    BY <1>2
  <2>2. e[i] = c[E[i]] /\ e[i - 1] = c[E[i - 1]]
    BY <2>1
  <2> HIDE DEF e
  <2>3. e[i] \in Nat
    BY <1>8, <2>2
  <2> QED
    BY <1>8, <2>2, <2>3, Zenon
<1> HIDE DEF e
<1>13. \A i \in 0..N : e[i] \in Nat
  <2>1. \A i \in 0..N : i = 0 \/ i \in 1..N
    BY <1>2
  <2> QED
    BY <1>11, <1>12, <2>1
<1>14. t \in [0..N -> Nat] /\ \A i \in 0..N : t[i] = 4 * i + e[i]
  <2>1. \A i \in 0..N : 4 * i + e[i] \in Nat
    BY <1>13
  <2> QED
    BY <2>1
<1> HIDE DEF t, N
<1>15. ASSUME NEW i \in 1..N PROVE t[i] = t[i - 1] + Lens(A)[i]
  <2>1. i \in 0..N /\ i - 1 \in 0..N
    BY <1>2
  <2> DEFINE m == Total(ChunkLens(Group(s, i)))
  <2>2. m \in Nat /\ e[i] = e[i - 1] + m /\ e[i - 1] \in Nat
    BY <1>12, <1>13, <2>1
  <2>3. Lens(A)[i] = 4 + m
    BY <1>9, <1>10
  <2>4. t[i] = 4 * i + e[i] /\ t[i - 1] = 4 * (i - 1) + e[i - 1]
    BY <1>14, <2>1
  <2> HIDE DEF m
  <2> QED
    BY <2>2, <2>3, <2>4
<1>16. t[0] = 0 /\ t[N] = 4 * N + c[n] /\ t[N] \in Nat
  <2>1. 0 \in 0..N /\ N \in 0..N
    BY <1>2
  <2> QED
    BY <1>11, <1>14, <2>1
<1>17. Total(Lens(A)) = t[N]
  <2>1. Sums(t, Lens(A))
    BY <1>10, <1>14, <1>15, <1>16 DEF Sums
  <2>2. Len(Lens(A)) \in Nat
    BY <1>2, <1>10
  <2> QED
    BY <1>10, <2>1, <2>2, TotalIs
<1>18. SdesBytes(b) = 4 * N + c[n]
  <2>1. CASE s = <<>>
    <3>1. n = 0 /\ N = 0
      <4>1. n = 0
        BY <2>1
      <4> QED
        BY <4>1, GroupsAre DEF N
    <3> QED
      BY <1>6, <2>1, <3>1 DEF SdesBytes
  <2>2. CASE s # <<>>
    <3>1. SdesBytes(b) = Total(ls) + N * 4
      BY <2>2, Zenon DEF SdesBytes, ChunksBytes, ChunkLens, HeaderSize, N
    <3>2. c[n] \in Nat
      BY <1>1, <1>6
    <3> QED
      BY <1>2, <1>6, <3>1, <3>2
  <2> QED
    BY <2>1, <2>2
<1> QED
  BY <1>16, <1>17, <1>18 DEF A

\* An APP packet that is added, and a BYE packet.
LEMMA AppIs ==
  ASSUME NEW a \in App
  PROVE  a.subtype \in Nat /\ a.ssrc \in Source /\ a.length \in Nat
<1>1. a \in [subtype : 0..31, ssrc : Source, length : Nat]
  BY CallAssumption, SMT
<1>2. a.subtype \in 0..31 /\ a.ssrc \in Source /\ a.length \in Nat
  BY <1>1, SMT
<1> QED
  BY <1>2, SMT

\* The fields of a BYE packet of the calls.
LEMMA ByeIs ==
  ASSUME NEW y \in Bye
  PROVE  y.ssrcs \in Seq(Source) /\ y.reason \in Nat
<1>1. y \in [ssrcs : Seq(Source), reason : 0..255]
  BY CallAssumption, SMT
<1> DEFINE r == y.reason
<1>2. y.ssrcs \in Seq(Source) /\ r \in 0..255
  BY <1>1, SMT
<1> HIDE DEF r
<1>3. r \in Nat
  BY ONLY <1>2, SMT
<1> QED
  BY <1>2, <1>3, Zenon DEF r

\* The APP packets of a builder: their lengths, and where each comes from.
LEMMA AppsLength ==
  ASSUME NEW b, Collected(b)
  PROVE  /\ Len(AppsOf(b)) = Len(b.apps) /\ Len(b.apps) \in Nat
         /\ Lens(AppsOf(b)) = [k \in DOMAIN b.apps |-> AppBytes(b.apps[k])]
         /\ \A k \in 1..Len(b.apps) :
               /\ AppsOf(b)[k] = AppPacket(b.apps[k])
               /\ Shape(AppsOf(b)[k], "APP", b.apps[k].subtype)
               /\ Len(AppsOf(b)[k]) = AppBytes(b.apps[k]) /\ AppBytes(b.apps[k]) \in Nat
               /\ ParsePacket(AppsOf(b)[k])
                    = [type |-> "APP", known |-> TRUE, subtype |-> b.apps[k].subtype,
                       ssrc |-> b.apps[k].ssrc, length |-> b.apps[k].length]
<1> DEFINE A == AppsOf(b)
           l == b.apps
<1>1. l \in Seq(App) /\ DOMAIN l = 1..Len(l) /\ Len(l) \in Nat
      /\ \A k \in 1..Len(l) : l[k] \in App /\ l[k].length % 4 = 0
  BY DEF Collected
<1>2. A = [k \in 1..Len(l) |-> AppPacket(l[k])]
  BY <1>1, Zenon DEF AppsOf
<1> HIDE DEF A, l
<1>3. Len(A) = Len(l) /\ \A k \in 1..Len(l) : A[k] = AppPacket(l[k])
  BY <1>1, <1>2
<1>4. ASSUME NEW k \in 1..Len(l)
      PROVE  /\ Shape(A[k], "APP", l[k].subtype) /\ Len(A[k]) = AppBytes(l[k])
             /\ AppBytes(l[k]) \in Nat
             /\ ParsePacket(A[k]) = [type |-> "APP", known |-> TRUE, subtype |-> l[k].subtype,
                                     ssrc |-> l[k].ssrc, length |-> l[k].length]
  <2> DEFINE a == l[k]
             p == A[k]
  <2>1. a \in App /\ a.length % 4 = 0
    BY <1>1
  <2>3. p = AppPacket(a)
    BY <1>3
  <2> HIDE DEF a, p
  <2>2. a.subtype \in Nat /\ a.ssrc \in Source /\ a.length \in Nat
    BY <2>1, AppIs
  <2>4. /\ Shape(p, "APP", a.subtype) /\ Len(p) = AppBytes(a)
        /\ ParsePacket(p) = [type |-> "APP", known |-> TRUE, subtype |-> a.subtype,
                             ssrc |-> a.ssrc, length |-> a.length]
    BY <2>1, <2>2, <2>3, AppRead
  <2>5. AppBytes(a) \in Nat
    BY <2>2 DEF AppBytes, HeaderSize, WordSize
  <2> QED
    BY <2>4, <2>5, Zenon DEF a, p
<1>5. Lens(A) = [k \in DOMAIN l |-> AppBytes(l[k])]
  <2>1. Lens(A) = [k \in 1..Len(l) |-> Len(A[k])]
    BY <1>3, Zenon DEF Lens
  <2>2. \A k \in 1..Len(l) : Len(A[k]) = AppBytes(l[k])
    BY <1>4
  <2> QED
    BY <1>1, <2>1, <2>2
<1> QED
  BY <1>1, <1>3, <1>4, <1>5, Zenon DEF A, l

\* The BYE packets of a builder: their lengths, and where each comes from.
LEMMA ByesLength ==
  ASSUME NEW b, Collected(b)
  PROVE  /\ Len(ByesOf(b)) = Len(b.byes) /\ Len(b.byes) \in Nat
         /\ Lens(ByesOf(b)) = [k \in DOMAIN b.byes |-> ByeBytes(b.byes[k])]
         /\ \A k \in 1..Len(b.byes) :
               /\ ByesOf(b)[k] = ByePacket(b.byes[k])
               /\ Shape(ByesOf(b)[k], "BYE", Len(b.byes[k].ssrcs))
               /\ Len(ByesOf(b)[k]) = ByeBytes(b.byes[k]) /\ ByeBytes(b.byes[k]) \in Nat
               /\ ParsePacket(ByesOf(b)[k])
                    = [type |-> "BYE", known |-> TRUE, ssrcs |-> b.byes[k].ssrcs,
                       reason |-> b.byes[k].reason]
<1> DEFINE A == ByesOf(b)
           l == b.byes
<1>1. l \in Seq(Bye) /\ DOMAIN l = 1..Len(l) /\ Len(l) \in Nat
      /\ \A k \in 1..Len(l) : l[k] \in Bye
  BY DEF Collected
<1>2. A = [k \in 1..Len(l) |-> ByePacket(l[k])]
  BY <1>1, Zenon DEF ByesOf
<1> HIDE DEF A, l
<1>3. Len(A) = Len(l) /\ \A k \in 1..Len(l) : A[k] = ByePacket(l[k])
  BY <1>1, <1>2
<1>4. ASSUME NEW k \in 1..Len(l)
      PROVE  /\ Shape(A[k], "BYE", Len(l[k].ssrcs)) /\ Len(A[k]) = ByeBytes(l[k])
             /\ ByeBytes(l[k]) \in Nat
             /\ ParsePacket(A[k]) = [type |-> "BYE", known |-> TRUE, ssrcs |-> l[k].ssrcs,
                                     reason |-> l[k].reason]
  <2> DEFINE a == l[k]
             p == A[k]
  <2>1. a \in Bye
    BY <1>1
  <2>3. p = ByePacket(a)
    BY <1>3
  <2> HIDE DEF a, p
  <2>2. a.ssrcs \in Seq(Source) /\ a.reason \in Nat
    BY <2>1, ByeIs
  <2>4. /\ Shape(p, "BYE", Len(a.ssrcs)) /\ Len(p) = ByeBytes(a)
        /\ ParsePacket(p) = [type |-> "BYE", known |-> TRUE, ssrcs |-> a.ssrcs,
                             reason |-> a.reason]
    BY <2>2, <2>3, ByeRead
  <2>5. ByeBytes(a) \in Nat
    BY <2>2, ByeSize
  <2> QED
    BY <2>4, <2>5, Zenon DEF a, p
<1>5. Lens(A) = [k \in DOMAIN l |-> ByeBytes(l[k])]
  <2>1. Lens(A) = [k \in 1..Len(l) |-> Len(A[k])]
    BY <1>3, Zenon DEF Lens
  <2>2. \A k \in 1..Len(l) : Len(A[k]) = ByeBytes(l[k])
    BY <1>4
  <2> QED
    BY <1>1, <2>1, <2>2
<1> QED
  BY <1>1, <1>3, <1>4, <1>5, Zenon DEF A, l

-----------------------------------------------------------------------------
(* The four kinds of packets in a row.                                     *)

\* Four rows make one.
Row4(A, B, C, D, w) ==
    /\ Len(w) = Len(A) + Len(B) + Len(C) + Len(D)
    /\ \A k \in 1..Len(A) : w[k] = A[k]
    /\ \A k \in 1..Len(B) : w[Len(A) + k] = B[k]
    /\ \A k \in 1..Len(C) : w[Len(A) + Len(B) + k] = C[k]
    /\ \A k \in 1..Len(D) : w[Len(A) + Len(B) + Len(C) + k] = D[k]

\* Two make one.
LEMMA TwoRows ==
  ASSUME NEW X, NEW p \in Seq(X), NEW q \in Seq(X)
  PROVE  /\ p \o q \in Seq(X) /\ Len(p \o q) = Len(p) + Len(q)
         /\ \A k \in 1..Len(p) : (p \o q)[k] = p[k]
         /\ \A k \in 1..Len(q) : (p \o q)[Len(p) + k] = q[k]
  OBVIOUS

\* Each has its place.
LEMMA FourRows ==
  ASSUME NEW X, NEW A \in Seq(X), NEW B \in Seq(X), NEW C \in Seq(X), NEW D \in Seq(X)
  PROVE  A \o B \o C \o D \in Seq(X) /\ Row4(A, B, C, D, A \o B \o C \o D)
<1> DEFINE u == A \o B
           v == u \o C
           w == v \o D
<1>1. Len(A) \in Nat /\ Len(B) \in Nat /\ Len(C) \in Nat /\ Len(D) \in Nat
  OBVIOUS
<1>2. /\ u \in Seq(X) /\ Len(u) = Len(A) + Len(B)
      /\ \A k \in 1..Len(A) : u[k] = A[k]
      /\ \A k \in 1..Len(B) : u[Len(A) + k] = B[k]
  OBVIOUS
<1> HIDE DEF u
<1>3. /\ v \in Seq(X) /\ Len(v) = Len(u) + Len(C)
      /\ \A k \in 1..Len(u) : v[k] = u[k]
      /\ \A k \in 1..Len(C) : v[Len(u) + k] = C[k]
  <2>1. u \in Seq(X) /\ C \in Seq(X)
    BY <1>2
  <2> QED
    BY ONLY <2>1, TwoRows
<1> HIDE DEF v
<1>4. /\ w \in Seq(X) /\ Len(w) = Len(v) + Len(D)
      /\ \A k \in 1..Len(v) : w[k] = v[k]
      /\ \A k \in 1..Len(D) : w[Len(v) + k] = D[k]
  <2>1. v \in Seq(X) /\ D \in Seq(X)
    BY <1>3
  <2> QED
    BY ONLY <2>1, TwoRows
<1> HIDE DEF w
<1>5. Len(u) \in Nat /\ Len(v) \in Nat /\ Len(v) = Len(A) + Len(B) + Len(C)
  BY <1>1, <1>2, <1>3
<1>6. ASSUME NEW k \in 1..Len(A) PROVE w[k] = A[k]
  <2>1. k \in 1..Len(u) /\ k \in 1..Len(v)
    BY <1>1, <1>2, <1>5
  <2> QED
    BY <1>2, <1>3, <1>4, <2>1
<1>7. ASSUME NEW k \in 1..Len(B) PROVE w[Len(A) + k] = B[k]
  <2>1. Len(A) + k \in 1..Len(u) /\ Len(A) + k \in 1..Len(v)
    BY <1>1, <1>2, <1>5
  <2> QED
    BY <1>2, <1>3, <1>4, <2>1
<1>8. ASSUME NEW k \in 1..Len(C) PROVE w[Len(A) + Len(B) + k] = C[k]
  <2>1. Len(u) + k \in 1..Len(v)
    BY <1>1, <1>2, <1>5
  <2>2. w[Len(u) + k] = C[k]
    BY <1>3, <1>4, <2>1
  <2> QED
    BY <1>2, <2>2
<1>9. ASSUME NEW k \in 1..Len(D) PROVE w[Len(A) + Len(B) + Len(C) + k] = D[k]
  BY <1>4, <1>5
<1>10. Len(w) = Len(A) + Len(B) + Len(C) + Len(D)
  BY <1>1, <1>4, <1>5
<1>11. Row4(A, B, C, D, w)
  BY <1>6, <1>7, <1>8, <1>9, <1>10 DEF Row4
<1> QED
  BY <1>4, <1>11, Zenon DEF w, v, u

\* Every place is in one of them.
LEMMA RowPlaces ==
  ASSUME NEW A, NEW B, NEW C, NEW D, NEW w, Row4(A, B, C, D, w),
         Len(A) \in Nat, Len(B) \in Nat, Len(C) \in Nat, Len(D) \in Nat,
         NEW k \in 1..Len(w)
  PROVE  \/ \E j \in 1..Len(A) : w[k] = A[j]
         \/ \E j \in 1..Len(B) : w[k] = B[j]
         \/ \E j \in 1..Len(C) : w[k] = C[j]
         \/ \E j \in 1..Len(D) : w[k] = D[j]
<1> DEFINE a == Len(A)
           b == Len(B)
           c == Len(C)
           d == Len(D)
<1>1. /\ Len(w) = a + b + c + d
      /\ \A j \in 1..a : w[j] = A[j]
      /\ \A j \in 1..b : w[a + j] = B[j]
      /\ \A j \in 1..c : w[a + b + j] = C[j]
      /\ \A j \in 1..d : w[a + b + c + j] = D[j]
  BY Zenon DEF Row4
<1>2. a \in Nat /\ b \in Nat /\ c \in Nat /\ d \in Nat
  OBVIOUS
<1> HIDE DEF a, b, c, d
<1>3. \/ k \in 1..a
      \/ k - a \in 1..b /\ a + (k - a) = k
      \/ k - a - b \in 1..c /\ a + b + (k - a - b) = k
      \/ k - a - b - c \in 1..d /\ a + b + c + (k - a - b - c) = k
  BY <1>1, <1>2
<1>4. CASE k \in 1..a
  BY <1>1, <1>4, Zenon DEF a
<1>5. CASE k - a \in 1..b /\ a + (k - a) = k
  <2>1. w[a + (k - a)] = B[k - a]
    BY <1>1, <1>5, Zenon
  <2> QED
    BY <1>5, <2>1, Zenon DEF b
<1>6. CASE k - a - b \in 1..c /\ a + b + (k - a - b) = k
  <2>1. w[a + b + (k - a - b)] = C[k - a - b]
    BY <1>1, <1>6, Zenon
  <2> QED
    BY <1>6, <2>1, Zenon DEF c
<1>7. CASE k - a - b - c \in 1..d /\ a + b + c + (k - a - b - c) = k
  <2>1. w[a + b + c + (k - a - b - c)] = D[k - a - b - c]
    BY <1>1, <1>7, Zenon
  <2> QED
    BY <1>7, <2>1, Zenon DEF d
<1> QED
  BY <1>3, <1>4, <1>5, <1>6, <1>7, Zenon

\* A packet of any kind.
Shaped(p) == \E type, count : Shape(p, type, count)

\* The four kinds are rows of packets.
LEMMA KindsAre ==
  ASSUME NEW b, Collected(b)
  PROVE  /\ ReportsOf(b) \in Seq(Seq(Octet)) /\ SdesOf(b) \in Seq(Seq(Octet))
         /\ AppsOf(b) \in Seq(Seq(Octet)) /\ ByesOf(b) \in Seq(Seq(Octet))
         /\ \A k \in 1..Len(ReportsOf(b)) : Shaped(ReportsOf(b)[k])
         /\ \A k \in 1..Len(SdesOf(b)) : Shaped(SdesOf(b)[k])
         /\ \A k \in 1..Len(AppsOf(b)) : Shaped(AppsOf(b)[k])
         /\ \A k \in 1..Len(ByesOf(b)) : Shaped(ByesOf(b)[k])
         /\ Len(ReportsOf(b)) = ReportCount(b) /\ ReportCount(b) \in Nat \ {0}
         /\ Len(SdesOf(b)) = Groups(Len(b.chunks)) /\ Groups(Len(b.chunks)) \in Nat
         /\ Len(AppsOf(b)) = Len(b.apps) /\ Len(b.apps) \in Nat
         /\ Len(ByesOf(b)) = Len(b.byes) /\ Len(b.byes) \in Nat
         /\ IsReport(ReportsOf(b)[1])
<1> DEFINE A == ReportsOf(b)
           B == SdesOf(b)
           C == AppsOf(b)
           D == ByesOf(b)
           P == Seq(Octet)
<1>1. b.blocks \in Seq(Source) /\ b.chunks \in Seq(Chunk) /\ b.sr \in BOOLEAN
  BY DEF Collected
<1>2. ReportCount(b) \in Nat \ {0} /\ Groups(Len(b.chunks)) \in Nat
  <2>1. Enough(Len(b.blocks), ReportCount(b)) /\ ReportCount(b) # 0
    BY <1>1, ReportsEnough
  <2>2. Len(b.chunks) \in Nat
    BY <1>1
  <2> QED
    BY <2>1, <2>2, GroupsAre DEF Enough
<1>3. Len(A) = ReportCount(b) /\ Len(B) = Groups(Len(b.chunks))
  BY <1>2 DEF ReportsOf, SdesOf
<1>4. /\ Len(C) = Len(b.apps) /\ Len(b.apps) \in Nat
      /\ \A k \in 1..Len(b.apps) : Shape(C[k], "APP", b.apps[k].subtype)
  BY AppsLength
<1>5. /\ Len(D) = Len(b.byes) /\ Len(b.byes) \in Nat
      /\ \A k \in 1..Len(b.byes) : Shape(D[k], "BYE", Len(b.byes[k].ssrcs))
  BY ByesLength
<1>6. \A k \in 1..Len(A) : Shape(A[k], IF b.sr /\ k = 1 THEN "SR" ELSE "RR",
                                Len(Group(b.blocks, k)))
  <2> SUFFICES ASSUME NEW k \in 1..ReportCount(b)
               PROVE  Shape(A[k], IF b.sr /\ k = 1 THEN "SR" ELSE "RR",
                            Len(Group(b.blocks, k)))
    BY <1>3
  <2> QED
    BY ReportLens, Zenon
<1>7. \A k \in 1..Len(B) : Shape(B[k], "SDES", Len(Group(b.chunks, k)))
  <2> SUFFICES ASSUME NEW k \in 1..Groups(Len(b.chunks))
               PROVE  Shape(B[k], "SDES", Len(Group(b.chunks, k)))
    BY <1>3
  <2> QED
    BY SdesLens, Zenon
<1>8. /\ \A k \in 1..Len(A) : Shaped(A[k])
      /\ \A k \in 1..Len(B) : Shaped(B[k])
      /\ \A k \in 1..Len(C) : Shaped(C[k])
      /\ \A k \in 1..Len(D) : Shaped(D[k])
  BY <1>4, <1>5, <1>6, <1>7, Zenon DEF Shaped
<1>9. \A p : Shaped(p) => p \in P
  BY DEF Shaped, Shape
<1>10. A = [k \in 1..Len(A) |-> A[k]] /\ B = [k \in 1..Len(B) |-> B[k]]
  BY <1>3, Zenon DEF ReportsOf, SdesOf
<1>11. C = [k \in 1..Len(C) |-> C[k]] /\ D = [k \in 1..Len(D) |-> D[k]]
  <2>1. DOMAIN b.apps = 1..Len(b.apps) /\ DOMAIN b.byes = 1..Len(b.byes)
    BY DEF Collected
  <2> QED
    BY <1>4, <1>5, <2>1, Zenon DEF AppsOf, ByesOf
<1>12. IsReport(A[1])
  <2>1. 1 \in 1..Len(A)
    BY <1>2, <1>3
  <2>2. PICK type \in {"SR", "RR"} : \E count : Shape(A[1], type, count)
    BY <1>6, <2>1
  <2>3. PICK count : Shape(A[1], type, count)
    BY <2>2
  <2> QED
    BY <2>3, ShapeSays DEF IsReport
<1> HIDE DEF A, B, C, D, P
<1>13. \A s : Len(s) \in Nat /\ s = [k \in 1..Len(s) |-> s[k]]
              /\ (\A k \in 1..Len(s) : s[k] \in P) => s \in Seq(P)
  OBVIOUS
<1>14. A \in Seq(P) /\ B \in Seq(P) /\ C \in Seq(P) /\ D \in Seq(P)
  BY <1>2, <1>3, <1>4, <1>5, <1>8, <1>9, <1>10, <1>11, <1>13, Zenon
<1> QED
  BY <1>2, <1>3, <1>4, <1>5, <1>8, <1>12, <1>14, Zenon DEF A, B, C, D, P

\* The size that EndBuild allocates.
Needed(b) == OtherBytes(b) + ReportBytes(b) + SdesBytes(b)

\* The total of four rows.
LEMMA FourTotals ==
  ASSUME NEW A \in Seq(Seq(Octet)), NEW B \in Seq(Seq(Octet)),
         NEW C \in Seq(Seq(Octet)), NEW D \in Seq(Seq(Octet))
  PROVE  Total(Lens(A \o B \o C \o D))
           = Total(Lens(A)) + Total(Lens(B)) + Total(Lens(C)) + Total(Lens(D))
<1> DEFINE u == A \o B
           v == u \o C
           w == v \o D
<1>1. u \in Seq(Seq(Octet)) /\ Total(Lens(u)) = Total(Lens(A)) + Total(Lens(B))
  <2>1. u \in Seq(Seq(Octet))
    OBVIOUS
  <2> QED
    BY <2>1, LensConcat
<1> HIDE DEF u
<1>2. v \in Seq(Seq(Octet)) /\ Total(Lens(v)) = Total(Lens(u)) + Total(Lens(C))
  <2>1. u \in Seq(Seq(Octet)) /\ C \in Seq(Seq(Octet))
    BY <1>1
  <2>2. v \in Seq(Seq(Octet))
    BY ONLY <2>1, TwoRows
  <2>3. Total(Lens(v)) = Total(Lens(u)) + Total(Lens(C))
    BY ONLY <2>1, LensConcat
  <2> QED
    BY <2>2, <2>3
<1> HIDE DEF v
<1>3. Total(Lens(w)) = Total(Lens(v)) + Total(Lens(D))
  <2>1. v \in Seq(Seq(Octet)) /\ D \in Seq(Seq(Octet))
    BY <1>2
  <2> QED
    BY ONLY <2>1, LensConcat
<1>4. w = A \o B \o C \o D
  BY Zenon DEF w, v, u
<1> HIDE DEF w
<1> QED
  BY <1>1, <1>2, <1>3, <1>4, Zenon

\* EndBuild fills the buffer it allocates.
LEMMA BuiltLength ==
  ASSUME NEW b, Collected(b)
  PROVE  /\ BuiltPackets(b) \in Seq(Seq(Octet))
         /\ Row4(ReportsOf(b), SdesOf(b), AppsOf(b), ByesOf(b), BuiltPackets(b))
         /\ BuiltBytes(b) \in Seq(Octet) /\ Len(BuiltBytes(b)) = Needed(b)
         /\ Total(Lens(BuiltPackets(b))) = Needed(b) /\ Needed(b) \in Nat
<1> DEFINE A == ReportsOf(b)
           B == SdesOf(b)
           C == AppsOf(b)
           D == ByesOf(b)
           w == A \o B \o C \o D
           P == Seq(Octet)
<1>1. A \in Seq(P) /\ B \in Seq(P) /\ C \in Seq(P) /\ D \in Seq(P)
  BY KindsAre
<1>2. w = BuiltPackets(b)
  BY Zenon DEF BuiltPackets, ReportsOf, SdesOf, AppsOf, ByesOf
<1>3. Total(Lens(A)) = ReportBytes(b) /\ ReportBytes(b) \in Nat
  BY ReportsLength
<1>4. Total(Lens(B)) = SdesBytes(b) /\ SdesBytes(b) \in Nat
  BY SdesLength
<1>5. OtherBytes(b) = Total(Lens(C)) + Total(Lens(D))
  BY AppsLength, ByesLength, Zenon DEF OtherBytes
<1> HIDE DEF A, B, C, D
<1>6. Total(Lens(w)) = Total(Lens(A)) + Total(Lens(B)) + Total(Lens(C)) + Total(Lens(D))
  BY ONLY <1>1, FourTotals DEF P
<1>7. w \in Seq(P) /\ Row4(A, B, C, D, w)
  BY ONLY <1>1, FourRows
<1>8. Total(Lens(C)) \in Nat /\ Total(Lens(D)) \in Nat
  <2>1. Lens(C) \in Seq(Nat) /\ Lens(D) \in Seq(Nat)
    BY <1>1, LensType
  <2> QED
    BY <2>1, TotalType
<1> HIDE DEF w
<1>9. Total(Lens(w)) = Needed(b) /\ Needed(b) \in Nat
  <2> DEFINE r == Total(Lens(A))
             s == Total(Lens(B))
             c == Total(Lens(C))
             d == Total(Lens(D))
  <2>1. Needed(b) = c + d + r + s
    BY <1>3, <1>4, <1>5 DEF Needed
  <2>2. r \in Nat /\ s \in Nat /\ c \in Nat /\ d \in Nat /\ Total(Lens(w)) = r + s + c + d
    BY <1>3, <1>4, <1>6, <1>8
  <2> HIDE DEF r, s, c, d
  <2> QED
    BY <2>1, <2>2
<1>10. FlattenSeq(w) \in Seq(Octet) /\ Len(FlattenSeq(w)) = Total(Lens(w))
  BY <1>7, FlattenIs, FlattenLength
<1>11. BuiltBytes(b) = FlattenSeq(w)
  BY <1>2 DEF BuiltBytes
<1> QED
  BY <1>2, <1>7, <1>9, <1>10, <1>11, Zenon DEF A, B, C, D, P

\* A packet is no longer than all of them.
LEMMA OneOfThem ==
  ASSUME NEW ls \in Seq(Nat), NEW k \in 1..Len(ls)
  PROVE  ls[k] <= Total(ls)
<1>1. PICK t : Sums(t, ls)
  BY SumsExist
<1>2. /\ t \in [0..Len(ls) -> Nat]
      /\ \A i \in 1..Len(ls) : t[i] = t[i - 1] + ls[i]
  BY <1>1 DEF Sums
<1>3. Total(ls) = t[Len(ls)]
  BY <1>1, TotalIs
<1>4. k \in 0..Len(ls) /\ k - 1 \in 0..Len(ls) /\ Len(ls) \in 0..Len(ls) /\ k <= Len(ls)
      /\ ls[k] \in Nat
  OBVIOUS
<1>5. t[k] <= t[Len(ls)]
  BY <1>1, <1>4, SumsGrow
<1>6. t[k] \in Nat /\ t[k - 1] \in Nat /\ t[Len(ls)] \in Nat /\ t[k] = t[k - 1] + ls[k]
  BY <1>2, <1>4
<1> QED
  BY <1>3, <1>4, <1>5, <1>6

\* What is built is packets in a row.
LEMMA BuiltIsLaid ==
  ASSUME NEW b, Collected(b), Needed(b) <= WordSize * LengthModulus
  PROVE  \E o : PacketsLaid(BuiltPackets(b), o, BuiltBytes(b))
<1> DEFINE w == BuiltPackets(b)
           A == ReportsOf(b)
           B == SdesOf(b)
           C == AppsOf(b)
           D == ByesOf(b)
           M == WordSize * LengthModulus
<1>1. /\ w \in Seq(Seq(Octet)) /\ BuiltBytes(b) \in Seq(Octet)
      /\ Row4(A, B, C, D, w) /\ Total(Lens(w)) = Needed(b) /\ Needed(b) \in Nat
  BY BuiltLength
<1>2. /\ \A k \in 1..Len(A) : Shaped(A[k])
      /\ \A k \in 1..Len(B) : Shaped(B[k])
      /\ \A k \in 1..Len(C) : Shaped(C[k])
      /\ \A k \in 1..Len(D) : Shaped(D[k])
      /\ Len(A) \in Nat \ {0} /\ Len(B) \in Nat /\ Len(C) \in Nat /\ Len(D) \in Nat
      /\ IsReport(A[1])
  BY KindsAre
<1>3. M \in Nat
  BY SMT DEF WordSize, LengthModulus
<1>4. Total(Lens(w)) <= M
  BY <1>1
<1>5. PICK o : Laid(o, w, BuiltBytes(b))
  BY <1>1, FlattenIs DEF BuiltBytes
<1> HIDE DEF A, B, C, D, w, M
<1>6. ASSUME NEW k \in 1..Len(w) PROVE Sound(w[k])
  <2> DEFINE p == w[k]
  <2>1. Shaped(p)
    <3>1. k \in 1..Len(w) /\ Row4(A, B, C, D, w) /\ Len(A) \in Nat
          /\ Len(B) \in Nat /\ Len(C) \in Nat /\ Len(D) \in Nat
      BY <1>1, <1>2
    <3>2. \/ \E j \in 1..Len(A) : w[k] = A[j]
          \/ \E j \in 1..Len(B) : w[k] = B[j]
          \/ \E j \in 1..Len(C) : w[k] = C[j]
          \/ \E j \in 1..Len(D) : w[k] = D[j]
      BY ONLY <3>1, RowPlaces
    <3> QED
      BY ONLY <1>2, <3>2, Zenon DEF p
  <2>2. Len(p) <= M
    <3>1. Lens(w) \in Seq(Nat) /\ k \in 1..Len(Lens(w)) /\ Lens(w)[k] = Len(p)
      BY <1>1, LensType
    <3>2. Lens(w)[k] <= Total(Lens(w))
      BY <3>1, OneOfThem
    <3>3. Len(p) \in Nat
      BY <1>1
    <3> QED
      BY <1>1, <1>3, <1>4, <3>1, <3>2, <3>3
  <2> HIDE DEF p
  <2>3. PICK type, count : Shape(p, type, count)
    BY <2>1 DEF Shaped
  <2>4. /\ ~p[1].v.padding /\ IsHead(p[1])
        /\ Len(p) <= WordSize * LengthModulus => PacketSize(p) = Len(p)
    BY <2>3, ShapeSays
  <2>5. PacketSize(p) = Len(p)
    BY <2>2, <2>4, Zenon DEF M
  <2> QED
    BY <2>3, <2>4, <2>5, Zenon DEF Sound, Shape, p
<1>7. IsReport(w[1]) /\ Len(w) # 0
  <2>1. 1 \in 1..Len(A)
    BY <1>2
  <2>2. w[1] = A[1] /\ Len(w) = Len(A) + Len(B) + Len(C) + Len(D)
    BY <1>1, <2>1 DEF Row4
  <2> QED
    BY <1>2, <2>2
<1>8. PacketsLaid(w, o, BuiltBytes(b))
  BY <1>1, <1>5, <1>6, <1>7, Zenon DEF PacketsLaid
<1> QED
  BY <1>8 DEF w

-----------------------------------------------------------------------------
(* What is read agrees with what was added.                                *)

\* A part of a sequence.
LEMMA PieceOf ==
  ASSUME NEW X, NEW R \in Seq(X), NEW o \in Nat, NEW n \in Nat, o + n <= Len(R)
  PROVE  /\ Part(R, o + 1, n) = [j \in 1..n |-> R[o + j]]
         /\ Len(Part(R, o + 1, n)) = n /\ DOMAIN Part(R, o + 1, n) = 1..n
<1> DEFINE p == Part(R, o + 1, n)
           i == o + 1
           e == o + 1 + n - 1
<1>1. i \in Int /\ e \in Int /\ i >= 1 /\ e <= Len(R) /\ e - i + 1 = n
      /\ IF i <= e THEN e - i + 1 = n ELSE n = 0
  OBVIOUS
<1>2. \A j \in i..e : R[j] \in X
  OBVIOUS
<1>3. p = SubSeq(R, i, e)
  BY Zenon DEF Part
<1> HIDE DEF p, i, e
<1>4. /\ SubSeq(R, i, e) \in Seq(X)
      /\ Len(SubSeq(R, i, e)) = (IF i <= e THEN e - i + 1 ELSE 0)
      /\ \A j \in 1..e - i + 1 : SubSeq(R, i, e)[j] = R[i + j - 1]
  BY <1>1, <1>2, SubSeqProperties
<1>5. Len(p) = n
  BY <1>1, <1>3, <1>4
<1>6. \A j \in 1..n : p[j] = R[o + j]
  <2>1. \A j \in 1..n : j \in 1..e - i + 1 /\ i + j - 1 = o + j
    BY <1>1 DEF i
  <2> QED
    BY <1>3, <1>4, <2>1
<1>7. p = [j \in 1..n |-> R[o + j]] /\ DOMAIN p = 1..n
  <2>1. p \in Seq(X)
    BY <1>3, <1>4
  <2>2. DOMAIN p = 1..n /\ p = [j \in DOMAIN p |-> p[j]]
    BY <1>5, <2>1
  <2> QED
    BY <1>6, <2>2
<1> QED
  BY <1>5, <1>7 DEF p, i

\* What the packets tell.
LEMMA ResultsAre ==
  ASSUME NEW w \in Seq(Seq(Octet))
  PROVE  /\ Len(Results(w)) = Len(w) /\ DOMAIN Results(w) = 1..Len(w) /\ Len(w) \in Nat
         /\ \A k \in 1..Len(w) : Results(w)[k] = ParsePacket(w[k])
         /\ Results(w) \in Seq({ParsePacket(w[k]) : k \in 1..Len(w)})
<1> DEFINE R == Results(w)
           X == {ParsePacket(w[k]) : k \in 1..Len(w)}
<1>1. Len(w) \in Nat
  OBVIOUS
<1>2. R = [k \in 1..Len(w) |-> ParsePacket(w[k])] /\ R \in [1..Len(w) -> X]
  BY DEF Results
<1> DEFINE N == Len(w)
<1> HIDE DEF R, X
<1>3. R \in Seq(X) /\ Len(R) = Len(w) /\ DOMAIN R = 1..Len(w)
  <2>1. N \in Nat /\ R \in [1..N -> X]
    BY <1>1, <1>2
  <2> HIDE DEF N
  <2>2. R \in Seq(X) /\ Len(R) = N /\ DOMAIN R = 1..N
    BY ONLY <2>1
  <2> QED
    BY <2>2 DEF N
<1> QED
  BY <1>1, <1>2, <1>3 DEF R, X

\* They agree with what was added.
LEMMA BuiltAgrees ==
  ASSUME NEW b, Collected(b)
  PROVE  Agrees(Results(BuiltPackets(b)), b)
<1> DEFINE w == BuiltPackets(b)
           R == Results(w)
           X == {ParsePacket(w[k]) : k \in 1..Len(w)}
           A == ReportsOf(b)
           B == SdesOf(b)
           C == AppsOf(b)
           D == ByesOf(b)
           r == ReportCount(b)
           s == Groups(Len(b.chunks))
           a == Len(b.apps)
           y == Len(b.byes)
           reports == Part(R, 1, r)
           sdes == Part(R, r + 1, s)
           apps == Part(R, r + s + 1, a)
           byes == Part(R, r + s + a + 1, y)
<1>1. w \in Seq(Seq(Octet)) /\ Row4(A, B, C, D, w)
  BY BuiltLength
<1>2. /\ Len(A) = r /\ r \in Nat /\ Len(B) = s /\ s \in Nat
      /\ Len(C) = a /\ a \in Nat /\ Len(D) = y /\ y \in Nat
  BY KindsAre
<1>3. /\ Len(R) = Len(w) /\ DOMAIN R = 1..Len(w) /\ Len(w) \in Nat
      /\ \A k \in 1..Len(w) : R[k] = ParsePacket(w[k])
      /\ R \in Seq(X)
  BY <1>1, ResultsAre
<1> HIDE DEF A, B, C, D, R, X
<1>4. Len(w) = r + s + a + y
  BY <1>1, <1>2, Zenon DEF Row4
<1> HIDE DEF w, r, s, a, y
<1>5. \A j \in 1..r : R[j] = ParsePacket(A[j])
  <2> SUFFICES ASSUME NEW j \in 1..r PROVE R[j] = ParsePacket(A[j])
    OBVIOUS
  <2>1. j \in 1..Len(w)
    BY <1>2, <1>4
  <2>2. w[j] = A[j]
    BY <1>1, <1>2 DEF Row4
  <2> QED
    BY <1>3, <2>1, <2>2, Zenon
<1>6. \A j \in 1..s : R[r + j] = ParsePacket(B[j])
  <2> SUFFICES ASSUME NEW j \in 1..s PROVE R[r + j] = ParsePacket(B[j])
    OBVIOUS
  <2>1. r + j \in 1..Len(w)
    BY <1>2, <1>4
  <2>2. w[r + j] = B[j]
    BY <1>1, <1>2 DEF Row4
  <2> QED
    BY <1>3, <2>1, <2>2, Zenon
<1>7. \A j \in 1..a : R[r + s + j] = ParsePacket(C[j])
  <2> SUFFICES ASSUME NEW j \in 1..a PROVE R[r + s + j] = ParsePacket(C[j])
    OBVIOUS
  <2>1. r + s + j \in 1..Len(w)
    BY <1>2, <1>4
  <2>2. w[r + s + j] = C[j]
    BY <1>1, <1>2 DEF Row4
  <2> QED
    BY <1>3, <2>1, <2>2, Zenon
<1>8. \A j \in 1..y : R[r + s + a + j] = ParsePacket(D[j])
  <2> SUFFICES ASSUME NEW j \in 1..y PROVE R[r + s + a + j] = ParsePacket(D[j])
    OBVIOUS
  <2>1. r + s + a + j \in 1..Len(w)
    BY <1>2, <1>4
  <2>2. w[r + s + a + j] = D[j]
    BY <1>1, <1>2 DEF Row4
  <2> QED
    BY <1>3, <2>1, <2>2, Zenon
<1>9. /\ \A j \in 1..r : /\ ParsePacket(A[j]) = [type |-> IF b.sr /\ j = 1 THEN "SR" ELSE "RR",
                              known |-> TRUE, ssrc |-> b.ssrc, blocks |-> Group(b.blocks, j)]
      /\ \A j \in 1..s : ParsePacket(B[j])
              = [type |-> "SDES", known |-> TRUE, chunks |-> Group(b.chunks, j)]
  BY ReportLens, SdesLens, Zenon DEF A, B, r, s
<1>10. /\ \A j \in 1..a : ParsePacket(C[j]) = [type |-> "APP", known |-> TRUE,
              subtype |-> b.apps[j].subtype, ssrc |-> b.apps[j].ssrc,
              length |-> b.apps[j].length]
       /\ \A j \in 1..y : ParsePacket(D[j]) = [type |-> "BYE", known |-> TRUE,
              ssrcs |-> b.byes[j].ssrcs, reason |-> b.byes[j].reason]
  BY AppsLength, ByesLength, Zenon DEF C, D, a, y
<1>11. Len(R) = r + s + a + y
  BY <1>3, <1>4
<1>12. reports = [j \in 1..r |-> R[j]] /\ DOMAIN reports = 1..r
  <2> DEFINE z == 0
  <2>1. z \in Nat /\ r \in Nat /\ z + r <= Len(R) /\ z + 1 = 1 /\ \A j \in 1..r : z + j = j
    BY <1>2, <1>11
  <2> HIDE DEF z
  <2>2. Part(R, z + 1, r) = [j \in 1..r |-> R[z + j]] /\ DOMAIN Part(R, z + 1, r) = 1..r
    <3>1. R \in Seq(X) /\ z \in Nat /\ r \in Nat /\ z + r <= Len(R)
      BY <1>3, <2>1
    <3> QED
      BY ONLY <3>1, PieceOf
  <2> QED
    BY <2>1, <2>2
<1>13. sdes = [j \in 1..s |-> R[r + j]] /\ DOMAIN sdes = 1..s
  <2>1. r + s <= Len(R)
    BY <1>2, <1>11
  <2> QED
    BY <1>2, <1>3, <2>1, PieceOf
<1>14. apps = [j \in 1..a |-> R[r + s + j]]
  <2> DEFINE o == r + s
  <2>1. o \in Nat /\ o + a <= Len(R)
    BY <1>2, <1>11
  <2> HIDE DEF o
  <2>2. Part(R, o + 1, a) = [j \in 1..a |-> R[o + j]]
    BY <1>2, <1>3, <2>1, PieceOf
  <2> QED
    BY <2>2, Zenon DEF o
<1>15. byes = [j \in 1..y |-> R[r + s + a + j]]
  <2> DEFINE o == r + s + a
  <2>1. o \in Nat /\ o + y <= Len(R)
    BY <1>2, <1>11
  <2> HIDE DEF o
  <2>2. Part(R, o + 1, y) = [j \in 1..y |-> R[o + j]]
    BY <1>2, <1>3, <2>1, PieceOf
  <2> QED
    BY <2>2, Zenon DEF o
<1> HIDE DEF reports, sdes, apps, byes
<1>16. \A i \in DOMAIN R : R[i].known
  <2> SUFFICES ASSUME NEW i \in 1..Len(w) PROVE R[i].known
    BY <1>3
  <2>1. \/ \E j \in 1..Len(A) : w[i] = A[j]
        \/ \E j \in 1..Len(B) : w[i] = B[j]
        \/ \E j \in 1..Len(C) : w[i] = C[j]
        \/ \E j \in 1..Len(D) : w[i] = D[j]
    <3>1. i \in 1..Len(w) /\ Row4(A, B, C, D, w) /\ Len(A) \in Nat
          /\ Len(B) \in Nat /\ Len(C) \in Nat /\ Len(D) \in Nat
      BY <1>1, <1>2
    <3> QED
      BY ONLY <3>1, RowPlaces
  <2>2. /\ \A j \in 1..r : ParsePacket(A[j]).known
        /\ \A j \in 1..s : ParsePacket(B[j]).known
        /\ \A j \in 1..a : ParsePacket(C[j]).known
        /\ \A j \in 1..y : ParsePacket(D[j]).known
    <3>1. ASSUME NEW j \in 1..r PROVE ParsePacket(A[j]).known
      <4>1. ParsePacket(A[j]) = [type |-> IF b.sr /\ j = 1 THEN "SR" ELSE "RR",
                   known |-> TRUE, ssrc |-> b.ssrc, blocks |-> Group(b.blocks, j)]
        BY <1>9
      <4> QED
        BY ONLY <4>1
    <3>2. ASSUME NEW j \in 1..s PROVE ParsePacket(B[j]).known
      <4>1. ParsePacket(B[j]) = [type |-> "SDES", known |-> TRUE,
                                 chunks |-> Group(b.chunks, j)]
        BY <1>9
      <4> QED
        BY ONLY <4>1
    <3>3. ASSUME NEW j \in 1..a PROVE ParsePacket(C[j]).known
      <4>1. ParsePacket(C[j]) = [type |-> "APP", known |-> TRUE,
              subtype |-> b.apps[j].subtype, ssrc |-> b.apps[j].ssrc,
              length |-> b.apps[j].length]
        BY <1>10
      <4> QED
        BY ONLY <4>1
    <3>4. ASSUME NEW j \in 1..y PROVE ParsePacket(D[j]).known
      <4>1. ParsePacket(D[j]) = [type |-> "BYE", known |-> TRUE,
              ssrcs |-> b.byes[j].ssrcs, reason |-> b.byes[j].reason]
        BY <1>10
      <4> QED
        BY ONLY <4>1
    <3> QED
      BY <3>1, <3>2, <3>3, <3>4
  <2>3. ParsePacket(w[i]).known
    BY <1>2, <2>1, <2>2, Zenon
  <2> QED
    BY <1>3, <2>3, Zenon
<1>17. \A i \in DOMAIN reports : /\ reports[i].type = IF b.sr /\ i = 1 THEN "SR" ELSE "RR"
                                 /\ reports[i].ssrc = b.ssrc
                                 /\ reports[i]["blocks"] = Group(b.blocks, i)
  <2>1. \A i \in 1..r : reports[i] = [type |-> IF b.sr /\ i = 1 THEN "SR" ELSE "RR",
                          known |-> TRUE, ssrc |-> b.ssrc, blocks |-> Group(b.blocks, i)]
    BY <1>5, <1>9, <1>12
  <2> SUFFICES ASSUME NEW i \in 1..r
               PROVE  /\ reports[i].type = IF b.sr /\ i = 1 THEN "SR" ELSE "RR"
                      /\ reports[i].ssrc = b.ssrc
                      /\ reports[i]["blocks"] = Group(b.blocks, i)
    BY <1>12
  <2>2. reports[i] = [type |-> IF b.sr /\ i = 1 THEN "SR" ELSE "RR",
                      known |-> TRUE, ssrc |-> b.ssrc, blocks |-> Group(b.blocks, i)]
    BY <2>1
  <2> QED
    BY ONLY <2>2
<1>18. \A i \in DOMAIN sdes : /\ sdes[i].type = "SDES"
                              /\ sdes[i]["chunks"] = Group(b.chunks, i)
  <2>1. \A i \in 1..s : sdes[i] = [type |-> "SDES", known |-> TRUE,
                                   chunks |-> Group(b.chunks, i)]
    BY <1>6, <1>9, <1>13
  <2> SUFFICES ASSUME NEW i \in 1..s
               PROVE  sdes[i].type = "SDES" /\ sdes[i]["chunks"] = Group(b.chunks, i)
    BY <1>13
  <2>2. sdes[i] = [type |-> "SDES", known |-> TRUE, chunks |-> Group(b.chunks, i)]
    BY <2>1
  <2> QED
    BY ONLY <2>2
<1>19. Said(reports, "blocks") = b.blocks
  <2>1. b.blocks \in Seq(Source)
    BY DEF Collected
  <2>2. Enough(Len(b.blocks), r)
    BY <2>1, ReportsEnough DEF r
  <2>3. [i \in DOMAIN reports |-> reports[i]["blocks"]] = AllGroups(b.blocks, r)
    <3>1. [i \in DOMAIN reports |-> reports[i]["blocks"]]
            = [i \in DOMAIN reports |-> Group(b.blocks, i)]
      BY <1>17
    <3> QED
      BY <1>12, <3>1 DEF AllGroups
  <2>4. FlattenSeq(AllGroups(b.blocks, r)) = b.blocks
    BY <2>1, <2>2, FlattenGroups
  <2> QED
    BY <2>3, <2>4, Zenon DEF Said
<1>20. Said(sdes, "chunks") = b.chunks
  <2>1. b.chunks \in Seq(Chunk) /\ Len(b.chunks) \in Nat
    BY DEF Collected
  <2>2. Enough(Len(b.chunks), s)
    BY <2>1, GroupsEnough DEF s
  <2>3. [i \in DOMAIN sdes |-> sdes[i]["chunks"]] = AllGroups(b.chunks, s)
    <3>1. [i \in DOMAIN sdes |-> sdes[i]["chunks"]]
            = [i \in DOMAIN sdes |-> Group(b.chunks, i)]
      BY <1>18
    <3> QED
      BY <1>13, <3>1 DEF AllGroups
  <2>4. FlattenSeq(AllGroups(b.chunks, s)) = b.chunks
    BY <2>1, <2>2, FlattenGroups
  <2> QED
    BY <2>3, <2>4, Zenon DEF Said
<1>21. DOMAIN b.apps = 1..a /\ DOMAIN b.byes = 1..y
  BY DEF Collected, a, y
<1>22. apps = [i \in DOMAIN b.apps |-> [type |-> "APP", known |-> TRUE,
                  subtype |-> b.apps[i].subtype, ssrc |-> b.apps[i].ssrc,
                  length |-> b.apps[i].length]]
  BY <1>7, <1>10, <1>14, <1>21
<1>23. byes = [i \in DOMAIN b.byes |-> [type |-> "BYE", known |-> TRUE,
                  ssrcs |-> b.byes[i].ssrcs, reason |-> b.byes[i].reason]]
  BY <1>8, <1>10, <1>15, <1>21
<1>24. Agrees(R, b)
  BY <1>11, <1>16, <1>17, <1>18, <1>19, <1>20, <1>22, <1>23, Zenon
     DEF Agrees, reports, sdes, apps, byes, r, s, a, y
<1> QED
  BY <1>24 DEF R, w

-----------------------------------------------------------------------------
(* The sizes that are compared with the maximum.                           *)

\* One element makes one group.
LEMMA OneGroup == Groups(1) = 1
<1> DEFINE one == 1
           G == Groups(one)
<1>1. one \in Nat /\ one # 0 /\ one = 1
  OBVIOUS
<1> HIDE DEF one
<1>2. G \in Nat /\ G # 0 /\ (G - 1) * MaxCount < one
  BY <1>1, GroupsAre
<1>3. MaxCount \in Nat \ {0}
  BY CountAssumption
<1> HIDE DEF G
<1>4. G - 1 = 0
  <2>1. SUFFICES ASSUME G - 1 # 0 PROVE FALSE
    OBVIOUS
  <2>2. G - 1 \in Nat /\ G - 1 >= 1
    BY <1>2, <2>1
  <2>3. (G - 1) * MaxCount >= MaxCount
    BY <1>3, <2>2, SMT
  <2>4. (G - 1) * MaxCount \in Nat
    BY <1>3, <2>2
  <2> QED
    BY <1>1, <1>2, <1>3, <2>3, <2>4
<1>5. G = 1
  BY <1>2, <1>4
<1> QED
  BY <1>1, <1>5 DEF G

\* An element of a sequence.
LEMMA ElementIs ==
  ASSUME NEW X, NEW s \in Seq(X)
  PROVE  \A k \in 1..Len(s) : s[k] \in X
  OBVIOUS

\* The total of one number is that number.
LEMMA TotalOne ==
  ASSUME NEW s \in Seq(Nat), Len(s) = 1
  PROVE  Total(s) = s[1]
<1> DEFINE e == <<>>
<1>1. e \in Seq(Nat) /\ Len(e) = 0 /\ \A k \in 1..Len(e) : s[k] = e[k]
  OBVIOUS
<1>2. Total(e) = 0
  BY TotalEmpty
<1> HIDE DEF e
<1>3. Len(s) = Len(e) + 1
  BY <1>1
<1>4. Total(s) = Total(e) + s[Len(s)]
  BY <1>1, <1>3, TotalOneMore
<1>5. s[1] \in Nat
  <2>1. 1 \in 1..Len(s)
    OBVIOUS
  <2>2. \A k \in 1..Len(s) : s[k] \in Nat
    BY ElementIs, Zenon
  <2> QED
    BY ONLY <2>1, <2>2, Zenon
<1> QED
  BY <1>2, <1>4, <1>5

\* The size of chunks is a number.
LEMMA ChunksSize ==
  ASSUME NEW s \in Seq(Chunk)
  PROVE  /\ ChunksBytes(s) = Total(ChunkLens(s)) + Groups(Len(s)) * 4
         /\ Total(ChunkLens(s)) \in Nat /\ Groups(Len(s)) \in Nat /\ ChunksBytes(s) \in Nat
<1>1. ChunkLens(s) \in Seq(Nat) /\ Len(s) \in Nat
  BY ChunksDataIs
<1>2. Total(ChunkLens(s)) \in Nat /\ Groups(Len(s)) \in Nat
  BY <1>1, TotalType, GroupsAre
<1>3. ChunksBytes(s) = Total(ChunkLens(s)) + Groups(Len(s)) * 4
  BY Zenon DEF ChunksBytes, ChunkLens, HeaderSize
<1> QED
  BY <1>2, <1>3

\* A chunk without items has 8 bytes.
LEMMA BareChunk == ChunkBytes(<<>>) = 8
<1> DEFINE e == <<>>
<1>1. [k \in DOMAIN e |-> ItemBytes(e[k])] = <<>>
  OBVIOUS
<1>2. ChunkBytes(e) = WordSize + RoundUp(Total(<<>>) + 1)
  BY <1>1 DEF ChunkBytes
<1>3. RoundUp(0 + 1) = 4
  BY DEF RoundUp
<1> QED
  BY <1>2, <1>3, TotalEmpty DEF WordSize

\* An SDES packet with one chunk without items has 12 bytes.
LEMMA BareSize ==
  ASSUME NEW s \in Seq(Chunk), Len(s) = 1, s[1].items = <<>>
  PROVE  ChunksBytes(s) = 12
<1>1. /\ ChunkLens(s) \in Seq(Nat) /\ Len(ChunkLens(s)) = 1
      /\ ChunkLens(s)[1] = ChunkBytes(s[1].items)
  BY ChunksDataIs
<1>2. ChunkBytes(<<>>) = 8
  BY BareChunk
<1>3. Total(ChunkLens(s)) = 8
  BY <1>1, <1>2, TotalOne
<1>4. Groups(Len(s)) = 1
  BY OneGroup
<1>5. ChunksBytes(s) = Total(ChunkLens(s)) + Groups(Len(s)) * 4
  BY ChunksSize
<1> QED
  BY <1>3, <1>4, <1>5

\* What a builder may hold.
CompoundType ==
    [building : BOOLEAN, max : 0..DatagramSize, ssrc : Source \cup {NoSsrc},
     sr : BOOLEAN, blocks : Seq(Source), chunks : Seq(Chunk), apps : Seq(App),
     byes : Seq(Bye), buffer : Seq(Octet), length : Nat]

\* The fields of a builder.
LEMMA CompoundFields ==
  ASSUME NEW b \in CompoundType
  PROVE  /\ b.building \in BOOLEAN /\ b.max \in 0..DatagramSize
         /\ b.ssrc \in Source \cup {NoSsrc} /\ b.sr \in BOOLEAN
         /\ b.blocks \in Seq(Source) /\ b.chunks \in Seq(Chunk)
         /\ b.apps \in Seq(App) /\ b.byes \in Seq(Bye)
         /\ b.buffer \in Seq(Octet) /\ b.length \in Nat
  BY DEF CompoundType

\* The numbers that are compared.
LEMMA CollectedSizes ==
  ASSUME NEW b \in CompoundType
  PROVE  /\ OtherBytes(b) \in Nat /\ SdesBytes(b) \in Nat /\ ReportBytes(b) \in Nat
         /\ b.max \in Nat
         /\ b.chunks = <<>> => SdesBytes(b) = 0
         /\ b.chunks # <<>> => SdesBytes(b) = ChunksBytes(b.chunks)
         /\ ~HasReport(b) => ReportBytes(b) = 0
         /\ HasReport(b) /\ b.blocks = <<>> =>
               ReportBytes(b) = 8 + (IF b.sr THEN 20 ELSE 0)
         /\ HasReport(b) /\ b.blocks # <<>> =>
               ReportBytes(b) = BlocksBytes(b, Len(b.blocks))
<1>1. /\ b.max \in 0..DatagramSize /\ b.sr \in BOOLEAN
      /\ b.blocks \in Seq(Source) /\ b.chunks \in Seq(Chunk)
      /\ b.apps \in Seq(App) /\ b.byes \in Seq(Bye)
  BY CompoundFields
<1>2. b.max \in Nat
  BY <1>1
<1>3. OtherBytes(b) \in Nat
  <2> DEFINE a == [k \in DOMAIN b.apps |-> AppBytes(b.apps[k])]
             y == [k \in DOMAIN b.byes |-> ByeBytes(b.byes[k])]
  <2>1. a \in Seq(Nat)
    <3>1. \A k \in 1..Len(b.apps) : AppBytes(b.apps[k]) \in Nat
      <4> SUFFICES ASSUME NEW k \in 1..Len(b.apps) PROVE AppBytes(b.apps[k]) \in Nat
        OBVIOUS
      <4> DEFINE x == b.apps[k]
      <4>1. x \in App
        BY <1>1
      <4> HIDE DEF x
      <4>2. x.length \in Nat
        BY <4>1, AppIs
      <4>3. AppBytes(x) \in Nat
        BY <4>2 DEF AppBytes, HeaderSize, WordSize
      <4> QED
        BY <4>3 DEF x
    <3>2. DOMAIN b.apps = 1..Len(b.apps) /\ Len(b.apps) \in Nat
      BY <1>1
    <3> QED
      BY <3>1, <3>2
  <2>2. y \in Seq(Nat)
    <3>1. \A k \in 1..Len(b.byes) : ByeBytes(b.byes[k]) \in Nat
      <4> SUFFICES ASSUME NEW k \in 1..Len(b.byes) PROVE ByeBytes(b.byes[k]) \in Nat
        OBVIOUS
      <4> DEFINE x == b.byes[k]
      <4>1. x \in Bye
        BY <1>1
      <4> HIDE DEF x
      <4>2. x.ssrcs \in Seq(Source) /\ x.reason \in Nat
        BY <4>1, ByeIs
      <4>3. ByeBytes(x) \in Nat
        BY <4>2, ByeSize
      <4> QED
        BY <4>3 DEF x
    <3>2. DOMAIN b.byes = 1..Len(b.byes) /\ Len(b.byes) \in Nat
      BY <1>1
    <3> QED
      BY <3>1, <3>2
  <2>3. OtherBytes(b) = Total(a) + Total(y)
    BY DEF OtherBytes
  <2> HIDE DEF a, y
  <2>4. Total(a) \in Nat /\ Total(y) \in Nat
    BY <2>1, <2>2, TotalType
  <2> QED
    BY <2>3, <2>4
<1>4. /\ b.chunks = <<>> => SdesBytes(b) = 0
      /\ b.chunks # <<>> => SdesBytes(b) = ChunksBytes(b.chunks)
  BY DEF SdesBytes
<1>5. SdesBytes(b) \in Nat
  BY <1>1, <1>4, ChunksSize
<1>6. /\ ~HasReport(b) => ReportBytes(b) = 0
      /\ HasReport(b) /\ b.blocks = <<>> =>
            ReportBytes(b) = 8 + (IF b.sr THEN 20 ELSE 0)
      /\ HasReport(b) /\ b.blocks # <<>> =>
            ReportBytes(b) = BlocksBytes(b, Len(b.blocks))
  BY DEF ReportBytes, HeaderSize, WordSize, SenderInfoSize
<1>7. BlocksBytes(b, Len(b.blocks)) \in Nat
  <2> DEFINE n == Len(b.blocks)
             g == Groups(n)
  <2>1. n \in Nat /\ g \in Nat
    <3>1. n \in Nat
      BY <1>1
    <3> HIDE DEF n
    <3> QED
      BY <3>1, GroupsAre
  <2>2. BlocksBytes(b, n) = n * 24 + g * 8 + (IF b.sr THEN 20 ELSE 0)
    BY DEF BlocksBytes, BlockSize, HeaderSize, WordSize, SenderInfoSize
  <2> HIDE DEF n, g
  <2>3. BlocksBytes(b, n) \in Nat
    BY <2>1, <2>2
  <2> QED
    BY <2>3 DEF n
<1>8. ReportBytes(b) \in Nat
  BY <1>6, <1>7
<1> QED
  BY <1>2, <1>3, <1>4, <1>5, <1>6, <1>8

-----------------------------------------------------------------------------
(* What holds between the calls of the builder.                            *)

\* The maximum is kept, but for a source without items.
Fits(b) ==
    \/ Needed(b) <= b.max
    \/ /\ Len(b.chunks) = 1 /\ b.chunks[1].items = <<>>
       /\ \/ Needed(b) - 12 <= b.max
          \/ b.blocks = <<>> /\ OtherBytes(b) <= b.max

\* What holds between the calls of the builder: inductive.
CompoundHolds(b) ==
    /\ b \in CompoundType
    /\ \A k \in 1..Len(b.apps) : b.apps[k].length % 4 = 0
    /\ ~HasReport(b) => b.blocks = <<>>
    /\ b.building => b.buffer = NoBuffer
    /\ Built(b) => HasReport(b) /\ b.buffer = BuiltBytes(b) /\ b.length = Needed(b)
    /\ b.building \/ Built(b) => Fits(b)

\* A builder that goes on.
LEMMA StillBuilding ==
  ASSUME NEW b \in CompoundType, b.building, b.buffer = NoBuffer,
         \A k \in 1..Len(b.apps) : b.apps[k].length % 4 = 0,
         ~HasReport(b) => b.blocks = <<>>, Fits(b)
  PROVE  CompoundHolds(b)
  BY Zenon DEF CompoundHolds, Built

\* What is known of a builder that is building.
LEMMA IsBuilding ==
  ASSUME NEW b, CompoundHolds(b), b.building
  PROVE  /\ b \in CompoundType /\ b.buffer = NoBuffer /\ Fits(b)
         /\ \A k \in 1..Len(b.apps) : b.apps[k].length % 4 = 0
         /\ ~HasReport(b) => b.blocks = <<>>
  BY Zenon DEF CompoundHolds

\* The sizes depend on what is collected.
LEMMA SameSizes ==
  ASSUME NEW b, NEW c
  PROVE  /\ b.apps = c.apps /\ b.byes = c.byes => OtherBytes(c) = OtherBytes(b)
         /\ b.chunks = c.chunks => SdesBytes(c) = SdesBytes(b)
         /\ b.ssrc = c.ssrc => (HasReport(c) <=> HasReport(b))
         /\ b.ssrc = c.ssrc /\ b.sr = c.sr /\ b.blocks = c.blocks
               => ReportBytes(c) = ReportBytes(b)
<1>1. b.apps = c.apps /\ b.byes = c.byes => OtherBytes(c) = OtherBytes(b)
  BY Zenon DEF OtherBytes
<1>2. b.chunks = c.chunks => SdesBytes(c) = SdesBytes(b)
  BY Zenon DEF SdesBytes
<1>3. b.ssrc = c.ssrc => (HasReport(c) <=> HasReport(b))
  BY Zenon DEF HasReport
<1>4. b.ssrc = c.ssrc /\ b.sr = c.sr /\ b.blocks = c.blocks
         => ReportBytes(c) = ReportBytes(b)
  BY Zenon DEF ReportBytes, HasReport, BlocksBytes
<1> QED
  BY <1>1, <1>2, <1>3, <1>4, Zenon

\* No packets are built with an empty builder.
LEMMA EmptyHolds == CompoundHolds(Empty)
<1>1. DatagramSize \in Nat
  BY SMT DEF DatagramSize
<1>2. Empty \in CompoundType
  BY <1>1 DEF Empty, CompoundType, NoBuffer
<1>3. ~Empty.building /\ Empty.buffer = NoBuffer /\ Empty.blocks = <<>> /\ Empty.apps = <<>>
  BY DEF Empty
<1> QED
  BY <1>2, <1>3 DEF CompoundHolds, Built

\* A build begins.
LEMMA InitHolds ==
  ASSUME NEW b, CompoundHolds(b), NEW max \in Maximum, CanInit(b, max)
  PROVE  CompoundHolds(Inited(max))
<1> DEFINE c == Inited(max)
<1>1. max \in 0..DatagramSize
  BY CallAssumption
<1>2. /\ c \in CompoundType /\ c.building /\ c.buffer = NoBuffer /\ c.max = max
      /\ c.blocks = <<>> /\ c.apps = <<>> /\ c.byes = <<>> /\ c.chunks = <<>>
      /\ c.ssrc = NoSsrc
  <2>1. DatagramSize \in Nat
    BY SMT DEF DatagramSize
  <2>2. Empty \in CompoundType
    BY <2>1 DEF Empty, CompoundType, NoBuffer
  <2>3. /\ Empty.buffer = NoBuffer /\ Empty.blocks = <<>> /\ Empty.apps = <<>>
        /\ Empty.byes = <<>> /\ Empty.chunks = <<>> /\ Empty.ssrc = NoSsrc
    BY DEF Empty
  <2>4. /\ c \in CompoundType /\ c.building /\ c.max = max
        /\ c.buffer = Empty.buffer /\ c.blocks = Empty.blocks /\ c.apps = Empty.apps
        /\ c.byes = Empty.byes /\ c.chunks = Empty.chunks /\ c.ssrc = Empty.ssrc
    BY <1>1, <2>2 DEF Inited, CompoundType
  <2> QED
    BY <2>3, <2>4, Zenon
<1> HIDE DEF c
<1>3. SdesBytes(c) = 0 /\ ReportBytes(c) = 0
  BY <1>2 DEF SdesBytes, ReportBytes, HasReport
<1>4. OtherBytes(c) = 0
  <2> DEFINE e == <<>>
  <2>1. [k \in DOMAIN e |-> AppBytes(e[k])] = <<>> /\ [k \in DOMAIN e |-> ByeBytes(e[k])] = <<>>
    OBVIOUS
  <2>2. OtherBytes(c) = Total(<<>>) + Total(<<>>)
    BY <1>2, <2>1, Zenon DEF OtherBytes
  <2> QED
    BY <2>2, TotalEmpty
<1>5. Fits(c)
  <2>1. max \in Nat
    BY <1>1
  <2> QED
    BY <1>2, <1>3, <1>4, <2>1 DEF Fits, Needed
<1>6. \A k \in 1..Len(c.apps) : c.apps[k].length % 4 = 0
  BY <1>2
<1> QED
  BY <1>2, <1>5, <1>6, StillBuilding DEF c

\* A report is started.
LEMMA ReportHolds ==
  ASSUME NEW b, CompoundHolds(b), NEW s \in Source, NEW sr \in BOOLEAN, CanStartReport(b, sr)
  PROVE  CompoundHolds(WithReport(b, s, sr))
<1> DEFINE c == WithReport(b, s, sr)
           O == OtherBytes(b)
           S == SdesBytes(b)
           needed == 8 + (IF sr THEN 20 ELSE 0)
<1>1. /\ b.building /\ ~HasReport(b)
      /\ LET left == b.max - (O + S)
         IN  left < 0 \/ needed <= left
  BY DEF CanStartReport, HeaderSize, WordSize, SenderInfoSize
<1>2. /\ b \in CompoundType /\ b.buffer = NoBuffer /\ Fits(b) /\ b.blocks = <<>>
      /\ \A k \in 1..Len(b.apps) : b.apps[k].length % 4 = 0
  BY <1>1, IsBuilding
<1>3. /\ c \in CompoundType /\ c.building = b.building /\ c.buffer = b.buffer
      /\ c.max = b.max /\ c.ssrc = s /\ c.sr = sr /\ c.blocks = b.blocks
      /\ c.chunks = b.chunks /\ c.apps = b.apps /\ c.byes = b.byes
  BY <1>2 DEF WithReport, CompoundType
<1> HIDE DEF c
<1>4. OtherBytes(c) = O /\ SdesBytes(c) = S
  BY <1>3, SameSizes
<1>5. HasReport(c)
  BY <1>3, CallAssumption, Zenon DEF HasReport
<1>6. ReportBytes(c) = needed
  BY <1>2, <1>3, <1>5, CollectedSizes
<1>7. /\ O \in Nat /\ S \in Nat /\ ReportBytes(b) = 0 /\ b.max \in Nat
      /\ b.chunks # <<>> => S = ChunksBytes(b.chunks)
  BY <1>1, <1>2, CollectedSizes
<1>8. Needed(b) = O + S /\ Needed(c) = O + needed + S
  <2>1. /\ Needed(b) = O + ReportBytes(b) + S
        /\ Needed(c) = OtherBytes(c) + ReportBytes(c) + SdesBytes(c)
    BY DEF Needed
  <2>2. Needed(c) = O + needed + S
    BY <1>4, <1>6, <2>1, Zenon
  <2> HIDE DEF O, S
  <2>3. Needed(b) = O + S
    BY <1>7, <2>1
  <2> QED
    BY <2>2, <2>3
<1>9. needed \in Nat
  OBVIOUS
<1>10. Fits(c)
  <2> DEFINE m == b.max
             x == Needed(b)
             z == Needed(c)
             bare == Len(b.chunks) = 1 /\ b.chunks[1].items = <<>>
  <2>1. bare => S = 12
    <3> SUFFICES ASSUME bare PROVE S = 12
      OBVIOUS
    <3>1. b.chunks \in Seq(Chunk) /\ b.chunks # <<>>
      BY <1>2, CompoundFields
    <3> QED
      BY <1>7, <3>1, BareSize
  <2>2. x <= m \/ (bare /\ (x - 12 <= m \/ O <= m))
    BY <1>2 DEF Fits
  <2>3. z <= m \/ (bare /\ (z - 12 <= m \/ O <= m)) => Fits(c)
    BY <1>2, <1>3, <1>4 DEF Fits
  <2> HIDE DEF O, S, m, needed, bare
  <2>8. x = O + S /\ z = O + needed + S
    BY <1>8
  <2> HIDE DEF x, z
  <2>4. m - (O + S) < 0 \/ needed <= m - (O + S)
    BY <1>1 DEF m
  <2>5. O \in Nat /\ S \in Nat /\ m \in Nat /\ needed \in Nat
    BY <1>7, <1>9 DEF m
  <2>6. CASE needed <= m - (O + S)
    BY <2>3, <2>5, <2>6, <2>8
  <2>7. CASE m - (O + S) < 0
    <3>1. bare /\ S = 12
      BY <2>1, <2>2, <2>5, <2>7, <2>8
    <3>2. O <= m
      BY <2>2, <2>5, <2>7, <2>8, <3>1
    <3> QED
      BY <2>3, <3>1, <3>2, Zenon
  <2> QED
    BY <2>4, <2>6, <2>7
<1>11. \A k \in 1..Len(c.apps) : c.apps[k].length % 4 = 0
  BY <1>2, <1>3
<1> QED
  BY <1>1, <1>2, <1>3, <1>5, <1>10, <1>11, StillBuilding DEF c

\* A report block is added.
LEMMA BlockHolds ==
  ASSUME NEW b, CompoundHolds(b), NEW s \in Source, CanAddBlock(b)
  PROVE  CompoundHolds(WithBlock(b, s))
<1> DEFINE c == WithBlock(b, s)
           O == OtherBytes(b)
           S == SdesBytes(b)
           B == BlocksBytes(b, Len(b.blocks) + 1)
<1>1. b.building /\ HasReport(b) /\ O + S + B <= b.max
  BY DEF CanAddBlock
<1>2. /\ b \in CompoundType /\ b.buffer = NoBuffer
      /\ \A k \in 1..Len(b.apps) : b.apps[k].length % 4 = 0
  BY <1>1, IsBuilding
<1>3. b.blocks \in Seq(Source)
  BY <1>2, CompoundFields
<1>4. /\ c \in CompoundType /\ c.building = b.building /\ c.buffer = b.buffer
      /\ c.max = b.max /\ c.ssrc = b.ssrc /\ c.sr = b.sr /\ c.blocks = Append(b.blocks, s)
      /\ c.chunks = b.chunks /\ c.apps = b.apps /\ c.byes = b.byes
  <2>1. Append(b.blocks, s) \in Seq(Source)
    BY <1>3
  <2>2. c = [b EXCEPT !.blocks = Append(b.blocks, s)]
    BY DEF WithBlock
  <2> HIDE DEF c
  <2> QED
    BY <1>2, <2>1, <2>2 DEF CompoundType
<1> HIDE DEF c
<1>5. OtherBytes(c) = O /\ SdesBytes(c) = S /\ HasReport(c)
  BY <1>1, <1>4, SameSizes
<1>6. Len(c.blocks) = Len(b.blocks) + 1 /\ c.blocks # <<>>
  BY <1>3, <1>4
<1>7. ReportBytes(c) = B
  <2>1. ReportBytes(c) = BlocksBytes(c, Len(c.blocks))
    BY <1>4, <1>5, <1>6, CollectedSizes
  <2>2. BlocksBytes(c, Len(c.blocks)) = BlocksBytes(b, Len(c.blocks))
    BY <1>4, Zenon DEF BlocksBytes
  <2> QED
    BY <1>6, <2>1, <2>2, Zenon
<1>8. Fits(c)
  <2>1. O \in Nat /\ S \in Nat /\ B \in Nat /\ b.max \in Nat
    BY <1>2, <1>4, <1>5, <1>7, CollectedSizes
  <2>2. Needed(c) = O + B + S
    BY <1>5, <1>7, Zenon DEF Needed
  <2> HIDE DEF O, S, B
  <2>3. Needed(c) <= c.max
    BY <1>1, <1>4, <2>1, <2>2
  <2> QED
    BY <2>3 DEF Fits
<1>9. \A k \in 1..Len(c.apps) : c.apps[k].length % 4 = 0
  BY <1>2, <1>4
<1> QED
  BY <1>1, <1>2, <1>4, <1>5, <1>8, <1>9, StillBuilding DEF c

\* A source is added.
LEMMA SourceHolds ==
  ASSUME NEW b, CompoundHolds(b), NEW s \in Source, CanAddSource(b)
  PROVE  CompoundHolds(WithSource(b, s))
<1> DEFINE c == WithSource(b, s)
           O == OtherBytes(b)
           R == ReportBytes(b)
           e == [ssrc |-> s, items |-> <<>>]
           l == b.chunks
           m == c.chunks
<1>1. b.building /\ O + R + SdesBytesWithSource(b) <= b.max
  BY DEF CanAddSource
<1>2. /\ b \in CompoundType /\ b.buffer = NoBuffer
      /\ \A k \in 1..Len(b.apps) : b.apps[k].length % 4 = 0
      /\ ~HasReport(b) => b.blocks = <<>>
  BY <1>1, IsBuilding
<1>3. l \in Seq(Chunk) /\ e \in Chunk /\ e.items = <<>>
  <2>1. <<>> \in Seq(Item)
    OBVIOUS
  <2>2. e \in Chunk /\ e.items = <<>>
    BY <2>1 DEF Chunk
  <2> QED
    BY <1>2, <2>2, CompoundFields
<1>4. /\ c \in CompoundType /\ c.building = b.building /\ c.buffer = b.buffer
      /\ c.max = b.max /\ c.ssrc = b.ssrc /\ c.sr = b.sr /\ c.blocks = b.blocks
      /\ c.chunks = Append(l, e) /\ c.apps = b.apps /\ c.byes = b.byes
  <2>1. Append(l, e) \in Seq(Chunk)
    BY <1>3
  <2>2. c = [b EXCEPT !.chunks = Append(l, e)]
    BY DEF WithSource
  <2> HIDE DEF c, e
  <2> QED
    BY <1>2, <2>1, <2>2 DEF CompoundType
<1> HIDE DEF c, e
<1>5. OtherBytes(c) = O /\ ReportBytes(c) = R /\ (HasReport(c) <=> HasReport(b))
  BY <1>4, SameSizes
<1>6. O \in Nat /\ R \in Nat /\ b.max \in Nat
  BY <1>2, CollectedSizes
<1>7. /\ m = Append(l, e) /\ m \in Seq(Chunk) /\ Len(m) = Len(l) + 1 /\ Len(l) \in Nat
      /\ m # <<>> /\ m[Len(m)] = e /\ \A k \in 1..Len(l) : m[k] = l[k]
  <2>1. m = Append(l, e)
    BY <1>4
  <2> HIDE DEF m, l
  <2> QED
    BY <1>3, <2>1
<1>8. SdesBytes(c) = ChunksBytes(m)
  BY <1>4, <1>7, CollectedSizes
<1>9. Needed(c) = O + R + ChunksBytes(m)
  BY <1>5, <1>8, Zenon DEF Needed
<1> HIDE DEF O, R, l, m
<1>10. ChunksBytes(m) \in Nat
  BY <1>7, ChunksSize
<1>11. ASSUME l = <<>> PROVE Fits(c)
  <2>1. Len(m) = 1 /\ m[1].items = <<>>
    BY <1>3, <1>7, <1>11
  <2>2. ChunksBytes(m) = 12
    BY <1>7, <2>1, BareSize
  <2>3. SdesBytesWithSource(b) = 0
    BY <1>11, Zenon DEF SdesBytesWithSource, l
  <2>4. O + R <= b.max
    BY <1>1, <1>6, <2>3
  <2>5. Needed(c) - 12 <= c.max
    BY <1>4, <1>6, <1>9, <2>2, <2>4
  <2> QED
    BY <2>1, <2>5, Zenon DEF Fits, m
<1>12. ASSUME l # <<>> PROVE Fits(c)
  <2> DEFINE g == Groups(Len(l))
             h == Groups(Len(l) + 1)
             L == ChunkLens(l)
             M == ChunkLens(m)
             W == SdesBytesWithSource(b)
  <2>1. W = ChunksBytes(l) + 8 + (h - g) * 4
    <3>1. W = ChunksBytes(l) + 2 * WordSize + (h - g) * HeaderSize
      BY <1>12, Zenon DEF SdesBytesWithSource, l
    <3>2. 2 * WordSize = 8 /\ HeaderSize = 4
      BY DEF WordSize, HeaderSize
    <3> QED
      BY <3>1, <3>2, Zenon
  <2>2. /\ L \in Seq(Nat) /\ Len(L) = Len(l)
        /\ \A k \in 1..Len(l) : L[k] = ChunkBytes(l[k].items)
    BY <1>3, ChunksDataIs
  <2>3. /\ M \in Seq(Nat) /\ Len(M) = Len(m)
        /\ \A k \in 1..Len(m) : M[k] = ChunkBytes(m[k].items)
    BY <1>7, ChunksDataIs
  <2>4. ChunksBytes(l) = Total(L) + g * 4 /\ Total(L) \in Nat /\ g \in Nat
    BY <1>3, ChunksSize
  <2>5. ChunksBytes(m) = Total(M) + h * 4 /\ h \in Nat
    BY <1>7, ChunksSize
  <2> HIDE DEF L, M, g, h, W
  <2>6. \A k \in 1..Len(L) : M[k] = L[k]
    <3> SUFFICES ASSUME NEW k \in 1..Len(l) PROVE M[k] = L[k]
      BY <2>2
    <3>1. k \in 1..Len(m) /\ m[k] = l[k]
      BY <1>7
    <3> QED
      BY <2>2, <2>3, <3>1, Zenon
  <2>7. M[Len(M)] = 8
    <3>1. Len(m) \in 1..Len(m) /\ Len(M) = Len(m)
      BY <1>7, <2>3
    <3>2. M[Len(M)] = ChunkBytes(e.items)
      BY <1>7, <2>3, <3>1, Zenon
    <3> QED
      BY <1>3, <3>2, BareChunk
  <2>8. Total(M) = Total(L) + 8
    <3>1. Len(M) = Len(L) + 1
      BY <1>7, <2>2, <2>3
    <3>2. Total(M) = Total(L) + M[Len(M)]
      BY <2>2, <2>3, <2>6, <3>1, TotalOneMore
    <3> QED
      BY <2>7, <3>2, Zenon
  <2>9. ChunksBytes(m) = W
    BY <2>1, <2>4, <2>5, <2>8
  <2>10. Needed(c) <= c.max
    BY <1>1, <1>4, <1>9, <2>9 DEF W
  <2> QED
    BY <2>10 DEF Fits
<1>13. Fits(c)
  BY <1>11, <1>12
<1>14. \A k \in 1..Len(c.apps) : c.apps[k].length % 4 = 0
  BY <1>2, <1>4
<1>15. ~HasReport(c) => c.blocks = <<>>
  BY <1>2, <1>4, <1>5
<1> QED
  BY <1>1, <1>2, <1>4, <1>13, <1>14, <1>15, StillBuilding DEF c

\* The last chunk gets one more item.
LEMMA WithItemIs ==
  ASSUME NEW l \in Seq(Chunk), l # <<>>, NEW i \in Item
  PROVE  WithItem(l, i) \in Seq(Chunk) /\ WithItem(l, i) # <<>>
<1> DEFINE n == Len(l)
           x == l[n]
           z == [x EXCEPT !.items = Append(x.items, i)]
           m == WithItem(l, i)
<1>1. n \in Nat /\ n \in 1..n /\ x \in Chunk
  OBVIOUS
<1>2. m = [l EXCEPT ![n] = z]
  BY DEF WithItem
<1> HIDE DEF x
<1>3. x.items \in Seq(Item)
  BY <1>1 DEF Chunk
<1>4. z \in Chunk
  <2>1. Append(x.items, i) \in Seq(Item)
    BY <1>3
  <2> QED
    BY <1>1, <2>1 DEF Chunk
<1> HIDE DEF z, m
<1>5. m \in [1..n -> Chunk]
  <2>1. l \in [1..n -> Chunk]
    OBVIOUS
  <2> HIDE DEF n
  <2> QED
    BY <1>2, <1>4, <2>1
<1> HIDE DEF n
<1>6. m \in Seq(Chunk) /\ Len(m) = n
  BY ONLY <1>1, <1>5
<1>7. m # <<>>
  <2>1. Len(m) # 0
    BY <1>1, <1>6
  <2> QED
    BY <2>1
<1> QED
  BY <1>6, <1>7 DEF m

\* An item is added.
LEMMA ItemHolds ==
  ASSUME NEW b, CompoundHolds(b), NEW i \in Item, CanAddItem(b, i)
  PROVE  CompoundHolds(AddItem(b, i))
<1> DEFINE c == AddItem(b, i)
           O == OtherBytes(b)
           R == ReportBytes(b)
           m == WithItem(b.chunks, i)
           C == ChunksBytes(m)
<1>1. b.building /\ b.chunks # <<>> /\ O + R + C <= b.max
  BY DEF CanAddItem
<1>2. /\ b \in CompoundType /\ b.buffer = NoBuffer
      /\ \A k \in 1..Len(b.apps) : b.apps[k].length % 4 = 0
      /\ ~HasReport(b) => b.blocks = <<>>
  BY <1>1, IsBuilding
<1>3. m \in Seq(Chunk) /\ m # <<>>
  <2>1. b.chunks \in Seq(Chunk)
    BY <1>2, CompoundFields
  <2> QED
    BY <1>1, <2>1, WithItemIs
<1>4. /\ c \in CompoundType /\ c.building = b.building /\ c.buffer = b.buffer
      /\ c.max = b.max /\ c.ssrc = b.ssrc /\ c.sr = b.sr /\ c.blocks = b.blocks
      /\ c.chunks = m /\ c.apps = b.apps /\ c.byes = b.byes
  <2>1. c = [b EXCEPT !.chunks = m]
    BY DEF AddItem
  <2> HIDE DEF c, m
  <2> QED
    BY <1>2, <1>3, <2>1 DEF CompoundType
<1> HIDE DEF c
<1>5. OtherBytes(c) = O /\ ReportBytes(c) = R /\ (HasReport(c) <=> HasReport(b))
  BY <1>4, SameSizes
<1>6. O \in Nat /\ R \in Nat /\ b.max \in Nat
  BY <1>2, CollectedSizes
<1>7. SdesBytes(c) = C /\ C \in Nat
  <2> HIDE DEF m
  <2>1. SdesBytes(c) = ChunksBytes(c.chunks) /\ SdesBytes(c) \in Nat
    BY <1>3, <1>4, CollectedSizes
  <2> QED
    BY <1>4, <2>1
<1>8. Fits(c)
  <2>1. Needed(c) = O + R + C
    BY <1>5, <1>7, Zenon DEF Needed
  <2> HIDE DEF O, R, C
  <2>2. Needed(c) <= c.max
    BY <1>1, <1>4, <2>1
  <2> QED
    BY <2>2 DEF Fits
<1>9. \A k \in 1..Len(c.apps) : c.apps[k].length % 4 = 0
  BY <1>2, <1>4
<1>10. ~HasReport(c) => c.blocks = <<>>
  BY <1>2, <1>4, <1>5
<1> QED
  BY <1>1, <1>2, <1>4, <1>8, <1>9, <1>10, StillBuilding DEF c

\* One more element, at the end.
LEMMA AppendIs ==
  ASSUME NEW X, NEW l \in Seq(X), NEW x \in X
  PROVE  /\ Append(l, x) \in Seq(X) /\ Len(Append(l, x)) = Len(l) + 1 /\ Len(l) \in Nat
         /\ Append(l, x)[Len(l) + 1] = x
         /\ \A k \in 1..Len(l) : Append(l, x)[k] = l[k]
         /\ DOMAIN Append(l, x) = 1..Len(l) + 1 /\ DOMAIN l = 1..Len(l)
  OBVIOUS

\* The bytes of an APP packet and of a BYE packet are a number.
LEMMA PacketBytesAre ==
  /\ \A a \in App : AppBytes(a) \in Nat
  /\ \A y \in Bye : ByeBytes(y) \in Nat
<1>1. ASSUME NEW a \in App PROVE AppBytes(a) \in Nat
  <2>1. a.length \in Nat
    BY AppIs
  <2> QED
    BY <2>1 DEF AppBytes, HeaderSize, WordSize
<1>2. ASSUME NEW y \in Bye PROVE ByeBytes(y) \in Nat
  <2>1. y.ssrcs \in Seq(Source) /\ y.reason \in Nat
    BY ByeIs
  <2> QED
    BY <2>1, ByeSize
<1> QED
  BY <1>1, <1>2

\* The bytes of APP and BYE packets are a number.
LEMMA OtherParts ==
  ASSUME NEW b \in CompoundType
  PROVE  /\ Total([k \in DOMAIN b.apps |-> AppBytes(b.apps[k])]) \in Int
         /\ Total([k \in DOMAIN b.byes |-> ByeBytes(b.byes[k])]) \in Int
<1>1. b.apps \in Seq(App) /\ b.byes \in Seq(Bye)
  BY CompoundFields
<1>2. \A l \in Seq(App) : Total([k \in DOMAIN l |-> AppBytes(l[k])]) \in Nat
  <2> SUFFICES ASSUME NEW l \in Seq(App)
               PROVE  Total([k \in DOMAIN l |-> AppBytes(l[k])]) \in Nat
    OBVIOUS
  <2> DEFINE s == [k \in DOMAIN l |-> AppBytes(l[k])]
             n == Len(l)
  <2>1. n \in Nat /\ DOMAIN l = 1..n /\ \A k \in 1..n : l[k] \in App
    OBVIOUS
  <2>2. \A a \in App : AppBytes(a) \in Nat
    BY PacketBytesAre
  <2> HIDE DEF n
  <2>3. s \in [1..n -> Nat]
    BY <2>1, <2>2
  <2> HIDE DEF s
  <2>4. s \in Seq(Nat)
    BY ONLY <2>1, <2>3
  <2> QED
    BY <2>4, TotalType DEF s
<1>3. \A l \in Seq(Bye) : Total([k \in DOMAIN l |-> ByeBytes(l[k])]) \in Nat
  <2> SUFFICES ASSUME NEW l \in Seq(Bye)
               PROVE  Total([k \in DOMAIN l |-> ByeBytes(l[k])]) \in Nat
    OBVIOUS
  <2> DEFINE s == [k \in DOMAIN l |-> ByeBytes(l[k])]
             n == Len(l)
  <2>1. n \in Nat /\ DOMAIN l = 1..n /\ \A k \in 1..n : l[k] \in Bye
    OBVIOUS
  <2>2. \A a \in Bye : ByeBytes(a) \in Nat
    BY PacketBytesAre
  <2> HIDE DEF n
  <2>3. s \in [1..n -> Nat]
    BY <2>1, <2>2
  <2> HIDE DEF s
  <2>4. s \in Seq(Nat)
    BY ONLY <2>1, <2>3
  <2> QED
    BY <2>4, TotalType DEF s
<1>4. \A n \in Nat : n \in Int
  OBVIOUS
<1> QED
  BY <1>1, <1>2, <1>3, <1>4, Zenon

\* One more APP packet.
LEMMA AppAdded ==
  ASSUME NEW l \in Seq(App), NEW x \in App, NEW m, m = Append(l, x)
  PROVE  Total([k \in DOMAIN m |-> AppBytes(m[k])])
           = Total([k \in DOMAIN l |-> AppBytes(l[k])]) + AppBytes(x)
<1> DEFINE s == [k \in DOMAIN l |-> AppBytes(l[k])]
           t == [k \in DOMAIN m |-> AppBytes(m[k])]
           n == Len(l)
<1>1. /\ m \in Seq(App) /\ Len(m) = n + 1 /\ n \in Nat /\ m[n + 1] = x
      /\ \A k \in 1..n : m[k] = l[k]
      /\ DOMAIN m = 1..n + 1 /\ DOMAIN l = 1..n
  BY AppendIs
<1>2. /\ \A k \in 1..n : l[k] \in App
      /\ \A k \in 1..n + 1 : m[k] \in App
  BY <1>1, ElementIs, Zenon
<1>3. \A a \in App : AppBytes(a) \in Nat
  BY PacketBytesAre
<1> HIDE DEF n
<1>4. /\ s = [k \in 1..n |-> AppBytes(l[k])] /\ t = [k \in 1..n + 1 |-> AppBytes(m[k])]
      /\ s \in [1..n -> Nat] /\ t \in [1..n + 1 -> Nat]
  BY <1>1, <1>2, <1>3
<1> HIDE DEF s, t
<1>5. s \in Seq(Nat) /\ Len(s) = n
  <2>1. n \in Nat /\ s \in [1..n -> Nat]
    BY <1>1, <1>4
  <2> QED
    BY ONLY <2>1, FunctionIsSeq
<1>6. t \in Seq(Nat) /\ Len(t) = n + 1
  <2>1. n + 1 \in Nat /\ t \in [1..n + 1 -> Nat]
    BY <1>1, <1>4
  <2> QED
    BY ONLY <2>1, FunctionIsSeq
<1>7. \A k \in 1..Len(s) : t[k] = s[k]
  <2> SUFFICES ASSUME NEW k \in 1..n PROVE t[k] = s[k]
    BY <1>5
  <2>1. k \in 1..n + 1 /\ m[k] = l[k]
    BY <1>1
  <2> QED
    BY <1>4, <2>1
<1>8. t[Len(t)] = AppBytes(x)
  <2>1. n + 1 \in 1..n + 1
    BY <1>1
  <2> QED
    BY <1>1, <1>4, <1>6, <2>1
<1>9. Len(t) = Len(s) + 1
  BY <1>5, <1>6
<1>10. Total(t) = Total(s) + t[Len(t)]
  BY <1>5, <1>6, <1>7, <1>9, TotalOneMore
<1> QED
  BY <1>8, <1>10, Zenon DEF s, t

\* An APP packet is added.
LEMMA AppHolds ==
  ASSUME NEW b, CompoundHolds(b), NEW x \in App, CanAddAPP(b, x)
  PROVE  CompoundHolds(WithAPP(b, x))
<1> DEFINE c == WithAPP(b, x)
           O == OtherBytes(b)
           R == ReportBytes(b)
           S == SdesBytes(b)
           X == AppBytes(x)
           m == Append(b.apps, x)
<1>1. b.building /\ O + S + R + X <= b.max
  BY DEF CanAddAPP
<1>2. /\ b \in CompoundType /\ b.buffer = NoBuffer
      /\ \A k \in 1..Len(b.apps) : b.apps[k].length % 4 = 0
      /\ ~HasReport(b) => b.blocks = <<>>
  BY <1>1, IsBuilding
<1>3. b.apps \in Seq(App) /\ m \in Seq(App)
  <2>1. b.apps \in Seq(App)
    BY <1>2, CompoundFields
  <2> QED
    BY <2>1, AppendIs
<1>4. /\ c \in CompoundType /\ c.building = b.building /\ c.buffer = b.buffer
      /\ c.max = b.max /\ c.ssrc = b.ssrc /\ c.sr = b.sr /\ c.blocks = b.blocks
      /\ c.chunks = b.chunks /\ c.apps = m /\ c.byes = b.byes
  <2>1. c = [b EXCEPT !.apps = m]
    BY DEF WithAPP
  <2> HIDE DEF c, m
  <2> QED
    BY <1>2, <1>3, <2>1 DEF CompoundType
<1> HIDE DEF c
<1>5. SdesBytes(c) = S /\ ReportBytes(c) = R /\ (HasReport(c) <=> HasReport(b))
  BY <1>4, SameSizes
<1>6. O \in Nat /\ R \in Nat /\ S \in Nat /\ b.max \in Nat /\ X \in Nat
  BY <1>2, CollectedSizes, PacketBytesAre
<1>7. OtherBytes(c) = O + X
  <2> DEFINE u == Total([k \in DOMAIN b.apps |-> AppBytes(b.apps[k])])
             v == Total([k \in DOMAIN m |-> AppBytes(m[k])])
             w == Total([k \in DOMAIN b.byes |-> ByeBytes(b.byes[k])])
  <2>1. v = u + X
    BY <1>3, AppAdded, Zenon
  <2>2. O = u + w
    BY Zenon DEF OtherBytes
  <2>3. OtherBytes(c) = v + w
    BY <1>4, Zenon DEF OtherBytes
  <2>4. u \in Int /\ w \in Int
    BY <1>2, OtherParts
  <2> HIDE DEF u, v, w, O, X
  <2> QED
    BY <1>6, <2>1, <2>2, <2>3, <2>4
<1>8. Fits(c)
  <2>1. Needed(c) = O + X + R + S
    BY <1>5, <1>7, Zenon DEF Needed
  <2> HIDE DEF O, R, S, X
  <2>2. Needed(c) <= c.max
    BY <1>1, <1>4, <1>6, <2>1
  <2> QED
    BY <2>2 DEF Fits
<1>9. \A k \in 1..Len(c.apps) : c.apps[k].length % 4 = 0
  <2>1. x.length % 4 = 0
    BY DEF CanAddAPP
  <2>2. /\ Len(m) = Len(b.apps) + 1 /\ Len(b.apps) \in Nat /\ m[Len(b.apps) + 1] = x
        /\ \A k \in 1..Len(b.apps) : m[k] = b.apps[k]
    BY <1>3, AppendIs
  <2> HIDE DEF m
  <2>3. \A k \in 1..Len(m) : k \in 1..Len(b.apps) \/ k = Len(b.apps) + 1
    BY <2>2
  <2>4. \A k \in 1..Len(m) : m[k].length % 4 = 0
    BY <1>2, <2>1, <2>2, <2>3, Zenon
  <2> QED
    BY <1>4, <2>4, Zenon
<1>10. ~HasReport(c) => c.blocks = <<>>
  BY <1>2, <1>4, <1>5
<1> QED
  BY <1>1, <1>2, <1>4, <1>8, <1>9, <1>10, StillBuilding DEF c

\* One more BYE packet.
LEMMA ByeAdded ==
  ASSUME NEW l \in Seq(Bye), NEW x \in Bye, NEW m, m = Append(l, x)
  PROVE  Total([k \in DOMAIN m |-> ByeBytes(m[k])])
           = Total([k \in DOMAIN l |-> ByeBytes(l[k])]) + ByeBytes(x)
<1> DEFINE s == [k \in DOMAIN l |-> ByeBytes(l[k])]
           t == [k \in DOMAIN m |-> ByeBytes(m[k])]
           n == Len(l)
<1>1. /\ m \in Seq(Bye) /\ Len(m) = n + 1 /\ n \in Nat /\ m[n + 1] = x
      /\ \A k \in 1..n : m[k] = l[k]
      /\ DOMAIN m = 1..n + 1 /\ DOMAIN l = 1..n
  BY AppendIs
<1>2. /\ \A k \in 1..n : l[k] \in Bye
      /\ \A k \in 1..n + 1 : m[k] \in Bye
  BY <1>1, ElementIs, Zenon
<1>3. \A a \in Bye : ByeBytes(a) \in Nat
  BY PacketBytesAre
<1> HIDE DEF n
<1>4. /\ s = [k \in 1..n |-> ByeBytes(l[k])] /\ t = [k \in 1..n + 1 |-> ByeBytes(m[k])]
      /\ s \in [1..n -> Nat] /\ t \in [1..n + 1 -> Nat]
  BY <1>1, <1>2, <1>3
<1> HIDE DEF s, t
<1>5. s \in Seq(Nat) /\ Len(s) = n
  <2>1. n \in Nat /\ s \in [1..n -> Nat]
    BY <1>1, <1>4
  <2> QED
    BY ONLY <2>1, FunctionIsSeq
<1>6. t \in Seq(Nat) /\ Len(t) = n + 1
  <2>1. n + 1 \in Nat /\ t \in [1..n + 1 -> Nat]
    BY <1>1, <1>4
  <2> QED
    BY ONLY <2>1, FunctionIsSeq
<1>7. \A k \in 1..Len(s) : t[k] = s[k]
  <2> SUFFICES ASSUME NEW k \in 1..n PROVE t[k] = s[k]
    BY <1>5
  <2>1. k \in 1..n + 1 /\ m[k] = l[k]
    BY <1>1
  <2> QED
    BY <1>4, <2>1
<1>8. t[Len(t)] = ByeBytes(x)
  <2>1. n + 1 \in 1..n + 1
    BY <1>1
  <2> QED
    BY <1>1, <1>4, <1>6, <2>1
<1>9. Len(t) = Len(s) + 1
  BY <1>5, <1>6
<1>10. Total(t) = Total(s) + t[Len(t)]
  BY <1>5, <1>6, <1>7, <1>9, TotalOneMore
<1> QED
  BY <1>8, <1>10, Zenon DEF s, t

\* A BYE packet is added.
LEMMA ByeHolds ==
  ASSUME NEW b, CompoundHolds(b), NEW x \in Bye, CanAddBYE(b, x)
  PROVE  CompoundHolds(WithBYE(b, x))
<1> DEFINE c == WithBYE(b, x)
           O == OtherBytes(b)
           R == ReportBytes(b)
           S == SdesBytes(b)
           X == ByeBytes(x)
           m == Append(b.byes, x)
<1>1. b.building /\ O + S + R + X <= b.max
  BY DEF CanAddBYE
<1>2. /\ b \in CompoundType /\ b.buffer = NoBuffer
      /\ \A k \in 1..Len(b.apps) : b.apps[k].length % 4 = 0
      /\ ~HasReport(b) => b.blocks = <<>>
  BY <1>1, IsBuilding
<1>3. b.byes \in Seq(Bye) /\ m \in Seq(Bye)
  <2>1. b.byes \in Seq(Bye)
    BY <1>2, CompoundFields
  <2> QED
    BY <2>1, AppendIs
<1>4. /\ c \in CompoundType /\ c.building = b.building /\ c.buffer = b.buffer
      /\ c.max = b.max /\ c.ssrc = b.ssrc /\ c.sr = b.sr /\ c.blocks = b.blocks
      /\ c.chunks = b.chunks /\ c.byes = m /\ c.apps = b.apps
  <2>1. c = [b EXCEPT !.byes = m]
    BY DEF WithBYE
  <2> HIDE DEF c, m
  <2> QED
    BY <1>2, <1>3, <2>1 DEF CompoundType
<1> HIDE DEF c
<1>5. SdesBytes(c) = S /\ ReportBytes(c) = R /\ (HasReport(c) <=> HasReport(b))
  BY <1>4, SameSizes
<1>6. O \in Nat /\ R \in Nat /\ S \in Nat /\ b.max \in Nat /\ X \in Nat
  BY <1>2, CollectedSizes, PacketBytesAre
<1>7. OtherBytes(c) = O + X
  <2> DEFINE u == Total([k \in DOMAIN b.byes |-> ByeBytes(b.byes[k])])
             v == Total([k \in DOMAIN m |-> ByeBytes(m[k])])
             w == Total([k \in DOMAIN b.apps |-> AppBytes(b.apps[k])])
  <2>1. v = u + X
    BY <1>3, ByeAdded, Zenon
  <2>2. O = w + u
    BY Zenon DEF OtherBytes
  <2>3. OtherBytes(c) = w + v
    BY <1>4, Zenon DEF OtherBytes
  <2>4. u \in Int /\ w \in Int
    BY <1>2, OtherParts
  <2> HIDE DEF u, v, w, O, X
  <2> QED
    BY <1>6, <2>1, <2>2, <2>3, <2>4
<1>8. Fits(c)
  <2>1. Needed(c) = O + X + R + S
    BY <1>5, <1>7, Zenon DEF Needed
  <2> HIDE DEF O, R, S, X
  <2>2. Needed(c) <= c.max
    BY <1>1, <1>4, <1>6, <2>1
  <2> QED
    BY <2>2 DEF Fits
<1>9. \A k \in 1..Len(c.apps) : c.apps[k].length % 4 = 0
  BY <1>2, <1>4
<1>10. ~HasReport(c) => c.blocks = <<>>
  BY <1>2, <1>4, <1>5
<1> QED
  BY <1>1, <1>2, <1>4, <1>8, <1>9, <1>10, StillBuilding DEF c

\* What is written depends on what is collected.
LEMMA SameBytes ==
  ASSUME NEW b, NEW c, c.ssrc = b.ssrc, c.sr = b.sr, c.blocks = b.blocks,
         c.chunks = b.chunks, c.apps = b.apps, c.byes = b.byes
  PROVE  BuiltBytes(c) = BuiltBytes(b) /\ Needed(c) = Needed(b)
<1>1. \A i : ReportPacket(c, i) = ReportPacket(b, i)
  BY Zenon DEF ReportPacket
<1>2. \A i : SdesPacket(c, i) = SdesPacket(b, i)
  BY Zenon DEF SdesPacket
<1>3. ReportCount(c) = ReportCount(b)
  BY Zenon DEF ReportCount
<1>4. [i \in 1..ReportCount(c) |-> ReportPacket(c, i)]
        = [i \in 1..ReportCount(b) |-> ReportPacket(b, i)]
  BY <1>1, <1>3, Zenon
<1>5. [i \in 1..Groups(Len(c.chunks)) |-> SdesPacket(c, i)]
        = [i \in 1..Groups(Len(b.chunks)) |-> SdesPacket(b, i)]
  BY <1>2, Zenon
<1>6. BuiltPackets(c) = BuiltPackets(b)
  BY <1>4, <1>5, Zenon DEF BuiltPackets
<1>7. Needed(c) = Needed(b)
  BY SameSizes, Zenon DEF Needed
<1> QED
  BY <1>6, <1>7, Zenon DEF BuiltBytes

\* A builder with a report can be written.
LEMMA HoldsOf ==
  ASSUME NEW b, CompoundHolds(b), HasReport(b)
  PROVE  Collected(b)
<1>1. b \in CompoundType /\ \A k \in 1..Len(b.apps) : b.apps[k].length % 4 = 0
  BY DEF CompoundHolds
<1>2. /\ b.ssrc \in Source \cup {NoSsrc} /\ b.sr \in BOOLEAN
      /\ b.blocks \in Seq(Source) /\ b.chunks \in Seq(Chunk)
      /\ b.apps \in Seq(App) /\ b.byes \in Seq(Bye)
  BY <1>1, CompoundFields
<1>3. b.ssrc # NoSsrc
  BY DEF HasReport
<1> QED
  BY <1>1, <1>2, <1>3 DEF Collected

\* The build ends.
LEMMA EndHolds ==
  ASSUME NEW b, CompoundHolds(b), CanEnd(b)
  PROVE  CompoundHolds(Ended(b))
<1> DEFINE c == Ended(b)
           d == BuiltBytes(b)
           n == Needed(b)
<1>1. b.building /\ HasReport(b)
  BY DEF CanEnd
<1>2. /\ b \in CompoundType /\ Fits(b)
      /\ \A k \in 1..Len(b.apps) : b.apps[k].length % 4 = 0
  BY <1>1, IsBuilding
<1>3. d \in Seq(Octet) /\ n \in Nat
  BY <1>1, HoldsOf, BuiltLength
<1>4. /\ c \in CompoundType /\ ~c.building /\ c.buffer = d /\ c.length = n
      /\ c.max = b.max /\ c.ssrc = b.ssrc /\ c.sr = b.sr /\ c.blocks = b.blocks
      /\ c.chunks = b.chunks /\ c.apps = b.apps /\ c.byes = b.byes
  <2>1. c = [b EXCEPT !.building = FALSE, !.buffer = d, !.length = n]
    BY Zenon DEF Ended, Needed
  <2> HIDE DEF c, d, n
  <2> QED
    BY <1>2, <1>3, <2>1 DEF CompoundType
<1> HIDE DEF c
<1>5. BuiltBytes(c) = d /\ Needed(c) = n /\ OtherBytes(c) = OtherBytes(b)
      /\ (HasReport(c) <=> HasReport(b))
  <2>1. BuiltBytes(c) = d /\ Needed(c) = n
    BY <1>4, SameBytes, Zenon
  <2> QED
    BY <1>4, <2>1, SameSizes, Zenon
<1> HIDE DEF d, n
<1>6. Fits(c)
  BY <1>2, <1>4, <1>5 DEF Fits, n
<1>7. \A k \in 1..Len(c.apps) : c.apps[k].length % 4 = 0
  BY <1>2, <1>4
<1> QED
  BY <1>1, <1>4, <1>5, <1>6, <1>7, Zenon DEF CompoundHolds, c

\* The builder, and each call.
CompoundInv == CompoundHolds(comp)

\* Every call keeps it.
LEMMA CompoundStep ==
  ASSUME CompoundInv, [CompoundNext]_comp
  PROVE  CompoundInv'
<1> DEFINE b == comp
<1>1. CompoundHolds(b)
  BY DEF CompoundInv
<1>2. CompoundInv' <=> CompoundHolds(comp')
  BY DEF CompoundInv
<1>3. CASE \E max \in Maximum : InitBuild(max)
  BY <1>1, <1>2, <1>3, InitHolds DEF InitBuild
<1>4. CASE \E s \in Source, sr \in BOOLEAN : StartReport(s, sr)
  BY <1>1, <1>2, <1>4, ReportHolds DEF StartReport
<1>5. CASE \E s \in Source : AddReportBlock(s)
  BY <1>1, <1>2, <1>5, BlockHolds DEF AddReportBlock
<1>6. CASE \E s \in Source : AddSDESSource(s)
  BY <1>1, <1>2, <1>6, SourceHolds DEF AddSDESSource
<1>7. CASE \E i \in Item : AddSDESItem(i)
  BY <1>1, <1>2, <1>7, ItemHolds DEF AddSDESItem
<1>8. CASE \E y \in Bye : AddBYEPacket(y)
  BY <1>1, <1>2, <1>8, ByeHolds DEF AddBYEPacket
<1>9. CASE \E a \in App : AddAPPPacket(a)
  BY <1>1, <1>2, <1>9, AppHolds DEF AddAPPPacket
<1>10. CASE EndBuild
  BY <1>1, <1>2, <1>10, EndHolds DEF EndBuild
<1>11. CASE UNCHANGED comp
  BY <1>1, <1>2, <1>11
<1> QED
  BY <1>3, <1>4, <1>5, <1>6, <1>7, <1>8, <1>9, <1>10, <1>11 DEF CompoundNext

\* The size of a packet fits its length field.
LEMMA SizeFits ==
  ASSUME NEW b \in CompoundType, HasReport(b), Fits(b)
  PROVE  Needed(b) <= WordSize * LengthModulus
<1> DEFINE O == OtherBytes(b)
           R == ReportBytes(b)
           S == SdesBytes(b)
           m == b.max
           n == Needed(b)
<1>1. O \in Nat /\ R \in Nat /\ S \in Nat /\ m \in Nat /\ n = O + R + S
  BY CollectedSizes DEF Needed
<1>2. m <= DatagramSize
  <2>1. b.max \in 0..DatagramSize
    BY CompoundFields
  <2>2. DatagramSize \in Nat
    BY SMT DEF DatagramSize
  <2> QED
    BY <2>1, <2>2
<1>3. n <= m + 40
  <2>1. CASE n <= m
    <3> HIDE DEF O, R, S, m, n
    <3> QED
      BY <1>1, <2>1
  <2>2. CASE ~(n <= m)
    <3>1. /\ Len(b.chunks) = 1 /\ b.chunks[1].items = <<>>
          /\ n - 12 <= m \/ (b.blocks = <<>> /\ O <= m)
      BY <2>2 DEF Fits
    <3>2. b.chunks \in Seq(Chunk) /\ b.chunks # <<>> /\ b.sr \in BOOLEAN
      BY <3>1, CompoundFields
    <3>3. S = 12
      BY <3>1, <3>2, BareSize, CollectedSizes
    <3>4. b.blocks = <<>> => R <= 28
      BY <3>2, CollectedSizes
    <3> HIDE DEF O, R, S, m, n
    <3> QED
      BY <1>1, <3>1, <3>3, <3>4
  <2> QED
    BY <2>1, <2>2
<1> HIDE DEF O, R, S, m, n
<1>4. DatagramSize + 40 <= WordSize * LengthModulus /\ DatagramSize \in Nat
      /\ WordSize * LengthModulus \in Nat
  BY SMT DEF DatagramSize, WordSize, LengthModulus
<1>5. n \in Nat
  BY <1>1
<1>6. n <= WordSize * LengthModulus
  BY <1>1, <1>2, <1>3, <1>4, <1>5
<1> QED
  BY <1>6 DEF n

\* The invariant says what is to be shown.
LEMMA CompoundInvSays ==
  ASSUME CompoundInv
  PROVE  CompoundSound
<1> DEFINE b == comp
           d == comp.buffer
<1>1. CompoundHolds(b)
  BY DEF CompoundInv
<1>2. ASSUME Built(b)
      PROVE  /\ HasReport(b) /\ d = BuiltBytes(b) /\ b.length = Needed(b)
             /\ b \in CompoundType /\ Fits(b)
  BY <1>1, <1>2, Zenon DEF CompoundHolds
<1>3. ASSUME Built(b)
      PROVE  /\ Collected(b) /\ Len(d) = Needed(b)
             /\ \E o : PacketsLaid(BuiltPackets(b), o, d)
  <2>1. Collected(b)
    BY <1>1, <1>2, <1>3, HoldsOf
  <2>2. Needed(b) <= WordSize * LengthModulus
    BY <1>2, <1>3, SizeFits
  <2>3. Len(BuiltBytes(b)) = Needed(b)
    BY <2>1, BuiltLength
  <2>4. \E o : PacketsLaid(BuiltPackets(b), o, BuiltBytes(b))
    BY ONLY <2>1, <2>2, BuiltIsLaid
  <2> QED
    BY <1>2, <1>3, <2>1, <2>3, <2>4, Zenon
<1>4. ASSUME Built(b)
      PROVE  ParseData(d) = [valid |-> TRUE, packets |-> Results(BuiltPackets(b))]
  BY <1>3, <1>4, AllRead
<1>5. BuiltParses
  <2> SUFFICES ASSUME Built(b)
               PROVE  /\ b.length = Len(d) /\ ParseData(d).valid
                      /\ Agrees(ParseData(d).packets, b)
    BY Zenon DEF BuiltParses
  <2>1. b.length = Len(d)
    BY <1>2, <1>3, Zenon
  <2>2. Agrees(Results(BuiltPackets(b)), b)
    BY <1>3, BuiltAgrees
  <2>3. ParseData(d).valid /\ ParseData(d).packets = Results(BuiltPackets(b))
    BY <1>4
  <2> QED
    BY <2>1, <2>2, <2>3, Zenon
<1>6. CutIsDetected
  <2> SUFFICES ASSUME Built(b), NEW n \in 0..Len(d) - 1, ParseData(SubSeq(d, 1, n)).valid
               PROVE  /\ IsHead(d[n + 1])
                      /\ IsPrefix(ParseData(SubSeq(d, 1, n)).packets, ParseData(d).packets)
    BY Zenon DEF CutIsDetected
  <2>1. PICK o : PacketsLaid(BuiltPackets(b), o, d)
    BY <1>3
  <2>2. ParseData(d).packets = Results(BuiltPackets(b))
    BY <1>4
  <2>3. /\ IsHead(d[n + 1])
        /\ IsPrefix(ParseData(SubSeq(d, 1, n)).packets, Results(BuiltPackets(b)))
    BY <2>1, CutsRead
  <2> QED
    BY <2>2, <2>3, Zenon
<1>7. MaximumKept
  <2>1. b.building \/ Built(b) => Fits(b)
    BY <1>1, Zenon DEF CompoundHolds
  <2>2. HeaderSize + 2 * WordSize = 12
    BY DEF HeaderSize, WordSize
  <2> QED
    BY <2>1, <2>2, Zenon DEF MaximumKept, Fits, Needed
<1> QED
  BY <1>5, <1>6, <1>7 DEF CompoundSound

\* Every compound packet that is built, whatever mix of report blocks, SDES chunks
\* and items, APP and BYE packets it has, fills the buffer that was allocated for
\* it, and the parser reads in it what was added, in order; of one that is cut
\* short it reads whole packets or nothing; and the maximum is kept but for a
\* source without items.
THEOREM CompoundIsSound == CompoundSpec => []CompoundSound
<1>1. CompoundInit => CompoundInv
  BY EmptyHolds DEF CompoundInit, CompoundInv
<1>2. CompoundInv /\ [CompoundNext]_comp => CompoundInv'
  BY CompoundStep
<1>3. CompoundInv => CompoundSound
  BY CompoundInvSays
<1> QED
  BY <1>1, <1>2, <1>3, PTL DEF CompoundSpec

=============================================================================
