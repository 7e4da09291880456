---------------------------- MODULE RtcpScheduler -----------------------------
(***************************************************************************)
(* RTCPScheduler: when the next compound RTCP packet is due.  The poll     *)
(* thread asks IsTime; the answer is yes only when a newly drawn interval  *)
(* has passed since the last packet, and otherwise the timer is set again. *)
(* Members leaving move both times closer to now.                          *)
(*                                                                         *)
(* Times are ticks relative to now: due = nextrtcptime - now and           *)
(* since = now - prevrtcptime.  The average packet size is a constant, so  *)
(* the interval depends on the members alone; a fraction of a quarter of   *)
(* the bandwidth is for senders, as by default.  Intervals are rounded     *)
(* down to ticks, and the random factor takes its least, middle and        *)
(* largest value.                                                          *)
(***************************************************************************)
EXTENDS Integers

CONSTANTS
    MaxMembers,     \* bound on the active members
    MinInterval,    \* minimum transmission interval, in ticks
    Cost,           \* average packet size divided by the bandwidth, in ticks
    UseHalf,        \* UseHalfAtStartup
    Immediate,      \* RequestImmediateBYE
    ByeLimit,       \* immediate only below this number of members: 50
    MaxBye,         \* bound on the BYEs counted
    MaxTime         \* bound on since and elapsed, beyond every interval

ASSUME MembersAssumption == MaxMembers \in Nat \ {0}
ASSUME IntervalAssumption == MinInterval \in Nat /\ Cost \in Nat
ASSUME ParameterAssumption == UseHalf \in BOOLEAN /\ Immediate \in BOOLEAN
ASSUME LimitAssumption == ByeLimit \in Nat /\ MaxBye \in Nat \ {0} /\ MaxTime \in Nat

VARIABLES
    members,       \* GetActiveMemberCount
    senders,       \* GetSenderCount
    sender,        \* whether we are a sender
    firstcall, hassentrtcp, pmembers,
    due, since,
    byescheduled, byemembers, sendbyenow,
    elapsed,       \* history: ticks since the timer was started, a packet sent or a
                   \* BYE scheduled
    event          \* history: what the last step was

vars == <<members, senders, sender, firstcall, hassentrtcp, pmembers, due, since,
          byescheduled, byemembers, sendbyenow, elapsed, event>>
sourcevars == <<members, senders, sender>>
byevars == <<byescheduled, byemembers, sendbyenow>>

MaxOf(a, b) == IF a > b THEN a ELSE b
Half(t) == t \div 2

-----------------------------------------------------------------------------
(* Intervals.                                                               *)

\* CalculateDeterministicInterval
Deterministic ==
    LET total == IF members = 0 THEN 1 ELSE members
        few == 4 * senders <= total
        spent == IF few /\ sender THEN senders * (4 * Cost)
                 ELSE IF few THEN (total - senders) * ((4 * Cost) \div 3)
                 ELSE total * Cost
        least == IF ~hassentrtcp /\ UseHalf THEN Half(MinInterval) ELSE MinInterval
    IN  MaxOf(least, spent)

\* The random multiplier 0.5 .. 1.5 divided by 1.21828.
Least(t) == (2 * t) \div 5
Drawn(t) == {Least(t), (4 * t) \div 5, (6 * t) \div 5}

\* CalculateTransmissionInterval and CalculateBYETransmissionInterval
Interval == Drawn(Deterministic)
ByeInterval ==
    LET least == IF UseHalf THEN Half(MinInterval) ELSE MinInterval
    IN  IF sendbyenow THEN {0}
        ELSE Drawn(MaxOf(least, byemembers * ((4 * Cost) \div 3)))

-----------------------------------------------------------------------------
(* Operations.                                                              *)

\* Reset.  pmembers, and the times of the constructor, are not read before
\* the first call.
Init ==
    /\ members \in 1..MaxMembers /\ senders = 0 /\ sender = FALSE
    /\ firstcall = TRUE /\ hassentrtcp = FALSE
    /\ pmembers = 0 /\ due = 0 /\ since = 0
    /\ byescheduled = FALSE /\ byemembers = 0 /\ sendbyenow = FALSE
    /\ elapsed = 0
    /\ event = "none"

\* GetTransmissionDelay and IsTime start the timer at the first call.
FirstCall ==
    /\ firstcall
    /\ firstcall' = FALSE
    /\ since' = 0
    /\ pmembers' = members
    /\ due' \in Interval
    /\ elapsed' = 0
    /\ event' = "other"
    /\ UNCHANGED <<sourcevars, hassentrtcp, byevars>>

\* IsTime with the timer expired; t is the new interval.
Expired(t) == ~firstcall /\ due <= 0 /\ t \in (IF byescheduled THEN ByeInterval ELSE Interval)

\* IsTime answers yes: the caller sends the packet, and AnalyseOutgoing notes it.
Send ==
    \E t \in IF byescheduled THEN ByeInterval ELSE Interval :
        /\ Expired(t)
        /\ t <= since
        /\ byescheduled' = FALSE
        /\ since' = 0
        /\ pmembers' = members
        /\ due' \in Interval
        /\ hassentrtcp' = TRUE
        /\ elapsed' = 0
        /\ event' = IF byescheduled THEN "bye" ELSE "sent"
        /\ UNCHANGED <<sourcevars, firstcall, byemembers, sendbyenow>>

\* Bug: setting the timer again also forgets when the last packet was sent.
ReconsiderRestarts ==
    \E t \in IF byescheduled THEN ByeInterval ELSE Interval :
        /\ Expired(t)
        /\ t > since
        /\ due' = t - since
        /\ since' = 0
        /\ pmembers' = members
        /\ event' = "other"
        /\ UNCHANGED <<sourcevars, firstcall, hassentrtcp, byevars, elapsed>>

\* IsTime answers no, and the timer is set again.
Reconsider ==
    \E t \in IF byescheduled THEN ByeInterval ELSE Interval :
        /\ Expired(t)
        /\ t > since
        /\ due' = t - since
        /\ pmembers' = members
        /\ event' = "other"
        /\ UNCHANGED <<sourcevars, firstcall, hassentrtcp, since, byevars, elapsed>>

IsTime == Send \/ Reconsider

\* ScheduleBYEPacket
ScheduleBYE ==
    /\ ~byescheduled
    /\ firstcall' = FALSE
    /\ pmembers' = IF firstcall THEN members ELSE pmembers
    /\ byescheduled' = TRUE
    /\ byemembers' = 1
    /\ sendbyenow' = (Immediate /\ members < ByeLimit)
    /\ since' = 0
    /\ due' \in IF sendbyenow' THEN {0}
                ELSE Drawn(MaxOf(IF UseHalf THEN Half(MinInterval) ELSE MinInterval,
                                 (4 * Cost) \div 3))
    /\ elapsed' = 0
    /\ event' = "other"
    /\ UNCHANGED <<sourcevars, hassentrtcp>>

\* AnalyseIncoming of a packet with a BYE, while our own is scheduled.
IncomingBYE ==
    /\ byescheduled
    /\ byemembers < MaxBye
    /\ byemembers' = byemembers + 1
    /\ event' = "other"
    /\ UNCHANGED <<sourcevars, firstcall, hassentrtcp, pmembers, due, since,
                   byescheduled, sendbyenow, elapsed>>

\* Members join, become senders and stop sending.
Join ==
    /\ members < MaxMembers
    /\ members' = members + 1
    /\ event' = "other"
    /\ UNCHANGED <<senders, sender, firstcall, hassentrtcp, pmembers, due, since,
                   byevars, elapsed>>

ChangeSenders ==
    /\ senders' \in 0..members
    /\ sender' \in BOOLEAN
    /\ sender' => senders' > 0
    /\ event' = "other"
    /\ UNCHANGED <<members, firstcall, hassentrtcp, pmembers, due, since, byevars,
                   elapsed>>

\* Bug: the scaling of the time of the last packet is upside down.
LeaveScaledUp ==
    /\ members > 0
    /\ members' = members - 1
    /\ senders' = IF senders < members THEN senders ELSE members - 1
    /\ sender' = (sender /\ senders' > 0)
    /\ IF members' >= pmembers \/ firstcall THEN UNCHANGED <<pmembers, due, since>>
       ELSE /\ due' = IF due > 0 THEN (members' * due) \div pmembers ELSE 0
            /\ since' = IF members' = 0 THEN since
                        ELSE LET s == (pmembers * since) \div members'
                             IN  IF s > MaxTime THEN MaxTime ELSE s
            /\ pmembers' = members'
    /\ event' = "leave"
    /\ UNCHANGED <<firstcall, hassentrtcp, byevars, elapsed>>

\* A member leaves: ActiveMemberDecrease, with PerformReverseReconsideration.
Leave ==
    /\ members > 0
    /\ members' = members - 1
    /\ senders' = IF senders < members THEN senders ELSE members - 1
    /\ sender' = (sender /\ senders' > 0)
    /\ IF members' >= pmembers \/ firstcall THEN UNCHANGED <<pmembers, due, since>>
       ELSE /\ due' = IF due > 0 THEN (members' * due) \div pmembers ELSE 0
            /\ since' = (members' * since) \div pmembers
            /\ pmembers' = members'
    /\ event' = "leave"
    /\ UNCHANGED <<firstcall, hassentrtcp, byevars, elapsed>>

Capped(t) == IF t < MaxTime THEN t + 1 ELSE t

Tick ==
    /\ due' = IF due >= 0 THEN due - 1 ELSE due
    /\ since' = Capped(since)
    /\ elapsed' = Capped(elapsed)
    /\ event' = "other"
    /\ UNCHANGED <<sourcevars, firstcall, hassentrtcp, pmembers, byevars>>

Next ==
    \/ FirstCall
    \/ IsTime
    \/ ScheduleBYE
    \/ IncomingBYE
    \/ Join
    \/ ChangeSenders
    \/ Leave
    \/ Tick

\* The poll thread keeps asking, and time passes.
Fairness == WF_vars(FirstCall) /\ WF_vars(IsTime) /\ WF_vars(Tick)

Spec == Init /\ [][Next]_vars /\ Fairness

-----------------------------------------------------------------------------
TypeOK ==
    /\ members \in 0..MaxMembers /\ senders \in 0..MaxMembers /\ sender \in BOOLEAN
    /\ firstcall \in BOOLEAN /\ hassentrtcp \in BOOLEAN /\ pmembers \in 0..MaxMembers
    /\ due \in Int /\ since \in 0..MaxTime
    /\ byescheduled \in BOOLEAN /\ byemembers \in 0..MaxBye /\ sendbyenow \in BOOLEAN
    /\ elapsed \in 0..MaxTime
    /\ event \in {"none", "other", "sent", "bye", "leave"}

\* The scheduler never believes that more time has passed since the last packet
\* than has: scaling both times when members leave keeps it on the late side.
NeverAhead == ~firstcall => since <= elapsed

\* Two packets are at least the smallest interval apart, however often members leave
\* and the timer is moved; only our own BYE may follow a packet at once.  The first
\* is that far from the start of the timer, or half as far at the user's wish.
SpacedOut ==
    [][event' = "sent" =>
          elapsed >= Least(IF UseHalf /\ ~hassentrtcp THEN Half(MinInterval)
                           ELSE MinInterval)]_vars

\* The timer is not put off for ever by reconsideration: packets are
\* sent again and again, and a scheduled BYE is sent, unless members leave
\* again and again.
ReportsGoOn ==
    \/ []<>(event = "leave")
    \/ []<>(event \in {"sent", "bye"}) /\ (byescheduled ~> event = "bye")

=============================================================================
