----------------------------- MODULE RtcpSdesInfo -----------------------------
(***************************************************************************)
(* The private SDES items of one source (RTCPSDESInfo): a list of prefixes *)
(* with values, filled from the packets that arrive.  A prefix is searched *)
(* for as it is given and stored cut to RTCP_SDES_MAXITEMLENGTH bytes: one *)
(* that is longer is never found again, and its stored form may be equal   *)
(* to another prefix.  Values are cut in the same way.                     *)
(***************************************************************************)
EXTENDS Naturals, Sequences

CONSTANTS
    Prefix,      \* prefixes that fit into an item
    LongPrefix,  \* prefixes that do not
    Cut,         \* what a long prefix is cut to
    Text,        \* values
    MaxItems,    \* RTP_MAXPRIVITEMS
    NoText

\* What a prefix is cut to fits.
ASSUME PrefixAssumption ==
    /\ Cut \in [LongPrefix -> Prefix] /\ Prefix \cap LongPrefix = {}
    /\ NoText \notin Text /\ MaxItems \in Nat

VARIABLES
    privitems,   \* the list
    accepted     \* history: the value last taken for a prefix, or NoText

sdesvars == <<privitems, accepted>>

SdesInit ==
    /\ privitems = <<>>
    /\ accepted = [p \in Prefix |-> NoText]

\* The first item whose prefix is p, or 0.
Found(p) ==
    LET hits == {i \in DOMAIN privitems : privitems[i].prefix = p}
    IN  IF hits = {} THEN 0 ELSE CHOOSE i \in hits : \A j \in hits : i <= j

Stored(p) == IF p \in LongPrefix THEN Cut[p] ELSE p

\* Bug: the limit is looked at after the item was put into the list.
SetPrivateValueLate(p, v) ==
    /\ privitems' = IF Found(p) # 0 THEN [privitems EXCEPT ![Found(p)].value = v]
                    ELSE <<[prefix |-> Stored(p), value |-> v]>> \o privitems
    /\ accepted' = IF Stored(p) \in Prefix /\ Len(privitems') <= MaxItems
                THEN [accepted EXCEPT ![Stored(p)] = v] ELSE accepted

\* SetPrivateValue: a new prefix goes to the front, unless the list is full.
SetPrivateValue(p, v) ==
    \/ /\ Found(p) # 0
       /\ privitems' = [privitems EXCEPT ![Found(p)].value = v]
       /\ accepted' = [accepted EXCEPT ![p] = v]
    \/ /\ Found(p) = 0 /\ Len(privitems) < MaxItems
       /\ privitems' = <<[prefix |-> Stored(p), value |-> v]>> \o privitems
       /\ accepted' = [accepted EXCEPT ![Stored(p)] = v]
    \/ /\ Found(p) = 0 /\ Len(privitems) >= MaxItems
       /\ UNCHANGED sdesvars

\* DeletePrivatePrefix: the first item with the prefix.
DeletePrivatePrefix(p) ==
    /\ Found(p) # 0
    /\ privitems' = SubSeq(privitems, 1, Found(p) - 1)
                       \o SubSeq(privitems, Found(p) + 1, Len(privitems))
    /\ accepted' = [accepted EXCEPT ![p] = NoText]

\* GetPrivateValue
PrivateValue(p) == IF Found(p) = 0 THEN NoText ELSE privitems[Found(p)].value

\* Clear, which leaves the items other than the private ones alone.
Clear ==
    /\ privitems' = <<>>
    /\ accepted' = [p \in Prefix |-> NoText]

SdesNext ==
    \/ \E p \in Prefix \cup LongPrefix, v \in Text : SetPrivateValue(p, v)
    \/ \E p \in Prefix : DeletePrivatePrefix(p)
    \/ Clear

SdesSpec == SdesInit /\ [][SdesNext]_sdesvars

-----------------------------------------------------------------------------
\* Prefixes that no long prefix is cut to.
Plain == Prefix \ {Cut[p] : p \in LongPrefix}

\* The list never exceeds its limit; a prefix that no other is cut to has one item,
\* with the value last accepted, until it is deleted; and a value that was
\* accepted for any prefix is what a search for its stored form finds.
PrivateItemsSound ==
    /\ Len(privitems) <= MaxItems
    /\ \A p \in Plain :
          /\ PrivateValue(p) = accepted[p]
          /\ \A i, j \in DOMAIN privitems :
                privitems[i].prefix = p /\ privitems[j].prefix = p => i = j
    /\ \A p \in Prefix : accepted[p] # NoText => PrivateValue(p) = accepted[p]
=============================================================================
