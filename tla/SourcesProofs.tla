---------------------------- MODULE SourcesProofs ----------------------------
(***************************************************************************)
(* The source table: its counters, the addresses of its entries, our own   *)
(* entry and its timeouts, for any participants, hosts and delays.  Then   *)
(* the receive path of one source: who is validated, and in which order    *)
(* the packets wait.  Last the RTP packets themselves: what is built is    *)
(* what the other side reads, for any requests, buffers and moduli.        *)
(***************************************************************************)
EXTENDS RtpSources, RtpReceive, RtpPackets, CommonProofs

Contents == UNION {[present -> Source] : present \in SUBSET Ssrc}

Tables == [src : Contents, own : Ssrc \cup {NoSsrc},
           total : Int, senders : Int, active : Int]

-----------------------------------------------------------------------------
(* One entry.                                                               *)

\* The fields of an entry.
LEMMA NewSourceType == NewSource \in Source
BY ProbationAssumption, DelayAssumption DEF NewSource, Source, Age

\* An address that was heard from changes no flag of an entry.
LEMMA SetAddressType ==
  ASSUME NEW r \in Source, NEW addr \in Address, NEW isrtp \in BOOLEAN
  PROVE  LET n == SetAddress(r, addr, isrtp)
         IN  /\ n \in Source
             /\ n.validated = r.validated /\ n.sender = r.sender /\ n.bye = r.bye
             /\ n.rtpaddr = (IF isrtp THEN addr ELSE r.rtpaddr)
             /\ n.rtcpaddr = (IF isrtp THEN r.rtcpaddr ELSE addr)
BY DEF SetAddress, Source

\* An RTP packet can make an entry validated and a sender, and ends neither.
LEMMA AcceptType ==
  ASSUME NEW r \in Source, NEW inorder \in BOOLEAN,
         NEW probation \in ProbationType, NEW isown \in BOOLEAN
  PROVE  LET n == AcceptRTP(r, inorder, probation, isown)
         IN  /\ n \in Source
             /\ n.bye = r.bye /\ n.rtpaddr = r.rtpaddr /\ n.rtcpaddr = r.rtcpaddr
             /\ r.validated => n.validated
             /\ r.sender => n.sender
<1> DEFINE accept == StatsAccept(r, inorder, probation)
<1>1. accept \in BOOLEAN
  BY DEF StatsAccept, Source
<1>2. NextProbation(r, inorder, probation) \in 0..ProbationCount
  BY ProbationAssumption DEF NextProbation, Source
<1>3. 0 \in Age
  BY DelayAssumption DEF Age
<1> DEFINE store == accept \/ probation = "ProbationStore"
           valid == r.validated \/ accept
           lastrtp == IF accept /\ ~isown THEN 0 ELSE r.lastrtp
<1>4. /\ (r.sentdata \/ accept) \in BOOLEAN /\ valid \in BOOLEAN
      /\ (r.sender \/ (store /\ valid /\ ~isown)) \in BOOLEAN
      /\ (r.queued \/ store) \in BOOLEAN
  OBVIOUS
<1>5. lastrtp \in Age
  BY <1>3 DEF Source
<1>6. AcceptRTP(r, inorder, probation, isown) =
        [r EXCEPT !.probation = NextProbation(r, inorder, probation),
                  !.sentdata = r.sentdata \/ accept,
                  !.lastmsg = 0, !.lastrtp = lastrtp, !.validated = valid,
                  !.sender = r.sender \/ (store /\ valid /\ ~isown),
                  !.queued = r.queued \/ store]
  BY DEF AcceptRTP
<1> HIDE DEF accept, store, valid, lastrtp
<1>7. AcceptRTP(r, inorder, probation, isown) \in Source
  BY <1>2, <1>3, <1>4, <1>5, <1>6 DEF Source
<1>8. LET n == AcceptRTP(r, inorder, probation, isown)
      IN  /\ n.validated = valid
          /\ n.sender = (r.sender \/ (store /\ valid /\ ~isown))
          /\ n.bye = r.bye /\ n.rtpaddr = r.rtpaddr /\ n.rtcpaddr = r.rtcpaddr
  BY <1>6 DEF Source
<1> QED
  BY <1>7, <1>8 DEF valid

\* What RTCP makes of an entry.
LEMMA InfoType ==
  ASSUME NEW r \in Source, NEW c \in Cname \cup {NoName}
  PROVE  /\ LET n == [r EXCEPT !.lastmsg = 0]
            IN  /\ n \in Source /\ n.validated = r.validated /\ n.sender = r.sender
                /\ n.bye = r.bye /\ n.rtpaddr = r.rtpaddr /\ n.rtcpaddr = r.rtcpaddr
         /\ LET n == SetCname(r, c)
            IN  /\ n \in Source /\ (r.validated => n.validated) /\ n.sender = r.sender
                /\ n.bye = r.bye /\ n.rtpaddr = r.rtpaddr /\ n.rtcpaddr = r.rtcpaddr
         /\ LET n == SetNote(r)
            IN  /\ n \in Source /\ n.validated = r.validated /\ n.sender = r.sender
                /\ n.bye = r.bye /\ n.rtpaddr = r.rtpaddr /\ n.rtcpaddr = r.rtcpaddr
         /\ LET n == ByeReceived(r)
            IN  /\ n \in Source /\ n.validated = r.validated /\ n.sender = r.sender
                /\ n.bye /\ n.rtpaddr = r.rtpaddr /\ n.rtcpaddr = r.rtcpaddr
<1>1. 0 \in Age
  BY DelayAssumption DEF Age
<1>2. LET n == [r EXCEPT !.lastmsg = 0]
      IN  /\ n \in Source /\ n.validated = r.validated /\ n.sender = r.sender
          /\ n.bye = r.bye /\ n.rtpaddr = r.rtpaddr /\ n.rtcpaddr = r.rtcpaddr
  BY <1>1 DEF Source
<1>3. LET n == SetCname(r, c)
      IN  /\ n \in Source /\ (r.validated => n.validated) /\ n.sender = r.sender
          /\ n.bye = r.bye /\ n.rtpaddr = r.rtpaddr /\ n.rtcpaddr = r.rtcpaddr
  BY <1>1 DEF Source, SetCname
<1>4. LET n == SetNote(r)
      IN  /\ n \in Source /\ n.validated = r.validated /\ n.sender = r.sender
          /\ n.bye = r.bye /\ n.rtpaddr = r.rtpaddr /\ n.rtcpaddr = r.rtcpaddr
  BY <1>1 DEF Source, SetNote
<1>5. LET n == ByeReceived(r)
      IN  /\ n \in Source /\ n.validated = r.validated /\ n.sender = r.sender
          /\ n.bye /\ n.rtpaddr = r.rtpaddr /\ n.rtcpaddr = r.rtcpaddr
  BY <1>1 DEF Source, ByeReceived
<1> QED
  BY <1>2, <1>3, <1>4, <1>5

\* What time and the timeouts make of an entry.
LEMMA AgeType ==
  ASSUME NEW r \in Source
  PROVE  /\ LET n == [r EXCEPT !.lastmsg = Older(@), !.lastrtp = Older(@),
                               !.lastnote = Older(@), !.byetime = Older(@)]
            IN  /\ n \in Source /\ n.validated = r.validated /\ n.sender = r.sender
                /\ n.bye = r.bye /\ n.rtpaddr = r.rtpaddr /\ n.rtcpaddr = r.rtcpaddr
         /\ LET n == StopSending(r)
            IN  /\ n \in Source /\ n.validated = r.validated
                /\ n.bye = r.bye /\ n.rtpaddr = r.rtpaddr /\ n.rtcpaddr = r.rtcpaddr
         /\ LET n == ForgetNote(r)
            IN  /\ n \in Source /\ n.validated = r.validated /\ n.sender = r.sender
                /\ n.bye = r.bye /\ n.rtpaddr = r.rtpaddr /\ n.rtcpaddr = r.rtcpaddr
<1>1. \A a \in Age : Older(a) \in Age
  BY DelayAssumption DEF Age, Older
<1>2. (r.sender /\ r.lastrtp <= SenderDelay) \in BOOLEAN /\ (r.note /\ r.lastnote <= NoteDelay) \in BOOLEAN
  OBVIOUS
<1> QED
  BY <1>1, <1>2 DEF Source, StopSending, ForgetNote

-----------------------------------------------------------------------------
(* The table.                                                               *)

\* A table maps sources to entries.
LEMMA ContentsFacts ==
  ASSUME NEW src \in Contents
  PROVE  /\ DOMAIN src \subseteq Ssrc
         /\ src \in [DOMAIN src -> Source]
         /\ IsFiniteSet(DOMAIN src)
<1>1. PICK present \in SUBSET Ssrc : src \in [present -> Source]
  BY DEF Contents
<1>2. DOMAIN src = present
  BY <1>1
<1> QED
  BY <1>1, <1>2, FS_Subset, SsrcAssumption

\* Functions from sources to entries are tables.
LEMMA ContentsIntro ==
  ASSUME NEW present \in SUBSET Ssrc, NEW src \in [present -> Source]
  PROVE  src \in Contents
BY DEF Contents

\* The entry of a source, or a fresh one, has the type of entries.
LEMMA EntryType ==
  ASSUME NEW T \in Tables, NEW s \in Ssrc
  PROVE  Entry(T, s) \in Source
BY ContentsFacts, NewSourceType DEF Entry, GotEntry, Tables

\* Storing an entry changes that entry only, and counts a new one.
LEMMA StoreType ==
  ASSUME NEW T \in Tables, NEW s \in Ssrc, NEW r \in Source
  PROVE  LET N == Store(T, s, r)
         IN  /\ N \in Tables
             /\ DOMAIN N.src = DOMAIN T.src \cup {s}
             /\ N.src[s] = r
             /\ \A x \in DOMAIN T.src \ {s} : N.src[x] = T.src[x]
             /\ N.own = T.own
             /\ N.total = (IF s \in DOMAIN T.src THEN T.total ELSE T.total + 1)
             /\ N.senders = T.senders /\ N.active = T.active
<1> DEFINE new == [x \in DOMAIN T.src \cup {s} |-> IF x = s THEN r ELSE T.src[x]]
<1>1. DOMAIN T.src \cup {s} \in SUBSET Ssrc /\ T.src \in [DOMAIN T.src -> Source]
  BY ContentsFacts DEF Tables
<1>2. new \in [DOMAIN T.src \cup {s} -> Source]
  BY <1>1
<1>3. new \in Contents
  BY <1>1, <1>2, ContentsIntro
<1> DEFINE total == IF s \in DOMAIN T.src THEN T.total ELSE T.total + 1
<1>4. Store(T, s, r) = [T EXCEPT !.src = new, !.total = total]
  BY DEF Store, GotEntry
<1>5. /\ DOMAIN new = DOMAIN T.src \cup {s} /\ new[s] = r
      /\ \A x \in DOMAIN T.src \ {s} : new[x] = T.src[x]
  OBVIOUS
<1>6. total \in Int /\ total = (IF s \in DOMAIN T.src THEN T.total ELSE T.total + 1)
  BY DEF Tables
<1> HIDE DEF new, total
<1>7. Store(T, s, r) \in Tables
  BY <1>3, <1>4, <1>6 DEF Tables
<1>8. LET N == Store(T, s, r)
      IN  N.src = new /\ N.total = total /\ N.own = T.own
          /\ N.senders = T.senders /\ N.active = T.active
  BY <1>4 DEF Tables
<1> QED
  BY <1>5, <1>6, <1>7, <1>8

-----------------------------------------------------------------------------
(* Counting.                                                                *)

\* What is added to a count of those for which a condition holds.
Change(before, after) ==
    IF after THEN IF before THEN 0 ELSE 1 ELSE IF before THEN -1 ELSE 0

Counts(T) ==
    /\ T.total = Cardinality(DOMAIN T.src)
    /\ T.senders = Cardinality(Senders(T))
    /\ T.active <= Cardinality(Active(T))

\* The sets that are counted are finite.
LEMMA FiniteCounts ==
  ASSUME NEW T \in Tables
  PROVE  /\ IsFiniteSet(DOMAIN T.src) /\ Cardinality(DOMAIN T.src) \in Nat
         /\ IsFiniteSet(Senders(T)) /\ Cardinality(Senders(T)) \in Nat
         /\ IsFiniteSet(Active(T)) /\ Cardinality(Active(T)) \in Nat
<1>1. IsFiniteSet(DOMAIN T.src)
  BY ContentsFacts DEF Tables
<1>2. Senders(T) \in SUBSET DOMAIN T.src /\ Active(T) \in SUBSET DOMAIN T.src
  BY DEF Senders, Active
<1> QED
  BY <1>1, <1>2, FS_Subset, FS_CardinalityType

\* A set that differs from a finite one in one member differs by one in size.
LEMMA OneMember ==
  ASSUME NEW S, NEW R, NEW x, IsFiniteSet(S), R \ {x} = S \ {x}
  PROVE  Cardinality(R) = (IF x \in S THEN IF x \in R THEN Cardinality(S)
                                           ELSE Cardinality(S) - 1
                           ELSE IF x \in R THEN Cardinality(S) + 1
                                ELSE Cardinality(S))
<1>1. CASE x \in S <=> x \in R
  <2>1. R = S
    BY <1>1
  <2> QED
    BY <2>1
<1>2. CASE x \in S /\ x \notin R
  <2>1. R = S \ {x}
    BY <1>2
  <2> QED
    BY <1>2, <2>1, FS_RemoveElement
<1>3. CASE x \notin S /\ x \in R
  <2>1. R = S \cup {x}
    BY <1>3
  <2> QED
    BY <1>3, <2>1, FS_AddElement
<1> QED
  BY <1>1, <1>2, <1>3

\* The counters follow the entry that is stored when its changes are counted.
LEMMA StoreCounts ==
  ASSUME NEW T \in Tables, Counts(T), NEW s \in Ssrc, NEW r \in Source,
         NEW N \in Tables, N.src = Store(T, s, r).src, N.total = Store(T, s, r).total,
         N.senders = T.senders + Change(Entry(T, s).sender, r.sender),
         N.active <= T.active + Change(IsActive(Entry(T, s)), IsActive(r))
  PROVE  Counts(N)
<1>1. /\ DOMAIN N.src = DOMAIN T.src \cup {s} /\ N.src[s] = r
      /\ \A x \in DOMAIN T.src \ {s} : N.src[x] = T.src[x]
      /\ N.total = (IF s \in DOMAIN T.src THEN T.total ELSE T.total + 1)
  BY StoreType
<1>2. Senders(N) \ {s} = Senders(T) \ {s} /\ Active(N) \ {s} = Active(T) \ {s}
  BY <1>1 DEF Senders, Active
<1>3. (s \in Senders(N) <=> r.sender) /\ (s \in Active(N) <=> IsActive(r))
  BY <1>1 DEF Senders, Active
<1>4. /\ s \in Senders(T) <=> Entry(T, s).sender
      /\ s \in Active(T) <=> IsActive(Entry(T, s))
  <2>1. CASE s \in DOMAIN T.src
    BY <2>1 DEF Senders, Active, Entry, GotEntry
  <2>2. CASE s \notin DOMAIN T.src
    BY <2>2 DEF Senders, Active, Entry, GotEntry, NewSource, IsActive
  <2> QED
    BY <2>1, <2>2
<1>5. /\ Cardinality(DOMAIN T.src) \in Nat /\ Cardinality(Senders(T)) \in Nat
      /\ Cardinality(Active(T)) \in Nat
      /\ T.active \in Int /\ N.active \in Int
  BY FiniteCounts DEF Tables
<1>6. N.total = Cardinality(DOMAIN N.src)
  BY <1>1, <1>5, FiniteCounts, FS_AddElement DEF Counts
<1>7. N.senders = Cardinality(Senders(N))
  <2>1. Cardinality(Senders(N)) =
          (IF s \in Senders(T) THEN IF s \in Senders(N) THEN Cardinality(Senders(T))
                                    ELSE Cardinality(Senders(T)) - 1
           ELSE IF s \in Senders(N) THEN Cardinality(Senders(T)) + 1
                ELSE Cardinality(Senders(T)))
    BY <1>2, FiniteCounts, OneMember
  <2> QED
    BY <2>1, <1>3, <1>4, <1>5 DEF Counts, Change
<1>8. N.active <= Cardinality(Active(N))
  <2>1. Cardinality(Active(N)) =
          (IF s \in Active(T) THEN IF s \in Active(N) THEN Cardinality(Active(T))
                                   ELSE Cardinality(Active(T)) - 1
           ELSE IF s \in Active(N) THEN Cardinality(Active(T)) + 1
                ELSE Cardinality(Active(T)))
    BY <1>2, FiniteCounts, OneMember
  <2> QED
    BY <2>1, <1>3, <1>4, <1>5 DEF Counts, Change
<1> QED
  BY <1>6, <1>7, <1>8 DEF Counts

-----------------------------------------------------------------------------
(* What the table keeps to.                                                 *)

OneHost(r) == Unset \in {r.rtpaddr, r.rtcpaddr} \/ r.rtpaddr = r.rtcpaddr

IsOwnEntry(r) == IsActive(r) /\ r.rtpaddr = Self /\ r.rtcpaddr = Self

OwnThere(T) ==
    T.own # NoSsrc => T.own \in DOMAIN T.src /\ IsOwnEntry(T.src[T.own])

TableInv(T) ==
    /\ Counts(T)
    /\ OwnThere(T)
    /\ \A s \in DOMAIN T.src : OneHost(T.src[s])

\* Storing an entry of one host, and for our own SSRC an entry of ours, with its
\* changes counted, keeps the table sound.
LEMMA StoreInv ==
  ASSUME NEW T \in Tables, TableInv(T), NEW s \in Ssrc, NEW r \in Source,
         NEW N \in Tables, N.src = Store(T, s, r).src, N.total = Store(T, s, r).total,
         N.own = T.own,
         N.senders = T.senders + Change(Entry(T, s).sender, r.sender),
         N.active <= T.active + Change(IsActive(Entry(T, s)), IsActive(r)),
         OneHost(r), s = T.own => IsOwnEntry(r)
  PROVE  TableInv(N)
<1>1. Counts(N)
  BY StoreCounts DEF TableInv
<1>2. /\ DOMAIN N.src = DOMAIN T.src \cup {s} /\ N.src[s] = r
      /\ \A x \in DOMAIN T.src \ {s} : N.src[x] = T.src[x]
  BY StoreType
<1>3. OwnThere(N)
  BY <1>2 DEF TableInv, OwnThere
<1>4. \A x \in DOMAIN N.src : OneHost(N.src[x])
  BY <1>2 DEF TableInv
<1> QED
  BY <1>1, <1>3, <1>4 DEF TableInv

\* An entry that is heard of from where it is known to be stays on one host, and our
\* own is heard of from ourselves only.
LEMMA HeardFacts ==
  ASSUME NEW T \in Tables, TableInv(T), NEW s \in Ssrc, NEW addr \in Address,
         NEW isrtp \in BOOLEAN, ~Clash(T, s, addr, isrtp)
  PROVE  LET r == Heard(T, s, addr, isrtp)
         IN  /\ r \in Source /\ OneHost(r)
             /\ r.sender = Entry(T, s).sender /\ r.validated = Entry(T, s).validated
             /\ r.bye = Entry(T, s).bye /\ IsActive(r) = IsActive(Entry(T, s))
             /\ s = T.own => IsOwnEntry(r)
<1> DEFINE e == Entry(T, s)
           r == Heard(T, s, addr, isrtp)
<1>1. e \in Source
  BY EntryType
<1>2. /\ r \in Source
      /\ r.validated = e.validated /\ r.sender = e.sender /\ r.bye = e.bye
      /\ r.rtpaddr = (IF isrtp THEN addr ELSE e.rtpaddr)
      /\ r.rtcpaddr = (IF isrtp THEN e.rtcpaddr ELSE addr)
  BY <1>1, SetAddressType DEF Heard
<1>3. OneHost(e)
  BY DEF TableInv, OneHost, Entry, GotEntry, NewSource
<1>4. ~Collides(e, addr, isrtp)
  BY DEF Clash
<1>5. OneHost(r)
  BY <1>2, <1>3, <1>4 DEF OneHost, Collides
<1>6. ASSUME s = T.own PROVE IsOwnEntry(r)
  <2>1. IsOwnEntry(e)
    BY <1>6, SsrcAssumption DEF TableInv, OwnThere, Entry, GotEntry
  <2>2. addr = Self
    BY <2>1, <1>4, HostAssumption DEF IsOwnEntry, Collides
  <2> QED
    BY <1>2, <2>1, <2>2 DEF IsOwnEntry, IsActive
<1>7. IsActive(r) = IsActive(e)
  BY <1>2 DEF IsActive
<1> QED
  BY <1>2, <1>5, <1>6, <1>7

\* A table with other counters.
WithCounters(T, i, j) == [T EXCEPT !.senders = i, !.active = j]

\* Counters that are set in a table leave the rest of it alone.
LEMMA CounterType ==
  ASSUME NEW T \in Tables, NEW i \in Int, NEW j \in Int
  PROVE  LET N == WithCounters(T, i, j)
         IN  /\ N \in Tables
             /\ N.src = T.src /\ N.own = T.own /\ N.total = T.total
             /\ N.senders = i /\ N.active = j
BY DEF Tables, WithCounters

\* When only members are counted the senders stay.
LEMMA ActiveOnly ==
  ASSUME NEW T \in Tables, NEW j \in Int
  PROVE  [T EXCEPT !.active = j] = WithCounters(T, T.senders, j)
BY DEF Tables, WithCounters

-----------------------------------------------------------------------------
(* What a packet, or a step of one, makes of the table.                     *)

\* An RTP packet of a source that does not collide.
LEMMA ReceiveRTPInv ==
  ASSUME NEW T \in Tables, TableInv(T), probationtype \in ProbationType,
         NEW p, p.ssrc \in Ssrc, p.addr \in Address, p.inorder \in BOOLEAN,
         ~Clash(T, p.ssrc, p.addr, TRUE)
  PROVE  LET N == ReceiveRTP(T, p)
         IN  N \in Tables /\ TableInv(N) /\ N.own = T.own /\ p.ssrc \in DOMAIN N.src
<1> DEFINE s == p.ssrc
           isown == s = T.own
           r0 == Heard(T, s, p.addr, TRUE)
           r1 == AcceptRTP(r0, p.inorder, probationtype, isown)
           S == Store(T, s, r1)
           i == IF ~r0.sender /\ r1.sender THEN S.senders + 1 ELSE S.senders
           j == IF ~IsActive(r0) /\ IsActive(r1) THEN S.active + 1 ELSE S.active
           N == ReceiveRTP(T, p)
<1>1. /\ r0 \in Source /\ OneHost(r0)
      /\ r0.sender = Entry(T, s).sender /\ IsActive(r0) = IsActive(Entry(T, s))
      /\ s = T.own => IsOwnEntry(r0)
  BY HeardFacts
<1>2. /\ r1 \in Source
      /\ r1.bye = r0.bye /\ r1.rtpaddr = r0.rtpaddr /\ r1.rtcpaddr = r0.rtcpaddr
      /\ r0.validated => r1.validated
      /\ r0.sender => r1.sender
  <2>1. isown \in BOOLEAN
    OBVIOUS
  <2> HIDE DEF r0, isown
  <2> QED
    BY <1>1, <2>1, AcceptType
<1>3. /\ S \in Tables /\ s \in DOMAIN S.src /\ S.own = T.own
      /\ S.senders = T.senders /\ S.active = T.active
  <2> HIDE DEF r1
  <2> QED
    BY <1>2, StoreType
<1>4. N = WithCounters(S, i, j)
  BY DEF ReceiveRTP, WithCounters
<1> HIDE DEF r0, r1, S, N
<1>5. T.senders \in Int /\ T.active \in Int /\ i \in Int /\ j \in Int
  BY <1>3 DEF Tables
<1>6. i = T.senders + Change(Entry(T, s).sender, r1.sender)
  BY <1>1, <1>2, <1>3, <1>5 DEF Change
<1>7. j <= T.active + Change(IsActive(Entry(T, s)), IsActive(r1))
  BY <1>1, <1>2, <1>3, <1>5 DEF Change, IsActive
<1> HIDE DEF i, j
<1>8. /\ N \in Tables /\ N.src = S.src /\ N.own = T.own /\ N.total = S.total
      /\ N.senders = i /\ N.active = j
  <2> DEFINE W == WithCounters(S, i, j)
  <2>1. /\ W \in Tables /\ W.src = S.src /\ W.own = S.own /\ W.total = S.total
        /\ W.senders = i /\ W.active = j
    BY <1>3, <1>5, CounterType
  <2> HIDE DEF W
  <2>2. N = W
    BY <1>4 DEF W
  <2> QED
    BY <1>3, <2>1, <2>2
<1>9. OneHost(r1) /\ (s = T.own => IsOwnEntry(r1))
  BY <1>1, <1>2 DEF OneHost, IsOwnEntry, IsActive
<1>10. TableInv(N)
  BY <1>2, <1>6, <1>7, <1>8, <1>9, StoreInv DEF S
<1> QED
  BY <1>3, <1>8, <1>10 DEF N

\* A CSRC that does not collide; one the table knows may become active uncounted.
LEMMA NoteCSRCInv ==
  ASSUME NEW T \in Tables, TableInv(T), NEW s \in Ssrc, NEW addr \in Address,
         ~Clash(T, s, addr, TRUE)
  PROVE  LET N == NoteCSRC(T, s, addr)
         IN  N \in Tables /\ TableInv(N) /\ N.own = T.own
<1> DEFINE e == Entry(T, s)
           new == [e EXCEPT !.validated = TRUE, !.csrc = TRUE]
           set == SetAddress(new, addr, TRUE)
           N == NoteCSRC(T, s, addr)
<1>1. e \in Source
  BY EntryType
<1>2. /\ new \in Source /\ new.validated = TRUE /\ new.sender = e.sender
      /\ new.bye = e.bye /\ new.rtpaddr = e.rtpaddr /\ new.rtcpaddr = e.rtcpaddr
  BY <1>1 DEF Source
<1>3. /\ set \in Source /\ set.validated /\ set.sender = e.sender /\ set.bye = e.bye
      /\ set.rtpaddr = addr /\ set.rtcpaddr = e.rtcpaddr
  BY <1>2, SetAddressType
<1> HIDE DEF e, new, set
<1>4. CASE s \in DOMAIN T.src
  <2>1. N = Store(T, s, set)
    BY <1>4 DEF NoteCSRC, GotEntry, e, new, set
  <2>2. /\ N \in Tables /\ N.own = T.own
        /\ N.senders = T.senders /\ N.active = T.active
    BY <1>3, <2>1, StoreType
  <2>3. LET r == Heard(T, s, addr, TRUE)
        IN  /\ OneHost(r) /\ (s = T.own => IsOwnEntry(r))
            /\ r.bye = e.bye /\ r.rtpaddr = addr /\ r.rtcpaddr = e.rtcpaddr
    BY <1>1, HeardFacts, SetAddressType DEF Heard, e
  <2>4. OneHost(set) /\ (s = T.own => IsOwnEntry(set))
    BY <1>3, <2>3 DEF OneHost, IsOwnEntry, IsActive
  <2>5. /\ T.senders + Change(e.sender, set.sender) = T.senders
        /\ T.active <= T.active + Change(IsActive(e), IsActive(set))
    BY <1>3 DEF Change, IsActive, Tables
  <2>6. TableInv(N)
    <3> HIDE DEF N
    <3> QED
      BY <1>3, <2>1, <2>2, <2>4, <2>5, StoreInv DEF e
  <2> QED
    BY <2>2, <2>6
<1>5. CASE s \notin DOMAIN T.src
  <2> DEFINE S == Store(T, s, new)
  <2>1. S \in Tables /\ S.own = T.own /\ S.senders = T.senders /\ S.active = T.active
    BY <1>2, StoreType
  <2>2. N = [S EXCEPT !.active = S.active + 1]
    BY <1>5 DEF NoteCSRC, GotEntry, e, new
  <2>3. e = NewSource
    BY <1>5 DEF e, Entry, GotEntry
  <2>4. OneHost(new) /\ ~IsActive(e) /\ IsActive(new)
    BY <1>2, <2>3 DEF OneHost, NewSource, IsActive
  <2>5. s # T.own
    BY <1>5, SsrcAssumption DEF TableInv, OwnThere
  <2> HIDE DEF S, N
  <2>6. /\ N \in Tables /\ N.src = S.src /\ N.own = T.own /\ N.total = S.total
        /\ N.senders = T.senders /\ N.active = T.active + 1
    <3>1. S.active + 1 \in Int /\ S.senders \in Int
      BY <2>1 DEF Tables
    <3>2. N = WithCounters(S, S.senders, S.active + 1)
      BY <2>1, <2>2, <3>1, ActiveOnly
    <3> QED
      BY <2>1, <3>1, <3>2, CounterType
  <2>7. /\ N.senders = T.senders + Change(e.sender, new.sender)
        /\ N.active <= T.active + Change(IsActive(e), IsActive(new))
    BY <1>2, <2>4, <2>6 DEF Change, Tables
  <2>8. TableInv(N)
    BY <1>2, <2>4, <2>5, <2>6, <2>7, StoreInv DEF e, S
  <2> QED
    BY <2>6, <2>8 DEF N
<1> QED
  BY <1>4, <1>5

\* An entry differs from what it was heard as in no flag and no address.
SameFlags(h, r) ==
    /\ r.validated = h.validated /\ r.sender = h.sender /\ r.bye = h.bye
    /\ r.rtpaddr = h.rtpaddr /\ r.rtcpaddr = h.rtcpaddr

\* An RTCP step that changes no flag of the entry.
LEMMA PlainStepInv ==
  ASSUME NEW T \in Tables, TableInv(T), NEW s \in Ssrc, NEW addr \in Address,
         ~Clash(T, s, addr, FALSE), NEW r \in Source,
         SameFlags(Heard(T, s, addr, FALSE), r)
  PROVE  LET N == Store(T, s, r)
         IN  N \in Tables /\ TableInv(N) /\ N.own = T.own
<1> DEFINE N == Store(T, s, r)
<1>1. LET h == Heard(T, s, addr, FALSE)
      IN  /\ OneHost(h) /\ (s = T.own => IsOwnEntry(h))
          /\ h.sender = Entry(T, s).sender /\ IsActive(h) = IsActive(Entry(T, s))
  BY HeardFacts
<1>2. OneHost(r) /\ (s = T.own => IsOwnEntry(r))
  BY <1>1 DEF OneHost, IsOwnEntry, IsActive, SameFlags
<1>3. N \in Tables /\ N.own = T.own /\ N.senders = T.senders /\ N.active = T.active
  BY StoreType
<1>4. /\ r.sender = Entry(T, s).sender
      /\ IsActive(r) <=> IsActive(Entry(T, s))
  BY <1>1 DEF IsActive, SameFlags
<1>5. /\ N.senders = T.senders + Change(Entry(T, s).sender, r.sender)
      /\ N.active <= T.active + Change(IsActive(Entry(T, s)), IsActive(r))
  <2>1. T.senders \in Int /\ T.active \in Int
    BY DEF Tables
  <2>2. /\ Change(Entry(T, s).sender, r.sender) = 0
        /\ Change(IsActive(Entry(T, s)), IsActive(r)) = 0
    BY <1>4 DEF Change
  <2> QED
    BY <1>3, <2>1, <2>2
<1> HIDE DEF N
<1>6. TableInv(N)
  BY <1>2, <1>3, <1>5, StoreInv DEF N
<1> QED
  BY <1>3, <1>6 DEF N

\* News of a source, sender information and the SDES items that change no flag.
LEMMA ReceiveInfoInv ==
  ASSUME NEW T \in Tables, TableInv(T), NEW s \in Ssrc, NEW addr \in Address,
         ~Clash(T, s, addr, FALSE)
  PROVE  /\ LET N == ReceiveInfo(T, s, addr)
            IN  N \in Tables /\ TableInv(N) /\ N.own = T.own
         /\ LET N == ReceiveNote(T, s, addr)
            IN  N \in Tables /\ TableInv(N) /\ N.own = T.own
<1> DEFINE h == Heard(T, s, addr, FALSE)
<1>1. h \in Source
  BY HeardFacts
<1>2. LET N == Store(T, s, [h EXCEPT !.lastmsg = 0])
      IN  N \in Tables /\ TableInv(N) /\ N.own = T.own
  <2> DEFINE r == [h EXCEPT !.lastmsg = 0]
  <2>1. r \in Source /\ SameFlags(h, r)
    <3> HIDE DEF h
    <3> QED
      BY <1>1, InfoType DEF SameFlags
  <2> QED
    BY <2>1, PlainStepInv
<1>3. LET N == Store(T, s, SetNote(h))
      IN  N \in Tables /\ TableInv(N) /\ N.own = T.own
  <2> DEFINE r == SetNote(h)
  <2>1. r \in Source /\ SameFlags(h, r)
    <3> HIDE DEF h
    <3> QED
      BY <1>1, InfoType DEF SameFlags
  <2> QED
    BY <2>1, PlainStepInv
<1> QED
  BY <1>2, <1>3 DEF ReceiveInfo, ReceiveNote

\* A CNAME makes its source a validated one.
LEMMA ReceiveCnameInv ==
  ASSUME NEW T \in Tables, TableInv(T), NEW s \in Ssrc, NEW addr \in Address,
         NEW c \in Cname \cup {NoName}, ~Clash(T, s, addr, FALSE)
  PROVE  LET N == ReceiveCname(T, s, addr, c)
         IN  N \in Tables /\ TableInv(N) /\ N.own = T.own
<1> DEFINE r0 == Heard(T, s, addr, FALSE)
           r1 == SetCname(r0, c)
           S == Store(T, s, r1)
           j == IF ~IsActive(r0) /\ IsActive(r1) THEN S.active + 1 ELSE S.active
           N == ReceiveCname(T, s, addr, c)
<1>1. /\ r0 \in Source /\ OneHost(r0)
      /\ r0.sender = Entry(T, s).sender /\ IsActive(r0) = IsActive(Entry(T, s))
      /\ s = T.own => IsOwnEntry(r0)
  BY HeardFacts
<1>2. /\ r1 \in Source /\ r1.sender = r0.sender
      /\ r1.bye = r0.bye /\ r1.rtpaddr = r0.rtpaddr /\ r1.rtcpaddr = r0.rtcpaddr
      /\ r0.validated => r1.validated
  <2> HIDE DEF r0
  <2> QED
    BY <1>1, InfoType
<1>3. S \in Tables /\ S.own = T.own /\ S.senders = T.senders /\ S.active = T.active
  <2> HIDE DEF r1
  <2> QED
    BY <1>2, StoreType
<1>4. N = [S EXCEPT !.active = j]
  BY DEF ReceiveCname
<1> HIDE DEF r0, r1, S, N
<1>5. T.senders \in Int /\ T.active \in Int /\ S.senders \in Int /\ j \in Int
  BY <1>3 DEF Tables
<1>6. j <= T.active + Change(IsActive(Entry(T, s)), IsActive(r1))
  BY <1>1, <1>2, <1>3, <1>5 DEF Change, IsActive
<1>7. S.senders = T.senders + Change(Entry(T, s).sender, r1.sender)
  BY <1>1, <1>2, <1>3, <1>5 DEF Change
<1> HIDE DEF j
<1>8. /\ N \in Tables /\ N.src = S.src /\ N.own = T.own /\ N.total = S.total
      /\ N.senders = S.senders /\ N.active = j
  <2>1. N = WithCounters(S, S.senders, j)
    BY <1>3, <1>4, <1>5, ActiveOnly
  <2> QED
    BY <1>3, <1>5, <2>1, CounterType
<1>9. OneHost(r1) /\ (s = T.own => IsOwnEntry(r1))
  BY <1>1, <1>2 DEF OneHost, IsOwnEntry, IsActive
<1>10. TableInv(N)
  BY <1>2, <1>6, <1>7, <1>8, <1>9, StoreInv DEF S
<1> QED
  BY <1>8, <1>10 DEF N

\* A BYE ends the membership of its source, and our own ignores one.
LEMMA ReceiveByeInv ==
  ASSUME NEW T \in Tables, TableInv(T), NEW s \in Ssrc, NEW addr \in Address,
         ~Clash(T, s, addr, FALSE)
  PROVE  LET N == ReceiveBye(T, s, addr)
         IN  N \in Tables /\ TableInv(N) /\ N.own = T.own
<1> DEFINE r0 == Heard(T, s, addr, FALSE)
           r1 == ByeReceived(r0)
           S == Store(T, s, r1)
           j == IF IsActive(r0) THEN S.active - 1 ELSE S.active
           N == ReceiveBye(T, s, addr)
<1>1. /\ r0 \in Source /\ OneHost(r0)
      /\ r0.sender = Entry(T, s).sender /\ IsActive(r0) = IsActive(Entry(T, s))
  BY HeardFacts
<1>2. /\ r1 \in Source /\ r1.sender = r0.sender /\ r1.bye
      /\ r1.rtpaddr = r0.rtpaddr /\ r1.rtcpaddr = r0.rtcpaddr
  <2> HIDE DEF r0
  <2> QED
    BY <1>1, InfoType
<1>3. S \in Tables /\ S.own = T.own /\ S.senders = T.senders /\ S.active = T.active
  <2> HIDE DEF r1
  <2> QED
    BY <1>2, StoreType
<1>4. CASE s = T.own
  <2>1. N = Store(T, s, r0)
    BY <1>4 DEF ReceiveBye
  <2>2. SameFlags(r0, r0)
    BY DEF SameFlags
  <2> HIDE DEF N
  <2> QED
    BY <1>1, <2>1, <2>2, PlainStepInv DEF N
<1>5. CASE s # T.own
  <2>1. N = [S EXCEPT !.active = j]
    BY <1>5 DEF ReceiveBye
  <2> HIDE DEF r0, r1, S, N
  <2>2. T.senders \in Int /\ T.active \in Int /\ S.senders \in Int /\ j \in Int
    BY <1>3 DEF Tables
  <2>3. /\ S.senders = T.senders + Change(Entry(T, s).sender, r1.sender)
        /\ j <= T.active + Change(IsActive(Entry(T, s)), IsActive(r1))
    BY <1>1, <1>2, <1>3, <2>2 DEF Change, IsActive
  <2> HIDE DEF j
  <2>4. /\ N \in Tables /\ N.src = S.src /\ N.own = T.own /\ N.total = S.total
        /\ N.senders = S.senders /\ N.active = j
    <3>1. N = WithCounters(S, S.senders, j)
      BY <1>3, <2>1, <2>2, ActiveOnly
    <3> QED
      BY <1>3, <2>2, <3>1, CounterType
  <2>5. OneHost(r1)
    BY <1>1, <1>2 DEF OneHost
  <2>6. TableInv(N)
    BY <1>2, <1>5, <2>3, <2>4, <2>5, StoreInv DEF S
  <2> QED
    BY <2>4, <2>6 DEF N
<1> QED
  BY <1>4, <1>5

\* Any step of a packet whose source does not collide.
LEMMA StepResultInv ==
  ASSUME NEW T \in Tables, TableInv(T), NEW e \in StepSet,
         ~Clash(T, e.ssrc, e.addr, e.do = "csrc")
  PROVE  LET N == StepResult(T, e)
         IN  N \in Tables /\ TableInv(N) /\ N.own = T.own
<1>1. /\ e.do \in {"csrc", "info", "cname", "note", "bye"}
      /\ e.ssrc \in Ssrc /\ e.addr \in Address /\ e.cname \in Cname \cup {NoName}
  BY DEF StepSet
<1>2. CASE e.do = "csrc"
  <2>1. ~Clash(T, e.ssrc, e.addr, TRUE) /\ StepResult(T, e) = NoteCSRC(T, e.ssrc, e.addr)
    BY <1>2 DEF StepResult
  <2> QED
    BY <1>1, <2>1, NoteCSRCInv
<1>3. CASE e.do # "csrc"
  <2>1. ~Clash(T, e.ssrc, e.addr, FALSE)
    BY <1>3
  <2>2. CASE e.do = "cname"
    BY <1>1, <2>1, <2>2, ReceiveCnameInv DEF StepResult
  <2>3. CASE e.do = "note"
    BY <1>1, <2>1, <2>3, ReceiveInfoInv DEF StepResult
  <2>4. CASE e.do = "bye"
    BY <1>1, <2>1, <2>4, ReceiveByeInv DEF StepResult
  <2>5. CASE e.do = "info"
    BY <1>1, <2>1, <2>5, ReceiveInfoInv DEF StepResult
  <2> QED
    BY <1>1, <1>3, <2>2, <2>3, <2>4, <2>5
<1> QED
  BY <1>2, <1>3

-----------------------------------------------------------------------------
(* Timeouts.                                                                *)

\* Only the own SSRC is left of the table that is recounted.
LEMMA RecountIs ==
  ASSUME NEW T \in Tables, NEW src
  PROVE  Recount(T, src) =
           [src |-> src, own |-> T.own, total |-> Cardinality(DOMAIN src),
            senders |-> Cardinality({s \in DOMAIN src : src[s].sender}),
            active |-> Cardinality({s \in DOMAIN src : IsActive(src[s])})]
<1> DEFINE i == Cardinality(DOMAIN src)
           j == Cardinality({s \in DOMAIN src : src[s].sender})
           k == Cardinality({s \in DOMAIN src : IsActive(src[s])})
<1>1. Recount(T, src) = [T EXCEPT !.src = src, !.total = i, !.senders = j, !.active = k]
  BY DEF Recount
<1> HIDE DEF i, j, k
<1>2. Recount(T, src) = [src |-> src, own |-> T.own, total |-> i, senders |-> j, active |-> k]
  BY <1>1 DEF Tables
<1> QED
  BY <1>2 DEF i, j, k

\* A recount sets the contents and every counter, and nothing else.
LEMMA RecountType ==
  ASSUME NEW T \in Tables, NEW src \in Contents
  PROVE  LET N == Recount(T, src)
         IN  /\ N \in Tables /\ N.src = src /\ N.own = T.own
             /\ N.total = Cardinality(DOMAIN src)
             /\ N.senders = Cardinality({s \in DOMAIN src : src[s].sender})
             /\ N.active = Cardinality({s \in DOMAIN src : IsActive(src[s])})
<1> DEFINE i == Cardinality(DOMAIN src)
           j == Cardinality({s \in DOMAIN src : src[s].sender})
           k == Cardinality({s \in DOMAIN src : IsActive(src[s])})
<1>1. i \in Nat /\ j \in Nat /\ k \in Nat
  <2>1. IsFiniteSet(DOMAIN src)
    BY ContentsFacts
  <2> QED
    BY <2>1, FS_Subset, FS_CardinalityType
<1>2. Recount(T, src) = [src |-> src, own |-> T.own, total |-> i, senders |-> j, active |-> k]
  BY RecountIs
<1> HIDE DEF i, j, k
<1>3. LET N == Recount(T, src)
      IN  /\ N \in Tables /\ N.src = src /\ N.own = T.own
          /\ N.total = i /\ N.senders = j /\ N.active = k
  BY <1>1, <1>2 DEF Tables
<1> QED
  BY <1>3 DEF i, j, k

\* An entry that is kept, and may have stopped sending or lost its note.
Kept(r, n) ==
    /\ n \in Source
    /\ n.validated = r.validated /\ n.bye = r.bye
    /\ n.rtpaddr = r.rtpaddr /\ n.rtcpaddr = r.rtcpaddr

\* A timeout that keeps our own entry leaves a sound table, with exact counters.
LEMMA RecountInv ==
  ASSUME NEW T \in Tables, TableInv(T), NEW kept \in SUBSET DOMAIN T.src,
         NEW src, src = [s \in kept |-> src[s]],
         T.own \in DOMAIN T.src => T.own \in kept,
         \A s \in kept : Kept(T.src[s], src[s])
  PROVE  LET N == Recount(T, src)
         IN  /\ N \in Tables /\ TableInv(N) /\ N.own = T.own /\ N.src = src
             /\ N.active = Cardinality(Active(N))
<1> DEFINE N == Recount(T, src)
<1>1. kept \in SUBSET Ssrc /\ DOMAIN src = kept /\ src \in [kept -> Source]
  BY ContentsFacts DEF Tables, Kept
<1>2. src \in Contents
  BY <1>1, ContentsIntro
<1>3. /\ N \in Tables /\ N.src = src /\ N.own = T.own
      /\ N.total = Cardinality(DOMAIN src)
      /\ N.senders = Cardinality({s \in DOMAIN src : src[s].sender})
      /\ N.active = Cardinality({s \in DOMAIN src : IsActive(src[s])})
  BY <1>2, RecountType
<1> HIDE DEF N
<1>4. N.active = Cardinality(Active(N)) /\ N.senders = Cardinality(Senders(N))
  BY <1>3 DEF Active, Senders
<1>5. N.active \in Int
  BY <1>3 DEF Tables
<1>6. Counts(N)
  BY <1>3, <1>4, <1>5 DEF Counts
<1>7. OwnThere(N)
  BY <1>1, <1>3 DEF TableInv, OwnThere, Kept, IsOwnEntry, IsActive
<1>8. \A s \in DOMAIN N.src : OneHost(N.src[s])
  BY <1>1, <1>3 DEF TableInv, Kept, OneHost
<1> QED
  BY <1>3, <1>4, <1>6, <1>7, <1>8 DEF TableInv, N

\* Each of the five timeout functions.
LEMMA TimeoutInv ==
  ASSUME NEW T \in Tables, TableInv(T),
         NEW N \in {MultipleTimeouts(T), Timeout(T), BYETimeout(T), SenderTimeout(T),
                    NoteTimeout(T)}
  PROVE  N \in Tables /\ TableInv(N) /\ N.own = T.own
<1>1. T.src \in [DOMAIN T.src -> Source]
  BY ContentsFacts DEF Tables
<1>2. \A s \in DOMAIN T.src : LET r == T.src[s]
                              IN  /\ Kept(r, r) /\ Kept(r, StopSending(r))
                                  /\ Kept(r, ForgetNote(r))
                                  /\ Kept(r, StopSending(ForgetNote(r)))
  <2> SUFFICES ASSUME NEW s \in DOMAIN T.src
               PROVE  LET r == T.src[s]
                      IN  /\ Kept(r, r) /\ Kept(r, StopSending(r))
                          /\ Kept(r, ForgetNote(r)) /\ Kept(r, StopSending(ForgetNote(r)))
    OBVIOUS
  <2>1. T.src[s] \in Source
    BY <1>1
  <2>2. Kept(T.src[s], T.src[s])
    BY <2>1 DEF Kept
  <2>3. Kept(T.src[s], StopSending(T.src[s]))
    BY <2>1, AgeType DEF Kept
  <2>4. Kept(T.src[s], ForgetNote(T.src[s]))
    BY <2>1, AgeType DEF Kept
  <2>5. Kept(ForgetNote(T.src[s]), StopSending(ForgetNote(T.src[s])))
    BY <2>4, AgeType DEF Kept
  <2> QED
    BY <2>2, <2>3, <2>4, <2>5 DEF Kept
<1>3. CASE N = MultipleTimeouts(T)
  <2> DEFINE kept == {s \in DOMAIN T.src : ~Left(T, s) /\ ~Silent(T, s)}
             src == [s \in kept |-> StopSending(ForgetNote(T.src[s]))]
  <2>1. N = Recount(T, src)
    BY <1>3 DEF MultipleTimeouts
  <2>2. /\ kept \in SUBSET DOMAIN T.src
        /\ T.own \in DOMAIN T.src => T.own \in kept
    BY DEF Left, Silent
  <2>3. src = [s \in kept |-> src[s]] /\ \A s \in kept : Kept(T.src[s], src[s])
    BY <1>2
  <2> HIDE DEF kept, src
  <2> QED
    BY <2>1, <2>2, <2>3, RecountInv
<1>4. CASE N = Timeout(T)
  <2> DEFINE kept == {s \in DOMAIN T.src : ~Silent(T, s)}
             src == [s \in kept |-> T.src[s]]
  <2>1. N = Recount(T, src)
    BY <1>4 DEF Timeout
  <2>2. /\ kept \in SUBSET DOMAIN T.src
        /\ T.own \in DOMAIN T.src => T.own \in kept
    BY DEF Silent
  <2>3. src = [s \in kept |-> src[s]] /\ \A s \in kept : Kept(T.src[s], src[s])
    BY <1>2
  <2> HIDE DEF kept, src
  <2> QED
    BY <2>1, <2>2, <2>3, RecountInv
<1>5. CASE N = BYETimeout(T)
  <2> DEFINE kept == {s \in DOMAIN T.src : ~Left(T, s)}
             src == [s \in kept |-> T.src[s]]
  <2>1. N = Recount(T, src)
    BY <1>5 DEF BYETimeout
  <2>2. /\ kept \in SUBSET DOMAIN T.src
        /\ T.own \in DOMAIN T.src => T.own \in kept
    BY DEF Left
  <2>3. src = [s \in kept |-> src[s]] /\ \A s \in kept : Kept(T.src[s], src[s])
    BY <1>2
  <2> HIDE DEF kept, src
  <2> QED
    BY <2>1, <2>2, <2>3, RecountInv
<1>6. CASE N = SenderTimeout(T)
  <2> DEFINE src == [s \in DOMAIN T.src |-> StopSending(T.src[s])]
  <2>1. N = Recount(T, src)
    BY <1>6 DEF SenderTimeout
  <2>2. src = [s \in DOMAIN T.src |-> src[s]] /\ \A s \in DOMAIN T.src : Kept(T.src[s], src[s])
    BY <1>2
  <2> HIDE DEF src
  <2> QED
    BY <2>1, <2>2, RecountInv
<1>7. CASE N = NoteTimeout(T)
  <2> DEFINE src == [s \in DOMAIN T.src |-> ForgetNote(T.src[s])]
  <2>1. N = Recount(T, src)
    BY <1>7 DEF NoteTimeout
  <2>2. src = [s \in DOMAIN T.src |-> src[s]] /\ \A s \in DOMAIN T.src : Kept(T.src[s], src[s])
    BY <1>2
  <2> HIDE DEF src
  <2> QED
    BY <2>1, <2>2, RecountInv
<1> QED
  BY <1>3, <1>4, <1>5, <1>6, <1>7

-----------------------------------------------------------------------------
(* The actions.                                                             *)

IInv ==
    /\ table \in Tables /\ TableInv(table)
    /\ probationtype \in ProbationType
    /\ acceptown \in BOOLEAN /\ owncollision \in BOOLEAN
    /\ pending \in Seq(StepSet)

\* A table without entries, counters at zero.
LEMMA EmptyInv == EmptyTable \in Tables /\ TableInv(EmptyTable)
<1>1. DOMAIN EmptyTable.src = {}
  BY DEF EmptyTable
<1>2. EmptyTable.src \in [{} -> Source]
  BY DEF EmptyTable
<1>3. EmptyTable.src \in Contents
  BY <1>2, ContentsIntro
<1>4. EmptyTable \in Tables
  BY <1>3 DEF EmptyTable, Tables
<1>5. Senders(EmptyTable) = {} /\ Active(EmptyTable) = {}
  BY <1>1 DEF Senders, Active
<1>6. Counts(EmptyTable)
  <2>1. EmptyTable.total = 0 /\ EmptyTable.senders = 0 /\ EmptyTable.active = 0
    BY DEF EmptyTable
  <2> QED
    BY <1>1, <1>5, <2>1, FS_EmptySet DEF Counts
<1>7. OwnThere(EmptyTable)
  BY DEF OwnThere, EmptyTable
<1> QED
  BY <1>1, <1>4, <1>6, <1>7 DEF TableInv

\* Our own entry is new, validated and ours.
LEMMA CreateStep ==
  ASSUME IInv, NEW s \in Ssrc, CreateOwnSSRC(s)
  PROVE  table' \in Tables /\ TableInv(table')
<1> DEFINE r == [NewSource EXCEPT !.validated = TRUE, !.rtpaddr = Self, !.rtcpaddr = Self]
           S == Store(table, s, r)
           j == S.active + 1
           N == table'
<1>1. r \in Source /\ ~r.sender /\ IsOwnEntry(r) /\ OneHost(r)
  <2>1. /\ r.validated = TRUE /\ r.bye = FALSE /\ r.sender = FALSE
        /\ r.rtpaddr = Self /\ r.rtcpaddr = Self
    BY DEF NewSource
  <2>2. r \in Source
    BY NewSourceType DEF Source, Address
  <2> QED
    BY <2>1, <2>2 DEF IsOwnEntry, OneHost, IsActive
<1>2. /\ s \notin DOMAIN table.src /\ table.own = NoSsrc /\ table \in Tables
      /\ TableInv(table) /\ N = [S EXCEPT !.own = s, !.active = j]
  BY DEF CreateOwnSSRC, GotEntry, IInv
<1> HIDE DEF r
<1>3. /\ S \in Tables /\ DOMAIN S.src = DOMAIN table.src \cup {s} /\ S.src[s] = r
      /\ \A x \in DOMAIN table.src \ {s} : S.src[x] = table.src[x]
      /\ S.senders = table.senders /\ S.active = table.active
  BY <1>1, <1>2, StoreType
<1> HIDE DEF N, S
<1>4. /\ N \in Tables /\ N.src = S.src /\ N.own = s /\ N.total = S.total
      /\ N.senders = S.senders /\ N.active = S.active + 1
  <2>1. j \in Int /\ j = S.active + 1
    BY <1>3 DEF Tables
  <2> HIDE DEF j
  <2> QED
    BY <1>2, <1>3, <2>1 DEF Tables
<1>5. Entry(table, s) = NewSource
  BY <1>2 DEF Entry, GotEntry
<1>6. /\ N.senders = table.senders + Change(Entry(table, s).sender, r.sender)
      /\ N.active <= table.active + Change(IsActive(Entry(table, s)), IsActive(r))
  BY <1>1, <1>2, <1>3, <1>4, <1>5 DEF Change, NewSource, IsActive, IsOwnEntry, Tables
<1>7. Counts(N)
  BY <1>1, <1>2, <1>4, <1>6, StoreCounts DEF S, TableInv
<1>8. OwnThere(N)
  BY <1>1, <1>3, <1>4 DEF OwnThere
<1>9. \A x \in DOMAIN N.src : OneHost(N.src[x])
  BY <1>1, <1>2, <1>3, <1>4 DEF TableInv
<1>10. N \in Tables /\ TableInv(N)
  BY <1>4, <1>7, <1>8, <1>9 DEF TableInv
<1> QED
  BY <1>10 DEF N

\* Every counter forgets our own entry.
LEMMA DeleteStep ==
  ASSUME IInv, DeleteOwnSSRC
  PROVE  table' \in Tables /\ TableInv(table')
<1> DEFINE o == table.own
           rest == DOMAIN table.src \ {o}
           src == [s \in rest |-> table.src[s]]
           N == table'
<1>1. /\ table \in Tables /\ TableInv(table) /\ o \in DOMAIN table.src
      /\ table.total \in Int /\ table.senders \in Int /\ table.active \in Int
  BY DEF IInv, DeleteOwnSSRC, TableInv, OwnThere, Tables
<1>2. N = [src |-> src, own |-> NoSsrc, total |-> table.total - 1,
           senders |-> IF table.src[o].sender THEN table.senders - 1 ELSE table.senders,
           active |-> IF IsActive(table.src[o]) THEN table.active - 1 ELSE table.active]
  BY DEF DeleteOwnSSRC
<1>3. rest \in SUBSET Ssrc /\ src \in [rest -> Source] /\ src \in Contents
  <2>1. rest \in SUBSET Ssrc /\ src \in [rest -> Source]
    BY <1>1, ContentsFacts DEF Tables
  <2> QED
    BY <2>1, ContentsIntro
<1>4. DOMAIN src = rest /\ \A s \in rest : src[s] = table.src[s]
  OBVIOUS
<1> HIDE DEF src, N
<1>5. N \in Tables
  BY <1>1, <1>2, <1>3 DEF Tables
<1>6. /\ DOMAIN N.src = rest /\ \A s \in rest : N.src[s] = table.src[s]
      /\ N.own = NoSsrc /\ N.total = table.total - 1
      /\ N.senders = IF table.src[o].sender THEN table.senders - 1 ELSE table.senders
      /\ N.active = IF IsActive(table.src[o]) THEN table.active - 1 ELSE table.active
  BY <1>2, <1>4
<1>7. Senders(N) = Senders(table) \ {o} /\ Active(N) = Active(table) \ {o}
  BY <1>6 DEF Senders, Active
<1>8. /\ o \in Senders(table) <=> table.src[o].sender
      /\ o \in Active(table) <=> IsActive(table.src[o])
  BY <1>1 DEF Senders, Active
<1>9. N.total = Cardinality(DOMAIN N.src)
  BY <1>1, <1>6, FiniteCounts, FS_RemoveElement DEF TableInv, Counts
<1>10. N.senders = Cardinality(Senders(N))
  <2>1. Cardinality(Senders(N)) = IF o \in Senders(table) THEN Cardinality(Senders(table)) - 1
                                 ELSE Cardinality(Senders(table))
    BY <1>1, <1>7, FiniteCounts, FS_RemoveElement
  <2>2. Cardinality(Senders(table)) \in Nat /\ table.senders = Cardinality(Senders(table))
    BY <1>1, FiniteCounts DEF TableInv, Counts
  <2> QED
    BY <1>1, <1>6, <1>8, <2>1, <2>2
<1>11. N.active <= Cardinality(Active(N))
  <2>1. Cardinality(Active(N)) = IF o \in Active(table) THEN Cardinality(Active(table)) - 1
                                 ELSE Cardinality(Active(table))
    BY <1>1, <1>7, FiniteCounts, FS_RemoveElement
  <2>2. Cardinality(Active(table)) \in Nat /\ table.active <= Cardinality(Active(table))
    BY <1>1, FiniteCounts DEF TableInv, Counts
  <2> QED
    BY <1>1, <1>6, <1>8, <2>1, <2>2
<1>12. Counts(N)
  BY <1>9, <1>10, <1>11 DEF Counts
<1>13. OwnThere(N) /\ \A s \in DOMAIN N.src : OneHost(N.src[s])
  BY <1>1, <1>6 DEF OwnThere, TableInv
<1> QED
  BY <1>5, <1>12, <1>13 DEF TableInv, N

\* A step that changes no flag and no counter.
LEMMA SameMembers ==
  ASSUME NEW T \in Tables, TableInv(T), NEW N \in Tables,
         N.own = T.own, N.total = T.total, N.senders = T.senders, N.active = T.active,
         DOMAIN N.src = DOMAIN T.src,
         \A s \in DOMAIN T.src : SameFlags(T.src[s], N.src[s])
  PROVE  TableInv(N)
<1>1. Senders(N) = Senders(T) /\ Active(N) = Active(T)
  BY DEF Senders, Active, SameFlags, IsActive
<1>2. Counts(N)
  BY <1>1 DEF TableInv, Counts
<1>3. OwnThere(N)
  BY DEF TableInv, OwnThere, SameFlags, IsOwnEntry, IsActive
<1>4. \A s \in DOMAIN N.src : OneHost(N.src[s])
  BY DEF TableInv, SameFlags, OneHost
<1> QED
  BY <1>2, <1>3, <1>4 DEF TableInv

\* We are a sender when we have sent.
LEMMA SentStep ==
  ASSUME IInv, SentRTPPacket
  PROVE  table' \in Tables /\ TableInv(table') /\ table'.own = table.own
<1> DEFINE o == table.own
           r == [table.src[o] EXCEPT !.sender = TRUE, !.lastrtp = 0, !.lastmsg = 0]
           src == [table.src EXCEPT ![o] = r]
           i == IF table.src[o].sender THEN table.senders ELSE table.senders + 1
           N == table'
<1>1. /\ table \in Tables /\ TableInv(table) /\ o \in DOMAIN table.src /\ o \in Ssrc
      /\ table.senders \in Int /\ table.active \in Int /\ table.src \in Contents
      /\ IsOwnEntry(table.src[o]) /\ OneHost(table.src[o])
      /\ Entry(table, o) = table.src[o]
  BY ContentsFacts DEF IInv, SentRTPPacket, TableInv, OwnThere, Tables, Entry, GotEntry
<1>2. N = [table EXCEPT !.src = src, !.senders = i]
  BY <1>1 DEF SentRTPPacket, Tables
<1>3. r \in Source /\ r.sender = TRUE /\ IsOwnEntry(r) /\ OneHost(r)
  <2>1. table.src[o] \in Source /\ 0 \in Age
    BY <1>1, ContentsFacts, DelayAssumption DEF Age
  <2> HIDE DEF o
  <2> QED
    BY <1>1, <2>1 DEF Source, IsOwnEntry, IsActive, OneHost
<1> HIDE DEF r
<1>4. src = Store(table, o, r).src /\ Store(table, o, r).total = table.total
  <2>1. table.src = [s \in DOMAIN table.src |-> table.src[s]] /\ DOMAIN table.src \cup {o} = DOMAIN table.src
    BY <1>1, ContentsFacts
  <2>2. src = [x \in DOMAIN table.src \cup {o} |-> IF x = o THEN r ELSE table.src[x]]
    BY <1>1, <2>1
  <2> HIDE DEF src
  <2> QED
    BY <1>1, <2>2 DEF Store, GotEntry, Tables
<1>5. src \in Contents
  BY <1>1, <1>3, <1>4, StoreType DEF Tables
<1> HIDE DEF src, N
<1>6. /\ N \in Tables /\ N.src = src /\ N.own = o /\ N.total = table.total
      /\ N.senders = i /\ N.active = table.active
  <2>1. i \in Int
    BY <1>1
  <2> HIDE DEF i
  <2> QED
    BY <1>1, <1>2, <1>5, <2>1 DEF Tables
<1>7. /\ i = table.senders + Change(table.src[o].sender, r.sender)
      /\ table.active <= table.active + Change(IsActive(table.src[o]), IsActive(r))
  BY <1>1, <1>3 DEF Change, IsOwnEntry
<1> HIDE DEF i
<1>8. TableInv(N)
  BY <1>1, <1>3, <1>4, <1>6, <1>7, StoreInv
<1> QED
  BY <1>6, <1>8 DEF N

\* An RTP packet is the source's news, and its CSRCs the steps left.
LEMMA PacketStep ==
  ASSUME IInv, NEW p \in RtpPacket, ProcessRTPPacket(p)
  PROVE  /\ table' \in Tables /\ TableInv(table') /\ table'.own = table.own
         /\ pending' \in Seq(StepSet) /\ owncollision' \in BOOLEAN
<1>1. /\ p.ssrc \in Ssrc /\ p.addr \in Address /\ p.inorder \in BOOLEAN
      /\ p.csrcs \in Seq(Ssrc)
  BY DEF RtpPacket
<1>2. /\ table \in Tables /\ TableInv(table) /\ probationtype \in ProbationType
  BY DEF IInv
<1>3. /\ table' \in Tables /\ TableInv(table') /\ table'.own = table.own
  <2>1. CASE Clash(table, p.ssrc, p.addr, TRUE)
    BY <1>2, <2>1 DEF ProcessRTPPacket
  <2>2. CASE ~Clash(table, p.ssrc, p.addr, TRUE)
    <3>1. table' = ReceiveRTP(table, p)
      BY <2>2 DEF ProcessRTPPacket
    <3> QED
      BY <1>1, <1>2, <2>2, <3>1, ReceiveRTPInv
  <2> QED
    BY <2>1, <2>2
<1>4. pending' \in Seq(StepSet)
  <2> DEFINE steps == [i \in DOMAIN p.csrcs |-> Step("csrc", p.csrcs[i], p.addr, NoName)]
  <2>1. DOMAIN p.csrcs = 1..Len(p.csrcs) /\ Len(p.csrcs) \in Nat
    BY <1>1
  <2>2. \A i \in DOMAIN p.csrcs : Step("csrc", p.csrcs[i], p.addr, NoName) \in StepSet
    BY <1>1 DEF Step, StepSet
  <2>3. steps \in Seq(StepSet)
    BY <2>1, <2>2
  <2>4. pending' = steps \/ pending' = <<>>
    BY DEF ProcessRTPPacket
  <2>5. <<>> \in Seq(StepSet)
    OBVIOUS
  <2> HIDE DEF steps
  <2> QED
    BY <2>3, <2>4, <2>5
<1>5. owncollision' \in BOOLEAN
  BY DEF ProcessRTPPacket
<1> QED
  BY <1>3, <1>4, <1>5

\* The steps of a packet of a compound are steps.
LEMMA PacketStepsType ==
  ASSUME NEW q \in Report \cup OtherPacket, NEW addr \in Address
  PROVE  PacketSteps(q, addr) \in Seq(StepSet)
<1>1. /\ q.type \in {"SR", "RR", "SDES", "BYE", "APP"}
      /\ q.ssrcs \in Seq(Ssrc) /\ q.ssrcs # <<>> /\ q.items \in Seq(Item)
  <2>1. <<>> \in Seq(Item)
    OBVIOUS
  <2>2. CASE q \in Report
    BY <2>1, <2>2 DEF Report
  <2>3. CASE q \in OtherPacket
    BY <2>3 DEF OtherPacket
  <2> QED
    BY <2>2, <2>3
<1>2. q.ssrcs[1] \in Ssrc
  BY <1>1
<1>3. Step("info", q.ssrcs[1], addr, NoName) \in StepSet
  BY <1>2 DEF Step, StepSet
<1>4. [i \in DOMAIN q.items |-> Step(q.items[i].do, q.ssrcs[1], addr, q.items[i].cname)]
        \in Seq(StepSet)
  <2>1. \A i \in DOMAIN q.items : q.items[i] \in Item
    BY <1>1
  <2>2. \A i \in DOMAIN q.items :
           Step(q.items[i].do, q.ssrcs[1], addr, q.items[i].cname) \in StepSet
    BY <1>2, <2>1 DEF Item, Step, StepSet
  <2>3. DOMAIN q.items = 1..Len(q.items) /\ Len(q.items) \in Nat
    BY <1>1
  <2> QED
    BY <2>2, <2>3
<1>5. [i \in DOMAIN q.ssrcs |-> Step("bye", q.ssrcs[i], addr, NoName)] \in Seq(StepSet)
  <2>1. \A i \in DOMAIN q.ssrcs : Step("bye", q.ssrcs[i], addr, NoName) \in StepSet
    BY <1>1 DEF Step, StepSet
  <2>2. DOMAIN q.ssrcs = 1..Len(q.ssrcs) /\ Len(q.ssrcs) \in Nat
    BY <1>1
  <2> QED
    BY <2>1, <2>2
<1>6. CASE q.type = "SR"
  <2>1. PacketSteps(q, addr) = <<Step("info", q.ssrcs[1], addr, NoName),
                                 Step("info", q.ssrcs[1], addr, NoName)>>
    BY <1>6 DEF PacketSteps
  <2> QED
    BY <1>3, <2>1
<1>7. CASE q.type = "RR" \/ (q.type = "SDES" /\ q.items = <<>>)
  <2>1. PacketSteps(q, addr) = <<Step("info", q.ssrcs[1], addr, NoName)>>
    BY <1>7 DEF PacketSteps
  <2> QED
    BY <1>3, <2>1
<1>8. CASE q.type = "SDES" /\ q.items # <<>>
  BY <1>4, <1>8 DEF PacketSteps
<1>9. CASE q.type = "BYE"
  BY <1>5, <1>9 DEF PacketSteps
<1>10. CASE q.type = "APP"
  BY <1>10 DEF PacketSteps
<1> QED
  BY <1>1, <1>6, <1>7, <1>8, <1>9, <1>10

\* A step of a packet changes nothing when its source collides.
LEMMA StepStep ==
  ASSUME IInv, ProcessStep
  PROVE  /\ table' \in Tables /\ TableInv(table') /\ table'.own = table.own
         /\ pending' \in Seq(StepSet) /\ owncollision' \in BOOLEAN
<1> DEFINE e == Head(pending)
<1>1. e \in StepSet /\ Tail(pending) \in Seq(StepSet)
  BY DEF IInv, ProcessStep
<1>2. /\ table \in Tables /\ TableInv(table)
  BY DEF IInv
<1>3. /\ table' = IF Clash(table, e.ssrc, e.addr, e.do = "csrc") THEN table
                  ELSE StepResult(table, e)
      /\ owncollision' \in BOOLEAN /\ pending' = Tail(pending)
  BY DEF ProcessStep
<1> HIDE DEF e
<1> QED
  BY <1>1, <1>2, <1>3, StepResultInv

\* Time and the application change no flag.
LEMMA QuietStep ==
  ASSUME IInv, Tick \/ \E s \in Ssrc : TakePackets(s)
  PROVE  table' \in Tables /\ TableInv(table') /\ table'.own = table.own
<1>1. /\ table \in Tables /\ TableInv(table) /\ table.src \in Contents
      /\ table.src \in [DOMAIN table.src -> Source] /\ DOMAIN table.src \in SUBSET Ssrc
  BY ContentsFacts DEF IInv, Tables
<1>2. PICK src : /\ table' = [table EXCEPT !.src = src]
                 /\ src \in [DOMAIN table.src -> Source]
                 /\ \A s \in DOMAIN table.src : SameFlags(table.src[s], src[s])
  <2>1. CASE Tick
    <3> DEFINE src == [s \in DOMAIN table.src |->
                         [table.src[s] EXCEPT !.lastmsg = Older(@), !.lastrtp = Older(@),
                                              !.lastnote = Older(@), !.byetime = Older(@)]]
    <3>1. table' = [table EXCEPT !.src = src]
      BY <2>1 DEF Tick
    <3>2. \A s \in DOMAIN table.src : src[s] \in Source /\ SameFlags(table.src[s], src[s])
      BY <1>1, AgeType DEF SameFlags
    <3>3. src \in [DOMAIN table.src -> Source]
      BY <3>2
    <3> HIDE DEF src
    <3> QED
      BY <3>1, <3>2, <3>3
  <2>2. ASSUME NEW o \in Ssrc, TakePackets(o)
        PROVE  \E src : /\ table' = [table EXCEPT !.src = src]
                        /\ src \in [DOMAIN table.src -> Source]
                        /\ \A s \in DOMAIN table.src : SameFlags(table.src[s], src[s])
    <3>1. PICK more \in BOOLEAN : table' = [table EXCEPT !.src[o].queued = more]
      BY <2>2 DEF TakePackets
    <3> DEFINE r == [table.src[o] EXCEPT !.queued = more]
               src == [table.src EXCEPT ![o] = r]
    <3>2. table' = [table EXCEPT !.src = src]
      BY <3>1
    <3>3. o \in DOMAIN table.src /\ table.src[o] \in Source
      BY <1>1, <2>2 DEF TakePackets, GotEntry
    <3>4. r \in Source /\ SameFlags(table.src[o], r)
      BY <3>3 DEF Source, SameFlags
    <3> HIDE DEF r
    <3>5. /\ src \in [DOMAIN table.src -> Source]
          /\ \A s \in DOMAIN table.src : SameFlags(table.src[s], src[s])
      BY <1>1, <3>4 DEF SameFlags
    <3> QED
      BY <3>2, <3>5
  <2> QED
    BY <2>1, <2>2
<1>3. src \in Contents /\ DOMAIN src = DOMAIN table.src
  BY <1>1, <1>2, ContentsIntro
<1>4. /\ table' \in Tables /\ table'.src = src /\ table'.own = table.own
      /\ table'.total = table.total /\ table'.senders = table.senders
      /\ table'.active = table.active
  BY <1>1, <1>2, <1>3 DEF Tables
<1> QED
  BY <1>1, <1>2, <1>3, <1>4, SameMembers

\* The table keeps sound under every action.
LEMMA StepInv == IInv /\ [Next]_vars => IInv'
<1> SUFFICES ASSUME IInv, [Next]_vars PROVE IInv'
  OBVIOUS
<1>1. ASSUME NEW s \in Ssrc, CreateOwnSSRC(s) PROVE IInv'
  BY <1>1, CreateStep DEF CreateOwnSSRC, IInv
<1>2. CASE DeleteOwnSSRC
  BY <1>2, DeleteStep DEF DeleteOwnSSRC, IInv
<1>3. CASE Clear
  BY <1>3, EmptyInv DEF Clear, IInv
<1>4. CASE SentRTPPacket
  BY <1>4, SentStep DEF SentRTPPacket, IInv
<1>5. ASSUME NEW p \in RtpPacket, ProcessRTPPacket(p) PROVE IInv'
  BY <1>5, PacketStep DEF ProcessRTPPacket, IInv
<1>6. ASSUME NEW r \in Report, NEW q \in OtherPacket, NEW a \in Address,
             ProcessRTCPCompoundPacket(r, q, a)
      PROVE  IInv'
  <2>1. PacketSteps(r, a) \in Seq(StepSet) /\ PacketSteps(q, a) \in Seq(StepSet)
    BY PacketStepsType
  <2>2. pending' \in Seq(StepSet)
    BY <1>6, <2>1 DEF ProcessRTCPCompoundPacket
  <2> QED
    BY <1>6, <2>2 DEF ProcessRTCPCompoundPacket, IInv
<1>7. CASE ProcessStep
  BY <1>7, StepStep DEF ProcessStep, IInv
<1>8. CASE RunTimeout
  <2>1. table' \in Tables /\ TableInv(table')
    BY <1>8, TimeoutInv DEF RunTimeout, IInv
  <2> QED
    BY <1>8, <2>1 DEF RunTimeout, IInv
<1>9. ASSUME NEW s \in Ssrc, TakePackets(s) PROVE IInv'
  BY <1>9, QuietStep DEF TakePackets, IInv
<1>10. CASE Tick
  BY <1>10, QuietStep DEF Tick, IInv
<1>11. CASE UNCHANGED vars
  BY <1>11 DEF IInv, vars
<1> QED
  BY <1>1, <1>2, <1>3, <1>4, <1>5, <1>6, <1>7, <1>8, <1>9, <1>10, <1>11 DEF Next

\* The table keeps sound in every behaviour.
LEMMA Invariance == Spec => []IInv
<1>1. Init => IInv
  <2> SUFFICES ASSUME Init PROVE IInv
    OBVIOUS
  <2>1. <<>> \in Seq(StepSet)
    OBVIOUS
  <2> QED
    BY <2>1, EmptyInv DEF Init, IInv
<1> QED
  BY <1>1, StepInv, PTL DEF Spec

-----------------------------------------------------------------------------
(* One pass for four.                                                       *)

\* The single loop of MultipleTimeouts leaves the table of the four loops.
LEMMA OnePass ==
  ASSUME NEW T \in Tables
  PROVE  MultipleTimeouts(T) = NoteTimeout(BYETimeout(Timeout(SenderTimeout(T))))
<1> DEFINE T1 == SenderTimeout(T)
           T2 == Timeout(T1)
           T3 == BYETimeout(T2)
           T4 == NoteTimeout(T3)
           src1 == [s \in DOMAIN T.src |-> StopSending(T.src[s])]
           kept2 == {s \in DOMAIN T1.src : ~Silent(T1, s)}
           src2 == [s \in kept2 |-> T1.src[s]]
           kept3 == {s \in DOMAIN T2.src : ~Left(T2, s)}
           src3 == [s \in kept3 |-> T2.src[s]]
           src4 == [s \in DOMAIN T3.src |-> ForgetNote(T3.src[s])]
           kept == {s \in DOMAIN T.src : ~Left(T, s) /\ ~Silent(T, s)}
           src == [s \in kept |-> StopSending(ForgetNote(T.src[s]))]
<1>1. DOMAIN T.src \in SUBSET Ssrc /\ T.src \in [DOMAIN T.src -> Source]
  BY ContentsFacts DEF Tables
<1>2. \A r \in Source :
         /\ StopSending(r) \in Source /\ ForgetNote(r) \in Source
         /\ StopSending(r).lastmsg = r.lastmsg
         /\ StopSending(r).bye = r.bye /\ StopSending(r).byetime = r.byetime
         /\ ForgetNote(StopSending(r)) = StopSending(ForgetNote(r))
  <2> SUFFICES ASSUME NEW r \in Source
               PROVE  /\ StopSending(r) \in Source /\ ForgetNote(r) \in Source
                      /\ StopSending(r).lastmsg = r.lastmsg
                      /\ StopSending(r).bye = r.bye
                      /\ StopSending(r).byetime = r.byetime
                      /\ ForgetNote(StopSending(r)) = StopSending(ForgetNote(r))
    OBVIOUS
  <2>1. StopSending(r) \in Source /\ ForgetNote(r) \in Source /\ StopSending(r).bye = r.bye
    BY AgeType
  <2>2. /\ StopSending(r).lastmsg = r.lastmsg /\ StopSending(r).byetime = r.byetime
        /\ StopSending(r).note = r.note /\ StopSending(r).lastnote = r.lastnote
        /\ ForgetNote(r).sender = r.sender /\ ForgetNote(r).lastrtp = r.lastrtp
    BY DEF StopSending, ForgetNote, Source
  <2>3. ForgetNote(StopSending(r)) = StopSending(ForgetNote(r))
    <3> DEFINE b == r.sender /\ r.lastrtp <= SenderDelay
               c == r.note /\ r.lastnote <= NoteDelay
    <3>1. StopSending(r) = [r EXCEPT !.sender = b] /\ ForgetNote(r) = [r EXCEPT !.note = c]
      BY DEF StopSending, ForgetNote
    <3>2. ForgetNote(StopSending(r)) = [StopSending(r) EXCEPT !.note = c]
      BY <2>2 DEF ForgetNote
    <3>3. StopSending(ForgetNote(r)) = [ForgetNote(r) EXCEPT !.sender = b]
      BY <2>2 DEF StopSending
    <3> HIDE DEF b, c
    <3> QED
      BY <3>1, <3>2, <3>3 DEF Source
  <2> QED
    BY <2>1, <2>2, <2>3
<1>3. T1 \in Tables /\ T1.src = src1 /\ T1.own = T.own
  <2>1. src1 \in [DOMAIN T.src -> Source]
    BY <1>1, <1>2
  <2>2. src1 \in Contents
    BY <1>1, <2>1, ContentsIntro
  <2> HIDE DEF src1
  <2> QED
    BY <2>2, RecountType DEF SenderTimeout, src1
<1> HIDE DEF T1
<1>4. T2 \in Tables /\ T2.src = src2 /\ T2.own = T.own
  <2>1. src2 \in Contents
    <3>1. kept2 \in SUBSET Ssrc /\ src2 \in [kept2 -> Source]
      BY <1>3, ContentsFacts DEF Tables
    <3> QED
      BY <3>1, ContentsIntro
  <2>2. T2 = Recount(T1, src2)
    BY DEF Timeout
  <2> HIDE DEF src2, T2
  <2> QED
    BY <1>3, <2>1, <2>2, RecountType
<1> HIDE DEF T2
<1>5. T3 \in Tables /\ T3.src = src3 /\ T3.own = T.own
  <2>1. src3 \in Contents
    <3>1. kept3 \in SUBSET Ssrc /\ src3 \in [kept3 -> Source]
      BY <1>4, ContentsFacts DEF Tables
    <3> QED
      BY <3>1, ContentsIntro
  <2>2. T3 = Recount(T2, src3)
    BY DEF BYETimeout
  <2> HIDE DEF src3, T3
  <2> QED
    BY <1>4, <2>1, <2>2, RecountType
<1> HIDE DEF T3
<1>6. kept2 = {s \in DOMAIN T.src : ~Silent(T, s)}
  BY <1>1, <1>2, <1>3 DEF Silent
<1>7. \A s \in kept2 : src2[s] = StopSending(T.src[s])
  BY <1>3, <1>6
<1>8. kept3 = kept
  BY <1>1, <1>2, <1>4, <1>6, <1>7 DEF Left
<1>9. \A s \in kept : src3[s] = StopSending(T.src[s])
  BY <1>4, <1>6, <1>7, <1>8
<1>10. src4 = src
  <2>1. DOMAIN T3.src = kept
    BY <1>5, <1>8
  <2>2. ASSUME NEW s \in kept
        PROVE  ForgetNote(T3.src[s]) = StopSending(ForgetNote(T.src[s]))
    <3>1. T.src[s] \in Source
      BY <1>1
    <3>2. T3.src[s] = StopSending(T.src[s])
      BY <1>5, <1>9
    <3> QED
      BY <1>2, <3>1, <3>2
  <2> QED
    BY <2>1, <2>2
<1>11. T4 = Recount(T3, src4) /\ MultipleTimeouts(T) = Recount(T, src)
  BY DEF NoteTimeout, MultipleTimeouts
<1> HIDE DEF src, src4
<1>12. Recount(T3, src) = Recount(T, src)
  BY <1>5, RecountIs
<1> QED
  BY <1>10, <1>11, <1>12 DEF T1, T2, T3

-----------------------------------------------------------------------------
(* Theorems.                                                                *)

\* The counters kept by hand agree with the table, whatever packets, timeouts and
\* calls led to it.
THEOREM CountsAreRight == Spec => []CountsAgree
<1>1. IInv => CountsAgree
  BY DEF IInv, TableInv, Counts, CountsAgree
<1> QED
  BY <1>1, Invariance, PTL

\* Every entry is well formed and of one host, and the four timeouts can be looked
\* at in one pass.
THEOREM EntriesAreSound == Spec => []EntriesSound
<1>1. IInv => EntriesSound
  <2> SUFFICES ASSUME IInv PROVE EntriesSound
    OBVIOUS
  <2>1. /\ DOMAIN table.src \in SUBSET Ssrc /\ table.src \in [DOMAIN table.src -> Source]
        /\ table.own \in Ssrc \cup {NoSsrc} /\ table.active \in Int
    BY ContentsFacts DEF IInv, Tables
  <2>2. table.total \in Nat /\ table.senders \in Nat
    BY FiniteCounts DEF IInv, TableInv, Counts
  <2>3. table.own = NoSsrc \/ table.own \in DOMAIN table.src
    BY DEF IInv, TableInv, OwnThere
  <2>4. TypeOK
    BY <2>1, <2>2, <2>3 DEF TypeOK, IInv
  <2>5. OneHostPerSource
    BY DEF IInv, TableInv, OneHost, OneHostPerSource
  <2>6. MultipleIsFour
    BY OnePass DEF IInv, MultipleIsFour
  <2> QED
    BY <2>4, <2>5, <2>6 DEF EntriesSound
<1> QED
  BY <1>1, Invariance, PTL

\* Only DeleteOwnSSRC and Clear end our own entry, its validity or its addresses.
THEOREM OwnEntryIsKept == Spec => OwnEntryKept
<1> DEFINE Keeps ==
      \/ DeleteOwnSSRC \/ Clear
      \/ table.own = NoSsrc
      \/ /\ table'.own = table.own
         /\ table.own \in DOMAIN table'.src
         /\ LET r == table'.src[table.own]
            IN  IsActive(r) /\ r.rtpaddr = Self /\ r.rtcpaddr = Self
<1>1. IInv /\ IInv' /\ [Next]_vars => [Keeps]_vars
  <2> SUFFICES ASSUME IInv, IInv', Next, table.own # NoSsrc, ~DeleteOwnSSRC, ~Clear
               PROVE  Keeps
    BY DEF vars
  <2>1. table'.own = table.own
    <3>1. ASSUME NEW s \in Ssrc, CreateOwnSSRC(s) PROVE FALSE
      BY <3>1 DEF CreateOwnSSRC
    <3>2. CASE SentRTPPacket
      BY <3>2, SentStep
    <3>3. ASSUME NEW p \in RtpPacket, ProcessRTPPacket(p) PROVE table'.own = table.own
      BY <3>3, PacketStep
    <3>4. ASSUME NEW r \in Report, NEW q \in OtherPacket, NEW a \in Address,
                 ProcessRTCPCompoundPacket(r, q, a)
          PROVE  table'.own = table.own
      BY <3>4 DEF ProcessRTCPCompoundPacket
    <3>5. CASE ProcessStep
      BY <3>5, StepStep
    <3>6. CASE RunTimeout
      BY <3>6, TimeoutInv DEF RunTimeout, IInv
    <3>7. CASE Tick \/ \E s \in Ssrc : TakePackets(s)
      BY <3>7, QuietStep
    <3> QED
      BY <3>1, <3>2, <3>3, <3>4, <3>5, <3>6, <3>7 DEF Next
  <2>2. OwnThere(table')
    BY DEF IInv, TableInv
  <2> QED
    BY <2>1, <2>2 DEF OwnThere, IsOwnEntry
<1> QED
  BY <1>1, Invariance, PTL DEF OwnEntryKept, Spec

-----------------------------------------------------------------------------
(* The receive path of one source: numbers of sixteen bits.                 *)

\* Cycle and rest are found again.
LEMMA DivisionUnique ==
  ASSUME NEW c \in Int, NEW r \in 0..(Modulus - 1)
  PROVE  /\ (Modulus * c + r) % Modulus = r
         /\ (Modulus * c + r) \div Modulus = c
<1>1. Modulus \in Nat \ {0}
  BY ReceiveAssumption
<1> QED
  BY <1>1, RemainderIs

\* The difference in sixteen bits of two numbers of sixteen bits.
LEMMA MinusIs ==
  ASSUME NEW a \in 0..(Modulus - 1), NEW b \in 0..(Modulus - 1)
  PROVE  Minus(a, b) = IF b <= a THEN a - b ELSE a - b + Modulus
<1>0. Modulus \in Nat \ {0}
  BY ReceiveAssumption
<1>1. CASE b <= a
  <2>1. (Modulus * 0 + (a - b)) % Modulus = a - b
    BY <1>0, <1>1, DivisionUnique
  <2>2. Modulus * 0 + (a - b) = a - b
    BY <1>0
  <2> QED
    BY <1>1, <2>1, <2>2 DEF Minus
<1>2. CASE a < b
  <2>1. (Modulus * (-1) + (a - b + Modulus)) % Modulus = a - b + Modulus
    BY <1>0, <1>2, DivisionUnique
  <2>2. Modulus * (-1) + (a - b + Modulus) = a - b
    BY <1>0
  <2> QED
    BY <1>2, <2>1, <2>2 DEF Minus
<1> QED
  BY <1>0, <1>1, <1>2

\* The sequence number and the cycle of a packet.
LEMMA SeqnrType ==
  ASSUME first \in 0..(Modulus - 1), NEW n \in Nat
  PROVE  /\ Seqnr(n) \in 0..(Modulus - 1) /\ Cycle(n) \in Int
         /\ Seqnr(n) = first + n - Modulus * Cycle(n)
<1>1. first + n \in Int /\ Modulus \in Nat \ {0}
  BY ReceiveAssumption
<1> DEFINE a == first + n
<1> HIDE DEF a
<1>2. a % Modulus \in 0..(Modulus - 1) /\ a \div Modulus \in Int
      /\ a % Modulus = a - Modulus * (a \div Modulus)
  BY <1>1, Divided DEF a
<1>3. Seqnr(n) = a % Modulus /\ Cycle(n) = a \div Modulus
  BY DEF a, Seqnr, Cycle
<1>4. /\ Seqnr(n) \in 0..(Modulus - 1) /\ Cycle(n) \in Int
      /\ Seqnr(n) = a - Modulus * Cycle(n)
  BY <1>2, <1>3
<1>5. a = first + n
  BY DEF a
<1> QED
  BY <1>1, <1>4, <1>5

\* Of two packets less than a cycle apart the later one is in the same cycle or in the
\* next one.
LEMMA NextCycle ==
  ASSUME first \in 0..(Modulus - 1), NEW m \in Nat, NEW n \in Nat, m <= n, n - m < Modulus
  PROVE  \/ Cycle(n) = Cycle(m) /\ Seqnr(n) = Seqnr(m) + (n - m)
         \/ Cycle(n) = Cycle(m) + 1 /\ Seqnr(n) = Seqnr(m) + (n - m) - Modulus
<1>0. Modulus \in Nat \ {0}
  BY ReceiveAssumption
<1> DEFINE c == Cycle(m)
           s == Seqnr(m)
           d == n - m
           p == Modulus * c
<1>1. s \in 0..(Modulus - 1) /\ c \in Int /\ s = first + m - p
  BY SeqnrType
<1>2. p \in Int
  BY <1>0, <1>1, SMT
<1> HIDE DEF c, s, p
<1>3. CASE s + d < Modulus
  <2>1. first + n = p + (s + d) /\ s + d \in 0..(Modulus - 1)
    BY <1>0, <1>1, <1>2, <1>3
  <2>2. (first + n) % Modulus = s + d /\ (first + n) \div Modulus = c
    BY <1>1, <2>1, DivisionUnique DEF p
  <2> QED
    BY <2>2 DEF Seqnr, Cycle, c, s
<1>4. CASE s + d >= Modulus
  <2>1. first + n = (p + Modulus) + (s + d - Modulus) /\ s + d - Modulus \in 0..(Modulus - 1)
    BY <1>0, <1>1, <1>2, <1>4
  <2>2. p + Modulus = Modulus * (c + 1)
    BY <1>0, <1>1, SMT DEF p
  <2>3. (first + n) % Modulus = s + d - Modulus /\ (first + n) \div Modulus = c + 1
    BY <1>1, <2>1, <2>2, DivisionUnique DEF p
  <2> QED
    BY <2>3 DEF Seqnr, Cycle, c, s
<1> QED
  BY <1>0, <1>1, <1>3, <1>4

-----------------------------------------------------------------------------
(* The packet queue.                                                        *)

Packet == [ext : Nat, index : Nat]

Sorted(list) == \A i, j \in DOMAIN list : i < j => list[i].ext < list[j].ext

\* The search ends at a place.
LEMMA PlaceIs ==
  ASSUME NEW list \in Seq(Packet), NEW ext \in Nat
  PROVE  /\ Place(list, ext) \in 0..Len(list)
         /\ LET k == Place(list, ext)
            IN  /\ k = 0 \/ list[k].ext <= ext
                /\ \A i \in (k + 1)..Len(list) : list[i].ext > ext
<1> DEFINE n == Len(list)
           T == {m \in Nat : m <= n /\ (m = n \/ list[n - m].ext <= ext)}
<1>1. n \in Nat /\ \A i \in 1..n : list[i].ext \in Nat
  <2>1. n \in Nat /\ \A i \in 1..n : list[i] \in Packet
    OBVIOUS
  <2> QED
    BY <2>1 DEF Packet
<1>2. T \in SUBSET Nat /\ n \in T
  BY <1>1
<1>3. PICK m \in T : \A y \in T : m <= y
  <2> HIDE DEF T
  <2> QED
    BY <1>2, LeastNat
<1>4. n - m \in 0..n /\ (n - m = 0 \/ list[n - m].ext <= ext)
  BY <1>1
<1>5. ASSUME NEW i \in (n - m + 1)..n PROVE list[i].ext > ext
  <2>1. n - i \in Nat /\ n - i < m /\ i \in 1..n
    BY <1>1, <1>4
  <2>2. n - i \notin T
    BY <1>3, <2>1
  <2>3. n - (n - i) = i
    BY <1>1, <2>1
  <2> QED
    BY <1>1, <2>1, <2>2, <2>3
<1>6. \E k \in 0..Len(list) : /\ k = 0 \/ list[k].ext <= ext
                              /\ \A i \in (k + 1)..Len(list) : list[i].ext > ext
  BY <1>4, <1>5
<1> QED
  BY <1>6 DEF Place

\* What Insert makes of a sorted list.
LEMMA InsertIs ==
  ASSUME NEW list \in Seq(Packet), Sorted(list), NEW p \in Packet
  PROVE  LET N == Insert(list, p)
         IN  /\ N \in Seq(Packet) /\ Sorted(N) /\ Len(N) <= Len(list) + 1
             /\ \A i \in DOMAIN N : N[i] = p \/ \E j \in DOMAIN list : N[i] = list[j]
<1> DEFINE k == Place(list, p.ext)
           n == Len(list)
           N == Insert(list, p)
<1>1. /\ n \in Nat /\ DOMAIN list = 1..n /\ p.ext \in Nat
      /\ \A i \in 1..n : list[i] \in Packet /\ list[i].ext \in Nat
  <2>1. n \in Nat /\ DOMAIN list = 1..n /\ \A i \in 1..n : list[i] \in Packet
    OBVIOUS
  <2> QED
    BY <2>1 DEF Packet
<1>2. /\ k \in 0..n /\ (k = 0 \/ list[k].ext <= p.ext)
      /\ \A i \in (k + 1)..n : list[i].ext > p.ext
  BY <1>1, PlaceIs
<1> HIDE DEF k
<1>3. CASE k # 0 /\ list[k].ext = p.ext
  <2>1. N = list
    BY <1>3 DEF Insert, k
  <2> QED
    BY <1>1, <2>1
<1>4. CASE ~(k # 0 /\ list[k].ext = p.ext)
  <2> DEFINE A == SubSeq(list, 1, k)
             B == SubSeq(list, k + 1, n)
             C == A \o <<p>>
  <2>1. N = C \o B
    BY <1>4 DEF Insert, k
  <2>2. /\ A \in Seq(Packet) /\ Len(A) = k
        /\ \A i \in 1..k : A[i] = list[i]
    BY <1>1, <1>2, SubSeqProperties
  <2>3. /\ B \in Seq(Packet) /\ Len(B) = n - k
        /\ \A i \in 1..(n - k) : B[i] = list[k + i]
    <3>1. \A i \in (k + 1)..n : list[i] \in Packet
      BY <1>1, <1>2
    <3>2. /\ B \in Seq(Packet) /\ Len(B) = IF k + 1 <= n THEN n - (k + 1) + 1 ELSE 0
          /\ \A i \in 1..(n - (k + 1) + 1) : B[i] = list[k + 1 + i - 1]
      BY <1>1, <1>2, <3>1, SubSeqProperties
    <3> HIDE DEF B, n
    <3> QED
      BY <1>1, <1>2, <3>2
  <2> HIDE DEF A, B, N, n
  <2>4. /\ N \in Seq(Packet) /\ Len(N) = n + 1
        /\ \A i \in 1..(n + 1) : N[i] = IF i <= k THEN list[i]
                                        ELSE IF i = k + 1 THEN p ELSE list[i - 1]
    <3>1. C \in Seq(Packet) /\ Len(C) = k + 1
      BY <2>2
    <3>2. \A i \in 1..(k + 1) : C[i] = IF i <= k THEN list[i] ELSE p
      BY <1>2, <2>2
    <3> HIDE DEF C
    <3>3. /\ N \in Seq(Packet) /\ Len(N) = Len(C) + Len(B)
          /\ \A i \in 1..(Len(C) + Len(B)) :
                N[i] = IF i <= Len(C) THEN C[i] ELSE B[i - Len(C)]
      BY <2>1, <2>3, <3>1, ConcatProperties
    <3>4. N \in Seq(Packet) /\ Len(N) = n + 1
      BY <1>1, <1>2, <2>3, <3>1, <3>3
    <3>5. ASSUME NEW i \in 1..(n + 1)
          PROVE  N[i] = IF i <= k THEN list[i] ELSE IF i = k + 1 THEN p ELSE list[i - 1]
      <4>1. i \in 1..(Len(C) + Len(B))
        BY <1>1, <1>2, <2>3, <3>1
      <4>2. CASE i <= k + 1
        BY <1>1, <1>2, <3>1, <3>2, <3>3, <4>1, <4>2
      <4>3. CASE i > k + 1
        <5>1. N[i] = B[i - (k + 1)] /\ i - (k + 1) \in 1..(n - k)
          BY <1>1, <1>2, <3>1, <3>3, <4>1, <4>3
        <5>2. B[i - (k + 1)] = list[k + (i - (k + 1))]
          BY <2>3, <5>1
        <5>3. k + (i - (k + 1)) = i - 1
          BY <1>1, <1>2
        <5> QED
          BY <1>1, <1>2, <4>3, <5>1, <5>2, <5>3
      <4> QED
        BY <1>1, <1>2, <4>2, <4>3
    <3> QED
      BY <3>4, <3>5
  <2>5. DOMAIN N = 1..(n + 1)
    BY <1>1, <2>4
  <2>6. \A i \in 1..k : list[i].ext < p.ext
    <3> SUFFICES ASSUME NEW i \in 1..k PROVE list[i].ext < p.ext
      OBVIOUS
    <3>1. i \in Nat /\ k \in Nat /\ k # 0 /\ i <= k /\ k \in 1..n /\ i \in 1..n
      BY <1>1, <1>2
    <3>2. list[k].ext \in Nat /\ list[i].ext \in Nat /\ p.ext \in Nat
      BY <1>1, <3>1
    <3>3. list[k].ext <= p.ext /\ list[k].ext # p.ext
      BY <1>2, <1>4, <3>1
    <3>4. i < k => list[i].ext < list[k].ext
      BY <1>1, <3>1 DEF Sorted
    <3>5. i < k \/ i = k
      BY <3>1
    <3> QED
      BY <3>2, <3>3, <3>4, <3>5
  <2>7. Sorted(N)
    <3>0. \A i, j \in 1..n : i < j => list[i].ext < list[j].ext
      BY <1>1 DEF Sorted
    <3> SUFFICES ASSUME NEW i \in 1..(n + 1), NEW j \in 1..(n + 1), i < j
                 PROVE  N[i].ext < N[j].ext
      BY <2>5 DEF Sorted
    <3>1. CASE j <= k
      BY <1>1, <1>2, <2>4, <3>0, <3>1
    <3>2. CASE j = k + 1
      BY <1>1, <1>2, <2>4, <2>6, <3>2
    <3>3. CASE j > k + 1
      <4>1. N[j] = list[j - 1] /\ j - 1 \in (k + 1)..n
        BY <1>1, <1>2, <2>4, <3>3
      <4>2. CASE i <= k
        BY <1>1, <1>2, <2>4, <2>6, <4>1, <4>2
      <4>3. CASE i = k + 1
        BY <1>1, <1>2, <2>4, <4>1, <4>3
      <4>4. CASE i > k + 1
        BY <1>1, <1>2, <2>4, <3>0, <4>1, <4>4
      <4> QED
        BY <1>1, <1>2, <4>2, <4>3, <4>4
    <3> QED
      BY <1>1, <1>2, <3>1, <3>2, <3>3
  <2>8. \A i \in DOMAIN N : N[i] = p \/ \E j \in DOMAIN list : N[i] = list[j]
    <3> SUFFICES ASSUME NEW i \in 1..(n + 1), N[i] # p
                 PROVE  \E j \in 1..n : N[i] = list[j]
      BY <1>1, <2>5
    <3>1. CASE i <= k
      BY <1>1, <1>2, <2>4, <3>1
    <3>2. CASE i > k + 1
      <4>1. i - 1 \in 1..n /\ N[i] = list[i - 1]
        BY <1>1, <1>2, <2>4, <3>2
      <4> QED
        BY <4>1
    <3> QED
      BY <1>1, <1>2, <2>4, <3>1, <3>2
  <2> QED
    BY <1>1, <2>4, <2>7, <2>8 DEF N, n
<1> QED
  BY <1>3, <1>4

\* A sorted list without its first packet.
LEMMA TailOfSorted ==
  ASSUME NEW list \in Seq(Packet), Sorted(list), list # <<>>
  PROVE  /\ Tail(list) \in Seq(Packet) /\ Sorted(Tail(list))
         /\ Len(Tail(list)) = Len(list) - 1 /\ Len(list) \in Nat
         /\ \A i \in DOMAIN Tail(list) : \E j \in DOMAIN list : Tail(list)[i] = list[j]
<1>1. /\ Tail(list) \in Seq(Packet) /\ Len(Tail(list)) = Len(list) - 1
      /\ \A i \in 1..Len(Tail(list)) : Tail(list)[i] = list[i + 1]
  BY HeadTailProperties
<1>2. Len(list) \in Nat /\ DOMAIN list = 1..Len(list)
  OBVIOUS
<1>3. DOMAIN Tail(list) = 1..(Len(list) - 1)
  BY <1>1
<1>4. \A i \in DOMAIN Tail(list) : i + 1 \in DOMAIN list /\ Tail(list)[i] = list[i + 1]
  BY <1>1, <1>2, <1>3
<1>5. Sorted(Tail(list))
  <2> SUFFICES ASSUME NEW i \in DOMAIN Tail(list), NEW j \in DOMAIN Tail(list), i < j
               PROVE  Tail(list)[i].ext < Tail(list)[j].ext
    BY DEF Sorted
  <2>1. i + 1 < j + 1
    BY <1>2, <1>3
  <2> QED
    BY <1>4, <2>1 DEF Sorted
<1> QED
  BY <1>1, <1>2, <1>4, <1>5

-----------------------------------------------------------------------------
(* What the receive path keeps to.                                          *)

StatsType ==
    [sentdata : BOOLEAN, probation : 0..ProbationLength, prevseqnr : 0..(Modulus - 1),
     cycles : Nat, base : Nat, exthigh : Nat]

ReceiveTypes ==
    /\ stats \in StatsType
    /\ {validated, byname, storing, clean} \subseteq BOOLEAN
    /\ packets \in Seq(Packet)
    /\ first \in 0..(Modulus - 1)
    /\ newest \in Nat \cup {-1} /\ last \in Nat \cup {-1} /\ run \in Nat

\* The probation left is what the run still lacks.
ProbationInv ==
    /\ stats.sentdata => validated
    /\ validated => stats.sentdata \/ byname
    /\ ~validated => \/ last = -1 /\ stats.probation = 0
                     \/ /\ last # -1 /\ stats.probation # 0
                        /\ stats.probation = ProbationLength - run + 1
                        /\ stats.prevseqnr = Seqnr(last)

\* The highest number is of the last cycle begun.
ExtensionInv ==
    IF stats.sentdata
    THEN /\ \E c \in Nat : stats.cycles = Modulus * c
         /\ stats.exthigh - stats.cycles \in 0..(Modulus - 1)
    ELSE stats.cycles = 0

\* Before numbers are extended every packet is queued under its own.
EarlyInv ==
    ~stats.sentdata =>
        /\ newest # -1 => Cycle(newest) \in early
        /\ \A i \in DOMAIN packets : /\ packets[i].ext = Seqnr(packets[i].index)
                                     /\ Cycle(packets[i].index) \in early

\* The highest number belongs to a packet h that is late at most, in the cycle of the
\* newest one, and every packet in the queue is as far from h as their numbers are.
HighIs(h) ==
    /\ newest # -1 /\ h <= newest /\ newest <= h + Late
    /\ Cycle(h) = Cycle(newest)
    /\ stats.exthigh - stats.cycles = Seqnr(h)
    /\ \A i \in DOMAIN packets : packets[i].ext - packets[i].index = stats.exthigh - h

OrderInv == stats.sentdata /\ clean => \E h \in Nat : HighIs(h)

ReceiveInv ==
    /\ ReceiveTypes /\ ProbationInv /\ ValidatedByRun /\ ExtensionInv
    /\ Sorted(packets) /\ (~validated => Len(packets) <= MaxProbationPackets)
    /\ EarlyInv /\ OrderInv

\* The queue after a packet holds what it held before and perhaps the packet.
LEMMA QueueAfter ==
  ASSUME ReceiveInv, NEW p \in Packet, NEW valid \in BOOLEAN, NEW storeit \in BOOLEAN,
         valid \/ ~validated,
         packets' = IF storeit THEN Insert(MakeRoom(packets, valid), p) ELSE packets
  PROVE  /\ packets' \in Seq(Packet) /\ Sorted(packets')
         /\ \A i \in DOMAIN packets' :
               packets'[i] = p \/ \E j \in DOMAIN packets : packets'[i] = packets[j]
         /\ ~valid => Len(packets') <= MaxProbationPackets
<1>1. /\ packets \in Seq(Packet) /\ Sorted(packets) /\ Len(packets) \in Nat
      /\ ~validated => Len(packets) <= MaxProbationPackets
      /\ MaxProbationPackets \in Nat \ {0}
  BY ReceiveAssumption DEF ReceiveInv, ReceiveTypes
<1> DEFINE room == MakeRoom(packets, valid)
<1>2. /\ room \in Seq(Packet) /\ Sorted(room) /\ Len(room) \in Nat
      /\ \A i \in DOMAIN room : \E j \in DOMAIN packets : room[i] = packets[j]
      /\ ~valid => Len(room) < MaxProbationPackets
  <2>1. CASE ~valid /\ Len(packets) = MaxProbationPackets
    <3>1. room = Tail(packets) /\ packets # <<>>
      BY <1>1, <2>1 DEF MakeRoom
    <3> QED
      BY <1>1, <2>1, <3>1, TailOfSorted
  <2>2. CASE ~(~valid /\ Len(packets) = MaxProbationPackets)
    <3>1. room = packets
      BY <2>2 DEF MakeRoom
    <3> QED
      BY <1>1, <2>2, <3>1
  <2> QED
    BY <2>1, <2>2
<1> HIDE DEF room
<1>3. CASE storeit
  <2>1. packets' = Insert(room, p)
    BY <1>3 DEF room
  <2>2. /\ packets' \in Seq(Packet) /\ Sorted(packets') /\ Len(packets') <= Len(room) + 1
        /\ \A i \in DOMAIN packets' :
              packets'[i] = p \/ \E j \in DOMAIN room : packets'[i] = room[j]
    BY <1>2, <2>1, InsertIs
  <2>3. Len(packets') \in Nat
    BY <2>2
  <2> QED
    BY <1>1, <1>2, <2>2, <2>3
<1>4. CASE ~storeit
  BY <1>1, <1>4
<1> QED
  BY <1>3, <1>4


-----------------------------------------------------------------------------
(* The steps.                                                               *)

\* The parts of Receive.
LEMMA ReceiveIs ==
  ASSUME ReceiveInv, NEW n \in Nat, Receive(n)
  PROVE  /\ newest = -1 \/ (newest - Late <= n /\ n <= newest + Ahead)
         /\ stats' = ProcessPacket(stats, Seqnr(n))
         /\ validated' = (validated \/ stats'.sentdata)
         /\ IF stats.sentdata THEN last' = last /\ run' = run /\ early' = early
            ELSE /\ last' = n
                 /\ run' = IF last # -1 /\ Seqnr(n) = (Seqnr(last) + 1) % Modulus
                           THEN run + 1 ELSE 1
                 /\ early' = early \cup {Cycle(n)}
         /\ newest' = IF n > newest THEN n ELSE newest
         /\ storing' = storing /\ byname' = byname /\ first' = first
         /\ \A m : Seqnr(m)' = Seqnr(m) /\ Cycle(m)' = Cycle(m)
         /\ clean' \in BOOLEAN /\ validated' \in BOOLEAN
<1>1. ReceiveTypes /\ Late \in Nat /\ Ahead \in Nat
  BY ReceiveAssumption DEF ReceiveInv
<1>2. newest = -1 \/ (newest - Late <= n /\ n <= newest + Ahead)
  BY <1>1 DEF Receive, ReceiveTypes
<1>3. first' = first
  BY DEF Receive
<1>4. \A m : Seqnr(m)' = Seqnr(m) /\ Cycle(m)' = Cycle(m)
  BY <1>3 DEF Seqnr, Cycle
<1>5. /\ stats' = ProcessPacket(stats, Seqnr(n))
      /\ validated' = (validated \/ stats'.sentdata)
      /\ newest' = IF n > newest THEN n ELSE newest
      /\ storing' = storing /\ byname' = byname
  BY DEF Receive
<1>6. clean' \in BOOLEAN /\ validated' \in BOOLEAN
  BY DEF Receive
<1>7. IF stats.sentdata THEN last' = last /\ run' = run /\ early' = early
      ELSE /\ last' = n
           /\ run' = IF last # -1 /\ Seqnr(n) = (Seqnr(last) + 1) % Modulus
                     THEN run + 1 ELSE 1
           /\ early' = early \cup {Cycle(n)}
  BY DEF Receive
<1> QED
  BY <1>2, <1>3, <1>4, <1>5, <1>6, <1>7

\* The queue after Receive holds what it held before and perhaps the packet.
LEMMA QueueStep ==
  ASSUME ReceiveInv, NEW n \in Nat, Receive(n), stats'.sentdata \in BOOLEAN,
         NEW e \in Nat, e = Extended(stats, stats', Seqnr(n))
  PROVE  /\ packets' \in Seq(Packet) /\ Sorted(packets)'
         /\ \A i \in DOMAIN packets' :
               \/ packets'[i].ext = e /\ packets'[i].index = n
               \/ \E j \in DOMAIN packets : packets'[i] = packets[j]
         /\ ~validated' => Len(packets') <= MaxProbationPackets
<1> DEFINE p == [ext |-> e, index |-> n]
           valid == validated \/ stats'.sentdata
           storeit == stats'.sentdata \/ storing
<1>1. p \in Packet
  BY DEF Packet
<1>2. validated \in BOOLEAN /\ storing \in BOOLEAN
  BY DEF ReceiveInv, ReceiveTypes
<1>3. stats' = ProcessPacket(stats, Seqnr(n)) /\ validated' = valid
  BY DEF Receive
<1>4. packets' = IF storeit THEN Insert(MakeRoom(packets, valid), p) ELSE packets
  BY <1>3 DEF Receive
<1>5. valid \in BOOLEAN /\ storeit \in BOOLEAN /\ (valid \/ ~validated)
  BY <1>2
<1>6. p.ext = e /\ p.index = n
  OBVIOUS
<1> HIDE DEF p, valid, storeit
<1>7. /\ packets' \in Seq(Packet) /\ Sorted(packets')
      /\ \A i \in DOMAIN packets' :
            packets'[i] = p \/ \E j \in DOMAIN packets : packets'[i] = packets[j]
      /\ ~valid => Len(packets') <= MaxProbationPackets
  BY <1>1, <1>4, <1>5, QueueAfter
<1>8. Sorted(packets)'
  BY <1>7 DEF Sorted
<1> QED
  BY <1>3, <1>6, <1>7, <1>8


\* The counters after the first packet that counts.
LEMMA FirstIs ==
  ASSUME NEW st \in StatsType, NEW q \in 0..(Modulus - 1)
  PROVE  LET new == FirstAccepted(st, q)
         IN  /\ new \in StatsType /\ new.sentdata
             /\ new.cycles = IF q = 0 THEN Modulus ELSE st.cycles
             /\ new.exthigh = IF q = 0 THEN Modulus ELSE q
<1>0. Modulus \in Nat \ {0} /\ q \in Nat
  BY ReceiveAssumption
<1> DEFINE base == IF q = 0 THEN Modulus - 1 ELSE q - 1
           high == IF q = 0 THEN Modulus ELSE q
           cycles == IF q = 0 THEN Modulus ELSE st.cycles
<1>1. base \in Nat /\ high \in Nat /\ cycles \in Nat
  BY <1>0 DEF StatsType
<1>2. FirstAccepted(st, q) = [st EXCEPT !.sentdata = TRUE, !.base = base,
                                        !.cycles = cycles, !.exthigh = high]
  BY DEF FirstAccepted, StatsType
<1>3. high = IF q = 0 THEN Modulus ELSE q
  OBVIOUS
<1>4. cycles = IF q = 0 THEN Modulus ELSE st.cycles
  OBVIOUS
<1> HIDE DEF base, high, cycles
<1> QED
  BY <1>1, <1>2, <1>3, <1>4 DEF StatsType

\* The counters after a packet on probation: the run of packets is one longer, or
\* starts with this one.
LEMMA OnProbationIs ==
  ASSUME NEW st \in StatsType, NEW q \in 0..(Modulus - 1)
  PROVE  LET new == OnProbation(st, q)
         IN  /\ new \in StatsType /\ new.prevseqnr = q /\ new.sentdata = st.sentdata
             /\ new.cycles = st.cycles
             /\ new.probation = IF st.probation # 0 /\ q = (st.prevseqnr + 1) % Modulus
                                THEN st.probation - 1 ELSE ProbationLength
<1>0. ProbationLength \in Nat \ {0}
  BY ReceiveAssumption
<1> DEFINE left == IF st.probation # 0 /\ q = (st.prevseqnr + 1) % Modulus
                   THEN st.probation - 1 ELSE ProbationLength
<1>1. left \in 0..ProbationLength
  BY <1>0 DEF StatsType
<1>2. OnProbation(st, q) = [st EXCEPT !.prevseqnr = q, !.probation = left]
  BY DEF OnProbation
<1>3. left = IF st.probation # 0 /\ q = (st.prevseqnr + 1) % Modulus
             THEN st.probation - 1 ELSE ProbationLength
  OBVIOUS
<1> HIDE DEF left
<1> QED
  BY <1>1, <1>2, <1>3 DEF StatsType

\* The counters after a later packet: it wraps when the way forward to it is shorter.
LEMMA LaterIs ==
  ASSUME NEW st \in StatsType, NEW q \in 0..(Modulus - 1),
         NEW c \in Nat, st.cycles = Modulus * c,
         NEW s \in 0..(Modulus - 1), st.exthigh - st.cycles = s
  PROVE  LET new == LaterPacket(st, q)
             wraps == q < s /\ q - s + Modulus < s - q
         IN  /\ new \in StatsType /\ new.sentdata = st.sentdata
             /\ new.cycles = IF wraps THEN st.cycles + Modulus ELSE st.cycles
             /\ new.exthigh = IF wraps \/ q >= s THEN new.cycles + q ELSE st.exthigh
<1>0. Modulus \in Nat \ {0} /\ q \in Nat /\ s \in Nat
  BY ReceiveAssumption
<1>1. st.exthigh % Modulus = s
  <2>1. (Modulus * c + s) % Modulus = s
    BY DivisionUnique
  <2>2. st.exthigh \in Nat /\ st.cycles \in Nat
    BY DEF StatsType
  <2>3. st.exthigh = st.cycles + s
    BY <1>0, <2>2
  <2> QED
    BY <2>1, <2>3
<1> DEFINE wraps == q < s /\ q - s + Modulus < s - q
           cycles == IF wraps THEN st.cycles + Modulus ELSE st.cycles
           high == IF wraps \/ q >= s THEN cycles + q ELSE st.exthigh
<1>2. q < s => Minus(q, s) = q - s + Modulus /\ Minus(s, q) = s - q
  BY <1>0, MinusIs
<1>3. LaterPacket(st, q) = [st EXCEPT !.cycles = cycles, !.exthigh = high]
  BY <1>1, <1>2 DEF LaterPacket
<1>4. cycles \in Nat /\ high \in Nat
  BY <1>0 DEF StatsType
<1>5. high = IF wraps \/ q >= s THEN cycles + q ELSE st.exthigh
  OBVIOUS
<1>6. cycles = IF wraps THEN st.cycles + Modulus ELSE st.cycles
  OBVIOUS
<1> HIDE DEF cycles, high
<1> QED
  BY <1>3, <1>4, <1>5, <1>6 DEF StatsType

\* A packet of a source that stays on probation.
LEMMA StaysOnProbation ==
  ASSUME ReceiveInv, NEW n \in Nat, Receive(n), ~stats.sentdata, ~validated,
         OnProbation(stats, Seqnr(n)).probation # 0
  PROVE  ReceiveInv'
<1> DEFINE q == Seqnr(n)
           on == OnProbation(stats, q)
<1>1. /\ ReceiveTypes /\ ProbationInv /\ stats.cycles = 0 /\ EarlyInv
      /\ Modulus \in Nat \ {0} /\ ProbationLength \in Nat \ {0}
  BY ReceiveAssumption DEF ReceiveInv, ExtensionInv
<1>2. q \in 0..(Modulus - 1) /\ q \in Nat /\ stats \in StatsType
  BY <1>1, SeqnrType DEF ReceiveTypes
<1>3. /\ on \in StatsType /\ on.prevseqnr = q /\ on.sentdata = FALSE /\ on.cycles = 0
      /\ on.probation = IF stats.probation # 0 /\ q = (stats.prevseqnr + 1) % Modulus
                        THEN stats.probation - 1 ELSE ProbationLength
  BY <1>1, <1>2, OnProbationIs
<1>4. ProcessPacket(stats, q) = on
  BY DEF ProcessPacket
<1> HIDE DEF q
<1>5. /\ stats' = on /\ validated' = FALSE /\ last' = n
      /\ run' = IF last # -1 /\ q = (Seqnr(last) + 1) % Modulus THEN run + 1 ELSE 1
      /\ early' = early \cup {Cycle(n)}
      /\ newest' = IF n > newest THEN n ELSE newest
      /\ storing' = storing /\ byname' = byname /\ first' = first
      /\ \A m : Seqnr(m)' = Seqnr(m) /\ Cycle(m)' = Cycle(m)
      /\ clean' \in BOOLEAN
  BY <1>3, <1>4, ReceiveIs DEF q
<1>6. Extended(stats, stats', q) = q
  BY <1>3, <1>5 DEF Extended
<1>7. /\ packets' \in Seq(Packet) /\ Sorted(packets)'
      /\ \A i \in DOMAIN packets' :
            \/ packets'[i].ext = q /\ packets'[i].index = n
            \/ \E j \in DOMAIN packets : packets'[i] = packets[j]
      /\ ~validated' => Len(packets') <= MaxProbationPackets
  BY <1>2, <1>3, <1>5, <1>6, QueueStep DEF q
<1> HIDE DEF on
<1>8. ReceiveTypes'
  <2>1. {validated, byname, storing, clean}' \subseteq BOOLEAN
    BY <1>1, <1>5 DEF ReceiveTypes
  <2>2. newest' \in Nat \cup {-1} /\ last' \in Nat \cup {-1} /\ run' \in Nat
    BY <1>1, <1>5 DEF ReceiveTypes
  <2> QED
    BY <1>1, <1>3, <1>5, <1>7, <2>1, <2>2 DEF ReceiveTypes
<1>9. ProbationInv'
  <2>1. last' # -1 /\ stats'.probation # 0 /\ stats'.prevseqnr = Seqnr(last)'
    <3>1. Seqnr(last)' = Seqnr(n)
      BY <1>5 DEF Seqnr
    <3>2. stats'.probation # 0
      BY <1>5 DEF q, on
    <3> QED
      BY <1>3, <1>5, <3>1, <3>2 DEF q
  <2>2. run \in Nat /\ stats.probation \in Nat
    BY <1>1 DEF ReceiveTypes, StatsType
  <2>3. stats'.probation = ProbationLength - run' + 1
    BY <1>1, <1>3, <1>5, <2>2 DEF ProbationInv
  <2> QED
    BY <1>3, <1>5, <2>1, <2>3 DEF ProbationInv
<1>10. ValidatedByRun' /\ ExtensionInv' /\ OrderInv'
  BY <1>3, <1>5 DEF ValidatedByRun, ExtensionInv, OrderInv
<1>11. EarlyInv'
  <2>1. (newest # -1 => Cycle(newest) \in early)'
    BY <1>1, <1>5 DEF EarlyInv
  <2>2. ASSUME NEW i \in DOMAIN packets'
        PROVE  /\ packets'[i].ext = Seqnr(packets'[i].index)
               /\ Cycle(packets'[i].index) \in early'
    BY <1>1, <1>5, <1>7 DEF EarlyInv, q
  <2> QED
    BY <1>5, <2>1, <2>2 DEF EarlyInv
<1> QED
  BY <1>5, <1>7, <1>8, <1>9, <1>10, <1>11 DEF ReceiveInv


\* The first packet that counts: the packets queued before it have its cycle, or the
\* one before when it carries the number zero.
LEMMA FirstCounts ==
  ASSUME ReceiveInv, NEW n \in Nat, Receive(n), ~stats.sentdata,
         NEW st \in StatsType, st.cycles = 0, stats' = FirstAccepted(st, Seqnr(n)),
         byname \/ run' >= ProbationLength + 1
  PROVE  ReceiveInv'
<1> DEFINE q == Seqnr(n)
           z == Cycle(n)
           high == IF q = 0 THEN Modulus ELSE q
<1>1. /\ ReceiveTypes /\ EarlyInv
      /\ Modulus \in Nat \ {0} /\ ProbationLength \in Nat \ {0} /\ Late \in Nat
      /\ 2 * Late < Modulus
  BY ReceiveAssumption DEF ReceiveInv
<1>2. q \in 0..(Modulus - 1) /\ q \in Nat /\ stats \in StatsType /\ z \in Int
  BY <1>1, SeqnrType DEF ReceiveTypes
<1>3. /\ stats' \in StatsType /\ stats'.sentdata = TRUE
      /\ stats'.cycles = IF q = 0 THEN Modulus ELSE 0
      /\ stats'.exthigh = high
  BY <1>2, FirstIs DEF StatsType
<1>4. Extended(stats, stats', q) = high /\ high \in Nat
  BY <1>1, <1>2, <1>3 DEF Extended
<1>5. (clean' => early \subseteq {IF q = 0 THEN z - 1 ELSE z}) /\ (clean' => clean)
  BY <1>3 DEF Receive
<1> HIDE DEF q, z, high
<1>6. /\ validated' = TRUE /\ last' = n
      /\ run' = IF last # -1 /\ q = (Seqnr(last) + 1) % Modulus THEN run + 1 ELSE 1
      /\ early' = early \cup {z}
      /\ newest = -1 \/ (newest - Late <= n /\ n <= newest + Ahead)
      /\ newest' = IF n > newest THEN n ELSE newest
      /\ storing' = storing /\ byname' = byname /\ first' = first
      /\ \A m : Seqnr(m)' = Seqnr(m) /\ Cycle(m)' = Cycle(m)
      /\ clean' \in BOOLEAN
  BY <1>3, ReceiveIs DEF q, z
<1>7. /\ packets' \in Seq(Packet) /\ Sorted(packets)'
      /\ \A i \in DOMAIN packets' :
            \/ packets'[i].ext = high /\ packets'[i].index = n
            \/ \E j \in DOMAIN packets : packets'[i] = packets[j]
  BY <1>3, <1>4, QueueStep DEF q
<1>8. ReceiveTypes'
  <2>1. {validated, byname, storing, clean}' \subseteq BOOLEAN
    BY <1>1, <1>6 DEF ReceiveTypes
  <2>2. newest' \in Nat \cup {-1} /\ last' \in Nat \cup {-1} /\ run' \in Nat
    BY <1>1, <1>6 DEF ReceiveTypes
  <2> QED
    BY <1>1, <1>3, <1>6, <1>7, <2>1, <2>2 DEF ReceiveTypes
<1>9. ProbationInv' /\ ValidatedByRun' /\ EarlyInv'
  BY <1>3, <1>6 DEF ProbationInv, ValidatedByRun, EarlyInv
<1>10. ExtensionInv'
  <2>1. CASE q = 0
    <3>1. stats'.cycles = Modulus * 1 /\ stats'.exthigh - stats'.cycles = 0
      BY <1>1, <1>3, <2>1 DEF high
    <3>2. 1 \in Nat /\ 0 \in 0..(Modulus - 1)
      BY <1>1
    <3>3. \E c \in Nat : stats'.cycles = Modulus * c
      BY <3>1, <3>2, Zenon
    <3> QED
      BY <1>3, <3>1, <3>2, <3>3, Zenon DEF ExtensionInv
  <2>2. CASE q # 0
    <3>1. stats'.cycles = Modulus * 0 /\ stats'.exthigh - stats'.cycles = q
      BY <1>1, <1>2, <1>3, <2>2 DEF high
    <3> QED
      BY <1>2, <1>3, <3>1 DEF ExtensionInv
  <2> QED
    BY <2>1, <2>2
<1>11. OrderInv'
  <2> SUFFICES ASSUME clean' PROVE HighIs(n)'
    BY DEF OrderInv
  <2> DEFINE e == IF q = 0 THEN z - 1 ELSE z
  <2>1. early \subseteq {e} /\ e \in Int
    BY <1>2, <1>5
  <2>2. newest # -1 => newest \in Nat /\ Cycle(newest) = e
    BY <1>1, <2>1 DEF EarlyInv, ReceiveTypes
  <2>3. n <= newest => newest \in Nat /\ newest - n < Modulus
    BY <1>1, <1>6 DEF ReceiveTypes
  <2>4. n <= newest => z <= Cycle(newest)
    <3>1. ASSUME n <= newest PROVE Cycle(newest) = z \/ Cycle(newest) = z + 1
      BY <1>1, <2>3, <3>1, NextCycle DEF z, ReceiveTypes
    <3> QED
      BY <1>2, <3>1
  <2>5. newest' # -1 /\ n <= newest' /\ newest' <= n + Late
    BY <1>1, <1>6 DEF ReceiveTypes
  <2>6. Cycle(newest)' = Cycle(n)'
    <3>1. n <= newest => Cycle(newest) = z
      BY <1>2, <2>2, <2>3, <2>4
    <3>2. newest' = n \/ (newest' = newest /\ n <= newest)
      BY <1>1, <1>6 DEF ReceiveTypes
    <3>3. Cycle(newest)' = (first + newest') \div Modulus
      BY <1>6 DEF Cycle
    <3>4. Cycle(n)' = z
      BY <1>6 DEF z
    <3> QED
      BY <3>1, <3>2, <3>3, <3>4 DEF Cycle, z
  <2>7. stats'.exthigh - stats'.cycles = Seqnr(n)'
    BY <1>1, <1>2, <1>3, <1>6 DEF high, q
  <2>8. ASSUME NEW j \in DOMAIN packets
        PROVE  packets[j].ext - packets[j].index = high - n
    <3> DEFINE m == packets[j].index
               a == Modulus * z
               b == Modulus * e
    <3>1. packets[j] \in Packet
      BY <1>1 DEF ReceiveTypes
    <3>2. m \in Nat /\ packets[j].ext = Seqnr(m) /\ Cycle(m) = e
      BY <1>1, <2>1, <3>1 DEF EarlyInv, Packet
    <3>3. Seqnr(m) = first + m - b
      BY <1>1, <3>2, SeqnrType DEF ReceiveTypes
    <3>4. q = first + n - a
      BY <1>1, SeqnrType DEF ReceiveTypes, q, z
    <3>5. b = IF q = 0 THEN a - Modulus ELSE a
      BY <1>1, <1>2, SMT
    <3>6. a \in Int /\ b \in Int /\ first \in Int
      BY <1>1, <1>2, <2>1, SMT DEF ReceiveTypes
    <3> HIDE DEF m, a, b, e
    <3>7. Seqnr(m) - m = high - n
      BY <1>1, <1>2, <3>2, <3>3, <3>4, <3>5, <3>6 DEF high
    <3> QED
      BY <3>2, <3>7 DEF m
  <2>9. \A i \in DOMAIN packets' : packets'[i].ext - packets'[i].index = stats'.exthigh - n
    BY <1>3, <1>7, <2>8
  <2> QED
    BY <2>5, <2>6, <2>7, <2>9 DEF HighIs
<1> QED
  BY <1>6, <1>7, <1>8, <1>9, <1>10, <1>11 DEF ReceiveInv


\* A packet of a source that already sent data: it becomes the highest, in the same
\* cycle or in the next, unless it is late.
LEMMA LaterCounts ==
  ASSUME ReceiveInv, NEW n \in Nat, Receive(n), stats.sentdata
  PROVE  ReceiveInv'
<1> DEFINE q == Seqnr(n)
           s == stats.exthigh - stats.cycles
           wraps == q < s /\ q - s + Modulus < s - q
<1>1. /\ ReceiveTypes /\ ProbationInv /\ ValidatedByRun
      /\ Modulus \in Nat \ {0} /\ Late \in Nat /\ Ahead \in Nat
      /\ 2 * (Late + Ahead) < Modulus
  BY ReceiveAssumption DEF ReceiveInv
<1>2. q \in 0..(Modulus - 1) /\ q \in Nat
  BY <1>1, SeqnrType DEF ReceiveTypes
<1>3. PICK c \in Nat : stats.cycles = Modulus * c
  BY Zenon DEF ReceiveInv, ExtensionInv
<1>4. s \in 0..(Modulus - 1) /\ stats \in StatsType
  BY DEF ReceiveInv, ExtensionInv, ReceiveTypes
<1>5. stats.cycles \in Nat /\ stats.exthigh \in Nat
  BY <1>4 DEF StatsType
<1>6. stats' = LaterPacket(stats, q)
  BY ReceiveIs DEF ProcessPacket
<1> HIDE DEF q, wraps
<1>7. /\ stats' \in StatsType /\ stats'.sentdata = TRUE
      /\ stats'.cycles = IF wraps THEN stats.cycles + Modulus ELSE stats.cycles
      /\ stats'.exthigh = IF wraps \/ q >= s THEN stats'.cycles + q ELSE stats.exthigh
  <2>1. s = stats.exthigh - stats.cycles
    OBVIOUS
  <2> HIDE DEF s
  <2> QED
    BY <1>2, <1>3, <1>4, <1>6, <2>1, LaterIs DEF wraps, StatsType
<1> DEFINE e == stats'.cycles + q
<1>8. Extended(stats, stats', q) = e /\ e \in Nat
  BY <1>1, <1>2, <1>5, <1>7 DEF Extended
<1>9. clean' => clean /\ Cycle(n) >= Cycle(newest)
  BY DEF Receive
<1>10. /\ validated' = TRUE /\ last' = last /\ run' = run /\ early' = early
       /\ newest = -1 \/ (newest - Late <= n /\ n <= newest + Ahead)
       /\ newest' = IF n > newest THEN n ELSE newest
       /\ storing' = storing /\ byname' = byname /\ first' = first
       /\ \A m : Seqnr(m)' = Seqnr(m) /\ Cycle(m)' = Cycle(m)
       /\ clean' \in BOOLEAN
  BY <1>7, ReceiveIs DEF q
<1> HIDE DEF e, s
<1>11. /\ packets' \in Seq(Packet) /\ Sorted(packets)'
       /\ \A i \in DOMAIN packets' :
             \/ packets'[i].ext = e /\ packets'[i].index = n
             \/ \E j \in DOMAIN packets : packets'[i] = packets[j]
  BY <1>7, <1>8, QueueStep DEF q
<1>12. ReceiveTypes'
  <2>1. {validated, byname, storing, clean}' \subseteq BOOLEAN
    BY <1>1, <1>10 DEF ReceiveTypes
  <2>2. newest' \in Nat \cup {-1} /\ last' \in Nat \cup {-1} /\ run' \in Nat
    BY <1>1, <1>10 DEF ReceiveTypes
  <2> QED
    BY <1>1, <1>7, <1>10, <1>11, <2>1, <2>2 DEF ReceiveTypes
<1>13. ProbationInv' /\ ValidatedByRun' /\ EarlyInv'
  BY <1>1, <1>7, <1>10 DEF ProbationInv, ValidatedByRun, EarlyInv
<1>14. ExtensionInv'
  <2>1. CASE wraps
    <3>1. Modulus * (c + 1) = stats'.cycles /\ c + 1 \in Nat
      BY <1>1, <1>3, <1>7, <2>1, SMT
    <3>2. \E k \in Nat : stats'.cycles = Modulus * k
      BY <3>1, Zenon
    <3>3. stats'.exthigh - stats'.cycles = q
      BY <1>1, <1>2, <1>5, <1>7, <2>1
    <3> QED
      BY <1>2, <1>7, <3>2, <3>3, Zenon DEF ExtensionInv
  <2>2. CASE ~wraps
    <3>1. \E k \in Nat : stats'.cycles = Modulus * k
      BY <1>3, <1>7, <2>2, Zenon
    <3>2. stats'.exthigh - stats'.cycles = IF q >= s THEN q ELSE s
      BY <1>2, <1>4, <1>5, <1>7, <2>2 DEF s
    <3>3. stats'.exthigh - stats'.cycles \in 0..(Modulus - 1)
      BY <1>2, <1>4, <3>2
    <3> QED
      BY <1>7, <3>1, <3>3, Zenon DEF ExtensionInv
  <2> QED
    BY <2>1, <2>2
<1>15. OrderInv'
  <2> SUFFICES ASSUME clean' PROVE \E k \in Nat : HighIs(k)'
    BY <1>10 DEF OrderInv, HighIs
  <2>1. PICK h \in Nat : HighIs(h)
    BY <1>9 DEF ReceiveInv, OrderInv
  <2>2. /\ newest \in Nat /\ h <= newest /\ newest <= h + Late
        /\ Cycle(h) = Cycle(newest) /\ s = Seqnr(h)
        /\ \A i \in DOMAIN packets : packets[i].ext - packets[i].index = stats.exthigh - h
    BY <1>1, <2>1 DEF HighIs, ReceiveTypes, s
  <2>3. /\ Cycle(h) \in Int /\ Cycle(n) \in Int /\ Cycle(n) >= Cycle(h)
        /\ s \in Nat /\ s < Modulus
    BY <1>1, <1>4, <1>9, <2>2, SeqnrType DEF ReceiveTypes
  <2>4. CASE n < h
    <3>1. h - n <= Late
      BY <1>1, <1>10, <2>2
    <3>2. s = q + (h - n)
      <4>1. \/ Cycle(h) = Cycle(n) /\ Seqnr(h) = q + (h - n)
            \/ Cycle(h) = Cycle(n) + 1
        BY <1>1, <2>4, <3>1, NextCycle DEF ReceiveTypes, q
      <4> QED
        BY <2>2, <2>3, <4>1
    <3>3. ~wraps /\ q < s
      BY <1>1, <1>2, <2>4, <3>1, <3>2 DEF wraps
    <3>4. stats'.cycles = stats.cycles /\ stats'.exthigh = stats.exthigh
      BY <1>2, <1>7, <2>3, <3>3
    <3>5. e - n = stats.exthigh - h
      BY <1>2, <1>5, <2>2, <3>2, <3>4 DEF e, s
    <3>6. newest' = newest
      BY <1>10, <2>2, <2>4
    <3>7. \A i \in DOMAIN packets' :
             packets'[i].ext - packets'[i].index = stats'.exthigh - h
      BY <1>11, <2>2, <3>4, <3>5
    <3>8. HighIs(h)'
      <4>1. (newest # -1 /\ h <= newest /\ newest <= h + Late)'
        BY <2>2, <3>6
      <4>2. (Cycle(h) = Cycle(newest))'
        BY <1>10, <2>2, <3>6 DEF Cycle
      <4>3. (stats.exthigh - stats.cycles = Seqnr(h))'
        BY <1>10, <2>2, <3>4 DEF s
      <4> QED
        BY <3>7, <4>1, <4>2, <4>3 DEF HighIs
    <3> QED
      BY <3>8
  <2>5. CASE h <= n
    <3>1. n - h <= Late + Ahead
      BY <1>1, <1>10, <2>2
    <3>2. \/ Cycle(n) = Cycle(h) /\ q = s + (n - h)
          \/ Cycle(n) = Cycle(h) + 1 /\ q = s + (n - h) - Modulus
      BY <1>1, <2>2, <2>5, <3>1, NextCycle DEF ReceiveTypes, q
    <3>3. stats'.exthigh = e /\ e - n = stats.exthigh - h
      <4>1. CASE q = s + (n - h)
        <5>1. q >= s /\ ~wraps
          BY <1>2, <2>3, <2>5, <4>1 DEF wraps
        <5> QED
          BY <1>2, <1>5, <1>7, <4>1, <5>1 DEF e, s
      <4>2. CASE q = s + (n - h) - Modulus
        <5>1. wraps
          BY <1>1, <1>2, <2>3, <2>5, <3>1, <4>2 DEF wraps
        <5> QED
          BY <1>1, <1>2, <1>5, <1>7, <4>2, <5>1 DEF e, s
      <4> QED
        BY <3>2, <4>1, <4>2
    <3>4. newest' # -1 /\ n <= newest' /\ newest' <= n + Late
      BY <1>1, <1>10, <2>2
    <3>5. n <= newest => Cycle(n) = Cycle(newest)
      <4> SUFFICES ASSUME n <= newest PROVE Cycle(n) = Cycle(newest)
        OBVIOUS
      <4>1. Cycle(newest) = Cycle(n) \/ Cycle(newest) = Cycle(n) + 1
        BY <1>1, <1>10, <2>2, NextCycle DEF ReceiveTypes
      <4> QED
        BY <2>2, <2>3, <4>1
    <3>6. (Cycle(n) = Cycle(newest))'
      <4>1. newest' = n \/ (newest' = newest /\ n <= newest)
        BY <1>10, <2>2
      <4>2. Cycle(newest)' = (first + newest') \div Modulus
        BY <1>10 DEF Cycle
      <4> QED
        BY <1>10, <3>5, <4>1, <4>2 DEF Cycle
    <3>7. (stats.exthigh - stats.cycles = Seqnr(n))'
      <4>1. stats'.cycles \in Nat
        BY <1>7 DEF StatsType
      <4>2. stats'.exthigh - stats'.cycles = q
        BY <1>2, <3>3, <4>1 DEF e
      <4> QED
        BY <1>10, <4>2 DEF q
    <3>8. \A i \in DOMAIN packets' :
             packets'[i].ext - packets'[i].index = stats'.exthigh - n
      BY <1>11, <2>2, <3>3
    <3>9. HighIs(n)'
      BY <3>4, <3>6, <3>7, <3>8 DEF HighIs
    <3> QED
      BY <3>9
  <2> QED
    BY <2>2, <2>4, <2>5
<1> QED
  BY <1>10, <1>11, <1>12, <1>13, <1>14, <1>15 DEF ReceiveInv

\* RTPInternalSourceData::ProcessRTPPacket: the source sent data before, is valid, ends
\* its probation with this packet or stays on it.
LEMMA ReceiveStep ==
  ASSUME ReceiveInv, NEW n \in Nat, Receive(n)
  PROVE  ReceiveInv'
<1> DEFINE q == Seqnr(n)
           on == OnProbation(stats, q)
<1>1. /\ ReceiveTypes /\ ProbationInv /\ ProbationLength \in Nat \ {0}
      /\ stats \in StatsType
  BY ReceiveAssumption DEF ReceiveInv, ReceiveTypes
<1>2. q \in 0..(Modulus - 1)
  BY <1>1, SeqnrType DEF ReceiveTypes
<1>3. stats' = ProcessPacket(stats, q)
  BY ReceiveIs
<1>4. CASE stats.sentdata
  BY <1>4, LaterCounts
<1>5. CASE ~stats.sentdata /\ validated
  <2>1. stats' = FirstAccepted(stats, q) /\ stats.cycles = 0 /\ byname
    BY <1>1, <1>3, <1>5 DEF ProcessPacket, ReceiveInv, ExtensionInv, ProbationInv
  <2> QED
    BY <1>1, <1>5, <2>1, FirstCounts
<1>6. CASE ~stats.sentdata /\ ~validated /\ on.probation = 0
  <2>1. stats' = FirstAccepted(on, q) /\ stats.cycles = 0
    BY <1>3, <1>6 DEF ProcessPacket, ReceiveInv, ExtensionInv
  <2>2. /\ on \in StatsType /\ on.cycles = 0
        /\ on.probation = IF stats.probation # 0 /\ q = (stats.prevseqnr + 1) % Modulus
                          THEN stats.probation - 1 ELSE ProbationLength
    BY <1>1, <1>2, <2>1, OnProbationIs
  <2>3. run' = IF last # -1 /\ q = (Seqnr(last) + 1) % Modulus THEN run + 1 ELSE 1
    BY <1>6, ReceiveIs
  <2> HIDE DEF on, q
  <2>4. run' = ProbationLength + 1
    <3>1. run \in Nat /\ stats.probation \in Nat
      BY <1>1 DEF ReceiveTypes, StatsType
    <3>2. stats.probation - 1 = 0 /\ stats.probation # 0 /\ q = (stats.prevseqnr + 1) % Modulus
      BY <1>1, <1>6, <2>2
    <3> QED
      BY <1>1, <1>6, <2>3, <3>1, <3>2 DEF ProbationInv
  <2>5. run' >= ProbationLength + 1
    BY <1>1, <2>4
  <2> QED
    BY <1>6, <2>1, <2>2, <2>5, FirstCounts DEF q
<1>7. CASE ~stats.sentdata /\ ~validated /\ on.probation # 0
  BY <1>7, StaysOnProbation
<1> QED
  BY <1>4, <1>5, <1>6, <1>7

\* A queue of packets that were all queued before keeps what the numbers say.
LEMMA FewerPackets ==
  ASSUME ReceiveInv,
         UNCHANGED <<stats, storing, history>>,
         validated' \in BOOLEAN, byname' \in BOOLEAN,
         validated => validated', byname => byname', validated' => validated \/ byname',
         packets' \in Seq(Packet), Sorted(packets)',
         ~validated' => Len(packets') <= MaxProbationPackets,
         \A i \in DOMAIN packets' : \E j \in DOMAIN packets : packets'[i] = packets[j]
  PROVE  ReceiveInv'
<1>1. /\ stats' = stats /\ storing' = storing /\ first' = first /\ newest' = newest
      /\ last' = last /\ run' = run /\ early' = early /\ clean' = clean
  BY DEF history
<1>2. \A m : Seqnr(m)' = Seqnr(m) /\ Cycle(m)' = Cycle(m)
  BY <1>1 DEF Seqnr, Cycle
<1>3. ReceiveTypes'
  BY <1>1 DEF ReceiveInv, ReceiveTypes
<1>4. ProbationInv' /\ ValidatedByRun' /\ ExtensionInv'
  <2>1. Seqnr(last)' = Seqnr(last)
    BY <1>1 DEF Seqnr
  <2>2. ProbationInv'
    BY <1>1, <2>1 DEF ReceiveInv, ProbationInv
  <2> QED
    BY <1>1, <2>2 DEF ReceiveInv, ValidatedByRun, ExtensionInv
<1>5. EarlyInv'
  <2>1. Cycle(newest)' = Cycle(newest)
    BY <1>1 DEF Cycle
  <2> QED
    BY <1>1, <1>2, <2>1 DEF ReceiveInv, EarlyInv
<1>6. OrderInv'
  <2> SUFFICES ASSUME stats.sentdata, clean PROVE \E h \in Nat : HighIs(h)'
    BY <1>1 DEF OrderInv, HighIs
  <2>1. PICK h \in Nat : HighIs(h)
    BY DEF ReceiveInv, OrderInv
  <2>2. Cycle(newest)' = Cycle(newest)
    BY <1>1 DEF Cycle
  <2>3. HighIs(h)'
    BY <1>1, <1>2, <2>1, <2>2 DEF HighIs
  <2> QED
    BY <2>3
<1> QED
  BY <1>3, <1>4, <1>5, <1>6 DEF ReceiveInv

\* What the counters say of the queue is the property.
LEMMA ReceiveInvSays == ReceiveInv => QueueSound
<1> SUFFICES ASSUME ReceiveInv PROVE QueueSound
  OBVIOUS
<1>1. ReceiveTypes /\ ReceiveTypeOK
  BY DEF ReceiveInv, ReceiveTypes, ReceiveTypeOK, StatsType
<1>2. QueueSorted
  BY DEF ReceiveInv, Sorted, QueueSorted
<1>3. QueueInSendOrder
  <2> SUFFICES ASSUME stats.sentdata, clean, NEW i \in DOMAIN packets, NEW j \in DOMAIN packets
               PROVE  packets[i].ext - packets[j].ext = packets[i].index - packets[j].index
    BY DEF QueueInSendOrder
  <2>1. PICK h \in Nat : HighIs(h)
    BY DEF ReceiveInv, OrderInv
  <2>2. packets[i] \in Packet /\ packets[j] \in Packet /\ stats.exthigh \in Nat
    BY <1>1 DEF ReceiveTypes, StatsType
  <2>3. /\ packets[i].ext - packets[i].index = stats.exthigh - h
        /\ packets[j].ext - packets[j].index = stats.exthigh - h
    BY <2>1 DEF HighIs
  <2>4. /\ packets[i].ext \in Nat /\ packets[i].index \in Nat
        /\ packets[j].ext \in Nat /\ packets[j].index \in Nat
    BY <2>2 DEF Packet
  <2> QED
    BY <2>2, <2>3, <2>4
<1> QED
  BY <1>1, <1>2, <1>3 DEF QueueSound, ReceiveInv

\* RTPInternalSourceData: a source is validated only by a run of packets in sequence or a
\* CNAME, and its packets stay sorted, in the order they were sent, whatever the network
\* loses, repeats or delays.
THEOREM QueueIsSound == ReceiveSpec => []QueueSound
<1>1. ReceiveInit => ReceiveInv
  <2> SUFFICES ASSUME ReceiveInit PROVE ReceiveInv
    OBVIOUS
  <2>1. Modulus \in Nat \ {0} /\ MaxProbationPackets \in Nat
    BY ReceiveAssumption
  <2>2. stats \in StatsType
    BY <2>1, ReceiveAssumption DEF ReceiveInit, NewStats, StatsType
  <2>3. packets \in Seq(Packet) /\ Len(packets) = 0 /\ DOMAIN packets = {}
    BY DEF ReceiveInit
  <2>4. ReceiveTypes
    BY <2>2, <2>3 DEF ReceiveInit, ReceiveTypes
  <2> QED
    BY <2>1, <2>3, <2>4
    DEF ReceiveInit, NewStats, ReceiveInv, ProbationInv, ValidatedByRun, ExtensionInv,
        Sorted, EarlyInv, OrderInv
<1>2. ReceiveInv /\ [ReceiveNext]_receivevars => ReceiveInv'
  <2> SUFFICES ASSUME ReceiveInv, [ReceiveNext]_receivevars PROVE ReceiveInv'
    OBVIOUS
  <2>0. /\ packets \in Seq(Packet) /\ Sorted(packets) /\ LastIndex \in Nat
        /\ validated \in BOOLEAN /\ byname \in BOOLEAN
        /\ ~validated => Len(packets) <= MaxProbationPackets
        /\ MaxProbationPackets \in Nat
    BY ReceiveAssumption DEF ReceiveInv, ReceiveTypes
  <2>1. CASE \E n \in 0..LastIndex : Receive(n)
    <3>1. PICK n \in 0..LastIndex : Receive(n)
      BY <2>1
    <3>2. n \in Nat
      BY <2>0
    <3> QED
      BY <3>1, <3>2, ReceiveStep
  <2>2. CASE Validate
    <3>1. Sorted(packets)'
      BY <2>0, <2>2 DEF Validate, Sorted
    <3> QED
      BY <2>0, <2>2, <3>1, FewerPackets DEF Validate
  <2>3. CASE GetNextPacket
    <3>1. packets' = Tail(packets) /\ packets # <<>>
      BY <2>3 DEF GetNextPacket
    <3>2. /\ packets' \in Seq(Packet) /\ Sorted(packets)'
          /\ \A i \in DOMAIN packets' : \E j \in DOMAIN packets : packets'[i] = packets[j]
      BY <2>0, <3>1, TailOfSorted DEF Sorted
    <3> QED
      BY <2>0, <2>3, <3>2, FewerPackets DEF GetNextPacket
  <2>4. CASE FlushPackets
    <3>1. /\ packets' = <<>> /\ packets' \in Seq(Packet) /\ DOMAIN packets' = {}
          /\ Len(packets') = 0
      BY <2>4 DEF FlushPackets
    <3>2. Sorted(packets)'
      BY <3>1 DEF Sorted
    <3> QED
      BY <2>0, <2>4, <3>1, <3>2, FewerPackets DEF FlushPackets
  <2>5. CASE UNCHANGED receivevars
    <3>1. Sorted(packets)' /\ packets' = packets
      BY <2>0, <2>5 DEF receivevars, source, Sorted
    <3> QED
      BY <2>0, <2>5, <3>1, FewerPackets DEF receivevars, source
  <2> QED
    BY <2>1, <2>2, <2>3, <2>4, <2>5 DEF ReceiveNext
<1> QED
  BY <1>1, <1>2, ReceiveInvSays, PTL DEF ReceiveSpec

-----------------------------------------------------------------------------
(* The payload of a log.                                                    *)

SeqNumber == 0..(SeqModulus - 1)
Timestamp == 0..(TimeModulus - 1)
LogEntry == [ts : Timestamp, time : Nat, payload : Nat, seq : SeqNumber]

\* f adds the payload up.
Adds(l, f) == f = [i \in 0..Len(l) |-> IF i = 0 THEN 0 ELSE f[i - 1] + l[i].payload]

\* There is only one such sum.
LEMMA AddsOnce ==
  ASSUME NEW l \in Seq(LogEntry), NEW f, NEW g, Adds(l, f), Adds(l, g)
  PROVE  f = g
<1> DEFINE D == 0..Len(l)
           T == {i \in D : f[i] # g[i]}
<1>1. /\ f = [i \in D |-> f[i]] /\ f[0] = 0 /\ \A i \in D : i # 0 => f[i] = f[i - 1] + l[i].payload
      /\ g = [i \in D |-> g[i]] /\ g[0] = 0 /\ \A i \in D : i # 0 => g[i] = g[i - 1] + l[i].payload
  BY DEF Adds
<1>2. ASSUME T # {} PROVE FALSE
  <2>1. PICK x \in T : \A y \in T : x <= y
    <3>1. T \in SUBSET Nat
      OBVIOUS
    <3> HIDE DEF T
    <3> QED
      BY <1>2, <3>1, LeastNat
  <2>2. x # 0 /\ x - 1 \in D /\ ~(x <= x - 1)
    BY <1>1
  <2>3. f[x - 1] = g[x - 1]
    BY <2>1, <2>2
  <2> QED
    BY <1>1, <2>2, <2>3
<1>3. \A i \in D : f[i] = g[i]
  BY <1>2
<1> QED
  BY <1>1, <1>3

\* The sum of a log that has one more packet.
AddsOn(l, f, e) == [i \in 0..(Len(l) + 1) |-> IF i <= Len(l) THEN f[i] ELSE f[Len(l)] + e.payload]

\* It adds up what the shorter sum did, and the last payload.
LEMMA AddsMore ==
  ASSUME NEW l \in Seq(LogEntry), NEW f, Adds(l, f), NEW e \in LogEntry
  PROVE  Adds(Append(l, e), AddsOn(l, f, e))
<1> DEFINE n == Len(l)
           m == Append(l, e)
           h == AddsOn(l, f, e)
<1>1. Len(m) = n + 1 /\ n \in Nat /\ m[n + 1] = e /\ \A i \in 1..n : m[i] = l[i]
  OBVIOUS
<1>2. f[0] = 0 /\ \A i \in 0..n : i # 0 => f[i] = f[i - 1] + l[i].payload
  BY DEF Adds
<1>3. h = [i \in 0..(n + 1) |-> h[i]] /\ \A i \in 0..n : h[i] = f[i]
  BY DEF AddsOn
<1>4. h[n + 1] = f[n] + e.payload
  BY <1>1 DEF AddsOn
<1>5. \A i \in 0..(n + 1) : h[i] = IF i = 0 THEN 0 ELSE h[i - 1] + m[i].payload
  <2> SUFFICES ASSUME NEW i \in 0..(n + 1)
               PROVE  h[i] = IF i = 0 THEN 0 ELSE h[i - 1] + m[i].payload
    OBVIOUS
  <2> HIDE DEF h, m
  <2>1. CASE i = 0
    BY <1>1, <1>2, <1>3, <2>1
  <2>2. CASE i # 0 /\ i <= n
    <3>1. i \in 0..n /\ i - 1 \in 0..n /\ i \in 1..n
      BY <1>1, <2>2
    <3>2. h[i] = f[i] /\ h[i - 1] = f[i - 1]
      BY <1>3, <3>1, Zenon
    <3>3. m[i] = l[i]
      BY <1>1, <3>1, Zenon
    <3> QED
      BY <1>2, <2>2, <3>1, <3>2, <3>3, Zenon
  <2>3. CASE i = n + 1
    <3>1. i # 0 /\ i - 1 = n /\ n \in 0..n
      BY <1>1, <2>3
    <3>2. h[i - 1] = f[n]
      BY <1>3, <3>1, Zenon
    <3>3. h[i] = f[n] + e.payload /\ m[i] = e
      BY <1>1, <1>4, <2>3, Zenon
    <3> QED
      BY <3>1, <3>2, <3>3, Zenon
  <2> QED
    BY <1>1, <2>1, <2>2, <2>3
<1>6. Len(m) = n + 1 /\ h = [i \in 0..(n + 1) |-> h[i]]
  BY <1>1, <1>3
<1> HIDE DEF h, m, n
<1>7. h = [i \in 0..Len(m) |-> IF i = 0 THEN 0 ELSE h[i - 1] + m[i].payload]
  BY <1>5, <1>6
<1>8. Adds(m, h)
  BY <1>7, Zenon DEF Adds
<1> QED
  BY <1>8 DEF h, m

\* Every log has one.
LEMMA AddsExists ==
  ASSUME NEW l \in Seq(LogEntry)
  PROVE  \E f : Adds(l, f)
<1> DEFINE Head_(n) == SubSeq(l, 1, n)
           T == {n \in 0..Len(l) : ~ \E f : Adds(Head_(n), f)}
<1>1. \A n \in 0..Len(l) : Head_(n) \in Seq(LogEntry) /\ Len(Head_(n)) = n
  OBVIOUS
<1>2. 0 \notin T
  <2>1. Len(Head_(0)) = 0
    BY <1>1
  <2>2. Adds(Head_(0), [i \in 0..0 |-> 0])
    <3> HIDE DEF Head_
    <3> QED
      BY <2>1 DEF Adds
  <2> QED
    BY <2>2
<1>3. ASSUME T # {} PROVE FALSE
  <2>1. PICK x \in T : \A y \in T : x <= y
    <3>1. T \in SUBSET Nat
      OBVIOUS
    <3> HIDE DEF T
    <3> QED
      BY <1>3, <3>1, LeastNat
  <2>2. x # 0 /\ x \in 0..Len(l)
    BY <1>2
  <2>3. x - 1 \in 0..Len(l) /\ x - 1 \notin T
    BY <2>1, <2>2
  <2>4. PICK f : Adds(Head_(x - 1), f)
    BY <2>3
  <2>5. Head_(x) = Append(Head_(x - 1), l[x]) /\ l[x] \in LogEntry
    BY <2>2
  <2>6. Head_(x - 1) \in Seq(LogEntry)
    BY <1>1, <2>3
  <2>7. Adds(Head_(x), AddsOn(Head_(x - 1), f, l[x]))
    <3> HIDE DEF Head_
    <3> QED
      BY <2>4, <2>5, <2>6, AddsMore
  <2> QED
    BY <2>1, <2>7
<1>4. \E f : Adds(Head_(Len(l)), f)
  BY <1>3
<1>5. Head_(Len(l)) = l
  OBVIOUS
<1> QED
  BY <1>4, <1>5

\* A packet more is its payload more.
LEMMA PayloadIs ==
  /\ PayloadOf(<<>>) = 0
  /\ \A l \in Seq(LogEntry) : PayloadOf(l) \in Nat
  /\ \A l \in Seq(LogEntry), e \in LogEntry : PayloadOf(Append(l, e)) = PayloadOf(l) + e.payload
<1> DEFINE Sum(l) == CHOOSE f : Adds(l, f)
<1>1. ASSUME NEW l PROVE PayloadOf(l) = Sum(l)[Len(l)]
  BY DEF PayloadOf, Adds
<1>2. ASSUME NEW l \in Seq(LogEntry) PROVE Adds(l, Sum(l))
  BY AddsExists
<1>3. ASSUME NEW l \in Seq(LogEntry), NEW f, Adds(l, f) PROVE PayloadOf(l) = f[Len(l)]
  <2>1. Adds(l, Sum(l))
    BY <1>2
  <2>2. f = Sum(l)
    BY <1>3, <2>1, AddsOnce
  <2> QED
    BY <1>1, <2>2
<1> HIDE DEF Sum
<1>4. PayloadOf(<<>>) = 0
  <2>1. Adds(<<>>, [i \in 0..0 |-> 0]) /\ Len(<<>>) = 0 /\ <<>> \in Seq(LogEntry)
    BY DEF Adds
  <2> QED
    BY <1>3, <2>1
<1>5. ASSUME NEW l \in Seq(LogEntry), NEW e \in LogEntry
      PROVE  PayloadOf(Append(l, e)) = PayloadOf(l) + e.payload
  <2>1. PICK f : Adds(l, f)
    BY <1>2
  <2>2. Adds(Append(l, e), AddsOn(l, f, e))
    BY <2>1, AddsMore
  <2>3. Append(l, e) \in Seq(LogEntry) /\ Len(Append(l, e)) = Len(l) + 1 /\ Len(l) \in Nat
    OBVIOUS
  <2>4. PayloadOf(Append(l, e)) = AddsOn(l, f, e)[Len(l) + 1]
    BY <1>3, <2>2, <2>3
  <2>5. PayloadOf(l) = f[Len(l)]
    BY <1>3, <2>1
  <2> QED
    BY <2>3, <2>4, <2>5 DEF AddsOn
<1>6. ASSUME NEW l \in Seq(LogEntry) PROVE PayloadOf(l) \in Nat
  <2>1. PICK f : Adds(l, f)
    BY <1>2
  <2> DEFINE T == {i \in 0..Len(l) : f[i] \notin Nat}
  <2>2. f[0] = 0 /\ \A i \in 0..Len(l) : i # 0 => f[i] = f[i - 1] + l[i].payload
    BY <2>1 DEF Adds
  <2>3. ASSUME T # {} PROVE FALSE
    <3>1. PICK x \in T : \A y \in T : x <= y
      <4>1. T \in SUBSET Nat
        OBVIOUS
      <4> HIDE DEF T
      <4> QED
        BY <2>3, <4>1, LeastNat
    <3>2. x # 0 /\ x - 1 \in 0..Len(l) /\ x - 1 \notin T
      BY <2>2, <3>1
    <3>3. l[x].payload \in Nat
      <4>1. x \in 1..Len(l)
        BY <3>1, <3>2
      <4>2. l[x] \in LogEntry
        BY <4>1
      <4> QED
        BY <4>2 DEF LogEntry
    <3> QED
      BY <2>2, <3>2, <3>3
  <2> QED
    BY <1>3, <2>1, <2>3
<1> QED
  BY <1>4, <1>5, <1>6

-----------------------------------------------------------------------------
(* A packet and its parser.                                                 *)

RequestType == [pt : 0..255, mark : BOOLEAN, inc : Nat, payload : Nat, words : Nat \cup {-1}]
Role == {"csrc", "fill", "ext", "data", "len"}
Bytes == [role : Role, v : Id \cup Int]

\* Where things are in the bytes after the fixed header.
IdsEnd(cs) == WordSize * Len(cs)
DataAt(r, cs) == IdsEnd(cs) + ExtensionBytes(r.words)

\* Two sequences in a row.
LEMMA InARow ==
  \A s, t \in Seq(Bytes) :
     /\ s \o t \in Seq(Bytes) /\ Len(s) \in Nat /\ Len(t) \in Nat
     /\ Len(s \o t) = Len(s) + Len(t)
     /\ \A k \in 1..Len(s) : (s \o t)[k] = s[k]
     /\ \A k \in 1..Len(t) : (s \o t)[Len(s) + k] = t[k]
OBVIOUS

\* The CSRCs, the extension and the payload are each in their place.
LEMMA LayoutIs ==
  ASSUME NEW r \in RequestType, NEW cs \in Seq(Id), NEW q, NEW t, NEW s
  PROVE  LET b == PacketOf(r, cs, q, t, s).body
         IN  /\ b \in Seq(Bytes) /\ Len(b) = DataAt(r, cs) + r.payload
             /\ \A i \in 1..Len(cs) : b[WordSize * (i - 1) + 1] = Byte("csrc", cs[i])
             /\ r.words >= 0 => b[IdsEnd(cs) + 1] = Byte("ext", r.words)
             /\ \A k \in 1..r.payload : b[DataAt(r, cs) + k] = Byte("data", 0)
<1> DEFINE W == Words("csrc", cs)
           E == IF r.words < 0 THEN <<>> ELSE Word("ext", r.words) \o Fill(WordSize * r.words)
           P == [i \in 1..r.payload |-> Byte("data", 0)]
<1>0. r.words \in Nat \cup {-1} /\ r.payload \in Nat /\ Len(cs) \in Nat
  BY DEF RequestType
<1>1. Byte("fill", 0) \in Bytes /\ Byte("data", 0) \in Bytes /\ Byte("ext", r.words) \in Bytes
  BY <1>0 DEF Byte, Bytes, Role
<1>2. \A i \in 1..Len(cs) : Byte("csrc", cs[i]) \in Bytes
  BY DEF Byte, Bytes, Role
<1>3. /\ W \in Seq(Bytes) /\ Len(W) = IdsEnd(cs)
      /\ \A i \in 1..Len(cs) : W[WordSize * (i - 1) + 1] = Byte("csrc", cs[i])
  <2>1. DOMAIN W = 1..IdsEnd(cs) /\ IdsEnd(cs) \in Nat
    BY <1>0 DEF Words, WordSize, IdsEnd
  <2>2. \A k \in 1..IdsEnd(cs) : W[k] \in Bytes
    <3> SUFFICES ASSUME NEW k \in 1..IdsEnd(cs) PROVE W[k] \in Bytes
      OBVIOUS
    <3>1. (k - 1) \div 4 + 1 \in 1..Len(cs)
      BY <1>0, SMT DEF IdsEnd, WordSize
    <3>2. W[k] = IF k % WordSize = 1 THEN Byte("csrc", cs[(k - 1) \div WordSize + 1])
                 ELSE Byte("fill", 0)
      BY DEF Words, IdsEnd
    <3> QED
      BY <1>1, <1>2, <3>1, <3>2, Zenon DEF WordSize
  <2>3. W = [k \in 1..IdsEnd(cs) |-> W[k]]
    BY DEF Words, IdsEnd
  <2>4. ASSUME NEW i \in 1..Len(cs) PROVE W[WordSize * (i - 1) + 1] = Byte("csrc", cs[i])
    <3> DEFINE k == 4 * (i - 1) + 1
    <3>1. k \in 1..IdsEnd(cs) /\ k % 4 = 1 /\ (k - 1) \div 4 + 1 = i
      BY <1>0, SMT DEF IdsEnd, WordSize
    <3>2. W[k] = IF k % WordSize = 1 THEN Byte("csrc", cs[(k - 1) \div WordSize + 1])
                 ELSE Byte("fill", 0)
      BY <3>1 DEF Words, IdsEnd
    <3> QED
      BY <3>1, <3>2, Zenon DEF WordSize
  <2> HIDE DEF W
  <2>5. W \in Seq(Bytes) /\ Len(W) = IdsEnd(cs)
    BY <2>1, <2>2, <2>3
  <2> QED
    BY <2>4, <2>5
<1>4. /\ E \in Seq(Bytes) /\ Len(E) = ExtensionBytes(r.words)
      /\ r.words >= 0 => E # <<>> /\ E[1] = Byte("ext", r.words)
  <2>1. CASE r.words < 0
    <3>1. E = <<>> /\ ExtensionBytes(r.words) = 0 /\ ~(r.words >= 0)
      BY <1>0, <2>1 DEF ExtensionBytes
    <3> HIDE DEF E
    <3> QED
      BY <3>1
  <2>2. CASE r.words >= 0
    <3> DEFINE A == Word("ext", r.words)
               B == Fill(WordSize * r.words)
    <3>1. Fill(WordSize - 1) \in Seq(Bytes) /\ Len(Fill(WordSize - 1)) = 3
      <4>1. Fill(WordSize - 1) = [i \in 1..3 |-> Byte("fill", 0)]
        BY DEF Fill, WordSize
      <4>2. /\ [i \in 1..3 |-> Byte("fill", 0)] \in Seq(Bytes)
            /\ Len([i \in 1..3 |-> Byte("fill", 0)]) = 3
        BY <1>1
      <4> QED
        BY <4>1, <4>2
    <3>2. A \in Seq(Bytes) /\ Len(A) = 4 /\ A[1] = Byte("ext", r.words)
      <4>1. <<Byte("ext", r.words)>> \in Seq(Bytes) /\ Len(<<Byte("ext", r.words)>>) = 1
        BY <1>1
      <4> QED
        BY <3>1, <4>1, InARow, 1 \in 1..1 DEF Word
    <3>3. B \in Seq(Bytes) /\ Len(B) = 4 * r.words
      <4>1. 4 * r.words \in Nat
        BY <1>0, <2>2
      <4>2. B = [i \in 1..(4 * r.words) |-> Byte("fill", 0)]
        BY DEF Fill, WordSize
      <4> QED
        BY <1>1, <4>1, <4>2
    <3>4. E = A \o B
      BY <1>0, <2>2
    <3> HIDE DEF A, B, E
    <3>5. E \in Seq(Bytes) /\ Len(E) = 4 + 4 * r.words /\ E[1] = A[1]
      <4>1. 1 \in 1..Len(A)
        BY <3>2
      <4>2. E \in Seq(Bytes) /\ Len(E) = Len(A) + Len(B) /\ E[1] = A[1]
        BY <3>2, <3>3, <3>4, <4>1, InARow, Zenon
      <4> QED
        BY <3>2, <3>3, <4>2
    <3>6. ExtensionBytes(r.words) = 4 + 4 * r.words
      BY <1>0, <2>2 DEF ExtensionBytes, WordSize
    <3>7. E # <<>>
      BY <1>0, <2>2, <3>5
    <3> QED
      BY <3>2, <3>5, <3>6, <3>7
  <2> QED
    BY <1>0, <2>1, <2>2
<1>5. P \in Seq(Bytes) /\ Len(P) = r.payload /\ \A k \in 1..r.payload : P[k] = Byte("data", 0)
  BY <1>0, <1>1
<1>6. PacketOf(r, cs, q, t, s).body = (W \o E) \o P
  BY DEF PacketOf
<1> HIDE DEF W, E, P
<1>7. /\ W \o E \in Seq(Bytes) /\ Len(W \o E) = DataAt(r, cs) /\ Len(W) \in Nat /\ Len(E) \in Nat
      /\ \A k \in 1..Len(W) : (W \o E)[k] = W[k]
      /\ \A k \in 1..Len(E) : (W \o E)[Len(W) + k] = E[k]
  BY <1>3, <1>4, InARow DEF DataAt
<1> DEFINE b == (W \o E) \o P
<1>8. /\ b \in Seq(Bytes) /\ Len(b) = DataAt(r, cs) + r.payload
      /\ \A k \in 1..Len(W \o E) : b[k] = (W \o E)[k]
      /\ \A k \in 1..r.payload : b[DataAt(r, cs) + k] = P[k]
  <2>1. Len(W \o E) + Len(P) = DataAt(r, cs) + r.payload
    BY <1>5, <1>7
  <2>2. /\ b \in Seq(Bytes) /\ Len(b) = Len(W \o E) + Len(P)
        /\ \A k \in 1..Len(W \o E) : b[k] = (W \o E)[k]
        /\ \A k \in 1..Len(P) : b[Len(W \o E) + k] = P[k]
    BY <1>5, <1>7, InARow, Zenon
  <2> HIDE DEF b
  <2> QED
    BY <1>5, <1>7, <2>1, <2>2
<1> HIDE DEF b
<1>9. ASSUME NEW i \in 1..Len(cs) PROVE b[WordSize * (i - 1) + 1] = Byte("csrc", cs[i])
  <2>1. WordSize * (i - 1) + 1 \in 1..Len(W) /\ Len(W) <= Len(W \o E)
    BY <1>0, <1>3, <1>4, <1>7, InARow, SMT DEF IdsEnd, WordSize
  <2>2. WordSize * (i - 1) + 1 \in 1..Len(W \o E)
    BY <1>7, <2>1
  <2> QED
    BY <1>3, <1>7, <1>8, <2>1, <2>2, Zenon
<1>10. ASSUME r.words >= 0 PROVE b[IdsEnd(cs) + 1] = Byte("ext", r.words)
  <2>1. 1 \in 1..Len(E) /\ Len(W) + 1 \in 1..Len(W \o E)
    BY <1>4, <1>7, <1>10, InARow, <1>3
  <2> QED
    BY <1>3, <1>4, <1>7, <1>8, <1>10, <2>1, Zenon
<1> QED
  BY <1>5, <1>6, <1>8, <1>9, <1>10 DEF b

\* The bytes hold what was asked for, each part at its place.
Holds(b, r, cs) ==
    /\ \A i \in 1..Len(cs) : b[WordSize * (i - 1) + 1] = Byte("csrc", cs[i])
    /\ r.words >= 0 => b[IdsEnd(cs) + 1] = Byte("ext", r.words)
    /\ \A k \in 1..r.payload : b[DataAt(r, cs) + k] = Byte("data", 0)

\* A packet carries what it was asked to, with n bytes of padding.
Carries(h, b, r, cs, n) ==
    /\ h.version = 2 /\ (h.padding <=> n # 0) /\ (h.extension <=> r.words >= 0)
    /\ h.csrccount = Len(cs) /\ h.marker = r.mark /\ h.pt = r.pt
    /\ b \in Seq(Bytes) /\ Len(b) = DataAt(r, cs) + r.payload + n
    /\ Holds(b, r, cs)
    /\ n # 0 => Value(Last(b)) = n

\* The places, as numbers.
LEMMA PlacesAre ==
  ASSUME NEW r \in RequestType, NEW cs \in Seq(Id)
  PROVE  /\ r.words \in Nat \cup {-1} /\ r.payload \in Nat /\ Len(cs) \in Nat
         /\ IdsEnd(cs) \in Nat /\ WordSize * Len(cs) = IdsEnd(cs)
         /\ ExtensionBytes(r.words) \in Nat /\ (r.words >= 0 => ExtensionBytes(r.words) >= 4)
         /\ DataAt(r, cs) = IdsEnd(cs) + ExtensionBytes(r.words) /\ DataAt(r, cs) \in Nat
         /\ \A i \in 1..Len(cs) : WordSize * (i - 1) + 1 \in 1..IdsEnd(cs)
         /\ r.words >= 0 => IdsEnd(cs) + 1 \in 1..DataAt(r, cs)
BY DEF RequestType, IdsEnd, WordSize, ExtensionBytes, DataAt

\* Bytes that follow change nothing of what was there.
LEMMA CarriesOn ==
  ASSUME NEW r \in RequestType, NEW cs \in Seq(Id), NEW b \in Seq(Bytes),
         Len(b) = DataAt(r, cs) + r.payload, Holds(b, r, cs),
         NEW m \in Seq(Bytes), \A k \in 1..Len(b) : m[k] = b[k]
  PROVE  Holds(m, r, cs)
<1>1. /\ r.payload \in Nat /\ Len(b) \in Nat /\ DataAt(r, cs) \in Nat /\ IdsEnd(cs) <= DataAt(r, cs)
  BY PlacesAre
<1>2. 1..IdsEnd(cs) \subseteq 1..Len(b) /\ 1..DataAt(r, cs) \subseteq 1..Len(b)
  BY <1>1, PlacesAre
<1>3. \A k \in 1..r.payload : DataAt(r, cs) + k \in 1..Len(b)
  BY <1>1
<1> QED
  BY <1>2, <1>3, PlacesAre, Zenon DEF Holds

\* A padded packet carries what the packet was asked to.
LEMMA PaddedIs ==
  ASSUME NEW r \in RequestType, NEW cs \in Seq(Id), NEW q, NEW t, NEW s, NEW n \in 0..2
  PROVE  LET p == Padded(PacketOf(r, cs, q, t, s), n)
         IN  Carries(p.head, p.body, r, cs, n) /\ p.head.seq = q /\ p.head.ts = t /\ p.head.ssrc = s
<1> DEFINE h == [version |-> 2, padding |-> FALSE, extension |-> r.words >= 0,
                 csrccount |-> Len(cs), marker |-> r.mark, pt |-> r.pt,
                 seq |-> q, ts |-> t, ssrc |-> s]
           b == PacketOf(r, cs, q, t, s).body
           p == Padded(PacketOf(r, cs, q, t, s), n)
           F == Fill(n - 1)
           L == <<Byte("len", n)>>
<1>1. /\ b \in Seq(Bytes) /\ Len(b) = DataAt(r, cs) + r.payload
      /\ \A i \in 1..Len(cs) : b[WordSize * (i - 1) + 1] = Byte("csrc", cs[i])
      /\ r.words >= 0 => b[IdsEnd(cs) + 1] = Byte("ext", r.words)
      /\ \A k \in 1..r.payload : b[DataAt(r, cs) + k] = Byte("data", 0)
  BY LayoutIs
<1>11. Holds(b, r, cs)
  BY <1>1, Zenon DEF Holds
<1>2. PacketOf(r, cs, q, t, s).head = h
  BY DEF PacketOf
<1>3. PacketOf(r, cs, q, t, s) = [head |-> h, body |-> b]
  BY DEF PacketOf
<1>4. /\ h.version = 2 /\ ~h.padding /\ (h.extension <=> r.words >= 0)
      /\ h.csrccount = Len(cs) /\ h.marker = r.mark /\ h.pt = r.pt
      /\ h.seq = q /\ h.ts = t /\ h.ssrc = s
  BY Zenon
<1> DEFINE g == [h EXCEPT !.padding = TRUE]
<1>5. /\ g.version = 2 /\ g.padding /\ (g.extension <=> r.words >= 0)
      /\ g.csrccount = Len(cs) /\ g.marker = r.mark /\ g.pt = r.pt
      /\ g.seq = q /\ g.ts = t /\ g.ssrc = s
  BY Zenon
<1>6. p = IF n = 0 THEN [head |-> h, body |-> b]
          ELSE [head |-> g, body |-> (b \o F) \o L]
  <2>1. p = IF n = 0 THEN PacketOf(r, cs, q, t, s)
            ELSE [head |-> [PacketOf(r, cs, q, t, s).head EXCEPT !.padding = TRUE],
                  body |-> (b \o F) \o L]
    BY Zenon DEF Padded
  <2> HIDE DEF p, h, b, F, L
  <2> QED
    BY <1>2, <1>3, <2>1
<1>7. F \in Seq(Bytes) /\ (n # 0 => Len(F) = n - 1)
  <2>1. Byte("fill", 0) \in Bytes
    BY DEF Byte, Bytes, Role
  <2>2. n - 1 \in Nat \/ n = 0
    OBVIOUS
  <2>3. CASE n - 1 \in Nat
    <3>1. [i \in 1..(n - 1) |-> Byte("fill", 0)] \in Seq(Bytes)
          /\ Len([i \in 1..(n - 1) |-> Byte("fill", 0)]) = n - 1
      BY <2>1, <2>3
    <3> QED
      BY <3>1, Zenon DEF Fill
  <2>4. CASE n = 0
    <3>1. [i \in 1..(n - 1) |-> Byte("fill", 0)] = <<>>
      BY <2>4
    <3> QED
      BY <2>4, <3>1 DEF Fill
  <2> QED
    BY <2>2, <2>3, <2>4
<1>8. L \in Seq(Bytes) /\ Len(L) = 1 /\ L[1] = Byte("len", n)
  <2>1. Byte("len", n) \in Bytes
    BY DEF Byte, Bytes, Role
  <2> QED
    BY <2>1
<1> HIDE DEF h, b, p, F, L, g
<1>9. CASE n = 0
  <2>1. p.head = h /\ p.body = b
    BY <1>6, <1>9
  <2>2. Len(b) = DataAt(r, cs) + r.payload + n
    <3>1. DataAt(r, cs) + r.payload \in Nat
      BY PlacesAre
    <3> QED
      BY <1>1, <1>9, <3>1
  <2>3. Carries(h, b, r, cs, n)
    BY <1>1, <1>4, <1>9, <1>11, <2>2, Zenon DEF Carries
  <2> QED
    BY <1>4, <2>1, <2>3, Zenon DEF p
<1>10. CASE n # 0
  <2> DEFINE m == (b \o F) \o L
  <2>1. p.head = g /\ p.body = m
    BY <1>6, <1>10
  <2>2. Len(b) \in Nat
    BY <1>1, InARow
  <2>3. /\ b \o F \in Seq(Bytes) /\ Len(b \o F) = Len(b) + (n - 1)
        /\ \A k \in 1..Len(b) : (b \o F)[k] = b[k]
    BY <1>1, <1>7, <1>10, InARow
  <2>4. /\ m \in Seq(Bytes) /\ Len(m) = Len(b \o F) + Len(L)
        /\ \A k \in 1..Len(b \o F) : m[k] = (b \o F)[k]
        /\ \A k \in 1..Len(L) : m[Len(b \o F) + k] = L[k]
    BY <1>8, <2>3, InARow, Zenon
  <2> HIDE DEF m
  <2>5. Len(m) = Len(b) + n
    BY <1>8, <2>2, <2>3, <2>4
  <2>6. Last(m) = Byte("len", n)
    <3>1. 1 \in 1..Len(L) /\ Len(m) = Len(b \o F) + 1
      BY <1>8, <2>4
    <3> QED
      BY <1>8, <2>4, <3>1 DEF Last
  <2>7. Value(Last(m)) = n
    BY <2>6 DEF Value, Byte
  <2>8. \A k \in 1..Len(b) : m[k] = b[k]
    <3>1. 1..Len(b) \subseteq 1..Len(b \o F)
      BY <1>10, <2>2, <2>3
    <3> QED
      BY <2>3, <2>4, <3>1, Zenon
  <2>9. Len(m) = DataAt(r, cs) + r.payload + n
    BY <1>1, <2>5
  <2>10. Holds(m, r, cs)
    BY <1>1, <1>11, <2>4, <2>8, CarriesOn
  <2>11. Carries(g, m, r, cs, n)
    BY <1>5, <1>10, <2>4, <2>7, <2>9, <2>10, Zenon DEF Carries
  <2> QED
    BY <1>5, <2>1, <2>11, Zenon DEF p
<1> QED
  BY <1>9, <1>10

\* The bytes from a place on.
LEMMA PartIs ==
  ASSUME NEW b \in Seq(Bytes), NEW d \in Nat, NEW m \in Nat, d + m <= Len(b),
         \A k \in 1..m : b[d + k] = Byte("data", 0)
  PROVE  SubSeq(b, d + 1, d + m) = [i \in 1..m |-> Byte("data", 0)]
<1>1. SubSeq(b, d + 1, d + m) = [i \in 1..((d + m) - (d + 1) + 1) |-> b[i + (d + 1) - 1]]
  OBVIOUS
<1>2. (d + m) - (d + 1) + 1 = m
  OBVIOUS
<1>3. \A i \in 1..m : i + (d + 1) - 1 = d + i
  OBVIOUS
<1> QED
  BY <1>1, <1>2, <1>3

\* What is left without the padding.
LEMMA SizesAre ==
  ASSUME NEW d \in Nat, NEW m \in Nat, NEW n \in Nat, NEW offset, NEW size,
         offset = RtpHeaderSize + d, size = RtpHeaderSize + (d + m + n)
  PROVE  /\ offset - RtpHeaderSize + 1 = d + 1 /\ size - n - RtpHeaderSize = d + m
         /\ size - n - offset = m
BY DEF RtpHeaderSize

\* What the other side reads is what was asked for.
Reads(x, r, cs, ssrc) ==
    /\ x.valid
    /\ x.pt = r.pt /\ x.marker = r.mark /\ x.ssrc = ssrc
    /\ x.words = r.words /\ x.csrcs = cs
    /\ x.payload = [i \in 1..r.payload |-> Byte("data", 0)]

\* The parser finds what a packet carries.
LEMMA ParsedIs ==
  ASSUME NEW r \in RequestType, r.pt \notin {72, 73}, NEW cs \in Seq(Id), NEW p,
         NEW n \in 0..2, Carries(p.head, p.body, r, cs, n)
  PROVE  Reads(ParseRawPacket(p, TRUE), r, cs, p.head.ssrc)
<1> DEFINE h == p.head
           b == p.body
           size == RtpHeaderSize + Len(b)
           pad == IF h.padding THEN Value(Last(b)) ELSE 0
           words == IF h.extension THEN b[WordSize * h.csrccount + 1].v ELSE -1
           offset == (RtpHeaderSize + WordSize * h.csrccount) + ExtensionBytes(words)
           csrcs == [i \in 1..h.csrccount |-> b[WordSize * (i - 1) + 1].v]
           payload == SubSeq(b, offset - RtpHeaderSize + 1, size - pad - RtpHeaderSize)
           Wrong == \/ ~TRUE
                    \/ h.version # 2
                    \/ h.marker /\ h.pt \in {72, 73}
                    \/ h.padding /\ pad <= 0
                    \/ size - pad - offset < 0
<1>1. ParseRawPacket(p, TRUE) =
         IF Wrong THEN Refused
         ELSE [valid |-> TRUE, marker |-> h.marker, pt |-> h.pt, seq |-> h.seq,
               ts |-> h.ts, ssrc |-> h.ssrc, words |-> words, csrcs |-> csrcs,
               payload |-> payload]
  BY DEF ParseRawPacket
<1>2. /\ h.version = 2 /\ (h.padding <=> n # 0) /\ (h.extension <=> r.words >= 0)
      /\ h.csrccount = Len(cs) /\ h.marker = r.mark /\ h.pt = r.pt
  BY Zenon DEF Carries
<1>3. b \in Seq(Bytes) /\ Len(b) = DataAt(r, cs) + r.payload + n /\ (n # 0 => Value(Last(b)) = n)
  BY Zenon DEF Carries
<1>4. /\ \A i \in 1..Len(cs) : b[WordSize * (i - 1) + 1] = Byte("csrc", cs[i])
      /\ r.words >= 0 => b[IdsEnd(cs) + 1] = Byte("ext", r.words)
      /\ \A k \in 1..r.payload : b[DataAt(r, cs) + k] = Byte("data", 0)
  BY Zenon DEF Carries, Holds
<1> HIDE DEF h, b
<1>5. pad = n
  BY <1>2, <1>3
<1>6. words = r.words
  <2>1. CASE r.words >= 0
    <3>1. words = b[IdsEnd(cs) + 1].v
      BY <1>2, <2>1, PlacesAre
    <3>2. Byte("ext", r.words).v = r.words
      BY DEF Byte
    <3> QED
      BY <1>4, <2>1, <3>1, <3>2
  <2>2. CASE ~(r.words >= 0)
    <3>1. words = -1
      BY <1>2, <2>2
    <3>2. r.words = -1
      BY <2>2, PlacesAre
    <3> QED
      BY <3>1, <3>2
  <2> QED
    BY <2>1, <2>2
<1>7. offset = RtpHeaderSize + DataAt(r, cs)
  <2>1. offset = (RtpHeaderSize + WordSize * Len(cs)) + ExtensionBytes(r.words)
    BY <1>2, <1>6
  <2>2. offset = (12 + IdsEnd(cs)) + ExtensionBytes(r.words)
    BY <2>1, PlacesAre, Zenon DEF RtpHeaderSize
  <2> HIDE DEF offset
  <2> QED
    BY <2>2, PlacesAre DEF RtpHeaderSize
<1>8. csrcs = cs
  <2>1. csrcs = [i \in 1..Len(cs) |-> b[WordSize * (i - 1) + 1].v]
    BY <1>2, Zenon
  <2>2. ASSUME NEW i \in 1..Len(cs) PROVE b[WordSize * (i - 1) + 1].v = cs[i]
    <3>1. Byte("csrc", cs[i]).v = cs[i]
      BY DEF Byte
    <3> QED
      BY <1>4, <3>1, Zenon
  <2>3. cs = [i \in 1..Len(cs) |-> cs[i]]
    OBVIOUS
  <2> HIDE DEF csrcs
  <2> QED
    BY <2>1, <2>2, <2>3, Zenon
<1>9. /\ offset - RtpHeaderSize + 1 = DataAt(r, cs) + 1
      /\ size - pad - RtpHeaderSize = DataAt(r, cs) + r.payload
      /\ size - pad - offset = r.payload
  <2>1. DataAt(r, cs) \in Nat /\ r.payload \in Nat
    BY PlacesAre
  <2>2. size = RtpHeaderSize + (DataAt(r, cs) + r.payload + n) /\ n \in Nat
    BY <1>3
  <2> HIDE DEF size, pad, offset
  <2>3. PICK d \in Nat, m \in Nat : d = DataAt(r, cs) /\ m = r.payload
    BY <2>1
  <2>4. offset = 12 + d /\ size = 12 + (d + m + n)
    BY <1>7, <2>2, <2>3, Zenon DEF RtpHeaderSize
  <2>5. offset - 12 + 1 = d + 1 /\ size - n - 12 = d + m /\ size - n - offset = m
    BY <2>2, <2>4
  <2> QED
    BY <1>5, <2>3, <2>5, Zenon DEF RtpHeaderSize
<1>10. payload = [i \in 1..r.payload |-> Byte("data", 0)]
  <2>1. DataAt(r, cs) \in Nat /\ r.payload \in Nat
    BY PlacesAre
  <2>2. DataAt(r, cs) + r.payload <= Len(b)
    BY <1>3, <2>1
  <2>3. SubSeq(b, DataAt(r, cs) + 1, DataAt(r, cs) + r.payload) =
           [i \in 1..r.payload |-> Byte("data", 0)]
    BY <1>3, <1>4, <2>1, <2>2, PartIs
  <2> HIDE DEF size, pad, offset
  <2> QED
    BY <1>9, <2>3, Zenon
<1>11. ~Wrong
  <2> HIDE DEF size, pad, offset
  <2>1. size - pad - offset = r.payload /\ r.payload \in Nat
    BY <1>9, PlacesAre
  <2>2. ~(size - pad - offset < 0)
    BY <2>1
  <2>3. ~(h.padding /\ pad <= 0)
    BY <1>2, <1>5
  <2> QED
    BY <1>2, <2>2, <2>3
<1> HIDE DEF words, csrcs, payload, Wrong
<1> DEFINE z == [valid |-> TRUE, marker |-> r.mark, pt |-> r.pt, seq |-> h.seq, ts |-> h.ts,
                 ssrc |-> h.ssrc, words |-> r.words, csrcs |-> cs, payload |-> payload]
<1>12. ParseRawPacket(p, TRUE) = z
  BY <1>1, <1>2, <1>6, <1>8, <1>11, Zenon
<1>13. /\ z.valid /\ z.pt = r.pt /\ z.marker = r.mark /\ z.ssrc = h.ssrc
       /\ z.words = r.words /\ z.csrcs = cs /\ z.payload = payload
  OBVIOUS
<1> HIDE DEF z
<1> QED
  BY <1>10, <1>12, <1>13, Zenon DEF h, Reads

-----------------------------------------------------------------------------
(* What the builder keeps to.                                               *)

BuilderType ==
    [init : {TRUE}, max : Nat, ssrc : Id, seq : SeqNumber, ts : Timestamp, bytes : Nat,
     packets : Nat, csrcs : Seq(Id),
     default : [pt : SUBSET (0..255), mark : SUBSET BOOLEAN, inc : SUBSET Nat],
     lasttime : Nat, lastts : Timestamp, prevts : Timestamp]

\* The counters are those of the packets in the log.
StreamFollows ==
    /\ bld.packets = Len(log) % CountModulus /\ bld.bytes = PayloadOf(log) % CountModulus
    /\ log # <<>> =>
          /\ bld.seq = (log[1].seq + Len(log)) % SeqModulus
          /\ bld.lastts = log[Len(log)].ts /\ bld.prevts = log[Len(log)].ts
          /\ \E k \in 1..Len(log) : LastRun(log, k) /\ bld.lasttime = log[k].time

\* A packet holds what it was asked to.
PacketAsked ==
    pkt # <<>> =>
        /\ asked \in [r : RequestType, csrcs : Seq(Id), ssrc : Id] /\ asked.r.pt \notin {72, 73}
        /\ \E q, t \in Nat : pkt = PacketOf(Passed(asked.r), asked.csrcs, q, t, asked.ssrc)

PacketInv ==
    /\ now \in Nat /\ log \in Seq(LogEntry)
    /\ PacketAsked
    /\ \/ bld = [init |-> FALSE] /\ log = <<>>
       \/ bld \in BuilderType /\ IsInjective(bld.csrcs) /\ StreamFollows

\* The fields of a builder, told one by one.
LEMMA BuilderFields ==
  ASSUME bld \in BuilderType
  PROVE  /\ bld.init = TRUE /\ bld.max \in Nat /\ bld.ssrc \in Id /\ bld.seq \in SeqNumber
         /\ bld.ts \in Timestamp /\ bld.bytes \in Nat /\ bld.packets \in Nat
         /\ bld.csrcs \in Seq(Id) /\ bld.lasttime \in Nat /\ bld.lastts \in Timestamp
         /\ bld.prevts \in Timestamp
         /\ bld.default \in [pt : SUBSET (0..255), mark : SUBSET BOOLEAN, inc : SUBSET Nat]
BY ZenonT(60) DEF BuilderType

\* A builder with another value in a field.
LEMMA OneField ==
  ASSUME NEW b \in BuilderType
  PROVE  /\ \A s \in Id : [b EXCEPT !.ssrc = s] \in BuilderType
         /\ \A q \in SeqNumber : [b EXCEPT !.seq = q] \in BuilderType
         /\ \A t \in Timestamp : /\ [b EXCEPT !.ts = t] \in BuilderType
                                /\ [b EXCEPT !.lastts = t] \in BuilderType
                                /\ [b EXCEPT !.prevts = t] \in BuilderType
         /\ \A n \in Nat : /\ [b EXCEPT !.bytes = n] \in BuilderType
                          /\ [b EXCEPT !.packets = n] \in BuilderType
                          /\ [b EXCEPT !.lasttime = n] \in BuilderType
<1>1. \A s \in Id : [b EXCEPT !.ssrc = s] \in BuilderType
  BY ZenonT(60) DEF BuilderType
<1>2. \A q \in SeqNumber : [b EXCEPT !.seq = q] \in BuilderType
  BY ZenonT(60) DEF BuilderType
<1>3. \A t \in Timestamp : [b EXCEPT !.ts = t] \in BuilderType
  BY ZenonT(60) DEF BuilderType
<1>4. \A t \in Timestamp : [b EXCEPT !.lastts = t] \in BuilderType
  BY ZenonT(60) DEF BuilderType
<1>5. \A t \in Timestamp : [b EXCEPT !.prevts = t] \in BuilderType
  BY ZenonT(60) DEF BuilderType
<1>6. \A n \in Nat : [b EXCEPT !.bytes = n] \in BuilderType
  BY ZenonT(60) DEF BuilderType
<1>7. \A n \in Nat : [b EXCEPT !.packets = n] \in BuilderType
  BY ZenonT(60) DEF BuilderType
<1>8. \A n \in Nat : [b EXCEPT !.lasttime = n] \in BuilderType
  BY ZenonT(60) DEF BuilderType
<1> QED
  BY <1>1, <1>2, <1>3, <1>4, <1>5, <1>6, <1>7, <1>8

\* A builder that is set up is one.
LEMMA SetUp ==
  ASSUME PacketInv, bld.init
  PROVE  bld \in BuilderType /\ IsInjective(bld.csrcs) /\ StreamFollows
BY DEF PacketInv

\* Numbers from zero.
LEMMA ModuliAre ==
  /\ SeqModulus \in Nat \ {0} /\ TimeModulus \in Nat \ {0}
  /\ CountModulus \in Nat \ {0} /\ WordsModulus \in Nat \ {0}
  /\ \A a \in Nat : a % SeqModulus \in SeqNumber /\ a % TimeModulus \in Timestamp
  /\ \A a \in Nat : a % CountModulus \in Nat /\ a % WordsModulus \in Nat
  /\ Request \subseteq RequestType /\ BufferSize \subseteq Nat
  /\ SeqNumber \subseteq Nat /\ Timestamp \subseteq Nat
<1>1. /\ SeqModulus \in Nat \ {0} /\ TimeModulus \in Nat \ {0}
      /\ CountModulus \in Nat \ {0} /\ WordsModulus \in Nat \ {0}
  BY RequestAssumption
<1>2. ASSUME NEW a \in Nat, NEW m \in Nat \ {0} PROVE a % m \in 0..(m - 1)
  BY SMT
<1> QED
  BY <1>1, <1>2, RequestAssumption DEF SeqNumber, Timestamp, RequestType

\* A number below the modulus stays what it is.
LEMMA SmallStays ==
  ASSUME NEW m \in Nat \ {0}, NEW a \in Nat, a < m
  PROVE  a % m = a
BY SMTT(30)

\* Nothing stays nothing.
LEMMA NothingOver ==
  ASSUME NEW m \in Nat \ {0}
  PROVE  0 % m = 0
<1>1. 0 \in Nat /\ 0 < m
  OBVIOUS
<1> QED
  BY <1>1, SmallStays

\* A log of no packets.
LEMMA NoLog ==
  <<>> \in Seq(LogEntry) /\ Len(<<>>) = 0 /\ PayloadOf(<<>>) = 0
BY PayloadIs

\* InitPackets and CreateNewSSRC begin a stream.
LEMMA StreamBegins ==
  ASSUME bld'.packets = 0, bld'.bytes = 0, log' = <<>>
  PROVE  StreamFollows'
<1>1. 0 % CountModulus = 0
  BY ModuliAre, NothingOver
<1> QED
  BY <1>1, NoLog DEF StreamFollows

\* A packet is passed on with a number of words that 16 bits hold.
LEMMA PassedIs ==
  ASSUME NEW r \in RequestType
  PROVE  /\ Passed(r) \in RequestType
         /\ Passed(r).pt = r.pt /\ Passed(r).mark = r.mark /\ Passed(r).inc = r.inc
         /\ Passed(r).payload = r.payload
         /\ Passed(r).words = IF r.words < WordsModulus THEN r.words
                              ELSE r.words % WordsModulus
<1> DEFINE w == IF r.words < 0 THEN r.words ELSE r.words % WordsModulus
<1>1. r.words \in Nat \cup {-1} /\ WordsModulus \in Nat \ {0}
  BY ModuliAre DEF RequestType
<1>2. w \in Nat \cup {-1}
  <2>1. r.words \in Nat => r.words % WordsModulus \in Nat
    BY ModuliAre
  <2> QED
    BY <1>1, <2>1
<1>3. w = IF r.words < WordsModulus THEN r.words ELSE r.words % WordsModulus
  <2>1. CASE r.words = -1
    BY <1>1, <2>1
  <2>2. CASE r.words \in Nat
    <3>1. r.words < WordsModulus => r.words % WordsModulus = r.words
      BY <1>1, <2>2, SmallStays
    <3> QED
      BY <2>2, <3>1
  <2> QED
    BY <1>1, <2>1, <2>2
<1>4. Passed(r) = [r EXCEPT !.words = w]
  BY DEF Passed
<1> HIDE DEF w
<1>5. Passed(r) = [pt |-> r.pt, mark |-> r.mark, inc |-> r.inc, payload |-> r.payload, words |-> w]
  BY <1>4, Zenon DEF RequestType
<1>6. r.pt \in 0..255 /\ r.mark \in BOOLEAN /\ r.inc \in Nat /\ r.payload \in Nat
  BY Zenon DEF RequestType
<1>7. Passed(r) \in RequestType
  <2>1. [pt |-> r.pt, mark |-> r.mark, inc |-> r.inc, payload |-> r.payload, words |-> w]
          \in RequestType
    BY <1>2, <1>6 DEF RequestType
  <2> QED
    BY <1>5, <2>1
<1> QED
  BY <1>3, <1>5, <1>7

\* A new builder has an empty log.
LEMMA InitPacketsKeeps ==
  ASSUME PacketInv, NEW max \in BufferSize, NEW s \in Id, NEW q \in SeqNumber,
         NEW t \in Timestamp, InitPackets(max, s, q, t)
  PROVE  PacketInv'
<1>1. /\ now' = now /\ log' = <<>> /\ pkt' = <<>>
      /\ bld' = [init |-> TRUE, max |-> max, ssrc |-> s, seq |-> q, ts |-> t, bytes |-> 0,
                 packets |-> 0, csrcs |-> <<>>, default |-> NoDefaults,
                 lasttime |-> 0, lastts |-> 0, prevts |-> 0]
  BY DEF InitPackets
<1>2. 0 \in Timestamp /\ max \in Nat
  BY ModuliAre DEF Timestamp
<1>3. NoDefaults \in [pt : SUBSET (0..255), mark : SUBSET BOOLEAN, inc : SUBSET Nat]
  BY DEF NoDefaults
<1>4. bld' \in BuilderType
  BY <1>1, <1>2, <1>3, SMTT(30) DEF BuilderType
<1>5. IsInjective(bld'.csrcs)
  BY <1>1 DEF IsInjective
<1>6. StreamFollows'
  BY <1>1, StreamBegins
<1> QED
  BY <1>1, <1>4, <1>5, <1>6, NoLog DEF PacketInv, PacketAsked

\* A new SSRC begins a new log, with its own numbers.
LEMMA CreateNewSSRCKeeps ==
  ASSUME PacketInv, NEW s \in Id, NEW q \in SeqNumber, NEW t \in Timestamp,
         CreateNewSSRC(s, q, t)
  PROVE  PacketInv'
<1>1. /\ UNCHANGED <<pkt, now, asked>> /\ log' = <<>> /\ bld.init
      /\ bld' = [bld EXCEPT !.ssrc = s, !.seq = q, !.ts = t, !.bytes = 0, !.packets = 0]
  BY DEF CreateNewSSRC, Renewed
<1>2. bld \in BuilderType /\ IsInjective(bld.csrcs)
  BY <1>1, SetUp
<1>3. bld' \in BuilderType
  <2> DEFINE b1 == [bld EXCEPT !.ssrc = s]
             b2 == [b1 EXCEPT !.seq = q]
             b3 == [b2 EXCEPT !.ts = t]
             b4 == [b3 EXCEPT !.bytes = 0]
             b5 == [b4 EXCEPT !.packets = 0]
  <2>1. bld' = b5
    BY <1>1, Zenon
  <2>2. b1 \in BuilderType
    BY <1>2, OneField
  <2>3. b2 \in BuilderType
    BY <2>2, OneField
  <2>4. b3 \in BuilderType
    BY <2>3, OneField
  <2>5. b4 \in BuilderType
    BY <2>4, OneField
  <2>6. b5 \in BuilderType
    BY <2>5, OneField
  <2> QED
    BY <2>1, <2>6, Zenon
<1>4. bld'.csrcs = bld.csrcs /\ bld'.packets = 0 /\ bld'.bytes = 0
  BY <1>1, <1>2, SMTT(30) DEF BuilderType
<1>5. StreamFollows'
  BY <1>1, <1>4, StreamBegins
<1> QED
  BY <1>1, <1>2, <1>3, <1>4, <1>5, NoLog DEF PacketInv, PacketAsked

\* What leaves the log and the counters alone.
LEMMA SettingsKeep ==
  ASSUME PacketInv, bld.init, bld' \in BuilderType, IsInjective(bld'.csrcs),
         \A f \in {"packets", "bytes", "seq", "lastts", "prevts", "lasttime"} : bld'[f] = bld[f],
         UNCHANGED <<now, log, asked>>, pkt' \in {<<>>, pkt}
  PROVE  PacketInv'
<1>1. StreamFollows
  BY SetUp
<1>2. /\ bld'.packets = bld.packets /\ bld'.bytes = bld.bytes /\ bld'.seq = bld.seq
      /\ bld'.lastts = bld.lastts /\ bld'.prevts = bld.prevts /\ bld'.lasttime = bld.lasttime
  OBVIOUS
<1>3. StreamFollows'
  BY <1>1, <1>2 DEF StreamFollows
<1>4. PacketAsked'
  BY DEF PacketInv, PacketAsked
<1> QED
  BY <1>3, <1>4 DEF PacketInv

\* Adding what is not there, and taking away what is, leaves no CSRC twice.
LEMMA CsrcAdded ==
  ASSUME NEW l \in Seq(Id), IsInjective(l), NEW c \in Id, ~Contains(l, c)
  PROVE  Append(l, c) \in Seq(Id) /\ IsInjective(Append(l, c))
<1>1. /\ Append(l, c) \in Seq(Id) /\ DOMAIN Append(l, c) = 1..(Len(l) + 1) /\ Len(l) \in Nat
      /\ DOMAIN l = 1..Len(l)
      /\ \A i \in 1..Len(l) : Append(l, c)[i] = l[i]
      /\ Append(l, c)[Len(l) + 1] = c
  OBVIOUS
<1>2. \A i \in 1..Len(l) : l[i] # c
  BY DEF Contains
<1> QED
  BY <1>1, <1>2 DEF IsInjective

\* The last takes the place of a deleted one: nothing is there twice.
LEMMA CsrcDeleted ==
  ASSUME NEW l \in Seq(Id), IsInjective(l), NEW i \in DOMAIN l
  PROVE  LET m == Front([l EXCEPT ![i] = Last(l)])
         IN  m \in Seq(Id) /\ IsInjective(m)
<1> DEFINE n == Len(l)
           e == [l EXCEPT ![i] = Last(l)]
           m == Front(e)
<1>1. n \in Nat /\ DOMAIN l = 1..n /\ i \in 1..n /\ l[n] \in Id /\ Last(l) = l[n]
  BY DEF Last
<1>2. /\ e \in Seq(Id) /\ Len(e) = n
      /\ \A j \in 1..n : e[j] = IF j = i THEN l[n] ELSE l[j]
  BY <1>1
<1> HIDE DEF e
<1>3. /\ m \in Seq(Id) /\ DOMAIN m = 1..(n - 1)
      /\ \A j \in 1..(n - 1) : m[j] = e[j]
  BY <1>1, <1>2 DEF Front
<1> HIDE DEF m
<1>4. ASSUME NEW a \in 1..(n - 1), NEW b \in 1..(n - 1), m[a] = m[b] PROVE a = b
  <2>1. a \in 1..n /\ b \in 1..n /\ a # n /\ b # n /\ n \in 1..n
    <3>1. n \in Nat /\ i \in 1..n
      BY <1>1
    <3> HIDE DEF n
    <3> QED
      BY <3>1
  <2>2. \A x, y \in 1..n : l[x] = l[y] => x = y
    BY <1>1 DEF IsInjective
  <2>3. m[a] = (IF a = i THEN l[n] ELSE l[a]) /\ m[b] = (IF b = i THEN l[n] ELSE l[b])
    BY <1>2, <1>3, <2>1
  <2> QED
    BY <1>4, <2>1, <2>2, <2>3
<1>5. IsInjective(m)
  BY <1>3, <1>4 DEF IsInjective
<1> QED
  BY <1>3, <1>5 DEF m, e

\* The operations that set the builder up, one field each.
LEMMA CsrcsKeep ==
  ASSUME PacketInv, NEW c \in Id,
         AddCSRC(c) \/ DeleteCSRC(c) \/ AdjustSSRC(c) \/ ClearCSRCList
  PROVE  PacketInv'
<1>1. bld.init /\ UNCHANGED <<now, log, asked, pkt>>
  BY Zenon DEF AddCSRC, DeleteCSRC, AdjustSSRC, ClearCSRCList
<1>2. bld \in BuilderType /\ IsInjective(bld.csrcs)
  BY <1>1, SetUp
<1>3. bld.csrcs \in Seq(Id)
  BY <1>2, BuilderFields
<1>4. ASSUME NEW l \in Seq(Id), IsInjective(l), bld' = [bld EXCEPT !.csrcs = l]
      PROVE  PacketInv'
  <2>1. bld' \in BuilderType
    BY <1>2, <1>4, ZenonT(60) DEF BuilderType
  <2>2. bld'.csrcs = l
    BY <1>2, <1>4, SMTT(30) DEF BuilderType
  <2>3. \A f \in {"packets", "bytes", "seq", "lastts", "prevts", "lasttime"} : bld'[f] = bld[f]
    BY <1>2, <1>4, SMTT(30) DEF BuilderType
  <2> QED
    BY <1>1, <1>4, <2>1, <2>2, <2>3, SettingsKeep
<1>5. CASE AddCSRC(c)
  <2>1. ~Contains(bld.csrcs, c) /\ bld' = [bld EXCEPT !.csrcs = Append(bld.csrcs, c)]
    BY <1>5 DEF AddCSRC
  <2>2. Append(bld.csrcs, c) \in Seq(Id) /\ IsInjective(Append(bld.csrcs, c))
    BY <1>2, <1>3, <2>1, CsrcAdded
  <2> QED
    BY <1>4, <2>1, <2>2
<1>6. CASE DeleteCSRC(c)
  <2>1. PICK i \in DOMAIN bld.csrcs :
           bld' = [bld EXCEPT !.csrcs = Front([bld.csrcs EXCEPT ![i] = Last(bld.csrcs)])]
    BY <1>6 DEF DeleteCSRC
  <2>2. /\ Front([bld.csrcs EXCEPT ![i] = Last(bld.csrcs)]) \in Seq(Id)
        /\ IsInjective(Front([bld.csrcs EXCEPT ![i] = Last(bld.csrcs)]))
    BY <1>2, <1>3, CsrcDeleted
  <2> QED
    BY <1>4, <2>1, <2>2
<1>7. CASE AdjustSSRC(c)
  <2>1. bld' = [bld EXCEPT !.ssrc = c]
    BY <1>7 DEF AdjustSSRC
  <2>2. bld' \in BuilderType
    BY <1>2, <2>1, ZenonT(60) DEF BuilderType
  <2>4. bld'.csrcs = bld.csrcs
    BY <1>2, <2>1, SMTT(30) DEF BuilderType
  <2>3. \A f \in {"packets", "bytes", "seq", "lastts", "prevts", "lasttime"} : bld'[f] = bld[f]
    BY <1>2, <2>1, SMTT(30) DEF BuilderType
  <2> QED
    BY <1>1, <1>2, <2>2, <2>3, <2>4, SettingsKeep
<1>8. CASE ClearCSRCList
  <2>1. bld' = [bld EXCEPT !.csrcs = <<>>]
    BY <1>8 DEF ClearCSRCList
  <2>2. <<>> \in Seq(Id) /\ IsInjective(<<>>)
    BY DEF IsInjective
  <2> QED
    BY <1>4, <2>1, <2>2
<1> QED
  BY <1>5, <1>6, <1>7, <1>8

\* A new buffer drops the last packet and nothing else.
LEMMA MaximumKeeps ==
  ASSUME PacketInv, NEW max \in BufferSize, SetMaximumPacketSize(max)
  PROVE  PacketInv'
<1>1. /\ bld.init /\ UNCHANGED <<now, log, asked>> /\ pkt' = <<>>
      /\ bld' = [bld EXCEPT !.max = max] /\ max \in Nat
  BY ModuliAre DEF SetMaximumPacketSize
<1>2. bld \in BuilderType /\ IsInjective(bld.csrcs)
  BY <1>1, SetUp
<1>3. bld' \in BuilderType
  BY <1>1, <1>2, ZenonT(60) DEF BuilderType
<1>5. bld'.csrcs = bld.csrcs
  BY <1>1, <1>2, SMTT(30) DEF BuilderType
<1>4. \A f \in {"packets", "bytes", "seq", "lastts", "prevts", "lasttime"} : bld'[f] = bld[f]
  BY <1>1, <1>2, SMTT(30) DEF BuilderType
<1> QED
  BY <1>1, <1>2, <1>3, <1>4, <1>5, SettingsKeep

\* Defaults are no part of what was sent.
LEMMA DefaultsKeep ==
  ASSUME PacketInv, NEW r \in Request,
         SetDefault("pt", r.pt) \/ SetDefault("mark", r.mark) \/ SetDefault("inc", r.inc)
  PROVE  PacketInv'
<1>1. bld.init /\ UNCHANGED <<now, log, asked, pkt>>
  BY DEF SetDefault
<1>2. bld \in BuilderType /\ IsInjective(bld.csrcs)
  BY <1>1, SetUp
<1>3. r.pt \in 0..255 /\ r.mark \in BOOLEAN /\ r.inc \in Nat
  BY ModuliAre DEF RequestType
<1> DEFINE DefaultType == [pt : SUBSET (0..255), mark : SUBSET BOOLEAN, inc : SUBSET Nat]
<1>4. bld.default \in DefaultType
  BY <1>2, BuilderFields
<1>5. PICK d \in DefaultType : bld' = [bld EXCEPT !.default = d]
  <2>1. CASE SetDefault("pt", r.pt)
    <3>1. bld' = [bld EXCEPT !.default = [bld.default EXCEPT !["pt"] = {r.pt}]]
      BY <2>1 DEF SetDefault
    <3>2. [bld.default EXCEPT !["pt"] = {r.pt}] \in DefaultType
      BY <1>3, <1>4
    <3> QED
      BY <3>1, <3>2
  <2>2. CASE SetDefault("mark", r.mark)
    <3>1. bld' = [bld EXCEPT !.default = [bld.default EXCEPT !["mark"] = {r.mark}]]
      BY <2>2 DEF SetDefault
    <3>2. [bld.default EXCEPT !["mark"] = {r.mark}] \in DefaultType
      BY <1>3, <1>4
    <3> QED
      BY <3>1, <3>2
  <2>3. CASE SetDefault("inc", r.inc)
    <3>1. bld' = [bld EXCEPT !.default = [bld.default EXCEPT !["inc"] = {r.inc}]]
      BY <2>3 DEF SetDefault
    <3>2. [bld.default EXCEPT !["inc"] = {r.inc}] \in DefaultType
      BY <1>3, <1>4
    <3> QED
      BY <3>1, <3>2
  <2> QED
    BY <2>1, <2>2, <2>3
<1>6. bld' \in BuilderType
  BY <1>2, <1>5, ZenonT(60) DEF BuilderType
<1>7. /\ bld'.csrcs = bld.csrcs
      /\ \A f \in {"packets", "bytes", "seq", "lastts", "prevts", "lasttime"} : bld'[f] = bld[f]
  BY <1>2, <1>5, SMTT(30) DEF BuilderType
<1> QED
  BY <1>1, <1>2, <1>6, <1>7, SettingsKeep

\* A timestamp moved on by hand is that of packets to come.
LEMMA TimestampKeeps ==
  ASSUME PacketInv, NEW n \in Nat, IncrementTimestamp(n)
  PROVE  PacketInv'
<1>1. /\ bld.init /\ UNCHANGED <<now, log, asked, pkt>>
      /\ bld' = [bld EXCEPT !.ts = (bld.ts + n) % TimeModulus]
  BY DEF IncrementTimestamp
<1>2. bld \in BuilderType /\ IsInjective(bld.csrcs)
  BY <1>1, SetUp
<1>3. (bld.ts + n) % TimeModulus \in Timestamp
  <2>1. bld.ts \in Nat
    BY <1>2, BuilderFields, ModuliAre
  <2>2. bld.ts + n \in Nat
    BY <2>1
  <2> QED
    BY <2>2, ModuliAre
<1>4. bld' \in BuilderType /\ bld'.csrcs = bld.csrcs
  <2>1. bld' \in BuilderType
    BY <1>1, <1>2, <1>3, OneField, Zenon
  <2>2. bld'.csrcs = bld.csrcs
    BY <1>1, <1>2, Zenon DEF BuilderType
  <2> QED
    BY <2>1, <2>2
<1>5. \A f \in {"packets", "bytes", "seq", "lastts", "prevts", "lasttime"} : bld'[f] = bld[f]
  BY <1>1, <1>2, SMTT(30) DEF BuilderType
<1> QED
  BY <1>1, <1>2, <1>4, <1>5, SettingsKeep

\* The last run goes on with the next packet unless that begins one.
LEMMA RunGrows ==
  ASSUME NEW l \in Seq(LogEntry), NEW k, LastRun(l, k), NEW e \in LogEntry
  PROVE  LET m == Append(l, e)
         IN  /\ ~Begins(m, Len(m)) => LastRun(m, k) /\ m[k] = l[k]
             /\ Begins(m, Len(m)) => LastRun(m, Len(m)) /\ m[Len(m)] = e
<1> DEFINE n == Len(l)
           m == Append(l, e)
<1>1. /\ n \in Nat /\ Len(m) = n + 1 /\ m[n + 1] = e
      /\ \A j \in 1..n : m[j] = l[j]
  OBVIOUS
<1>2. k \in 1..n /\ Begins(l, k) /\ \A j \in (k + 1)..n : ~Begins(l, j)
  BY DEF LastRun
<1> HIDE DEF m, n
<1>3. ASSUME NEW j \in 1..n PROVE Begins(m, j) <=> Begins(l, j)
  <2>1. m[j] = l[j] /\ (j # 1 => j - 1 \in 1..n)
    BY <1>1
  <2>2. j # 1 => m[j - 1] = l[j - 1]
    BY <1>1, <2>1
  <2> QED
    BY <2>1, <2>2, Zenon DEF Begins
<1>4. ASSUME ~Begins(m, n + 1) PROVE LastRun(m, k) /\ m[k] = l[k]
  <2>1. ASSUME NEW j \in (k + 1)..(n + 1) PROVE ~Begins(m, j)
    <3>1. j = n + 1 \/ (j \in (k + 1)..n /\ j \in 1..n)
      BY <1>1, <1>2
    <3> QED
      BY <1>2, <1>3, <1>4, <3>1
  <2>2. k \in 1..(n + 1)
    BY <1>1, <1>2
  <2>3. Begins(m, k)
    BY <1>2, <1>3
  <2> QED
    BY <1>1, <1>2, <2>1, <2>2, <2>3, Zenon DEF LastRun
<1>5. ASSUME Begins(m, n + 1) PROVE LastRun(m, n + 1)
  <2>1. n + 1 \in 1..(n + 1) /\ \A j \in (n + 1 + 1)..(n + 1) : FALSE
    BY <1>1
  <2> QED
    BY <1>1, <1>5, <2>1, Zenon DEF LastRun
<1> QED
  BY <1>1, <1>4, <1>5, Zenon DEF m

\* What is added to a remainder is added to the number.
LEMMA Further ==
  ASSUME NEW m \in Nat \ {0}, NEW a \in Nat, NEW b \in Nat
  PROVE  ((a % m) + b) % m = (a + b) % m
<1> DEFINE q == a \div m
           x == a % m
           u == (x + b) \div m
           y == (x + b) % m
<1>1. q \in Int /\ x \in 0..(m - 1) /\ a = m * q + x
  BY Divided
<1> HIDE DEF q, x
<1>2. x + b \in Nat
  BY <1>1
<1>3. u \in Int /\ y \in 0..(m - 1) /\ x + b = m * u + y
  <2>1. x + b \in Int
    BY <1>2
  <2> QED
    BY <2>1, Divided, Zenon
<1> HIDE DEF u, y
<1>4. a + b = m * (q + u) + y
  BY <1>1, <1>3
<1>5. q + u \in Int
  BY <1>1, <1>3
<1>6. (m * (q + u) + y) % m = y
  BY <1>3, <1>5, RemainderIs
<1> QED
  BY <1>4, <1>6 DEF y, x

\* A packet is built: the counters follow it.
LEMMA BuildKeeps ==
  ASSUME PacketInv, NEW r \in RequestType, PrivateBuildPacket(r)
  PROVE  PacketInv'
<1> DEFINE e == [ts |-> bld.ts, time |-> now, payload |-> r.payload, seq |-> bld.seq]
           n == Len(log)
           newtime == bld.packets = 0 \/ bld.ts # bld.prevts
<1>1. /\ bld.init /\ now' = now /\ log' = Append(log, e)
      /\ asked' = [r |-> r, csrcs |-> bld.csrcs, ssrc |-> bld.ssrc]
      /\ pkt' = PacketOf(Passed(r), bld.csrcs, bld.seq, bld.ts, bld.ssrc)
      /\ Passed(r).pt \notin {72, 73}
      /\ bld' = [bld EXCEPT !.lasttime = IF newtime THEN now ELSE bld.lasttime,
                            !.lastts = IF newtime THEN bld.ts ELSE bld.lastts,
                            !.prevts = IF newtime THEN bld.ts ELSE bld.prevts,
                            !.bytes = (bld.bytes + r.payload) % CountModulus,
                            !.packets = (bld.packets + 1) % CountModulus,
                            !.ts = (bld.ts + r.inc) % TimeModulus,
                            !.seq = (bld.seq + 1) % SeqModulus]
  BY DEF PrivateBuildPacket, CanBuild
<1>2. bld \in BuilderType /\ IsInjective(bld.csrcs) /\ StreamFollows
  BY <1>1, SetUp
<1>3. /\ bld.csrcs \in Seq(Id) /\ bld.ssrc \in Id /\ bld.seq \in SeqNumber /\ bld.ts \in Timestamp
      /\ bld.lasttime \in Nat /\ bld.lastts \in Timestamp /\ bld.prevts \in Timestamp
      /\ bld.bytes \in Nat /\ bld.packets \in Nat
  BY <1>2, BuilderFields
<1>4. r.payload \in Nat /\ r.inc \in Nat
  BY DEF RequestType
<1>5. now \in Nat /\ log \in Seq(LogEntry) /\ n \in Nat
  BY DEF PacketInv
<1>6. e \in LogEntry
  BY <1>3, <1>4, <1>5 DEF LogEntry
<1>7. /\ bld'.lasttime = (IF newtime THEN now ELSE bld.lasttime)
      /\ bld'.lastts = (IF newtime THEN bld.ts ELSE bld.lastts)
      /\ bld'.prevts = (IF newtime THEN bld.ts ELSE bld.prevts)
      /\ bld'.bytes = (bld.bytes + r.payload) % CountModulus
      /\ bld'.packets = (bld.packets + 1) % CountModulus
      /\ bld'.seq = (bld.seq + 1) % SeqModulus /\ bld'.csrcs = bld.csrcs
  <2> HIDE DEF newtime
  <2> QED
    BY <1>1, <1>2, SMTT(30) DEF BuilderType
<1>8. bld' \in BuilderType
  <2>0. bld.ts \in Nat /\ bld.seq \in Nat
    BY <1>3, ModuliAre, Zenon
  <2>1. bld.ts + r.inc \in Nat /\ bld.seq + 1 \in Nat
    BY <1>4, <2>0
  <2>2. (bld.ts + r.inc) % TimeModulus \in Timestamp /\ (bld.seq + 1) % SeqModulus \in SeqNumber
    BY <2>1, ModuliAre
  <2>3. /\ (IF newtime THEN now ELSE bld.lasttime) \in Nat
        /\ (IF newtime THEN bld.ts ELSE bld.lastts) \in Timestamp
        /\ (IF newtime THEN bld.ts ELSE bld.prevts) \in Timestamp
        /\ (bld.bytes + r.payload) % CountModulus \in Nat
        /\ (bld.packets + 1) % CountModulus \in Nat
    <3>1. bld.bytes + r.payload \in Nat /\ bld.packets + 1 \in Nat
      BY <1>3, <1>4
    <3> HIDE DEF newtime
    <3> QED
      BY <1>3, <1>5, <3>1, ModuliAre
  <2> DEFINE b1 == [bld EXCEPT !.lasttime = IF newtime THEN now ELSE bld.lasttime]
             b2 == [b1 EXCEPT !.lastts = IF newtime THEN bld.ts ELSE bld.lastts]
             b3 == [b2 EXCEPT !.prevts = IF newtime THEN bld.ts ELSE bld.prevts]
             b4 == [b3 EXCEPT !.bytes = (bld.bytes + r.payload) % CountModulus]
             b5 == [b4 EXCEPT !.packets = (bld.packets + 1) % CountModulus]
             b6 == [b5 EXCEPT !.ts = (bld.ts + r.inc) % TimeModulus]
             b7 == [b6 EXCEPT !.seq = (bld.seq + 1) % SeqModulus]
  <2> HIDE DEF newtime
  <2>4. bld' = b7
    BY <1>1, Zenon
  <2>5. b1 \in BuilderType
    BY <1>2, <2>3, OneField, Zenon
  <2>6. b2 \in BuilderType
    BY <2>3, <2>5, OneField, Zenon
  <2>7. b3 \in BuilderType
    BY <2>3, <2>6, OneField, Zenon
  <2>8. b4 \in BuilderType
    BY <2>3, <2>7, OneField, Zenon
  <2>9. b5 \in BuilderType
    BY <2>3, <2>8, OneField, Zenon
  <2>10. b6 \in BuilderType
    BY <2>2, <2>9, OneField, Zenon
  <2>11. b7 \in BuilderType
    BY <2>2, <2>10, OneField, Zenon
  <2> QED
    BY <2>4, <2>11, Zenon
<1>9. log' \in Seq(LogEntry) /\ Len(log') = n + 1 /\ log'[n + 1] = e
  BY <1>1, <1>5, <1>6
<1>10. /\ bld'.packets = Len(log') % CountModulus
       /\ bld'.bytes = PayloadOf(log') % CountModulus
  <2>1. PayloadOf(log') = PayloadOf(log) + e.payload /\ PayloadOf(log) \in Nat
    BY <1>1, <1>5, <1>6, PayloadIs
  <2>2. e.payload = r.payload
    OBVIOUS
  <2>3. bld.packets = n % CountModulus /\ bld.bytes = PayloadOf(log) % CountModulus
    BY <1>2 DEF StreamFollows
  <2>4. ((n % CountModulus) + 1) % CountModulus = (n + 1) % CountModulus
    BY <1>5, ModuliAre, Further
  <2>5. ((PayloadOf(log) % CountModulus) + r.payload) % CountModulus
          = (PayloadOf(log) + r.payload) % CountModulus
    BY <1>4, <2>1, ModuliAre, Further
  <2> HIDE DEF e, n, newtime
  <2>6. bld'.packets = Len(log') % CountModulus
    BY <1>7, <1>9, <2>3, <2>4, Zenon
  <2>7. bld'.bytes = PayloadOf(log') % CountModulus
    BY <1>7, <2>1, <2>2, <2>3, <2>5, Zenon
  <2> QED
    BY <2>6, <2>7
<1>11. bld'.seq = (log'[1].seq + Len(log')) % SeqModulus
  <2>1. CASE log = <<>>
    <3>1. n = 0 /\ log'[1] = e
      BY <1>9, <2>1
    <3> QED
      BY <1>7, <1>9, <3>1
  <2>2. CASE log # <<>>
    <3>1. log'[1] = log[1] /\ log[1] \in LogEntry
      BY <1>1, <1>5, <2>2
    <3>2. bld.seq = (log[1].seq + n) % SeqModulus
      BY <1>2, <2>2 DEF StreamFollows
    <3>3. log[1].seq \in Nat
      BY <3>1, ModuliAre DEF LogEntry
    <3>4. (bld.seq + 1) % SeqModulus = (log[1].seq + n + 1) % SeqModulus
      <4>1. log[1].seq + n \in Nat
        BY <1>5, <3>3
      <4>2. (((log[1].seq + n) % SeqModulus) + 1) % SeqModulus = (log[1].seq + n + 1) % SeqModulus
        <5>1. SeqModulus \in Nat \ {0} /\ 1 \in Nat
          BY ModuliAre
        <5> HIDE DEF n
        <5> QED
          BY <4>1, <5>1, Further, Zenon
      <4> QED
        BY <3>2, <4>2, Zenon
    <3>5. log[1].seq + n + 1 = log[1].seq + (n + 1)
      BY <1>5, <3>3
    <3> QED
      BY <1>7, <1>9, <3>1, <3>4, <3>5
  <2> QED
    BY <2>1, <2>2
<1>16. log # <<>> => bld.lastts = log[n].ts /\ bld.prevts = log[n].ts
  BY <1>2 DEF StreamFollows
<1>17. log = <<>> => n = 0 /\ bld.packets = 0
  <2>1. 0 % CountModulus = 0
    BY ModuliAre, NothingOver
  <2>2. log = <<>> => n = 0
    OBVIOUS
  <2> QED
    BY <1>2, <2>1, <2>2 DEF StreamFollows
<1>18. log # <<>> => n # 0 /\ log'[n] = log[n]
  BY <1>1, <1>5
<1>12. bld'.lastts = bld.ts /\ bld'.prevts = bld.ts
  <2>1. CASE newtime
    BY <1>7, <2>1
  <2>2. CASE ~newtime
    <3>1. bld.packets # 0 /\ bld.ts = bld.prevts
      BY <2>2
    <3>2. log # <<>>
      BY <1>17, <3>1
    <3>3. bld.lastts = bld.prevts
      BY <1>16, <3>2
    <3> HIDE DEF newtime
    <3> QED
      BY <1>7, <2>2, <3>1, <3>3
  <2> QED
    BY <2>1, <2>2
<1>19. newtime <=> Begins(log', n + 1)
  <2>1. (n + 1) - 1 = n
    BY <1>5
  <2>2. bld.packets = n % CountModulus
    BY <1>2 DEF StreamFollows
  <2>3. CASE log = <<>>
    BY <1>5, <1>17, <2>3 DEF Begins
  <2>4. CASE log # <<>>
    <3>1. n + 1 # 1 /\ log'[n + 1].ts = bld.ts /\ log'[(n + 1) - 1].ts = bld.prevts
      <4>1. log'[n + 1] = e /\ e.ts = bld.ts
        BY <1>9
      <4>2. log'[(n + 1) - 1] = log[n]
        BY <1>18, <2>1, <2>4
      <4> QED
        BY <1>5, <1>16, <1>18, <2>4, <4>1, <4>2
    <3> HIDE DEF e, n
    <3> QED
      BY <2>1, <2>2, <3>1, Zenon DEF Begins
  <2> QED
    BY <2>3, <2>4
<1>13. \E k \in 1..Len(log') : LastRun(log', k) /\ bld'.lasttime = log'[k].time
  <2>1. CASE log = <<>>
    <3>1. n = 0 /\ newtime
      BY <1>17, <2>1
    <3>2. Len(log') = 1 /\ log'[1] = e
      BY <1>9, <3>1
    <3>3. LastRun(log', 1)
      BY <3>2 DEF LastRun, Begins
    <3>4. bld'.lasttime = log'[1].time
      BY <1>7, <3>1, <3>2
    <3> QED
      BY <3>2, <3>3, <3>4
  <2>2. CASE log # <<>>
    <3>1. PICK k \in 1..n : LastRun(log, k) /\ bld.lasttime = log[k].time
      BY <1>2, <2>2 DEF StreamFollows
    <3>2. Len(log') = n + 1 /\ k \in 1..Len(log') /\ Len(log') \in 1..Len(log')
      BY <1>5, <1>9
    <3>3. /\ ~Begins(log', Len(log')) => LastRun(log', k) /\ log'[k] = log[k]
          /\ Begins(log', Len(log')) => LastRun(log', Len(log')) /\ log'[Len(log')] = e
      BY <1>1, <1>5, <1>6, <3>1, RunGrows
    <3>4. CASE ~newtime
      <4>1. LastRun(log', k) /\ log'[k] = log[k]
        BY <1>19, <3>2, <3>3, <3>4
      <4>2. bld'.lasttime = log'[k].time
        BY <1>7, <3>1, <3>4, <4>1
      <4> QED
        BY <3>2, <4>1, <4>2
    <3>5. CASE newtime
      <4>1. LastRun(log', Len(log')) /\ log'[Len(log')] = e
        BY <1>19, <3>2, <3>3, <3>5
      <4>2. bld'.lasttime = log'[Len(log')].time
        BY <1>7, <3>5, <4>1
      <4> QED
        BY <3>2, <4>1, <4>2
    <3> QED
      BY <3>4, <3>5
  <2> QED
    BY <2>1, <2>2
<1>14. StreamFollows'
  BY <1>9, <1>10, <1>11, <1>12, <1>13 DEF StreamFollows
<1>15. PacketAsked'
  <2>1. asked' \in [r : RequestType, csrcs : Seq(Id), ssrc : Id] /\ asked'.r = r
        /\ asked'.csrcs = bld.csrcs /\ asked'.ssrc = bld.ssrc
    BY <1>1, <1>3
  <2>2. bld.seq \in Nat /\ bld.ts \in Nat
    BY <1>3, ModuliAre
  <2>3. pkt' = PacketOf(Passed(asked'.r), asked'.csrcs, bld.seq, bld.ts, asked'.ssrc)
    BY <1>1, <2>1
  <2>4. r.pt \notin {72, 73}
    BY <1>1, PassedIs
  <2> QED
    BY <1>1, <2>1, <2>2, <2>3, <2>4 DEF PacketAsked
<1> QED
  BY <1>1, <1>2, <1>5, <1>7, <1>8, <1>9, <1>14, <1>15 DEF PacketInv

\* A packet built with the defaults is one of a request.
LEMMA DefaultBuildKeeps ==
  ASSUME PacketInv, NEW p \in Request, BuildDefault(p.payload, p.words)
  PROVE  PacketInv'
<1>1. bld.init
  BY DEF BuildDefault
<1>2. bld.default \in [pt : SUBSET (0..255), mark : SUBSET BOOLEAN, inc : SUBSET Nat]
  BY <1>1, SetUp, BuilderFields
<1>3. PICK pt \in bld.default.pt, m \in bld.default.mark, n \in bld.default.inc :
         PrivateBuildPacket([pt |-> pt, mark |-> m, inc |-> n, payload |-> p.payload,
                             words |-> p.words])
  BY DEF BuildDefault
<1>4. [pt |-> pt, mark |-> m, inc |-> n, payload |-> p.payload, words |-> p.words] \in RequestType
  BY <1>2, <1>3, ModuliAre DEF RequestType
<1> QED
  BY <1>3, <1>4, BuildKeeps

\* Nothing is left of a builder.
LEMMA DestroyKeeps ==
  ASSUME PacketInv, DestroyPackets
  PROVE  PacketInv'
BY NoLog DEF DestroyPackets, PacketInv, PacketAsked

\* Time passes for the builder without a step.
LEMMA ClockKeeps ==
  ASSUME PacketInv, ClockTick \/ UNCHANGED packetvars
  PROVE  PacketInv'
<1>1. now' \in Nat /\ UNCHANGED <<bld, pkt, asked, log>>
  BY DEF ClockTick, PacketInv, packetvars
<1>2. PacketAsked' /\ (StreamFollows => StreamFollows')
  BY <1>1 DEF PacketAsked, StreamFollows, PacketInv
<1> QED
  BY <1>1, <1>2 DEF PacketInv

\* A builder begins in order.
LEMMA PacketsStart == PacketInit => PacketInv
BY NoLog DEF PacketInit, PacketInv, PacketAsked

\* Every call keeps the builder in order.
LEMMA PacketsStep == PacketInv /\ [PacketNext]_packetvars => PacketInv'
<1> SUFFICES ASSUME PacketInv, [PacketNext]_packetvars PROVE PacketInv'
  OBVIOUS
<1>1. ASSUME NEW max \in BufferSize, NEW s \in Id, NEW q \in 0..(SeqModulus - 1),
             NEW t \in 0..(TimeModulus - 1), InitPackets(max, s, q, t) \/ CreateNewSSRC(s, q, t)
      PROVE  PacketInv'
  BY <1>1, InitPacketsKeeps, CreateNewSSRCKeeps DEF SeqNumber, Timestamp
<1>2. ASSUME NEW max \in BufferSize, SetMaximumPacketSize(max) PROVE PacketInv'
  BY <1>2, MaximumKeeps
<1>3. ASSUME NEW c \in Id, AddCSRC(c) \/ DeleteCSRC(c) \/ AdjustSSRC(c) PROVE PacketInv'
  BY <1>3, CsrcsKeep
<1>4. ASSUME NEW r \in Request,
             \/ SetDefault("pt", r.pt) \/ SetDefault("mark", r.mark) \/ SetDefault("inc", r.inc)
             \/ PrivateBuildPacket(r) \/ BuildDefault(r.payload, r.words)
             \/ IncrementTimestamp(r.inc)
      PROVE  PacketInv'
  <2>1. r \in RequestType /\ r.inc \in Nat
    BY ModuliAre DEF RequestType
  <2> QED
    BY <1>4, <2>1, DefaultsKeep, BuildKeeps, DefaultBuildKeeps, TimestampKeeps
<1>5. CASE ClearCSRCList
  <2>1. bld.init
    BY <1>5 DEF ClearCSRCList
  <2>2. bld.ssrc \in Id
    BY <2>1, SetUp, BuilderFields
  <2> QED
    BY <1>5, <2>2, CsrcsKeep
<1>6. CASE IncrementTimestampDefault
  <2>1. PICK n \in bld.default.inc : bld.init /\ IncrementTimestamp(n)
    BY <1>6 DEF IncrementTimestampDefault
  <2>2. n \in Nat
    BY <2>1, SetUp, BuilderFields
  <2> QED
    BY <2>1, <2>2, TimestampKeeps
<1> QED
  BY <1>1, <1>2, <1>3, <1>4, <1>5, <1>6, DestroyKeeps, ClockKeeps DEF PacketNext

\* The least start of the last run is its first packet.
LEMMA PacketInvSays == PacketInv => PacketsSound
<1> SUFFICES ASSUME PacketInv PROVE PacketsSound
  OBVIOUS
<1>1. PacketParses
  <2> SUFFICES ASSUME pkt # <<>>, NEW n \in 0..2
               PROVE  /\ Reads(ParseRawPacket(Padded(pkt, n), TRUE), Passed(asked.r),
                               asked.csrcs, asked.ssrc)
                      /\ asked.r \in RequestType
    BY PassedIs, Zenon DEF PacketParses, Reads
  <2>1. /\ asked \in [r : RequestType, csrcs : Seq(Id), ssrc : Id] /\ asked.r.pt \notin {72, 73}
        /\ \E q, t \in Nat : pkt = PacketOf(Passed(asked.r), asked.csrcs, q, t, asked.ssrc)
    BY DEF PacketInv, PacketAsked
  <2> DEFINE r == Passed(asked.r)
  <2>2. PICK q \in Nat, t \in Nat : pkt = PacketOf(r, asked.csrcs, q, t, asked.ssrc)
    BY <2>1, Zenon
  <2>3. /\ asked.r \in RequestType /\ asked.csrcs \in Seq(Id)
        /\ r \in RequestType /\ r.pt \notin {72, 73}
    BY <2>1, PassedIs
  <2> DEFINE p == Padded(pkt, n)
  <2> HIDE DEF r
  <2>4. Carries(p.head, p.body, r, asked.csrcs, n) /\ p.head.ssrc = asked.ssrc
    <3>1. LET z == Padded(PacketOf(r, asked.csrcs, q, t, asked.ssrc), n)
          IN  Carries(z.head, z.body, r, asked.csrcs, n) /\ z.head.ssrc = asked.ssrc
      BY <2>3, PaddedIs
    <3> QED
      BY <2>2, <3>1, Zenon
  <2> HIDE DEF p
  <2>5. Reads(ParseRawPacket(p, TRUE), r, asked.csrcs, p.head.ssrc)
    BY <2>3, <2>4, ParsedIs, Zenon
  <2> QED
    BY <2>3, <2>4, <2>5, Zenon DEF p, r
<1>2. StreamAgreesWithLog
  <2> SUFFICES ASSUME log # <<>> PROVE StreamAgreesWithLog
    BY DEF StreamAgreesWithLog
  <2>1. IsInjective(bld.csrcs) /\ StreamFollows
    BY DEF PacketInv
  <2> QED
    BY <2>1, Zenon DEF StreamAgreesWithLog, StreamFollows
<1> QED
  BY <1>1, <1>2 DEF PacketsSound

\* What is built is what the other side reads, and the counters of the sender report
\* are those of the packets that left, modulo their width, for all requests and moduli.
THEOREM PacketsAreSound == PacketSpec => []PacketsSound
<1> QED
  BY PacketsStart, PacketsStep, PacketInvSays, PTL DEF PacketSpec

=============================================================================
