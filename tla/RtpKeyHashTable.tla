---------------------------- MODULE RtpKeyHashTable ----------------------------
(***************************************************************************)
(* The hash tables in memory: every element is in the chain of its bucket  *)
(* and in the list of all elements, both doubly linked.  The least free    *)
(* address is allocated, so that memory of deleted elements is used again. *)
(* The values of RTPKeyHashTable go with their keys and are left out.      *)
(***************************************************************************)
EXTENDS Integers, Sequences, FiniteSetsExt

CONSTANTS
    Key,
    Bucket,     \* 0 .. hashsize - 1
    HashOf,     \* GetIndex::GetIndex, a function from Key to Bucket
    Addr        \* addresses of elements: positive numbers, as many as keys

Null == 0

\* There is memory for all keys, and GetIndex stays within the table.
ASSUME TableAssumption ==
    /\ IsFiniteSet(Key) /\ Null \notin Key /\ HashOf \in [Key -> Bucket]
    /\ IsFiniteSet(Addr) /\ Addr \subseteq Nat \ {Null}
    /\ Cardinality(Key) <= Cardinality(Addr)

VARIABLES
    heap,                           \* the elements by address
    table,                          \* the first element of each bucket
    firsthashelem, lasthashelem,    \* the ends of the list
    curhashelem,
    stale                           \* history: curhashelem was never set, or is gone

hashvars == <<heap, table, firsthashelem, lasthashelem, curhashelem, stale>>

Free == [key |-> Null, hashprev |-> Null, hashnext |-> Null,
         listprev |-> Null, listnext |-> Null]

-----------------------------------------------------------------------------
HashInit ==
    /\ heap = [a \in Addr |-> Free]
    /\ table = [b \in Bucket |-> Null]
    /\ firsthashelem = Null /\ lasthashelem = Null
    /\ curhashelem = Null /\ stale = TRUE

\* What is met from an element on, link by link; Null behind the last.
Walk(first, next) ==
    LET at[n \in 1..Cardinality(Addr)] ==
            IF n = 1 THEN first
            ELSE IF at[n - 1] = Null THEN Null ELSE next[at[n - 1]]
    IN  at

\* The elements of a bucket: those that its chain reaches.
Chain(b) ==
    LET at == Walk(table[b], [a \in Addr |-> heap[a].hashnext])
    IN  {at[n] : n \in DOMAIN at} \ {Null}

\* The element with a key, or Null.
Find(k) ==
    LET found == {a \in Chain(HashOf[k]) : heap[a].key = k}
    IN  IF found = {} THEN Null ELSE CHOOSE a \in found : TRUE

SetCurrent(a) ==
    /\ curhashelem' = a
    /\ stale' = FALSE
    /\ UNCHANGED <<heap, table, firsthashelem, lasthashelem>>

GotoFirstElement == SetCurrent(firsthashelem)
GotoLastElement == SetCurrent(lasthashelem)
GotoNextElement ==
    ~stale /\ SetCurrent(IF curhashelem = Null THEN Null ELSE heap[curhashelem].listnext)
GotoPreviousElement ==
    ~stale /\ SetCurrent(IF curhashelem = Null THEN Null ELSE heap[curhashelem].listprev)
GotoElement(k) == SetCurrent(Find(k))
HasElement(k) == Find(k) # Null

\* At the head of its bucket and at the end of the list.
AddElement(k) ==
    /\ ~HasElement(k)
    /\ LET new == Min({a \in Addr : heap[a].key = Null})
           b == HashOf[k]
           e == table[b]
           cell == [key |-> k, hashprev |-> Null, hashnext |-> e,
                    listprev |-> lasthashelem, listnext |-> Null]
       IN  /\ heap' = [a \in Addr |->
                         IF a = new THEN cell
                         ELSE [heap[a] EXCEPT !.hashprev = IF a = e THEN new ELSE @,
                                              !.listnext = IF a = lasthashelem THEN new
                                                           ELSE @]]
           /\ table' = [table EXCEPT ![b] = new]
           /\ firsthashelem' = IF firsthashelem = Null THEN new ELSE firsthashelem
           /\ lasthashelem' = new
    /\ UNCHANGED <<curhashelem, stale>>

\* Bug: the element after the deleted one keeps its back link in the chain.
UnlinkOneWay(c) ==
    LET d == heap[c]
        b == HashOf[d.key]
    IN  /\ heap' = [a \in Addr |->
                      IF a = c THEN Free
                      ELSE [heap[a] EXCEPT
                              !.hashnext = IF a = d.hashprev THEN d.hashnext ELSE @,
                              !.listnext = IF a = d.listprev THEN d.listnext ELSE @,
                              !.listprev = IF a = d.listnext THEN d.listprev ELSE @]]
        /\ table' = IF d.hashprev = Null THEN [table EXCEPT ![b] = d.hashnext] ELSE table
        /\ firsthashelem' = IF d.listprev = Null THEN d.listnext ELSE firsthashelem
        /\ lasthashelem' = IF d.listnext = Null THEN d.listprev ELSE lasthashelem
        /\ curhashelem' = d.listnext
        /\ stale' = FALSE

\* Both links around the element are closed and it is deleted; the cursor goes to
\* the next of the list.
Unlink(c) ==
    LET d == heap[c]
        b == HashOf[d.key]
    IN  /\ heap' = [a \in Addr |->
                      IF a = c THEN Free
                      ELSE [heap[a] EXCEPT
                              !.hashnext = IF a = d.hashprev THEN d.hashnext ELSE @,
                              !.hashprev = IF a = d.hashnext THEN d.hashprev ELSE @,
                              !.listnext = IF a = d.listprev THEN d.listnext ELSE @,
                              !.listprev = IF a = d.listnext THEN d.listprev ELSE @]]
        /\ table' = IF d.hashprev = Null THEN [table EXCEPT ![b] = d.hashnext] ELSE table
        /\ firsthashelem' = IF d.listprev = Null THEN d.listnext ELSE firsthashelem
        /\ lasthashelem' = IF d.listnext = Null THEN d.listprev ELSE lasthashelem
        /\ curhashelem' = d.listnext
        /\ stale' = FALSE

DeleteCurrentElement ==
    /\ ~stale /\ curhashelem # Null
    /\ Unlink(curhashelem)

DeleteElement(k) == IF HasElement(k) THEN Unlink(Find(k)) ELSE GotoElement(k)

\* curhashelem is not set.
Clear ==
    /\ heap' = [a \in Addr |-> Free]
    /\ table' = [b \in Bucket |-> Null]
    /\ firsthashelem' = Null /\ lasthashelem' = Null
    /\ stale' = (stale \/ curhashelem # Null)
    /\ UNCHANGED curhashelem

HashNext ==
    \/ GotoFirstElement
    \/ GotoLastElement
    \/ GotoNextElement
    \/ GotoPreviousElement
    \/ \E k \in Key : GotoElement(k) \/ AddElement(k) \/ DeleteElement(k)
    \/ DeleteCurrentElement
    \/ Clear

HashSpec == HashInit /\ [][HashNext]_hashvars

-----------------------------------------------------------------------------
\* The list from its first element, and the place of the cursor in it.
Listed ==
    LET at == Walk(firsthashelem, [a \in Addr |-> heap[a].listnext])
    IN  [n \in 1..Cardinality({i \in DOMAIN at : at[i] # Null}) |-> at[n]]

Cursor ==
    IF stale THEN -1
    ELSE IF curhashelem = Null THEN 0
    ELSE CHOOSE n \in DOMAIN Listed : Listed[n] = curhashelem

Items == [n \in DOMAIN Listed |-> heap[Listed[n]].key]

Abstract == INSTANCE RtpTable WITH items <- Items, cursor <- Cursor

\* Chains, list and cursor together behave as the ordered set of keys that
\* the users of the tables rely on, whatever keys share a bucket and however
\* memory is used again: every lookup through a chain agrees with the list.
TableIsMap == Abstract!Spec

=============================================================================
