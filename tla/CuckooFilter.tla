---------------------------- MODULE CuckooFilter ----------------------------
(***************************************************************************)
(* The cuckoo filter of revocation.py that says which credential serials are  *)
(* revoked.  The server's event loop inserts: serials come with every gossip  *)
(* round and every CONTROL_REVOKE_NOTIFY, whether the filter has them or not.  *)
(*                                                                          *)
(* An insertion that finds both of its buckets full evicts entries at random;  *)
(* when that fails too, the filter is rebuilt with twice the buckets, entry    *)
(* by entry through the same insert, which now may not rebuild again.          *)
(***************************************************************************)
EXTENDS Naturals, Sequences, SequencesExt, FiniteSets

CONSTANTS
    Items,        \* serial numbers
    NoItem,       \* no item
    Hashes,       \* what blake3 may make of an item: [first, fp, mask]
    Slots,        \* entries a bucket holds
    MaxKicks,     \* _max_kicks
    StartBuckets, \* buckets of a new filter
    MaxBuckets,   \* 2 to the number of bits of a hash, a bound
    MaxInserts    \* bound: how often each item is inserted

\* What 1 is when it has been doubled n times.
Pow2[n \in Nat] == IF n = 0 THEN 1 ELSE 2 * Pow2[n - 1]

ASSUME HashesAssumption ==
    /\ NoItem \notin Items
    /\ \A h \in Hashes : h.first \in 0 .. MaxBuckets - 1 /\ h.mask \in 0 .. MaxBuckets - 1
ASSUME SizesAssumption ==
    /\ Slots \in Nat \ {0} /\ MaxKicks \in Nat \ {0} /\ MaxInserts \in Nat \ {0}
    /\ MaxBuckets \in Nat
    /\ \E n \in 0 .. MaxBuckets : MaxBuckets = Pow2[n]
    /\ \E n \in 0 .. MaxBuckets : StartBuckets = Pow2[n] /\ StartBuckets <= MaxBuckets

VARIABLES
    hash,       \* of each item
    buckets,    \* _buckets
    table,      \* _table: the items of each bucket
    pc,         \* where insert is
    call,       \* the item insert was called with
    hand,       \* the item it is trying to place
    cur,        \* the bucket it evicts from
    kicks,      \* evictions so far
    resizing,   \* _resizing
    owed,       \* the item without a place for which the filter is rebuilt
    todo,       \* all_items that _resize has not reinserted yet
    begun,      \* insertions begun of each item (history)
    accepted,   \* items for which insert returned True (history)
    dropped     \* entries of each item that _resize failed to reinsert (history)

vars == <<hash, buckets, table, pc, call, hand, cur, kicks, resizing, owed, todo,
          begun, accepted, dropped>>

BucketNos == 0 .. MaxBuckets - 1

TypeOK ==
    /\ hash \in [Items -> Hashes]
    /\ buckets \in StartBuckets .. MaxBuckets
    /\ table \in [BucketNos -> Seq(Items)]
    /\ \A i \in BucketNos : Len(table[i]) <= Slots
    /\ pc \in {"idle", "place", "kick", "full", "rebuild"}
    /\ call \in Items \cup {NoItem} /\ hand \in Items \cup {NoItem}
    /\ owed \in Items \cup {NoItem}
    /\ cur \in BucketNos /\ kicks \in 0 .. MaxKicks
    /\ resizing \in BOOLEAN
    /\ todo \in Seq(Items)
    /\ begun \in [Items -> 0 .. MaxInserts] /\ dropped \in [Items -> 0 .. MaxInserts]
    /\ accepted \subseteq Items

Empty == [i \in BucketNos |-> << >>]

Init ==
    /\ hash \in [Items -> Hashes]
    /\ buckets = StartBuckets
    /\ table = Empty
    /\ pc = "idle" /\ call = NoItem /\ hand = NoItem /\ owed = NoItem
    /\ cur = 0 /\ kicks = 0
    /\ resizing = FALSE
    /\ todo = << >>
    /\ begun = [x \in Items |-> 0] /\ dropped = [x \in Items |-> 0]
    /\ accepted = {}

-----------------------------------------------------------------------------
(* Where an item may be.  The number of buckets is a power of 2. *)

\* Exclusive or, bit by bit.
Xor[i \in Nat] ==
    [j \in Nat |-> IF i = 0 \/ j = 0
                   THEN i + j
                   ELSE ((i + j) % 2) + 2 * Xor[i \div 2][j \div 2]]

Home(x) == hash[x].first % buckets

\* Mutant: the alternate of the alternate is not where it came from.
MutantAlternate(x, i) == (i + hash[x].mask) % buckets

\* _alt_index: from either of its buckets to the other one.
Alternate(x, i) == Xor[i][hash[x].mask % buckets]

HasRoom(i) == Len(table[i]) < Slots

\* contains: the fingerprint of x is in one of its buckets.
Found(x) ==
    \E i \in {Home(x), Alternate(x, Home(x))} :
        \E n \in DOMAIN table[i] : hash[table[i][n]].fp = hash[x].fp

-----------------------------------------------------------------------------
(* insert *)

Insert(x) ==
    /\ pc = "idle" /\ begun[x] < MaxInserts
    /\ begun' = [begun EXCEPT ![x] = @ + 1]
    /\ call' = x /\ hand' = x
    /\ pc' = "place"
    /\ UNCHANGED <<hash, buckets, table, cur, kicks, resizing, owed, todo, accepted, dropped>>

\* The item in hand has found its place: insert returns True, to _resize or to
\* its caller.
Settles(newTable) ==
    /\ table' = newTable
    /\ hand' = NoItem
    /\ IF resizing
       THEN pc' = "rebuild" /\ UNCHANGED <<call, accepted>>
       ELSE pc' = "idle" /\ call' = NoItem /\ accepted' = accepted \cup {call}

Place ==
    LET home == Home(hand) IN
    /\ pc = "place"
    /\ \/ HasRoom(home) /\ Settles([table EXCEPT ![home] = Append(@, hand)])
       \/ /\ ~ HasRoom(home) /\ HasRoom(Alternate(hand, home))
          /\ Settles([table EXCEPT ![Alternate(hand, home)] = Append(@, hand)])
    /\ UNCHANGED <<hash, buckets, cur, kicks, resizing, owed, todo, begun, dropped>>

\* Both buckets are full, and so equally long.
StartKicks ==
    LET home == Home(hand) IN
    /\ pc = "place"
    /\ ~ HasRoom(home) /\ ~ HasRoom(Alternate(hand, home))
    /\ pc' = "kick" /\ cur' = home /\ kicks' = 0
    /\ UNCHANGED <<hash, buckets, table, call, hand, resizing, owed, todo,
                   begun, accepted, dropped>>

\* Mutant: the entry evicted last is forgotten when it has no place either.
MutantKick(n) ==
    LET kicked == table[cur][n]
        alt == Alternate(kicked, cur) IN
    /\ pc = "kick" /\ kicks < MaxKicks
    /\ table' = [table EXCEPT ![cur][n] = hand]
    /\ pc' = "kick" /\ cur' = alt /\ kicks' = kicks + 1
    /\ UNCHANGED <<hash, buckets, call, hand, resizing, owed, todo, begun, accepted, dropped>>

\* The item in hand takes the place of an entry of the bucket, which goes to its
\* other bucket or is the next one to look for a place.
Kick(n) ==
    LET kicked == table[cur][n]
        alt == Alternate(kicked, cur)
        kickedOut == [table EXCEPT ![cur][n] = hand] IN
    /\ pc = "kick" /\ kicks < MaxKicks
    /\ \/ /\ HasRoom(alt)
          /\ Settles([kickedOut EXCEPT ![alt] = Append(@, kicked)])
          /\ UNCHANGED <<cur, kicks>>
       \/ /\ ~ HasRoom(alt)
          /\ table' = kickedOut
          /\ hand' = kicked /\ cur' = alt /\ kicks' = kicks + 1
          /\ UNCHANGED <<pc, call, accepted>>
    /\ UNCHANGED <<hash, buckets, resizing, owed, todo, begun, dropped>>

\* Too many kicks.  Within a rebuild that is the end of the item in hand, which
\* need not be the one that was to be inserted.
GiveUp ==
    /\ pc = "kick" /\ kicks = MaxKicks
    /\ IF resizing
       THEN /\ dropped' = [dropped EXCEPT ![hand] = @ + 1]
            /\ hand' = NoItem
            /\ pc' = "rebuild"
       ELSE pc' = "full" /\ UNCHANGED <<dropped, hand>>
    /\ UNCHANGED <<hash, buckets, table, call, cur, kicks, resizing, owed, todo,
                   begun, accepted>>

-----------------------------------------------------------------------------
(* _resize *)

\* Every entry of the table, bucket by bucket.
Entries == FlattenSeq([n \in 1 .. buckets |-> table[n - 1]])

\* Twice the buckets, all of them empty.  A hash has no bits for more than
\* MaxBuckets, so that further doubling changes no index.
Resize ==
    /\ pc = "full"
    /\ resizing' = TRUE
    /\ owed' = hand /\ hand' = NoItem
    /\ todo' = Entries
    /\ buckets' = IF buckets = MaxBuckets THEN buckets ELSE 2 * buckets
    /\ table' = Empty
    /\ pc' = "rebuild"
    /\ UNCHANGED <<hash, call, cur, kicks, begun, accepted, dropped>>

Reinsert ==
    /\ pc = "rebuild" /\ todo # << >>
    /\ hand' = Head(todo) /\ todo' = Tail(todo)
    /\ pc' = "place"
    /\ UNCHANGED <<hash, buckets, table, call, cur, kicks, resizing, owed,
                   begun, accepted, dropped>>

\* Mutant: insert returns after the rebuild, as if it had succeeded.
MutantRetryInsert ==
    /\ pc = "rebuild" /\ todo = << >>
    /\ resizing' = FALSE
    /\ owed' = NoItem
    /\ pc' = "idle" /\ call' = NoItem /\ accepted' = accepted \cup {call}
    /\ UNCHANGED <<hash, buckets, table, hand, cur, kicks, todo, begun, dropped>>

\* The rebuild is over: the item without a place is inserted again.
RetryInsert ==
    /\ pc = "rebuild" /\ todo = << >>
    /\ resizing' = FALSE
    /\ hand' = owed /\ owed' = NoItem
    /\ pc' = "place"
    /\ UNCHANGED <<hash, buckets, table, call, cur, kicks, todo, begun, accepted, dropped>>

-----------------------------------------------------------------------------
Working ==
    \/ Place \/ StartKicks \/ GiveUp
    \/ pc = "kick" /\ \E n \in DOMAIN table[cur] : Kick(n)
    \/ Resize \/ Reinsert \/ RetryInsert

\* Every insertion that will be made has been made.
Done ==
    /\ pc = "idle" /\ \A x \in Items : begun[x] = MaxInserts
    /\ UNCHANGED vars

Next == (\E x \in Items : Insert(x)) \/ Working \/ Done

Spec == Init /\ [][Next]_vars

-----------------------------------------------------------------------------
(* Properties *)

Copies(seq, x) == Cardinality({n \in DOMAIN seq : seq[n] = x})
InHand(x) == IF hand = x THEN 1 ELSE 0
Owed(x) == IF owed = x THEN 1 ELSE 0

\* Every entry is in one of the two buckets where contains and remove look for
\* it, through evictions and across rebuilds (_hash, _alt_index, _resize).
EntriesInPlace ==
    \A i \in BucketNos : \A n \in DOMAIN table[i] :
        LET x == table[i][n] IN i \in {Home(x), Alternate(x, Home(x))}

\* Evictions and rebuilds neither lose nor duplicate an entry: whatever has been
\* inserted is in the table, on its way there, or was dropped by a rebuild that
\* says so.
NothingForgotten ==
    \A x \in Items :
        Copies(Entries, x) + Copies(todo, x) + InHand(x) + Owed(x) + dropped[x] = begun[x]

\* A serial whose revocation has been accepted is found once insert has returned,
\* unless a rebuild dropped an entry of it.
AcceptedAreFound ==
    pc = "idle" => \A x \in accepted : Found(x) \/ dropped[x] > 0
=============================================================================
