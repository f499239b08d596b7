----------------------------- MODULE ClaimCards -----------------------------
(***************************************************************************)
(* The Merkle-Claim Card of atp_core.py: how an authority makes one           *)
(* (authority.py) and how whoever is shown one verifies it.                   *)
(*                                                                          *)
(* A leaf is a claim, <<key, value>>; its salt is left out.  BLAKE3 is free:   *)
(* a leaf hash is <<0, leaf>> and a node hash <<1, left, right>>, so that       *)
(* hashes are equal when what they were made of is.  A signature is the key    *)
(* that made it and what it was made over.  Keys, serials and dates are        *)
(* numbers; an authority's id is derived from its key and is that key here.    *)
(***************************************************************************)
EXTENDS Naturals, FiniteSets, Sequences, SequencesExt

\* The keys of leaves, in the order that sorts them.
KeyOrder == <<"agent_name", "agent_pk", "agent_sign_pk", "authority_id", "expiry_date",
              "mcc_version", "serial_number">>

Metadata == {"expiry_date", "authority_id", "mcc_version", "serial_number"}
KeyDefaults == {"agent_pk", "agent_sign_pk"}
DefaultMask == <<"agent_pk", "agent_sign_pk", "expiry_date", "authority_id", "mcc_version",
                 "serial_number">>

KeysOf(leaves) == {leaves[i][1] : i \in DOMAIN leaves}

\* The value of the one leaf with this key.
ValueOf(leaves, k) == leaves[CHOOSE i \in DOMAIN leaves : leaves[i][1] = k][2]

Place(k) == CHOOSE i \in DOMAIN KeyOrder : KeyOrder[i] = k

\* The elements of the domain of place, from that with the smallest number on.
ByPlace(place) ==
    LET rank == [x \in DOMAIN place |->
                    Cardinality({y \in DOMAIN place : place[y] < place[x]}) + 1]
    IN [r \in 1 .. Cardinality(DOMAIN place) |-> CHOOSE x \in DOMAIN place : rank[x] = r]

\* sorted(leaves, key=...), which is stable: of one key, the earlier leaf comes first.
Sorted(leaves) ==
    LET order == ByPlace([i \in DOMAIN leaves |-> Place(leaves[i][1]) * Len(leaves) + i])
    IN [r \in DOMAIN leaves |-> leaves[order[r]]]

LeafHash(leaf) == <<0, leaf>>
NodeHash(left, right) == <<1, left, right>>

\* The height of the tree over n leaves: 2^height is the next power of 2.
Height(n) == CHOOSE h \in 0 .. n : 2 ^ h >= n /\ \A g \in 0 .. h - 1 : 2 ^ g < n

\* _build_merkle_tree: the sorted leaves, the last one repeated up to a power of 2,
\* and level over level of the hashes of pairs.
Root(leaves) ==
    LET n == Len(leaves)
        sorted == Sorted(leaves)
        level[h \in 0 .. Height(n)] ==
            IF h = 0
            THEN [i \in 1 .. 2 ^ Height(n) |-> LeafHash(sorted[IF i <= n THEN i ELSE n])]
            ELSE [i \in 1 .. 2 ^ (Height(n) - h) |->
                     NodeHash(level[h - 1][2 * i - 1], level[h - 1][2 * i])]
    IN IF n = 0 THEN <<2>> ELSE level[Height(n)][1]

\* _normalize_critical_mask: sorted, without duplicates.
NormalizedMask(mask) == ByPlace([k \in ToSet(mask) |-> Place(k)])

\* _commitment_cbor.
Commitment(card) ==
    [root |-> card.root, expiry |-> card.expiry, version |-> card.version,
     authority |-> card.authority, serial |-> card.serial,
     mask |-> NormalizedMask(card.mask)]

\* The metadata leaves that go with a card's fields.
MetadataOf(card) ==
    [k \in Metadata |-> CASE k = "expiry_date" -> card.expiry
                          [] k = "authority_id" -> card.authority
                          [] k = "mcc_version" -> card.version
                          [] k = "serial_number" -> card.serial]

\* A key of the mask: its metadata, or a fresh public key if the caller gave none.
Added(leaves, k, metadata, default) ==
    IF k \in Metadata \ KeysOf(leaves) THEN Append(leaves, <<k, metadata[k]>>)
    ELSE IF k \in KeyDefaults \ KeysOf(leaves) THEN Append(leaves, <<k, default[k]>>)
    ELSE leaves

\* The leaves sign_mcc signs: those of the caller that are not metadata, and then the
\* keys of the mask.
Completed(request, metadata, default) ==
    LET given == Len(request.leaves)
        total == given + Len(request.mask)
        done[n \in 0 .. total] ==
            IF n = 0 THEN << >>
            ELSE IF n > given THEN Added(done[n - 1], request.mask[n - given], metadata, default)
            ELSE IF request.leaves[n][1] \in Metadata THEN done[n - 1]
            ELSE Append(done[n - 1], request.leaves[n])
    IN done[total]

\* Authority.sign_mcc and MCC.create.
Signed(request, serial, expiry, key, default) ==
    LET fields == [version |-> 1, serial |-> serial, authority |-> key, expiry |-> expiry]
        leaves == Completed(request, MetadataOf(fields), default)
        unsigned == [leaves |-> leaves, mask |-> NormalizedMask(request.mask),
                     root |-> Root(leaves), version |-> 1, serial |-> serial,
                     authority |-> key, expiry |-> expiry, sig |-> << >>]
    IN [unsigned EXCEPT !.sig = [by |-> key, over |-> Commitment(unsigned)]]

\* Mutant: leaf keys need not be unique.
MutantUniqueLeaves(leaves) == TRUE

UniqueLeaves(leaves) == \A i, j \in DOMAIN leaves : leaves[i][1] = leaves[j][1] => i = j

RootMatches(card) == Root(card.leaves) = card.root

\* MCC.verify.
Verify(card, pk, now, revoked) ==
    /\ card.version = 1
    /\ card.expiry > now
    /\ UniqueLeaves(card.leaves)
    /\ \A k \in Metadata \cap KeysOf(card.leaves) : ValueOf(card.leaves, k) = MetadataOf(card)[k]
    /\ ToSet(card.mask) \subseteq KeysOf(card.leaves)
    /\ RootMatches(card)
    /\ card.sig = [by |-> pk, over |-> Commitment(card)]
    /\ KeyDefaults \subseteq KeysOf(card.leaves) =>
           ValueOf(card.leaves, "agent_pk") # ValueOf(card.leaves, "agent_sign_pk")
    /\ card.serial \notin revoked

=============================================================================
