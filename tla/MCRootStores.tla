---------------------------- MODULE MCRootStores ----------------------------
(* Instances of RootStores for TLC. *)
EXTENDS RootStores, TLC

CONSTANTS a1, a2, k1, k2, n1, n2, th1, th2, p1, p2

\* Two versions of one authority's manifest, of which the second has neither date nor
\* nonce and replaces the authority's own key, and a manifest that only its nonce
\* protects against a replay.
MCManifests ==
    {[signer |-> a1, key |-> k1, version |-> 1, nonce |-> n1, dated |-> TRUE,
      grants |-> [a \in {a2} |-> k1]],
     [signer |-> a1, key |-> k1, version |-> 2, nonce |-> NoNonce, dated |-> FALSE,
      grants |-> [a \in {a1, a2} |-> k2]],
     [signer |-> a1, key |-> k1, version |-> 0, nonce |-> n2, dated |-> TRUE,
      grants |-> [a \in {a2} |-> k1]]}

ThreadSymmetry == Permutations(Threads)
=============================================================================
