------------------------------ MODULE Manifests ------------------------------
(***************************************************************************)
(* Authority-chain manifests and their verification, shared by the two root   *)
(* store backends (_verify_chain_manifest_cbor in revocation.py).             *)
(***************************************************************************)
EXTENDS Naturals

CONSTANTS
    Auths,       \* authority ids
    Keys,        \* authority public keys
    NoKey,       \* no key: the authority is unknown or expired
    NoNonce,     \* a manifest without manifest_nonce
    Manifests,   \* [signer, key, version, nonce, dated, grants]
    Idle,        \* in place of a manifest, for who adds none
    MaxAccepts   \* bound: how often one manifest is accepted in a behaviour

\* version is rootstore_version, 0 when absent; dated says whether manifest_ts is
\* there; grants maps the authorities it lists to their keys.
ASSUME ManifestsAssumption ==
    /\ NoKey \notin Keys /\ Idle \notin Manifests
    /\ \A m \in Manifests :
          /\ m.signer \in Auths /\ m.key \in Keys /\ m.version \in Nat /\ m.dated \in BOOLEAN
          /\ DOMAIN m.grants \subseteq Auths
          /\ \A a \in DOMAIN m.grants : m.grants[a] \in Keys
ASSUME MaxAcceptsAssumption == MaxAccepts \in Nat \ {0}

\* How long ago a manifest was made: within the 300 s freshness window, beyond
\* it, or more than the hour for which the SQLite store keeps nonces.
Ages == {"fresh", "stale", "old"}
Older(age) == IF age = "fresh" THEN "stale" ELSE "old"

\* What a manifest has to pass before the store looks at its own state: it is
\* fresh if it has a date, and signed with the trusted key of its signer.
Verified(m, age, signerKey) ==
    /\ m.dated => age = "fresh"
    /\ signerKey # NoKey /\ m.key = signerKey

\* The authorities of a store once a manifest has granted its own.
Granted(store, entries) ==
    [a \in Auths |-> IF a \in DOMAIN entries THEN entries[a] ELSE store[a]]
=============================================================================
