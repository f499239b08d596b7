--------------------------- MODULE MCCredentials ---------------------------
(* Instances of Credentials for TLC. *)
EXTENDS Credentials

CONSTANTS p1, p2

\* The processes differ in nothing but their names.
Processes == Permutations({p1, p2})

\* create_mcc_for_identity, whose metadata leaves are replaced; a caller without keys, of
\* which its mask names one twice.
MCRequests ==
    {[leaves |-> <<<<"agent_pk", 11>>, <<"agent_sign_pk", 12>>, <<"agent_name", 10>>,
                   <<"expiry_date", 7>>, <<"authority_id", 1>>, <<"mcc_version", 1>>,
                   <<"serial_number", 8>>>>,
      mask |-> DefaultMask],
     [leaves |-> <<<<"agent_name", 10>>>>, mask |-> <<"agent_pk", "agent_name", "agent_pk">>]}

MCDefaultKeys == [agent_pk |-> 21, agent_sign_pk |-> 22]

\* What the theorem about cards asks of these requests.
ASSUME RequestsAreWhole
=============================================================================
