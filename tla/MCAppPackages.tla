---------------------------- MODULE MCAppPackages ----------------------------
(* AppPackages where a client may ask for any set of members.               *)
EXTENDS AppPackages

MCMemberSets == SUBSET Apps \ {{}}
=============================================================================
