----------------------- MODULE MCPublicRequestLimiter -----------------------
(* Instances of PublicRequestLimiter: requests of two addresses, those of   *)
(* one address alike.                                                       *)
EXTENDS PublicRequestLimiter, TLC

CONSTANTS OfA, OfB

MCRequests == OfA \cup OfB
MCIp == [r \in MCRequests |-> IF r \in OfA THEN "a" ELSE "b"]
Alike == Permutations(OfA) \cup Permutations(OfB)
=============================================================================
