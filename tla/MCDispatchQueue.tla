--------------------------- MODULE MCDispatchQueue ---------------------------
(* Values for checking DispatchQueue: all three policies, a queue of two and *)
(* enough enqueue() calls to overflow it while a drain is under way.         *)
EXTENDS DispatchQueue

AllPolicies == {"dropOldest", "dropNewest", "block"}
EvictingPolicy == {"dropOldest"}
=============================================================================
