----------------------------- MODULE MCLeaseProc -----------------------------
(* Finite instances of LeaseProc: one unscoped kind of lease, for one use.  *)
EXTENDS LeaseProc, TLC

Open == [bind |-> [f \in {"host", "upstream", "inject"} |-> Unset],
         ceil |-> [f \in {"rate", "concurrency"} |-> 0], paths |-> {}]
OpenRequests == {Open}
NoCeilings == {[ttl |-> 0, uses |-> 0]}
Symmetry == Permutations(Proc) \cup Permutations(Lease)
=============================================================================
