---------------------------- MODULE MCLeaseStore ----------------------------
(* A finite instance of LeaseStore: three leases over overlapping scopes.   *)
EXTENDS LeaseStore, TLC

CONSTANTS h1, h2, e1, e2, l1, l2, l3

Open == [bind |-> [f \in BindField |-> Unset], ceil |-> [f \in CeilField |-> 0],
         paths |-> {}]
ToHost(s, h) == [s EXCEPT !.bind["host"] = h]
AtRate(s, n) == [s EXCEPT !.ceil["rate"] = n]
OnPaths(s, P) == [s EXCEPT !.paths = P]

\* Between them each helper meets a tighter, an equal, a wider, a conflicting
\* and an absent request.
Requested ==
  {OnPaths(AtRate(Open, 2), {{e1}}),
   ToHost(OnPaths(AtRate(Open, 2), {{e1}, {e2}}), h1),
   ToHost(AtRate(Open, 1), h2)}

\* A ceiling only rejects, and no two calls need agree on one.
NoCeilings == {[ttl |-> 0, uses |-> 0]}

LeaseSymmetry == Permutations(Lease)
=============================================================================
