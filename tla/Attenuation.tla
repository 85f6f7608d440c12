---------------------------- MODULE Attenuation ----------------------------
(***************************************************************************)
(* What a lease's scope permits, and how attenuateLease derives a child    *)
(* scope from a parent's (src/lease.mjs, "Lease delegation").               *)
(*                                                                         *)
(* A scope has three destination bindings, two numeric ceilings and a path *)
(* allowlist.  In the code an absent field is null: an unbound             *)
(* destination, an unlimited ceiling, an allowlist that allows every path. *)
(* Here those are Unset, 0 and {}.  A glob is represented by the set of    *)
(* endpoints it matches; globSubsumes over patterns then is inclusion.     *)
(***************************************************************************)
EXTENDS Naturals

CONSTANTS
  Target,    \* the values a destination binding may hold (hosts, URLs, headers)
  Unset,     \* an absent binding
  Endpoint,  \* the paths an upstream serves
  Load       \* the request rates and concurrencies a caller may drive

ASSUME UnsetAssumption == Unset \notin Target
ASSUME LoadAssumption == Load \subseteq Nat

BindField == {"host", "upstream", "inject"}
CeilField == {"rate", "concurrency"}

Glob == SUBSET Endpoint

Scope == [bind  : [BindField -> Target \cup {Unset}],
          ceil  : [CeilField -> Nat],
          paths : SUBSET Glob]

-----------------------------------------------------------------------------
(* Each narrow* pair is one helper of the code: the condition under which  *)
(* it does not throw, and the value it then returns.                       *)

\* A binding may be tightened when unset, inherited, never redirected.
BindingAccepted(parentVal, childVal) ==
  parentVal = Unset \/ childVal = Unset \/ childVal = parentVal
narrowBinding(parentVal, childVal) ==
  IF parentVal = Unset THEN childVal ELSE parentVal

\* A ceiling may be added when unlimited, inherited, lowered, never raised.
CeilAccepted(parentVal, childVal) == parentVal = 0 \/ childVal <= parentVal
narrowCeil(parentVal, childVal) == IF childVal = 0 THEN parentVal ELSE childVal

globSubsumes(p, c) == c \subseteq p

\* Mutant: "some child glob" where the code says every.
pathsSubsumed_some(parentPaths, childPaths) ==
  parentPaths = {} \/ \E c \in childPaths, p \in parentPaths : globSubsumes(p, c)

\* Every child glob must be covered by some single parent glob.
pathsSubsumed(parentPaths, childPaths) ==
  \/ parentPaths = {}
  \/ /\ childPaths # {}
     /\ \A c \in childPaths : \E p \in parentPaths : globSubsumes(p, c)

PathsAccepted(parentPaths, childPaths) ==
  childPaths = {} \/ pathsSubsumed(parentPaths, childPaths)
narrowPaths(parentPaths, childPaths) ==
  IF childPaths = {} THEN parentPaths ELSE childPaths

\* The scope part of attenuateLease: accepted, and the child scope it mints.
ScopeAccepted(p, r) ==
  /\ \A f \in BindField : BindingAccepted(p.bind[f], r.bind[f])
  /\ \A f \in CeilField : CeilAccepted(p.ceil[f], r.ceil[f])
  /\ PathsAccepted(p.paths, r.paths)

Narrow(p, r) ==
  [bind  |-> [f \in BindField |-> narrowBinding(p.bind[f], r.bind[f])],
   ceil  |-> [f \in CeilField |-> narrowCeil(p.ceil[f], r.ceil[f])],
   paths |-> narrowPaths(p.paths, r.paths)]

-----------------------------------------------------------------------------
(* The meaning of a scope, independent of how it was derived: the egress   *)
(* uses of the secret that it permits.                                     *)

Use == [dest : [BindField -> Target], load : [CeilField -> Load],
        endpoint : Endpoint]

Permits(s, u) ==
  /\ \A f \in BindField : s.bind[f] \in {Unset, u.dest[f]}
  /\ \A f \in CeilField : s.ceil[f] = 0 \/ u.load[f] <= s.ceil[f]
  /\ s.paths = {} \/ \E g \in s.paths : u.endpoint \in g

\* Whatever the child permits, the parent permits.
Within(child, parent) ==
  \A u \in Use : Permits(child, u) => Permits(parent, u)
=============================================================================
