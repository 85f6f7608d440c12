------------------------------ MODULE MCFilters ------------------------------
(* The broker's three readings of text, one at a time: globs against globs  *)
(* (PathGlob), request targets (EgressPath), bodies (RedactStream).         *)
EXTENDS EgressPath, RedactStream

FilterInit == GlobInit /\ TargetInit /\ RedactInit

\* One of the three moves while the others rest where they started.
GlobsAtRest == p = <<>> /\ c = <<>>
TargetAtRest == target = <<>>
StreamAtRest == body = <<>> /\ ~ended /\ secret = CHOOSE s \in Strings(1, 1) : TRUE

FilterNext ==
  \/ TargetAtRest /\ StreamAtRest /\ GlobNext /\ UNCHANGED <<target, redactVars>>
  \/ GlobsAtRest /\ StreamAtRest /\ ExtendTarget /\ UNCHANGED <<p, c, redactVars>>
  \/ GlobsAtRest /\ TargetAtRest /\ RedactNext /\ UNCHANGED <<p, c, target>>

filterVars == <<p, c, target, redactVars>>

FilterSpec == FilterInit /\ [][FilterNext]_filterVars
=============================================================================
