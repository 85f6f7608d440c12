------------------------------ MODULE PathGlob ------------------------------
(***************************************************************************)
(* The two readings of a path glob in the code: pathAllowed of             *)
(* src/broker.mjs, which matches a glob against a path, and globSubsumes   *)
(* of src/lease.mjs, which compares two globs without any path at hand.    *)
(* A delegated allowlist is accepted by the second and enforced by the     *)
(* first, so the second must be inclusion of what the first matches.       *)
(*                                                                         *)
(* Globs and paths are sequences of tokens.  The state machine grows a     *)
(* parent and a child glob token by token; the invariants compare the two  *)
(* readings on every pair it reaches.                                      *)
(***************************************************************************)
EXTENDS Naturals, Sequences, SequencesExt

CONSTANTS
  Star, Slash, Query,  \* the tokens "*", "/" and "?"
  Letters,             \* the other characters
  GlobLetters,         \* those that occur in globs
  MaxGlob, MaxPath     \* bounds on the lengths

\* There are more characters than the globs use, and paths as long as globs.
ASSUME PathGlobAssumption ==
  /\ MaxGlob \in Nat /\ MaxPath \in Nat /\ MaxGlob <= MaxPath
  /\ GlobLetters \subseteq Letters /\ GlobLetters # Letters
  /\ Letters \cap {Star, Slash, Query} = {} /\ Star \notin {Slash, Query}

VARIABLES p, c  \* the parent's and the child's glob

GlobTokens == GlobLetters \cup {Star, Slash, Query}
Paths == SeqOf(Letters \cup {Slash, Query}, MaxPath)

-----------------------------------------------------------------------------
(* pathAllowed: "*" becomes [^/?]*, every other character stands for        *)
(* itself, and the expression is anchored at both ends.                     *)

InSegment(t) == t \notin {Slash, Query}

Matches(g, w) ==
  LET m[at \in (1 .. Len(g) + 1) \X (1 .. Len(w) + 1)] ==
        LET i == at[1]
            j == at[2]
        IN IF i > Len(g) THEN j > Len(w)
           ELSE IF g[i] = Star
           THEN m[<<i + 1, j>>] \/ (j <= Len(w) /\ InSegment(w[j]) /\ m[<<i, j + 1>>])
           ELSE j <= Len(w) /\ g[i] = w[j] /\ m[<<i + 1, j + 1>>]
  IN m[<<1, 1>>]

pathAllowed(w, patterns) == \E g \in patterns : Matches(g, w)

-----------------------------------------------------------------------------
(* globSubsumes: a recursion over the positions of the two globs.           *)

\* Mutants: an exhausted child matches any rest of the parent; a trailing star
\* of the parent needs a character.
allStars_any(g, i) == TRUE
allStars_none(g, i) == i > Len(g)

allStars(g, i) == \A k \in i .. Len(g) : g[k] = Star

globSubsumes(par, chi) ==
  LET go[at \in (1 .. Len(par) + 1) \X (1 .. Len(chi) + 1)] ==
        LET i == at[1]
            j == at[2]
        IN IF i > Len(par) THEN j > Len(chi)
           ELSE IF j > Len(chi) THEN allStars(par, i)
           ELSE IF par[i] = Star
           THEN go[<<i + 1, j>>] \/ (InSegment(chi[j]) /\ go[<<i, j + 1>>])
           ELSE IF par[i] = Slash THEN chi[j] = Slash /\ go[<<i + 1, j + 1>>]
           ELSE chi[j] \notin {Star, Slash} /\ par[i] = chi[j] /\ go[<<i + 1, j + 1>>]
  IN go[<<1, 1>>]

-----------------------------------------------------------------------------

GlobInit == p = <<>> /\ c = <<>>

ExtendParent == Len(p) < MaxGlob /\ \E t \in GlobTokens : p' = Append(p, t) /\ UNCHANGED c
ExtendChild == Len(c) < MaxGlob /\ \E t \in GlobTokens : c' = Append(c, t) /\ UNCHANGED p

GlobNext == ExtendParent \/ ExtendChild

GlobSpec == GlobInit /\ [][GlobNext]_<<p, c>>

-----------------------------------------------------------------------------
(* Properties.                                                             *)

\* "It never accepts a child that can escape the parent": the delegation check
\* accepts a child glob exactly when the broker allows no path through it that
\* it would not allow through the parent.
SubsumesIsInclusion ==
  globSubsumes(p, c) <=> \A w \in Paths : pathAllowed(w, {c}) => pathAllowed(w, {p})
=============================================================================
