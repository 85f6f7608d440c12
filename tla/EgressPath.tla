------------------------------ MODULE EgressPath ------------------------------
(***************************************************************************)
(* The path of a request on its way out (canonicalize of src/broker.mjs):  *)
(* split, decoded and normalized once, then matched against the lease's    *)
(* globs (pathAllowed, in PathGlob).                                       *)
(*                                                                         *)
(* A target is a sequence of tokens, an escape such as %2e being one.  The *)
(* state machine grows a target token by token.                            *)
(***************************************************************************)
EXTENDS PathGlob

CONSTANTS
  Dot, Percent,            \* the characters "." and "%"
  EscDot, EscSlash,        \* the escapes of "." and "/",
  EscQuery, EscPercent,    \* of "?" and "%"
  EscBad,                  \* and a malformed one
  MaxTarget                \* bound on the length

Escapes == {EscDot, EscSlash, EscQuery, EscPercent, EscBad}

\* Escapes are no characters.
ASSUME EgressPathAssumption ==
  /\ MaxTarget \in Nat
  /\ Escapes \cap (Letters \cup {Slash, Query, Dot, Percent}) = {}

VARIABLE target  \* what follows the lease in the request line

-----------------------------------------------------------------------------

\* Everything before the first "?".
RawPath(t) ==
  LET q == SelectInSeq(t, LAMBDA ch : ch = Query) IN IF q = 0 THEN t ELSE SubSeq(t, 1, q - 1)

Unescaped(ch) ==
  CASE ch = EscDot -> Dot
    [] ch = EscSlash -> Slash
    [] ch = EscQuery -> Query
    [] ch = EscPercent -> Percent
    [] OTHER -> ch

\* decodeURIComponent, or the text as it is when that throws.
Decoded(s) == IF EscBad \in Range(s) THEN s ELSE [i \in DOMAIN s |-> Unescaped(s[i])]

\* split('/')
Segments(s) ==
  LET upto[n \in 0 .. Len(s)] ==
        IF n = 0 THEN << <<>> >>
        ELSE LET segs == upto[n - 1] IN
             IF s[n] = Slash THEN Append(segs, <<>>)
             ELSE [segs EXCEPT ![Len(segs)] = Append(@, s[n])]
  IN upto[Len(s)]

\* Each segment behind a "/".
Joined(segs) ==
  LET upto[n \in 0 .. Len(segs)] ==
        IF n = 0 THEN <<>> ELSE upto[n - 1] \o <<Slash>> \o segs[n]
  IN upto[Len(segs)]

Here == <<Dot>>
Up == <<Dot, Dot>>
Climb(segs) == IF segs = <<>> THEN segs ELSE Front(segs)

\* The segments that are left of a path: none is empty, "." or "..".
Kept(segs) ==
  LET upto[n \in 0 .. Len(segs)] ==
        IF n = 0 THEN <<>>
        ELSE CASE segs[n] \in {<<>>, Here} -> upto[n - 1]
               [] segs[n] = Up -> Climb(upto[n - 1])
               [] OTHER -> Append(upto[n - 1], segs[n])
  IN upto[Len(segs)]

\* posix.normalize of a path that starts with "/": the last "/" stays.
normalize(s) ==
  LET kept == Kept(Segments(s))
  IN IF kept = <<>> THEN <<Slash>>
     ELSE Joined(kept) \o (IF Last(s) = Slash THEN <<Slash>> ELSE <<>>)

\* Mutants: a ".." in front of a relative target is anchored after it was
\* normalized; the escapes are decoded after that.
canonicalPath_anchoredLate(t) ==
  LET s == Decoded(RawPath(t))
      up == IsPrefix(Up, s) /\ (Len(s) = 2 \/ s[3] = Slash)
  IN IF up THEN <<Slash, Dot, Dot>> \o normalize(<<Slash>> \o SubSeq(s, 3, Len(s)))
     ELSE normalize(<<Slash>> \o s)
canonicalPath_decodedLate(t) == Decoded(normalize(<<Slash>> \o RawPath(t)))

\* canonicalize(rest).path
canonicalPath(t) == normalize(<<Slash>> \o Decoded(RawPath(t)))

-----------------------------------------------------------------------------

TargetInit == target = <<>>

TargetTokens == GlobLetters \cup {Dot, Slash, Query} \cup Escapes

ExtendTarget ==
  /\ Len(target) < MaxTarget
  /\ \E t \in TargetTokens : target' = Append(target, t)

TargetSpec == TargetInit /\ [][ExtendTarget]_target

-----------------------------------------------------------------------------
(* Properties.                                                             *)

\* The allowlist is consulted with an absolute path without "." or "..", and
\* without empty segments but for the last: "canonicalize clamps every `..` at
\* root and always returns an anchored path".
CanonicalIsAnchored ==
  LET path == canonicalPath(target)
      segs == Segments(Tail(path))
  IN /\ path[1] = Slash
     /\ \A i \in 1 .. Len(segs) :
          segs[i] \notin {Here, Up} /\ (segs[i] = <<>> => i = Len(segs))
=============================================================================
