---------------------------- MODULE FilterProofs ----------------------------
(***************************************************************************)
(* What the broker's readings of text compute for inputs of every length:  *)
(* globSubsumes is inclusion of what pathAllowed matches, redactStream     *)
(* relays the redaction of the whole body whatever the chunks, and what    *)
(* canonicalize returns is anchored.                                       *)
(***************************************************************************)
EXTENDS EgressPath, RedactStream, SequenceTheorems, WellFoundedInduction, TLAPS

-----------------------------------------------------------------------------
(* Recursion and induction over a rank.                                    *)

LEMMA Smallest ==
  ASSUME NEW S \in SUBSET Nat, S # {}
  PROVE  \E k \in S : \A m \in S : k <= m
<1> DEFINE below == {ss \in Nat \X Nat : ss[1] < ss[2]}
<1>1. IsWellFoundedOn(below, Nat)
  BY NatLessThanWellFounded DEF OpToRel
<1>2. \A k, m \in S : <<m, k>> \notin below => k <= m
  OBVIOUS
<1> HIDE DEF below
<1>3. \E k \in S : \A m \in S : <<m, k>> \notin below
  BY <1>1, WFMin
<1> QED BY <1>2, <1>3

LEMMA Induction ==
  ASSUME NEW S \in SUBSET Nat, \A n \in Nat : (\A m \in Nat : m < n => m \in S) => n \in S
  PROVE  S = Nat
<1> SUFFICES ASSUME Nat \ S # {}
             PROVE  FALSE
  OBVIOUS
<1>1. PICK k \in Nat \ S : \A m \in Nat \ S : k <= m
  <2>1. Nat \ S \in SUBSET Nat
    OBVIOUS
  <2> QED BY <2>1, Smallest
<1>2. \A m \in Nat : m < k => m \in S
  BY <1>1
<1> QED BY <1>1, <1>2

\* `step` computes a function on D from its own values of smaller rank.
Computes(step, D, V, rank, top) ==
  /\ V # {} /\ top \in Nat /\ rank \in [D -> 0 .. top]
  /\ step \in [[D -> V] -> [D -> V]]
  /\ \A f, g \in [D -> V], x \in D :
       (\A y \in D : rank[y] < rank[x] => f[y] = g[y]) => step[f][x] = step[g][x]

LEMMA Recursion ==
  ASSUME NEW step, NEW D, NEW V, NEW rank, NEW top, Computes(step, D, V, rank, top)
  PROVE  \E f \in [D -> V] : f = step[f]
<1> USE DEF Computes
<1> DEFINE Solves(f, n) == f \in [D -> V] /\ \A x \in D : rank[x] < n => f[x] = step[f][x]
           S == {n \in Nat : \E f \in [D -> V] : Solves(f, n)}
<1>1. ASSUME NEW n \in Nat, \A m \in Nat : m < n => m \in S
      PROVE  n \in S
  <2>1. CASE n = 0
    <3>1. PICK v \in V : TRUE
      OBVIOUS
    <3>2. Solves([x \in D |-> v], 0)
      OBVIOUS
    <3> QED BY <2>1, <3>2
  <2>2. CASE n # 0
    <3>1. n - 1 \in Nat /\ n - 1 < n
      BY <2>2
    <3>2. PICK f \in [D -> V] : Solves(f, n - 1)
      BY <1>1, <3>1
    <3> DEFINE g == step[f]
    <3>3. g \in [D -> V]
      OBVIOUS
    <3>4. \A x \in D : rank[x] < n - 1 => g[x] = f[x]
      BY <3>2
    <3>5. ASSUME NEW x \in D, rank[x] < n
          PROVE  g[x] = step[g][x]
      <4>1. \A y \in D : rank[y] < rank[x] => g[y] = f[y]
        BY <3>1, <3>4, <3>5
      <4>2. step[g][x] = step[f][x]
        <5> HIDE DEF g
        <5> QED BY <3>3, <4>1
      <4> QED BY <4>2
    <3> HIDE DEF g
    <3> QED BY <3>3, <3>5
  <2> QED BY <2>1, <2>2
<1>2. top + 1 \in S
  <2>1. S \in SUBSET Nat
    OBVIOUS
  <2> HIDE DEF S
  <2>2. S = Nat
    BY <1>1, <2>1, Induction
  <2> QED BY <2>2
<1>3. PICK f \in [D -> V] : Solves(f, top + 1)
  BY <1>2
<1>4. \A x \in D : f[x] = step[f][x]
  BY <1>3
<1> QED BY <1>4

-----------------------------------------------------------------------------
(* Globs.  The tables the two readings of a glob are computed in.           *)

Cells(g, w) == (1 .. Len(g) + 1) \X (1 .. Len(w) + 1)

MatchCell(g, w, m, at) ==
  LET i == at[1]
      j == at[2]
  IN IF i > Len(g) THEN j > Len(w)
     ELSE IF g[i] = Star
     THEN m[<<i + 1, j>>] \/ (j <= Len(w) /\ InSegment(w[j]) /\ m[<<i, j + 1>>])
     ELSE j <= Len(w) /\ g[i] = w[j] /\ m[<<i + 1, j + 1>>]

LEMMA MatchCellIs ==
  ASSUME NEW g, NEW w, Len(g) \in Nat, Len(w) \in Nat, NEW m, NEW at \in Cells(g, w)
  PROVE  MatchCell(g, w, m, at) \in BOOLEAN
<1>1. CASE at[1] > Len(g)
  BY <1>1, SMT DEF MatchCell, Cells
<1>2. CASE ~(at[1] > Len(g)) /\ g[at[1]] = Star
  BY <1>2, SMT DEF MatchCell, Cells
<1>3. CASE ~(at[1] > Len(g)) /\ g[at[1]] # Star
  BY <1>3, SMT DEF MatchCell, Cells
<1> QED BY <1>1, <1>2, <1>3

\* A cell is computed from cells further on.
LEMMA MatchCellReads ==
  ASSUME NEW g, NEW w, Len(g) \in Nat, Len(w) \in Nat, NEW m, NEW h, NEW at \in Cells(g, w),
         \A y \in Cells(g, w) : at[1] + at[2] < y[1] + y[2] => m[y] = h[y]
  PROVE  MatchCell(g, w, m, at) = MatchCell(g, w, h, at)
<1>1. CASE at[1] > Len(g)
  BY <1>1, SMT DEF MatchCell, Cells
<1>2. CASE ~(at[1] > Len(g)) /\ g[at[1]] = Star
  <2>1. m[<<at[1] + 1, at[2]>>] = h[<<at[1] + 1, at[2]>>]
    BY <1>2 DEF Cells
  <2>2. at[2] <= Len(w) => m[<<at[1], at[2] + 1>>] = h[<<at[1], at[2] + 1>>]
    BY <1>2 DEF Cells
  <2> QED BY <1>2, <2>1, <2>2 DEF MatchCell
<1>3. CASE ~(at[1] > Len(g)) /\ g[at[1]] # Star
  <2>1. at[2] <= Len(w) => m[<<at[1] + 1, at[2] + 1>>] = h[<<at[1] + 1, at[2] + 1>>]
    BY <1>3 DEF Cells
  <2> QED BY <1>3, <2>1 DEF MatchCell
<1> QED BY <1>1, <1>2, <1>3

\* The table that pathAllowed's expression stands for.
LEMMA MatchTable ==
  ASSUME NEW g, NEW w, Len(g) \in Nat, Len(w) \in Nat
  PROVE  \E m : /\ m = [at \in Cells(g, w) |-> MatchCell(g, w, m, at)]
                /\ Matches(g, w) = m[<<1, 1>>]
<1> DEFINE D == Cells(g, w)
           top == Len(g) + Len(w)
           rank == [at \in D |-> top + 2 - (at[1] + at[2])]
           step == [f \in [D -> BOOLEAN] |-> [at \in D |-> MatchCell(g, w, f, at)]]
<1>1. rank \in [D -> 0 .. top]
  <2>1. \A at \in D : top + 2 - (at[1] + at[2]) \in 0 .. top
    BY DEF Cells
  <2> HIDE DEF D, top
  <2> QED BY <2>1
<1>2. step \in [[D -> BOOLEAN] -> [D -> BOOLEAN]]
  <2>1. \A f \in [D -> BOOLEAN], at \in D : MatchCell(g, w, f, at) \in BOOLEAN
    BY MatchCellIs
  <2> HIDE DEF D
  <2> QED BY <2>1
<1>3. ASSUME NEW f \in [D -> BOOLEAN], NEW h \in [D -> BOOLEAN], NEW x \in D,
             \A y \in D : rank[y] < rank[x] => f[y] = h[y]
      PROVE  step[f][x] = step[h][x]
  <2>1. \A y \in D : x[1] + x[2] < y[1] + y[2] => f[y] = h[y]
    BY <1>3 DEF Cells
  <2>2. MatchCell(g, w, f, x) = MatchCell(g, w, h, x)
    BY <2>1, MatchCellReads
  <2> QED BY <2>2
<1>4. Computes(step, D, BOOLEAN, rank, top)
  <2>1. TRUE \in BOOLEAN /\ top \in Nat
    OBVIOUS
  <2> HIDE DEF D, rank, step, top
  <2> QED BY <1>1, <1>2, <1>3, <2>1 DEF Computes
<1> DEFINE m == CHOOSE f : f = [at \in D |-> MatchCell(g, w, f, at)]
<1>5. \E f : f = [at \in D |-> MatchCell(g, w, f, at)]
  <2>1. \E f \in [D -> BOOLEAN] : f = step[f]
    <3> HIDE DEF D, rank, step, top
    <3> QED BY <1>4, Recursion
  <2> HIDE DEF D
  <2> QED BY <2>1
<1>6. Matches(g, w) = m[<<1, 1>>]
  BY DEF Matches, MatchCell, Cells
<1>7. m = [at \in D |-> MatchCell(g, w, m, at)]
  BY <1>5
<1> HIDE DEF m
<1> QED BY <1>6, <1>7

\* Here w is the child.
SubsumesCell(g, w, m, at) ==
  LET i == at[1]
      j == at[2]
  IN IF i > Len(g) THEN j > Len(w)
     ELSE IF j > Len(w) THEN allStars(g, i)
     ELSE IF g[i] = Star
     THEN m[<<i + 1, j>>] \/ (InSegment(w[j]) /\ m[<<i, j + 1>>])
     ELSE IF g[i] = Slash THEN w[j] = Slash /\ m[<<i + 1, j + 1>>]
     ELSE w[j] \notin {Star, Slash} /\ g[i] = w[j] /\ m[<<i + 1, j + 1>>]

LEMMA SubsumesCellIs ==
  ASSUME NEW g, NEW w, Len(g) \in Nat, Len(w) \in Nat, NEW m, NEW at \in Cells(g, w)
  PROVE  SubsumesCell(g, w, m, at) \in BOOLEAN
<1>1. CASE at[1] > Len(g)
  BY <1>1, SMT DEF SubsumesCell, Cells
<1>2. CASE ~(at[1] > Len(g)) /\ at[2] > Len(w)
  BY <1>2, SMT DEF SubsumesCell, Cells, allStars
<1>3. CASE ~(at[1] > Len(g)) /\ ~(at[2] > Len(w)) /\ g[at[1]] = Star
  BY <1>3, SMT DEF SubsumesCell, Cells
<1>4. CASE ~(at[1] > Len(g)) /\ ~(at[2] > Len(w)) /\ g[at[1]] # Star
  <2>1. CASE g[at[1]] = Slash
    BY <1>4, <2>1, SMT DEF SubsumesCell, Cells
  <2>2. CASE g[at[1]] # Slash
    BY <1>4, <2>2, SMT DEF SubsumesCell, Cells
  <2> QED BY <2>1, <2>2
<1> QED BY <1>1, <1>2, <1>3, <1>4

LEMMA SubsumesCellReads ==
  ASSUME NEW g, NEW w, Len(g) \in Nat, Len(w) \in Nat, NEW m, NEW h, NEW at \in Cells(g, w),
         \A y \in Cells(g, w) : at[1] + at[2] < y[1] + y[2] => m[y] = h[y]
  PROVE  SubsumesCell(g, w, m, at) = SubsumesCell(g, w, h, at)
<1>1. CASE at[1] > Len(g)
  BY <1>1, SMT DEF SubsumesCell, Cells
<1>2. CASE ~(at[1] > Len(g)) /\ at[2] > Len(w)
  BY <1>2 DEF SubsumesCell
<1>3. CASE ~(at[1] > Len(g)) /\ ~(at[2] > Len(w))
  <2>1. /\ m[<<at[1] + 1, at[2]>>] = h[<<at[1] + 1, at[2]>>]
        /\ m[<<at[1], at[2] + 1>>] = h[<<at[1], at[2] + 1>>]
        /\ m[<<at[1] + 1, at[2] + 1>>] = h[<<at[1] + 1, at[2] + 1>>]
    BY <1>3 DEF Cells
  <2>2. CASE g[at[1]] = Star
    BY <1>3, <2>1, <2>2 DEF SubsumesCell
  <2>3. CASE g[at[1]] # Star
    BY <1>3, <2>1, <2>3 DEF SubsumesCell
  <2> QED BY <2>2, <2>3
<1> QED BY <1>1, <1>2, <1>3

\* The table of globSubsumes' recursion.
LEMMA SubsumesTable ==
  ASSUME NEW g, NEW w, Len(g) \in Nat, Len(w) \in Nat
  PROVE  \E m : /\ m = [at \in Cells(g, w) |-> SubsumesCell(g, w, m, at)]
                /\ globSubsumes(g, w) = m[<<1, 1>>]
<1> DEFINE D == Cells(g, w)
           top == Len(g) + Len(w)
           rank == [at \in D |-> top + 2 - (at[1] + at[2])]
           step == [f \in [D -> BOOLEAN] |-> [at \in D |-> SubsumesCell(g, w, f, at)]]
<1>1. rank \in [D -> 0 .. top]
  <2>1. \A at \in D : top + 2 - (at[1] + at[2]) \in 0 .. top
    BY DEF Cells
  <2> HIDE DEF D, top
  <2> QED BY <2>1
<1>2. step \in [[D -> BOOLEAN] -> [D -> BOOLEAN]]
  <2>1. \A f \in [D -> BOOLEAN], at \in D : SubsumesCell(g, w, f, at) \in BOOLEAN
    BY SubsumesCellIs
  <2> HIDE DEF D
  <2> QED BY <2>1
<1>3. ASSUME NEW f \in [D -> BOOLEAN], NEW h \in [D -> BOOLEAN], NEW x \in D,
             \A y \in D : rank[y] < rank[x] => f[y] = h[y]
      PROVE  step[f][x] = step[h][x]
  <2>1. \A y \in D : x[1] + x[2] < y[1] + y[2] => f[y] = h[y]
    BY <1>3 DEF Cells
  <2>2. SubsumesCell(g, w, f, x) = SubsumesCell(g, w, h, x)
    BY <2>1, SubsumesCellReads
  <2> QED BY <2>2
<1>4. Computes(step, D, BOOLEAN, rank, top)
  <2>1. TRUE \in BOOLEAN /\ top \in Nat
    OBVIOUS
  <2> HIDE DEF D, rank, step, top
  <2> QED BY <1>1, <1>2, <1>3, <2>1 DEF Computes
<1> DEFINE m == CHOOSE f : f = [at \in D |-> SubsumesCell(g, w, f, at)]
<1>5. \E f : f = [at \in D |-> SubsumesCell(g, w, f, at)]
  <2>1. \E f \in [D -> BOOLEAN] : f = step[f]
    <3> HIDE DEF D, rank, step, top
    <3> QED BY <1>4, Recursion
  <2> HIDE DEF D
  <2> QED BY <2>1
<1>6. globSubsumes(g, w) = m[<<1, 1>>]
  BY DEF globSubsumes, SubsumesCell, Cells
<1>7. m = [at \in D |-> SubsumesCell(g, w, m, at)]
  BY <1>5
<1> HIDE DEF m
<1> QED BY <1>6, <1>7

\* globSubsumes is sound: what it accepts matches no path the parent does not,
\* for globs and paths of every length over any characters.
LEMMA SubsumedIsWithin ==
  ASSUME NEW par, NEW chi, NEW w, Len(par) \in Nat, Len(chi) \in Nat, Len(w) \in Nat,
         globSubsumes(par, chi), Matches(chi, w)
  PROVE  Matches(par, w)
<1>1. PICK go : /\ go = [at \in Cells(par, chi) |-> SubsumesCell(par, chi, go, at)]
                /\ globSubsumes(par, chi) = go[<<1, 1>>]
  BY SubsumesTable
<1>2. PICK mc : /\ mc = [at \in Cells(chi, w) |-> MatchCell(chi, w, mc, at)]
                /\ Matches(chi, w) = mc[<<1, 1>>]
  BY MatchTable
<1>3. PICK mp : /\ mp = [at \in Cells(par, w) |-> MatchCell(par, w, mp, at)]
                /\ Matches(par, w) = mp[<<1, 1>>]
  BY MatchTable
<1> DEFINE I == 1 .. Len(par) + 1
           J == 1 .. Len(chi) + 1
           K == 1 .. Len(w) + 1
           total == Len(par) + Len(chi) + Len(w) + 3
           S == {n \in Nat : \A i \in I, j \in J, k \in K :
                   total - (i + j + k) = n /\ go[<<i, j>>] /\ mc[<<j, k>>] => mp[<<i, k>>]}
<1>4. ASSUME NEW n \in Nat, \A m \in Nat : m < n => m \in S
      PROVE  n \in S
  <2> SUFFICES ASSUME NEW i \in I, NEW j \in J, NEW k \in K, total - (i + j + k) = n,
                      go[<<i, j>>], mc[<<j, k>>]
               PROVE  mp[<<i, k>>]
    OBVIOUS
  <2>11. ASSUME i <= Len(par), go[<<i + 1, j>>]
        PROVE  mp[<<i + 1, k>>]
    <3>1. i + 1 \in I /\ j \in J /\ k \in K
      BY <2>11
    <3>2. total - ((i + 1) + j + k) = n - 1 /\ n - 1 \in Nat /\ n - 1 < n
      BY <3>1
    <3>3. total - ((i + 1) + j + k) \in S
      BY <1>4, <3>2
    <3> QED BY <2>11, <3>1, <3>3
  <2>12. ASSUME j <= Len(chi), go[<<i, j + 1>>], mc[<<j + 1, k>>]
        PROVE  mp[<<i, k>>]
    <3>1. i \in I /\ j + 1 \in J /\ k \in K
      BY <2>12
    <3>2. total - (i + (j + 1) + k) = n - 1 /\ n - 1 \in Nat /\ n - 1 < n
      BY <3>1
    <3>3. total - (i + (j + 1) + k) \in S
      BY <1>4, <3>2
    <3> QED BY <2>12, <3>1, <3>3
  <2>13. ASSUME k <= Len(w), mc[<<j, k + 1>>]
        PROVE  mp[<<i, k + 1>>]
    <3>1. i \in I /\ j \in J /\ k + 1 \in K
      BY <2>13
    <3>2. total - (i + j + (k + 1)) = n - 1 /\ n - 1 \in Nat /\ n - 1 < n
      BY <3>1
    <3>3. total - (i + j + (k + 1)) \in S
      BY <1>4, <3>2
    <3> QED BY <2>13, <3>1, <3>3
  <2>14. ASSUME j <= Len(chi), k <= Len(w),
               go[<<i, j + 1>>], mc[<<j + 1, k + 1>>]
        PROVE  mp[<<i, k + 1>>]
    <3>1. i \in I /\ j + 1 \in J /\ k + 1 \in K
      BY <2>14
    <3>2. total - (i + (j + 1) + (k + 1)) = n - 2 /\ n - 2 \in Nat /\ n - 2 < n
      BY <3>1
    <3>3. total - (i + (j + 1) + (k + 1)) \in S
      BY <1>4, <3>2
    <3> QED BY <2>14, <3>1, <3>3
  <2>15. ASSUME i <= Len(par), j <= Len(chi), k <= Len(w),
               go[<<i + 1, j + 1>>], mc[<<j + 1, k + 1>>]
        PROVE  mp[<<i + 1, k + 1>>]
    <3>1. i + 1 \in I /\ j + 1 \in J /\ k + 1 \in K
      BY <2>15
    <3>2. total - ((i + 1) + (j + 1) + (k + 1)) = n - 3 /\ n - 3 \in Nat /\ n - 3 < n
      BY <3>1
    <3>3. total - ((i + 1) + (j + 1) + (k + 1)) \in S
      BY <1>4, <3>2
    <3> QED BY <2>15, <3>1, <3>3
  <2>2. SubsumesCell(par, chi, go, <<i, j>>)
    BY <1>1 DEF Cells
  <2>3. MatchCell(chi, w, mc, <<j, k>>)
    BY <1>2 DEF Cells
  <2>4. MatchCell(par, w, mp, <<i, k>>) => mp[<<i, k>>]
    <3>1. mp[<<i, k>>] = MatchCell(par, w, mp, <<i, k>>)
      BY <1>3 DEF Cells
    <3> QED BY <3>1
  <2> HIDE DEF S, total
  <2>5. CASE i > Len(par)
    BY <2>2, <2>3, <2>4, <2>5 DEF SubsumesCell, MatchCell
  <2>6. CASE i <= Len(par) /\ j > Len(chi)
    <3>1. k > Len(w) /\ par[i] = Star /\ allStars(par, i)
      BY <2>2, <2>3, <2>6 DEF SubsumesCell, MatchCell, allStars
    <3>2. SubsumesCell(par, chi, go, <<i + 1, j>>)
      BY <2>6, <3>1 DEF SubsumesCell, allStars
    <3>3. go[<<i + 1, j>>]
      BY <1>1, <2>6, <3>2 DEF Cells
    <3>4. mp[<<i + 1, k>>]
      BY <2>11, <2>6, <3>3
    <3> QED BY <2>4, <2>6, <3>1, <3>4 DEF MatchCell
  <2>7. CASE i <= Len(par) /\ j <= Len(chi) /\ par[i] = Star
    <3>1. CASE go[<<i + 1, j>>]
      <4>1. mp[<<i + 1, k>>]
        BY <2>11, <2>7, <3>1
      <4> QED BY <2>4, <2>7, <4>1 DEF MatchCell
    <3>2. CASE InSegment(chi[j]) /\ go[<<i, j + 1>>]
      <4>1. CASE chi[j] = Star /\ mc[<<j + 1, k>>]
        BY <2>12, <2>7, <3>2, <4>1
      <4>2. CASE k <= Len(w) /\ InSegment(w[k]) /\ mp[<<i, k + 1>>]
        BY <2>4, <2>7, <4>2 DEF MatchCell
      <4>3. CASE chi[j] = Star /\ k <= Len(w) /\ InSegment(w[k]) /\ mc[<<j, k + 1>>]
        <5>1. mp[<<i, k + 1>>]
          BY <2>13, <4>3
        <5> QED BY <4>2, <4>3, <5>1
      <4>4. CASE chi[j] # Star
        <5>1. k <= Len(w) /\ chi[j] = w[k] /\ mc[<<j + 1, k + 1>>]
          BY <2>3, <2>7, <4>4 DEF MatchCell
        <5>2. mp[<<i, k + 1>>]
          BY <2>14, <2>7, <3>2, <5>1
        <5> QED BY <3>2, <4>2, <5>1, <5>2
      <4> QED BY <2>3, <2>7, <4>1, <4>3, <4>4 DEF MatchCell
    <3> QED BY <2>2, <2>7, <3>1, <3>2 DEF SubsumesCell
  <2>8. CASE i <= Len(par) /\ j <= Len(chi) /\ par[i] # Star
    <3>1. chi[j] # Star /\ chi[j] = par[i] /\ go[<<i + 1, j + 1>>]
      BY <2>2, <2>8 DEF SubsumesCell
    <3>2. k <= Len(w) /\ w[k] = par[i] /\ mc[<<j + 1, k + 1>>]
      BY <2>3, <2>8, <3>1 DEF MatchCell
    <3>3. mp[<<i + 1, k + 1>>]
      BY <2>15, <2>8, <3>1, <3>2
    <3> QED BY <2>4, <2>8, <3>2, <3>3 DEF MatchCell
  <2> QED BY <2>5, <2>6, <2>7, <2>8
<1>5. S = Nat
  <2>1. S \in SUBSET Nat
    OBVIOUS
  <2> HIDE DEF S
  <2> QED BY <1>4, <2>1, Induction
<1>6. total - (1 + 1 + 1) \in S /\ 1 \in I /\ 1 \in J /\ 1 \in K
  <2>1. total - (1 + 1 + 1) \in Nat
    OBVIOUS
  <2> HIDE DEF S, total
  <2> QED BY <1>5, <2>1
<1>7. go[<<1, 1>>] /\ mc[<<1, 1>>] => mp[<<1, 1>>]
  BY <1>6
<1> QED BY <1>1, <1>2, <1>3, <1>7

\* A path through the child alone: every star of the child read as one
\* character z.
Opaque(chi, z) == [j \in 1 .. Len(chi) |-> IF chi[j] = Star THEN z ELSE chi[j]]

LEMMA OpaqueMatches ==
  ASSUME NEW chi, NEW z, Len(chi) \in Nat, InSegment(z)
  PROVE  Matches(chi, Opaque(chi, z))
<1> DEFINE w == Opaque(chi, z)
<1>1. Len(w) = Len(chi) /\ \A j \in 1 .. Len(chi) : w[j] = IF chi[j] = Star THEN z ELSE chi[j]
  BY DEF Opaque
<1> HIDE DEF w
<1>2. PICK m : /\ m = [at \in Cells(chi, w) |-> MatchCell(chi, w, m, at)]
               /\ Matches(chi, w) = m[<<1, 1>>]
  BY <1>1, MatchTable
<1>3. \A at \in Cells(chi, w) : MatchCell(chi, w, m, at) => m[at]
  BY <1>2
<1> DEFINE total == Len(chi) + 1
           S == {n \in Nat : \A j \in 1 .. Len(chi) + 1 : total - j = n => m[<<j, j>>]}
<1>4. ASSUME NEW n \in Nat, \A k \in Nat : k < n => k \in S
      PROVE  n \in S
  <2> SUFFICES ASSUME NEW j \in 1 .. Len(chi) + 1, total - j = n
               PROVE  m[<<j, j>>]
    OBVIOUS
  <2>1. ASSUME j <= Len(chi)
        PROVE  m[<<j + 1, j + 1>>]
    <3>1. j + 1 \in 1 .. Len(chi) + 1 /\ total - (j + 1) = n - 1 /\ n - 1 \in Nat /\ n - 1 < n
      BY <2>1
    <3>2. n - 1 \in S
      BY <1>4, <3>1
    <3> QED BY <3>1, <3>2
  <2> HIDE DEF S, total
  <2>2. CASE j > Len(chi)
    <3>1. MatchCell(chi, w, m, <<j, j>>)
      BY <1>1, <2>2 DEF MatchCell
    <3> QED BY <1>1, <1>3, <3>1 DEF Cells
  <2>3. CASE j <= Len(chi) /\ chi[j] # Star
    <3>1. MatchCell(chi, w, m, <<j, j>>)
      BY <1>1, <2>1, <2>3 DEF MatchCell
    <3> QED BY <1>1, <1>3, <3>1 DEF Cells
  <2>4. CASE j <= Len(chi) /\ chi[j] = Star
    \* The star takes z, and then nothing more.
    <3>1. MatchCell(chi, w, m, <<j, j + 1>>)
      BY <2>1, <2>4 DEF MatchCell
    <3>2. m[<<j, j + 1>>]
      BY <1>1, <1>3, <2>4, <3>1 DEF Cells
    <3>3. w[j] = z
      BY <1>1, <2>4
    <3>4. MatchCell(chi, w, m, <<j, j>>)
      BY <1>1, <2>4, <3>2, <3>3 DEF MatchCell
    <3> QED BY <1>1, <1>3, <3>4 DEF Cells
  <2> QED BY <2>2, <2>3, <2>4
<1>5. S = Nat
  <2>1. S \in SUBSET Nat
    OBVIOUS
  <2> HIDE DEF S
  <2> QED BY <1>4, <2>1, Induction
<1>6. total - 1 \in S /\ 1 \in 1 .. Len(chi) + 1
  <2>1. total - 1 \in Nat
    OBVIOUS
  <2> HIDE DEF S, total
  <2> QED BY <1>5, <2>1
<1>7. m[<<1, 1>>]
  BY <1>6
<1> QED BY <1>2, <1>7 DEF w

\* globSubsumes is complete: when the parent matches that path of the child's,
\* written with a character the parent does not use, it accepts the child.
LEMMA OpaqueDecides ==
  ASSUME NEW par, NEW chi, NEW z, Len(par) \in Nat, Len(chi) \in Nat,
         Star \notin {Slash, Query}, \A i \in 1 .. Len(par) : par[i] # z,
         Matches(par, Opaque(chi, z))
  PROVE  globSubsumes(par, chi)
<1> DEFINE w == Opaque(chi, z)
<1>1. Len(w) = Len(chi) /\ \A j \in 1 .. Len(chi) : w[j] = IF chi[j] = Star THEN z ELSE chi[j]
  BY DEF Opaque
<1> HIDE DEF w
<1>2. PICK mp : /\ mp = [at \in Cells(par, w) |-> MatchCell(par, w, mp, at)]
                /\ Matches(par, w) = mp[<<1, 1>>]
  BY <1>1, MatchTable
<1>3. PICK go : /\ go = [at \in Cells(par, chi) |-> SubsumesCell(par, chi, go, at)]
                /\ globSubsumes(par, chi) = go[<<1, 1>>]
  BY SubsumesTable
<1> DEFINE I == 1 .. Len(par) + 1
           J == 1 .. Len(chi) + 1
           total == Len(par) + Len(chi) + 2
           S == {n \in Nat : \A i \in I, j \in J :
                   total - (i + j) = n /\ mp[<<i, j>>] => go[<<i, j>>]}
<1>4. ASSUME NEW n \in Nat, \A m \in Nat : m < n => m \in S
      PROVE  n \in S
  <2> SUFFICES ASSUME NEW i \in I, NEW j \in J, total - (i + j) = n, mp[<<i, j>>]
               PROVE  go[<<i, j>>]
    OBVIOUS
  <2>1. ASSUME i <= Len(par), mp[<<i + 1, j>>]
        PROVE  go[<<i + 1, j>>]
    <3>1. i + 1 \in I /\ total - ((i + 1) + j) = n - 1 /\ n - 1 \in Nat /\ n - 1 < n
      BY <2>1
    <3>2. total - ((i + 1) + j) \in S
      BY <1>4, <3>1
    <3> QED BY <2>1, <3>1, <3>2
  <2>2. ASSUME j <= Len(chi), mp[<<i, j + 1>>]
        PROVE  go[<<i, j + 1>>]
    <3>1. j + 1 \in J /\ total - (i + (j + 1)) = n - 1 /\ n - 1 \in Nat /\ n - 1 < n
      BY <2>2
    <3>2. total - (i + (j + 1)) \in S
      BY <1>4, <3>1
    <3> QED BY <2>2, <3>1, <3>2
  <2>3. ASSUME i <= Len(par), j <= Len(chi), mp[<<i + 1, j + 1>>]
        PROVE  go[<<i + 1, j + 1>>]
    <3>1. /\ i + 1 \in I /\ j + 1 \in J
          /\ total - ((i + 1) + (j + 1)) = n - 2 /\ n - 2 \in Nat /\ n - 2 < n
      BY <2>3
    <3>2. total - ((i + 1) + (j + 1)) \in S
      BY <1>4, <3>1
    <3> QED BY <2>3, <3>1, <3>2
  <2>4. MatchCell(par, w, mp, <<i, j>>)
    BY <1>1, <1>2 DEF Cells
  <2>5. SubsumesCell(par, chi, go, <<i, j>>) => go[<<i, j>>]
    <3>1. go[<<i, j>>] = SubsumesCell(par, chi, go, <<i, j>>)
      BY <1>3 DEF Cells
    <3> QED BY <3>1
  <2> HIDE DEF S, total
  <2>6. CASE i > Len(par)
    BY <1>1, <2>4, <2>5, <2>6 DEF MatchCell, SubsumesCell
  <2>7. CASE i <= Len(par) /\ j > Len(chi)
    <3>1. par[i] = Star /\ mp[<<i + 1, j>>]
      BY <1>1, <2>4, <2>7 DEF MatchCell
    <3>2. go[<<i + 1, j>>]
      BY <2>1, <2>7, <3>1
    <3>3. SubsumesCell(par, chi, go, <<i + 1, j>>)
      BY <1>3, <2>7, <3>2 DEF Cells
    <3>4. allStars(par, i)
      BY <2>7, <3>1, <3>3 DEF SubsumesCell, allStars
    <3> QED BY <2>5, <2>7, <3>4 DEF SubsumesCell
  <2>8. CASE i <= Len(par) /\ j <= Len(chi) /\ par[i] = Star
    <3>1. CASE mp[<<i + 1, j>>]
      <4>1. go[<<i + 1, j>>]
        BY <2>1, <2>8, <3>1
      <4> QED BY <2>5, <2>8, <4>1 DEF SubsumesCell
    <3>2. CASE InSegment(w[j]) /\ mp[<<i, j + 1>>]
      <4>1. go[<<i, j + 1>>]
        BY <2>2, <2>8, <3>2
      <4>2. InSegment(chi[j])
        BY <1>1, <2>8, <3>2 DEF InSegment
      <4> QED BY <2>5, <2>8, <4>1, <4>2 DEF SubsumesCell
    <3> QED BY <2>4, <2>8, <3>1, <3>2 DEF MatchCell
  <2>9. CASE i <= Len(par) /\ j <= Len(chi) /\ par[i] # Star
    <3>1. par[i] = w[j] /\ mp[<<i + 1, j + 1>>]
      BY <2>4, <2>9 DEF MatchCell
    <3>2. chi[j] = par[i]
      BY <1>1, <2>9, <3>1
    <3>3. go[<<i + 1, j + 1>>]
      BY <2>3, <2>9, <3>1
    <3> QED BY <2>5, <2>9, <3>2, <3>3 DEF SubsumesCell
  <2> QED BY <2>6, <2>7, <2>8, <2>9
<1>5. S = Nat
  <2>1. S \in SUBSET Nat
    OBVIOUS
  <2> HIDE DEF S
  <2> QED BY <1>4, <2>1, Induction
<1>6. total - (1 + 1) \in S /\ 1 \in I /\ 1 \in J
  <2>1. total - (1 + 1) \in Nat
    OBVIOUS
  <2> HIDE DEF S, total
  <2> QED BY <1>5, <2>1
<1>7. mp[<<1, 1>>] => go[<<1, 1>>]
  BY <1>6
<1> QED BY <1>2, <1>3, <1>7 DEF w

-----------------------------------------------------------------------------
(* The state machine that grows the two globs.                              *)

GlobTypes == \A g \in {p, c} : g \in Seq(GlobTokens) /\ Len(g) <= MaxGlob

LEMMA GlobTypesHold == GlobSpec => []GlobTypes
<1> USE PathGlobAssumption
<1>1. GlobInit => GlobTypes
  <2>1. <<>> \in Seq(GlobTokens) /\ Len(<<>>) <= MaxGlob
    OBVIOUS
  <2> QED BY <2>1 DEF GlobInit, GlobTypes
<1>2. GlobTypes /\ [GlobNext]_<<p, c>> => GlobTypes'
  <2> SUFFICES ASSUME GlobTypes, [GlobNext]_<<p, c>>
               PROVE  GlobTypes'
    OBVIOUS
  <2>1. CASE ExtendParent
    BY <2>1 DEF ExtendParent, GlobTypes
  <2>2. CASE ExtendChild
    BY <2>2 DEF ExtendChild, GlobTypes
  <2>3. CASE UNCHANGED <<p, c>>
    BY <2>3 DEF GlobTypes
  <2> QED BY <2>1, <2>2, <2>3 DEF GlobNext
<1> QED BY <1>1, <1>2, PTL DEF GlobSpec

\* The paths are the sequences of path characters within the bound.
LEMMA PathsAre ==
  \A w : w \in Paths <=> w \in Seq(Letters \cup {Slash, Query}) /\ Len(w) <= MaxPath
<1> DEFINE Chars == Letters \cup {Slash, Query}
<1>1. ASSUME NEW w \in Paths
      PROVE  w \in Seq(Chars) /\ Len(w) <= MaxPath
  <2>1. PICK m \in 0 .. MaxPath : w \in [1 .. m -> Chars]
    BY DEF Paths, SeqOf
  <2> HIDE DEF Chars
  <2> QED BY <2>1, PathGlobAssumption
<1>2. ASSUME NEW w \in Seq(Chars), Len(w) <= MaxPath
      PROVE  w \in Paths
  <2>1. Len(w) \in 0 .. MaxPath /\ w \in [1 .. Len(w) -> Chars]
    <3> HIDE DEF Chars
    <3> QED BY <1>2, PathGlobAssumption
  <2> QED BY <2>1 DEF Paths, SeqOf
<1> QED BY <1>1, <1>2

\* The delegation check of leases is exactly the broker's matching: for globs of
\* any length over any characters, a child is accepted when and only when the
\* broker lets no path through it that the parent's glob would stop.
THEOREM SubsumptionIsInclusion == GlobSpec => []SubsumesIsInclusion
<1>1. GlobTypes => SubsumesIsInclusion
  <2> SUFFICES ASSUME GlobTypes
               PROVE  SubsumesIsInclusion
    OBVIOUS
  <2>1. /\ Len(p) \in Nat /\ Len(c) \in Nat /\ Len(c) <= MaxGlob
        /\ p \in Seq(GlobTokens) /\ c \in Seq(GlobTokens)
    BY DEF GlobTypes
  <2>2. \A w, g : pathAllowed(w, {g}) <=> Matches(g, w)
    BY DEF pathAllowed
  <2>3. ASSUME globSubsumes(p, c), NEW w \in Paths, Matches(c, w)
        PROVE  Matches(p, w)
    <3>1. Len(w) \in Nat
      BY PathsAre
    <3> QED BY <2>1, <2>3, <3>1, SubsumedIsWithin
  <2>4. ASSUME \A w \in Paths : Matches(c, w) => Matches(p, w)
        PROVE  globSubsumes(p, c)
    <3>1. PICK z \in Letters : z \notin GlobLetters
      BY PathGlobAssumption
    <3>2. InSegment(z) /\ z # Star /\ z \notin GlobTokens
      BY <3>1, PathGlobAssumption DEF InSegment, GlobTokens
    <3>3. Opaque(c, z) \in Paths
      <4>1. \A j \in 1 .. Len(c) : Opaque(c, z)[j] \in Letters \cup {Slash, Query}
        BY <2>1, <3>1, PathGlobAssumption DEF Opaque, GlobTokens
      <4>2. Opaque(c, z) \in [1 .. Len(c) -> Letters \cup {Slash, Query}]
        BY <4>1 DEF Opaque
      <4>3. Opaque(c, z) \in Seq(Letters \cup {Slash, Query}) /\ Len(Opaque(c, z)) = Len(c)
        BY <2>1, <4>2
      <4> QED BY <2>1, <4>3, PathsAre, PathGlobAssumption
    <3>4. Matches(p, Opaque(c, z))
      BY <2>1, <2>4, <3>2, <3>3, OpaqueMatches
    <3>5. \A i \in 1 .. Len(p) : p[i] # z
      BY <2>1, <3>2
    <3> QED BY <2>1, <3>4, <3>5, OpaqueDecides, PathGlobAssumption
  <2> QED BY <2>2, <2>3, <2>4 DEF SubsumesIsInclusion
<1> QED BY <1>1, GlobTypesHold, PTL

-----------------------------------------------------------------------------
(* Redaction.  The operators of RedactStream with the secret as a parameter, *)
(* so that lemmas about them hold of any secret.                            *)

HitsOf(s, t) == {i \in 1 .. Len(t) : IsPrefix(s, SubSeq(t, i, Len(t)))}

RedactCell(s, t, f, i) ==
  IF i > Len(t) THEN <<>>
  ELSE IF i \in HitsOf(s, t) THEN <<Marker>> \o f[i + Len(s)]
  ELSE <<t[i]>> \o f[i + 1]

RedactedOf(s, t) ==
  LET from[i \in 1 .. Len(t) + 1] ==
        IF i > Len(t) THEN <<>>
        ELSE IF i \in HitsOf(s, t) THEN <<Marker>> \o from[i + Len(s)]
        ELSE <<t[i]>> \o from[i + 1]
  IN from[1]

Text == Seq(Byte)
Relayed == Seq(Byte \cup {Marker})
SomeSecret == Text \ {<<>>}

LEMMA CutIs ==
  ASSUME NEW t \in Text, NEW m \in 1 .. Len(t) + 1, NEW n \in m - 1 .. Len(t)
  PROVE  /\ SubSeq(t, m, n) \in Text /\ Len(SubSeq(t, m, n)) = n - m + 1
         /\ \A i \in 1 .. n - m + 1 : SubSeq(t, m, n)[i] = t[m + i - 1]
<1>1. m \in Int /\ n \in Int /\ \A i \in m .. n : t[i] \in Byte
  BY DEF Text
<1>2. /\ SubSeq(t, m, n) \in Seq(Byte)
      /\ Len(SubSeq(t, m, n)) = IF m <= n THEN n - m + 1 ELSE 0
      /\ \A i \in 1 .. n - m + 1 : SubSeq(t, m, n)[i] = t[m + i - 1]
  BY <1>1, SubSeqProperties
<1>3. ~(m <= n) => n - m + 1 = 0
  BY DEF Text
<1> QED BY <1>1, <1>2, <1>3 DEF Text

\* The secret is at i, letter by letter.
LEMMA HitIs ==
  ASSUME NEW s \in SomeSecret, NEW t \in Text, NEW i \in 1 .. Len(t)
  PROVE  i \in HitsOf(s, t) <=>
           /\ i + Len(s) - 1 <= Len(t)
           /\ \A j \in 1 .. Len(s) : t[i + j - 1] = s[j]
<1> DEFINE u == SubSeq(t, i, Len(t))
<1>1. Len(s) \in Nat \ {0} /\ Len(t) \in Nat
  BY DEF SomeSecret, Text
<1>2. u \in Text /\ Len(u) = Len(t) - i + 1 /\ \A j \in 1 .. Len(t) - i + 1 : u[j] = t[i + j - 1]
  <2>1. i \in 1 .. Len(t) + 1 /\ Len(t) \in i - 1 .. Len(t)
    BY <1>1
  <2> QED BY <2>1, CutIs
<1>3. SubSeq(s, 1, Len(s)) = s
  BY SubSeqFull DEF SomeSecret, Text
<1>4. i \in HitsOf(s, t) <=> Len(s) <= Len(u) /\ s = SubSeq(u, 1, Len(s))
  BY <1>3 DEF HitsOf, IsPrefix
<1> HIDE DEF u
<1>5. CASE Len(s) <= Len(u)
  <2> DEFINE v == SubSeq(u, 1, Len(s))
  <2>1. v \in Text /\ Len(v) = Len(s) /\ \A j \in 1 .. Len(s) : v[j] = u[j]
    <3>1. 1 \in 1 .. Len(u) + 1 /\ Len(s) \in 1 - 1 .. Len(u)
      BY <1>1, <1>2, <1>5
    <3>2. v \in Text /\ Len(v) = Len(s) - 1 + 1 /\ \A j \in 1 .. Len(s) - 1 + 1 : v[j] = u[1 + j - 1]
      BY <1>2, <3>1, CutIs
    <3> HIDE DEF v
    <3> QED BY <1>1, <3>2
  <2> HIDE DEF v
  <2>2. s = v <=> \A j \in 1 .. Len(s) : v[j] = s[j]
    BY <2>1, SeqEqual DEF Text, SomeSecret
  <2>3. \A j \in 1 .. Len(s) : v[j] = t[i + j - 1]
    BY <1>1, <1>2, <1>5, <2>1
  <2> QED BY <1>1, <1>2, <1>4, <1>5, <2>2, <2>3 DEF v
<1>6. CASE ~(Len(s) <= Len(u))
  BY <1>1, <1>2, <1>4, <1>6
<1> QED BY <1>5, <1>6

\* A hit ends where the text still has a position, or at its end.
LEMMA HitEnds ==
  ASSUME NEW s \in SomeSecret, NEW t \in Text, NEW i \in HitsOf(s, t)
  PROVE  i \in 1 .. Len(t) /\ i + Len(s) \in 1 .. Len(t) + 1 /\ Len(s) \in Nat \ {0}
<1>1. i \in 1 .. Len(t) /\ Len(t) \in Nat /\ Len(s) \in Nat \ {0}
  BY DEF HitsOf, SomeSecret, Text
<1>2. i + Len(s) - 1 <= Len(t)
  BY <1>1, HitIs
<1> QED BY <1>1, <1>2

LEMMA RedactTable ==
  ASSUME NEW s \in SomeSecret, NEW t \in Text
  PROVE  \E f \in [1 .. Len(t) + 1 -> Relayed] :
           /\ \A i \in 1 .. Len(t) + 1 : f[i] = RedactCell(s, t, f, i)
           /\ RedactedOf(s, t) = f[1]
<1> DEFINE D == 1 .. Len(t) + 1
           rank == [i \in D |-> Len(t) + 1 - i]
           step == [f \in [D -> Relayed] |-> [i \in D |-> RedactCell(s, t, f, i)]]
<1>0. Len(t) \in Nat
  BY DEF Text
<1>1. rank \in [D -> 0 .. Len(t)]
  BY <1>0
<1>2. ASSUME NEW f, NEW i \in D, \A j \in D : i < j => f[j] \in Relayed
      PROVE  RedactCell(s, t, f, i) \in Relayed
  <2>1. CASE i > Len(t)
    BY <2>1 DEF RedactCell, Relayed
  <2>2. CASE i <= Len(t) /\ i \in HitsOf(s, t)
    <3>1. f[i + Len(s)] \in Relayed
      BY <1>0, <1>2, <2>2, HitEnds
    <3>2. <<Marker>> \in Relayed
      BY DEF Relayed
    <3>3. <<Marker>> \o f[i + Len(s)] \in Relayed
      BY <3>1, <3>2, ConcatProperties DEF Relayed
    <3> QED BY <1>0, <2>2, <3>3 DEF RedactCell
  <2>3. CASE i <= Len(t) /\ i \notin HitsOf(s, t)
    <3>1. f[i + 1] \in Relayed
      BY <1>0, <1>2, <2>3
    <3>2. <<t[i]>> \in Relayed
      BY <1>0, <2>3 DEF Relayed, Text
    <3>3. <<t[i]>> \o f[i + 1] \in Relayed
      BY <3>1, <3>2, ConcatProperties DEF Relayed
    <3> QED BY <1>0, <2>3, <3>3 DEF RedactCell
  <2> QED BY <1>0, <2>1, <2>2, <2>3
<1>3. step \in [[D -> Relayed] -> [D -> Relayed]]
  <2>1. \A f \in [D -> Relayed], i \in D : RedactCell(s, t, f, i) \in Relayed
    BY <1>2
  <2> HIDE DEF D
  <2> QED BY <2>1
<1>4. ASSUME NEW f \in [D -> Relayed], NEW g \in [D -> Relayed], NEW i \in D,
             \A j \in D : rank[j] < rank[i] => f[j] = g[j]
      PROVE  step[f][i] = step[g][i]
  <2>1. \A j \in D : i < j => f[j] = g[j]
    BY <1>0, <1>4
  <2>2. i \in HitsOf(s, t) => f[i + Len(s)] = g[i + Len(s)]
    BY <1>0, <2>1, HitEnds
  <2>3. i <= Len(t) => f[i + 1] = g[i + 1]
    BY <1>0, <2>1
  <2>4. RedactCell(s, t, f, i) = RedactCell(s, t, g, i)
    BY <1>0, <2>2, <2>3 DEF RedactCell
  <2> QED BY <2>4
<1>5. Computes(step, D, Relayed, rank, Len(t))
  <2>1. <<>> \in Relayed
    BY DEF Relayed
  <2> HIDE DEF D, rank, step
  <2> QED BY <1>0, <1>1, <1>3, <1>4, <2>1 DEF Computes
<1> DEFINE from == CHOOSE f : f = [i \in D |-> RedactCell(s, t, f, i)]
<1>6. \E f : f = [i \in D |-> RedactCell(s, t, f, i)]
  <2>1. \E f \in [D -> Relayed] : f = step[f]
    <3> HIDE DEF D, rank, step
    <3> QED BY <1>5, Recursion
  <2> HIDE DEF D
  <2> QED BY <2>1
<1>7. RedactedOf(s, t) = from[1]
  BY DEF RedactedOf, RedactCell
<1>8. from = [i \in D |-> RedactCell(s, t, from, i)]
  BY <1>6
<1> HIDE DEF from
<1> DEFINE S == {n \in Nat : \A i \in D : Len(t) + 1 - i = n => from[i] \in Relayed}
<1>9. S = Nat
  <2>1. S \in SUBSET Nat
    OBVIOUS
  <2>2. ASSUME NEW n \in Nat, \A m \in Nat : m < n => m \in S
        PROVE  n \in S
    <3> SUFFICES ASSUME NEW i \in D, Len(t) + 1 - i = n
                 PROVE  from[i] \in Relayed
      OBVIOUS
    <3>1. \A j \in D : i < j => from[j] \in Relayed
      <4> SUFFICES ASSUME NEW j \in D, i < j
                   PROVE  from[j] \in Relayed
        OBVIOUS
      <4>1. Len(t) + 1 - j \in Nat /\ Len(t) + 1 - j < n
        BY <1>0
      <4> QED BY <2>2, <4>1
    <3> HIDE DEF S
    <3> QED BY <1>2, <1>8, <3>1
  <2> HIDE DEF S
  <2> QED BY <2>1, <2>2, Induction
<1>10. \A i \in D : from[i] \in Relayed
  <2>1. \A i \in D : Len(t) + 1 - i \in S
    <3> HIDE DEF S
    <3> QED BY <1>0, <1>9
  <2> QED BY <2>1
<1>11. from \in [D -> Relayed]
  <2> HIDE DEF D, S
  <2> QED BY <1>8, <1>10
<1> QED BY <1>7, <1>8, <1>11

\* What is found from a position on does not depend on what was before it.
LEMMA HitsShift ==
  ASSUME NEW s \in SomeSecret, NEW t \in Text, NEW d \in 0 .. Len(t)
  PROVE  LET u == SubSeq(t, d + 1, Len(t)) IN
         /\ u \in Text /\ Len(u) = Len(t) - d
         /\ \A i \in 1 .. Len(u) :
              /\ u[i] = t[i + d]
              /\ i \in HitsOf(s, u) <=> i + d \in HitsOf(s, t)
<1> DEFINE u == SubSeq(t, d + 1, Len(t))
<1>0. Len(t) \in Nat /\ d \in Nat /\ Len(s) \in Nat \ {0}
  BY DEF Text, SomeSecret
<1>1. /\ u \in Text /\ Len(u) = Len(t) - (d + 1) + 1
      /\ \A i \in 1 .. Len(t) - (d + 1) + 1 : u[i] = t[(d + 1) + i - 1]
  <2>1. d + 1 \in 1 .. Len(t) + 1 /\ Len(t) \in (d + 1) - 1 .. Len(t)
    BY <1>0
  <2> HIDE DEF u
  <2> QED BY <2>1, CutIs DEF u
<1> HIDE DEF u
<1>2. Len(u) = Len(t) - d /\ \A i \in 1 .. Len(u) : u[i] = t[i + d]
  BY <1>0, <1>1
<1>3. ASSUME NEW i \in 1 .. Len(u)
      PROVE  i \in HitsOf(s, u) <=> i + d \in HitsOf(s, t)
  <2>1. i \in HitsOf(s, u) <=> /\ i + Len(s) - 1 <= Len(u)
                               /\ \A j \in 1 .. Len(s) : u[i + j - 1] = s[j]
    BY <1>1, HitIs
  <2>2. i + d \in HitsOf(s, t) <=> /\ i + d + Len(s) - 1 <= Len(t)
                                   /\ \A j \in 1 .. Len(s) : t[i + d + j - 1] = s[j]
    <3>1. i + d \in 1 .. Len(t)
      BY <1>0, <1>2
    <3> QED BY <3>1, HitIs
  <2>3. i + Len(s) - 1 <= Len(u) <=> i + d + Len(s) - 1 <= Len(t)
    BY <1>0, <1>2
  <2>4. ASSUME i + Len(s) - 1 <= Len(u), NEW j \in 1 .. Len(s)
        PROVE  u[i + j - 1] = t[i + d + j - 1]
    <3>1. i + j - 1 \in 1 .. Len(u) /\ (i + j - 1) + d = i + d + j - 1
      BY <1>0, <1>2, <2>4
    <3> QED BY <1>2, <3>1
  <2> QED BY <2>1, <2>2, <2>3, <2>4
<1> QED BY <1>1, <1>2, <1>3 DEF u

\* The table of a suffix is the rest of the table.
LEMMA RestOfTable ==
  ASSUME NEW s \in SomeSecret, NEW t \in Text, NEW d \in 0 .. Len(t), NEW f,
         \A i \in 1 .. Len(t) + 1 : f[i] = RedactCell(s, t, f, i)
  PROVE  RedactedOf(s, SubSeq(t, d + 1, Len(t))) = f[d + 1]
<1> DEFINE u == SubSeq(t, d + 1, Len(t))
<1>0. Len(t) \in Nat /\ d \in Nat /\ Len(s) \in Nat \ {0}
  BY DEF Text, SomeSecret
<1>1. /\ u \in Text /\ Len(u) = Len(t) - d
      /\ \A i \in 1 .. Len(u) : u[i] = t[i + d] /\ (i \in HitsOf(s, u) <=> i + d \in HitsOf(s, t))
  BY HitsShift
<1> HIDE DEF u
<1>2. PICK g : /\ \A i \in 1 .. Len(u) + 1 : g[i] = RedactCell(s, u, g, i)
               /\ RedactedOf(s, u) = g[1]
  BY <1>1, RedactTable
<1> DEFINE S == {n \in Nat : \A i \in 1 .. Len(u) + 1 : Len(u) + 1 - i = n => g[i] = f[i + d]}
<1>3. ASSUME NEW n \in Nat, \A m \in Nat : m < n => m \in S
      PROVE  n \in S
  <2> SUFFICES ASSUME NEW i \in 1 .. Len(u) + 1, Len(u) + 1 - i = n
               PROVE  g[i] = f[i + d]
    OBVIOUS
  <2>1. \A j \in 1 .. Len(u) + 1 : i < j => g[j] = f[j + d]
    <3> SUFFICES ASSUME NEW j \in 1 .. Len(u) + 1, i < j
                 PROVE  g[j] = f[j + d]
      OBVIOUS
    <3>1. Len(u) + 1 - j \in Nat /\ Len(u) + 1 - j < n
      BY <1>0, <1>1
    <3> QED BY <1>3, <3>1
  <2> HIDE DEF S
  <2>2. g[i] = RedactCell(s, u, g, i) /\ f[i + d] = RedactCell(s, t, f, i + d)
    <3>1. i + d \in 1 .. Len(t) + 1
      BY <1>0, <1>1
    <3> QED BY <1>2, <3>1
  <2>3. CASE i > Len(u)
    BY <1>0, <1>1, <2>2, <2>3 DEF RedactCell
  <2>4. CASE i <= Len(u) /\ i \in HitsOf(s, u)
    <3>1. i + Len(s) \in 1 .. Len(u) + 1 /\ i < i + Len(s)
      BY <1>0, <1>1, <2>4, HitEnds
    <3>2. g[i + Len(s)] = f[(i + d) + Len(s)]
      <4>1. g[i + Len(s)] = f[(i + Len(s)) + d]
        BY <2>1, <3>1
      <4>2. (i + Len(s)) + d = (i + d) + Len(s)
        BY <1>0
      <4> QED BY <4>1, <4>2
    <3>3. i + d \in HitsOf(s, t) /\ i + d <= Len(t)
      BY <1>0, <1>1, <2>4
    <3> QED BY <1>0, <1>1, <2>2, <2>4, <3>2, <3>3 DEF RedactCell
  <2>5. CASE i <= Len(u) /\ i \notin HitsOf(s, u)
    <3>1. g[i + 1] = f[(i + d) + 1]
      <4>1. i + 1 \in 1 .. Len(u) + 1 /\ i < i + 1 /\ (i + 1) + d = (i + d) + 1
        BY <1>0, <1>1, <2>5
      <4>2. g[i + 1] = f[(i + 1) + d]
        BY <2>1, <4>1
      <4> QED BY <4>1, <4>2
    <3>2. i + d \notin HitsOf(s, t) /\ i + d <= Len(t) /\ u[i] = t[i + d]
      BY <1>0, <1>1, <2>5
    <3> QED BY <1>0, <1>1, <2>2, <2>5, <3>1, <3>2 DEF RedactCell
  <2> QED BY <1>0, <1>1, <2>3, <2>4, <2>5
<1>4. S = Nat
  <2>1. S \in SUBSET Nat
    OBVIOUS
  <2> HIDE DEF S
  <2> QED BY <1>3, <2>1, Induction
<1>5. g[1] = f[1 + d]
  <2>1. Len(u) + 1 - 1 \in S /\ 1 \in 1 .. Len(u) + 1
    <3> HIDE DEF S
    <3> QED BY <1>0, <1>1, <1>4
  <2> QED BY <2>1
<1>6. 1 + d = d + 1
  BY <1>0
<1> QED BY <1>2, <1>5, <1>6 DEF u

\* Redaction, letter by letter.
LEMMA RedactionStep ==
  ASSUME NEW s \in SomeSecret, NEW t \in Text
  PROVE  /\ RedactedOf(s, t) \in Relayed
         /\ t = <<>> => RedactedOf(s, t) = <<>>
         /\ 1 \in HitsOf(s, t) =>
              RedactedOf(s, t) = <<Marker>> \o RedactedOf(s, SubSeq(t, Len(s) + 1, Len(t)))
         /\ t # <<>> /\ 1 \notin HitsOf(s, t) =>
              RedactedOf(s, t) = <<t[1]>> \o RedactedOf(s, SubSeq(t, 2, Len(t)))
<1>0. Len(t) \in Nat /\ Len(s) \in Nat \ {0} /\ (t = <<>> <=> Len(t) = 0)
  BY DEF Text, SomeSecret
<1>1. PICK f \in [1 .. Len(t) + 1 -> Relayed] :
        /\ \A i \in 1 .. Len(t) + 1 : f[i] = RedactCell(s, t, f, i)
        /\ RedactedOf(s, t) = f[1]
  BY RedactTable
<1>2. 1 \in 1 .. Len(t) + 1 /\ f[1] = RedactCell(s, t, f, 1)
  BY <1>0, <1>1
<1>3. ASSUME 1 \in HitsOf(s, t)
      PROVE  RedactedOf(s, t) = <<Marker>> \o RedactedOf(s, SubSeq(t, Len(s) + 1, Len(t)))
  <2>1. 1 \in 1 .. Len(t) /\ 1 + Len(s) \in 1 .. Len(t) + 1
    BY <1>3, HitEnds
  <2>2. Len(s) \in 0 .. Len(t) /\ 1 + Len(s) = Len(s) + 1
    BY <1>0, <2>1
  <2>3. RedactedOf(s, SubSeq(t, Len(s) + 1, Len(t))) = f[Len(s) + 1]
    BY <1>1, <2>2, RestOfTable
  <2> QED BY <1>0, <1>1, <1>2, <1>3, <2>1, <2>2, <2>3 DEF RedactCell
<1>4. ASSUME t # <<>>, 1 \notin HitsOf(s, t)
      PROVE  RedactedOf(s, t) = <<t[1]>> \o RedactedOf(s, SubSeq(t, 2, Len(t)))
  <2>1. 1 \in 0 .. Len(t)
    BY <1>0, <1>4
  <2>2. RedactedOf(s, SubSeq(t, 2, Len(t))) = f[2]
    <3>1. RedactedOf(s, SubSeq(t, 1 + 1, Len(t))) = f[1 + 1]
      BY <1>1, <2>1, RestOfTable
    <3>2. 1 + 1 = 2
      OBVIOUS
    <3> QED BY <3>1, <3>2
  <2>3. RedactCell(s, t, f, 1) = <<t[1]>> \o f[2]
    BY <1>0, <1>4, <2>1 DEF RedactCell
  <2> QED BY <1>1, <1>2, <2>2, <2>3
<1>5. t = <<>> => RedactedOf(s, t) = <<>>
  BY <1>0, <1>1, <1>2 DEF RedactCell
<1> QED BY <1>1, <1>2, <1>3, <1>4, <1>5

LEMMA Relaying ==
  /\ \A a, b \in Relayed : a \o b \in Relayed
  /\ \A a, b, d \in Relayed : (a \o b) \o d = a \o (b \o d)
  /\ \A a \in Relayed : <<>> \o a = a /\ a \o <<>> = a
  /\ <<>> \in Relayed /\ <<Marker>> \in Relayed /\ Text \subseteq Relayed
<1>1. \A a, b \in Relayed : a \o b \in Relayed
  BY ConcatProperties DEF Relayed
<1>2. \A a, b, d \in Relayed : (a \o b) \o d = a \o (b \o d)
  BY ConcatAssociative DEF Relayed
<1>3. \A a \in Relayed : <<>> \o a = a /\ a \o <<>> = a
  BY ConcatEmptySeq DEF Relayed
<1>4. <<>> \in Relayed /\ <<Marker>> \in Relayed
  BY DEF Relayed
<1>5. Text \subseteq Relayed
  BY DEF Relayed, Text
<1> QED BY <1>1, <1>2, <1>3, <1>4, <1>5

\* Up to its first hit a text is relayed as it is.
LEMMA CleanPart ==
  ASSUME NEW s \in SomeSecret, NEW t \in Text, NEW k \in 0 .. Len(t),
         \A i \in 1 .. k : i \notin HitsOf(s, t)
  PROVE  RedactedOf(s, t) = SubSeq(t, 1, k) \o RedactedOf(s, SubSeq(t, k + 1, Len(t)))
<1> DEFINE Rest(n) == RedactedOf(s, SubSeq(t, n + 1, Len(t)))
           S == {n \in Nat : n <= k => RedactedOf(s, t) = SubSeq(t, 1, n) \o Rest(n)}
<1>0. Len(t) \in Nat /\ k \in Nat /\ k <= Len(t)
  BY DEF Text
<1>1. ASSUME NEW n \in 0 .. Len(t)
      PROVE  SubSeq(t, n + 1, Len(t)) \in Text /\ Rest(n) \in Relayed
  BY <1>1, HitsShift, RedactionStep
<1>2. ASSUME NEW n \in Nat, \A m \in Nat : m < n => m \in S
      PROVE  n \in S
  <2> SUFFICES ASSUME n <= k
               PROVE  RedactedOf(s, t) = SubSeq(t, 1, n) \o Rest(n)
    OBVIOUS
  <2>1. CASE n = 0
    <3>1. SubSeq(t, 1, 0) = <<>>
      BY SubSeqEmpty
    <3>2. SubSeq(t, 0 + 1, Len(t)) = t
      BY SubSeqFull DEF Text
    <3>3. <<>> \o RedactedOf(s, t) = RedactedOf(s, t)
      BY RedactionStep, ConcatEmptySeq DEF Relayed
    <3> QED BY <2>1, <3>1, <3>2, <3>3
  <2>2. CASE n # 0
    <3>1. n - 1 \in Nat /\ n - 1 < n /\ n - 1 <= k /\ n \in 1 .. Len(t) /\ n - 1 \in 0 .. Len(t)
          /\ (n - 1) + 1 = n /\ n \in 0 .. Len(t)
      BY <1>0, <2>2
    <3>2. RedactedOf(s, t) = SubSeq(t, 1, n - 1) \o Rest(n - 1)
      BY <1>2, <3>1
    <3>3. Rest(n - 1) = <<t[n]>> \o Rest(n)
      <4> DEFINE u == SubSeq(t, (n - 1) + 1, Len(t))
      <4>1. /\ u \in Text /\ Len(u) = Len(t) - (n - 1)
            /\ \A i \in 1 .. Len(u) :
                 u[i] = t[i + (n - 1)] /\ (i \in HitsOf(s, u) <=> i + (n - 1) \in HitsOf(s, t))
        BY <3>1, HitsShift
      <4>2. SubSeq(u, 2, Len(u)) = SubSeq(t, n + 1, Len(t))
        <5> DEFINE v == SubSeq(u, 2, Len(u))
                   w == SubSeq(t, n + 1, Len(t))
        <5>0. Len(u) \in Nat \ {0} /\ n \in Nat
          BY <1>0, <3>1, <4>1
        <5>1. v \in Text /\ Len(v) = Len(u) - 1 /\ \A i \in 1 .. Len(v) : v[i] = u[i + 1]
          <6> HIDE DEF u
          <6>1. 1 \in 0 .. Len(u)
            BY <5>0
          <6>2. /\ SubSeq(u, 1 + 1, Len(u)) \in Text
                /\ Len(SubSeq(u, 1 + 1, Len(u))) = Len(u) - 1
                /\ \A i \in 1 .. Len(SubSeq(u, 1 + 1, Len(u))) :
                     SubSeq(u, 1 + 1, Len(u))[i] = u[i + 1]
            BY <4>1, <6>1, HitsShift
          <6> QED BY <6>2
        <5>2. w \in Text /\ Len(w) = Len(t) - n /\ \A i \in 1 .. Len(w) : w[i] = t[i + n]
          BY <3>1, HitsShift
        <5> HIDE DEF u, v, w
        <5>3. Len(v) = Len(w)
          BY <1>0, <4>1, <5>0, <5>1, <5>2
        <5>4. ASSUME NEW i \in 1 .. Len(v)
              PROVE  v[i] = w[i]
          <6>1. i + 1 \in 1 .. Len(u) /\ (i + 1) + (n - 1) = i + n
            BY <5>0, <5>1
          <6>2. u[i + 1] = t[(i + 1) + (n - 1)]
            BY <4>1, <6>1
          <6> QED BY <5>1, <5>2, <5>3, <6>1, <6>2
        <5>5. v = w
          BY <5>1, <5>2, <5>3, <5>4, SeqEqual DEF Text
        <5> QED BY <5>5 DEF v, w
      <4> HIDE DEF u
      <4>3. 1 \in 1 .. Len(u) /\ 1 + (n - 1) = n /\ u # <<>>
        BY <1>0, <3>1, <4>1 DEF Text
      <4>4. u[1] = t[n] /\ 1 \notin HitsOf(s, u)
        <5>1. n \notin HitsOf(s, t)
          BY <3>1
        <5> QED BY <4>1, <4>3, <5>1
      <4>5. RedactedOf(s, u) = <<u[1]>> \o RedactedOf(s, SubSeq(u, 2, Len(u)))
        BY <4>1, <4>3, <4>4, RedactionStep
      <4> QED BY <4>2, <4>4, <4>5 DEF u
    <3>4. SubSeq(t, 1, n) = SubSeq(t, 1, n - 1) \o <<t[n]>>
      BY <3>1, SubSeqRecursiveSecond DEF Text
    <3>5. SubSeq(t, 1, n - 1) \in Relayed /\ <<t[n]>> \in Relayed /\ Rest(n) \in Relayed
      <4>1. SubSeq(t, 1, n - 1) \in Text
        <5>1. 1 \in 1 .. Len(t) + 1 /\ n - 1 \in 1 - 1 .. Len(t)
          BY <1>0, <3>1
        <5> QED BY <5>1, CutIs
      <4>2. t[n] \in Byte
        BY <3>1 DEF Text
      <4>3. Rest(n) \in Relayed
        BY <1>1, <3>1
      <4> HIDE DEF Rest
      <4> QED BY <4>1, <4>2, <4>3 DEF Text, Relayed
    <3> HIDE DEF Rest, S
    <3>6. (SubSeq(t, 1, n - 1) \o <<t[n]>>) \o Rest(n) = SubSeq(t, 1, n - 1) \o (<<t[n]>> \o Rest(n))
      BY <3>5, Relaying
    <3> QED BY <3>2, <3>3, <3>4, <3>6
  <2> QED BY <2>1, <2>2
<1>3. S = Nat
  <2>1. S \in SUBSET Nat
    OBVIOUS
  <2> HIDE DEF S
  <2> QED BY <1>2, <2>1, Induction
<1>4. k \in S
  <2> HIDE DEF S
  <2> QED BY <1>0, <1>3
<1> QED BY <1>4

-----------------------------------------------------------------------------
(* The indexOf loop and the tail it keeps.                                  *)

\* Suffixes of suffixes, and of a text that goes on.
LEMMA CutAgain ==
  ASSUME NEW t \in Text, NEW d \in 0 .. Len(t), NEW e \in 0 .. Len(t) - d
  PROVE  LET u == SubSeq(t, d + 1, Len(t)) IN
         /\ u \in Text /\ Len(u) = Len(t) - d
         /\ SubSeq(u, e + 1, Len(u)) = SubSeq(t, d + e + 1, Len(t))
         /\ SubSeq(u, 1, e) = SubSeq(t, d + 1, d + e)
<1> DEFINE u == SubSeq(t, d + 1, Len(t))
           v == SubSeq(u, e + 1, Len(u))
           w == SubSeq(t, d + e + 1, Len(t))
           y == SubSeq(u, 1, e)
           z == SubSeq(t, d + 1, d + e)
<1>0. Len(t) \in Nat /\ d \in Nat /\ e \in Nat /\ d + e <= Len(t)
  BY DEF Text
<1>1. u \in Text /\ Len(u) = Len(t) - d /\ \A i \in 1 .. Len(t) - d : u[i] = t[d + i]
  <2>1. d + 1 \in 1 .. Len(t) + 1 /\ Len(t) \in (d + 1) - 1 .. Len(t)
    BY <1>0
  <2>2. /\ u \in Text /\ Len(u) = Len(t) - (d + 1) + 1
        /\ \A i \in 1 .. Len(t) - (d + 1) + 1 : u[i] = t[(d + 1) + i - 1]
    BY <2>1, CutIs
  <2> HIDE DEF u
  <2> QED BY <1>0, <2>2
<1>2. v \in Text /\ Len(v) = Len(t) - d - e /\ \A i \in 1 .. Len(t) - d - e : v[i] = u[e + i]
  <2> HIDE DEF u
  <2>1. e + 1 \in 1 .. Len(u) + 1 /\ Len(u) \in (e + 1) - 1 .. Len(u)
    BY <1>0, <1>1
  <2>2. /\ v \in Text /\ Len(v) = Len(u) - (e + 1) + 1
        /\ \A i \in 1 .. Len(u) - (e + 1) + 1 : v[i] = u[(e + 1) + i - 1]
    BY <1>1, <2>1, CutIs
  <2> HIDE DEF v
  <2> QED BY <1>0, <1>1, <2>2
<1>3. w \in Text /\ Len(w) = Len(t) - d - e /\ \A i \in 1 .. Len(t) - d - e : w[i] = t[d + e + i]
  <2>1. d + e + 1 \in 1 .. Len(t) + 1 /\ Len(t) \in (d + e + 1) - 1 .. Len(t)
    BY <1>0
  <2>2. /\ w \in Text /\ Len(w) = Len(t) - (d + e + 1) + 1
        /\ \A i \in 1 .. Len(t) - (d + e + 1) + 1 : w[i] = t[(d + e + 1) + i - 1]
    BY <2>1, CutIs
  <2> HIDE DEF w
  <2> QED BY <1>0, <2>2
<1>4. y \in Text /\ Len(y) = e /\ \A i \in 1 .. e : y[i] = u[i]
  <2> HIDE DEF u
  <2>1. 1 \in 1 .. Len(u) + 1 /\ e \in 1 - 1 .. Len(u)
    BY <1>0, <1>1
  <2>2. y \in Text /\ Len(y) = e - 1 + 1 /\ \A i \in 1 .. e - 1 + 1 : y[i] = u[1 + i - 1]
    BY <1>1, <2>1, CutIs
  <2> HIDE DEF y
  <2> QED BY <1>0, <2>2
<1>5. z \in Text /\ Len(z) = e /\ \A i \in 1 .. e : z[i] = t[d + i]
  <2>1. d + 1 \in 1 .. Len(t) + 1 /\ d + e \in (d + 1) - 1 .. Len(t)
    BY <1>0
  <2>2. /\ z \in Text /\ Len(z) = (d + e) - (d + 1) + 1
        /\ \A i \in 1 .. (d + e) - (d + 1) + 1 : z[i] = t[(d + 1) + i - 1]
    BY <2>1, CutIs
  <2> HIDE DEF z
  <2> QED BY <1>0, <2>2
<1> HIDE DEF u, v, w, y, z
<1>6. v = w
  <2>1. \A i \in 1 .. Len(v) : v[i] = w[i]
    <3> SUFFICES ASSUME NEW i \in 1 .. Len(v)
                 PROVE  v[i] = w[i]
      OBVIOUS
    <3>1. e + i \in 1 .. Len(t) - d /\ d + (e + i) = d + e + i
      BY <1>0, <1>2
    <3>2. u[e + i] = t[d + (e + i)]
      BY <1>1, <3>1
    <3> QED BY <1>2, <1>3, <3>1, <3>2
  <2> QED BY <1>2, <1>3, <2>1, SeqEqual DEF Text
<1>7. y = z
  <2>1. \A i \in 1 .. Len(y) : y[i] = z[i]
    BY <1>0, <1>1, <1>4, <1>5
  <2> QED BY <1>4, <1>5, <2>1, SeqEqual DEF Text
<1> QED BY <1>1, <1>6, <1>7 DEF u, v, w, y, z

LEMMA CatIs ==
  ASSUME NEW t \in Text, NEW x \in Text
  PROVE  /\ t \o x \in Text /\ Len(t \o x) = Len(t) + Len(x)
         /\ \A i \in 1 .. Len(t) + Len(x) :
              (t \o x)[i] = IF i <= Len(t) THEN t[i] ELSE x[i - Len(t)]
BY ConcatProperties DEF Text

LEMMA CutOfMore ==
  ASSUME NEW t \in Text, NEW x \in Text, NEW d \in 0 .. Len(t)
  PROVE  /\ SubSeq(t \o x, d + 1, Len(t \o x)) = SubSeq(t, d + 1, Len(t)) \o x
         /\ SubSeq(t \o x, 1, d) = SubSeq(t, 1, d)
<1> DEFINE tx == t \o x
           u == SubSeq(t, d + 1, Len(t))
           v == SubSeq(tx, d + 1, Len(tx))
           w == u \o x
           y == SubSeq(tx, 1, d)
           z == SubSeq(t, 1, d)
<1>0. Len(t) \in Nat /\ Len(x) \in Nat /\ d \in Nat /\ d <= Len(t)
  BY DEF Text
<1>1. /\ tx \in Text /\ Len(tx) = Len(t) + Len(x)
      /\ \A i \in 1 .. Len(tx) : tx[i] = IF i <= Len(t) THEN t[i] ELSE x[i - Len(t)]
  BY CatIs
<1>2. u \in Text /\ Len(u) = Len(t) - d /\ \A i \in 1 .. Len(u) : u[i] = t[i + d]
  <2>1. d + 1 \in 1 .. Len(t) + 1 /\ Len(t) \in (d + 1) - 1 .. Len(t)
    BY <1>0
  <2>2. /\ u \in Text /\ Len(u) = Len(t) - (d + 1) + 1
        /\ \A i \in 1 .. Len(t) - (d + 1) + 1 : u[i] = t[(d + 1) + i - 1]
    BY <2>1, CutIs
  <2> HIDE DEF u
  <2> QED BY <1>0, <2>2
<1>3. v \in Text /\ Len(v) = Len(tx) - d /\ \A i \in 1 .. Len(v) : v[i] = tx[i + d]
  <2> HIDE DEF tx
  <2>1. d + 1 \in 1 .. Len(tx) + 1 /\ Len(tx) \in (d + 1) - 1 .. Len(tx)
    BY <1>0, <1>1
  <2>2. /\ v \in Text /\ Len(v) = Len(tx) - (d + 1) + 1
        /\ \A i \in 1 .. Len(tx) - (d + 1) + 1 : v[i] = tx[(d + 1) + i - 1]
    BY <1>1, <2>1, CutIs
  <2> HIDE DEF v
  <2> QED BY <1>0, <1>1, <2>2
<1>4. /\ w \in Text /\ Len(w) = Len(u) + Len(x)
      /\ \A i \in 1 .. Len(w) : w[i] = IF i <= Len(u) THEN u[i] ELSE x[i - Len(u)]
  <2> HIDE DEF u
  <2> QED BY <1>2, CatIs
<1>5. y \in Text /\ Len(y) = d /\ \A i \in 1 .. d : y[i] = tx[i]
  <2> HIDE DEF tx
  <2>1. 1 \in 1 .. Len(tx) + 1 /\ d \in 1 - 1 .. Len(tx)
    BY <1>0, <1>1
  <2>2. y \in Text /\ Len(y) = d - 1 + 1 /\ \A i \in 1 .. d - 1 + 1 : y[i] = tx[1 + i - 1]
    BY <1>1, <2>1, CutIs
  <2> HIDE DEF y
  <2> QED BY <1>0, <2>2
<1>6. z \in Text /\ Len(z) = d /\ \A i \in 1 .. d : z[i] = t[i]
  <2>1. 1 \in 1 .. Len(t) + 1 /\ d \in 1 - 1 .. Len(t)
    BY <1>0
  <2>2. z \in Text /\ Len(z) = d - 1 + 1 /\ \A i \in 1 .. d - 1 + 1 : z[i] = t[1 + i - 1]
    BY <2>1, CutIs
  <2> HIDE DEF z
  <2> QED BY <1>0, <2>2
<1> HIDE DEF tx, u, v, w, y, z
<1>7. v = w
  <2>1. Len(v) = Len(w)
    BY <1>0, <1>1, <1>2, <1>3, <1>4
  <2>2. ASSUME NEW i \in 1 .. Len(v)
        PROVE  v[i] = w[i]
    <3>1. i + d \in 1 .. Len(tx) /\ i \in 1 .. Len(w)
      BY <1>0, <1>1, <1>3, <2>1
    <3>2. CASE i <= Len(u)
      BY <1>0, <1>1, <1>2, <1>3, <1>4, <3>1, <3>2
    <3>3. CASE ~(i <= Len(u))
      <4>1. (i + d) - Len(t) = i - Len(u) /\ ~(i + d <= Len(t))
        BY <1>0, <1>2, <3>1, <3>3
      <4> QED BY <1>1, <1>3, <1>4, <3>1, <3>3, <4>1
    <3> QED BY <3>2, <3>3
  <2> QED BY <1>3, <1>4, <2>1, <2>2, SeqEqual DEF Text
<1>8. y = z
  <2>1. \A i \in 1 .. Len(y) : y[i] = z[i]
    BY <1>0, <1>1, <1>5, <1>6
  <2> QED BY <1>5, <1>6, <2>1, SeqEqual DEF Text
<1> QED BY <1>7, <1>8 DEF tx, u, v, w, y, z

\* A hit that ends in the text does not depend on what follows it.
LEMMA HitsOfMore ==
  ASSUME NEW s \in SomeSecret, NEW t \in Text, NEW x \in Text, NEW i \in 1 .. Len(t),
         i + Len(s) - 1 <= Len(t)
  PROVE  i \in HitsOf(s, t \o x) <=> i \in HitsOf(s, t)
<1>0. Len(t) \in Nat /\ Len(x) \in Nat /\ Len(s) \in Nat \ {0}
  BY DEF Text, SomeSecret
<1> DEFINE tx == t \o x
<1>1. /\ tx \in Text /\ Len(tx) = Len(t) + Len(x)
      /\ \A j \in 1 .. Len(t) : tx[j] = t[j]
  BY <1>0, CatIs
<1> HIDE DEF tx
<1>2. i \in 1 .. Len(tx) /\ i + Len(s) - 1 <= Len(tx)
  BY <1>0, <1>1
<1>3. \A j \in 1 .. Len(s) : tx[i + j - 1] = t[i + j - 1]
  BY <1>0, <1>1
<1> QED BY <1>1, <1>2, <1>3, HitIs DEF tx

\* A text shorter than the secret, or anything else without a hit, is relayed
\* as it is.
LEMMA CleanIsKept ==
  ASSUME NEW s \in SomeSecret, NEW t \in Text, HitsOf(s, t) = {}
  PROVE  RedactedOf(s, t) = t
<1>0. Len(t) \in Nat /\ Len(t) \in 0 .. Len(t)
  BY DEF Text
<1>1. RedactedOf(s, t) = SubSeq(t, 1, Len(t)) \o RedactedOf(s, SubSeq(t, Len(t) + 1, Len(t)))
  BY <1>0, CleanPart
<1>2. SubSeq(t, 1, Len(t)) = t
  BY SubSeqFull DEF Text
<1>3. SubSeq(t, Len(t) + 1, Len(t)) = <<>>
  BY <1>0, SubSeqEmpty
<1>4. <<>> \in Text
  BY DEF Text
<1>5. RedactedOf(s, <<>>) = <<>>
  BY <1>4, RedactionStep
<1> QED BY <1>1, <1>2, <1>3, <1>5, Relaying

LEMMA ShortIsClean ==
  ASSUME NEW s \in SomeSecret, NEW t \in Text, Len(t) < Len(s)
  PROVE  HitsOf(s, t) = {}
<1>0. Len(t) \in Nat /\ Len(s) \in Nat \ {0}
  BY DEF Text, SomeSecret
<1>1. ASSUME NEW i \in HitsOf(s, t)
      PROVE  FALSE
  BY <1>0, <1>1, HitEnds
<1> QED BY <1>1

LEMMA Marked ==
  /\ \A a, b \in Relayed : Marker \in Range(a \o b) <=> Marker \in Range(a) \/ Marker \in Range(b)
  /\ \A t \in Text : Marker \notin Range(t)
  /\ Marker \in Range(<<Marker>>) /\ Marker \notin Range(<<>>)
<1>1. ASSUME NEW a \in Relayed, NEW b \in Relayed
      PROVE  Marker \in Range(a \o b) <=> Marker \in Range(a) \/ Marker \in Range(b)
  <2>0. /\ Len(a) \in Nat /\ Len(b) \in Nat /\ Len(a \o b) = Len(a) + Len(b)
        /\ \A j \in 1 .. Len(a) + Len(b) : (a \o b)[j] = IF j <= Len(a) THEN a[j] ELSE b[j - Len(a)]
    BY ConcatProperties DEF Relayed
  <2>1. \A u \in Relayed : Marker \in Range(u) <=> \E j \in 1 .. Len(u) : u[j] = Marker
    BY DEF Range, Relayed
  <2>2. a \o b \in Relayed
    BY Relaying
  <2>3. ASSUME NEW j \in 1 .. Len(a), a[j] = Marker
        PROVE  \E n \in 1 .. Len(a \o b) : (a \o b)[n] = Marker
    BY <2>0, <2>3
  <2>4. ASSUME NEW j \in 1 .. Len(b), b[j] = Marker
        PROVE  \E n \in 1 .. Len(a \o b) : (a \o b)[n] = Marker
    <3>1. Len(a) + j \in 1 .. Len(a \o b) /\ ~(Len(a) + j <= Len(a)) /\ (Len(a) + j) - Len(a) = j
      BY <2>0
    <3> QED BY <2>0, <2>4, <3>1
  <2>5. ASSUME NEW n \in 1 .. Len(a \o b), (a \o b)[n] = Marker
        PROVE  (\E j \in 1 .. Len(a) : a[j] = Marker) \/ (\E j \in 1 .. Len(b) : b[j] = Marker)
    <3>1. CASE n <= Len(a)
      BY <2>0, <2>5, <3>1
    <3>2. CASE ~(n <= Len(a))
      <4>1. n - Len(a) \in 1 .. Len(b)
        BY <2>0, <3>2
      <4> QED BY <2>0, <2>5, <3>2, <4>1
    <3> QED BY <3>1, <3>2
  <2> QED BY <2>1, <2>2, <2>3, <2>4, <2>5
<1>2. ASSUME NEW t \in Text
      PROVE  Marker \notin Range(t)
  BY RedactAssumption DEF Text, Range
<1>3. Marker \in Range(<<Marker>>) /\ Marker \notin Range(<<>>)
  BY DEF Range
<1> QED BY <1>1, <1>2, <1>3

ScanCell(s, t, f, i) ==
  LET later == {k \in HitsOf(s, t) : k >= i} IN
  IF later = {} THEN [out |-> <<>>, rest |-> SubSeq(t, i, Len(t))]
  ELSE LET k == Min(later)
           tail == f[k + Len(s)]
       IN [out |-> SubSeq(t, i, k - 1) \o <<Marker>> \o tail.out,
           rest |-> tail.rest]

ScanOf(s, t) ==
  LET from[i \in 1 .. Len(t) + 1] ==
        LET later == {k \in HitsOf(s, t) : k >= i} IN
        IF later = {} THEN [out |-> <<>>, rest |-> SubSeq(t, i, Len(t))]
        ELSE LET k == Min(later)
                 tail == from[k + Len(s)]
             IN [out |-> SubSeq(t, i, k - 1) \o <<Marker>> \o tail.out,
                 rest |-> tail.rest]
  IN from[1]

Scanned == [out : Relayed, rest : Text]

\* The next hit.
LEMMA NextHit ==
  ASSUME NEW s \in SomeSecret, NEW t \in Text, NEW i \in 1 .. Len(t) + 1
  PROVE  LET later == {k \in HitsOf(s, t) : k >= i} IN
         later # {} => /\ Min(later) \in HitsOf(s, t) /\ Min(later) >= i
                       /\ \A k \in HitsOf(s, t) : k >= i => Min(later) <= k
                       /\ Min(later) \in 1 .. Len(t) /\ Min(later) + Len(s) \in i + 1 .. Len(t) + 1
<1> DEFINE later == {k \in HitsOf(s, t) : k >= i}
<1>1. later \in SUBSET Nat
  BY DEF HitsOf
<1>2. SUFFICES ASSUME later # {}
               PROVE  /\ Min(later) \in later /\ \A k \in later : Min(later) <= k
                      /\ Min(later) \in 1 .. Len(t)
                      /\ Min(later) + Len(s) \in i + 1 .. Len(t) + 1
  OBVIOUS
<1>3. Min(later) \in later /\ \A k \in later : Min(later) <= k
  <2> HIDE DEF later
  <2> QED BY <1>1, <1>2, Smallest DEF Min
<1>4. Min(later) \in HitsOf(s, t) /\ Min(later) >= i
  BY <1>3
<1> HIDE DEF later
<1>5. Len(t) \in Nat /\ i \in Nat
  BY DEF Text
<1> QED BY <1>3, <1>4, <1>5, HitEnds

LEMMA ScanCellIs ==
  ASSUME NEW s \in SomeSecret, NEW t \in Text, NEW f, NEW i \in 1 .. Len(t) + 1,
         \A j \in 1 .. Len(t) + 1 : i < j => f[j] \in Scanned
  PROVE  ScanCell(s, t, f, i) \in Scanned
<1> DEFINE later == {k \in HitsOf(s, t) : k >= i}
           k == Min(later)
<1>0. Len(t) \in Nat /\ i \in Nat
  BY DEF Text
<1>1. CASE later = {}
  <2>1. SubSeq(t, i, Len(t)) \in Text
    <3>1. Len(t) \in i - 1 .. Len(t)
      BY <1>0
    <3> QED BY <3>1, CutIs
  <2> QED BY <1>1, <2>1, Relaying DEF ScanCell, Scanned
<1>2. CASE later # {}
  <2>1. k >= i /\ k \in 1 .. Len(t) /\ k + Len(s) \in i + 1 .. Len(t) + 1
    BY <1>2, NextHit
  <2>2. ScanCell(s, t, f, i) = [out |-> SubSeq(t, i, k - 1) \o <<Marker>> \o f[k + Len(s)].out,
                                rest |-> f[k + Len(s)].rest]
    BY <1>2 DEF ScanCell
  <2> HIDE DEF k, later
  <2>3. f[k + Len(s)] \in Scanned
    BY <1>0, <2>1
  <2>4. SubSeq(t, i, k - 1) \in Text
    <3>1. k - 1 \in i - 1 .. Len(t)
      BY <1>0, <2>1
    <3> QED BY <3>1, CutIs
  <2>5. SubSeq(t, i, k - 1) \o <<Marker>> \o f[k + Len(s)].out \in Relayed
    <3>1. f[k + Len(s)].out \in Relayed
      BY <2>3 DEF Scanned
    <3>2. SubSeq(t, i, k - 1) \in Relayed
      BY <2>4, Relaying
    <3> HIDE DEF Scanned
    <3> QED BY <3>1, <3>2, Relaying
  <2> QED BY <2>2, <2>3, <2>5 DEF Scanned
<1> QED BY <1>1, <1>2

LEMMA ScanTable ==
  ASSUME NEW s \in SomeSecret, NEW t \in Text
  PROVE  \E f : /\ \A i \in 1 .. Len(t) + 1 : f[i] = ScanCell(s, t, f, i)
                /\ ScanOf(s, t) = f[1]
<1> DEFINE D == 1 .. Len(t) + 1
           rank == [i \in D |-> Len(t) + 1 - i]
           step == [f \in [D -> Scanned] |-> [i \in D |-> ScanCell(s, t, f, i)]]
<1>0. Len(t) \in Nat
  BY DEF Text
<1>1. rank \in [D -> 0 .. Len(t)]
  BY <1>0
<1>2. step \in [[D -> Scanned] -> [D -> Scanned]]
  <2>1. \A f \in [D -> Scanned], i \in D : ScanCell(s, t, f, i) \in Scanned
    BY ScanCellIs
  <2> HIDE DEF D
  <2> QED BY <2>1
<1>3. ASSUME NEW f \in [D -> Scanned], NEW g \in [D -> Scanned], NEW i \in D,
             \A j \in D : rank[j] < rank[i] => f[j] = g[j]
      PROVE  step[f][i] = step[g][i]
  <2> DEFINE later == {k \in HitsOf(s, t) : k >= i}
  <2>1. \A j \in D : i < j => f[j] = g[j]
    BY <1>0, <1>3
  <2>2. later # {} => f[Min(later) + Len(s)] = g[Min(later) + Len(s)]
    <3>1. later # {} => Min(later) + Len(s) \in i + 1 .. Len(t) + 1
      BY NextHit
    <3> HIDE DEF later
    <3> QED BY <1>0, <2>1, <3>1
  <2>3. ScanCell(s, t, f, i) = ScanCell(s, t, g, i)
    BY <2>2 DEF ScanCell
  <2> QED BY <2>3
<1>4. Computes(step, D, Scanned, rank, Len(t))
  <2>1. [out |-> <<>>, rest |-> t] \in Scanned
    BY Relaying DEF Scanned
  <2> HIDE DEF D, rank, step
  <2> QED BY <1>0, <1>1, <1>2, <1>3, <2>1 DEF Computes
<1> DEFINE from == CHOOSE f : f = [i \in D |-> ScanCell(s, t, f, i)]
<1>5. \E f : f = [i \in D |-> ScanCell(s, t, f, i)]
  <2>1. \E f \in [D -> Scanned] : f = step[f]
    <3> HIDE DEF D, rank, step
    <3> QED BY <1>4, Recursion
  <2> HIDE DEF D
  <2> QED BY <2>1
<1>6. ScanOf(s, t) = from[1]
  BY DEF ScanOf, ScanCell
<1>7. from = [i \in D |-> ScanCell(s, t, from, i)]
  BY <1>5
<1> HIDE DEF from
<1> QED BY <1>6, <1>7

\* What the loop has to get right of a text: what it relays is the beginning of
\* the redaction, whatever follows, and no hit is left in the rest.
ScansTo(s, t, r) ==
  /\ r \in Scanned /\ HitsOf(s, r.rest) = {}
  /\ Marker \in Range(r.out) <=> HitsOf(s, t) # {}
  /\ \A x \in Text : RedactedOf(s, t \o x) = r.out \o RedactedOf(s, r.rest \o x)

LEMMA ScanIs ==
  ASSUME NEW s \in SomeSecret, NEW t \in Text
  PROVE  ScansTo(s, t, ScanOf(s, t))
<1>0. Len(t) \in Nat /\ Len(s) \in Nat \ {0}
  BY DEF Text, SomeSecret
<1>1. PICK f : /\ \A i \in 1 .. Len(t) + 1 : f[i] = ScanCell(s, t, f, i)
               /\ ScanOf(s, t) = f[1]
  BY ScanTable
<1> DEFINE S == {n \in Nat : \A i \in 1 .. Len(t) + 1 :
                   Len(t) + 1 - i = n => ScansTo(s, SubSeq(t, i, Len(t)), f[i])}
<1>2. ASSUME NEW n \in Nat, \A m \in Nat : m < n => m \in S
      PROVE  n \in S
  <2> SUFFICES ASSUME NEW i \in 1 .. Len(t) + 1, Len(t) + 1 - i = n
               PROVE  ScansTo(s, SubSeq(t, i, Len(t)), f[i])
    OBVIOUS
  <2>1. \A j \in 1 .. Len(t) + 1 : i < j => ScansTo(s, SubSeq(t, j, Len(t)), f[j])
    <3> SUFFICES ASSUME NEW j \in 1 .. Len(t) + 1, i < j
                 PROVE  ScansTo(s, SubSeq(t, j, Len(t)), f[j])
      OBVIOUS
    <3>1. Len(t) + 1 - j \in Nat /\ Len(t) + 1 - j < n
      BY <1>0
    <3> QED BY <1>2, <3>1
  <2> HIDE DEF S
  <2> DEFINE d == i - 1
             u == SubSeq(t, i, Len(t))
             later == {k \in HitsOf(s, t) : k >= i}
             k == Min(later)
  <2>2. d \in 0 .. Len(t) /\ d + 1 = i
    BY <1>0
  <2>3. /\ u \in Text /\ Len(u) = Len(t) - d
        /\ \A j \in 1 .. Len(u) : u[j] = t[j + d] /\ (j \in HitsOf(s, u) <=> j + d \in HitsOf(s, t))
    <3> HIDE DEF d
    <3> QED BY <2>2, HitsShift
  <2>4. HitsOf(s, u) # {} <=> later # {}
    <3> HIDE DEF u
    <3>1. ASSUME NEW j \in HitsOf(s, u)
          PROVE  j + d \in later
      <4>1. j \in 1 .. Len(u)
        BY DEF HitsOf
      <4> QED BY <1>0, <2>2, <2>3, <3>1, <4>1
    <3>2. ASSUME NEW j \in later
          PROVE  j - d \in HitsOf(s, u)
      <4>1. j \in HitsOf(s, t) /\ j >= i /\ j \in 1 .. Len(t)
        BY DEF HitsOf
      <4>2. j - d \in 1 .. Len(u) /\ (j - d) + d = j
        BY <1>0, <2>2, <2>3, <4>1
      <4> QED BY <2>3, <4>1, <4>2
    <3> QED BY <3>1, <3>2
  <2>5. f[i] = ScanCell(s, t, f, i)
    BY <1>1
  <2>6. CASE later = {}
    <3>1. f[i] = [out |-> <<>>, rest |-> u]
      BY <2>5, <2>6 DEF ScanCell
    <3>2. \A x \in Text : RedactedOf(s, u \o x) = <<>> \o RedactedOf(s, u \o x)
      <4> HIDE DEF u
      <4> QED BY <2>3, CatIs, RedactionStep, Relaying
    <3> HIDE DEF u, later
    <3>3. f[i] \in Scanned /\ f[i].out = <<>> /\ f[i].rest = u
      BY <2>3, <3>1, Relaying DEF Scanned
    <3>4. Marker \notin Range(f[i].out)
      BY <3>3, Marked
    <3> QED BY <2>4, <2>6, <3>2, <3>3, <3>4 DEF ScansTo, u
  <2>7. CASE later # {}
    <3>1. /\ k \in HitsOf(s, t) /\ k >= i /\ \A j \in HitsOf(s, t) : j >= i => k <= j
          /\ k \in 1 .. Len(t) /\ k + Len(s) \in i + 1 .. Len(t) + 1
      BY <2>7, NextHit
    <3> DEFINE r == f[k + Len(s)]
               head == SubSeq(t, i, k - 1)
               e == k - i
               v == SubSeq(t, k, Len(t))
               z == SubSeq(t, k + Len(s), Len(t))
    <3>2. f[i] = [out |-> head \o <<Marker>> \o r.out, rest |-> r.rest]
      BY <2>5, <2>7 DEF ScanCell
    <3> HIDE DEF k, later
    <3>3. ScansTo(s, z, r)
      <4>1. k + Len(s) \in 1 .. Len(t) + 1 /\ i < k + Len(s)
        BY <1>0, <3>1
      <4> QED BY <2>1, <4>1
    <3>4. r \in Scanned /\ r.out \in Relayed /\ r.rest \in Text
      <4> HIDE DEF r, z
      <4> QED BY <3>3 DEF ScansTo, Scanned
    <3>5. /\ e \in 0 .. Len(t) - d /\ e \in 0 .. Len(u) /\ d + e + 1 = k /\ d + e = k - 1
          /\ k - 1 \in 0 .. Len(t) /\ (k - 1) + 1 = k
          /\ k + Len(s) - 1 \in 0 .. Len(t) /\ (k + Len(s) - 1) + 1 = k + Len(s)
          /\ Len(s) \in 0 .. Len(t) - (k - 1) /\ (k - 1) + Len(s) + 1 = k + Len(s)
      <4> HIDE DEF u
      <4> QED BY <1>0, <2>2, <2>3, <3>1
    <3>6. SubSeq(u, e + 1, Len(u)) = v /\ SubSeq(u, 1, e) = head
      <4>1. /\ SubSeq(SubSeq(t, d + 1, Len(t)), e + 1, Len(SubSeq(t, d + 1, Len(t))))
                 = SubSeq(t, d + e + 1, Len(t))
            /\ SubSeq(SubSeq(t, d + 1, Len(t)), 1, e) = SubSeq(t, d + 1, d + e)
        <5> HIDE DEF d, e
        <5> QED BY <2>2, <3>5, CutAgain
      <4> HIDE DEF d, e
      <4> QED BY <2>2, <3>5, <4>1
    <3>7. /\ v \in Text /\ Len(v) = Len(t) - (k - 1)
          /\ \A j \in 1 .. Len(v) : v[j] = t[j + (k - 1)]
                                    /\ (j \in HitsOf(s, v) <=> j + (k - 1) \in HitsOf(s, t))
      <4>1. v = SubSeq(t, (k - 1) + 1, Len(t))
        BY <3>5
      <4> HIDE DEF v
      <4> QED BY <3>5, <4>1, HitsShift
    <3>8. Len(s) \in 0 .. Len(v) /\ SubSeq(v, Len(s) + 1, Len(v)) = z
      <4>1. SubSeq(SubSeq(t, (k - 1) + 1, Len(t)), Len(s) + 1, Len(SubSeq(t, (k - 1) + 1, Len(t))))
              = SubSeq(t, (k - 1) + Len(s) + 1, Len(t))
        BY <3>5, CutAgain
      <4> QED BY <1>0, <3>5, <3>7, <4>1
    <3>9. 1 \in HitsOf(s, v) /\ 1 \in 1 .. Len(v) /\ 1 + Len(s) - 1 <= Len(v)
      <4>1. 1 \in 1 .. Len(v) /\ 1 + (k - 1) = k
        <5> HIDE DEF v
        <5> QED BY <1>0, <3>1, <3>7
      <4>2. 1 \in HitsOf(s, v)
        <5> HIDE DEF v
        <5> QED BY <3>1, <3>7, <4>1
      <4>3. 1 + Len(s) - 1 <= Len(v)
        <5> HIDE DEF v
        <5> QED BY <1>0, <3>8
      <4> QED BY <4>1, <4>2, <4>3
    <3>10. head \in Text /\ z \in Text
      <4>1. i \in 1 .. Len(t) + 1 /\ k - 1 \in i - 1 .. Len(t)
        BY <1>0, <3>1
      <4>2. k + Len(s) \in 1 .. Len(t) + 1 /\ Len(t) \in (k + Len(s)) - 1 .. Len(t)
        BY <1>0, <3>1
      <4> QED BY <4>1, <4>2, CutIs
    <3> HIDE DEF u, v, z, head, r, d, e
    <3>11. ASSUME NEW x \in Text
           PROVE  RedactedOf(s, u \o x) = (head \o <<Marker>> \o r.out) \o RedactedOf(s, r.rest \o x)
      <4>1. ASSUME NEW j \in 1 .. e
            PROVE  j \notin HitsOf(s, u \o x)
        <5>1. j \in 1 .. Len(u) /\ j + Len(s) - 1 <= Len(u)
          BY <1>0, <2>2, <2>3, <3>1, <3>5
        <5>2. j \in HitsOf(s, u \o x) <=> j \in HitsOf(s, u)
          BY <2>3, <5>1, HitsOfMore
        <5>3. j \in HitsOf(s, u) <=> j + d \in HitsOf(s, t)
          BY <2>3, <5>1
        <5>4. j + d >= i /\ ~(k <= j + d)
          BY <1>0, <2>2, <3>5, <3>1
        <5> QED BY <3>1, <5>2, <5>3, <5>4
      <4>2. u \o x \in Text /\ e \in 0 .. Len(u \o x)
        <5>1. u \o x \in Text /\ Len(u \o x) = Len(u) + Len(x)
          BY <2>3, CatIs
        <5>2. Len(u) \in Nat /\ Len(x) \in Nat
          BY <2>3 DEF Text
        <5> QED BY <3>5, <5>1, <5>2
      <4>3. RedactedOf(s, u \o x)
              = SubSeq(u \o x, 1, e) \o RedactedOf(s, SubSeq(u \o x, e + 1, Len(u \o x)))
        BY <4>1, <4>2, CleanPart
      <4>4. RedactedOf(s, u \o x) = head \o RedactedOf(s, v \o x)
        BY <2>3, <3>5, <3>6, <4>3, CutOfMore
      <4>5. v \o x \in Text /\ 1 \in HitsOf(s, v \o x)
        BY <3>7, <3>9, CatIs, HitsOfMore
      <4>6. RedactedOf(s, v \o x)
              = <<Marker>> \o RedactedOf(s, SubSeq(v \o x, Len(s) + 1, Len(v \o x)))
        BY <4>5, RedactionStep
      <4>7. SubSeq(v \o x, Len(s) + 1, Len(v \o x)) = z \o x
        BY <3>7, <3>8, CutOfMore
      <4>8. RedactedOf(s, z \o x) = r.out \o RedactedOf(s, r.rest \o x)
        BY <3>3 DEF ScansTo
      <4>9. RedactedOf(s, r.rest \o x) \in Relayed
        BY <3>4, CatIs, RedactionStep
      <4> DEFINE more == RedactedOf(s, r.rest \o x)
      <4>10. RedactedOf(s, u \o x) = head \o (<<Marker>> \o (r.out \o more))
        BY <4>4, <4>6, <4>7, <4>8
      <4>11. head \in Relayed /\ <<Marker>> \in Relayed /\ r.out \in Relayed /\ more \in Relayed
        BY <3>4, <3>10, <4>9, Relaying
      <4> HIDE DEF more
      <4>12. (head \o <<Marker>> \o r.out) \o more = head \o (<<Marker>> \o (r.out \o more))
        <5>1. head \o <<Marker>> \in Relayed
          BY <4>11, Relaying
        <5>2. (head \o <<Marker>> \o r.out) \o more = (head \o <<Marker>>) \o (r.out \o more)
          BY <4>11, <5>1, Relaying
        <5>3. r.out \o more \in Relayed
          BY <4>11, Relaying
        <5>4. (head \o <<Marker>>) \o (r.out \o more) = head \o (<<Marker>> \o (r.out \o more))
          BY <4>11, <5>3, Relaying
        <5> QED BY <5>2, <5>4
      <4> QED BY <4>10, <4>12 DEF more
    <3>12. Marker \in Range(head \o <<Marker>> \o r.out) /\ head \o <<Marker>> \o r.out \in Relayed
      BY <3>4, <3>10, Relaying, Marked
    <3>13. HitsOf(s, r.rest) = {}
      BY <3>3 DEF ScansTo
    <3> QED BY <2>4, <2>7, <3>2, <3>4, <3>11, <3>12, <3>13 DEF ScansTo, Scanned, u
  <2> QED BY <2>6, <2>7
<1>3. S = Nat
  <2>1. S \in SUBSET Nat
    OBVIOUS
  <2> HIDE DEF S
  <2> QED BY <1>2, <2>1, Induction
<1>4. ScansTo(s, SubSeq(t, 1, Len(t)), f[1])
  <2>1. Len(t) + 1 - 1 \in S /\ 1 \in 1 .. Len(t) + 1
    <3> HIDE DEF S
    <3> QED BY <1>0, <1>3
  <2> QED BY <2>1
<1>5. SubSeq(t, 1, Len(t)) = t
  BY SubSeqFull DEF Text
<1> QED BY <1>1, <1>4, <1>5

\* The tail that is held back.
KeepOf(s, rest) ==
  Max({k \in 0 .. Len(s) - 1 :
         k <= Len(rest) /\ SubSeq(rest, Len(rest) - k + 1, Len(rest)) = SubSeq(s, 1, k)})

LEMMA KeepIs ==
  ASSUME NEW s \in SomeSecret, NEW r \in Text
  PROVE  /\ KeepOf(s, r) \in 0 .. Len(s) - 1 /\ KeepOf(s, r) <= Len(r)
         /\ \A k \in 0 .. Len(s) - 1 :
              k <= Len(r) /\ SubSeq(r, Len(r) - k + 1, Len(r)) = SubSeq(s, 1, k) => k <= KeepOf(s, r)
<1> DEFINE K == {k \in 0 .. Len(s) - 1 :
                   k <= Len(r) /\ SubSeq(r, Len(r) - k + 1, Len(r)) = SubSeq(s, 1, k)}
           gaps == {n \in Nat : Len(s) - n \in K}
<1>0. Len(s) \in Nat \ {0} /\ Len(r) \in Nat
  BY DEF SomeSecret, Text
<1>1. 0 \in K
  <2>1. SubSeq(r, Len(r) - 0 + 1, Len(r)) = <<>>
    BY <1>0, SubSeqEmpty
  <2>2. SubSeq(s, 1, 0) = <<>>
    BY SubSeqEmpty
  <2> QED BY <1>0, <2>1, <2>2
<1>2. K \subseteq 0 .. Len(s) - 1
  OBVIOUS
<1> HIDE DEF K
<1>3. Len(s) \in gaps /\ gaps \in SUBSET Nat
  BY <1>0, <1>1
<1>4. PICK n \in gaps : \A m \in gaps : n <= m
  <2> HIDE DEF gaps
  <2> QED BY <1>3, Smallest
<1>5. Len(s) - n \in K /\ \A k \in K : k <= Len(s) - n
  <2>1. \A k \in K : Len(s) - k \in gaps /\ k \in Nat
    BY <1>0, <1>2
  <2>2. n \in Nat /\ Len(s) - n \in K
    BY <1>4
  <2>3. \A k \in K : n <= Len(s) - k
    BY <1>4, <2>1
  <2> HIDE DEF gaps
  <2> QED BY <1>0, <1>2, <2>1, <2>2, <2>3
<1>6. Max(K) \in K /\ \A k \in K : Max(K) >= k
  <2>1. \E x \in K : \A k \in K : x >= k
    <3>1. \A k \in K : Len(s) - n >= k
      <4>1. n \in Nat /\ K \subseteq Nat
        BY <1>2, <1>4
      <4> QED BY <1>0, <1>5, <4>1
    <3> QED BY <1>5, <3>1
  <2> QED BY <2>1 DEF Max
<1>7. KeepOf(s, r) = Max(K)
  BY DEF KeepOf, K
<1>8. Max(K) \in 0 .. Len(s) - 1
  BY <1>2, <1>6
<1>9. \A k \in K : k <= Max(K)
  BY <1>0, <1>2, <1>6, <1>8
<1>10. Max(K) <= Len(r)
  BY <1>6 DEF K
<1>11. \A k \in 0 .. Len(s) - 1 :
         k <= Len(r) /\ SubSeq(r, Len(r) - k + 1, Len(r)) = SubSeq(s, 1, k) => k \in K
  BY DEF K
<1> QED BY <1>7, <1>8, <1>9, <1>10, <1>11

\* What is let go of a rest without a hit is beyond the reach of any hit to
\* come, and what is held back is none yet.
LEMMA KeptBack ==
  ASSUME NEW s \in SomeSecret, NEW r \in Text, HitsOf(s, r) = {}
  PROVE  LET free == Len(r) - KeepOf(s, r)
             kept == SubSeq(r, free + 1, Len(r))
         IN /\ SubSeq(r, 1, free) \in Text /\ kept \in Text /\ Len(kept) < Len(s)
            /\ \A x \in Text :
                 RedactedOf(s, r \o x) = SubSeq(r, 1, free) \o RedactedOf(s, kept \o x)
<1> DEFINE keep == KeepOf(s, r)
           free == Len(r) - keep
           kept == SubSeq(r, free + 1, Len(r))
<1>0. Len(s) \in Nat \ {0} /\ Len(r) \in Nat
  BY DEF SomeSecret, Text
<1>1. /\ keep \in 0 .. Len(s) - 1 /\ keep <= Len(r)
      /\ \A k \in 0 .. Len(s) - 1 :
           k <= Len(r) /\ SubSeq(r, Len(r) - k + 1, Len(r)) = SubSeq(s, 1, k) => k <= keep
  BY KeepIs
<1> HIDE DEF keep
<1>2. free \in 0 .. Len(r) /\ free \in Nat
  BY <1>0, <1>1
<1>3. SubSeq(r, 1, free) \in Text
  <2>1. 1 \in 1 .. Len(r) + 1 /\ free \in 1 - 1 .. Len(r)
    BY <1>0, <1>2
  <2> HIDE DEF free
  <2> QED BY <2>1, CutIs
<1>4. kept \in Text /\ Len(kept) < Len(s)
  <2>1. free + 1 \in 1 .. Len(r) + 1 /\ Len(r) \in (free + 1) - 1 .. Len(r)
    BY <1>0, <1>2
  <2>2. kept \in Text /\ Len(kept) = Len(r) - (free + 1) + 1
    <3> HIDE DEF free
    <3> QED BY <2>1, CutIs
  <2> HIDE DEF kept
  <2> QED BY <1>0, <1>1, <2>2
<1>5. ASSUME NEW x \in Text
      PROVE  RedactedOf(s, r \o x) = SubSeq(r, 1, free) \o RedactedOf(s, kept \o x)
  <2>1. ASSUME NEW i \in 1 .. free, i \in HitsOf(s, r \o x)
        PROVE  FALSE
    <3>1. i \in 1 .. Len(r)
      BY <1>0, <1>2
    <3>2. CASE i + Len(s) - 1 <= Len(r)
      <4>1. i \in HitsOf(s, r)
        BY <2>1, <3>1, <3>2, HitsOfMore
      <4> QED BY <4>1
    <3>3. CASE ~(i + Len(s) - 1 <= Len(r))
      <4> DEFINE k == Len(r) - i + 1
                 a == SubSeq(r, Len(r) - k + 1, Len(r))
                 b == SubSeq(s, 1, k)
      <4>1. k \in 1 .. Len(s) - 1 /\ k <= Len(r) /\ ~(k <= keep) /\ Len(r) - k + 1 = i
        BY <1>0, <1>1, <3>1, <3>3, <2>1
      <4>2. /\ Len(r \o x) = Len(r) + Len(x) /\ r \o x \in Text /\ Len(x) \in Nat
            /\ \A j \in 1 .. Len(r) : (r \o x)[j] = r[j]
        <5>1. Len(x) \in Nat
          BY DEF Text
        <5> QED BY <1>0, <5>1, CatIs
      <4>3. i \in 1 .. Len(r \o x)
        BY <1>0, <3>1, <4>2
      <4>4. \A j \in 1 .. Len(s) : (r \o x)[i + j - 1] = s[j]
        BY <2>1, <4>2, <4>3, HitIs
      <4>5. a \in Text /\ Len(a) = k /\ \A j \in 1 .. k : a[j] = r[i + j - 1]
        <5>1. i \in 1 .. Len(r) + 1 /\ Len(r) \in i - 1 .. Len(r)
          BY <1>0, <3>1
        <5>2. a = SubSeq(r, i, Len(r))
          <6> HIDE DEF k
          <6> QED BY <4>1
        <5>3. /\ SubSeq(r, i, Len(r)) \in Text /\ Len(SubSeq(r, i, Len(r))) = Len(r) - i + 1
              /\ \A j \in 1 .. Len(r) - i + 1 : SubSeq(r, i, Len(r))[j] = r[i + j - 1]
          BY <5>1, CutIs
        <5> HIDE DEF a
        <5> QED BY <5>2, <5>3
      <4>6. b \in Text /\ Len(b) = k /\ \A j \in 1 .. k : b[j] = s[j]
        <5> HIDE DEF k
        <5>1. 1 \in 1 .. Len(s) + 1 /\ k \in 1 - 1 .. Len(s)
          BY <1>0, <4>1
        <5>2. b \in Text /\ Len(b) = k - 1 + 1 /\ \A j \in 1 .. k - 1 + 1 : b[j] = s[1 + j - 1]
          BY <5>1, CutIs DEF SomeSecret
        <5> HIDE DEF b
        <5> QED BY <4>1, <5>2
      <4>7. \A j \in 1 .. k : a[j] = b[j]
        <5> SUFFICES ASSUME NEW j \in 1 .. k
                     PROVE  a[j] = b[j]
          OBVIOUS
        <5> HIDE DEF a, b
        <5>1. j \in 1 .. Len(s) /\ i + j - 1 \in 1 .. Len(r)
          BY <1>0, <3>1, <4>1
        <5> HIDE DEF k
        <5> QED BY <4>2, <4>4, <4>5, <4>6, <5>1
      <4>8. a = b
        <5> HIDE DEF a, b, k
        <5> QED BY <4>5, <4>6, <4>7, SeqEqual DEF Text
      <4>9. k \in 0 .. Len(s) - 1
        BY <1>0, <4>1
      <4> HIDE DEF k
      <4> QED BY <1>1, <4>1, <4>8, <4>9
    <3> QED BY <3>2, <3>3
  <2>2. r \o x \in Text /\ free \in 0 .. Len(r \o x)
    <3>1. r \o x \in Text /\ Len(r \o x) = Len(r) + Len(x) /\ Len(x) \in Nat
      BY CatIs DEF Text
    <3> HIDE DEF free
    <3> QED BY <1>0, <1>2, <3>1
  <2> HIDE DEF free
  <2>3. RedactedOf(s, r \o x)
          = SubSeq(r \o x, 1, free) \o RedactedOf(s, SubSeq(r \o x, free + 1, Len(r \o x)))
    BY <2>1, <2>2, CleanPart
  <2> QED BY <1>2, <2>3, CutOfMore
<1> QED BY <1>3, <1>4, <1>5 DEF keep

-----------------------------------------------------------------------------
(* The stream.                                                             *)

\* Whatever is still to come of the body, what was relayed is the beginning of
\* its redaction and the tail held back all that the rest depends on.
StreamInv ==
  /\ secret \in SomeSecret /\ body \in Text /\ carry \in Text /\ out \in Relayed
  /\ Len(carry) < Len(secret) \/ ended
  /\ ~ended => \A x \in Text : RedactedOf(secret, body \o x) = out \o RedactedOf(secret, carry \o x)
  /\ out \o carry = RedactedOf(secret, body)
  /\ audited = IF Marker \in Range(out) THEN 1 ELSE 0

LEMMA StringsAre ==
  ASSUME NEW lo \in Nat, NEW hi \in Nat, NEW t \in Strings(lo, hi)
  PROVE  t \in Text /\ Len(t) >= lo
<1>1. PICK m \in 0 .. hi : t \in [1 .. m -> Byte]
  BY DEF Strings, SeqOf
<1>2. t \in Text
  BY <1>1 DEF Text
<1> QED BY <1>2 DEF Strings

LEMMA InitStream == RedactInit => StreamInv
<1> SUFFICES ASSUME RedactInit
             PROVE  StreamInv
  OBVIOUS
<1>1. secret \in SomeSecret /\ Len(secret) \in Nat \ {0}
  <2>1. secret \in Text /\ Len(secret) >= 1
    BY StringsAre, RedactAssumption DEF RedactInit
  <2> QED BY <2>1 DEF SomeSecret, Text
<1>2. <<>> \in Text /\ Len(<<>>) = 0
  BY DEF Text
<1>3. \A x \in Text : RedactedOf(secret, <<>> \o x) = <<>> \o RedactedOf(secret, <<>> \o x)
  BY <1>1, <1>2, CatIs, RedactionStep, Relaying
<1>4. <<>> \o <<>> = RedactedOf(secret, <<>>)
  <2>1. RedactedOf(secret, <<>>) = <<>>
    BY <1>1, <1>2, RedactionStep
  <2> QED BY <2>1, Relaying
<1> QED BY <1>1, <1>2, <1>3, <1>4, Relaying, Marked DEF RedactInit, StreamInv

LEMMA ChunkKeeps ==
  ASSUME StreamInv, NEW chunk \in Text, Chunk(chunk)
  PROVE  StreamInv'
<1> DEFINE buf == carry \o chunk
           done == ScanOf(secret, buf)
           rest == done.rest
           free == Len(rest) - KeepOf(secret, rest)
           passed == SubSeq(rest, 1, free)
           kept == SubSeq(rest, free + 1, Len(rest))
<1>1. /\ ~ended /\ ~ended' /\ secret' = secret /\ body' = body \o chunk
      /\ out' = out \o done.out \o passed /\ carry' = kept
      /\ audited' = IF audited = 0 /\ HitsOf(secret, buf) # {} THEN 1 ELSE audited
  BY DEF Chunk, AuditHit, Scan, Keep, Hits, ScanOf, KeepOf, HitsOf
<1>2. /\ secret \in SomeSecret /\ body \in Text /\ carry \in Text /\ out \in Relayed
      /\ \A x \in Text : RedactedOf(secret, body \o x) = out \o RedactedOf(secret, carry \o x)
      /\ audited = IF Marker \in Range(out) THEN 1 ELSE 0
  BY <1>1 DEF StreamInv
<1>3. buf \in Text /\ body \o chunk \in Text
  BY <1>2, CatIs
<1> HIDE DEF buf
<1>4. ScansTo(secret, buf, done)
  BY <1>2, <1>3, ScanIs
<1> HIDE DEF done
<1>5. done.out \in Relayed /\ rest \in Text /\ HitsOf(secret, rest) = {}
  BY <1>4 DEF ScansTo, Scanned
<1> HIDE DEF rest
<1>6. /\ passed \in Text /\ kept \in Text /\ Len(kept) < Len(secret)
      /\ \A x \in Text : RedactedOf(secret, rest \o x) = passed \o RedactedOf(secret, kept \o x)
  BY <1>2, <1>5, KeptBack
<1> HIDE DEF free, passed, kept
<1>7. passed \in Relayed /\ out \o done.out \in Relayed /\ out \o done.out \o passed \in Relayed
  BY <1>2, <1>5, <1>6, Relaying
<1>8. ASSUME NEW x \in Text
      PROVE  RedactedOf(secret, (body \o chunk) \o x)
               = (out \o done.out \o passed) \o RedactedOf(secret, kept \o x)
  <2> DEFINE more == RedactedOf(secret, kept \o x)
  <2>1. chunk \o x \in Text /\ kept \o x \in Text /\ more \in Relayed
    BY <1>2, <1>6, CatIs, RedactionStep
  <2>2. (body \o chunk) \o x = body \o (chunk \o x) /\ buf \o x = carry \o (chunk \o x)
    <3>1. \A a, b, d \in Text : (a \o b) \o d = a \o (b \o d)
      BY ConcatAssociative DEF Text
    <3> QED BY <1>2, <3>1 DEF buf
  <2>3. RedactedOf(secret, body \o (chunk \o x)) = out \o RedactedOf(secret, buf \o x)
    BY <1>2, <2>1, <2>2
  <2>4. RedactedOf(secret, buf \o x) = done.out \o (passed \o more)
    BY <1>4, <1>6 DEF ScansTo, rest
  <2> HIDE DEF more
  <2>5. passed \o more \in Relayed
    BY <1>7, <2>1, Relaying
  <2>6. (out \o done.out \o passed) \o more = (out \o done.out) \o (passed \o more)
    BY <1>7, <2>1, Relaying
  <2>7. (out \o done.out) \o (passed \o more) = out \o (done.out \o (passed \o more))
    BY <1>2, <1>5, <2>5, Relaying
  <2> QED BY <2>2, <2>3, <2>4, <2>6, <2>7 DEF more
<1>9. (out \o done.out \o passed) \o kept = RedactedOf(secret, body \o chunk)
  <2>1. <<>> \in Text /\ (body \o chunk) \o <<>> = body \o chunk /\ kept \o <<>> = kept
    BY <1>3, <1>6, ConcatEmptySeq DEF Text
  <2>2. RedactedOf(secret, kept) = kept
    BY <1>2, <1>6, ShortIsClean, CleanIsKept
  <2> QED BY <1>8, <2>1, <2>2
<1>10. Marker \in Range(out \o done.out \o passed) <=> Marker \in Range(out) \/ HitsOf(secret, buf) # {}
  <2>1. Marker \in Range(done.out) <=> HitsOf(secret, buf) # {}
    BY <1>4 DEF ScansTo
  <2> QED BY <1>2, <1>5, <1>6, <1>7, <2>1, Marked
<1>11. audited' = IF Marker \in Range(out') THEN 1 ELSE 0
  BY <1>1, <1>2, <1>10
<1> QED BY <1>1, <1>2, <1>3, <1>6, <1>7, <1>8, <1>9, <1>11 DEF StreamInv

LEMMA FlushKeeps ==
  ASSUME StreamInv, Flush
  PROVE  StreamInv'
<1>1. /\ ended' /\ secret' = secret /\ body' = body /\ audited' = audited
      /\ out' = out \o carry /\ carry' = <<>>
      /\ secret \in SomeSecret /\ body \in Text /\ carry \in Relayed /\ out \in Relayed
      /\ out \o carry = RedactedOf(secret, body)
  BY Relaying DEF Flush, StreamInv
<1>2. <<>> \in Text /\ out \o carry \in Relayed /\ (out \o carry) \o <<>> = out \o carry
  <2>1. out \o carry \in Relayed
    BY <1>1, Relaying
  <2> QED BY <2>1, Relaying DEF Text
<1>3. Marker \in Range(out \o carry) <=> Marker \in Range(out)
  BY <1>1, Marked DEF StreamInv
<1> QED BY <1>1, <1>2, <1>3 DEF StreamInv

\* Redacted and Hits are RedactedOf and HitsOf of the secret in the state.
LEMMA StreamIsRedaction == StreamInv => ChunksDoNotMatter
BY DEF StreamInv, ChunksDoNotMatter, Redacted, RedactedOf, Hits, HitsOf

\* For secrets and bodies of any length and any way to cut a body into chunks,
\* what is relayed with the tail held back is the redaction of the whole body,
\* and one event is recorded exactly when something was redacted.
THEOREM ChunkingIsInvisible == RedactSpec => []ChunksDoNotMatter
<1>1. StreamInv /\ [RedactNext]_redactVars => StreamInv'
  <2> SUFFICES ASSUME StreamInv, [RedactNext]_redactVars
               PROVE  StreamInv'
    OBVIOUS
  <2>1. ASSUME NEW chunk \in Strings(1, MaxChunk), Chunk(chunk)
        PROVE  StreamInv'
    BY <2>1, StringsAre, RedactAssumption, ChunkKeeps
  <2>2. CASE Flush
    BY <2>2, FlushKeeps
  <2>3. CASE UNCHANGED redactVars
    BY <2>3 DEF redactVars, StreamInv
  <2> QED BY <2>1, <2>2, <2>3 DEF RedactNext
<1> QED BY <1>1, InitStream, StreamIsRedaction, PTL DEF RedactSpec

-----------------------------------------------------------------------------
(* Paths.  Folds over the positions of a sequence, and induction along one. *)

\* g[n] takes what was made of the first n - 1 elements one element further.
Steps(V, N, base, g) == N \in Nat /\ base \in V /\ g \in [1 .. N -> [V -> V]]
Fold(f, V, N, base, g) ==
  /\ f \in [0 .. N -> V] /\ f[0] = base
  /\ \A n \in 1 .. N : f[n] = g[n][f[n - 1]]

LEMMA Folding ==
  ASSUME NEW V, NEW N, NEW base, NEW g, Steps(V, N, base, g)
  PROVE  \E f : Fold(f, V, N, base, g)
<1> USE DEF Steps, Fold
<1> DEFINE D == 0 .. N
           rank == [n \in D |-> n]
           step == [f \in [D -> V] |-> [n \in D |-> IF n = 0 THEN base ELSE g[n][f[n - 1]]]]
<1>1. rank \in [D -> 0 .. N]
  OBVIOUS
<1>2. step \in [[D -> V] -> [D -> V]]
  <2>1. ASSUME NEW f \in [D -> V], NEW n \in D, n # 0
        PROVE  g[n][f[n - 1]] \in V
    <3>1. n - 1 \in D /\ n \in 1 .. N
      BY <2>1
    <3> QED BY <3>1
  <2>2. \A f \in [D -> V], n \in D : (IF n = 0 THEN base ELSE g[n][f[n - 1]]) \in V
    BY <2>1
  <2> HIDE DEF D
  <2> QED BY <2>2
<1>3. ASSUME NEW f \in [D -> V], NEW h \in [D -> V], NEW n \in D,
             \A m \in D : rank[m] < rank[n] => f[m] = h[m]
      PROVE  step[f][n] = step[h][n]
  <2>1. n # 0 => f[n - 1] = h[n - 1]
    <3>1. n # 0 => n - 1 \in D /\ n - 1 < n
      OBVIOUS
    <3> QED BY <1>3, <3>1
  <2> QED BY <2>1
<1>4. Computes(step, D, V, rank, N)
  <2> HIDE DEF D, rank, step
  <2> QED BY <1>1, <1>2, <1>3 DEF Computes
<1>5. PICK f \in [D -> V] : f = step[f]
  <2> HIDE DEF D, rank, step
  <2> QED BY <1>4, Recursion
<1>6. f = [n \in D |-> IF n = 0 THEN base ELSE g[n][f[n - 1]]]
  BY <1>5
<1> HIDE DEF step, rank
<1>7. f[0] = base /\ \A n \in 1 .. N : f[n] = g[n][f[n - 1]]
  BY <1>6
<1> QED BY <1>7

LEMMA Upward ==
  ASSUME NEW N \in Nat, NEW P, 0 \in P, \A n \in 1 .. N : n - 1 \in P => n \in P
  PROVE  0 .. N \subseteq P
<1> DEFINE S == {n \in Nat : n <= N => n \in P}
<1>1. ASSUME NEW n \in Nat, \A m \in Nat : m < n => m \in S
      PROVE  n \in S
  <2>1. CASE n = 0
    BY <2>1
  <2>2. CASE n # 0
    <3>1. n - 1 \in Nat /\ n - 1 < n
      BY <2>2
    <3>2. n - 1 \in S
      BY <1>1, <3>1
    <3> QED BY <2>2, <3>2
  <2> QED BY <2>1, <2>2
<1>2. S = Nat
  <2>1. S \in SUBSET Nat
    OBVIOUS
  <2> HIDE DEF S
  <2> QED BY <1>1, <2>1, Induction
<1> QED BY <1>2

LEMMA Growing ==
  ASSUME NEW E, NEW P, <<>> \in P, \A q \in Seq(E), e \in E : q \in P => Append(q, e) \in P
  PROVE  Seq(E) \subseteq P
<1> DEFINE Q == {n \in Nat : \A q \in Seq(E) : Len(q) = n => q \in P}
<1>1. 0 \in Q
  BY EmptySeq
<1>2. ASSUME NEW n \in Nat \ {0}, n - 1 \in Q
      PROVE  n \in Q
  <2> SUFFICES ASSUME NEW q \in Seq(E), Len(q) = n
               PROVE  q \in P
    OBVIOUS
  <2>1. PICK r \in Seq(E), e \in E : q = Append(r, e)
    BY EmptySeq, SequenceEmptyOrAppend
  <2>2. Len(r) = n - 1
    BY <2>1
  <2>3. r \in P
    BY <1>2, <2>2
  <2> QED BY <2>1, <2>3
<1>3. ASSUME NEW q \in Seq(E)
      PROVE  q \in P
  <2>1. Len(q) \in Nat
    OBVIOUS
  <2>2. 0 .. Len(q) \subseteq Q
    <3> HIDE DEF Q
    <3>1. \A n \in 1 .. Len(q) : n - 1 \in Q => n \in Q
      BY <1>2
    <3> QED BY <1>1, <2>1, <3>1, Upward
  <2>3. Len(q) \in Q
    <3> HIDE DEF Q
    <3> QED BY <2>1, <2>2
  <2> QED BY <2>3
<1> QED BY <1>3

-----------------------------------------------------------------------------
(* Splitting at slashes.  C is the set of characters of a text.             *)

Words(C) == Seq(C \ {Slash})
Lists(C) == Seq(Words(C)) \ {<<>>}

SplitCell(s, f, n) ==
  IF n = 0 THEN << <<>> >>
  ELSE LET segs == f[n - 1] IN
       IF s[n] = Slash THEN Append(segs, <<>>)
       ELSE [segs EXCEPT ![Len(segs)] = Append(@, s[n])]

\* One more character for a list of segments.
Longer(segs, ch) ==
  IF ch = Slash THEN Append(segs, <<>>) ELSE [segs EXCEPT ![Len(segs)] = Append(@, ch)]

LEMMA LongerIs ==
  ASSUME NEW C, NEW segs \in Lists(C), NEW ch \in C
  PROVE  Longer(segs, ch) \in Lists(C)
<1>1. segs \in Seq(Words(C)) /\ Len(segs) \in 1 .. Len(segs)
  BY EmptySeq DEF Lists
<1>2. CASE ch = Slash
  <2>1. <<>> \in Words(C)
    BY EmptySeq DEF Words
  <2>2. Append(segs, <<>>) \in Seq(Words(C)) /\ Append(segs, <<>>) # <<>>
    BY <1>1, <2>1, AppendProperties
  <2> QED BY <1>2, <2>2 DEF Longer, Lists
<1>3. CASE ch # Slash
  <2> DEFINE w == segs[Len(segs)]
             r == [segs EXCEPT ![Len(segs)] = Append(w, ch)]
  <2>1. w \in Words(C)
    BY <1>1, ElementOfSeq
  <2>2. Append(w, ch) \in Words(C)
    <3> HIDE DEF w
    <3> QED BY <1>3, <2>1, AppendProperties DEF Words
  <2> HIDE DEF w
  <2>3. r \in Seq(Words(C)) /\ Len(r) = Len(segs)
    BY <1>1, <2>2, ExceptSeq
  <2>4. r # <<>>
    <3> HIDE DEF r
    <3> QED BY <1>1, <2>3, EmptySeq
  <2> QED BY <1>3, <2>3, <2>4 DEF Longer, Lists, w
<1> QED BY <1>2, <1>3

LEMMA SplitCellIs ==
  ASSUME NEW s, NEW f, NEW n
  PROVE  /\ n = 0 => SplitCell(s, f, n) = << <<>> >>
         /\ n # 0 => SplitCell(s, f, n) = Longer(f[n - 1], s[n])
BY DEF SplitCell, Longer

LEMMA SplitTable ==
  ASSUME NEW C, NEW s \in Seq(C)
  PROVE  \E f : /\ f[0] = << <<>> >> /\ \A n \in 1 .. Len(s) : f[n] = Longer(f[n - 1], s[n])
                /\ \A n \in 0 .. Len(s) : f[n] \in Lists(C)
                /\ Segments(s) = f[Len(s)]
<1> DEFINE N == Len(s)
           V == Lists(C)
           g == [n \in 1 .. N |-> [v \in V |-> Longer(v, s[n])]]
<1>0. N \in Nat /\ \A n \in 1 .. N : s[n] \in C
  OBVIOUS
<1>1. << <<>> >> \in V
  <2>1. <<>> \in Words(C)
    BY EmptySeq DEF Words
  <2>2. << <<>> >> \in Seq(Words(C))
    BY <2>1
  <2> QED BY <2>2 DEF Lists
<1> HIDE DEF N, V
<1>2. g \in [1 .. N -> [V -> V]]
  BY <1>0, LongerIs DEF V
<1> HIDE DEF g
<1>3. PICK h : Fold(h, V, N, << <<>> >>, g)
  BY <1>0, <1>1, <1>2, Folding DEF Steps
<1>4. h = [n \in 0 .. N |-> SplitCell(s, h, n)]
  <2>1. ASSUME NEW n \in 1 .. N
        PROVE  h[n] = SplitCell(s, h, n)
    <3>1. n - 1 \in 0 .. N /\ n # 0
      BY <1>0
    <3>2. h[n] = Longer(h[n - 1], s[n])
      BY <1>3, <3>1 DEF g, Fold
    <3> QED BY <3>1, <3>2, SplitCellIs
  <2>2. h[0] = SplitCell(s, h, 0) /\ h \in [0 .. N -> V]
    BY <1>3, SplitCellIs DEF Fold
  <2>3. \A n \in 0 .. N : h[n] = SplitCell(s, h, n)
    BY <1>0, <2>1, <2>2
  <2> QED BY <2>2, <2>3
<1> DEFINE f == CHOOSE f : f = [n \in 0 .. N |-> SplitCell(s, f, n)]
<1>5. f = [n \in 0 .. N |-> SplitCell(s, f, n)]
  BY <1>4
<1>6. Segments(s) = f[N]
  BY DEF Segments, SplitCell, N
<1> HIDE DEF f
<1>7. f[0] = << <<>> >> /\ \A n \in 1 .. N : f[n] = Longer(f[n - 1], s[n])
  <2>1. \A n \in 0 .. N : f[n] = SplitCell(s, f, n)
    BY <1>5
  <2>2. 0 \in 0 .. N /\ \A n \in 1 .. N : n \in 0 .. N /\ n # 0
    BY <1>0
  <2> QED BY <2>1, <2>2, SplitCellIs
<1>8. 0 .. N \subseteq {n \in Nat : f[n] \in V}
  <2> DEFINE P == {n \in Nat : f[n] \in V}
  <2>1. 0 \in P
    BY <1>1, <1>7
  <2>2. ASSUME NEW n \in 1 .. N, n - 1 \in P
        PROVE  n \in P
    BY <1>0, <1>7, <2>2, LongerIs DEF V
  <2> HIDE DEF P
  <2>3. 0 .. N \subseteq P
    BY <1>0, <2>1, <2>2, Upward
  <2> QED BY <2>3 DEF P
<1> QED BY <1>6, <1>7, <1>8 DEF N, V

\* Segments, character by character.
LEMMA SplitAppend ==
  ASSUME NEW C, NEW s \in Seq(C)
  PROVE  /\ Segments(s) \in Lists(C) /\ Segments(<<>>) = << <<>> >>
         /\ \A ch \in C : Segments(Append(s, ch)) = Longer(Segments(s), ch)
<1>1. PICK f : /\ f[0] = << <<>> >> /\ \A n \in 1 .. Len(s) : f[n] = Longer(f[n - 1], s[n])
               /\ \A n \in 0 .. Len(s) : f[n] \in Lists(C)
               /\ Segments(s) = f[Len(s)]
  BY SplitTable
<1>2. Segments(<<>>) = << <<>> >>
  <2>1. <<>> \in Seq(C) /\ Len(<<>>) = 0
    BY EmptySeq
  <2> QED BY <2>1, SplitTable
<1>3. ASSUME NEW ch \in C
      PROVE  Segments(Append(s, ch)) = Longer(Segments(s), ch)
  <2> DEFINE r == Append(s, ch)
  <2>1. r \in Seq(C) /\ Len(r) = Len(s) + 1 /\ r[Len(s) + 1] = ch /\ Len(s) \in Nat
        /\ \A n \in 1 .. Len(s) : r[n] = s[n]
    BY AppendProperties
  <2> HIDE DEF r
  <2>2. PICK h : /\ h[0] = << <<>> >> /\ \A n \in 1 .. Len(r) : h[n] = Longer(h[n - 1], r[n])
                 /\ Segments(r) = h[Len(r)]
    BY <2>1, SplitTable
  <2> DEFINE P == {n \in Nat : h[n] = f[n]}
  <2>3. 0 \in P
    BY <1>1, <2>2
  <2>4. ASSUME NEW n \in 1 .. Len(s), n - 1 \in P
        PROVE  n \in P
    BY <1>1, <2>1, <2>2, <2>4
  <2>5. Len(s) \in P
    <3> HIDE DEF P
    <3>1. 0 .. Len(s) \subseteq P
      BY <2>1, <2>3, <2>4, Upward
    <3> QED BY <2>1, <3>1
  <2>6. h[Len(s) + 1] = Longer(h[Len(s)], ch)
    <3>1. Len(s) + 1 \in 1 .. Len(r) /\ (Len(s) + 1) - 1 = Len(s)
      BY <2>1
    <3> QED BY <2>1, <2>2, <3>1
  <2> QED BY <1>1, <2>1, <2>2, <2>5, <2>6 DEF r
<1>4. Segments(s) \in Lists(C)
  BY <1>1
<1> QED BY <1>2, <1>3, <1>4

LEMMA LongerLast ==
  ASSUME NEW C, NEW a \in Seq(Words(C)), NEW w \in Words(C)
  PROVE  /\ Append(a, w) \in Lists(C)
         /\ Longer(Append(a, w), Slash) = Append(Append(a, w), <<>>)
         /\ \A ch \in C \ {Slash} : Longer(Append(a, w), ch) = Append(a, Append(w, ch))
<1> DEFINE segs == Append(a, w)
<1>1. /\ segs \in Seq(Words(C)) /\ Len(segs) = Len(a) + 1 /\ Len(a) \in Nat /\ segs # <<>>
      /\ segs[Len(a) + 1] = w /\ \A n \in 1 .. Len(a) : segs[n] = a[n]
  BY AppendProperties
<1> HIDE DEF segs
<1>2. ASSUME NEW ch \in C \ {Slash}
      PROVE  Longer(segs, ch) = Append(a, Append(w, ch))
  <2> DEFINE v == Append(w, ch)
             r == [segs EXCEPT ![Len(segs)] = v]
             q == Append(a, v)
  <2>1. v \in Words(C)
    BY AppendProperties DEF Words
  <2> HIDE DEF v
  <2>2. r \in Seq(Words(C)) /\ Len(r) = Len(segs)
        /\ \A n \in 1 .. Len(segs) : r[n] = IF n = Len(segs) THEN v ELSE segs[n]
    <3>1. Len(segs) \in 1 .. Len(segs)
      BY <1>1
    <3> QED BY <1>1, <2>1, <3>1, ExceptSeq
  <2>3. q \in Seq(Words(C)) /\ Len(q) = Len(a) + 1 /\ q[Len(a) + 1] = v
        /\ \A n \in 1 .. Len(a) : q[n] = a[n]
    BY <2>1, AppendProperties
  <2>4. Longer(segs, ch) = r
    BY <1>1 DEF Longer, v
  <2> HIDE DEF r, q
  <2>5. \A n \in 1 .. Len(r) : r[n] = q[n]
    BY <1>1, <2>2, <2>3
  <2>6. r = q
    BY <1>1, <2>2, <2>3, <2>5, SeqEqual
  <2> QED BY <2>4, <2>6 DEF q, v
<1>3. Longer(segs, Slash) = Append(segs, <<>>)
  BY DEF Longer
<1> QED BY <1>1, <1>2, <1>3 DEF segs, Lists

LEMMA CatAppend ==
  ASSUME NEW E, NEW a \in Seq(E), NEW b \in Seq(E), NEW e \in E
  PROVE  /\ a \o b \in Seq(E) /\ Append(b, e) \in Seq(E) /\ <<e>> \in Seq(E) /\ <<>> \in Seq(E)
         /\ a \o Append(b, e) = Append(a \o b, e)
         /\ a \o <<>> = a /\ <<>> \o a = a /\ a \o <<e>> = Append(a, e)
<1> DEFINE ab == a \o b
           l == a \o Append(b, e)
           r == Append(ab, e)
<1>1. /\ ab \in Seq(E) /\ Len(ab) = Len(a) + Len(b) /\ Len(a) \in Nat /\ Len(b) \in Nat
      /\ \A n \in 1 .. Len(a) + Len(b) : ab[n] = IF n <= Len(a) THEN a[n] ELSE b[n - Len(a)]
  BY ConcatProperties
<1>2. /\ Append(b, e) \in Seq(E) /\ Len(Append(b, e)) = Len(b) + 1 /\ Append(b, e)[Len(b) + 1] = e
      /\ \A n \in 1 .. Len(b) : Append(b, e)[n] = b[n]
  BY AppendProperties
<1>3. /\ l \in Seq(E) /\ Len(l) = Len(a) + Len(b) + 1
      /\ \A n \in 1 .. Len(l) : l[n] = IF n <= Len(a) THEN a[n] ELSE Append(b, e)[n - Len(a)]
  <2>1. /\ l \in Seq(E) /\ Len(l) = Len(a) + Len(Append(b, e))
        /\ \A n \in 1 .. Len(a) + Len(Append(b, e)) :
             l[n] = IF n <= Len(a) THEN a[n] ELSE Append(b, e)[n - Len(a)]
    BY <1>2, ConcatProperties
  <2> HIDE DEF l
  <2> QED BY <1>1, <1>2, <2>1
<1> HIDE DEF ab, l
<1>4. /\ r \in Seq(E) /\ Len(r) = Len(ab) + 1 /\ r[Len(ab) + 1] = e
      /\ \A n \in 1 .. Len(ab) : r[n] = ab[n]
  BY <1>1, AppendProperties
<1> HIDE DEF r
<1>5. ASSUME NEW n \in 1 .. Len(l)
      PROVE  l[n] = r[n]
  <2>1. CASE n <= Len(a)
    <3>1. n \in 1 .. Len(a) + Len(b) /\ n \in 1 .. Len(ab)
      BY <1>1, <2>1
    <3>2. ab[n] = a[n] /\ r[n] = ab[n]
      BY <1>1, <1>4, <2>1, <3>1
    <3>3. l[n] = a[n]
      BY <1>3, <2>1
    <3> QED BY <3>2, <3>3
  <2>2. CASE n > Len(a) /\ n <= Len(a) + Len(b)
    <3>1. /\ n - Len(a) \in 1 .. Len(b) /\ ~(n <= Len(a))
          /\ n \in 1 .. Len(a) + Len(b) /\ n \in 1 .. Len(ab)
      BY <1>1, <2>2
    <3>2. ab[n] = b[n - Len(a)] /\ r[n] = ab[n]
      BY <1>1, <1>4, <3>1
    <3>3. l[n] = Append(b, e)[n - Len(a)]
      BY <1>3, <3>1
    <3>4. Append(b, e)[n - Len(a)] = b[n - Len(a)]
      BY <1>2, <3>1
    <3> QED BY <3>2, <3>3, <3>4
  <2>3. CASE n = Len(a) + Len(b) + 1
    <3>1. n - Len(a) = Len(b) + 1 /\ ~(n <= Len(a)) /\ n = Len(ab) + 1
      BY <1>1, <2>3
    <3> QED BY <1>2, <1>3, <1>4, <3>1
  <2> QED BY <1>1, <1>3, <2>1, <2>2, <2>3
<1>6. l = r
  BY <1>1, <1>3, <1>4, <1>5, SeqEqual
<1>7. <<e>> \in Seq(E) /\ <<>> \in Seq(E) /\ a \o <<>> = a /\ <<>> \o a = a
  BY ConcatEmptySeq
<1>8. a \o <<e>> = Append(a, e)
  OBVIOUS
<1> QED BY <1>1, <1>2, <1>6, <1>7, <1>8 DEF ab, l, r

\* A word behind a text goes to its last segment, a word behind a slash is a
\* segment of its own.
LEMMA SplitWord ==
  ASSUME NEW C, Slash \in C, NEW s \in Seq(C), NEW w \in Words(C)
  PROVE  /\ \A a \in Seq(Words(C)), v \in Words(C) :
              Segments(s) = Append(a, v) => Segments(s \o w) = Append(a, v \o w)
         /\ Segments(w) = <<w>>
         /\ Segments(s \o <<Slash>> \o w) = Append(Segments(s), w)
<1>0. Words(C) \subseteq Seq(C) /\ <<>> \in Words(C)
  BY DEF Words
<1>1. ASSUME NEW t \in Seq(C), NEW a \in Seq(Words(C)), NEW v \in Words(C),
             Segments(t) = Append(a, v)
      PROVE  \A q \in Words(C) : Segments(t \o q) = Append(a, v \o q)
  <2> DEFINE P == {q \in Words(C) : Segments(t \o q) = Append(a, v \o q)}
  <2>1. <<>> \in P
    <3>1. t \o <<>> = t /\ v \o <<>> = v
      BY ConcatEmptySeq DEF Words
    <3> QED BY <1>0, <1>1, <3>1
  <2>2. ASSUME NEW q \in Words(C), NEW ch \in C \ {Slash}, q \in P
        PROVE  Append(q, ch) \in P
    <3>1. t \o q \in Seq(C) /\ t \o Append(q, ch) = Append(t \o q, ch)
      BY <1>0, CatAppend
    <3>2. /\ v \o q \in Words(C) /\ v \o Append(q, ch) = Append(v \o q, ch)
          /\ Append(q, ch) \in Words(C)
      BY CatAppend DEF Words
    <3>3. Segments(Append(t \o q, ch)) = Longer(Segments(t \o q), ch)
      BY <3>1, SplitAppend
    <3>4. Segments(t \o q) = Append(a, v \o q)
      BY <2>2
    <3>5. Longer(Append(a, v \o q), ch) = Append(a, Append(v \o q, ch))
      <4> DEFINE x == v \o q
      <4>1. x \in Words(C)
        BY <3>2
      <4> HIDE DEF x, P
      <4>2. Longer(Append(a, x), ch) = Append(a, Append(x, ch))
        BY <4>1, LongerLast
      <4> QED BY <4>2 DEF x
    <3> QED BY <3>1, <3>2, <3>3, <3>4, <3>5
  <2> HIDE DEF P
  <2>3. Words(C) \subseteq P
    BY <2>1, <2>2, Growing DEF Words
  <2> QED BY <2>3 DEF P
<1>2. Segments(w) = <<w>>
  <2>1. <<>> \in Seq(C) /\ <<>> \in Seq(Words(C)) /\ Segments(<<>>) = Append(<<>>, <<>>)
    BY SplitAppend
  <2>2. Segments(<<>> \o w) = Append(<<>>, <<>> \o w)
    BY <1>0, <1>1, <2>1
  <2>3. <<>> \o w = w /\ Append(<<>>, w) = <<w>>
    BY ConcatEmptySeq DEF Words
  <2> QED BY <2>2, <2>3
<1>3. Segments(s \o <<Slash>> \o w) = Append(Segments(s), w)
  <2>1. s \o <<Slash>> = Append(s, Slash) /\ Append(s, Slash) \in Seq(C)
    BY CatAppend
  <2>2. Segments(s) \in Seq(Words(C)) /\ Segments(Append(s, Slash)) = Append(Segments(s), <<>>)
    BY SplitAppend DEF Longer, Lists
  <2>3. Segments(Append(s, Slash) \o w) = Append(Segments(s), <<>> \o w)
    BY <1>0, <1>1, <2>1, <2>2
  <2>4. <<>> \o w = w
    BY ConcatEmptySeq DEF Words
  <2> QED BY <2>1, <2>3, <2>4
<1> QED BY <1>1, <1>2, <1>3

JoinCell(segs, f, n) == IF n = 0 THEN <<>> ELSE f[n - 1] \o <<Slash>> \o segs[n]

LEMMA JoinTable ==
  ASSUME NEW C, Slash \in C, NEW s \in Seq(Seq(C))
  PROVE  \E f : /\ f[0] = <<>> /\ \A n \in 1 .. Len(s) : f[n] = f[n - 1] \o <<Slash>> \o s[n]
                /\ \A n \in 0 .. Len(s) : f[n] \in Seq(C)
                /\ Joined(s) = f[Len(s)]
<1> DEFINE N == Len(s)
           V == Seq(C)
           g == [n \in 1 .. N |-> [v \in V |-> v \o <<Slash>> \o s[n]]]
<1>0. N \in Nat /\ (\A n \in 1 .. N : s[n] \in Seq(C)) /\ <<>> \in V
  BY EmptySeq
<1>1. ASSUME NEW v \in Seq(C), NEW w \in Seq(C)
      PROVE  v \o <<Slash>> \o w \in Seq(C)
  <2>1. v \o <<Slash>> \in Seq(C)
    BY CatAppend
  <2> QED BY <2>1, ConcatProperties
<1> HIDE DEF N
<1>2. g \in [1 .. N -> [V -> V]]
  <2>1. \A n \in 1 .. N, v \in V : v \o <<Slash>> \o s[n] \in V
    BY <1>0, <1>1
  <2> HIDE DEF V
  <2> QED BY <2>1
<1> HIDE DEF V, g
<1>3. PICK h : Fold(h, V, N, <<>>, g)
  BY <1>0, <1>2, Folding DEF Steps
<1>4. h = [n \in 0 .. N |-> JoinCell(s, h, n)]
  <2>1. ASSUME NEW n \in 1 .. N
        PROVE  h[n] = JoinCell(s, h, n)
    <3>1. n - 1 \in 0 .. N /\ n # 0
      BY <1>0
    <3> QED BY <1>3, <3>1 DEF g, Fold, JoinCell
  <2>2. h[0] = JoinCell(s, h, 0) /\ h \in [0 .. N -> V]
    BY <1>3 DEF Fold, JoinCell
  <2>3. \A n \in 0 .. N : h[n] = JoinCell(s, h, n)
    BY <1>0, <2>1, <2>2
  <2> QED BY <2>2, <2>3
<1> DEFINE f == CHOOSE f : f = [n \in 0 .. N |-> JoinCell(s, f, n)]
<1>5. f = [n \in 0 .. N |-> JoinCell(s, f, n)]
  BY <1>4
<1>6. Joined(s) = f[N]
  BY DEF Joined, JoinCell, N
<1> HIDE DEF f
<1>7. f[0] = <<>> /\ \A n \in 1 .. N : f[n] = f[n - 1] \o <<Slash>> \o s[n]
  <2>1. \A n \in 0 .. N : f[n] = JoinCell(s, f, n)
    BY <1>5
  <2>2. 0 \in 0 .. N /\ \A n \in 1 .. N : n \in 0 .. N /\ n # 0
    BY <1>0
  <2> QED BY <2>1, <2>2 DEF JoinCell
<1>8. 0 .. N \subseteq {n \in Nat : f[n] \in V}
  <2> DEFINE P == {n \in Nat : f[n] \in V}
  <2>1. 0 \in P
    BY <1>0, <1>7
  <2>2. ASSUME NEW n \in 1 .. N, n - 1 \in P
        PROVE  n \in P
    <3>1. f[n - 1] \in V /\ s[n] \in Seq(C) /\ n \in Nat
      BY <1>0, <2>2
    <3>2. f[n - 1] \o <<Slash>> \o s[n] \in V
      BY <1>1, <3>1 DEF V
    <3> QED BY <1>7, <3>1, <3>2
  <2> HIDE DEF P
  <2>3. 0 .. N \subseteq P
    BY <1>0, <2>1, <2>2, Upward
  <2> QED BY <2>3 DEF P
<1> QED BY <1>6, <1>7, <1>8 DEF N, V

\* Joined, segment by segment.
LEMMA JoinAppend ==
  ASSUME NEW C, Slash \in C, NEW s \in Seq(Seq(C))
  PROVE  /\ Joined(s) \in Seq(C) /\ Joined(<<>>) = <<>>
         /\ \A w \in Seq(C) : Joined(Append(s, w)) = Joined(s) \o <<Slash>> \o w
<1>1. PICK f : /\ f[0] = <<>> /\ \A n \in 1 .. Len(s) : f[n] = f[n - 1] \o <<Slash>> \o s[n]
               /\ \A n \in 0 .. Len(s) : f[n] \in Seq(C)
               /\ Joined(s) = f[Len(s)]
  BY JoinTable
<1>2. Joined(<<>>) = <<>>
  <2>1. <<>> \in Seq(Seq(C)) /\ Len(<<>>) = 0
    BY EmptySeq
  <2> QED BY <2>1, JoinTable
<1>3. ASSUME NEW w \in Seq(C)
      PROVE  Joined(Append(s, w)) = Joined(s) \o <<Slash>> \o w
  <2> DEFINE r == Append(s, w)
  <2>1. r \in Seq(Seq(C)) /\ Len(r) = Len(s) + 1 /\ r[Len(s) + 1] = w /\ Len(s) \in Nat
        /\ \A n \in 1 .. Len(s) : r[n] = s[n]
    BY AppendProperties
  <2> HIDE DEF r
  <2>2. PICK h : /\ h[0] = <<>> /\ \A n \in 1 .. Len(r) : h[n] = h[n - 1] \o <<Slash>> \o r[n]
                 /\ Joined(r) = h[Len(r)]
    BY <2>1, JoinTable
  <2> DEFINE P == {n \in Nat : h[n] = f[n]}
  <2>3. 0 \in P
    BY <1>1, <2>2
  <2>4. ASSUME NEW n \in 1 .. Len(s), n - 1 \in P
        PROVE  n \in P
    <3>1. n \in 1 .. Len(r) /\ n \in Nat /\ h[n - 1] = f[n - 1]
      BY <2>1, <2>4
    <3>2. h[n] = h[n - 1] \o <<Slash>> \o r[n] /\ r[n] = s[n]
      BY <2>1, <2>2, <3>1
    <3>3. f[n] = f[n - 1] \o <<Slash>> \o s[n]
      BY <1>1
    <3> QED BY <3>1, <3>2, <3>3
  <2>5. Len(s) \in P
    <3> HIDE DEF P
    <3>1. 0 .. Len(s) \subseteq P
      BY <2>1, <2>3, <2>4, Upward
    <3> QED BY <2>1, <3>1
  <2>6. h[Len(s) + 1] = h[Len(s)] \o <<Slash>> \o w
    <3>1. Len(s) + 1 \in 1 .. Len(r) /\ (Len(s) + 1) - 1 = Len(s)
      BY <2>1
    <3> QED BY <2>1, <2>2, <3>1
  <2> QED BY <1>1, <2>1, <2>2, <2>5, <2>6 DEF r
<1>4. Joined(s) \in Seq(C)
  BY <1>1, EmptySeq
<1> QED BY <1>2, <1>3, <1>4

\* Joined and Segments over a concatenation.
LEMMA JoinCat ==
  ASSUME NEW C, Slash \in C, NEW a \in Seq(Seq(C)), NEW b \in Seq(Seq(C))
  PROVE  Joined(a \o b) = Joined(a) \o Joined(b)
<1> DEFINE P == {q \in Seq(Seq(C)) : Joined(a \o q) = Joined(a) \o Joined(q)}
<1>0. Joined(a) \in Seq(C)
  BY JoinAppend
<1>1. <<>> \in P
  <2>1. <<>> \in Seq(Seq(C)) /\ a \o <<>> = a /\ Joined(<<>>) = <<>>
    BY ConcatEmptySeq, JoinAppend
  <2>2. Joined(a) \o <<>> = Joined(a)
    BY <1>0, ConcatEmptySeq
  <2> QED BY <2>1, <2>2
<1>2. ASSUME NEW q \in Seq(Seq(C)), NEW w \in Seq(C), q \in P
      PROVE  Append(q, w) \in P
  <2>1. /\ a \o q \in Seq(Seq(C)) /\ Append(q, w) \in Seq(Seq(C))
        /\ a \o Append(q, w) = Append(a \o q, w)
    BY CatAppend
  <2>2. Joined(Append(a \o q, w)) = Joined(a \o q) \o <<Slash>> \o w
    BY <2>1, JoinAppend
  <2>3. Joined(Append(q, w)) = Joined(q) \o <<Slash>> \o w /\ Joined(q) \in Seq(C)
    BY JoinAppend
  <2>4. Joined(a \o q) = Joined(a) \o Joined(q)
    BY <1>2
  <2>5. (Joined(a) \o Joined(q)) \o <<Slash>> \o w = Joined(a) \o (Joined(q) \o <<Slash>> \o w)
    <3> DEFINE x == Joined(a)
               y == Joined(q)
               z == <<Slash>>
    <3>1. x \in Seq(C) /\ y \in Seq(C) /\ z \in Seq(C)
      BY <1>0, <2>3
    <3> HIDE DEF x, y, z, P
    <3>2. ((x \o y) \o z) \o w = x \o ((y \o z) \o w)
      BY <3>1, ConcatAssociative, ConcatProperties, SMTT(30)
    <3> QED BY <3>2 DEF x, y, z
  <2> QED BY <2>1, <2>2, <2>3, <2>4, <2>5
<1> HIDE DEF P
<1>3. Seq(Seq(C)) \subseteq P
  BY <1>1, <1>2, Growing
<1> QED BY <1>3 DEF P

LEMMA SplitJoined ==
  ASSUME NEW C, Slash \in C, NEW s \in Seq(C), NEW K \in Seq(Words(C))
  PROVE  Segments(s \o Joined(K)) = Segments(s) \o K
<1> DEFINE E == Words(C)
           P == {q \in Seq(E) : Segments(s \o Joined(q)) = Segments(s) \o q}
<1>0. Segments(s) \in Seq(E) /\ E \subseteq Seq(C) /\ Seq(E) \subseteq Seq(Seq(C))
  BY SplitAppend DEF Lists, Words
<1>1. <<>> \in P
  <2>1. <<>> \in Seq(E) /\ s \o <<>> = s /\ Joined(<<>>) = <<>>
    <3>1. <<>> \in Seq(Seq(C)) /\ <<>> \in Seq(E)
      OBVIOUS
    <3> QED BY <3>1, ConcatEmptySeq, JoinAppend
  <2> HIDE DEF E
  <2>2. Segments(s) \o <<>> = Segments(s)
    BY <1>0, ConcatEmptySeq
  <2> QED BY <2>1, <2>2
<1>2. ASSUME NEW q \in Seq(E), NEW w \in E, q \in P
      PROVE  Append(q, w) \in P
  <2>0. q \in Seq(Seq(C)) /\ w \in Seq(C)
    BY <1>0
  <2>1. Joined(Append(q, w)) = Joined(q) \o <<Slash>> \o w /\ Joined(q) \in Seq(C)
    BY <2>0, JoinAppend
  <2>2. s \o (Joined(q) \o <<Slash>> \o w) = (s \o Joined(q)) \o <<Slash>> \o w
    <3> DEFINE y == Joined(q)
               z == <<Slash>>
    <3>1. y \in Seq(C) /\ z \in Seq(C) /\ w \in Seq(C)
      BY <2>0, <2>1
    <3> HIDE DEF y, z, P
    <3>2. ((s \o y) \o z) \o w = s \o ((y \o z) \o w)
      BY <3>1, ConcatAssociative, ConcatProperties, SMTT(30)
    <3> QED BY <3>2 DEF y, z
  <2>3. s \o Joined(q) \in Seq(C)
    BY <2>1, ConcatProperties
  <2>4. Segments((s \o Joined(q)) \o <<Slash>> \o w) = Append(Segments(s \o Joined(q)), w)
    BY <2>3, SplitWord
  <2>5. Segments(s \o Joined(q)) = Segments(s) \o q
    BY <1>2
  <2> HIDE DEF E
  <2>6. Append(q, w) \in Seq(E) /\ Segments(s) \o Append(q, w) = Append(Segments(s) \o q, w)
    BY <1>0, CatAppend
  <2> QED BY <2>1, <2>2, <2>4, <2>5, <2>6
<1> HIDE DEF P
<1>3. Seq(E) \subseteq P
  <2> HIDE DEF E
  <2> QED BY <1>1, <1>2, Growing
<1> QED BY <1>3 DEF P

\* Segments undoes Joined.
LEMMA SplitUndoesJoin ==
  ASSUME NEW C, Slash \in C, NEW K \in Seq(Words(C)), K # <<>>
  PROVE  /\ Joined(K) \in Seq(C) /\ Joined(K) # <<>> /\ Joined(K)[1] = Slash
         /\ Segments(Tail(Joined(K))) = K
<1> DEFINE E == Words(C)
           w == K[1]
           R == SubSeq(K, 2, Len(K))
<1>0. E \subseteq Seq(C) /\ Seq(E) \subseteq Seq(Seq(C))
  BY DEF Words
<1>1. 1 \in 1 .. Len(K) /\ Len(K) \in 1 .. Len(K)
  BY EmptySeq
<1>2. w \in E /\ R \in Seq(E)
  <2> HIDE DEF E
  <2>1. \A i \in 2 .. Len(K) : K[i] \in E
    BY ElementOfSeq DEF E
  <2> QED BY <1>1, <2>1, SubSeqProperties, ElementOfSeq DEF E
<1>3. K = <<w>> \o R
  <2>1. SubSeq(K, 1, Len(K)) = <<w>> \o SubSeq(K, 1 + 1, Len(K))
    BY <1>1, SubSeqRecursiveFirst
  <2> QED BY <2>1, SubSeqFull
<1> HIDE DEF E, w, R
<1>4. <<w>> \in Seq(Seq(C)) /\ R \in Seq(Seq(C)) /\ w \in Seq(C)
  BY <1>0, <1>2
<1>5. Joined(K) = Joined(<<w>>) \o Joined(R) /\ Joined(R) \in Seq(C)
  BY <1>3, <1>4, JoinCat, JoinAppend
<1>6. Joined(<<w>>) = <<Slash>> \o w /\ <<Slash>> \in Seq(C)
  <2>1. <<>> \in Seq(Seq(C)) /\ <<w>> = Append(<<>>, w)
    BY <1>4
  <2>2. Joined(Append(<<>>, w)) = Joined(<<>>) \o <<Slash>> \o w /\ Joined(<<>>) = <<>>
    BY <1>4, <2>1, JoinAppend
  <2>3. <<Slash>> \in Seq(C) /\ <<>> \o <<Slash>> = <<Slash>>
    BY <1>4, CatAppend
  <2> QED BY <2>1, <2>2, <2>3
<1>7. (<<Slash>> \o w) \o Joined(R) = <<Slash>> \o (w \o Joined(R))
  BY <1>4, <1>5, <1>6, ConcatAssociative
<1> DEFINE r == w \o Joined(R)
<1>8. r \in Seq(C)
  BY <1>4, <1>5, ConcatProperties
<1>9. Segments(r) = <<w>> \o R
  <2>1. Segments(r) = Segments(w) \o R
    BY <1>2, <1>4, SplitJoined DEF E
  <2>2. Segments(w) = <<w>>
    BY <1>2, <1>4, SplitWord DEF E
  <2> QED BY <2>1, <2>2
<1> HIDE DEF r
<1>10. Joined(K) = <<Slash>> \o r
  BY <1>5, <1>6, <1>7 DEF r
<1>11. /\ <<Slash>> \o r \in Seq(C) /\ <<Slash>> \o r # <<>> /\ (<<Slash>> \o r)[1] = Slash
       /\ Tail(<<Slash>> \o r) = r
  <2> DEFINE t == <<Slash>> \o r
  <2>1. /\ Len(<<Slash>>) = 1 /\ <<Slash>>[1] = Slash /\ Len(r) \in Nat
    BY <1>8
  <2>2. /\ t \in Seq(C) /\ Len(t) = 1 + Len(r)
        /\ \A n \in 1 .. 1 + Len(r) : t[n] = IF n <= 1 THEN <<Slash>>[n] ELSE r[n - 1]
    BY <1>6, <1>8, <2>1, ConcatProperties
  <2> HIDE DEF t
  <2>3. t # <<>>
    BY <2>1, <2>2, EmptySeq
  <2>4. Tail(t) \in Seq(C) /\ Len(Tail(t)) = Len(r)
        /\ \A i \in 1 .. Len(r) : Tail(t)[i] = t[i + 1]
    BY <2>1, <2>2, <2>3, HeadTailProperties
  <2>5. \A i \in 1 .. Len(r) : t[i + 1] = r[i]
    <3>1. \A i \in 1 .. Len(r) : i + 1 \in 1 .. 1 + Len(r) /\ ~(i + 1 <= 1) /\ (i + 1) - 1 = i
      BY <2>1
    <3> QED BY <2>2, <3>1
  <2>6. Tail(t) = r
    BY <1>8, <2>4, <2>5, SeqEqual
  <2> QED BY <2>1, <2>2, <2>3, <2>6 DEF t
<1> QED BY <1>3, <1>9, <1>10, <1>11

\* What Kept keeps: never an empty segment, "." or "..".
Plain(C) == Words(C) \ {<<>>, Here, Up}

KeptCell(segs, f, n) ==
  IF n = 0 THEN <<>>
  ELSE CASE segs[n] \in {<<>>, Here} -> f[n - 1]
         [] segs[n] = Up -> Climb(f[n - 1])
         [] OTHER -> Append(f[n - 1], segs[n])

Keeping(v, w) ==
  CASE w \in {<<>>, Here} -> v
    [] w = Up -> Climb(v)
    [] OTHER -> Append(v, w)

LEMMA KeepingIs ==
  ASSUME NEW C, NEW v \in Seq(Plain(C)), NEW w \in Words(C)
  PROVE  Keeping(v, w) \in Seq(Plain(C))
<1> DEFINE E == Plain(C)
<1>1. Climb(v) \in Seq(E)
  <2> HIDE DEF E
  <2>1. CASE v = <<>>
    BY <2>1 DEF Climb, E
  <2>2. CASE v # <<>>
    <3>1. v \in Seq(E) /\ Len(v) \in Nat
      BY DEF E
    <3>2. \A i \in 1 .. Len(v) - 1 : v[i] \in E
      BY <3>1
    <3>3. SubSeq(v, 1, Len(v) - 1) \in Seq(E)
      BY <3>1, <3>2, SubSeqProperties
    <3> QED BY <2>2, <3>3 DEF Climb, Front
  <2> QED BY <2>1, <2>2
<1>2. CASE w \in {<<>>, Here}
  <2>1. Keeping(v, w) = v
    BY <1>2 DEF Keeping, Here, Up
  <2> QED BY <2>1
<1>3. CASE w = Up /\ w \notin {<<>>, Here}
  BY <1>1, <1>3 DEF Keeping
<1>4. CASE w # Up /\ w \notin {<<>>, Here}
  <2>1. w \in E
    BY <1>4 DEF Plain
  <2>2. Keeping(v, w) = Append(v, w)
    BY <1>4 DEF Keeping
  <2> HIDE DEF E
  <2>3. Append(v, w) \in Seq(E)
    BY <2>1, AppendProperties DEF E
  <2> QED BY <2>2, <2>3 DEF E
<1> QED BY <1>2, <1>3, <1>4

LEMMA KeptIs ==
  ASSUME NEW C, NEW segs \in Seq(Words(C))
  PROVE  Kept(segs) \in Seq(Plain(C))
<1> DEFINE N == Len(segs)
           V == Seq(Plain(C))
           g == [n \in 1 .. N |-> [v \in V |-> Keeping(v, segs[n])]]
<1>0. N \in Nat /\ (\A n \in 1 .. N : segs[n] \in Words(C)) /\ <<>> \in V
  <2>1. <<>> \in V
    OBVIOUS
  <2> QED BY <2>1, ElementOfSeq
<1> HIDE DEF N, V
<1>2. g \in [1 .. N -> [V -> V]]
  <2>1. \A n \in 1 .. N, v \in V : Keeping(v, segs[n]) \in V
    BY <1>0, KeepingIs DEF V
  <2> QED BY <2>1
<1> HIDE DEF g
<1>3. PICK h : Fold(h, V, N, <<>>, g)
  BY <1>0, <1>2, Folding DEF Steps
<1>c. \A f, n : /\ n = 0 => KeptCell(segs, f, n) = <<>>
                /\ n # 0 => KeptCell(segs, f, n) = Keeping(f[n - 1], segs[n])
  BY DEF KeptCell, Keeping
<1>4. h = [n \in 0 .. N |-> KeptCell(segs, h, n)]
  <2>1. ASSUME NEW n \in 1 .. N
        PROVE  h[n] = KeptCell(segs, h, n)
    <3>1. n - 1 \in 0 .. N /\ n # 0
      BY <1>0
    <3>2. h[n] = Keeping(h[n - 1], segs[n])
      BY <1>3, <3>1 DEF g, Fold
    <3> QED BY <1>c, <3>1, <3>2
  <2>2. h[0] = KeptCell(segs, h, 0) /\ h \in [0 .. N -> V]
    BY <1>3, <1>c DEF Fold
  <2>3. \A n \in 0 .. N : h[n] = KeptCell(segs, h, n)
    BY <1>0, <2>1, <2>2
  <2> QED BY <2>2, <2>3
<1> DEFINE f == CHOOSE f : f = [n \in 0 .. N |-> KeptCell(segs, f, n)]
<1>5. f = [n \in 0 .. N |-> KeptCell(segs, f, n)]
  BY <1>4
<1>6. Kept(segs) = f[N]
  BY DEF Kept, KeptCell, N
<1> HIDE DEF f
<1>7. f[0] = <<>> /\ \A n \in 1 .. N : f[n] = Keeping(f[n - 1], segs[n])
  <2>1. \A n \in 0 .. N : f[n] = KeptCell(segs, f, n)
    BY <1>5
  <2>2. 0 \in 0 .. N /\ \A n \in 1 .. N : n \in 0 .. N /\ n # 0
    BY <1>0
  <2> QED BY <1>c, <2>1, <2>2
<1> DEFINE P == {n \in Nat : f[n] \in V}
<1>8. 0 \in P
  BY <1>0, <1>7
<1>9. ASSUME NEW n \in 1 .. N, n - 1 \in P
      PROVE  n \in P
  <2>1. f[n - 1] \in V /\ segs[n] \in Words(C) /\ n \in Nat
    BY <1>0, <1>9
  <2>2. Keeping(f[n - 1], segs[n]) \in V
    BY <2>1, KeepingIs DEF V
  <2> QED BY <1>7, <2>1, <2>2
<1> HIDE DEF P
<1>10. N \in P
  <2>1. 0 .. N \subseteq P
    BY <1>0, <1>8, <1>9, Upward
  <2> QED BY <1>0, <2>1
<1> QED BY <1>6, <1>10 DEF P, V

-----------------------------------------------------------------------------
(* The path of a request.                                                  *)

Texts == TargetTokens \cup {Dot, Slash, Query, Percent} \cup Escapes

LEMMA DecodedIs ==
  ASSUME NEW t \in Seq(TargetTokens)
  PROVE  Decoded(RawPath(t)) \in Seq(Texts)
<1> DEFINE r == RawPath(t)
<1>1. r \in Seq(Texts)
  <2>0. t \in Seq(Texts)
    BY DEF Texts
  <2> DEFINE I == {i \in 1 .. Len(t) : t[i] = Query}
             q == IF I # {} THEN Min(I) ELSE 0
  <2>1. q \in 0 .. Len(t)
    <3>1. CASE I = {}
      BY <3>1
    <3>2. CASE I # {}
      <4>1. I \in SUBSET Nat
        OBVIOUS
      <4>2. \E k \in I : \A m \in I : k <= m
        <5> HIDE DEF I
        <5> QED BY <3>2, <4>1, Smallest
      <4>3. Min(I) \in I
        <5> HIDE DEF I
        <5> QED BY <4>2 DEF Min
      <4> QED BY <3>2, <4>3
    <3> QED BY <3>1, <3>2
  <2>2. r = IF q = 0 THEN t ELSE SubSeq(t, 1, q - 1)
    BY DEF RawPath, SelectInSeq
  <2> HIDE DEF I, q, r
  <2>3. CASE q # 0
    <3>1. \A i \in 1 .. q - 1 : t[i] \in Texts
      BY <2>0, <2>1
    <3>2. SubSeq(t, 1, q - 1) \in Seq(Texts)
      BY <2>1, <3>1, SubSeqProperties
    <3> QED BY <2>2, <2>3, <3>2
  <2> QED BY <2>0, <2>2, <2>3
<1> HIDE DEF r
<1>2. \A ch \in Texts : Unescaped(ch) \in Texts
  BY DEF Unescaped, Texts
<1>3. [i \in DOMAIN r |-> Unescaped(r[i])] \in Seq(Texts)
  <2>1. DOMAIN r = 1 .. Len(r) /\ Len(r) \in Nat /\ \A i \in 1 .. Len(r) : r[i] \in Texts
    BY <1>1
  <2>2. [i \in 1 .. Len(r) |-> Unescaped(r[i])] \in [1 .. Len(r) -> Texts]
    BY <1>2, <2>1
  <2> QED BY <2>1, <2>2
<1> QED BY <1>1, <1>3 DEF Decoded, r

\* A path on its way out is made of plain segments, and perhaps an empty last
\* one.
Tidy(K) ==
  /\ K \in Seq(Words(Texts)) /\ K # <<>>
  /\ \A i \in 1 .. Len(K) : K[i] \notin {Here, Up} /\ (K[i] = <<>> => i = Len(K))

LEMMA CanonicalIs ==
  ASSUME NEW t \in Seq(TargetTokens)
  PROVE  \E K : Tidy(K) /\ canonicalPath(t) = Joined(K)
<1> DEFINE C == Texts
           E == Words(C)
           s == <<Slash>> \o Decoded(RawPath(t))
           kept == Kept(Segments(s))
<1>0. Slash \in C /\ E \subseteq Seq(C) /\ Seq(E) \subseteq Seq(Seq(C))
  BY DEF Texts, Words
<1>1. s \in Seq(C)
  <2> DEFINE d == Decoded(RawPath(t))
  <2>1. d \in Seq(C)
    BY DecodedIs
  <2>2. <<Slash>> \in Seq(C)
    BY <1>0
  <2> HIDE DEF d, C
  <2>3. <<Slash>> \o d \in Seq(C)
    BY <2>1, <2>2, ConcatProperties
  <2> QED BY <2>3 DEF d
<1>2. kept \in Seq(Plain(C))
  <2> HIDE DEF s
  <2>1. Segments(s) \in Seq(Words(C))
    BY <1>0, <1>1, SplitAppend DEF Lists
  <2> QED BY <2>1, KeptIs
<1>3. canonicalPath(t) = IF kept = <<>> THEN <<Slash>>
                         ELSE Joined(kept) \o (IF Last(s) = Slash THEN <<Slash>> ELSE <<>>)
  BY DEF canonicalPath, normalize
<1>4. <<>> \in E /\ <<>> \notin {Here, Up}
  <2>1. <<>> \in Seq(C \ {Slash})
    OBVIOUS
  <2> QED BY <2>1 DEF Words, Here, Up
<1> HIDE DEF C, E, s, kept
<1>5. kept \in Seq(E) /\ kept \in Seq(Seq(C))
      /\ \A i \in 1 .. Len(kept) : kept[i] \notin {<<>>, Here, Up}
  <2>1. \A i \in 1 .. Len(kept) : kept[i] \in Plain(C)
    BY <1>2
  <2>2. kept \in Seq(E)
    BY <1>2 DEF Plain, E
  <2> QED BY <1>0, <2>1, <2>2 DEF Plain
<1>6. Joined(kept) \in Seq(C) /\ Joined(Append(kept, <<>>)) = Joined(kept) \o <<Slash>>
  <2>1. <<>> \in Seq(C)
    OBVIOUS
  <2>2. Joined(kept) \in Seq(C) /\ Joined(Append(kept, <<>>)) = Joined(kept) \o <<Slash>> \o <<>>
    BY <1>0, <1>5, <2>1, JoinAppend
  <2> DEFINE x == Joined(kept) \o <<Slash>>
  <2>3. x \in Seq(C)
    BY <1>0, <2>2, CatAppend
  <2> HIDE DEF x
  <2>4. x \o <<>> = x
    BY <2>3, ConcatEmptySeq
  <2> QED BY <2>2, <2>4 DEF x
<1>7. CASE kept = <<>>
  <2> DEFINE K == << <<>> >>
  <2>1. Append(kept, <<>>) = K
    BY <1>7
  <2>2. Joined(kept) = <<>>
    BY <1>0, <1>7, <1>5, JoinAppend
  <2>3. <<>> \o <<Slash>> = <<Slash>>
    <3>1. <<Slash>> \in Seq(C)
      BY <1>0
    <3> QED BY <3>1, ConcatEmptySeq
  <2>4. Joined(K) = <<Slash>>
    BY <1>6, <2>1, <2>2, <2>3
  <2>5. Tidy(K)
    <3>1. K \in Seq(E) /\ K # <<>> /\ Len(K) = 1 /\ K[1] = <<>>
      BY <1>4
    <3> HIDE DEF K
    <3> QED BY <1>4, <3>1 DEF Tidy, E, C
  <2> QED BY <1>3, <1>7, <2>4, <2>5
<1>8. CASE kept # <<>> /\ Last(s) = Slash
  <2> DEFINE K == Append(kept, <<>>)
  <2>1. /\ K \in Seq(E) /\ K # <<>> /\ Len(K) = Len(kept) + 1 /\ Len(kept) \in Nat
        /\ K[Len(kept) + 1] = <<>> /\ \A i \in 1 .. Len(kept) : K[i] = kept[i]
    BY <1>4, <1>5, AppendProperties
  <2> HIDE DEF K
  <2>2. ASSUME NEW i \in 1 .. Len(K)
        PROVE  K[i] \notin {Here, Up} /\ (K[i] = <<>> => i = Len(K))
    <3>1. CASE i = Len(K)
      BY <1>4, <2>1, <3>1
    <3>2. CASE i # Len(K)
      <4>1. i \in 1 .. Len(kept)
        BY <2>1, <3>2
      <4> QED BY <1>5, <2>1, <4>1
    <3> QED BY <3>1, <3>2
  <2>3. Tidy(K)
    BY <2>1, <2>2 DEF Tidy, E, C
  <2> QED BY <1>3, <1>6, <1>8, <2>3 DEF K
<1>9. CASE kept # <<>> /\ Last(s) # Slash
  <2>1. Joined(kept) \o <<>> = Joined(kept)
    BY <1>6, ConcatEmptySeq
  <2>2. Tidy(kept)
    BY <1>5, <1>9 DEF Tidy, E, C
  <2> QED BY <1>3, <1>9, <2>1, <2>2
<1> QED BY <1>7, <1>8, <1>9

LEMMA TargetTyped == TargetSpec => [](target \in Seq(TargetTokens))
<1>1. TargetInit => target \in Seq(TargetTokens)
  BY DEF TargetInit
<1>2. target \in Seq(TargetTokens) /\ [ExtendTarget]_target => (target \in Seq(TargetTokens))'
  <2> SUFFICES ASSUME target \in Seq(TargetTokens), [ExtendTarget]_target
               PROVE  target' \in Seq(TargetTokens)
    OBVIOUS
  <2>1. CASE ExtendTarget
    <3>1. PICK t \in TargetTokens : target' = Append(target, t)
      BY <2>1 DEF ExtendTarget
    <3> QED BY <3>1, AppendProperties
  <2> QED BY <2>1
<1> QED BY <1>1, <1>2, PTL DEF TargetSpec

\* Whatever the request line says, the allowlist is consulted with an absolute
\* path that holds no "." or ".." segment and no empty one but the last.
THEOREM PathIsAnchored == TargetSpec => []CanonicalIsAnchored
<1>1. target \in Seq(TargetTokens) => CanonicalIsAnchored
  <2> SUFFICES ASSUME target \in Seq(TargetTokens)
               PROVE  CanonicalIsAnchored
    OBVIOUS
  <2>1. PICK K : Tidy(K) /\ canonicalPath(target) = Joined(K)
    BY CanonicalIs
  <2>2. Joined(K)[1] = Slash /\ Segments(Tail(Joined(K))) = K
    BY <2>1, SplitUndoesJoin DEF Tidy, Texts
  <2> QED BY <2>1, <2>2 DEF CanonicalIsAnchored, Tidy
<1> QED BY <1>1, TargetTyped, PTL
=============================================================================
