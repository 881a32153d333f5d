--------------------------- MODULE LineDiffProofs ---------------------------
(***************************************************************************)
(* For any lines, texts of any length and any options: the diff of two     *)
(* texts tells both of them, under their numbers, and leaves as many lines *)
(* unchanged as any diff can; and its folds hide no change, wherever the   *)
(* clicks have moved them.  The table, the walk and the segments are       *)
(* recursive functions: that there are such functions, and what they give, *)
(* both follow from every set of naturals having a least element.          *)
(***************************************************************************)
EXTENDS LineDiff, FiniteSetTheorems, WellFoundedInduction, TLAPS

(* Recursion and induction over a set whose elements have a rank. *)

LEMMA LeastNatural ==
    ASSUME NEW T \in SUBSET Nat, T # {}
    PROVE  \E m \in T : \A k \in T : m <= k
<1> DEFINE R == OpToRel(<, Nat)
<1>1. PICK m \in T : \A k \in T : <<k, m>> \notin R
  <2>1. IsWellFoundedOn(R, Nat)
    BY NatLessThanWellFounded, Zenon
  <2> HIDE DEF R
  <2> QED BY <2>1, WFMin, Zenon
<1>2. \A k \in T : ~(k < m)
  <2> TAKE k \in T
  <2>1. <<k, m>> \in Nat \X Nat
    OBVIOUS
  <2> QED BY <1>1, <2>1, Zenon DEF OpToRel
<1> HIDE DEF R
<1> QED BY <1>2

\* Each element of S has a rank, and step[x] reads the function it is given at
\* elements of lower rank only.
Ranked(S, N, rank) == N \in Nat /\ rank \in [S -> 0..N]
Descends(S, rank, V, step) ==
    /\ step \in [S -> [[S -> V] -> V]] /\ V # {}
    /\ \A x \in S : \A g, h \in [S -> V] :
          (\A y \in S : rank[y] < rank[x] => g[y] = h[y]) => step[x][g] = step[x][h]
Solved(S, V, step, f) == f \in [S -> V] /\ \A x \in S : f[x] = step[x][f]
Inherited(S, rank, B) ==
    \A x \in S : (\A y \in S : rank[y] < rank[x] => y \in B) => x \in B

\* There is a function that agrees with its own recursive definition.
LEMMA RecursiveFunction ==
    ASSUME NEW S, NEW N, NEW rank, NEW V, NEW G,
           Ranked(S, N, rank), Descends(S, rank, V, G)
    PROVE  \E f : Solved(S, V, G, f)
<1> USE DEF Ranked, Descends, Solved
<1> DEFINE Below(n) == \E f \in [S -> V] : \A x \in S : rank[x] < n => f[x] = G[x][f]
           T == {n \in Nat : ~Below(n)}
<1>1. T = {}
  <2> SUFFICES ASSUME T # {} PROVE FALSE
    OBVIOUS
  <2>1. PICK m \in T : \A k \in T : m <= k
    BY LeastNatural
  <2>2. Below(0)
    <3>1. PICK v \in V : TRUE
      OBVIOUS
    <3>2. [x \in S |-> v] \in [S -> V]
      OBVIOUS
    <3>3. \A x \in S : ~(rank[x] < 0)
      OBVIOUS
    <3> QED BY <3>2, <3>3
  <2>3. m # 0 /\ Below(m - 1)
    <3> HIDE DEF Below
    <3> QED BY <2>1, <2>2
  <2>4. PICK f \in [S -> V] : \A x \in S : rank[x] < m - 1 => f[x] = G[x][f]
    BY <2>3
  <2> DEFINE g == [x \in S |-> G[x][f]]
  <2>5. g \in [S -> V] /\ \A x \in S : rank[x] < m - 1 => g[x] = f[x]
    BY <2>4
  <2>6. \A x \in S : rank[x] < m => g[x] = G[x][g]
    <3> SUFFICES ASSUME NEW x \in S, rank[x] < m PROVE g[x] = G[x][g]
      OBVIOUS
    <3>1. \A y \in S : rank[y] < rank[x] => g[y] = f[y]
      BY <2>1, <2>5
    <3>2. G[x][f] = G[x][g]
      <4> HIDE DEF g
      <4> QED BY <2>4, <2>5, <3>1
    <3> QED BY <3>2
  <2> QED BY <2>1, <2>5, <2>6
<1>2. Below(N + 1)
  <2> HIDE DEF Below
  <2> QED BY <1>1
<1> QED BY <1>2

\* What every element inherits from those of lower rank holds of all of them.
LEMMA RankInduction ==
    ASSUME NEW S, NEW N, NEW rank, NEW B \in SUBSET S,
           Ranked(S, N, rank), Inherited(S, rank, B)
    PROVE  B = S
<1> USE DEF Ranked, Inherited
<1> DEFINE T == {n \in Nat : \E x \in S : x \notin B /\ rank[x] = n}
<1>1. T = {}
  <2> SUFFICES ASSUME T # {} PROVE FALSE
    OBVIOUS
  <2>1. PICK m \in T : \A k \in T : m <= k
    BY LeastNatural
  <2>2. PICK x \in S : x \notin B /\ rank[x] = m
    BY <2>1
  <2>3. PICK y \in S : rank[y] < rank[x] /\ y \notin B
    BY <2>2
  <2>4. rank[y] \in T
    BY <2>3
  <2> QED BY <2>1, <2>2, <2>3, <2>4
<1>2. \A x \in S : rank[x] \in Nat
  OBVIOUS
<1> QED BY <1>1, <1>2

-----------------------------------------------------------------------------
(* The segments of the rows. *)

Past(rs) == 0..Len(rs)
Seg == [vis : BOOLEAN, first : Nat, end : Nat]

\* The segments of the first k rows: they cover them, are visible and hidden in turn,
\* and hide no kept row; the last is visible when row k is kept.
Covers(ss, k) ==
    /\ ss[1].first = 1 /\ ss[Len(ss)].end = k
    /\ \A s \in DOMAIN ss : ss[s].first >= 1 /\ ss[s].first <= ss[s].end
InTurn(ss) ==
    \A s \in 1..(Len(ss) - 1) :
       ss[s + 1].first = ss[s].end + 1 /\ ss[s].vis # ss[s + 1].vis
HidesUnkept(rs, ss) ==
    \A s \in DOMAIN ss : ~ss[s].vis =>
       /\ ss[s].end - ss[s].first + 1 >= MinGap
       /\ \A x \in ss[s].first..ss[s].end : ~Keep(rs, x)
Segmented(rs, ss, k) ==
    /\ ss \in Seq(Seg) /\ ss # <<>>
    /\ Covers(ss, k) /\ InTurn(ss) /\ HidesUnkept(rs, ss)
    /\ Keep(rs, k) => ss[Len(ss)].vis

\* A run goes back to a first row.
LEMMA RunStarts ==
    ASSUME NEW X, NEW rs \in Seq(X), NEW k \in 1..Len(rs)
    PROVE  /\ RunStart(rs, k) \in 1..k
           /\ RunStart(rs, k) = 1 \/ (Keep(rs, RunStart(rs, k) - 1) <=> ~Keep(rs, k))
           /\ \A x \in RunStart(rs, k)..k : (Keep(rs, x) <=> Keep(rs, k))
<1> DEFINE T == {s \in 1..k : \A x \in s..k : (Keep(rs, x) <=> Keep(rs, k))}
<1>1. k \in T /\ T \in SUBSET Nat
  <2>1. \A x \in k..k : x = k
    OBVIOUS
  <2> QED BY <2>1
<1>2. PICK s \in T : \A x \in T : s <= x
  BY <1>1, LeastNatural
<1>3. s = 1 \/ (Keep(rs, s - 1) <=> ~Keep(rs, k))
  <2> SUFFICES ASSUME s # 1, (Keep(rs, s - 1) <=> Keep(rs, k)) PROVE FALSE
    OBVIOUS
  <2>1. s - 1 \in 1..k
    OBVIOUS
  <2>2. \A x \in (s - 1)..k : x = s - 1 \/ x \in s..k
    OBVIOUS
  <2>3. s - 1 \in T
    BY <2>1, <2>2
  <2> QED BY <1>2, <2>3
<1>4. s \in 1..k /\ \A x \in s..k : (Keep(rs, x) <=> Keep(rs, k))
  OBVIOUS
<1> QED BY <1>3, <1>4 DEF RunStart

LEMMA AddRunType ==
    ASSUME NEW rs, NEW ss \in Seq(Seg), NEW r \in [first : Nat, end : Nat]
    PROVE  AddRun(rs, ss, r) \in Seq(Seg)
<1> DEFINE vis == Keep(rs, r.first) \/ r.end - r.first + 1 < MinGap
           joined == [ss EXCEPT ![Len(ss)].end = r.end]
<1>1. vis \in BOOLEAN
  OBVIOUS
<1>2. [vis |-> vis, first |-> r.first, end |-> r.end] \in Seg
  BY <1>1 DEF Seg
<1>3. Append(ss, [vis |-> vis, first |-> r.first, end |-> r.end]) \in Seq(Seg)
  <2> HIDE DEF vis
  <2> QED BY <1>2
<1>4. ss # <<>> => joined \in Seq(Seg)
  <2> SUFFICES ASSUME ss # <<>> PROVE joined \in Seq(Seg)
    OBVIOUS
  <2>1. Len(ss) \in DOMAIN ss /\ DOMAIN ss = 1..Len(ss)
    OBVIOUS
  <2>2. ss[Len(ss)] \in Seg
    BY <2>1
  <2>3. [ss[Len(ss)] EXCEPT !.end = r.end] \in Seg
    BY <2>2 DEF Seg
  <2>4. joined = [ss EXCEPT ![Len(ss)] = [ss[Len(ss)] EXCEPT !.end = r.end]]
    OBVIOUS
  <2> HIDE DEF joined
  <2> QED BY <2>1, <2>3, <2>4
<1> QED BY <1>3, <1>4 DEF AddRun

LEMMA SegmentsAre ==
    ASSUME NEW X, NEW rs \in Seq(X)
    PROVE  /\ Segments(rs) \in [Past(rs) -> Seq(Seg)]
           /\ \A k \in Past(rs) :
                 Segments(rs)[k] =
                    IF k = 0 THEN <<>>
                    ELSE AddRun(rs, Segments(rs)[RunStart(rs, k) - 1],
                                [first |-> RunStart(rs, k), end |-> k])
<1> DEFINE V == Seq(Seg)
           step(k, g) == IF k = 0 THEN <<>>
                         ELSE AddRun(rs, g[RunStart(rs, k) - 1],
                                     [first |-> RunStart(rs, k), end |-> k])
           G == [k \in Past(rs) |-> [g \in [Past(rs) -> V] |-> step(k, g)]]
           rank == [k \in Past(rs) |-> k]
           Solves(past) == past = [k \in Past(rs) |-> step(k, past)]
<1>1. \A k \in Past(rs) : k = 0 \/ k \in 1..Len(rs)
  BY DEF Past
<1>2. \A k \in Past(rs) : k # 0 => /\ RunStart(rs, k) - 1 \in Past(rs)
                                   /\ RunStart(rs, k) - 1 < k
                                   /\ [first |-> RunStart(rs, k), end |-> k] \in [first : Nat, end : Nat]
  BY <1>1, RunStarts DEF Past
<1>3. \A k \in Past(rs) : \A g : (k # 0 => g[RunStart(rs, k) - 1] \in V) => step(k, g) \in V
  BY <1>2, AddRunType
<1>4. G \in [Past(rs) -> [[Past(rs) -> V] -> V]]
  <2>1. \A k \in Past(rs) : \A g \in [Past(rs) -> V] : step(k, g) \in V
    <3> HIDE DEF step, V
    <3> QED BY <1>2, <1>3
  <2> HIDE DEF step, V
  <2> QED BY <2>1
<1>5. Ranked(Past(rs), Len(rs), rank)
  BY DEF Past, Ranked
<1>6. Descends(Past(rs), rank, V, G)
  <2>1. <<>> \in V
    OBVIOUS
  <2>2. ASSUME NEW k \in Past(rs), NEW g \in [Past(rs) -> V], NEW h \in [Past(rs) -> V],
               \A y \in Past(rs) : rank[y] < rank[k] => g[y] = h[y]
        PROVE  G[k][g] = G[k][h]
    <3>1. step(k, g) = step(k, h)
      BY <1>2, <2>2
    <3> HIDE DEF step, V
    <3> QED BY <3>1
  <2> HIDE DEF G, V, rank
  <2> QED BY <1>4, <2>1, <2>2 DEF Descends
<1>7. PICK f : Solved(Past(rs), V, G, f)
  <2> HIDE DEF G, rank, V
  <2> QED BY <1>5, <1>6, RecursiveFunction
<1>8. Solves(f)
  <2>1. \A k \in Past(rs) : G[k][f] = step(k, f)
    <3> HIDE DEF step, V
    <3> QED BY <1>7 DEF Solved
  <2> HIDE DEF step, V, G
  <2> QED BY <1>7, <2>1 DEF Solved
<1>9. Segments(rs) = CHOOSE past : Solves(past)
  BY DEF Segments, Past
<1>10. Solves(Segments(rs))
  <2> HIDE DEF Solves
  <2> QED BY <1>8, <1>9
<1> DEFINE B == {k \in Past(rs) : Segments(rs)[k] \in V}
<1>11. ASSUME NEW k \in Past(rs), \A y \in Past(rs) : rank[y] < rank[k] => y \in B
       PROVE  k \in B
  <2>1. k # 0 => Segments(rs)[RunStart(rs, k) - 1] \in V
    <3>1. k # 0 => RunStart(rs, k) - 1 \in B
      <4>1. \A y \in Past(rs) : rank[y] = y
        OBVIOUS
      <4> HIDE DEF B, rank
      <4> QED BY <1>2, <1>11, <4>1
    <3> QED BY <3>1
  <2>2. step(k, Segments(rs)) \in V
    <3> HIDE DEF step, V
    <3> QED BY <1>3, <2>1
  <2>3. Segments(rs)[k] = step(k, Segments(rs))
    <3> HIDE DEF step, V
    <3> QED BY <1>10
  <2> HIDE DEF step, V
  <2> QED BY <2>2, <2>3
<1>12. B = Past(rs)
  <2>1. B \in SUBSET Past(rs)
    OBVIOUS
  <2> HIDE DEF B, rank
  <2>2. Inherited(Past(rs), rank, B)
    BY <1>11 DEF Inherited
  <2> QED BY <2>1, <2>2, <1>5, RankInduction
<1> QED
  <2>1. \A k \in Past(rs) : Segments(rs)[k] \in V
    <3> HIDE DEF V
    <3> QED BY <1>12
  <2>2. Segments(rs) = [k \in Past(rs) |-> step(k, Segments(rs))]
    BY <1>10
  <2>3. \A k \in Past(rs) : Segments(rs)[k] = step(k, Segments(rs))
    <3> HIDE DEF step
    <3> QED BY <2>2
  <2>4. Segments(rs) \in [Past(rs) -> V]
    <3> HIDE DEF step, V
    <3> QED BY <2>1, <2>2
  <2> QED BY <2>3, <2>4

LEMMA Neighbours ==
    ASSUME NEW S, NEW ss \in Seq(S)
    PROVE  /\ \A x \in 1..(Len(ss) - 1) : x \in DOMAIN ss /\ x + 1 \in DOMAIN ss /\ x # Len(ss)
           /\ \A x \in DOMAIN ss : x # Len(ss) =>
                 x \in 1..(Len(ss) - 1) /\ x + 1 \in DOMAIN ss
OBVIOUS

\* A run after the segments of the rows before it gives the segments of the rows to its end.
LEMMA AddRunSegments ==
    ASSUME NEW rs, NEW k \in Nat, NEW s \in 1..k,
           s = 1 \/ (Keep(rs, s - 1) <=> ~Keep(rs, k)),
           \A x \in s..k : (Keep(rs, x) <=> Keep(rs, k)),
           NEW ss \in Seq(Seg), s = 1 => Len(ss) = 0, s # 1 => Segmented(rs, ss, s - 1)
    PROVE  Segmented(rs, AddRun(rs, ss, [first |-> s, end |-> k]), k)
<1> DEFINE vis == Keep(rs, s) \/ k - s + 1 < MinGap
           run == [vis |-> vis, first |-> s, end |-> k]
           joined == [ss EXCEPT ![Len(ss)].end = k]
           res == AddRun(rs, ss, [first |-> s, end |-> k])
<1>1. ss \in Seq(Seg) /\ (ss # <<>> <=> s # 1)
  BY DEF Segmented
<1>2. res = IF ss # <<>> /\ ss[Len(ss)].vis /\ vis THEN joined ELSE Append(ss, run)
  BY DEF AddRun
<1>3. s \in s..k /\ k \in s..k /\ s \in Nat
  OBVIOUS
<1>4. ~vis => k - s + 1 >= MinGap /\ \A x \in s..k : ~Keep(rs, x)
  BY <1>3, OptionsAssumption
<1>5. ss # <<>> /\ ~vis => ss[Len(ss)].vis
  BY <1>1, <1>3 DEF Segmented
<1>6. Keep(rs, k) => vis
  BY <1>3
<1>7. res \in Seq(Seg)
  BY <1>1, <1>3, AddRunType
<1> SUFFICES Segmented(rs, res, k)
  OBVIOUS
<1> HIDE DEF vis, res
<1>8. CASE ss # <<>> /\ ss[Len(ss)].vis /\ vis
  <2>1. res = joined /\ Segmented(rs, ss, s - 1)
    BY <1>1, <1>2, <1>8
  <2>2. Len(ss) \in Nat \ {0} /\ DOMAIN ss = 1..Len(ss)
    BY <1>1, <1>8
  <2>3. /\ Len(res) = Len(ss) /\ DOMAIN res = DOMAIN ss
        /\ \A x \in DOMAIN ss : /\ res[x].first = ss[x].first /\ res[x].vis = ss[x].vis
                                /\ res[x].end = IF x = Len(ss) THEN k ELSE ss[x].end
    <3>1. \A x \in DOMAIN ss : ss[x] \in Seg
      BY <1>1
    <3>2. DOMAIN joined = DOMAIN ss /\ Len(joined) = Len(ss)
      BY <1>1, <2>2
    <3>3. \A x \in DOMAIN ss : joined[x] = IF x = Len(ss) THEN [ss[x] EXCEPT !.end = k] ELSE ss[x]
      BY <2>2
    <3> HIDE DEF joined
    <3> QED BY <2>1, <3>1, <3>2, <3>3 DEF Seg
  <2>4. res # <<>>
    BY <2>2, <2>3
  <2>5. res[1].first = 1 /\ res[Len(res)].end = k
    BY <2>1, <2>2, <2>3 DEF Segmented, Covers
  <2>6. \A x \in DOMAIN res : res[x].first >= 1 /\ res[x].first <= res[x].end
    <3>1. ss[Len(ss)].first <= s - 1
      BY <2>1, <2>2 DEF Segmented, Covers
    <3>2. ss[Len(ss)] \in Seg
      BY <1>1, <2>2
    <3>3. ss[Len(ss)].first \in Nat
      BY <3>2 DEF Seg
    <3>4. Covers(ss, s - 1)
      BY <2>1 DEF Segmented
    <3> QED BY <2>2, <2>3, <3>1, <3>3, <3>4, <1>3 DEF Covers
  <2>7. \A x \in 1..(Len(res) - 1) :
           res[x + 1].first = res[x].end + 1 /\ res[x].vis # res[x + 1].vis
    <3> SUFFICES ASSUME NEW x \in 1..(Len(ss) - 1)
                 PROVE  res[x + 1].first = res[x].end + 1 /\ res[x].vis # res[x + 1].vis
      BY <2>3
    <3>1. x \in DOMAIN ss /\ x + 1 \in DOMAIN ss /\ x # Len(ss)
      BY Neighbours, Zenon
    <3> QED BY <2>1, <2>3, <3>1 DEF Segmented, InTurn
  <2>8. \A x \in DOMAIN res : ~res[x].vis =>
           /\ res[x].end - res[x].first + 1 >= MinGap
           /\ \A y \in res[x].first..res[x].end : ~Keep(rs, y)
    BY <1>8, <2>1, <2>3 DEF Segmented, HidesUnkept
  <2>9. res[Len(res)].vis
    BY <1>8, <2>2, <2>3
  <2>10. Covers(res, k) /\ InTurn(res) /\ HidesUnkept(rs, res)
    BY <2>5, <2>6, <2>7, <2>8 DEF Covers, InTurn, HidesUnkept
  <2> QED BY <1>7, <2>4, <2>9, <2>10 DEF Segmented
<1>9. CASE ~(ss # <<>> /\ ss[Len(ss)].vis /\ vis)
  <2>1. res = Append(ss, run) /\ run = [vis |-> vis, first |-> s, end |-> k]
    BY <1>2, <1>9
  <2>2. Len(ss) \in Nat /\ DOMAIN ss = 1..Len(ss) /\ (ss # <<>> => Len(ss) # 0) /\ (ss = <<>> => Len(ss) = 0)
    BY <1>1
  <2>3. /\ Len(res) = Len(ss) + 1 /\ DOMAIN res = 1..(Len(ss) + 1)
        /\ \A x \in DOMAIN ss : res[x] = ss[x]
        /\ res[Len(ss) + 1] = run
    <3> HIDE DEF run
    <3>1. run \in Seg
      BY <1>7, <2>1, <1>1, <2>2, <1>3 DEF run, Seg, vis
    <3> QED BY <1>1, <2>1, <2>2, <3>1
  <2>4. run.first = s /\ run.end = k /\ run.vis = vis
    BY <2>1
  <2> HIDE DEF run
  <2>5. res # <<>> /\ \A x \in DOMAIN res : x \in DOMAIN ss \/ x = Len(ss) + 1
    BY <2>2, <2>3
  <2>6. ss # <<>> => ss[Len(ss)].vis # run.vis /\ Segmented(rs, ss, s - 1)
    BY <1>1, <1>5, <1>9, <2>4
  <2>7. res[1].first = 1 /\ res[Len(res)].end = k
    <3>1. CASE ss = <<>>
      BY <1>1, <2>2, <2>3, <2>4, <3>1
    <3>2. CASE ss # <<>>
      BY <2>2, <2>3, <2>4, <2>6, <3>2 DEF Segmented, Covers
    <3> QED BY <3>1, <3>2
  <2>8. \A x \in DOMAIN res : res[x].first >= 1 /\ res[x].first <= res[x].end
    <3>1. \A x \in DOMAIN ss : ss # <<>>
      BY <2>2
    <3> QED BY <1>3, <2>3, <2>4, <2>5, <2>6, <3>1 DEF Segmented, Covers
  <2>9. \A x \in 1..(Len(res) - 1) :
           res[x + 1].first = res[x].end + 1 /\ res[x].vis # res[x + 1].vis
    <3> SUFFICES ASSUME NEW x \in 1..Len(ss)
                 PROVE  res[x + 1].first = res[x].end + 1 /\ res[x].vis # res[x + 1].vis
      BY <2>2, <2>3
    <3>1. ss # <<>> /\ x \in DOMAIN ss /\ res[x] = ss[x]
      BY <2>2, <2>3
    <3>2. CASE x = Len(ss)
      <4>1. ss[Len(ss)].end = s - 1
        BY <2>6, <3>1 DEF Segmented, Covers
      <4> QED BY <1>3, <2>3, <2>4, <2>6, <3>1, <3>2, <4>1
    <3>3. CASE x # Len(ss)
      <4>1. x \in 1..(Len(ss) - 1) /\ x + 1 \in DOMAIN ss
        BY <3>1, <3>3, Neighbours, Zenon
      <4> QED BY <2>3, <2>6, <3>1, <4>1 DEF Segmented, InTurn
    <3> QED BY <3>2, <3>3
  <2>10. \A x \in DOMAIN res : ~res[x].vis =>
            /\ res[x].end - res[x].first + 1 >= MinGap
            /\ \A y \in res[x].first..res[x].end : ~Keep(rs, y)
    <3>1. \A x \in DOMAIN ss : ss # <<>>
      BY <2>2
    <3> QED BY <1>4, <2>3, <2>4, <2>5, <2>6, <3>1 DEF Segmented, HidesUnkept
  <2>11. Keep(rs, k) => res[Len(res)].vis
    BY <1>6, <2>3, <2>4
  <2>12. Covers(res, k) /\ InTurn(res) /\ HidesUnkept(rs, res)
    BY <2>7, <2>8, <2>9, <2>10 DEF Covers, InTurn, HidesUnkept
  <2> QED BY <1>7, <2>5, <2>11, <2>12 DEF Segmented
<1> QED BY <1>8, <1>9

LEMMA SegmentsCover ==
    ASSUME NEW X, NEW rs \in Seq(X), NEW k \in 1..Len(rs)
    PROVE  Segmented(rs, Segments(rs)[k], k)
<1> DEFINE rank == [x \in Past(rs) |-> x]
           B == {x \in Past(rs) : x # 0 => Segmented(rs, Segments(rs)[x], x)}
<1>1. ASSUME NEW x \in Past(rs), \A y \in Past(rs) : rank[y] < rank[x] => y \in B, x # 0
      PROVE  Segmented(rs, Segments(rs)[x], x)
  <2> DEFINE s == RunStart(rs, x)
             ss == Segments(rs)[s - 1]
  <2>1. x \in 1..Len(rs) /\ x \in Nat
    BY <1>1 DEF Past
  <2>2. /\ s \in 1..x /\ s - 1 \in Past(rs) /\ s - 1 < x
        /\ s = 1 \/ (Keep(rs, s - 1) <=> ~Keep(rs, x))
        /\ \A y \in s..x : (Keep(rs, y) <=> Keep(rs, x))
    BY <2>1, RunStarts DEF Past
  <2> HIDE DEF s
  <2>3. s - 1 \in B
    <3>1. \A y \in Past(rs) : rank[y] = y
      OBVIOUS
    <3> HIDE DEF B, rank
    <3> QED BY <1>1, <2>2, <3>1
  <2>4. ss \in Seq(Seg) /\ (s = 1 => ss = <<>>) /\ (s # 1 => Segmented(rs, ss, s - 1))
    <3>1. (s # 1 => s - 1 # 0) /\ (s = 1 => s - 1 = 0)
      BY <2>2
    <3>2. ss \in Seq(Seg) /\ (s - 1 = 0 => ss = <<>>)
      BY <2>2, SegmentsAre
    <3>3. s - 1 # 0 => Segmented(rs, ss, s - 1)
      BY <2>3
    <3> QED BY <3>1, <3>2, <3>3
  <2>5. s = 1 => Len(ss) = 0
    BY <2>4
  <2>6. Segments(rs)[x] = AddRun(rs, ss, [first |-> s, end |-> x])
    BY <1>1, SegmentsAre DEF s
  <2> HIDE DEF ss
  <2>7. Segmented(rs, AddRun(rs, ss, [first |-> s, end |-> x]), x)
    BY <2>1, <2>2, <2>4, <2>5, AddRunSegments
  <2> QED BY <2>6, <2>7
<1>2. Ranked(Past(rs), Len(rs), rank)
  BY DEF Past, Ranked
<1>3. Inherited(Past(rs), rank, B)
  <2> HIDE DEF rank
  <2> QED BY <1>1 DEF Inherited
<1>4. B = Past(rs)
  <2>1. B \in SUBSET Past(rs)
    OBVIOUS
  <2> HIDE DEF B, rank
  <2> QED BY <2>1, <1>2, <1>3, RankInduction
<1>5. k \in Past(rs) /\ k # 0
  BY DEF Past
<1> QED BY <1>4, <1>5

-----------------------------------------------------------------------------
(* The table and the walk: what their equations are, and what they give. *)

Rows == [tag : {"eq", "del", "add"}, text : Line]

Rank(a, b) == [p \in Places(a, b) |-> Len(a) - p[1] + Len(b) - p[2]]

LEMMA Texts ==
    ASSUME NEW a \in Text
    PROVE  /\ a \in Seq(Line) /\ Len(a) \in Nat \ {0} /\ DOMAIN a = 1..Len(a)
           /\ \A i \in 1..Len(a) : a[i] \in Line
BY DEF Text

LEMMA PlacesArePairs ==
    ASSUME NEW a, NEW b, NEW p \in Places(a, b)
    PROVE  \E i \in 0..Len(a), j \in 0..Len(b) : i = p[1] /\ j = p[2] /\ p = <<i, j>>
BY DEF Places

\* The places the table and the walk go on to from a place.
LEMMA Onward ==
    ASSUME NEW a \in Text, NEW b \in Text, NEW p \in Places(a, b)
    PROVE  /\ p[1] \in 0..Len(a) /\ p[2] \in 0..Len(b) /\ p = <<p[1], p[2]>>
           /\ Rank(a, b)[p] = Len(a) - p[1] + Len(b) - p[2]
           /\ p[1] # Len(a) => /\ <<p[1] + 1, p[2]>> \in Places(a, b)
                               /\ Rank(a, b)[<<p[1] + 1, p[2]>>] < Rank(a, b)[p]
                               /\ a[p[1] + 1] \in Line
           /\ p[2] # Len(b) => /\ <<p[1], p[2] + 1>> \in Places(a, b)
                               /\ Rank(a, b)[<<p[1], p[2] + 1>>] < Rank(a, b)[p]
                               /\ b[p[2] + 1] \in Line
           /\ p[1] # Len(a) /\ p[2] # Len(b) =>
                 /\ <<p[1] + 1, p[2] + 1>> \in Places(a, b)
                 /\ Rank(a, b)[<<p[1] + 1, p[2] + 1>>] < Rank(a, b)[p]
<1>1. Len(a) \in Nat /\ Len(b) \in Nat
  BY Texts
<1>2. p[1] \in 0..Len(a) /\ p[2] \in 0..Len(b) /\ p = <<p[1], p[2]>>
  BY DEF Places
<1>3. \A i \in 0..Len(a), j \in 0..Len(b) :
         /\ <<i, j>> \in Places(a, b)
         /\ Rank(a, b)[<<i, j>>] = Len(a) - i + Len(b) - j
  BY DEF Places, Rank
<1>4. PICK i \in 0..Len(a), j \in 0..Len(b) : i = p[1] /\ j = p[2]
  BY <1>2
<1>5. /\ i # Len(a) => i + 1 \in 0..Len(a) /\ i + 1 \in 1..Len(a)
      /\ j # Len(b) => j + 1 \in 0..Len(b) /\ j + 1 \in 1..Len(b)
  BY <1>1
<1>6. /\ i # Len(a) => a[i + 1] \in Line
      /\ j # Len(b) => b[j + 1] \in Line
  BY <1>5, Texts
<1>7. /\ i # Len(a) => /\ <<i + 1, j>> \in Places(a, b)
                       /\ Rank(a, b)[<<i + 1, j>>] < Rank(a, b)[<<i, j>>]
      /\ j # Len(b) => /\ <<i, j + 1>> \in Places(a, b)
                       /\ Rank(a, b)[<<i, j + 1>>] < Rank(a, b)[<<i, j>>]
      /\ i # Len(a) /\ j # Len(b) =>
            /\ <<i + 1, j + 1>> \in Places(a, b)
            /\ Rank(a, b)[<<i + 1, j + 1>>] < Rank(a, b)[<<i, j>>]
  <2>1. /\ Len(a) - (i + 1) + Len(b) - j < Len(a) - i + Len(b) - j
        /\ Len(a) - i + Len(b) - (j + 1) < Len(a) - i + Len(b) - j
        /\ Len(a) - (i + 1) + Len(b) - (j + 1) < Len(a) - i + Len(b) - j
    BY <1>1
  <2> QED BY <1>3, <1>5, <2>1
<1> QED BY <1>2, <1>3, <1>4, <1>6, <1>7

LEMMA RanksPlaces ==
    ASSUME NEW a \in Text, NEW b \in Text
    PROVE  Ranked(Places(a, b), Len(a) + Len(b), Rank(a, b))
<1>1. Len(a) \in Nat /\ Len(b) \in Nat
  BY Texts
<1>2. \A p \in Places(a, b) : Len(a) - p[1] + Len(b) - p[2] \in 0..(Len(a) + Len(b))
  <2> SUFFICES ASSUME NEW p \in Places(a, b)
               PROVE  Len(a) - p[1] + Len(b) - p[2] \in 0..(Len(a) + Len(b))
    OBVIOUS
  <2>1. p[1] \in 0..Len(a) /\ p[2] \in 0..Len(b)
    BY DEF Places
  <2>2. PICK i \in 0..Len(a), j \in 0..Len(b) : i = p[1] /\ j = p[2]
    BY <2>1
  <2>3. Len(a) - i + Len(b) - j \in 0..(Len(a) + Len(b))
    BY <1>1
  <2> QED BY <2>2, <2>3
<1> QED BY <1>1, <1>2 DEF Ranked, Rank

\* The table: its equations define it, and its entries are numbers.
LEMMA LcsIs ==
    ASSUME NEW a \in Text, NEW b \in Text, NEW q \in Places(a, b)
    PROVE  /\ Lcs(a, b)[q] \in Nat
           /\ Lcs(a, b)[q] =
                 IF q[1] = Len(a) \/ q[2] = Len(b) THEN 0
                 ELSE IF a[q[1] + 1] = b[q[2] + 1] THEN Lcs(a, b)[<<q[1] + 1, q[2] + 1>>] + 1
                 ELSE AtLeast(Lcs(a, b)[<<q[1] + 1, q[2]>>], Lcs(a, b)[<<q[1], q[2] + 1>>])
<1> DEFINE S == Places(a, b)
           rank == Rank(a, b)
           step(p, g) == IF p[1] = Len(a) \/ p[2] = Len(b) THEN 0
                         ELSE IF a[p[1] + 1] = b[p[2] + 1] THEN g[<<p[1] + 1, p[2] + 1>>] + 1
                         ELSE AtLeast(g[<<p[1] + 1, p[2]>>], g[<<p[1], p[2] + 1>>])
           G == [p \in S |-> [g \in [S -> Nat] |-> step(p, g)]]
           Solves(dp) == dp = [p \in S |-> step(p, dp)]
           Lower(p) == {r \in S : rank[r] < rank[p]}
<1>1. \A p \in S : \A g : (\A r \in Lower(p) : g[r] \in Nat) => step(p, g) \in Nat
  <2> SUFFICES ASSUME NEW p \in S, NEW g, \A r \in Lower(p) : g[r] \in Nat
               PROVE  step(p, g) \in Nat
    OBVIOUS
  <2>1. \A x, y : x \in Nat /\ y \in Nat => AtLeast(x, y) \in Nat
    BY DEF AtLeast
  <2>2. p[1] # Len(a) /\ p[2] # Len(b) =>
           /\ g[<<p[1] + 1, p[2] + 1>>] \in Nat
           /\ g[<<p[1] + 1, p[2]>>] \in Nat
           /\ g[<<p[1], p[2] + 1>>] \in Nat
    BY Onward
  <2> QED BY <2>1, <2>2
<1>2. \A p \in S : \A g, h : (\A r \in Lower(p) : g[r] = h[r]) => step(p, g) = step(p, h)
  <2> SUFFICES ASSUME NEW p \in S, NEW g, NEW h, \A r \in Lower(p) : g[r] = h[r]
               PROVE  step(p, g) = step(p, h)
    OBVIOUS
  <2>1. p[1] # Len(a) /\ p[2] # Len(b) =>
           /\ g[<<p[1] + 1, p[2] + 1>>] = h[<<p[1] + 1, p[2] + 1>>]
           /\ g[<<p[1] + 1, p[2]>>] = h[<<p[1] + 1, p[2]>>]
           /\ g[<<p[1], p[2] + 1>>] = h[<<p[1], p[2] + 1>>]
    BY Onward
  <2> QED BY <2>1
<1>3. Lcs(a, b) = CHOOSE dp : Solves(dp)
  BY DEF Lcs
<1> HIDE DEF step
<1>4. \A p \in S : \A g \in [S -> Nat] : G[p][g] = step(p, g) /\ step(p, g) \in Nat
  BY <1>1
<1>5. Descends(S, rank, Nat, G)
  <2>1. G \in [S -> [[S -> Nat] -> Nat]]
    BY <1>4
  <2> HIDE DEF G, S, rank
  <2>2. ASSUME NEW p \in S, NEW g \in [S -> Nat], NEW h \in [S -> Nat],
               \A r \in S : rank[r] < rank[p] => g[r] = h[r]
        PROVE  G[p][g] = G[p][h]
    BY <1>2, <1>4, <2>2
  <2> QED BY <2>1, <2>2 DEF Descends
<1>6. PICK f : Solved(S, Nat, G, f)
  <2> HIDE DEF G
  <2> QED BY <1>5, RanksPlaces, RecursiveFunction
<1>7. Solves(f)
  <2> HIDE DEF G, S
  <2> QED BY <1>4, <1>6 DEF Solved
<1>8. Solves(Lcs(a, b))
  <2> HIDE DEF Solves
  <2> QED BY <1>3, <1>7
<1> HIDE DEF G
<1>9. \A p \in S : Lcs(a, b)[p] = step(p, Lcs(a, b))
  <2> HIDE DEF S
  <2> QED BY <1>8
<1> DEFINE B == {p \in S : Lcs(a, b)[p] \in Nat}
<1>10. Inherited(S, rank, B)
  <2> HIDE DEF S, rank, Solves
  <2> QED BY <1>1, <1>9 DEF Inherited
<1>11. B = S
  <2>1. B \in SUBSET S
    OBVIOUS
  <2> HIDE DEF B
  <2> QED BY <2>1, <1>10, RanksPlaces, RankInduction
<1>12. Lcs(a, b)[q] \in Nat
  BY <1>11
<1> QED BY <1>9, <1>12 DEF step

\* The walk likewise: its equations define it, and it gives rows.
LEMMA WalkIs ==
    ASSUME NEW a \in Text, NEW b \in Text, NEW q \in Places(a, b)
    PROVE  /\ Walk(a, b)[q] \in Seq(Rows)
           /\ Walk(a, b)[q] =
                 IF q = <<Len(a), Len(b)>> THEN <<>>
                 ELSE IF SameLine(a, b, q)
                      THEN <<Row("eq", a[q[1] + 1])>> \o Walk(a, b)[<<q[1] + 1, q[2] + 1>>]
                 ELSE IF TakesOld(a, b, q)
                      THEN <<Row("del", a[q[1] + 1])>> \o Walk(a, b)[<<q[1] + 1, q[2]>>]
                 ELSE <<Row("add", b[q[2] + 1])>> \o Walk(a, b)[<<q[1], q[2] + 1>>]
<1> DEFINE S == Places(a, b)
           V == Seq(Rows)
           rank == Rank(a, b)
           step(p, g) == IF p = <<Len(a), Len(b)>> THEN <<>>
                         ELSE IF SameLine(a, b, p)
                              THEN <<Row("eq", a[p[1] + 1])>> \o g[<<p[1] + 1, p[2] + 1>>]
                         ELSE IF TakesOld(a, b, p)
                              THEN <<Row("del", a[p[1] + 1])>> \o g[<<p[1] + 1, p[2]>>]
                         ELSE <<Row("add", b[p[2] + 1])>> \o g[<<p[1], p[2] + 1>>]
           G == [p \in S |-> [g \in [S -> V] |-> step(p, g)]]
           Solves(out) == out = [p \in S |-> step(p, out)]
           Lower(p) == {r \in S : rank[r] < rank[p]}
<1>0. \A p \in S :
         \/ p = <<Len(a), Len(b)>>
         \/ p # <<Len(a), Len(b)>> /\ SameLine(a, b, p) /\ p[1] # Len(a) /\ p[2] # Len(b)
         \/ p # <<Len(a), Len(b)>> /\ ~SameLine(a, b, p) /\ TakesOld(a, b, p) /\ p[1] # Len(a)
         \/ p # <<Len(a), Len(b)>> /\ ~SameLine(a, b, p) /\ ~TakesOld(a, b, p) /\ p[2] # Len(b)
  <2> SUFFICES ASSUME NEW p \in S
               PROVE  /\ SameLine(a, b, p) => p[1] # Len(a) /\ p[2] # Len(b)
                      /\ TakesOld(a, b, p) => p[1] # Len(a)
                      /\ ~TakesOld(a, b, p) /\ p[2] = Len(b) => p = <<Len(a), Len(b)>>
    OBVIOUS
  <2>1. PICK i \in 0..Len(a), j \in 0..Len(b) : i = p[1] /\ j = p[2] /\ p = <<i, j>>
    BY PlacesArePairs
  <2>2. Len(a) \in Nat /\ Len(b) \in Nat
    BY Texts
  <2>3. (~(i < Len(a)) => i = Len(a)) /\ (i < Len(a) => i # Len(a)) /\ (j < Len(b) => j # Len(b))
    BY <2>2
  <2> QED BY <2>1, <2>3, Zenon DEF SameLine, TakesOld
<1>1. \A p \in S : \A g : (\A r \in Lower(p) : g[r] \in V) => step(p, g) \in V
  <2> SUFFICES ASSUME NEW p \in S, NEW g, \A r \in Lower(p) : g[r] \in V
               PROVE  step(p, g) \in V
    OBVIOUS
  <2>1. \A t \in {"eq", "del", "add"}, x \in Line, w \in V : <<Row(t, x)>> \o w \in V
    <3> SUFFICES ASSUME NEW t \in {"eq", "del", "add"}, NEW x \in Line, NEW w \in V
                 PROVE  <<Row(t, x)>> \o w \in V
      OBVIOUS
    <3>1. Row(t, x) \in Rows
      BY DEF Row, Rows
    <3> QED BY <3>1
  <2>2. <<>> \in V
    OBVIOUS
  <2> HIDE DEF V
  <2>3. /\ p[1] # Len(a) => a[p[1] + 1] \in Line /\ g[<<p[1] + 1, p[2]>>] \in V
        /\ p[2] # Len(b) => b[p[2] + 1] \in Line /\ g[<<p[1], p[2] + 1>>] \in V
        /\ p[1] # Len(a) /\ p[2] # Len(b) => g[<<p[1] + 1, p[2] + 1>>] \in V
    BY Onward
  <2> QED BY <1>0, <2>1, <2>2, <2>3
<1>2. \A p \in S : \A g, h : (\A r \in Lower(p) : g[r] = h[r]) => step(p, g) = step(p, h)
  <2> SUFFICES ASSUME NEW p \in S, NEW g, NEW h, \A r \in Lower(p) : g[r] = h[r]
               PROVE  step(p, g) = step(p, h)
    OBVIOUS
  <2>1. /\ p[1] # Len(a) => g[<<p[1] + 1, p[2]>>] = h[<<p[1] + 1, p[2]>>]
        /\ p[2] # Len(b) => g[<<p[1], p[2] + 1>>] = h[<<p[1], p[2] + 1>>]
        /\ p[1] # Len(a) /\ p[2] # Len(b) => g[<<p[1] + 1, p[2] + 1>>] = h[<<p[1] + 1, p[2] + 1>>]
    BY Onward
  <2> QED BY <1>0, <2>1
<1>3. Walk(a, b) = CHOOSE out : Solves(out)
  BY DEF Walk
<1>4. V # {}
  <2>1. <<>> \in V
    OBVIOUS
  <2> HIDE DEF V
  <2> QED BY <2>1
<1> HIDE DEF step, V
<1>5. \A p \in S : \A g \in [S -> V] : G[p][g] = step(p, g) /\ step(p, g) \in V
  BY <1>1
<1>6. Descends(S, rank, V, G)
  <2>1. G \in [S -> [[S -> V] -> V]]
    BY <1>5
  <2> HIDE DEF G, S, rank
  <2>2. ASSUME NEW p \in S, NEW g \in [S -> V], NEW h \in [S -> V],
               \A r \in S : rank[r] < rank[p] => g[r] = h[r]
        PROVE  G[p][g] = G[p][h]
    BY <1>2, <1>5, <2>2
  <2> QED BY <1>4, <2>1, <2>2 DEF Descends
<1>7. PICK f : Solved(S, V, G, f)
  <2> HIDE DEF G
  <2> QED BY <1>6, RanksPlaces, RecursiveFunction
<1>8. Solves(f)
  <2> HIDE DEF G, S
  <2> QED BY <1>5, <1>7 DEF Solved
<1>9. Solves(Walk(a, b))
  <2> HIDE DEF Solves
  <2> QED BY <1>3, <1>8
<1> HIDE DEF G
<1>10. \A p \in S : Walk(a, b)[p] = step(p, Walk(a, b))
  <2> HIDE DEF S
  <2> QED BY <1>9
<1> DEFINE B == {p \in S : Walk(a, b)[p] \in V}
<1>11. Inherited(S, rank, B)
  <2> HIDE DEF S, rank, Solves
  <2> QED BY <1>1, <1>10 DEF Inherited
<1>12. B = S
  <2>1. B \in SUBSET S
    OBVIOUS
  <2> HIDE DEF B
  <2> QED BY <2>1, <1>11, RanksPlaces, RankInduction
<1>13. Walk(a, b)[q] \in V
  BY <1>12
<1> QED BY <1>10, <1>13 DEF step, V

\* numberRows() numbers the rows it is given, and leaves the rest of them alone.
NumberedRows == [tag : {"eq", "del", "add"}, text : Line, a : Nat, b : Nat]

LEMMA CountIsNat ==
    ASSUME NEW rs, NEW k \in Nat, NEW t
    PROVE  /\ {i \in 1..k : rs[i].tag # t} \in SUBSET (1..k)
           /\ IsFiniteSet({i \in 1..k : rs[i].tag # t})
           /\ Count(rs, k, t) \in Nat
<1> DEFINE C == {i \in 1..k : rs[i].tag # t}
<1>1. C \in SUBSET (1..k)
  OBVIOUS
<1>2. IsFiniteSet(1..k)
  BY FS_Interval
<1>3. Count(rs, k, t) = Cardinality(C)
  BY DEF Count
<1> HIDE DEF C
<1>4. IsFiniteSet(C) /\ Cardinality(C) \in Nat
  BY <1>1, <1>2, FS_Subset, FS_CardinalityType
<1> QED BY <1>1, <1>3, <1>4 DEF C

LEMMA NumberedType ==
    ASSUME NEW rs \in Seq(Rows)
    PROVE  /\ numberRows(rs) \in Seq(NumberedRows)
           /\ Len(numberRows(rs)) = Len(rs) /\ DOMAIN numberRows(rs) = DOMAIN rs
           /\ \A k \in DOMAIN rs :
                 /\ numberRows(rs)[k].tag = rs[k].tag
                 /\ numberRows(rs)[k].text = rs[k].text
                 /\ numberRows(rs)[k].a = IF rs[k].tag = "add" THEN 0 ELSE Count(rs, k, "add")
                 /\ numberRows(rs)[k].b = IF rs[k].tag = "del" THEN 0 ELSE Count(rs, k, "del")
<1> DEFINE num(k) == [tag |-> rs[k].tag, text |-> rs[k].text,
                      a |-> IF rs[k].tag = "add" THEN 0 ELSE Count(rs, k, "add"),
                      b |-> IF rs[k].tag = "del" THEN 0 ELSE Count(rs, k, "del")]
<1>1. DOMAIN rs = 1..Len(rs) /\ Len(rs) \in Nat
  OBVIOUS
<1>2. \A k \in 1..Len(rs) : num(k) \in NumberedRows
  <2> SUFFICES ASSUME NEW k \in 1..Len(rs) PROVE num(k) \in NumberedRows
    OBVIOUS
  <2>1. rs[k] \in Rows
    OBVIOUS
  <2>2. Count(rs, k, "add") \in Nat /\ Count(rs, k, "del") \in Nat
    <3>1. k \in Nat
      OBVIOUS
    <3> QED BY <3>1, CountIsNat
  <2> QED BY <2>1, <2>2 DEF Rows, NumberedRows
<1>3. numberRows(rs) = [k \in 1..Len(rs) |-> num(k)]
  BY <1>1 DEF numberRows
<1>4. \A k \in 1..Len(rs) : numberRows(rs)[k] = num(k)
  <2> HIDE DEF num
  <2> QED BY <1>3
<1>5. numberRows(rs) \in Seq(NumberedRows) /\ Len(numberRows(rs)) = Len(rs)
      /\ DOMAIN numberRows(rs) = 1..Len(rs)
  <2> HIDE DEF num
  <2> QED BY <1>1, <1>2, <1>3
<1> QED BY <1>1, <1>4, <1>5

-----------------------------------------------------------------------------
\* What is drawn: nothing, or the numbered rows in segments, with cursors inside them.
FoldInv ==
    /\ old \in Text /\ new \in Text
    /\ rows \in Seq(NumberedRows)
    /\ Len(rows) = 0 => segs = <<>>
    /\ Len(rows) # 0 => /\ Segmented(rows, segs, Len(rows))
                        /\ DOMAIN shown = DOMAIN segs
                        /\ \A s \in DOMAIN segs : shown[s] \in 0..Size(s)

LEMMA FoldInit == Init => FoldInv
<1> SUFFICES ASSUME Init PROVE FoldInv
  OBVIOUS
<1>1. rows \in Seq(NumberedRows) /\ Len(rows) = 0
  BY DEF Init
<1> QED BY <1>1 DEF Init, FoldInv

LEMMA FoldStep == FoldInv /\ [Next]_vars => FoldInv'
<1> SUFFICES ASSUME FoldInv, [Next]_vars PROVE FoldInv'
  OBVIOUS
<1>1. CASE renderInto
  <2> DEFINE ld == lineDiff(old, new)
             rs == numberRows(ld)
             ss == hunkify(rs)
  <2>1. ld \in Seq(Rows)
    <3>1. <<0, 0>> \in Places(old, new)
      BY Texts DEF FoldInv, Places
    <3> QED BY <3>1, WalkIs DEF FoldInv, lineDiff
  <2> HIDE DEF ld
  <2>2. rs \in Seq(NumberedRows)
    BY <2>1, NumberedType
  <2>3. /\ counts(rs) # [add |-> 0, del |-> 0]
        /\ rows' = rs /\ segs' = ss /\ shown' = [s \in DOMAIN ss |-> 0]
        /\ old' = old /\ new' = new
    BY <1>1 DEF renderInto, ld
  <2> HIDE DEF rs, ss
  <2>4. Len(rs) \in 1..Len(rs)
    <3> SUFFICES ASSUME Len(rs) = 0 PROVE FALSE
      BY <2>2
    <3>1. \A t : {k \in DOMAIN rs : rs[k].tag = t} = {}
      BY <2>2
    <3>2. counts(rs) = [add |-> 0, del |-> 0]
      BY <3>1, FS_EmptySet DEF counts
    <3> QED BY <2>3, <3>2
  <2>5. Segmented(rs, ss, Len(rs))
    BY <2>2, <2>4, SegmentsCover DEF ss, hunkify
  <2>6. \A s \in DOMAIN ss : 0 \in 0..(ss[s].end - ss[s].first + 1)
    <3> SUFFICES ASSUME NEW s \in DOMAIN ss PROVE 0 \in 0..(ss[s].end - ss[s].first + 1)
      OBVIOUS
    <3>1. ss \in Seq(Seg) /\ ss[s].first <= ss[s].end
      BY <2>5 DEF Segmented, Covers
    <3>2. ss[s] \in Seg
      BY <3>1
    <3> QED BY <3>1, <3>2 DEF Seg
  <2>7. old' \in Text /\ new' \in Text /\ rows' \in Seq(NumberedRows)
    BY <2>2, <2>3 DEF FoldInv
  <2>8. Len(rows') # 0 /\ Segmented(rows', segs', Len(rows'))
    BY <2>2, <2>3, <2>4, <2>5
  <2>9. DOMAIN shown' = DOMAIN segs' /\ \A s \in DOMAIN segs' : shown'[s] \in 0..Size(s)'
    BY <2>3, <2>6 DEF Size
  <2> QED BY <2>7, <2>8, <2>9 DEF FoldInv
<1>2. ASSUME NEW s \in DOMAIN segs, Click(s) PROVE FoldInv'
  <2>1. /\ shown' = [shown EXCEPT ![s] = AtMost(Size(s), @ + Reveal)]
        /\ old' = old /\ new' = new /\ rows' = rows /\ segs' = segs
    BY <1>2 DEF Click
  <2>2. Len(rows) # 0
    BY DEF FoldInv
  <2>3. segs[s] \in Seg
    <3>1. segs \in Seq(Seg)
      BY <2>2 DEF FoldInv, Segmented
    <3> QED BY <3>1
  <2>4. AtMost(Size(s), shown[s] + Reveal) \in 0..Size(s)
    <3>1. Size(s) \in Int /\ shown[s] \in 0..Size(s)
      BY <2>2, <2>3 DEF FoldInv, Size, Seg
    <3> QED BY <3>1, OptionsAssumption DEF AtMost
  <2>5. DOMAIN shown' = DOMAIN segs' /\ \A x \in DOMAIN segs' : shown'[x] \in 0..Size(x)'
    BY <2>1, <2>2, <2>4 DEF FoldInv, Size
  <2> QED BY <2>1, <2>2, <2>5 DEF FoldInv
<1>3. CASE UNCHANGED vars
  BY <1>3 DEF vars, FoldInv, Size
<1> QED BY <1>1, <1>2, <1>3 DEF Next

LEMMA FoldsInvariant == Spec => []FoldInv
BY FoldInit, FoldStep, PTL DEF Spec
\* The segments of the invariant are what the property asks for.
LEMMA SegmentsFollow == FoldInv => FoldsHideNoChange
<1> SUFFICES ASSUME FoldInv, rows # <<>> PROVE FoldsHideNoChange
  BY DEF FoldsHideNoChange
<1>1. /\ Segmented(rows, segs, Len(rows)) /\ segs \in Seq(Seg)
      /\ \A s \in DOMAIN segs : shown[s] \in 0..Size(s)
  BY DEF FoldInv, Segmented
<1>2. Covers(segs, Len(rows)) /\ InTurn(segs) /\ HidesUnkept(rows, segs)
  BY <1>1 DEF Segmented
<1>3. segs[1].first = 1 /\ segs[Len(segs)].end = Len(rows)
  BY <1>2 DEF Covers
<1>4. \A s \in 1..(Len(segs) - 1) :
         segs[s + 1].first = segs[s].end + 1 /\ segs[s].vis # segs[s + 1].vis
  BY <1>2 DEF InTurn
<1>5. ASSUME NEW s \in DOMAIN segs, ~segs[s].vis
      PROVE  /\ Size(s) >= MinGap /\ shown[s] \in 0..Size(s)
             /\ \A k \in (Painted(s) + 1)..segs[s].end :
                   \A i \in DOMAIN rows : rows[i].tag # "eq" => k - i > Context \/ i - k > Context
  <2>1. Size(s) >= MinGap /\ shown[s] \in 0..Size(s)
    BY <1>1, <1>2, <1>5 DEF HidesUnkept, Size
  <2>2. segs[s] \in Seg
    BY <1>1
  <2>3. segs[s].first \in Nat /\ segs[s].end \in Nat
    BY <2>2 DEF Seg
  <2>4. ASSUME NEW k \in (Painted(s) + 1)..segs[s].end, NEW i \in DOMAIN rows, rows[i].tag # "eq"
        PROVE  k - i > Context \/ i - k > Context
    <3>1. k \in segs[s].first..segs[s].end
      BY <1>5, <2>1, <2>3 DEF Painted, Size
    <3>2. ~Keep(rows, k)
      BY <1>2, <1>5, <3>1 DEF HidesUnkept
    <3>3. k \notin (i - Context)..(i + Context)
      BY <2>4, <3>2 DEF Keep
    <3>4. i \in Nat /\ k \in Nat
      BY <2>3, <3>1 DEF FoldInv
    <3> QED BY <3>3, <3>4, OptionsAssumption
  <2> QED BY <2>1, <2>4
<1> QED BY <1>3, <1>4, <1>5 DEF FoldsHideNoChange

(* Folding hides no change, whatever the texts and the options: every      *)
(* segment hunkify() leaves hidden is a run of rows further than Context   *)
(* from any change, and the clicks move each fold's cursor inside it.      *)
THEOREM FoldsCorrect == Spec => []FoldsHideNoChange
BY FoldsInvariant, SegmentsFollow, PTL

-----------------------------------------------------------------------------
(* The walk tells both texts. *)

\* W is T moved up by one, with 1 or without.
LEMMA OneMore ==
    ASSUME NEW n \in Nat, NEW T \in SUBSET (1..n), NEW W \in SUBSET (1..(n + 1)),
           \A i \in 1..n : i + 1 \in W <=> i \in T
    PROVE  Cardinality(W) = Cardinality(T) + (IF 1 \in W THEN 1 ELSE 0)
<1> DEFINE U == W \ {1}
           f == [i \in T |-> i + 1]
<1>1. IsFiniteSet(T) /\ IsFiniteSet(W)
  <2>1. IsFiniteSet(1..n) /\ IsFiniteSet(1..(n + 1))
    BY FS_Interval
  <2> QED BY <2>1, FS_Subset
<1>2. \A x \in U : x - 1 \in T /\ (x - 1) + 1 = x
  <2> SUFFICES ASSUME NEW x \in U PROVE x - 1 \in T /\ (x - 1) + 1 = x
    OBVIOUS
  <2>1. x - 1 \in 1..n /\ (x - 1) + 1 = x
    OBVIOUS
  <2> QED BY <2>1
<1>3. f \in Injection(T, U)
  <2>1. \A i \in T : i \in 1..n /\ i + 1 \in U
    OBVIOUS
  <2>2. f \in [T -> U]
    BY <2>1
  <2>3. \A x, y \in T : f[x] = f[y] => x = y
    OBVIOUS
  <2> HIDE DEF f, U
  <2> QED BY <2>2, <2>3 DEF Injection, IsInjective
<1>4. f \in Surjection(T, U)
  <2>1. f \in [T -> U]
    BY <1>3 DEF Injection
  <2>2. \A x \in U : \E i \in T : f[i] = x
    BY <1>2
  <2> HIDE DEF f, U
  <2> QED BY <2>1, <2>2 DEF Surjection
<1>5. U = W \ {1}
  OBVIOUS
<1> HIDE DEF f, U
<1>6. IsFiniteSet(U) /\ Cardinality(U) = Cardinality(T) /\ Cardinality(U) \in Nat
  BY <1>1, <1>3, <1>4, <1>5, FS_RemoveElement, FS_Injection, FS_CardinalityType
<1>7. Cardinality(U) = IF 1 \in W THEN Cardinality(W) - 1 ELSE Cardinality(W)
  BY <1>1, <1>5, FS_RemoveElement
<1>8. Cardinality(W) \in Nat
  BY <1>1, FS_CardinalityType
<1> QED BY <1>6, <1>7, <1>8

\* How many rows are in both texts.
Equals(rs) == Cardinality({k \in DOMAIN rs : rs[k].tag = "eq"})

\* v is row r in front of the rows w.
Leads(v, r, w) == w \in Seq(Rows) /\ r \in Rows /\ v = <<r>> \o w

\* What a row in front changes.
LEMMA Prepended ==
    ASSUME NEW v, NEW r, NEW w, Leads(v, r, w)
    PROVE  /\ v \in Seq(Rows) /\ Len(v) = Len(w) + 1 /\ Len(w) \in Nat /\ v[1] = r
           /\ \A k \in 1..Len(w) : v[k + 1] = w[k]
           /\ \A t : \A k \in 0..Len(w) :
                 /\ Count(w, k, t) \in Nat
                 /\ r.tag = t => Count(v, k + 1, t) = Count(w, k, t)
                 /\ r.tag # t => Count(v, k + 1, t) = Count(w, k, t) + 1
           /\ \A t : r.tag # t => Count(v, 1, t) = 1
           /\ Equals(v) = Equals(w) + (IF r.tag = "eq" THEN 1 ELSE 0)
<1>1. /\ v \in Seq(Rows) /\ Len(v) = Len(w) + 1 /\ v[1] = r
      /\ \A k \in 1..Len(w) : v[k + 1] = w[k]
      /\ Len(w) \in Nat /\ DOMAIN w = 1..Len(w) /\ DOMAIN v = 1..(Len(w) + 1)
  BY DEF Leads
<1>2. ASSUME NEW t, NEW k \in 0..Len(w)
      PROVE  /\ Count(w, k, t) \in Nat
             /\ r.tag = t => Count(v, k + 1, t) = Count(w, k, t)
             /\ r.tag # t => Count(v, k + 1, t) = Count(w, k, t) + 1
  <2> DEFINE T == {i \in 1..k : w[i].tag # t}
             W == {i \in 1..(k + 1) : v[i].tag # t}
  <2>1. k \in Nat /\ T \in SUBSET (1..k) /\ W \in SUBSET (1..(k + 1))
    BY <1>1
  <2>2. \A i \in 1..k : i + 1 \in W <=> i \in T
    BY <1>1
  <2>3. 1 \in W <=> r.tag # t
    BY <1>1
  <2>4. Count(v, k + 1, t) = Cardinality(W) /\ Count(w, k, t) = Cardinality(T)
    BY DEF Count
  <2> HIDE DEF T, W
  <2>5. Cardinality(W) = Cardinality(T) + (IF 1 \in W THEN 1 ELSE 0)
    BY <2>1, <2>2, OneMore
  <2>6. Count(w, k, t) \in Nat
    BY <2>1, CountIsNat
  <2> QED BY <2>3, <2>4, <2>5, <2>6
<1>3. Equals(v) = Equals(w) + (IF r.tag = "eq" THEN 1 ELSE 0)
  <2> DEFINE T == {i \in DOMAIN w : w[i].tag = "eq"}
             W == {i \in DOMAIN v : v[i].tag = "eq"}
  <2>1. T \in SUBSET (1..Len(w)) /\ W \in SUBSET (1..(Len(w) + 1))
    BY <1>1
  <2>2. \A i \in 1..Len(w) : i + 1 \in W <=> i \in T
    BY <1>1
  <2>3. 1 \in W <=> r.tag = "eq"
    BY <1>1
  <2>4. Equals(v) = Cardinality(W) /\ Equals(w) = Cardinality(T)
    BY DEF Equals
  <2> HIDE DEF T, W
  <2>5. Cardinality(W) = Cardinality(T) + (IF 1 \in W THEN 1 ELSE 0)
    <3>1. Len(w) \in Nat
      BY <1>1
    <3> QED BY <3>1, <2>1, <2>2, OneMore
  <2> QED BY <2>3, <2>4, <2>5
<1>4. ASSUME NEW t, r.tag # t PROVE Count(v, 1, t) = 1
  <2>1. {i \in 1..1 : v[i].tag # t} = {1}
    BY <1>1, <1>4
  <2> QED BY <2>1, FS_Singleton DEF Count
<1> QED BY <1>1, <1>2, <1>3, <1>4

\* The rows of rs that are not tagged t are the lines of a text after its first i, in
\* order: the one that Count() numbers x shows line i + x, and there is one for each.
Tells(rs, t, text, i) ==
    /\ \A k \in 1..Len(rs) : rs[k].tag # t =>
          /\ i + Count(rs, k, t) \in (i + 1)..Len(text)
          /\ rs[k].text = text[i + Count(rs, k, t)]
    /\ \A x \in (i + 1)..Len(text) :
          \E k \in 1..Len(rs) : rs[k].tag # t /\ i + Count(rs, k, t) = x

LEMMA TellsNothing ==
    ASSUME NEW rs \in Seq(Rows), Len(rs) = 0, NEW t, NEW a \in Text
    PROVE  Tells(rs, t, a, Len(a)) /\ Equals(rs) = 0
<1>1. \A k \in 1..Len(rs) : FALSE
  OBVIOUS
<1>2. \A x \in (Len(a) + 1)..Len(a) : FALSE
  BY Texts
<1>3. {k \in DOMAIN rs : rs[k].tag = "eq"} = {}
  OBVIOUS
<1> QED BY <1>1, <1>2, <1>3, FS_EmptySet DEF Tells, Equals

\* A row of the other side in front changes nothing.
LEMMA TellsSkip ==
    ASSUME NEW v, NEW r, NEW w, Leads(v, r, w),
           NEW a \in Text, NEW i \in 0..Len(a), Tells(w, r.tag, a, i)
    PROVE  Tells(v, r.tag, a, i)
<1> DEFINE t == r.tag
<1>1. /\ Len(v) = Len(w) + 1 /\ Len(w) \in Nat /\ v[1] = r
      /\ \A k \in 1..Len(w) : v[k + 1] = w[k] /\ Count(v, k + 1, t) = Count(w, k, t)
                              /\ Count(w, k, t) \in Nat
  <2>1. \A k \in 1..Len(w) : k \in 0..Len(w)
    OBVIOUS
  <2> QED BY <2>1, Prepended
<1>2. \A k \in 1..Len(v) : k = 1 \/ (k - 1 \in 1..Len(w) /\ (k - 1) + 1 = k)
  BY <1>1
<1>3. ASSUME NEW k \in 1..Len(v), v[k].tag # t
      PROVE  i + Count(v, k, t) \in (i + 1)..Len(a) /\ v[k].text = a[i + Count(v, k, t)]
  <2>1. PICK m \in 1..Len(w) : m + 1 = k
    BY <1>1, <1>2, <1>3
  <2>2. v[k] = w[m] /\ Count(v, k, t) = Count(w, m, t)
    BY <1>1, <2>1
  <2>3. i + Count(w, m, t) \in (i + 1)..Len(a) /\ w[m].text = a[i + Count(w, m, t)]
    BY <1>3, <2>2 DEF Tells
  <2> QED BY <2>2, <2>3
<1>4. ASSUME NEW x \in (i + 1)..Len(a)
      PROVE  \E k \in 1..Len(v) : v[k].tag # t /\ i + Count(v, k, t) = x
  <2>1. PICK m \in 1..Len(w) : w[m].tag # t /\ i + Count(w, m, t) = x
    BY DEF Tells
  <2>2. m + 1 \in 1..Len(v)
    BY <1>1
  <2> QED BY <1>1, <2>1, <2>2
<1> QED BY <1>3, <1>4 DEF Tells

\* A row that shows the next line in front is told with the lines after it.
LEMMA TellsTake ==
    ASSUME NEW v, NEW r, NEW w, Leads(v, r, w), NEW t, r.tag # t,
           NEW a \in Text, NEW i \in 0..Len(a), i # Len(a), r.text = a[i + 1],
           Tells(w, t, a, i + 1)
    PROVE  Tells(v, t, a, i)
<1>0. Len(a) \in Nat /\ i + 1 \in (i + 1)..Len(a) /\ i \in Nat
  BY Texts
<1>1. /\ Len(v) = Len(w) + 1 /\ Len(w) \in Nat /\ v[1] = r
      /\ \A k \in 1..Len(w) : v[k + 1] = w[k] /\ Count(v, k + 1, t) = Count(w, k, t) + 1
                              /\ Count(w, k, t) \in Nat
  <2>1. \A k \in 1..Len(w) : k \in 0..Len(w)
    OBVIOUS
  <2> QED BY <2>1, Prepended
<1>2. Count(v, 1, t) = 1
  BY Prepended
<1>3. \A k \in 1..Len(v) : k = 1 \/ (k - 1 \in 1..Len(w) /\ (k - 1) + 1 = k)
  BY <1>1
<1>4. ASSUME NEW k \in 1..Len(v), v[k].tag # t
      PROVE  i + Count(v, k, t) \in (i + 1)..Len(a) /\ v[k].text = a[i + Count(v, k, t)]
  <2>1. CASE k = 1
    BY <1>0, <1>1, <1>2, <2>1
  <2>2. CASE k # 1
    <3>1. PICK m \in 1..Len(w) : m + 1 = k
      BY <1>3, <2>2
    <3>2. /\ (i + 1) + Count(w, m, t) \in ((i + 1) + 1)..Len(a)
          /\ w[m].text = a[(i + 1) + Count(w, m, t)]
      BY <1>0, <1>1, <1>4, <3>1 DEF Tells
    <3>5. v[k] = w[m] /\ Count(v, k, t) = Count(w, m, t) + 1 /\ Count(w, m, t) \in Nat
      BY <1>1, <3>1
    <3>3. i + Count(v, k, t) = (i + 1) + Count(w, m, t) /\ v[k] = w[m]
      BY <1>0, <3>5
    <3>4. (i + 1) + Count(w, m, t) \in (i + 1)..Len(a)
      BY <1>0, <3>2
    <3> QED BY <3>2, <3>3, <3>4
  <2> QED BY <2>1, <2>2
<1>5. ASSUME NEW x \in (i + 1)..Len(a)
      PROVE  \E k \in 1..Len(v) : v[k].tag # t /\ i + Count(v, k, t) = x
  <2>1. CASE x = i + 1
    <3>1. 1 \in 1..Len(v)
      BY <1>1
    <3> QED BY <1>0, <1>1, <1>2, <2>1, <3>1
  <2>2. CASE x # i + 1
    <3>1. x \in ((i + 1) + 1)..Len(a)
      BY <1>0, <2>2
    <3>2. PICK m \in 1..Len(w) : w[m].tag # t /\ (i + 1) + Count(w, m, t) = x
      BY <3>1 DEF Tells
    <3>3. m + 1 \in 1..Len(v)
      BY <1>1
    <3>4. i + Count(v, m + 1, t) = x /\ v[m + 1].tag # t
      BY <1>0, <1>1, <3>2
    <3> QED BY <3>3, <3>4
  <2> QED BY <2>1, <2>2
<1> QED BY <1>4, <1>5 DEF Tells
\* From every place on, the walk tells what is left of both texts, and has as many equal
\* rows as the table says.
Walked(a, b, p) ==
    /\ Tells(Walk(a, b)[p], "add", a, p[1]) /\ Tells(Walk(a, b)[p], "del", b, p[2])
    /\ Equals(Walk(a, b)[p]) = Lcs(a, b)[p]

\* Each kind of row in front of what is told from the place after it.
LEMMA WalkSame ==
    ASSUME NEW a \in Text, NEW b \in Text, NEW p \in Places(a, b), SameLine(a, b, p),
           Walked(a, b, <<p[1] + 1, p[2] + 1>>)
    PROVE  Walked(a, b, p)
<1> DEFINE v == Walk(a, b)[p]
           r == Row("eq", a[p[1] + 1])
           w == Walk(a, b)[<<p[1] + 1, p[2] + 1>>]
<1>1. PICK i \in 0..Len(a), j \in 0..Len(b) : i = p[1] /\ j = p[2] /\ p = <<i, j>>
  BY PlacesArePairs
<1>2. i < Len(a) /\ j < Len(b) /\ a[i + 1] = b[j + 1] /\ i # Len(a) /\ j # Len(b)
  <2>1. Len(a) \in Nat /\ Len(b) \in Nat
    BY Texts
  <2>2. i < Len(a) /\ j < Len(b) /\ a[i + 1] = b[j + 1]
    BY <1>1 DEF SameLine
  <2> QED BY <2>1, <2>2
<1>3. <<i + 1, j + 1>> \in Places(a, b) /\ a[i + 1] \in Line
  BY <1>1, <1>2, Onward
<1>4. p # <<Len(a), Len(b)>>
  BY <1>1, <1>2
<1>5. v = <<r>> \o w /\ w \in Seq(Rows)
  BY <1>1, <1>3, <1>4, WalkIs
<1>6. r \in Rows /\ r.tag = "eq" /\ r.text = a[i + 1] /\ r.text = b[j + 1]
  BY <1>1, <1>2, <1>3 DEF Row, Rows
<1>7. /\ Tells(w, "add", a, i + 1) /\ Tells(w, "del", b, j + 1)
      /\ Equals(w) = Lcs(a, b)[<<i + 1, j + 1>>]
  BY <1>1 DEF Walked
<1>8. Lcs(a, b)[p] = Lcs(a, b)[<<i + 1, j + 1>>] + 1
  BY <1>1, <1>2, LcsIs
<1> HIDE DEF v, r, w
<1>9. Leads(v, r, w) /\ r.tag # "add" /\ r.tag # "del"
  BY <1>5, <1>6 DEF Leads
<1>10. Tells(v, "add", a, i) /\ Tells(v, "del", b, j)
  BY <1>2, <1>6, <1>7, <1>9, TellsTake
<1>11. Equals(v) = Equals(w) + 1
  BY <1>6, <1>9, Prepended
<1> QED BY <1>1, <1>7, <1>8, <1>10, <1>11 DEF Walked, v

LEMMA WalkOld ==
    ASSUME NEW a \in Text, NEW b \in Text, NEW p \in Places(a, b), ~SameLine(a, b, p),
           TakesOld(a, b, p), Walked(a, b, <<p[1] + 1, p[2]>>)
    PROVE  Walked(a, b, p)
<1> DEFINE v == Walk(a, b)[p]
           r == Row("del", a[p[1] + 1])
           w == Walk(a, b)[<<p[1] + 1, p[2]>>]
<1>1. PICK i \in 0..Len(a), j \in 0..Len(b) : i = p[1] /\ j = p[2] /\ p = <<i, j>>
  BY PlacesArePairs
<1>0. Len(a) \in Nat /\ Len(b) \in Nat
  BY Texts
<1>2. i # Len(a) /\ i < Len(a) /\ (j # Len(b) => j < Len(b))
  <2>1. (i < Len(a) => i # Len(a)) /\ (j # Len(b) => j < Len(b))
    BY <1>0
  <2>2. i < Len(a)
    BY <1>1, Zenon DEF TakesOld
  <2> QED BY <2>1, <2>2
<1>3. <<i + 1, j>> \in Places(a, b) /\ a[i + 1] \in Line
  BY <1>1, <1>2, Onward
<1>4. p # <<Len(a), Len(b)>>
  BY <1>1, <1>2
<1>5. v = <<r>> \o w /\ w \in Seq(Rows)
  BY <1>1, <1>3, <1>4, WalkIs
<1>6. r \in Rows /\ r.tag = "del" /\ r.text = a[i + 1]
  BY <1>1, <1>3 DEF Row, Rows
<1>7. /\ Tells(w, "add", a, i + 1) /\ Tells(w, "del", b, j)
      /\ Equals(w) = Lcs(a, b)[<<i + 1, j>>]
  BY <1>1 DEF Walked
<1>8. Lcs(a, b)[p] = Lcs(a, b)[<<i + 1, j>>]
  <2>1. CASE j = Len(b)
    <3>1. \A q \in Places(a, b) : q[2] = Len(b) => Lcs(a, b)[q] = 0
      BY LcsIs
    <3>2. <<i + 1, j>>[2] = j
      OBVIOUS
    <3> QED BY <1>1, <1>3, <2>1, <3>1, <3>2
  <2>2. CASE j # Len(b)
    <3>1. /\ Lcs(a, b)[<<i + 1, j>>] >= Lcs(a, b)[<<i, j + 1>>]
          /\ a[i + 1] # b[j + 1]
      BY <1>1, <1>2, <2>2 DEF TakesOld, SameLine
    <3>2. Lcs(a, b)[p] = AtLeast(Lcs(a, b)[<<i + 1, j>>], Lcs(a, b)[<<i, j + 1>>])
      BY <1>1, <1>2, <2>2, <3>1, LcsIs
    <3> QED BY <3>1, <3>2 DEF AtLeast
  <2> QED BY <2>1, <2>2
<1> HIDE DEF v, r, w
<1>9. Leads(v, r, w) /\ r.tag # "add" /\ r.tag # "eq"
  BY <1>5, <1>6 DEF Leads
<1>10. Tells(v, "add", a, i)
  BY <1>2, <1>6, <1>7, <1>9, TellsTake
<1>11. Tells(v, "del", b, j)
  BY <1>6, <1>7, <1>9, TellsSkip
<1>12. Equals(v) = Equals(w) + 0
  BY <1>9, Prepended
<1>13. Lcs(a, b)[<<i + 1, j>>] \in Nat
  BY <1>3, LcsIs
<1> QED BY <1>1, <1>7, <1>8, <1>10, <1>11, <1>12, <1>13 DEF Walked, v

LEMMA WalkNew ==
    ASSUME NEW a \in Text, NEW b \in Text, NEW p \in Places(a, b), ~SameLine(a, b, p),
           ~TakesOld(a, b, p), p # <<Len(a), Len(b)>>,
           p[2] # Len(b) => Walked(a, b, <<p[1], p[2] + 1>>)
    PROVE  Walked(a, b, p)
<1> DEFINE v == Walk(a, b)[p]
           r == Row("add", b[p[2] + 1])
           w == Walk(a, b)[<<p[1], p[2] + 1>>]
<1>1. PICK i \in 0..Len(a), j \in 0..Len(b) : i = p[1] /\ j = p[2] /\ p = <<i, j>>
  BY PlacesArePairs
<1>0. Len(a) \in Nat /\ Len(b) \in Nat
  BY Texts
<1>2. j # Len(b) /\ j < Len(b) /\ (i # Len(a) => i < Len(a))
  <2>1. (i # Len(a) => i < Len(a)) /\ (j # Len(b) => j < Len(b)) /\ ~(Len(b) < Len(b))
    BY <1>0
  <2>2. j # Len(b)
    BY <1>1, <2>1, Zenon DEF TakesOld
  <2> QED BY <2>1, <2>2
<1>3. <<i, j + 1>> \in Places(a, b) /\ b[j + 1] \in Line
  BY <1>1, <1>2, Onward
<1>5. v = <<r>> \o w /\ w \in Seq(Rows)
  BY <1>1, <1>3, WalkIs
<1>6. r \in Rows /\ r.tag = "add" /\ r.text = b[j + 1]
  BY <1>1, <1>3 DEF Row, Rows
<1>7. /\ Tells(w, "add", a, i) /\ Tells(w, "del", b, j + 1)
      /\ Equals(w) = Lcs(a, b)[<<i, j + 1>>]
  BY <1>1, <1>2 DEF Walked
<1>8. Lcs(a, b)[p] = Lcs(a, b)[<<i, j + 1>>]
  <2>1. CASE i = Len(a)
    <3>1. \A q \in Places(a, b) : q[1] = Len(a) => Lcs(a, b)[q] = 0
      BY LcsIs
    <3>2. <<i, j + 1>>[1] = i
      OBVIOUS
    <3> QED BY <1>1, <1>3, <2>1, <3>1, <3>2
  <2>2. CASE i # Len(a)
    <3>1. /\ ~(Lcs(a, b)[<<i + 1, j>>] >= Lcs(a, b)[<<i, j + 1>>])
          /\ a[i + 1] # b[j + 1]
      BY <1>1, <1>2, <2>2 DEF TakesOld, SameLine
    <3>2. Lcs(a, b)[p] = AtLeast(Lcs(a, b)[<<i + 1, j>>], Lcs(a, b)[<<i, j + 1>>])
      BY <1>1, <1>2, <2>2, <3>1, LcsIs
    <3> QED BY <3>1, <3>2 DEF AtLeast
  <2> QED BY <2>1, <2>2
<1> HIDE DEF v, r, w
<1>9. Leads(v, r, w) /\ r.tag # "del" /\ r.tag # "eq"
  BY <1>5, <1>6 DEF Leads
<1>10. Tells(v, "del", b, j)
  BY <1>2, <1>6, <1>7, <1>9, TellsTake
<1>11. Tells(v, "add", a, i)
  BY <1>6, <1>7, <1>9, TellsSkip
<1>12. Equals(v) = Equals(w) + 0
  BY <1>9, Prepended
<1>13. Lcs(a, b)[<<i, j + 1>>] \in Nat
  BY <1>3, LcsIs
<1> QED BY <1>1, <1>7, <1>8, <1>10, <1>11, <1>12, <1>13 DEF Walked, v

LEMMA WalkEnd ==
    ASSUME NEW a \in Text, NEW b \in Text
    PROVE  Walked(a, b, <<Len(a), Len(b)>>)
<1>1. <<Len(a), Len(b)>> \in Places(a, b)
  BY Texts DEF Places
<1>2. Walk(a, b)[<<Len(a), Len(b)>>] = <<>> /\ Lcs(a, b)[<<Len(a), Len(b)>>] = 0
  BY <1>1, WalkIs, LcsIs
<1>3. <<>> \in Seq(Rows) /\ Len(<<>>) = 0
  OBVIOUS
<1>4. \A t : \A c \in Text : Tells(<<>>, t, c, Len(c)) /\ Equals(<<>>) = 0
  BY <1>3, TellsNothing, Zenon
<1> QED BY <1>2, <1>4 DEF Walked

LEMMA WalkWalks ==
    ASSUME NEW a \in Text, NEW b \in Text, NEW p \in Places(a, b)
    PROVE  Walked(a, b, p)
<1> DEFINE S == Places(a, b)
           B == {q \in S : Walked(a, b, q)}
<1>1. ASSUME NEW q \in S, \A r \in S : Rank(a, b)[r] < Rank(a, b)[q] => r \in B
      PROVE  Walked(a, b, q)
  <2>1. /\ q[1] # Len(a) => Walked(a, b, <<q[1] + 1, q[2]>>)
        /\ q[2] # Len(b) => Walked(a, b, <<q[1], q[2] + 1>>)
        /\ q[1] # Len(a) /\ q[2] # Len(b) => Walked(a, b, <<q[1] + 1, q[2] + 1>>)
    BY <1>1, Onward
  <2>2. /\ SameLine(a, b, q) => q[1] # Len(a) /\ q[2] # Len(b)
        /\ TakesOld(a, b, q) => q[1] # Len(a)
    <3>1. PICK i \in 0..Len(a), j \in 0..Len(b) : i = q[1] /\ j = q[2]
      <4>1. q[1] \in 0..Len(a) /\ q[2] \in 0..Len(b)
        BY Onward, Zenon
      <4> QED BY <4>1, Zenon
    <3>2. Len(a) \in Nat /\ Len(b) \in Nat
      BY Texts
    <3>3. (i < Len(a) => i # Len(a)) /\ (j < Len(b) => j # Len(b))
      BY <3>2
    <3> QED BY <3>1, <3>3, Zenon DEF SameLine, TakesOld
  <2>3. CASE SameLine(a, b, q)
    BY <2>1, <2>2, <2>3, WalkSame
  <2>4. CASE ~SameLine(a, b, q) /\ TakesOld(a, b, q)
    BY <2>1, <2>2, <2>4, WalkOld
  <2>5. CASE ~SameLine(a, b, q) /\ ~TakesOld(a, b, q) /\ q # <<Len(a), Len(b)>>
    BY <2>1, <2>5, WalkNew
  <2>6. CASE q = <<Len(a), Len(b)>>
    BY <2>6, WalkEnd
  <2> QED BY <2>3, <2>4, <2>5, <2>6
<1>2. Inherited(S, Rank(a, b), B)
  BY <1>1 DEF Inherited
<1>3. B = S
  <2>1. B \in SUBSET S
    OBVIOUS
  <2> HIDE DEF B
  <2> QED BY <2>1, <1>2, RanksPlaces, RankInduction
<1> QED BY <1>3
-----------------------------------------------------------------------------
(* No common subsequence is longer than the table says. *)

\* No common subsequence of what is left of both texts is longer than the table says.
Ordered(I, x) == {z \in I : z < x}
Matched(a, b, I, J) ==
    \A x \in I : \A y \in J :
       Cardinality(Ordered(I, x)) = Cardinality(Ordered(J, y)) => a[x] = b[y]
Bounded(a, b, p) ==
    \A I \in SUBSET ((p[1] + 1)..Len(a)) : \A J \in SUBSET ((p[2] + 1)..Len(b)) :
       Cardinality(I) = Cardinality(J) /\ Matched(a, b, I, J) =>
          Cardinality(I) <= Lcs(a, b)[p]

\* f is the first of a part I of a text's lines.
Foremost(I, f) == I \in SUBSET Nat /\ IsFiniteSet(I) /\ f \in I /\ \A x \in I : f <= x

\* Each other line of I has one line less before it without f.
OneLess(I, f) ==
    \A x \in I : x # f =>
       /\ Cardinality(Ordered(I \ {f}, x)) \in Nat
       /\ Cardinality(Ordered(I, x)) = Cardinality(Ordered(I \ {f}, x)) + 1

\* Without its first line, a part of a text is one shorter, and so is what comes before
\* each line.
LEMMA Rest ==
    ASSUME NEW I, NEW f, Foremost(I, f)
    PROVE  /\ Cardinality(I \ {f}) = Cardinality(I) - 1
           /\ Cardinality(Ordered(I, f)) = 0
           /\ OneLess(I, f)
<1>1. Cardinality(I \ {f}) = Cardinality(I) - 1
  BY FS_RemoveElement DEF Foremost
<1>2. \A x \in I : x \in Nat /\ f \in Nat /\ f <= x
  BY DEF Foremost
<1>3. Ordered(I, f) = {}
  <2>1. \A x \in I : ~(x < f)
    BY <1>2
  <2> QED BY <2>1 DEF Ordered
<1>4. ASSUME NEW x \in I, x # f
      PROVE  /\ Cardinality(Ordered(I \ {f}, x)) \in Nat
             /\ Cardinality(Ordered(I, x)) = Cardinality(Ordered(I \ {f}, x)) + 1
  <2>1. f \in Ordered(I, x)
    BY <1>2, <1>4 DEF Ordered, Foremost
  <2>2. Ordered(I \ {f}, x) = Ordered(I, x) \ {f}
    BY DEF Ordered
  <2>3. IsFiniteSet(Ordered(I, x))
    <3>1. Ordered(I, x) \in SUBSET I
      BY DEF Ordered
    <3> QED BY <3>1, FS_Subset DEF Foremost
  <2>4. /\ Cardinality(Ordered(I, x) \ {f}) = Cardinality(Ordered(I, x)) - 1
        /\ IsFiniteSet(Ordered(I, x) \ {f})
    BY <2>1, <2>3, FS_RemoveElement
  <2>5. Cardinality(Ordered(I, x)) \in Nat /\ Cardinality(Ordered(I, x) \ {f}) \in Nat
    BY <2>3, <2>4, FS_CardinalityType
  <2>6. Cardinality(Ordered(I \ {f}, x)) = Cardinality(Ordered(I, x) \ {f})
    BY <2>2, Zenon
  <2> HIDE DEF Ordered
  <2> QED BY <2>4, <2>5, <2>6
<1>5. OneLess(I, f)
  BY <1>4 DEF OneLess
<1> QED BY <1>1, <1>3, <1>5, FS_EmptySet

\* Two matched parts match on their first lines, and on what follows.
LEMMA RestMatched ==
    ASSUME NEW a, NEW b, NEW I, NEW J, NEW f, NEW g,
           Foremost(I, f), Foremost(J, g), Matched(a, b, I, J)
    PROVE  Matched(a, b, I \ {f}, J \ {g}) /\ a[f] = b[g]
<1>1. ASSUME NEW x \in I, NEW y \in J, x # f, y # g,
             Cardinality(Ordered(I \ {f}, x)) = Cardinality(Ordered(J \ {g}, y))
      PROVE  a[x] = b[y]
  <2>1. OneLess(I, f) /\ OneLess(J, g)
    BY Rest, Zenon
  <2>2. /\ Cardinality(Ordered(I, x)) = Cardinality(Ordered(I \ {f}, x)) + 1
        /\ Cardinality(Ordered(J, y)) = Cardinality(Ordered(J \ {g}, y)) + 1
    BY <1>1, <2>1, Zenon DEF OneLess
  <2>3. Cardinality(Ordered(I, x)) = Cardinality(Ordered(J, y))
    BY <1>1, <2>2
  <2> QED BY <2>3 DEF Matched
<1>2. Cardinality(Ordered(I, f)) = 0 /\ Cardinality(Ordered(J, g)) = 0
  BY Rest
<1>3. a[f] = b[g]
  BY <1>2 DEF Matched, Foremost
<1> QED BY <1>1, <1>3 DEF Matched

\* A common subsequence drops one of two different first lines, or loses two equal ones.
LEMMA LcsBounds ==
    ASSUME NEW a \in Text, NEW b \in Text, NEW p \in Places(a, b)
    PROVE  Bounded(a, b, p)
<1> DEFINE S == Places(a, b)
           B == {q \in S : Bounded(a, b, q)}
<1>0. Len(a) \in Nat /\ Len(b) \in Nat
  BY Texts
<1>1. ASSUME NEW q \in S, \A r \in S : Rank(a, b)[r] < Rank(a, b)[q] => r \in B
      PROVE  Bounded(a, b, q)
  <2>1. PICK i \in 0..Len(a), j \in 0..Len(b) : i = q[1] /\ j = q[2] /\ q = <<i, j>>
    BY PlacesArePairs
  <2>2. i \in Nat /\ j \in Nat /\ Lcs(a, b)[q] \in Nat
    <3>1. Lcs(a, b)[q] \in Nat
      BY LcsIs
    <3>2. i \in Nat /\ j \in Nat
      BY <1>0
    <3> QED BY <3>1, <3>2
  <2> SUFFICES ASSUME NEW I \in SUBSET ((i + 1)..Len(a)), NEW J \in SUBSET ((j + 1)..Len(b)),
                      Cardinality(I) = Cardinality(J), Matched(a, b, I, J)
               PROVE  Cardinality(I) <= Lcs(a, b)[q]
    BY <2>1 DEF Bounded
  <2>3. /\ IsFiniteSet(I) /\ Cardinality(I) \in Nat /\ I \in SUBSET Nat
        /\ IsFiniteSet(J) /\ Cardinality(J) \in Nat /\ J \in SUBSET Nat
    <3>1. IsFiniteSet(I) /\ Cardinality(I) \in Nat /\ I \in SUBSET Nat
      <4>1. i + 1 \in Int /\ Len(a) \in Int
        BY <1>0, <2>2
      <4>2. IsFiniteSet((i + 1)..Len(a))
        BY <4>1, FS_Interval
      <4>3. IsFiniteSet(I)
        BY <4>2, FS_Subset
      <4>4. \A z \in I : z \in Nat
        BY <1>0, <2>2
      <4> QED BY <4>3, <4>4, FS_CardinalityType
    <3>2. IsFiniteSet(J) /\ Cardinality(J) \in Nat /\ J \in SUBSET Nat
      <4>1. j + 1 \in Int /\ Len(b) \in Int
        BY <1>0, <2>2
      <4>2. IsFiniteSet((j + 1)..Len(b))
        BY <4>1, FS_Interval
      <4>3. IsFiniteSet(J)
        BY <4>2, FS_Subset
      <4>4. \A z \in J : z \in Nat
        BY <1>0, <2>2
      <4> QED BY <4>3, <4>4, FS_CardinalityType
    <3> QED BY <3>1, <3>2
  <2>4. CASE I = {}
    BY <2>2, <2>4, FS_EmptySet
  <2>5. CASE I # {}
    <3>1. J # {}
      BY <2>3, <2>5, FS_EmptySet
    <3>2. PICK f \in I : Foremost(I, f)
      BY <2>3, <2>5, LeastNatural DEF Foremost
    <3>3. PICK g \in J : Foremost(J, g)
      BY <2>3, <3>1, LeastNatural DEF Foremost
    <3>4. i # Len(a) /\ j # Len(b)
      <4>1. f \in (i + 1)..Len(a) /\ g \in (j + 1)..Len(b)
        OBVIOUS
      <4> QED BY <1>0, <2>2, <4>1
    <3>5. Matched(a, b, I \ {f}, J \ {g}) /\ a[f] = b[g]
      BY <3>2, <3>3, RestMatched
    <3>6. /\ <<i + 1, j>> \in S /\ Bounded(a, b, <<i + 1, j>>)
          /\ <<i, j + 1>> \in S /\ Bounded(a, b, <<i, j + 1>>)
          /\ <<i + 1, j + 1>> \in S /\ Bounded(a, b, <<i + 1, j + 1>>)
      BY <1>1, <2>1, <3>4, Onward
    <3>7. CASE a[i + 1] = b[j + 1]
      <4>1. /\ Cardinality(I \ {f}) = Cardinality(I) - 1
            /\ Cardinality(J \ {g}) = Cardinality(J) - 1
        BY <3>2, <3>3, Rest
      <4>2. /\ I \ {f} \in SUBSET (((i + 1) + 1)..Len(a))
            /\ J \ {g} \in SUBSET (((j + 1) + 1)..Len(b))
        <5>1. \A x \in I \ {f} : x \in Nat /\ x <= Len(a) /\ i + 1 <= f /\ f \in Nat /\ f <= x /\ x # f
          BY <1>0, <2>2, <3>2 DEF Foremost
        <5>2. \A y \in J \ {g} : y \in Nat /\ y <= Len(b) /\ j + 1 <= g /\ g \in Nat /\ g <= y /\ y # g
          BY <1>0, <2>2, <3>3 DEF Foremost
        <5> QED BY <1>0, <2>2, <5>1, <5>2
      <4>3. Cardinality(I \ {f}) <= Lcs(a, b)[<<i + 1, j + 1>>]
        BY <3>5, <3>6, <4>1, <4>2 DEF Bounded
      <4>4. Lcs(a, b)[q] = Lcs(a, b)[<<i + 1, j + 1>>] + 1
        BY <2>1, <3>4, <3>7, LcsIs
      <4>5. Lcs(a, b)[<<i + 1, j + 1>>] \in Nat
        BY <3>6, LcsIs
      <4> QED BY <2>3, <4>1, <4>3, <4>4, <4>5
    <3>8. CASE a[i + 1] # b[j + 1]
      <4>1. Lcs(a, b)[q] = AtLeast(Lcs(a, b)[<<i + 1, j>>], Lcs(a, b)[<<i, j + 1>>])
        BY <2>1, <3>4, <3>8, LcsIs
      <4>2. Lcs(a, b)[<<i + 1, j>>] \in Nat /\ Lcs(a, b)[<<i, j + 1>>] \in Nat
        BY <3>6, LcsIs
      <4>3. f # i + 1 \/ g # j + 1
        BY <3>5, <3>8
      <4>4. CASE f # i + 1
        <5>1. I \in SUBSET (((i + 1) + 1)..Len(a))
          <6>1. \A x \in I : x \in Nat /\ x <= Len(a) /\ i + 1 <= f /\ f \in Nat /\ f <= x
            BY <1>0, <2>2, <3>2 DEF Foremost
          <6> QED BY <1>0, <2>2, <4>4, <6>1
        <5>2. Cardinality(I) <= Lcs(a, b)[<<i + 1, j>>]
          BY <3>6, <5>1 DEF Bounded
        <5>3. \A k, x, y : k \in Nat /\ x \in Nat /\ y \in Nat /\ (k <= x \/ k <= y) =>
                 k <= AtLeast(x, y)
          BY DEF AtLeast
        <5> QED BY <2>3, <4>1, <4>2, <5>2, <5>3
      <4>5. CASE g # j + 1
        <5>1. J \in SUBSET (((j + 1) + 1)..Len(b))
          <6>1. \A y \in J : y \in Nat /\ y <= Len(b) /\ j + 1 <= g /\ g \in Nat /\ g <= y
            BY <1>0, <2>2, <3>3 DEF Foremost
          <6> QED BY <1>0, <2>2, <4>5, <6>1
        <5>2. Cardinality(I) <= Lcs(a, b)[<<i, j + 1>>]
          BY <3>6, <5>1 DEF Bounded
        <5>3. \A k, x, y : k \in Nat /\ x \in Nat /\ y \in Nat /\ (k <= x \/ k <= y) =>
                 k <= AtLeast(x, y)
          BY DEF AtLeast
        <5> QED BY <2>3, <4>1, <4>2, <5>2, <5>3
      <4> QED BY <4>3, <4>4, <4>5
    <3> QED BY <3>7, <3>8
  <2> QED BY <2>4, <2>5
<1>2. Inherited(S, Rank(a, b), B)
  BY <1>1 DEF Inherited
<1>3. B = S
  <2>1. B \in SUBSET S
    OBVIOUS
  <2> HIDE DEF B
  <2> QED BY <2>1, <1>2, RanksPlaces, RankInduction
<1> QED BY <1>3

\* num are the numbers of one side of w's rows, as rs shows them.
Numbered(w, t, rs, num) ==
    /\ DOMAIN rs = DOMAIN w /\ DOMAIN num = DOMAIN w
    /\ \A k \in DOMAIN w : /\ rs[k].text = w[k].text
                           /\ num[k] = IF w[k].tag = t THEN 0 ELSE Count(w, k, t)

\* In the diff's rows, Tells() is what Shows() asks of a side.
LEMMA ShowsSide ==
    ASSUME NEW w \in Seq(Rows), NEW t, NEW a \in Text, NEW rs, NEW num, Tells(w, t, a, 0),
           Numbered(w, t, rs, num)
    PROVE  /\ Shows(rs, num, a)
           /\ \A k \in DOMAIN w : num[k] = 0 <=> w[k].tag = t
<1>1. DOMAIN w = 1..Len(w) /\ DOMAIN a = 1..Len(a) /\ Len(a) \in Nat
  BY Texts
<1>2. \A k \in DOMAIN w : k \in Nat /\ Count(w, k, t) \in Nat
  <2>1. \A k \in DOMAIN w : k \in Nat
    OBVIOUS
  <2> QED BY <2>1, CountIsNat
<1>3. \A k \in DOMAIN w : w[k].tag # t =>
         Count(w, k, t) \in 1..Len(a) /\ w[k].text = a[Count(w, k, t)]
  <2> SUFFICES ASSUME NEW k \in DOMAIN w, w[k].tag # t
               PROVE  Count(w, k, t) \in 1..Len(a) /\ w[k].text = a[Count(w, k, t)]
    OBVIOUS
  <2>1. /\ 0 + Count(w, k, t) \in (0 + 1)..Len(a)
        /\ w[k].text = a[0 + Count(w, k, t)]
    BY <1>1 DEF Tells
  <2>2. 0 + Count(w, k, t) = Count(w, k, t) /\ 0 + 1 = 1
    BY <1>2
  <2> QED BY <2>1, <2>2
<1>4. \A x \in 1..Len(a) : \E k \in DOMAIN w : w[k].tag # t /\ Count(w, k, t) = x
  <2> SUFFICES ASSUME NEW x \in 1..Len(a)
               PROVE  \E k \in DOMAIN w : w[k].tag # t /\ Count(w, k, t) = x
    OBVIOUS
  <2>1. x \in (0 + 1)..Len(a)
    OBVIOUS
  <2>2. PICK k \in 1..Len(w) : w[k].tag # t /\ 0 + Count(w, k, t) = x
    BY <2>1 DEF Tells
  <2>3. k \in DOMAIN w /\ 0 + Count(w, k, t) = Count(w, k, t)
    BY <1>1, <1>2
  <2> QED BY <2>2, <2>3
<1>5. \A k \in DOMAIN w : num[k] = 0 <=> w[k].tag = t
  <2> SUFFICES ASSUME NEW k \in DOMAIN w PROVE num[k] = 0 <=> w[k].tag = t
    OBVIOUS
  <2>1. num[k] = IF w[k].tag = t THEN 0 ELSE Count(w, k, t)
    BY DEF Numbered
  <2> QED BY <1>2, <1>3, <2>1
<1>6. ASSUME NEW k \in DOMAIN w, NEW l \in DOMAIN w, k < l, w[l].tag # t
      PROVE  Count(w, k, t) < Count(w, l, t)
  <2> DEFINE K == {i \in 1..k : w[i].tag # t}
             L == {i \in 1..l : w[i].tag # t}
  <2>1. k \in Nat /\ l \in Nat
    BY <1>2
  <2>2. K \in SUBSET L /\ l \in L /\ l \notin K
    BY <1>6, <2>1
  <2>3. IsFiniteSet(L)
    <3>1. L \in SUBSET (1..l)
      OBVIOUS
    <3>2. IsFiniteSet(1..l)
      BY <2>1, FS_Interval
    <3> HIDE DEF L
    <3> QED BY <3>1, <3>2, FS_Subset
  <2>5. Count(w, k, t) = Cardinality(K) /\ Count(w, l, t) = Cardinality(L)
    BY DEF Count
  <2> HIDE DEF K, L
  <2>4. Cardinality(K) <= Cardinality(L) /\ Cardinality(K) # Cardinality(L)
    BY <2>2, <2>3, FS_Subset
  <2>6. Count(w, k, t) \in Nat /\ Count(w, l, t) \in Nat
    BY <1>2
  <2> QED BY <2>4, <2>5, <2>6
<1>7. \A k \in DOMAIN rs : num[k] # 0 => num[k] \in DOMAIN a /\ rs[k].text = a[num[k]]
  BY <1>1, <1>3, <1>5 DEF Numbered
<1>8. \A k, l \in DOMAIN rs : k < l /\ num[k] # 0 /\ num[l] # 0 => num[k] < num[l]
  BY <1>5, <1>6 DEF Numbered
<1>9. \A x \in DOMAIN a : \E k \in DOMAIN rs : num[k] = x
  BY <1>1, <1>4 DEF Numbered
<1> QED BY <1>5, <1>7, <1>8, <1>9 DEF Shows

LEMMA NoLonger ==
    ASSUME NEW a \in Text, NEW b \in Text, NEW k, k = Lcs(a, b)[<<0, 0>>] + 1
    PROVE  ~Common(a, b, k)
<1>1. <<0, 0>> \in Places(a, b)
  BY Texts DEF Places
<1>2. Bounded(a, b, <<0, 0>>) /\ Lcs(a, b)[<<0, 0>>] \in Nat
  BY <1>1, LcsBounds, LcsIs
<1> SUFFICES ASSUME NEW I \in SUBSET DOMAIN a, NEW J \in SUBSET DOMAIN b,
                    Cardinality(I) = k, Cardinality(J) = k,
                    \A i \in I : \A j \in J :
                       Cardinality({x \in I : x < i}) = Cardinality({x \in J : x < j}) => a[i] = b[j]
             PROVE  FALSE
  BY DEF Common
<1>3. I \in SUBSET ((0 + 1)..Len(a)) /\ J \in SUBSET ((0 + 1)..Len(b))
  BY Texts
<1>4. Matched(a, b, I, J)
  BY DEF Matched, Ordered
<1>5. Cardinality(I) <= Lcs(a, b)[<<0, 0>>]
  BY <1>2, <1>3, <1>4 DEF Bounded
<1> QED BY <1>2, <1>5

LEMMA DiffIsShortest == old \in Text /\ new \in Text => ShortestDiff
<1> SUFFICES ASSUME old \in Text, new \in Text PROVE ShortestDiff
  OBVIOUS
<1>1. PICK a \in Text : a = old
  OBVIOUS
<1>2. PICK b \in Text : b = new
  OBVIOUS
<1> DEFINE w == Walk(a, b)[<<0, 0>>]
           rs == numberRows(w)
           numA == [k \in DOMAIN rs |-> rs[k].a]
           numB == [k \in DOMAIN rs |-> rs[k].b]
<1>3. <<0, 0>> \in Places(a, b)
  BY Texts DEF Places
<1>4. w \in Seq(Rows) /\ Walked(a, b, <<0, 0>>)
  BY <1>3, WalkIs, WalkWalks
<1>5. /\ Tells(w, "add", a, 0) /\ Tells(w, "del", b, 0)
      /\ Equals(w) = Lcs(a, b)[<<0, 0>>]
  BY <1>4 DEF Walked
<1> HIDE DEF w
<1>6. /\ DOMAIN rs = DOMAIN w
      /\ \A k \in DOMAIN w :
            /\ rs[k].tag = w[k].tag /\ rs[k].text = w[k].text
            /\ rs[k].a = IF w[k].tag = "add" THEN 0 ELSE Count(w, k, "add")
            /\ rs[k].b = IF w[k].tag = "del" THEN 0 ELSE Count(w, k, "del")
  BY <1>4, NumberedType
<1> HIDE DEF rs
<1>7. /\ DOMAIN numA = DOMAIN w /\ DOMAIN numB = DOMAIN w
      /\ \A k \in DOMAIN w : numA[k] = rs[k].a /\ numB[k] = rs[k].b
  BY <1>6
<1> HIDE DEF numA, numB
<1>14. Numbered(w, "add", rs, numA) /\ Numbered(w, "del", rs, numB)
  BY <1>6, <1>7 DEF Numbered
<1>8. Shows(rs, numA, a) /\ \A k \in DOMAIN w : numA[k] = 0 <=> w[k].tag = "add"
  BY <1>4, <1>5, <1>14, ShowsSide
<1>9. Shows(rs, numB, b) /\ \A k \in DOMAIN w : numB[k] = 0 <=> w[k].tag = "del"
  BY <1>4, <1>5, <1>14, ShowsSide
<1>10. \A k \in DOMAIN rs : (rs[k].a = 0 <=> rs[k].tag = "add") /\ (rs[k].b = 0 <=> rs[k].tag = "del")
  BY <1>6, <1>7, <1>8, <1>9
<1>11. Cardinality({k \in DOMAIN rs : rs[k].tag = "eq"}) = Lcs(a, b)[<<0, 0>>]
  <2>1. {k \in DOMAIN rs : rs[k].tag = "eq"} = {k \in DOMAIN w : w[k].tag = "eq"}
    BY <1>6
  <2> QED BY <1>5, <2>1, Zenon DEF Equals
<1>12. ~Common(a, b, Cardinality({k \in DOMAIN rs : rs[k].tag = "eq"}) + 1)
  BY <1>11, NoLonger
<1>13. numberRows(lineDiff(old, new)) = rs
  BY <1>1, <1>2 DEF lineDiff, rs, w
<1> QED BY <1>1, <1>2, <1>8, <1>9, <1>10, <1>12, <1>13 DEF ShortestDiff, numA, numB

(* The diff of any two texts is one, and a shortest one: each side of the  *)
(* rows is the whole of its text, in order and under its numbers, and no   *)
(* common subsequence of the texts is longer than the rows left unchanged. *)
THEOREM DiffCorrect == Spec => []ShortestDiff
<1>1. FoldInv => ShortestDiff
  BY DiffIsShortest DEF FoldInv
<1> QED BY <1>1, FoldsInvariant, PTL
=============================================================================
