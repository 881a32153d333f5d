------------------------------ MODULE LineDiff ------------------------------
(***************************************************************************)
(* The line diff both viewers draw (web/app/static/linediff.js): the       *)
(* longest-common-subsequence table and the walk through it, the line      *)
(* numbers, the grouping into hunks and folds, and the folds' cursors,     *)
(* which a click moves.                                                    *)
(***************************************************************************)
EXTENDS Integers, Sequences, FiniteSets

CONSTANTS
    Line, MaxLines,            \* the lines a text is made of, and its length
    Context, MinGap, Reveal    \* hunkify()'s options and the step of a fold

ASSUME OptionsAssumption ==
    MaxLines \in Nat /\ Context \in Nat /\ MinGap \in Nat /\ Reveal \in Nat \ {0}

VARIABLES
    old, new,   \* the two texts
    rows,       \* the numbered rows of the diff, once it is drawn
    segs,       \* their segments
    shown       \* for each segment, how many rows of it clicks revealed
vars == <<old, new, rows, segs, shown>>

\* split("\n") gives at least one line.
Text == UNION {[1..n -> Line] : n \in 1..MaxLines}
AtLeast(x, y) == IF x >= y THEN x ELSE y
AtMost(x, y) == IF x <= y THEN x ELSE y

-----------------------------------------------------------------------------
\* The places <<i, j>> of the table and of the walk: i lines of a, and j of b, are behind.
Places(a, b) == (0..Len(a)) \X (0..Len(b))

\* dp[<<i, j>>]: the length for what is left of a after i lines and of b after j.
Lcs(a, b) ==
    LET dp[p \in Places(a, b)] ==
            IF p[1] = Len(a) \/ p[2] = Len(b) THEN 0
            ELSE IF a[p[1] + 1] = b[p[2] + 1] THEN dp[<<p[1] + 1, p[2] + 1>>] + 1
            ELSE AtLeast(dp[<<p[1] + 1, p[2]>>], dp[<<p[1], p[2] + 1>>])
    IN  dp

\* The tags stand for the code's ' ', '-' and '+'.
Row(t, x) == [tag |-> t, text |-> x]

\* Where both sides go on with the same line, and where the walk takes one of a: the
\* side the table favours, a when it favours neither.
SameLine(a, b, p) ==
    p[1] < Len(a) /\ p[2] < Len(b) /\ a[p[1] + 1] = b[p[2] + 1]
TakesOldGreedy(a, b, p) == p[1] < Len(a)
TakesOld(a, b, p) ==
    /\ p[1] < Len(a)
    /\ p[2] < Len(b) => Lcs(a, b)[<<p[1] + 1, p[2]>>] >= Lcs(a, b)[<<p[1], p[2] + 1>>]

\* The rows from a place on.
Walk(a, b) ==
    LET out[p \in Places(a, b)] ==
            IF p = <<Len(a), Len(b)>> THEN <<>>
            ELSE IF SameLine(a, b, p)
                 THEN <<Row("eq", a[p[1] + 1])>> \o out[<<p[1] + 1, p[2] + 1>>]
            ELSE IF TakesOld(a, b, p) THEN <<Row("del", a[p[1] + 1])>> \o out[<<p[1] + 1, p[2]>>]
            ELSE <<Row("add", b[p[2] + 1])>> \o out[<<p[1], p[2] + 1>>]
    IN  out
lineDiff(a, b) == Walk(a, b)[<<0, 0>>]

\* How many of the first k rows have a line on the side that lacks tag t.
Count(rs, k, t) == Cardinality({i \in 1..k : rs[i].tag # t})

\* 0 stands for "no number on this side".
numberRows(rs) ==
    [k \in DOMAIN rs |->
        [tag |-> rs[k].tag, text |-> rs[k].text,
         a |-> IF rs[k].tag = "add" THEN 0 ELSE Count(rs, k, "add"),
         b |-> IF rs[k].tag = "del" THEN 0 ELSE Count(rs, k, "del")]]

counts(rs) == [add |-> Cardinality({k \in DOMAIN rs : rs[k].tag = "add"}),
               del |-> Cardinality({k \in DOMAIN rs : rs[k].tag = "del"})]

-----------------------------------------------------------------------------
\* hunkify(): rows within Context of a change are kept; a run of rows that are
\* not is a gap, unless it is too short to be worth a click.
Keep(rs, k) == \E i \in DOMAIN rs : rs[i].tag # "eq" /\ k \in (i - Context)..(i + Context)

\* The first row of the run of kept, or of not-kept, rows that row k is in.
RunStart(rs, k) ==
    CHOOSE s \in 1..k : /\ s = 1 \/ (Keep(rs, s - 1) <=> ~Keep(rs, k))
                        /\ \A x \in s..k : (Keep(rs, x) <=> Keep(rs, k))

\* A run promoted to visible, or kept, is merged into a visible segment before it.
AddRunUnmerged(rs, ss, r) ==
    LET vis == Keep(rs, r.first) \/ r.end - r.first + 1 < MinGap
    IN  IF ss # <<>> /\ vis THEN [ss EXCEPT ![Len(ss)].end = r.end]
        ELSE Append(ss, [vis |-> vis, first |-> r.first, end |-> r.end])
AddRun(rs, ss, r) ==
    LET vis == Keep(rs, r.first) \/ r.end - r.first + 1 < MinGap
    IN  IF ss # <<>> /\ ss[Len(ss)].vis /\ vis THEN [ss EXCEPT ![Len(ss)].end = r.end]
        ELSE Append(ss, [vis |-> vis, first |-> r.first, end |-> r.end])

\* The segments once the loop is past row k, a run each time round.
Segments(rs) ==
    LET past[k \in 0..Len(rs)] ==
            IF k = 0 THEN <<>>
            ELSE AddRun(rs, past[RunStart(rs, k) - 1], [first |-> RunStart(rs, k), end |-> k])
    IN  past
hunkify(rs) == Segments(rs)[Len(rs)]

-----------------------------------------------------------------------------
Init ==
    /\ old \in Text /\ new \in Text
    /\ rows = <<>> /\ segs = <<>> /\ shown = <<>>

\* Nothing is drawn when nothing changed.
renderInto ==
    /\ rows = <<>>
    /\ LET rs == numberRows(lineDiff(old, new))
       IN  /\ counts(rs) # [add |-> 0, del |-> 0]
           /\ rows' = rs
           /\ segs' = hunkify(rs)
           /\ shown' = [s \in DOMAIN hunkify(rs) |-> 0]
    /\ UNCHANGED <<old, new>>

Size(s) == segs[s].end - segs[s].first + 1

\* The last row of segment s that is painted; the fold below it counts the rest.
Painted(s) == IF segs[s].vis THEN segs[s].end ELSE segs[s].first + shown[s] - 1
Folded(s) == Size(s) - shown[s]
HasFold(s) == ~segs[s].vis /\ Folded(s) > 0

Click(s) ==
    /\ HasFold(s)
    /\ shown' = [shown EXCEPT ![s] = AtMost(Size(s), @ + Reveal)]
    /\ UNCHANGED <<old, new, rows, segs>>

Next == renderInto \/ \E s \in DOMAIN segs : Click(s)
Spec == Init /\ [][Next]_vars

-----------------------------------------------------------------------------
\* The rows that carry a number on one side show that side's lines, each once and in order.
Shows(rs, num, text) ==
    /\ \A k \in DOMAIN rs : num[k] # 0 => num[k] \in DOMAIN text /\ rs[k].text = text[num[k]]
    /\ \A k, l \in DOMAIN rs : k < l /\ num[k] # 0 /\ num[l] # 0 => num[k] < num[l]
    /\ \A x \in DOMAIN text : \E k \in DOMAIN rs : num[k] = x

\* a and b have a common subsequence of k lines (by its definition).
Common(a, b, k) ==
    \E I \in SUBSET DOMAIN a : \E J \in SUBSET DOMAIN b :
        /\ Cardinality(I) = k /\ Cardinality(J) = k
        /\ \A i \in I : \A j \in J :
              Cardinality({x \in I : x < i}) = Cardinality({x \in J : x < j}) => a[i] = b[j]

(* The diff is one, and the shortest: its rows that are not added are the  *)
(* lines of the old text, those that are not removed the lines of the new  *)
(* one, all of them, in order and under their numbers, and no diff leaves  *)
(* more lines unchanged.                                                   *)
ShortestDiff ==
    LET rs == numberRows(lineDiff(old, new))
    IN  rows = <<>> =>
        /\ \A k \in DOMAIN rs : /\ rs[k].a = 0 <=> rs[k].tag = "add"
                                /\ rs[k].b = 0 <=> rs[k].tag = "del"
        /\ Shows(rs, [k \in DOMAIN rs |-> rs[k].a], old)
        /\ Shows(rs, [k \in DOMAIN rs |-> rs[k].b], new)
        /\ ~Common(old, new, Cardinality({k \in DOMAIN rs : rs[k].tag = "eq"}) + 1)

(* Folding loses nothing and hides no change: the segments follow one      *)
(* another from the first row to the last, visible and hidden in turn; a   *)
(* row in no fold is painted, a fold hides at least MinGap rows to start   *)
(* with, all unchanged and further than Context from a change.             *)
FoldsHideNoChange ==
    rows # <<>> =>
        /\ segs[1].first = 1 /\ segs[Len(segs)].end = Len(rows)
        /\ \A s \in 1..(Len(segs) - 1) :
              segs[s + 1].first = segs[s].end + 1 /\ segs[s].vis # segs[s + 1].vis
        /\ \A s \in DOMAIN segs : ~segs[s].vis =>
              /\ Size(s) >= MinGap /\ shown[s] \in 0..Size(s)
              /\ \A k \in (Painted(s) + 1)..segs[s].end :
                    \A i \in DOMAIN rows : rows[i].tag # "eq" => k - i > Context \/ i - k > Context
=============================================================================
