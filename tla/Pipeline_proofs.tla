----------------------------- MODULE Pipeline_proofs ----------------------------
(***************************************************************************)
(* Theorems about Pipeline, for every number of workers, every depth of    *)
(* the channels, every capacity of the byte budget, every segment size and *)
(* every set of sources.                                                   *)
(*                                                                         *)
(* First the walk as a pure function of the source: WalkShape.  Then       *)
(* PipeInv, the inductive invariant of the threads, with one lemma for     *)
(* each action, and PipelineIsSafe.  Last StreamInv, which follows the     *)
(* item stream through the loop of the consumer, and SnapshotIsComplete.   *)
(***************************************************************************)
EXTENDS Pipeline, FiniteSetTheorems, TLAPS

\* A set of natural numbers that is not empty has a least element: the sets 0..(n - 1)
\* are ordered by inclusion, which is well-founded on finite sets.
LEMMA LeastNatural ==
  ASSUME NEW T, T \subseteq Nat, T # {}
  PROVE  \E m \in T : \A n \in T : m <= n
<1> DEFINE Below(n) == 0..(n-1)
           B == {Below(n) : n \in T}
           R == StrictSubsetOrdering(Nat)
<1>1. \A n \in Nat : IsFiniteSet(Below(n)) /\ Below(n) \subseteq Nat
  BY FS_Interval
<1>2. B \subseteq FiniteSubsetsOf(Nat)
  BY <1>1 DEF FiniteSubsetsOf
<1>3. B # {}
  OBVIOUS
<1>4. PICK x \in B : \A y \in B : <<y, x>> \notin R
  <2> HIDE DEF B, R
  <2>1. IsWellFoundedOn(StrictSubsetOrdering(Nat), FiniteSubsetsOf(Nat))
    BY Zenon, FS_StrictSubsetOrderingWellFounded
  <2> QED BY Zenon, <1>2, <1>3, <2>1, WFMin DEF R
<1>5. PICK m \in T : x = Below(m)
  BY Zenon
<1>6. ASSUME NEW n \in T, ~(m <= n) PROVE FALSE
  <2>1. Below(n) \subseteq Below(m) /\ Below(n) # Below(m)
    <3>1. n \in Nat /\ m \in Nat /\ n < m
       BY <1>6
    <3>2. n \in Below(m) /\ n \notin Below(n)
       BY <3>1
    <3> QED BY <3>1, <3>2
  <2>2. <<Below(n), x>> \notin R
    BY Zenon, <1>4
  <2>3. Below(n) \in SUBSET Nat /\ Below(m) \in SUBSET Nat
    BY Zenon, <1>1
  <2> HIDE DEF Below
  <2> QED BY Zenon, <1>5, <2>1, <2>2, <2>3 DEF StrictSubsetOrdering
<1> QED BY Zenon, <1>6

\* Induction, as a statement about sets.
LEMMA Induction ==
  ASSUME NEW P, 0 \in P, \A n \in Nat : n \in P => n + 1 \in P
  PROVE  Nat \subseteq P
<1> SUFFICES ASSUME ~(Nat \subseteq P) PROVE FALSE
  OBVIOUS
<1>1. PICK m \in Nat \ P : \A n \in Nat \ P : m <= n
  BY Zenon, LeastNatural
<1>2. m # 0 /\ m - 1 \in Nat
  BY <1>1
<1>3. m - 1 \in P
  BY <1>1, <1>2
<1>4. (m - 1) + 1 = m
  BY <1>2
<1> QED BY Zenon, <1>1, <1>2, <1>3, <1>4

End(e) == e.offset + e.len

Kinds == {"segment", "skipped", "error", "nonfile", "cachehit", "file"}
Entries ==
    {e \in [kind : Kinds, name : STRING, len : Nat, offset : Nat, index : Nat, count : Nat] :
        /\ e.kind \in {"file", "segment"} \/ e.len = 0
        /\ e.offset = 0 \/ (e.kind = "segment" /\ e.index # 0)}

\* What the consumer relies on: the segments of a file follow each other.
Follows(e, f) ==
    /\ e.kind = "segment" /\ f.kind = "segment" /\ f.name = e.name /\ f.count = e.count
    /\ f.index = e.index + 1 /\ f.offset = End(e)
Shape(w) ==
    /\ w \in Seq(Entries)
    /\ \A k \in 1..Len(w) : w[k].kind = "segment" =>
         /\ w[k].index < w[k].count
         /\ w[k].index + 1 < w[k].count => k + 1 <= Len(w) /\ Follows(w[k], w[k + 1])
         /\ w[k].index > 0 => k > 1 /\ Follows(w[k - 1], w[k])

\* The last entry of an object.
Last(e) == e.kind = "segment" => e.index + 1 = e.count

\* The entries of an object: the last one stands for it.
Covers(w, o) ==
    IF o.type = "special" THEN w = << >>
    ELSE /\ Len(w) >= 1 /\ w[Len(w)].name = o.name
         /\ \A k \in 1..Len(w) : Last(w[k]) <=> k = Len(w)
         /\ o.type = "file" /\ ~o.cached => End(w[Len(w)]) = o.size

Finals(w) == {k \in 1..Len(w) : Last(w[k])}
Seen(s, n) == {k \in 1..n : s[k].type # "special"}

\* The last entries of a walk correspond to the objects that are no special files.
Matches(w, s, n, f) ==
    /\ f \in [Finals(w) -> Seen(s, n)]
    /\ \A j, k \in Finals(w) : j < k => f[j] < f[k]
    /\ \A o \in Seen(s, n) : \E k \in Finals(w) : f[k] = o
    /\ \A k \in Finals(w) : /\ w[k].name = s[f[k]].name
                            /\ s[f[k]].type = "file" /\ ~s[f[k]].cached => End(w[k]) = s[f[k]].size

\* Two walks, one after the other, have the shape of a walk.
LEMMA ShapeJoin ==
  ASSUME NEW v, Shape(v), NEW w, Shape(w)
  PROVE  Shape(v \o w)
<1> DEFINE u == v \o w
<1>1. /\ u \in Seq(Entries) /\ Len(u) = Len(v) + Len(w) /\ Len(v) \in Nat /\ Len(w) \in Nat
      /\ \A k \in 1..Len(v) : u[k] = v[k]
      /\ \A k \in 1..Len(w) : u[Len(v) + k] = w[k]
  BY DEF Shape
<1>2. ASSUME NEW k \in 1..Len(u), u[k].kind = "segment"
      PROVE  /\ u[k].index < u[k].count
             /\ u[k].index + 1 < u[k].count => k + 1 <= Len(u) /\ Follows(u[k], u[k + 1])
             /\ u[k].index > 0 => k > 1 /\ Follows(u[k - 1], u[k])
  <2>1. CASE k \in 1..Len(v)
    <3>1. u[k] = v[k] /\ v[k].kind = "segment"
      BY <1>1, <1>2, <2>1
    <3>2. v[k].index + 1 < v[k].count => k + 1 \in 1..Len(v) /\ Follows(v[k], v[k + 1])
      BY <1>1, <2>1, <3>1 DEF Shape
    <3>3. v[k].index > 0 => k - 1 \in 1..Len(v) /\ Follows(v[k - 1], v[k])
      BY <1>1, <2>1, <3>1 DEF Shape
    <3>4. v[k].index < v[k].count
      BY <2>1, <3>1 DEF Shape
    <3>5. /\ v[k].index + 1 < v[k].count => u[k + 1] = v[k + 1] /\ k + 1 <= Len(u)
          /\ v[k].index > 0 => u[k - 1] = v[k - 1] /\ k > 1
      BY <1>1, <2>1, <3>2, <3>3
    <3> HIDE DEF u
    <3> QED BY Zenon, <3>1, <3>2, <3>3, <3>4, <3>5
  <2>2. CASE k \notin 1..Len(v)
    <3> DEFINE j == k - Len(v)
    <3>1. j \in 1..Len(w) /\ k = Len(v) + j /\ k \in Nat
      BY <1>1, <2>2
    <3>2. u[k] = w[j] /\ w[j].kind = "segment"
      BY <1>1, <1>2, <3>1
    <3>3. w[j].index + 1 < w[j].count => j + 1 \in 1..Len(w) /\ Follows(w[j], w[j + 1])
      BY <1>1, <3>1, <3>2 DEF Shape
    <3>4. w[j].index > 0 => j - 1 \in 1..Len(w) /\ Follows(w[j - 1], w[j])
      BY <1>1, <3>1, <3>2 DEF Shape
    <3>5. w[j].index < w[j].count
      BY <3>1, <3>2 DEF Shape
    <3>6. k + 1 = Len(v) + (j + 1) /\ k - 1 = Len(v) + (j - 1)
      BY <1>1, <3>1
    <3> HIDE DEF j, u
    <3>7. /\ w[j].index + 1 < w[j].count => u[k + 1] = w[j + 1] /\ k + 1 <= Len(u)
          /\ w[j].index > 0 => u[k - 1] = w[j - 1] /\ k > 1
      BY <1>1, <3>1, <3>3, <3>4, <3>6
    <3> QED BY Zenon, <3>2, <3>3, <3>4, <3>5, <3>7
  <2> QED BY Zenon, <2>1, <2>2
<1> HIDE DEF u
<1>3. Shape(u)
  BY Zenon, <1>1, <1>2 DEF Shape
<1> QED BY Zenon, <1>3 DEF u

\* div_ceil, and where WalkItems::Segments cuts a file: the segments are contiguous and
\* the last one ends where the file does.
LEMMA SegmentArithmetic ==
  ASSUME NEW size \in Nat, NEW i \in Nat, i < NumSegments(size)
  PROVE  /\ SegmentOffset(i) \in Nat /\ SegmentLen(size, i) \in Nat /\ NumSegments(size) \in Nat
         /\ i = 0 => SegmentOffset(i) = 0
         /\ i + 1 < NumSegments(size) => SegmentOffset(i + 1) = SegmentOffset(i) + SegmentLen(size, i)
         /\ i + 1 = NumSegments(size) => SegmentOffset(i) + SegmentLen(size, i) = size
<1> DEFINE S == SegmentSize
           q == (size + S - 1) \div S
<1>1. S \in Nat /\ S > 0
  BY SegmentSizeAssumption
<1> HIDE DEF S
<1>2. q \in Nat /\ q * S <= size + S - 1 /\ size + S - 1 < q * S + S
  BY <1>1
<1>3. i * S \in Nat /\ (i = 0 => i * S = 0)
  BY <1>1
<1>4. i + 1 <= q
  BY <1>1, <1>2 DEF NumSegments, S
<1> HIDE DEF q
<1>5. (i + 1) * S <= q * S /\ (i + 1) * S = i * S + S /\ (i + 1 = q => (i + 1) * S = q * S)
  BY <1>1, <1>2, <1>4
<1>6. i * S <= size
  BY <1>1, <1>2, <1>3, <1>5
<1>7. i + 1 < q => ~(size - i * S < S)
  <2>1. SUFFICES ASSUME i + 1 < q PROVE ~(size - i * S < S)
    BY Zenon
  <2>2. (i + 2) * S <= q * S
    BY <1>1, <1>2, <2>1
  <2>3. (i + 2) * S = i * S + 2 * S
    BY <1>1
  <2> QED BY <1>1, <1>2, <1>3, <2>2, <2>3
<1>8. i + 1 = q => size - i * S <= S
  BY <1>1, <1>2, <1>3, <1>5
<1> DEFINE off == i * S
           len == IF size - off < S THEN size - off ELSE S
<1>9. SegmentOffset(i) = off /\ SegmentLen(size, i) = len /\ NumSegments(size) = q /\ SegmentOffset(i + 1) = (i + 1) * S
  BY Zenon DEF SegmentOffset, SegmentLen, NumSegments, S, q
<1>10. /\ off \in Nat /\ len \in Nat /\ (i = 0 => off = 0) /\ (i + 1 < q => off + S = off + len)
       /\ (i + 1 = q => off + len = size)
  BY <1>1, <1>3, <1>6, <1>7, <1>8
<1>11. (i + 1) * S = off + S
  BY Zenon, <1>5
<1> HIDE DEF off, len
<1> QED BY Zenon, <1>2, <1>9, <1>10, <1>11

\* The segments of one large file.
LEMMA SegmentsShape ==
  ASSUME NEW o \in Objects
  PROVE  /\ Shape(Segments(o)) /\ Len(Segments(o)) = NumSegments(o.size)
         /\ NumSegments(o.size) >= 1 /\ o.type # "special" => Covers(Segments(o), o)
<1> DEFINE n == NumSegments(o.size)
           w == Segments(o)
<1>1. o.size \in Nat /\ o.name \in STRING
  BY DEF Objects
<1>2. n \in Nat
  BY <1>1, SegmentSizeAssumption DEF NumSegments
<1>3. \A k \in 1..n : w[k] = [kind |-> "segment", name |-> o.name, len |-> SegmentLen(o.size, k - 1),
                               offset |-> SegmentOffset(k - 1), index |-> k - 1, count |-> n]
  BY Zenon DEF Segments
<1> HIDE DEF n
<1>4. DOMAIN w = 1..n
  BY Zenon DEF Segments, n
<1>5. ASSUME NEW k \in 1..n PROVE w[k] \in Entries
  <2>1. k - 1 \in Nat /\ k - 1 < n
    BY <1>2
  <2>2. /\ SegmentLen(o.size, k - 1) \in Nat /\ SegmentOffset(k - 1) \in Nat
        /\ k - 1 = 0 => SegmentOffset(k - 1) = 0
    BY Zenon, <1>1, <2>1, SegmentArithmetic DEF n
  <2>3. "segment" \in Kinds
    BY Zenon DEF Kinds
  <2>4. w[k] = [kind |-> "segment", name |-> o.name, len |-> SegmentLen(o.size, k - 1),
                offset |-> SegmentOffset(k - 1), index |-> k - 1, count |-> n]
    BY Zenon, <1>3
  <2> HIDE DEF w
  <2> QED BY <1>1, <1>2, <2>1, <2>2, <2>3, <2>4 DEF Entries
<1>6. w = [k \in 1..n |-> w[k]]
  BY Zenon, <1>4 DEF Segments
<1> HIDE DEF w
<1>7. w \in Seq(Entries) /\ Len(w) = n
  BY <1>2, <1>4, <1>5, <1>6
<1>8. ASSUME NEW k \in 1..n
      PROVE  /\ w[k].kind = "segment" /\ w[k].name = o.name /\ w[k].index = k - 1 /\ w[k].count = n
             /\ w[k].offset = SegmentOffset(k - 1) /\ End(w[k]) = SegmentOffset(k - 1) + SegmentLen(o.size, k - 1)
  <2>1. w[k] = [kind |-> "segment", name |-> o.name, len |-> SegmentLen(o.size, k - 1),
                offset |-> SegmentOffset(k - 1), index |-> k - 1, count |-> n]
    BY Zenon, <1>3
  <2> QED BY <2>1 DEF End
<1>9. ASSUME NEW k \in 1..n, k + 1 <= n PROVE k + 1 \in 1..n /\ Follows(w[k], w[k + 1])
  <2>1. k + 1 \in 1..n /\ k - 1 \in Nat /\ (k + 1) - 1 = (k - 1) + 1 /\ k - 1 < n /\ (k - 1) + 1 < n
    BY <1>2, <1>9
  <2>2. SegmentOffset((k - 1) + 1) = SegmentOffset(k - 1) + SegmentLen(o.size, k - 1)
    BY Zenon, <1>1, <2>1, SegmentArithmetic DEF n
  <2>3. w[k + 1].offset = End(w[k])
    BY Zenon, <1>8, <2>1, <2>2
  <2>4. w[k + 1].index = w[k].index + 1
    BY Zenon, <1>8, <2>1
  <2> QED BY Zenon, <1>8, <2>1, <2>3, <2>4 DEF Follows
<1>10. ASSUME NEW k \in 1..n
      PROVE  /\ w[k].index < w[k].count
             /\ w[k].index + 1 < w[k].count => k + 1 <= n /\ Follows(w[k], w[k + 1])
             /\ w[k].index > 0 => k > 1 /\ Follows(w[k - 1], w[k])
  <2>1. w[k].index < w[k].count /\ (w[k].index + 1 < w[k].count => k + 1 <= n)
    BY <1>2, <1>8
  <2>2. w[k].index > 0 => k - 1 \in 1..n /\ (k - 1) + 1 <= n /\ k > 1 /\ (k - 1) + 1 = k
    BY <1>2, <1>8
  <2> QED BY Zenon, <1>9, <2>1, <2>2
<1>11. n >= 1 => /\ w[n].index + 1 = n /\ End(w[n]) = o.size
  <2>1. SUFFICES ASSUME n >= 1 PROVE w[n].index + 1 = n /\ End(w[n]) = o.size
    BY Zenon
  <2>2. n \in 1..n /\ n - 1 \in Nat /\ n - 1 < n /\ (n - 1) + 1 = n
    BY <1>2, <2>1
  <2>3. SegmentOffset(n - 1) + SegmentLen(o.size, n - 1) = o.size
    BY Zenon, <1>1, <2>2, SegmentArithmetic DEF n
  <2> QED BY Zenon, <1>8, <2>2, <2>3
<1>12. Shape(w)
  BY Zenon, <1>7, <1>10 DEF Shape
<1>13. ASSUME n >= 1, o.type # "special" PROVE Covers(w, o)
  <2>1. n \in 1..n
    BY <1>2, <1>13
  <2>2. \A k \in 1..n : Last(w[k]) <=> k = n
    BY <1>2, <1>8 DEF Last
  <2> QED BY Zenon, <1>7, <1>8, <1>11, <1>13, <2>1, <2>2 DEF Covers
<1> QED BY Zenon, <1>7, <1>12, <1>13 DEF w, n

\* An object with a single entry.
LEMMA SingleShape ==
  ASSUME NEW e \in Entries, e.kind # "segment"
  PROVE  Shape(<<e>>)
<1>1. <<e>> \in Seq(Entries) /\ Len(<<e>>) = 1 /\ <<e>>[1] = e
  OBVIOUS
<1>2. \A k \in 1..1 : k = 1
  OBVIOUS
<1> QED BY Zenon, <1>1, <1>2 DEF Shape

\* What walked_entry_to_walk_items yields for an object.
LEMMA WalkItemsShape ==
  ASSUME NEW o \in Objects
  PROVE  Shape(WalkItems(o)) /\ Covers(WalkItems(o), o)
<1> DEFINE w == WalkItems(o)
<1> SUFFICES Shape(w) /\ Covers(w, o)
  OBVIOUS
<1> HIDE DEF w
<1>1. o.size \in Nat /\ o.name \in STRING
      /\ o.type \in {"file", "dir", "special", "unreadable", "broken"} /\ o.cached \in BOOLEAN
  BY DEF Objects
<1>2. ASSUME NEW kind \in Kinds \ {"segment"}, NEW len \in Nat, kind = "file" \/ len = 0,
             o.type # "special", o.type = "file" /\ ~o.cached => len = o.size,
             w = <<Entry(kind, o.name, len)>>
      PROVE  Shape(w) /\ Covers(w, o)
  <2> DEFINE e == Entry(kind, o.name, len)
  <2>1. e \in Entries /\ e.kind # "segment" /\ e.name = o.name /\ End(e) = len
    BY <1>1, <1>2 DEF Entry, Entries, End
  <2> HIDE DEF e
  <2>2. w = <<e>>
    BY Zenon, <1>2 DEF e
  <2>3. Len(w) = 1 /\ Len(w) >= 1 /\ w[1] = e /\ \A k \in 1..1 : k = 1
    BY <2>2
  <2> QED BY Zenon, <1>2, <2>1, <2>2, <2>3, SingleShape DEF Covers, Last
<1>3. CASE o.type = "special"
  <2>1. w = << >>
    BY <1>3 DEF WalkItems, w
  <2>2. Shape(<< >>)
    BY DEF Shape
  <2> QED BY Zenon, <1>3, <2>1, <2>2 DEF Covers
<1>4. CASE o.type \in {"unreadable", "broken", "dir"}
  <2>1. \E kind \in {"skipped", "error", "nonfile"} : w = <<Entry(kind, o.name, 0)>>
    BY <1>4 DEF WalkItems, w
  <2>2. PICK kind \in Kinds \ {"segment"} : w = <<Entry(kind, o.name, 0)>>
    BY <2>1 DEF Kinds
  <2>3. o.type # "special" /\ o.type # "file" /\ 0 \in Nat
    BY <1>4
  <2> QED BY Zenon, <1>2, <2>2, <2>3
<1>5. CASE o.type = "file" /\ (o.size = 0 \/ o.cached \/ ~(o.size > SegmentSize))
  <2>1. \/ w = <<Entry("nonfile", o.name, 0)>> /\ o.size = 0
        \/ w = <<Entry("cachehit", o.name, 0)>> /\ o.cached
        \/ w = <<Entry("file", o.name, o.size)>>
    <3>1. CASE o.size = 0
      BY <1>5, <3>1, SegmentSizeAssumption DEF WalkItems, w
    <3>2. CASE o.size > 0 /\ o.cached
      BY <1>5, <3>2 DEF WalkItems, w
    <3>3. CASE o.size > 0 /\ ~(o.size > SegmentSize) /\ ~o.cached
      BY <1>1, <1>5, <3>3 DEF WalkItems, w
    <3> QED BY <1>1, <1>5, <3>1, <3>2, <3>3
  <2>2. {"nonfile", "cachehit", "file"} \subseteq Kinds \ {"segment"} /\ o.type # "special" /\ 0 \in Nat
    BY <1>5 DEF Kinds
  <2> QED BY Zenon, <1>1, <1>2, <2>1, <2>2
<1>6. CASE o.type = "file" /\ o.size > SegmentSize /\ ~o.cached
  <2>1. w = Segments(o)
    BY <1>1, <1>6, SegmentSizeAssumption DEF WalkItems, w
  <2>2. NumSegments(o.size) >= 1 /\ o.type # "special"
    BY <1>1, <1>6, SegmentSizeAssumption DEF NumSegments
  <2> QED BY Zenon, <2>1, <2>2, SegmentsShape
<1> QED BY <1>1, <1>3, <1>4, <1>5, <1>6

\* The function by which WalkOf is defined exists and concatenates.
LEMMA Concatenation ==
  ASSUME NEW s, NEW n \in Nat
  PROVE  \E f : f = [k \in 0..n |-> IF k = 0 THEN << >> ELSE f[k - 1] \o WalkItems(s[k])]
<1> DEFINE D(f, m) == f = [k \in 0..m |-> IF k = 0 THEN << >> ELSE f[k - 1] \o WalkItems(s[k])]
           P == {m \in Nat : \E f : D(f, m)}
<1>1. 0 \in P
  <2>1. D([k \in 0..0 |-> << >>], 0)
    OBVIOUS
  <2> HIDE DEF D
  <2> QED BY Zenon, <2>1
<1>2. ASSUME NEW m \in Nat, m \in P PROVE m + 1 \in P
  <2>1. PICK f : D(f, m)
    BY Zenon, <1>2
  <2> DEFINE g == [k \in 0..(m + 1) |-> IF k = m + 1 THEN f[m] \o WalkItems(s[k]) ELSE f[k]]
  <2>2. ASSUME NEW k \in 0..(m + 1) PROVE g[k] = IF k = 0 THEN << >> ELSE g[k - 1] \o WalkItems(s[k])
    <3>1. CASE k = m + 1
      <4>1. k - 1 \in 0..(m + 1) /\ k - 1 = m /\ k # 0 /\ m # m + 1
        BY <3>1
      <4> QED BY Zenon, <3>1, <4>1
    <3>2. CASE k # m + 1 /\ k # 0
      <4>1. k \in 0..m /\ k - 1 \in 0..(m + 1) /\ k - 1 # m + 1
        BY <3>2
      <4>2. f[k] = f[k - 1] \o WalkItems(s[k])
        BY Zenon, <2>1, <3>2, <4>1
      <4> QED BY Zenon, <3>2, <4>1, <4>2
    <3>3. CASE k = 0
      <4>1. 0 \in 0..m /\ 0 # m + 1
        OBVIOUS
      <4>2. f[0] = << >>
        BY Zenon, <2>1, <4>1
      <4> QED BY Zenon, <3>3, <4>1, <4>2
    <3> QED BY Zenon, <3>1, <3>2, <3>3
  <2>3. D(g, m + 1)
    BY Zenon, <2>2
  <2>4. m + 1 \in Nat
    OBVIOUS
  <2> HIDE DEF D
  <2> QED BY Zenon, <2>3, <2>4
<1>3. n \in P
  BY Zenon, <1>1, <1>2, Induction
<1> QED BY Zenon, <1>3

\* One more object, and its entries.
LEMMA MatchesJoin ==
  ASSUME NEW v \in Seq(Entries), NEW w \in Seq(Entries), NEW s, NEW n \in Nat, NEW f,
         Matches(v, s, n, f), Covers(w, s[n + 1])
  PROVE  \E g : Matches(v \o w, s, n + 1, g)
<1> DEFINE u == v \o w
           o == s[n + 1]
           z == Len(v) + Len(w)
<1>1. /\ u \in Seq(Entries) /\ Len(u) = z /\ Len(v) \in Nat /\ Len(w) \in Nat
      /\ \A k \in 1..Len(v) : u[k] = v[k]
      /\ \A k \in 1..Len(w) : u[Len(v) + k] = w[k]
  OBVIOUS
<1>2. /\ f \in [Finals(v) -> Seen(s, n)]
      /\ \A j, k \in Finals(v) : j < k => f[j] < f[k]
      /\ \A x \in Seen(s, n) : \E k \in Finals(v) : f[k] = x
      /\ \A k \in Finals(v) : /\ v[k].name = s[f[k]].name
                              /\ s[f[k]].type = "file" /\ ~s[f[k]].cached => End(v[k]) = s[f[k]].size
  BY Zenon DEF Matches
<1>3. CASE o.type = "special"
  <2>1. w = << >>
    BY Zenon, <1>3 DEF Covers
  <2>2. u = v
    BY <2>1
  <2>3. Seen(s, n + 1) = Seen(s, n)
    BY <1>3 DEF Seen
  <2>4. Matches(u, s, n + 1, f)
    BY Zenon, <1>2, <2>2, <2>3 DEF Matches
  <2> QED BY Zenon, <2>4
<1>4. CASE o.type # "special"
  <2>1. /\ Len(w) >= 1 /\ w[Len(w)].name = o.name
        /\ \A k \in 1..Len(w) : Last(w[k]) <=> k = Len(w)
        /\ o.type = "file" /\ ~o.cached => End(w[Len(w)]) = o.size
    BY Zenon, <1>4 DEF Covers
  <2>2. z \in 1..Len(u) /\ z \notin 1..Len(v) /\ u[z] = w[Len(w)]
    BY <1>1, <2>1
  <2>3. \A k : k \in Finals(u) <=> k \in Finals(v) \/ k = z
    <3>1. ASSUME NEW k \in 1..Len(v) PROVE k \in 1..Len(u) /\ u[k] = v[k]
      BY <1>1
    <3>2. ASSUME NEW k \in 1..Len(u), k \notin 1..Len(v) PROVE Last(u[k]) <=> k = z
      <4> DEFINE j == k - Len(v)
      <4>1. j \in 1..Len(w) /\ k = Len(v) + j /\ (j = Len(w) <=> k = z)
        BY <1>1, <3>2
      <4> HIDE DEF u, j
      <4> QED BY Zenon, <1>1, <2>1, <4>1
    <3> HIDE DEF u
    <3> QED BY Zenon, <2>2, <3>1, <3>2 DEF Finals
  <2>4. \A k : k \in Seen(s, n + 1) <=> k \in Seen(s, n) \/ k = n + 1
    BY <1>4 DEF Seen
  <2> DEFINE g == [k \in Finals(u) |-> IF k = z THEN n + 1 ELSE f[k]]
  <2>5. \A k \in Finals(v) : k \in 1..Len(v) /\ k # z /\ k < z /\ k \in Nat
    BY <1>1, <2>1 DEF Finals
  <2>6. \A k \in Seen(s, n) : k \in Nat /\ k < n + 1
    BY DEF Seen
  <2> HIDE DEF u, z
  <2>7. DOMAIN g = Finals(u) /\ g[z] = n + 1 /\ \A k \in Finals(v) : g[k] = f[k] /\ f[k] \in Seen(s, n)
    BY Zenon, <1>2, <2>3, <2>5
  <2>8. g \in [Finals(u) -> Seen(s, n + 1)]
    BY Zenon, <1>2, <2>3, <2>4
  <2> HIDE DEF g
  <2>9. ASSUME NEW j \in Finals(u), NEW k \in Finals(u), j < k PROVE g[j] < g[k]
    <3>1. CASE k = z
      <4>1. j # z
        <5>1. z \in Nat
          BY <2>2, <1>1
        <5> QED BY <2>9, <3>1, <5>1
      <4> QED BY Zenon, <2>3, <2>6, <2>7, <3>1, <4>1
    <3>2. CASE k # z
      <4>1. k \in Finals(v) /\ k \in Nat /\ k < z
        BY Zenon, <2>3, <2>5, <3>2
      <4>2. j # z
        <5>1. z \in Nat
          BY <2>2, <1>1
        <5> QED BY <2>9, <4>1, <5>1
      <4> QED BY Zenon, <1>2, <2>3, <2>7, <2>9, <4>1, <4>2
    <3> QED BY Zenon, <3>1, <3>2
  <2>10. ASSUME NEW x \in Seen(s, n + 1) PROVE \E k \in Finals(u) : g[k] = x
    BY Zenon, <1>2, <2>3, <2>4, <2>7
  <2>11. ASSUME NEW k \in Finals(u)
         PROVE  /\ u[k].name = s[g[k]].name
                /\ s[g[k]].type = "file" /\ ~s[g[k]].cached => End(u[k]) = s[g[k]].size
    <3>1. CASE k = z
      BY Zenon, <2>1, <2>2, <2>7, <3>1
    <3>2. CASE k # z
      <4>1. k \in Finals(v) /\ g[k] = f[k] /\ u[k] = v[k]
        BY Zenon, <1>1, <2>3, <2>5, <2>7, <3>2
      <4> QED BY Zenon, <1>2, <4>1
    <3> QED BY Zenon, <3>1, <3>2
  <2>12. Matches(u, s, n + 1, g)
    BY Zenon, <2>8, <2>9, <2>10, <2>11 DEF Matches
  <2> QED BY Zenon, <2>12 DEF u
<1> QED BY Zenon, <1>3, <1>4

\* The whole walk: its segments follow each other, and its last entries correspond to
\* the objects of the source.  By induction on the number of objects.
LEMMA WalkShape ==
  ASSUME NEW s \in Seq(Objects)
  PROVE  Shape(WalkOf(s)) /\ \E g : Matches(WalkOf(s), s, Len(s), g)
<1> DEFINE f == CHOOSE g : g = [k \in 0..Len(s) |-> IF k = 0 THEN << >> ELSE g[k - 1] \o WalkItems(s[k])]
<1>1. WalkOf(s) = f[Len(s)]
  BY Zenon DEF WalkOf
<1>2. Len(s) \in Nat /\ \A k \in 1..Len(s) : s[k] \in Objects
  OBVIOUS
<1>3. f = [k \in 0..Len(s) |-> IF k = 0 THEN << >> ELSE f[k - 1] \o WalkItems(s[k])]
  BY Zenon, <1>2, Concatenation
<1> HIDE DEF f
<1> DEFINE P == {k \in Nat : k <= Len(s) => Shape(f[k]) /\ \E g : Matches(f[k], s, k, g)}
<1>4. 0 \in P
  <2>1. 0 \in 0..Len(s)
    BY <1>2
  <2>2. f[0] = << >>
    BY Zenon, <1>3, <2>1
  <2>3. Shape(<< >>)
    BY DEF Shape
  <2>4. Finals(<< >>) = {} /\ Seen(s, 0) = {}
    BY DEF Finals, Seen
  <2>5. Matches(<< >>, s, 0, [k \in {} |-> 0])
    BY Zenon, <2>4 DEF Matches
  <2> QED BY Zenon, <2>2, <2>3, <2>5
<1>5. ASSUME NEW k \in Nat, k \in P PROVE k + 1 \in P
  <2>1. SUFFICES ASSUME k + 1 <= Len(s) PROVE Shape(f[k + 1]) /\ \E g : Matches(f[k + 1], s, k + 1, g)
    OBVIOUS
  <2>2. k <= Len(s) /\ k + 1 \in 0..Len(s) /\ k + 1 # 0 /\ (k + 1) - 1 = k /\ k + 1 \in 1..Len(s)
    BY <1>2, <2>1
  <2>3. f[k + 1] = f[k] \o WalkItems(s[k + 1])
    BY Zenon, <1>3, <2>2
  <2>4. Shape(f[k]) /\ Shape(WalkItems(s[k + 1])) /\ Covers(WalkItems(s[k + 1]), s[k + 1])
    BY Zenon, <1>2, <1>5, <2>2, WalkItemsShape
  <2>5. f[k] \in Seq(Entries) /\ WalkItems(s[k + 1]) \in Seq(Entries)
    BY Zenon, <2>4 DEF Shape
  <2>6. PICK g : Matches(f[k], s, k, g)
    BY Zenon, <1>5, <2>2
  <2>7. Shape(f[k] \o WalkItems(s[k + 1]))
    BY Zenon, <2>4, ShapeJoin
  <2>8. \E h : Matches(f[k] \o WalkItems(s[k + 1]), s, k + 1, h)
    BY Zenon, <2>4, <2>5, <2>6, MatchesJoin
  <2> QED BY Zenon, <2>3, <2>7, <2>8
<1>6. Len(s) \in P
  BY Zenon, <1>2, <1>4, <1>5, Induction
<1>7. Len(s) <= Len(s)
  BY <1>2
<1> QED BY Zenon, <1>1, <1>6, <1>7

--------------------------------------------------------------------------------
\* The run goes on: no error has been met and the consumer has not ended.
Running == err = "none" /\ consumer # "closed"

\* Where the entries are that the workers have taken, by sequence number.
Taken == seq - Len(work)
Active == {w \in Workers : worker[w].at \in {"busy", "send"}}
Delivered == {k \in DOMAIN results : results[k].res # "walk"}
AtWorkers == {worker[w].msg.idx : w \in Active}
InResults == {results[k].idx : k \in Delivered}
InPending == {m.idx : m \in pending}

\* The work channel has the last entries of the walk, in order.
QueueInv ==
    /\ Len(work) <= seq
    /\ \A k \in 1..Len(work) : work[k].idx = Taken + k - 1

\* Every entry that was taken and not consumed is in one place.
PlacesInv ==
    /\ next <= Taken
    /\ AtWorkers \cup InResults \cup InPending = next..(Taken - 1)
    /\ AtWorkers \cap InResults = {} /\ AtWorkers \cap InPending = {}
    /\ InResults \cap InPending = {}
    /\ \A v, w \in Active : worker[v].msg.idx = worker[w].msg.idx => v = w
    /\ \A j, k \in Delivered : results[j].idx = results[k].idx => j = k
    /\ \A m, n \in pending : m.idx = n.idx => m = n

\* What can have become of an entry: no later segment is skipped by its worker, and
\* nothing else fails softly.
Processed(m) ==
    /\ m.res \in {"done", "skipped", "soft", "hard"}
    /\ m.res = "skipped" /\ EntryOf(m).kind = "segment" => EntryOf(m).index = 0
    /\ m.res = "soft" => EntryOf(m).kind = "segment" /\ EntryOf(m).index # 0
    /\ m.held # 0 => m.res = "done"

ProcessedInv ==
    /\ \A w \in Workers : worker[w].at = "send" => Processed(worker[w].msg)
    /\ \A k \in DOMAIN results :
         IF results[k].res = "walk" THEN results[k].held = 0 ELSE Processed(results[k])
    /\ \A m \in pending : Processed(m)

\* Why a thread has ended.
FlowInv ==
    /\ ~budget.poisoned
    /\ \A w \in Workers : worker[w].at = "gone" => walker = "gone" /\ work = << >>
    /\ walker = "gone" => \/ shutdown \/ seq = Len(Walk)
                          \/ \E k \in DOMAIN results : results[k].res = "walk"
    /\ consumer = "recv" => next \notin InPending

\* The entry before the next one is a segment that is not the last of its file.
Inside(k) == k > 0 /\ Walk[k].kind = "segment" /\ Walk[k].index + 1 < Walk[k].count

AccumInv ==
    /\ consumer = "close" => accum = NoFile \/ shutdown
    /\ consumer \in {"recv", "drain"} =>
         /\ accum # NoFile => /\ toSkip = 0 /\ Inside(next)
                              /\ accum.index = Walk[next].index + 1
                              /\ accum.name = Walk[next].name
                              /\ accum.count = Walk[next].count
         /\ toSkip > 0 => Inside(next) /\ Walk[next].index + 1 + toSkip = Walk[next].count
         /\ accum = NoFile /\ toSkip = 0 => ~Inside(next)

\* Only files and segments cost bytes.
HoldInv ==
    /\ \A m \in InFlight : m.held # 0 => EntryOf(m).kind \in {"file", "segment"}
    /\ grant # 0 => Walk[seq + 1].kind \in {"file", "segment"}

Balance == budget.available + grant + Cardinality(Held) = Capacity

\* Where the threads are.
ThreadsInv ==
    /\ consumer \in {"recv", "drain", "append"} => err = "none"
    /\ walker \in {"acquire", "wait", "send"} => seq < Len(Walk)
    /\ walker # "send" => grant = 0
    /\ \A w \in Workers \ Active : worker[w].msg = Idle

RunInv == QueueInv /\ PlacesInv /\ ProcessedInv /\ FlowInv /\ AccumInv /\ HoldInv /\ Balance

PipeInv == TypeOK /\ SegmentsInOrder /\ ThreadsInv /\ (Running => RunInv)

--------------------------------------------------------------------------------
\* The cap of ByteBudget::release.
LEMMA MinOfTwo ==
  ASSUME NEW a \in Nat, NEW b \in Nat
  PROVE  Min({a, b}) = (IF a <= b THEN a ELSE b) /\ Min({a, b}) \in 0..b
<1>1. \E x \in {a, b} : \A y \in {a, b} : x <= y
  OBVIOUS
<1>2. Min({a, b}) \in {a, b} /\ \A y \in {a, b} : Min({a, b}) <= y
  BY Zenon, <1>1 DEF Min
<1> QED BY <1>2

\* The walk of the source that is backed up.
LEMMA WalkIsShape ==
  ASSUME TypeOK
  PROVE  Shape(Walk) /\ Len(Walk) \in Nat /\ \A k \in 1..Len(Walk) : Walk[k] \in Entries
<1>1. source \in Sources /\ source \in Seq(Objects)
  BY Zenon, PipelineAssumption DEF TypeOK
<1>2. Walk = WalkOf(source)
  BY Zenon, <1>1 DEF Walk, WalkEntries
<1>3. Shape(Walk)
  BY Zenon, <1>1, <1>2, WalkShape
<1>4. Walk \in Seq(Entries)
  BY Zenon, <1>3 DEF Shape
<1> QED BY <1>3, <1>4

\* The channels have capacities.
LEMMA Caps == WorkCap \in Nat /\ ResultCap \in Nat
<1>1. Cardinality(Workers) \in Nat
  BY Zenon, PipelineAssumption, FS_CardinalityType
<1> QED BY <1>1, PipelineAssumption DEF WorkCap, ResultCap

\* The source does not change during a run.
LEMMA SameWalk ==
  ASSUME source' = source
  PROVE  Walk' = Walk
BY Zenon DEF Walk

\* ByteBudget::release, as long as the cap does not act.
LEMMA ReleaseType ==
  ASSUME TypeOK, NEW n \in Nat, budget' = [budget EXCEPT !.available = Min({@ + n, Capacity})]
  PROVE  /\ budget' \in [available : 0..Capacity, poisoned : BOOLEAN]
         /\ budget'.poisoned = budget.poisoned
         /\ budget.available + n <= Capacity => budget'.available = budget.available + n
<1>1. budget \in [available : 0..Capacity, poisoned : BOOLEAN] /\ Capacity \in Nat
  BY Zenon, PipelineAssumption DEF TypeOK
<1>2. budget.available + n \in Nat
  BY <1>1
<1> DEFINE a == Min({budget.available + n, Capacity})
<1>3. a \in 0..Capacity /\ a = IF budget.available + n <= Capacity THEN budget.available + n ELSE Capacity
  BY Zenon, <1>1, <1>2, MinOfTwo
<1>4. budget' = [budget EXCEPT !.available = a]
  BY Zenon
<1> HIDE DEF a
<1> QED BY <1>1, <1>3, <1>4

\* ByteBudget::poison.
LEMMA PoisonType ==
  ASSUME TypeOK, budget' = [budget EXCEPT !.poisoned = TRUE]
  PROVE  budget' \in [available : 0..Capacity, poisoned : BOOLEAN]
BY DEF TypeOK

--------------------------------------------------------------------------------
\* How entries move between the places.

\* Nothing moves when the indexes of the three places stay the same.
LEMMA PlacesSame ==
  ASSUME PlacesInv, Taken' = Taken, next' = next, pending' = pending,
         Active' = Active, \A w \in Active : worker'[w].msg.idx = worker[w].msg.idx,
         Delivered' = Delivered, \A k \in Delivered : results'[k].idx = results[k].idx
  PROVE  PlacesInv'
<1>1. AtWorkers' = AtWorkers /\ InResults' = InResults /\ InPending' = InPending
  BY Zenon DEF AtWorkers, InResults, InPending
<1>2. /\ \A v, w \in Active' : worker'[v].msg.idx = worker'[w].msg.idx => v = w
      /\ \A j, k \in Delivered' : results'[j].idx = results'[k].idx => j = k
  <2>1. ASSUME NEW v \in Active, NEW w \in Active, worker'[v].msg.idx = worker'[w].msg.idx PROVE v = w
    BY Zenon, <2>1 DEF PlacesInv
  <2>2. ASSUME NEW j \in Delivered, NEW k \in Delivered, results'[j].idx = results'[k].idx PROVE j = k
    BY Zenon, <2>2 DEF PlacesInv
  <2> QED BY Zenon, <2>1, <2>2
<1> QED BY Zenon, <1>1, <1>2 DEF PlacesInv

\* From the work channel to a worker.
LEMMA TakePlaces ==
  ASSUME TypeOK, QueueInv, PlacesInv, NEW w \in Workers, Take(w)
  PROVE  QueueInv' /\ PlacesInv'
<1> DEFINE m == Head(work)
<1>1. /\ worker[w].at = "recv" /\ work # << >> /\ work' = Tail(work)
      /\ worker' = [worker EXCEPT ![w] = [at |-> "busy", msg |-> m]]
      /\ seq' = seq /\ results' = results /\ next' = next /\ pending' = pending
  BY Zenon DEF Take, walkVars, consumerVars
<1>2. work \in Seq(Message) /\ Len(work) \in Nat /\ seq \in Int
      /\ worker \in [Workers -> [at : {"recv", "busy", "send", "gone"}, msg : Message]]
  BY DEF TypeOK
<1>3. /\ Len(work) > 0 /\ Len(work') = Len(work) - 1 /\ m = work[1]
      /\ \A k \in 1..Len(work') : work'[k] = work[k + 1] /\ k + 1 \in 1..Len(work)
  BY <1>1, <1>2
<1>4. m.idx = Taken /\ Taken' = Taken + 1 /\ Taken \in Int
  BY <1>1, <1>2, <1>3 DEF QueueInv, Taken
<1>5. QueueInv'
  <2>1. Len(work') <= seq'
    BY <1>1, <1>2, <1>3 DEF QueueInv
  <2>2. ASSUME NEW k \in 1..Len(work') PROVE work'[k].idx = Taken' + k - 1
    <3>1. work'[k] = work[k + 1] /\ work[k + 1].idx = Taken + (k + 1) - 1
      BY Zenon, <1>3 DEF QueueInv
    <3> QED BY <1>2, <1>3, <1>4, <3>1
  <2> QED BY Zenon, <2>1, <2>2 DEF QueueInv
<1> HIDE DEF m
<1>6. worker'[w].at = "busy" /\ worker'[w].msg = m /\ \A v \in Workers \ {w} : worker'[v] = worker[v]
  BY <1>1, <1>2
<1>7. w \notin Active /\ Active' = Active \cup {w}
  BY <1>1, <1>6 DEF Active
<1>8. AtWorkers' = AtWorkers \cup {Taken}
  <2>1. \A v \in Active : v # w /\ v \in Workers /\ worker'[v] = worker[v]
    BY Zenon, <1>6, <1>7 DEF Active
  <2> QED BY Zenon, <1>4, <1>6, <1>7, <2>1 DEF AtWorkers
<1>9. InResults' = InResults /\ Delivered' = Delivered /\ InPending' = InPending
  BY Zenon, <1>1 DEF InResults, Delivered, InPending
<1>10. Taken \notin AtWorkers \cup InResults \cup InPending
  <2>1. Taken \notin next..(Taken - 1)
    BY <1>4
  <2> QED BY Zenon, <2>1 DEF PlacesInv
<1>11. next <= Taken /\ next' <= Taken'
  BY <1>1, <1>4 DEF PlacesInv, TypeOK
<1>12. AtWorkers' \cup InResults' \cup InPending' = next'..(Taken' - 1)
  <2>1. next..((Taken + 1) - 1) = (next..(Taken - 1)) \cup {Taken}
    BY <1>4, <1>11 DEF TypeOK
  <2> QED BY Zenon, <1>1, <1>4, <1>8, <1>9, <2>1 DEF PlacesInv
<1>13. ASSUME NEW u \in Active', NEW v \in Active', worker'[u].msg.idx = worker'[v].msg.idx PROVE u = v
  <2>1. \A x \in Active : worker'[x] = worker[x] /\ worker[x].msg.idx # Taken
    BY Zenon, <1>6, <1>7, <1>10 DEF Active, AtWorkers
  <2>2. \A x, y \in Active : worker[x].msg.idx = worker[y].msg.idx => x = y
    BY Zenon DEF PlacesInv
  <2> QED BY Zenon, <1>4, <1>6, <1>7, <1>13, <2>1, <2>2
<1>14. /\ AtWorkers' \cap InResults' = {} /\ AtWorkers' \cap InPending' = {}
       /\ InResults' \cap InPending' = {}
  BY <1>8, <1>9, <1>10 DEF PlacesInv
<1>15. /\ \A j, k \in Delivered' : results'[j].idx = results'[k].idx => j = k
       /\ \A p, q \in pending' : p.idx = q.idx => p = q
  BY Zenon, <1>1, <1>9 DEF PlacesInv
<1> QED BY Zenon, <1>5, <1>11, <1>12, <1>13, <1>14, <1>15 DEF PlacesInv

\* From a worker to the result channel.
LEMMA DeliverPlaces ==
  ASSUME TypeOK, PlacesInv, NEW w \in Workers, worker[w].at = "send", worker[w].msg.res # "walk",
         results' = Append(results, worker[w].msg),
         worker' = [worker EXCEPT ![w] = [at |-> "recv", msg |-> Idle]],
         UNCHANGED <<seq, work, next, pending>>
  PROVE  PlacesInv'
<1> DEFINE m == worker[w].msg
           n == Len(results) + 1
<1>1. results \in Seq(Message) /\ Len(results) \in Nat
      /\ worker \in [Workers -> [at : {"recv", "busy", "send", "gone"}, msg : Message]]
  BY DEF TypeOK
<1>2. /\ m \in Message /\ DOMAIN results = 1..Len(results) /\ DOMAIN results' = 1..n
      /\ results'[n] = m /\ \A k \in DOMAIN results : results'[k] = results[k]
  BY <1>1
<1>3. worker'[w].at = "recv" /\ \A v \in Workers \ {w} : worker'[v] = worker[v]
  BY <1>1
<1>4. w \in Active /\ Active' = Active \ {w}
  BY <1>3 DEF Active
<1>5. n \notin DOMAIN results /\ DOMAIN results' = DOMAIN results \cup {n}
  BY <1>1, <1>2
<1> HIDE DEF n
<1>6. n \notin Delivered /\ Delivered' = Delivered \cup {n}
  BY Zenon, <1>2, <1>5 DEF Delivered
<1>7. InResults' = InResults \cup {m.idx}
  <2>1. \A k \in Delivered : results'[k] = results[k]
    BY Zenon, <1>2 DEF Delivered
  <2> QED BY Zenon, <1>2, <1>6, <2>1 DEF InResults
<1>8. AtWorkers' = AtWorkers \ {m.idx} /\ m.idx \in AtWorkers
  <2>1. \A v \in Active \ {w} : worker'[v] = worker[v] /\ worker[v].msg.idx # m.idx
    BY Zenon, <1>3, <1>4 DEF Active, PlacesInv
  <2>2. m.idx \in AtWorkers
    BY Zenon, <1>4 DEF AtWorkers
  <2>3. ASSUME NEW i \in AtWorkers' PROVE i \in AtWorkers /\ i # m.idx
    <3>1. PICK v \in Active' : i = worker'[v].msg.idx
      BY Zenon DEF AtWorkers
    <3>2. v \in Active \ {w}
      BY Zenon, <1>4, <3>1
    <3>3. worker'[v] = worker[v] /\ worker[v].msg.idx # m.idx
      BY Zenon, <2>1, <3>2
    <3> QED BY Zenon, <3>1, <3>2, <3>3 DEF AtWorkers
  <2>4. ASSUME NEW i \in AtWorkers, i # m.idx PROVE i \in AtWorkers'
    <3>1. PICK v \in Active : i = worker[v].msg.idx
      BY Zenon DEF AtWorkers
    <3>2. v \in Active' /\ worker'[v] = worker[v]
      BY Zenon, <1>4, <2>1, <2>4, <3>1
    <3> QED BY Zenon, <3>1, <3>2 DEF AtWorkers
  <2> QED BY Zenon, <2>2, <2>3, <2>4
<1>9. InPending' = InPending /\ Taken' = Taken /\ next' = next /\ pending' = pending
  BY Zenon DEF InPending, Taken
<1>10. \A u, v \in Active' : worker'[u].msg.idx = worker'[v].msg.idx => u = v
  <2>1. ASSUME NEW u \in Active', NEW v \in Active', worker'[u].msg.idx = worker'[v].msg.idx PROVE u = v
    <3>1. u \in Active /\ v \in Active /\ worker'[u] = worker[u] /\ worker'[v] = worker[v]
      BY Zenon, <1>3, <1>4 DEF Active
    <3> QED BY Zenon, <2>1, <3>1 DEF PlacesInv
  <2> QED BY Zenon, <2>1
<1>11. m.idx \notin InResults /\ m.idx \notin InPending
  BY Zenon, <1>8 DEF PlacesInv
<1>12. \A j, k \in Delivered' : results'[j].idx = results'[k].idx => j = k
  <2>1. ASSUME NEW j \in Delivered', NEW k \in Delivered', results'[j].idx = results'[k].idx PROVE j = k
    <3>1. \A x \in Delivered : results'[x] = results[x] /\ results[x].idx # m.idx
      BY Zenon, <1>2, <1>11 DEF Delivered, InResults
    <3>2. \A x, y \in Delivered : results[x].idx = results[y].idx => x = y
      BY Zenon DEF PlacesInv
    <3> QED BY Zenon, <1>2, <1>6, <2>1, <3>1, <3>2
  <2> QED BY Zenon, <2>1
<1> HIDE DEF m
<1>13. /\ AtWorkers' \cap InResults' = {} /\ AtWorkers' \cap InPending' = {}
       /\ InResults' \cap InPending' = {}
       /\ AtWorkers' \cup InResults' \cup InPending' = AtWorkers \cup InResults \cup InPending
  BY <1>7, <1>8, <1>9, <1>11 DEF PlacesInv
<1> QED BY Zenon, <1>9, <1>10, <1>12, <1>13 DEF PlacesInv

\* From the result channel to the reorder buffer.
LEMMA ReceivePlaces ==
  ASSUME TypeOK, PlacesInv, results # << >>, Head(results).res # "walk",
         results' = Tail(results), pending' = pending \cup {Head(results)},
         UNCHANGED <<seq, work, worker, next>>
  PROVE  PlacesInv'
<1> DEFINE m == Head(results)
<1>1. results \in Seq(Message) /\ Len(results) \in Nat
  BY DEF TypeOK
<1>2. /\ m = results[1] /\ 1 \in DOMAIN results
      /\ \A k \in DOMAIN results' : k + 1 \in DOMAIN results /\ results'[k] = results[k + 1] /\ k + 1 # 1
      /\ \A k \in DOMAIN results : k # 1 => k - 1 \in DOMAIN results' /\ (k - 1) + 1 = k
  BY <1>1
<1>3. \A j, k \in DOMAIN results' : j + 1 = k + 1 => j = k
  BY <1>1
<1> HIDE DEF m
<1>4. 1 \in Delivered /\ m.idx \in InResults /\ \A k \in Delivered : k # 1 => results[k].idx # m.idx
  <2>1. 1 \in Delivered
    BY Zenon, <1>2 DEF Delivered, m
  <2>2. m.idx \in InResults
    BY Zenon, <1>2, <2>1 DEF InResults
  <2>3. ASSUME NEW k \in Delivered, k # 1 PROVE results[k].idx # m.idx
    BY Zenon, <1>2, <2>1, <2>3 DEF PlacesInv
  <2> QED BY Zenon, <2>1, <2>2, <2>3
<1>5. InResults' = InResults \ {m.idx}
  <2>1. ASSUME NEW i \in InResults' PROVE i \in InResults /\ i # m.idx
    <3>1. PICK k \in Delivered' : i = results'[k].idx
      BY Zenon DEF InResults
    <3>2. k + 1 \in Delivered /\ i = results[k + 1].idx /\ k + 1 # 1
      BY Zenon, <1>2, <3>1 DEF Delivered
    <3> QED BY Zenon, <1>4, <3>2 DEF InResults
  <2>2. ASSUME NEW i \in InResults, i # m.idx PROVE i \in InResults'
    <3>1. PICK k \in Delivered : i = results[k].idx
      BY Zenon DEF InResults
    <3>2. k # 1 /\ k \in DOMAIN results
      BY Zenon, <1>2, <2>2, <3>1 DEF Delivered
    <3>3. k - 1 \in DOMAIN results' /\ results'[k - 1] = results[k]
      BY Zenon, <1>2, <3>2
    <3>4. k - 1 \in Delivered'
      BY Zenon, <3>1, <3>3 DEF Delivered
    <3> QED BY Zenon, <3>1, <3>3, <3>4 DEF InResults
  <2> QED BY Zenon, <2>1, <2>2
<1>6. InPending' = InPending \cup {m.idx}
  BY Zenon DEF InPending, m
<1>7. AtWorkers' = AtWorkers /\ Active' = Active /\ worker' = worker /\ Taken' = Taken /\ next' = next
  BY Zenon DEF AtWorkers, Active, Taken
<1>8. m.idx \notin AtWorkers /\ m.idx \notin InPending
  BY Zenon, <1>4 DEF PlacesInv
<1>9. \A j, k \in Delivered' : results'[j].idx = results'[k].idx => j = k
  <2>1. ASSUME NEW j \in Delivered', NEW k \in Delivered', results'[j].idx = results'[k].idx PROVE j = k
    <3>1. /\ j \in DOMAIN results' /\ k \in DOMAIN results' /\ j + 1 \in Delivered /\ k + 1 \in Delivered
          /\ results[j + 1].idx = results[k + 1].idx
      BY Zenon, <1>2, <2>1 DEF Delivered
    <3>2. j + 1 = k + 1
      BY Zenon, <3>1 DEF PlacesInv
    <3> QED BY Zenon, <1>3, <3>1, <3>2
  <2> QED BY Zenon, <2>1
<1>10. \A p, q \in pending' : p.idx = q.idx => p = q
  <2>1. ASSUME NEW p \in pending', NEW q \in pending', p.idx = q.idx PROVE p = q
    <3>1. \A x \in pending : x.idx # m.idx
      BY Zenon, <1>8 DEF InPending
    <3>2. \A x, y \in pending : x.idx = y.idx => x = y
      BY Zenon DEF PlacesInv
    <3> QED BY Zenon, <2>1, <3>1, <3>2 DEF m
  <2> QED BY Zenon, <2>1
<1>11. /\ AtWorkers' \cap InResults' = {} /\ AtWorkers' \cap InPending' = {}
       /\ InResults' \cap InPending' = {}
       /\ AtWorkers' \cup InResults' \cup InPending' = AtWorkers \cup InResults \cup InPending
  BY <1>4, <1>5, <1>6, <1>7, <1>8 DEF PlacesInv
<1>12. \A u, v \in Active' : worker'[u].msg.idx = worker'[v].msg.idx => u = v
  <2>1. ASSUME NEW u \in Active, NEW v \in Active, worker[u].msg.idx = worker[v].msg.idx PROVE u = v
    BY Zenon, <2>1 DEF PlacesInv
  <2> QED BY <1>7, <2>1
<1> QED BY Zenon, <1>7, <1>9, <1>10, <1>11, <1>12 DEF PlacesInv

\* From the reorder buffer to the consumer.
LEMMA RemovePlaces ==
  ASSUME TypeOK, PlacesInv, NEW m \in pending, m.idx = next, RemovePending(m),
         UNCHANGED <<seq, work, worker, results>>
  PROVE  PlacesInv' /\ next < Taken
<1>1. pending' = pending \ {m} /\ next' = next + 1
  BY Zenon DEF RemovePending
<1>2. next \in InPending
  BY Zenon DEF InPending
<1>3. next \in Int /\ Taken \in Int
  BY DEF TypeOK, Taken
<1>4. next < Taken
  <2>1. next \in next..(Taken - 1)
    BY Zenon, <1>2 DEF PlacesInv
  <2> QED BY <1>3, <2>1
<1>5. InPending' = InPending \ {next}
  <2>1. ASSUME NEW i PROVE i \in InPending' <=> i \in InPending /\ i # next
    <3>1. \A x \in pending : x # m => x.idx # next
      BY Zenon DEF PlacesInv
    <3> QED BY Zenon, <1>1, <3>1 DEF InPending
  <2> QED BY Zenon, <2>1
<1>6. /\ AtWorkers' = AtWorkers /\ Active' = Active /\ worker' = worker /\ Taken' = Taken
      /\ InResults' = InResults /\ Delivered' = Delivered /\ results' = results
  BY Zenon DEF AtWorkers, Active, Taken, InResults, Delivered
<1>7. next \notin AtWorkers /\ next \notin InResults
  BY Zenon, <1>2 DEF PlacesInv
<1>8. /\ AtWorkers' \cap InResults' = {} /\ AtWorkers' \cap InPending' = {}
      /\ InResults' \cap InPending' = {}
      /\ AtWorkers' \cup InResults' \cup InPending' = (AtWorkers \cup InResults \cup InPending) \ {next}
  BY <1>5, <1>6, <1>7 DEF PlacesInv
<1>9. next'..(Taken' - 1) = (next..(Taken - 1)) \ {next} /\ next' <= Taken'
  BY <1>1, <1>3, <1>4, <1>6
<1>10. /\ \A u, v \in Active' : worker'[u].msg.idx = worker'[v].msg.idx => u = v
       /\ \A j, k \in Delivered' : results'[j].idx = results'[k].idx => j = k
       /\ \A p, q \in pending' : p.idx = q.idx => p = q
  <2>1. ASSUME NEW u \in Active, NEW v \in Active, worker[u].msg.idx = worker[v].msg.idx PROVE u = v
    BY Zenon, <2>1 DEF PlacesInv
  <2>2. ASSUME NEW j \in Delivered, NEW k \in Delivered, results[j].idx = results[k].idx PROVE j = k
    BY Zenon, <2>2 DEF PlacesInv
  <2>3. ASSUME NEW p \in pending, NEW q \in pending, p.idx = q.idx PROVE p = q
    BY Zenon, <2>3 DEF PlacesInv
  <2> QED BY <1>1, <1>6, <2>1, <2>2, <2>3
<1>11. AtWorkers' \cup InResults' \cup InPending' = next'..(Taken' - 1)
  BY Zenon, <1>8, <1>9 DEF PlacesInv
<1> QED BY Zenon, <1>4, <1>8, <1>9, <1>10, <1>11 DEF PlacesInv

--------------------------------------------------------------------------------
\* The bytes in flight.

Bytes(m) == {m.idx} \X (1..m.held)

\* Whatever is in flight is a message.
LEMMA MessageType ==
  ASSUME TypeOK, NEW m \in InFlight
  PROVE  m \in Message /\ m.idx \in Nat /\ m.held \in 0..Capacity /\ Capacity \in Nat
<1>1. m \in Message
  <2>1. /\ Range(work) \subseteq Message /\ Range(results) \subseteq Message /\ pending \subseteq Message
    BY DEF TypeOK, Range
  <2>2. \A w \in Workers : worker[w].msg \in Message
    BY DEF TypeOK
  <2> QED BY Zenon, <2>1, <2>2 DEF InFlight
<1> QED BY <1>1, PipelineAssumption DEF Message

\* A message without bytes holds none.
LEMMA NoBytes ==
  ASSUME NEW m, m.held = 0
  PROVE  Bytes(m) = {}
<1>1. 1..0 = {}
  OBVIOUS
<1> QED BY Zenon, <1>1 DEF Bytes

\* The bytes in flight are those of the messages in flight.
LEMMA HeldBytes == \A x : x \in Held <=> \E m \in InFlight : x \in Bytes(m)
BY Zenon DEF Held, Bytes

\* The bytes in flight are those of the messages with bytes.
LEMMA HeldSame ==
  ASSUME \A m \in InFlight : m \in InFlight' \/ m.held = 0,
         \A m \in InFlight' : m \in InFlight \/ m.held = 0
  PROVE  Held' = Held
<1>1. ASSUME NEW x \in Held PROVE x \in Held'
  <2>1. PICK m \in InFlight : x \in Bytes(m)
    BY Zenon, HeldBytes
  <2>2. m \in InFlight'
    BY Zenon, <2>1, NoBytes
  <2> QED BY Zenon, <2>1, <2>2 DEF Held, Bytes
<1>2. ASSUME NEW x \in Held' PROVE x \in Held
  <2>1. PICK m \in InFlight' : x \in Bytes(m)
    BY Zenon DEF Held, Bytes
  <2>2. m \in InFlight
    BY Zenon, <2>1, NoBytes
  <2> QED BY Zenon, <2>1, <2>2 DEF Held, Bytes
<1> QED BY Zenon, <1>1, <1>2

\* Who holds bytes.
LEMMA Carriers ==
  ASSUME TypeOK, ThreadsInv, QueueInv, ProcessedInv, NEW m \in InFlight, m.held # 0
  PROVE  \/ m \in Range(work) /\ m.idx \in Taken..(seq - 1)
         \/ \E w \in Active : m = worker[w].msg
         \/ \E k \in Delivered : m = results[k]
         \/ m \in pending
<1>1. CASE m \in Range(work)
  <2>1. work \in Seq(Message) /\ seq \in Nat
    BY DEF TypeOK
  <2>2. PICK k \in 1..Len(work) : m = work[k]
    BY <1>1, <2>1 DEF Range
  <2>3. m.idx = Taken + k - 1
    BY Zenon, <2>2 DEF QueueInv
  <2>4. m.idx \in Taken..(seq - 1)
    BY <2>1, <2>2, <2>3 DEF Taken
  <2> QED BY Zenon, <1>1, <2>4
<1>2. CASE m \in {worker[w].msg : w \in Workers}
  <2>1. PICK w \in Workers : m = worker[w].msg
    BY Zenon, <1>2
  <2>2. Idle.held = 0
    BY DEF Idle
  <2>3. w \in Active
    BY Zenon, <2>1, <2>2 DEF ThreadsInv
  <2> QED BY Zenon, <2>1, <2>3
<1>3. CASE m \in Range(results)
  <2>1. PICK k \in DOMAIN results : m = results[k]
    BY Zenon, <1>3 DEF Range
  <2>2. k \in Delivered
    BY Zenon, <2>1 DEF Delivered, ProcessedInv
  <2> QED BY Zenon, <2>1, <2>2
<1> QED BY Zenon, <1>1, <1>2, <1>3 DEF InFlight

\* A message with bytes is an entry that the walk has sent.
LEMMA CarriersBound ==
  ASSUME TypeOK, ThreadsInv, QueueInv, PlacesInv, ProcessedInv, NEW m \in InFlight, m.held # 0
  PROVE  m.idx \in 0..(seq - 1)
<1>1. next \in Nat /\ seq \in Nat /\ Len(work) \in Nat /\ Taken = seq - Len(work) /\ Len(work) <= seq
  BY DEF TypeOK, Taken, QueueInv
<1>2. m.idx \in AtWorkers \cup InResults \cup InPending => m.idx \in next..(Taken - 1)
  BY Zenon DEF PlacesInv
<1>3. m.idx \in Taken..(seq - 1) \/ m.idx \in AtWorkers \cup InResults \cup InPending
  BY Zenon, Carriers DEF AtWorkers, InResults, InPending
<1> QED BY <1>1, <1>2, <1>3

\* The bytes in flight can be counted.
LEMMA HeldFinite ==
  ASSUME TypeOK, ThreadsInv, QueueInv, PlacesInv, ProcessedInv
  PROVE  IsFiniteSet(Held) /\ Cardinality(Held) \in Nat
<1>1. seq \in Nat /\ Capacity \in Nat
  BY PipelineAssumption DEF TypeOK
<1>2. IsFiniteSet(0..(seq - 1)) /\ IsFiniteSet(1..Capacity)
  BY <1>1, FS_Interval
<1>3. IsFiniteSet((0..(seq - 1)) \X (1..Capacity))
  BY Zenon, <1>2, FS_Product
<1>4. Held \in SUBSET ((0..(seq - 1)) \X (1..Capacity))
  <2>1. ASSUME NEW x \in Held PROVE x \in (0..(seq - 1)) \X (1..Capacity)
    <3>1. PICK m \in InFlight : x \in Bytes(m)
      BY Zenon, HeldBytes
    <3>2. m.held # 0
      BY Zenon, <3>1, NoBytes
    <3>3. m.idx \in 0..(seq - 1) /\ m.held \in 0..Capacity
      BY Zenon, <3>2, CarriersBound, MessageType
    <3>4. 1..m.held \subseteq 1..Capacity
      BY <1>1, <3>3
    <3> QED BY Zenon, <3>1, <3>3, <3>4 DEF Bytes
  <2> QED BY Zenon, <2>1
<1> QED BY Zenon, <1>3, <1>4, FS_Subset, FS_CardinalityType

\* A message holds as many bytes as it says.
LEMMA BytesCounted ==
  ASSUME NEW m, m.held \in Nat
  PROVE  IsFiniteSet(Bytes(m)) /\ Cardinality(Bytes(m)) = m.held
<1>1. IsFiniteSet({m.idx}) /\ Cardinality({m.idx}) = 1
  BY Zenon, FS_Singleton
<1>2. IsFiniteSet(1..m.held) /\ Cardinality(1..m.held) = m.held
  BY FS_Interval
<1>3. /\ IsFiniteSet(Bytes(m))
      /\ Cardinality(Bytes(m)) = Cardinality({m.idx}) * Cardinality(1..m.held)
  BY Zenon, <1>1, <1>2, FS_Product DEF Bytes
<1> QED BY <1>1, <1>2, <1>3

\* A message that gives up its bytes: they were its own.
LEMMA HeldDrops ==
  ASSUME TypeOK, IsFiniteSet(Held), NEW m \in InFlight,
         \A n \in InFlight : n.idx = m.idx => n = m \/ n.held = 0,
         \A n \in InFlight' : n.idx = m.idx => n.held = 0,
         \A n \in InFlight : n.idx # m.idx => n \in InFlight' \/ n.held = 0,
         \A n \in InFlight' : n.idx # m.idx => n \in InFlight \/ n.held = 0
  PROVE  Cardinality(Held') = Cardinality(Held) - m.held /\ m.held <= Cardinality(Held)
<1>1. Bytes(m) \subseteq Held
  BY Zenon, HeldBytes
<1>2. Held' = Held \ Bytes(m)
  <2>1. ASSUME NEW x \in Held' PROVE x \in Held /\ x \notin Bytes(m)
    <3>1. PICK n \in InFlight' : x \in Bytes(n)
      BY Zenon DEF Held, Bytes
    <3>2. n.held # 0 /\ n.idx # m.idx
      BY Zenon, <3>1, NoBytes
    <3>3. n \in InFlight
      BY Zenon, <3>2
    <3>4. x \notin Bytes(m)
      BY Zenon, <3>1, <3>2 DEF Bytes
    <3> QED BY Zenon, <3>1, <3>3, <3>4, HeldBytes
  <2>2. ASSUME NEW x \in Held, x \notin Bytes(m) PROVE x \in Held'
    <3>1. PICK n \in InFlight : x \in Bytes(n)
      BY Zenon, HeldBytes
    <3>2. n.held # 0 /\ n # m
      BY Zenon, <2>2, <3>1, NoBytes
    <3>3. n \in InFlight'
      BY Zenon, <3>2
    <3> QED BY Zenon, <3>1, <3>3 DEF Held, Bytes
  <2> QED BY Zenon, <2>1, <2>2
<1>3. m.held \in Nat
  <2>1. m.held \in 0..Capacity
    BY Zenon, MessageType
  <2> QED BY <2>1
<1>4. Held \cap Bytes(m) = Bytes(m)
  BY Zenon, <1>1
<1>5. Cardinality(Bytes(m)) = m.held
  BY Zenon, <1>3, BytesCounted
<1>6. Cardinality(Held \ Bytes(m)) = Cardinality(Held) - Cardinality(Held \cap Bytes(m))
  BY Zenon, FS_Difference
<1>7. Cardinality(Bytes(m)) <= Cardinality(Held)
  BY Zenon, <1>1, FS_Subset
<1> QED BY Zenon, <1>2, <1>4, <1>5, <1>6, <1>7

\* A message that is sent with bytes of the budget.
LEMMA HeldGrows ==
  ASSUME TypeOK, IsFiniteSet(Held), NEW m, m.held \in Nat,
         \A n \in InFlight : n.idx = m.idx => n.held = 0,
         InFlight' = InFlight \cup {m}
  PROVE  Cardinality(Held') = Cardinality(Held) + m.held
<1>1. Held' = Held \cup Bytes(m)
  <2>1. ASSUME NEW x PROVE x \in Held' <=> \E n \in InFlight' : x \in Bytes(n)
    BY Zenon DEF Held, Bytes
  <2>2. ASSUME NEW x PROVE x \in Held' <=> x \in Held \/ x \in Bytes(m)
    BY Zenon, <2>1, HeldBytes
  <2> QED BY Zenon, <2>2
<1>2. Held \cap Bytes(m) = {}
  <2>1. ASSUME NEW x \in Held, x \in Bytes(m) PROVE FALSE
    <3>1. PICK n \in InFlight : x \in Bytes(n)
      BY Zenon, HeldBytes
    <3>2. n.held # 0
      BY Zenon, <3>1, NoBytes
    <3>3. n.idx = m.idx
      BY Zenon, <2>1, <3>1 DEF Bytes
    <3> QED BY Zenon, <3>2, <3>3
  <2> QED BY Zenon, <2>1
<1>3. IsFiniteSet(Bytes(m)) /\ Cardinality(Bytes(m)) = m.held
  BY Zenon, BytesCounted
<1>4. Cardinality(Held \cup Bytes(m))
        = Cardinality(Held) + Cardinality(Bytes(m)) - Cardinality(Held \cap Bytes(m))
  BY Zenon, <1>3, FS_Union
<1>5. Cardinality({}) = 0
  BY Zenon, FS_EmptySet
<1>6. Cardinality(Held) \in Nat
  BY Zenon, FS_CardinalityType
<1>7. Cardinality(Held') = Cardinality(Held) + m.held - 0
  BY Zenon, <1>1, <1>2, <1>3, <1>4, <1>5
<1> QED BY <1>6, <1>7

--------------------------------------------------------------------------------
\* What a step leaves alone.

\* The work channel stays.
LEMMA QueueFrame ==
  ASSUME QueueInv, seq' = seq, work' = work
  PROVE  QueueInv' /\ Taken' = Taken
BY Zenon DEF QueueInv, Taken

\* The entries stay where they are.
LEMMA PlacesFrame ==
  ASSUME PlacesInv, Taken' = Taken, next' = next, pending' = pending, worker' = worker, results' = results
  PROVE  PlacesInv'
<1>1. Active' = Active /\ Delivered' = Delivered
  BY Zenon DEF Active, Delivered
<1> QED BY Zenon, <1>1, PlacesSame

\* The results stay.
LEMMA ProcessedFrame ==
  ASSUME ProcessedInv, source' = source, worker' = worker, results' = results, pending' = pending
  PROVE  ProcessedInv'
BY Zenon, SameWalk DEF ProcessedInv, Processed, EntryOf

\* The accumulator stays.
LEMMA AccumFrame ==
  ASSUME AccumInv, source' = source, consumer' = consumer, accum' = accum, toSkip' = toSkip, next' = next,
         shutdown => shutdown'
  PROVE  AccumInv'
BY Zenon, SameWalk DEF AccumInv, Inside

\* The messages stay.
LEMMA FlightFrame ==
  ASSUME work' = work, worker' = worker, results' = results, pending' = pending
  PROVE  Held' = Held
<1>1. InFlight' = InFlight
  BY Zenon DEF InFlight, Range
<1> QED BY Zenon, <1>1, HeldSame

\* No message gets bytes that it did not have.
LEMMA HoldFrame ==
  ASSUME HoldInv, source' = source, \A m \in InFlight' : m \in InFlight \/ m.held = 0,
         (grant' = grant /\ seq' = seq) \/ grant' = 0
  PROVE  HoldInv'
BY Zenon, SameWalk DEF HoldInv, EntryOf

\* The messages in flight, when channels, workers and reorder buffer stay.
LEMMA SameFlight ==
  ASSUME work' = work, worker' = worker, results' = results, pending' = pending
  PROVE  InFlight' = InFlight
BY Zenon DEF InFlight, Range

\* The threads whose steps do not change the state of the consumer.
LEMMA ConsumerFrame ==
  ASSUME SegmentsInOrder, consumer' = consumer, err' = err, shutdown => shutdown'
  PROVE  SegmentsInOrder' /\ (Running' <=> Running)
BY Zenon DEF SegmentsInOrder, Running

\* WalkEnds and WalkYields: the head of the loop of the walk thread.
LEMMA WalkMoves ==
  ASSUME PipeInv, WalkEnds \/ WalkYields
  PROVE  PipeInv'
<1>1. /\ walker = "next" /\ walker' \in {"gone", "report", "acquire"}
      /\ walker' = "gone" => shutdown \/ seq = Len(Walk)
      /\ walker' # "gone" => seq < Len(Walk)
  BY DEF WalkEnds, WalkYields
<1>2. /\ UNCHANGED <<source, seq, grant, budget, work, worker, results, rxOpen, consumer, consumerVars, err, shutdown>>
  BY Zenon DEF WalkEnds, WalkYields
<1>3. UNCHANGED <<next, pending, accum, toSkip, stream, errors>> /\ Walk' = Walk
  BY Zenon, <1>2, SameWalk DEF consumerVars
<1>4. TypeOK'
  <2>1. walker' \in {"next", "report", "acquire", "wait", "send", "gone"}
    BY Zenon, <1>1
  <2> QED BY Zenon, <1>2, <1>3, <2>1 DEF TypeOK, PipeInv
<1>5. SegmentsInOrder' /\ (Running' <=> Running)
  BY Zenon, <1>2, ConsumerFrame DEF PipeInv
<1>6. ThreadsInv'
  <2>1. "next" # "send" /\ "gone" \notin {"acquire", "wait", "send"}
    OBVIOUS
  <2>2. grant' = 0
    BY Zenon, <1>1, <1>2, <2>1 DEF PipeInv, ThreadsInv
  <2>3. Active' = Active
    BY Zenon, <1>2 DEF Active
  <2>4. walker' \in {"acquire", "wait", "send"} => seq' < Len(Walk')
    BY Zenon, <1>1, <1>2, <1>3, <2>1
  <2> QED BY Zenon, <1>2, <2>2, <2>3, <2>4 DEF PipeInv, ThreadsInv
<1>7. ASSUME Running' PROVE RunInv'
  <2>1. QueueInv /\ PlacesInv /\ ProcessedInv /\ FlowInv /\ AccumInv /\ HoldInv /\ Balance
    BY Zenon, <1>5, <1>7 DEF PipeInv, RunInv
  <2>2. QueueInv' /\ PlacesInv' /\ ProcessedInv' /\ AccumInv'
    BY Zenon, <1>2, <1>3, <2>1, QueueFrame, PlacesFrame, ProcessedFrame, AccumFrame
  <2>3. Balance'
    BY Zenon, <1>2, <1>3, <2>1, FlightFrame DEF Balance
  <2>4. FlowInv'
    <3>1. InPending' = InPending
      BY Zenon, <1>3 DEF InPending
    <3>2. \A w \in Workers : worker[w].at # "gone"
      <4>1. "next" # "gone"
        OBVIOUS
      <4> QED BY Zenon, <1>1, <2>1, <4>1 DEF FlowInv
    <3> QED BY Zenon, <1>1, <1>2, <1>3, <2>1, <3>1, <3>2 DEF FlowInv
  <2>5. HoldInv'
    BY Zenon, <1>2, <1>3, <2>1, HoldFrame, SameFlight
  <2> QED BY Zenon, <2>2, <2>3, <2>4, <2>5 DEF RunInv
<1> QED BY Zenon, <1>4, <1>5, <1>6, <1>7 DEF PipeInv

\* Acquire: the bytes go from the budget to the walk thread.
LEMMA AcquireKeeps ==
  ASSUME PipeInv, Acquire
  PROVE  PipeInv'
<1> DEFINE n == Min({Walk[seq + 1].len, Capacity})
<1>1. /\ walker = "acquire"
      /\ \/ /\ budget.poisoned /\ walker' = "gone" /\ UNCHANGED <<budget, grant>>
         \/ /\ ~budget.poisoned /\ budget.available >= n
            /\ budget' = [budget EXCEPT !.available = @ - n] /\ grant' = n /\ walker' = "send"
         \/ /\ ~budget.poisoned /\ walker' = "wait" /\ UNCHANGED <<budget, grant>>
  BY Zenon DEF Acquire
<1>2. UNCHANGED <<source, seq, work, worker, results, rxOpen, consumer, consumerVars, err, shutdown>>
  BY Zenon DEF Acquire
<1>3. UNCHANGED <<next, pending, accum, toSkip, stream, errors>> /\ Walk' = Walk
  BY Zenon, <1>2, SameWalk DEF consumerVars
<1>4. n \in 0..Capacity /\ Capacity \in Nat /\ seq < Len(Walk) /\ grant = 0
  <2>0. "acquire" # "send" /\ "acquire" \in {"acquire", "wait", "send"}
    OBVIOUS
  <2>1. seq < Len(Walk) /\ grant = 0
    BY Zenon, <1>1, <2>0 DEF PipeInv, ThreadsInv
  <2>2. seq \in Nat /\ Capacity \in Nat /\ Len(Walk) \in Nat
    BY PipelineAssumption, WalkIsShape DEF PipeInv, TypeOK
  <2>3. seq + 1 \in 1..Len(Walk)
    BY <2>1, <2>2
  <2>4. Walk[seq + 1] \in Entries
    BY Zenon, <2>3, WalkIsShape DEF PipeInv
  <2>5. Walk[seq + 1].len \in Nat
    BY <2>4 DEF Entries
  <2> QED BY Zenon, <2>1, <2>2, <2>5, MinOfTwo
<1>10. n # 0 => Walk[seq + 1].kind \in {"file", "segment"}
  <2>1. seq \in Nat /\ Capacity \in Nat /\ Len(Walk) \in Nat
    BY PipelineAssumption, WalkIsShape DEF PipeInv, TypeOK
  <2>2. seq + 1 \in 1..Len(Walk)
    BY <1>4, <2>1
  <2>3. Walk[seq + 1] \in Entries
    BY Zenon, <2>2, WalkIsShape DEF PipeInv
  <2>4. 0 \in Nat /\ 0 <= Capacity
    BY <2>1
  <2>5. Walk[seq + 1].kind \in {"file", "segment"} \/ Walk[seq + 1].len = 0
    BY Zenon, <2>3 DEF Entries
  <2> QED BY Zenon, <2>1, <2>4, <2>5, MinOfTwo
<1> HIDE DEF n
<1>5. /\ budget' \in [available : 0..Capacity, poisoned : BOOLEAN] /\ budget'.poisoned = budget.poisoned
      /\ grant' \in 0..Capacity /\ budget'.available + grant' = budget.available + grant
  <2>1. budget \in [available : 0..Capacity, poisoned : BOOLEAN] /\ grant \in 0..Capacity
    BY Zenon DEF PipeInv, TypeOK
  <2>2. CASE UNCHANGED <<budget, grant>>
    BY Zenon, <2>1, <2>2
  <2>3. CASE budget.available >= n /\ budget' = [budget EXCEPT !.available = @ - n] /\ grant' = n
    BY <1>4, <2>1, <2>3
  <2> QED BY Zenon, <1>1, <2>2, <2>3
<1>6. TypeOK'
  <2>1. walker' \in {"next", "report", "acquire", "wait", "send", "gone"}
    BY Zenon, <1>1
  <2> QED BY Zenon, <1>2, <1>3, <1>5, <2>1 DEF TypeOK, PipeInv
<1>7. SegmentsInOrder' /\ (Running' <=> Running)
  BY Zenon, <1>2, ConsumerFrame DEF PipeInv
<1>8. ThreadsInv'
  <2>1. walker' # "send" => grant' = 0
    BY Zenon, <1>1, <1>4
  <2>2. Active' = Active
    BY Zenon, <1>2 DEF Active
  <2> QED BY Zenon, <1>2, <1>3, <1>4, <2>1, <2>2 DEF PipeInv, ThreadsInv
<1>9. ASSUME Running' PROVE RunInv'
  <2>1. QueueInv /\ PlacesInv /\ ProcessedInv /\ FlowInv /\ AccumInv /\ HoldInv /\ Balance
    BY Zenon, <1>7, <1>9 DEF PipeInv, RunInv
  <2>2. QueueInv' /\ PlacesInv' /\ ProcessedInv' /\ AccumInv'
    BY Zenon, <1>2, <1>3, <2>1, QueueFrame, PlacesFrame, ProcessedFrame, AccumFrame
  <2>3. Balance'
    BY Zenon, <1>2, <1>3, <1>5, <2>1, FlightFrame DEF Balance
  <2>4. FlowInv'
    <3>1. InPending' = InPending
      BY Zenon, <1>3 DEF InPending
    <3>2. ~budget.poisoned /\ walker' # "gone" /\ \A w \in Workers : worker[w].at # "gone"
      <4>1. "acquire" # "gone" /\ "send" # "gone" /\ "wait" # "gone"
        OBVIOUS
      <4> QED BY Zenon, <1>1, <2>1, <4>1 DEF FlowInv
    <3> QED BY Zenon, <1>2, <1>5, <2>1, <1>3, <3>1, <3>2 DEF FlowInv
  <2>5. HoldInv'
    <3>1. InFlight' = InFlight
      BY Zenon, <1>2, <1>3, SameFlight
    <3>2. grant' # 0 => Walk[seq + 1].kind \in {"file", "segment"}
      BY Zenon, <1>1, <1>4, <1>10
    <3> QED BY Zenon, <1>2, <1>3, <2>1, <3>1, <3>2 DEF HoldInv, EntryOf
  <2> QED BY Zenon, <2>2, <2>3, <2>4, <2>5 DEF RunInv
<1> QED BY Zenon, <1>6, <1>7, <1>8, <1>9 DEF PipeInv

\* WalkReports: a walk error enters the result channel.
LEMMA ReportKeeps ==
  ASSUME PipeInv, WalkReports
  PROVE  PipeInv'
<1> DEFINE m == [idx |-> seq, res |-> "walk", held |-> 0]
<1>1. /\ walker = "report" /\ walker' = "gone"
      /\ \/ rxOpen /\ Len(results) < ResultCap /\ results' = Append(results, m)
         \/ ~rxOpen /\ UNCHANGED results
  BY Zenon DEF WalkReports
<1>2. UNCHANGED <<source, seq, grant, budget, work, worker, rxOpen, consumer, consumerVars, err, shutdown>>
  BY Zenon DEF WalkReports
<1>3. UNCHANGED <<next, pending, accum, toSkip, stream, errors>> /\ Walk' = Walk
  BY Zenon, <1>2, SameWalk DEF consumerVars
<1>4. /\ results \in Seq(Message) /\ Len(results) \in Nat /\ Len(results) <= ResultCap /\ m \in Message
      /\ ResultCap \in Nat
  BY Caps, PipelineAssumption DEF PipeInv, TypeOK, Message
<1>5. results' \in Seq(Message) /\ Len(results') <= ResultCap
  BY <1>1, <1>4
<1>6. TypeOK'
  <2>1. walker' \in {"next", "report", "acquire", "wait", "send", "gone"}
    BY Zenon, <1>1
  <2> QED BY Zenon, <1>2, <1>3, <1>5, <2>1 DEF TypeOK, PipeInv
<1>7. SegmentsInOrder' /\ (Running' <=> Running)
  BY Zenon, <1>2, ConsumerFrame DEF PipeInv
<1>8. ThreadsInv'
  <2>1. "report" # "send" /\ "gone" \notin {"acquire", "wait", "send"}
    OBVIOUS
  <2>2. Active' = Active /\ grant' = 0
    BY Zenon, <1>1, <1>2, <2>1 DEF Active, PipeInv, ThreadsInv
  <2> QED BY Zenon, <1>1, <1>2, <2>1, <2>2 DEF PipeInv, ThreadsInv
<1>9. ASSUME Running' PROVE RunInv'
  <2>1. QueueInv /\ PlacesInv /\ ProcessedInv /\ FlowInv /\ AccumInv /\ HoldInv /\ Balance
    BY Zenon, <1>7, <1>9 DEF PipeInv, RunInv
  <2>2. QueueInv' /\ AccumInv' /\ Taken' = Taken
    BY Zenon, <1>2, <1>3, <2>1, QueueFrame, AccumFrame
  <2>3. results' = Append(results, m)
    BY Zenon, <1>1, <1>7, <1>9 DEF PipeInv, TypeOK, Running
  <2>4. /\ DOMAIN results' = DOMAIN results \cup {Len(results) + 1} /\ Len(results) + 1 \notin DOMAIN results
        /\ results'[Len(results) + 1] = m /\ \A k \in DOMAIN results : results'[k] = results[k]
    BY <1>4, <2>3
  <2>5. m.res = "walk" /\ m.held = 0
    OBVIOUS
  <2> HIDE DEF m
  <2>6. Delivered' = Delivered
    BY Zenon, <2>4, <2>5 DEF Delivered
  <2>7. PlacesInv'
    <3>1. Active' = Active
      BY Zenon, <1>2 DEF Active
    <3>2. \A k \in Delivered : results'[k].idx = results[k].idx
      BY Zenon, <2>4 DEF Delivered
    <3> QED BY Zenon, <1>2, <1>3, <2>1, <2>2, <2>6, <3>1, <3>2, PlacesSame
  <2>8. ProcessedInv'
    <3>1. \A k \in DOMAIN results' :
            IF results'[k].res = "walk" THEN results'[k].held = 0 ELSE Processed(results'[k])
      BY Zenon, <2>1, <2>4, <2>5 DEF ProcessedInv
    <3>2. \A x : Processed(x)' <=> Processed(x)
      BY Zenon, <1>3 DEF Processed, EntryOf
    <3> QED BY Zenon, <1>2, <1>3, <2>1, <3>1, <3>2 DEF ProcessedInv, Processed, EntryOf
  <2>9. Balance' /\ HoldInv'
    <3>1. Range(results') = Range(results) \cup {m}
      BY Zenon, <2>4 DEF Range
    <3>2. InFlight' = InFlight \cup {m}
      BY Zenon, <1>2, <1>3, <3>1 DEF InFlight, Range
    <3>4. HoldInv'
      BY Zenon, <1>2, <2>1, <2>5, <3>2, HoldFrame
    <3>3. Held' = Held
      BY Zenon, <2>5, <3>2, HeldSame
    <3> QED BY Zenon, <1>2, <2>1, <3>3, <3>4 DEF Balance
  <2>10. FlowInv'
    <3>1. InPending' = InPending
      BY Zenon, <1>3 DEF InPending
    <3>2. \A w \in Workers : worker[w].at # "gone"
      <4>1. "report" # "gone"
        OBVIOUS
      <4> QED BY Zenon, <1>1, <2>1, <4>1 DEF FlowInv
    <3>3. \E k \in DOMAIN results' : results'[k].res = "walk"
      BY Zenon, <2>4, <2>5
    <3> QED BY Zenon, <1>2, <1>3, <2>1, <3>1, <3>2, <3>3 DEF FlowInv
  <2> QED BY Zenon, <2>2, <2>7, <2>8, <2>9, <2>10 DEF RunInv
<1> QED BY Zenon, <1>6, <1>7, <1>8, <1>9 DEF PipeInv

\* WalkSends: the bytes go with the entry, or back when no worker is left.
LEMMA SendKeeps ==
  ASSUME PipeInv, WalkSends
  PROVE  PipeInv'
<1> DEFINE m == [idx |-> seq, res |-> "todo", held |-> grant]
<1>1. /\ walker = "send" /\ grant' = 0
      /\ \/ /\ Len(work) < WorkCap /\ work' = Append(work, m)
            /\ seq' = seq + 1 /\ walker' = "next" /\ UNCHANGED budget
         \/ /\ \A w \in Workers : worker[w].at = "gone"
            /\ budget' = [budget EXCEPT !.available = Min({@ + grant, Capacity})]
            /\ walker' = "gone" /\ UNCHANGED <<seq, work>>
  BY Zenon DEF WalkSends
<1>2. UNCHANGED <<source, worker, results, rxOpen, consumer, consumerVars, err, shutdown>>
  BY Zenon DEF WalkSends
<1>3. UNCHANGED <<next, pending, accum, toSkip, stream, errors>> /\ Walk' = Walk
  BY Zenon, <1>2, SameWalk DEF consumerVars
<1>4. /\ work \in Seq(Message) /\ Len(work) \in Nat /\ Len(work) <= WorkCap /\ WorkCap \in Nat
      /\ seq \in Nat /\ Len(Walk) \in Nat /\ grant \in Nat /\ grant \in 0..Capacity /\ Capacity \in Nat
      /\ budget \in [available : 0..Capacity, poisoned : BOOLEAN]
  BY Caps, PipelineAssumption, WalkIsShape DEF PipeInv, TypeOK
<1>5. m \in Message
  BY <1>4 DEF Message
<1>6. seq < Len(Walk)
  BY Zenon, <1>1 DEF PipeInv, ThreadsInv
<1>7. /\ work' \in Seq(Message) /\ Len(work') <= WorkCap /\ seq' \in 0..Len(Walk)
  <2>1. CASE Len(work) < WorkCap /\ work' = Append(work, m) /\ seq' = seq + 1
    BY <1>4, <1>5, <1>6, <2>1
  <2>2. CASE UNCHANGED <<seq, work>>
    BY <1>4, <1>6, <2>2
  <2> QED BY Zenon, <1>1, <2>1, <2>2
<1>8. budget' \in [available : 0..Capacity, poisoned : BOOLEAN]
  <2>1. budget' = budget \/ budget' = [budget EXCEPT !.available = Min({@ + grant, Capacity})]
    BY Zenon, <1>1
  <2> QED BY Zenon, <1>4, <2>1, ReleaseType DEF PipeInv
<1>9. TypeOK'
  <2>1. walker' \in {"next", "report", "acquire", "wait", "send", "gone"} /\ grant' \in 0..Capacity
    BY <1>1, <1>4
  <2> QED BY Zenon, <1>2, <1>3, <1>7, <1>8, <2>1 DEF TypeOK, PipeInv
<1>10. SegmentsInOrder' /\ (Running' <=> Running)
  BY Zenon, <1>2, ConsumerFrame DEF PipeInv
<1>11. ThreadsInv'
  <2>1. walker' \notin {"acquire", "wait", "send"}
    BY <1>1
  <2>2. Active' = Active
    BY Zenon, <1>2 DEF Active
  <2> QED BY Zenon, <1>1, <1>2, <2>1, <2>2 DEF PipeInv, ThreadsInv
<1>12. ASSUME Running' PROVE RunInv'
  <2>1. QueueInv /\ PlacesInv /\ ProcessedInv /\ FlowInv /\ AccumInv /\ HoldInv /\ Balance
    BY Zenon, <1>10, <1>12 DEF PipeInv, RunInv
  <2>2. \A w \in Workers : worker[w].at # "gone"
    <3>1. "send" # "gone"
      OBVIOUS
    <3> QED BY Zenon, <1>1, <2>1, <3>1 DEF FlowInv
  <2>3. work' = Append(work, m) /\ seq' = seq + 1 /\ walker' = "next" /\ budget' = budget
    BY Zenon, <1>1, <2>2, PipelineAssumption
  <2>4. /\ Len(work') = Len(work) + 1 /\ work'[Len(work) + 1] = m
        /\ \A k \in 1..Len(work) : work'[k] = work[k]
        /\ DOMAIN work = 1..Len(work) /\ DOMAIN work' = DOMAIN work \cup {Len(work) + 1}
    BY <1>4, <2>3
  <2>5. Taken' = Taken /\ Taken \in Int
    BY <1>4, <2>3, <2>4 DEF Taken
  <2>6. QueueInv'
    <3>1. Len(work') <= seq'
      BY <1>4, <2>1, <2>3, <2>4 DEF QueueInv
    <3>2. ASSUME NEW k \in 1..Len(work') PROVE work'[k].idx = Taken' + k - 1
      <4>1. CASE k \in 1..Len(work)
        BY Zenon, <2>1, <2>4, <2>5, <4>1 DEF QueueInv
      <4>2. CASE k = Len(work) + 1
        BY <1>4, <2>4, <2>5, <4>2 DEF Taken
      <4> QED BY <1>4, <2>4, <4>1, <4>2
    <3> QED BY Zenon, <3>1, <3>2 DEF QueueInv
  <2>7. PlacesInv' /\ ProcessedInv' /\ AccumInv'
    BY Zenon, <1>2, <1>3, <2>1, <2>5, PlacesFrame, ProcessedFrame, AccumFrame
  <2>8. m.idx = seq /\ m.held = grant
    OBVIOUS
  <2> HIDE DEF m
  <2>9. Balance'
    <3>1. Range(work') = Range(work) \cup {m}
      <4>1. \A k \in DOMAIN work : work'[k] = work[k]
        BY Zenon, <2>4
      <4>2. DOMAIN work' = DOMAIN work \cup {Len(work) + 1} /\ work'[Len(work) + 1] = m
        BY Zenon, <2>4
      <4> QED BY Zenon, <4>1, <4>2 DEF Range
    <3>2. InFlight' = InFlight \cup {m}
      BY Zenon, <1>2, <1>3, <3>1 DEF InFlight, Range
    <3>3. IsFiniteSet(Held) /\ Cardinality(Held) \in Nat
      BY Zenon, <2>1, HeldFinite DEF PipeInv
    <3>4. \A n \in InFlight : n.idx = m.idx => n.held = 0
      <4>1. seq \notin 0..(seq - 1)
        BY <1>4
      <4> QED BY Zenon, <2>1, <2>8, <4>1, CarriersBound DEF PipeInv
    <3>5. Cardinality(Held') = Cardinality(Held) + grant
      BY Zenon, <1>4, <2>8, <3>2, <3>3, <3>4, HeldGrows DEF PipeInv
    <3>6. budget.available \in Nat
      BY <1>4
    <3> QED BY <1>1, <1>4, <2>1, <2>3, <3>3, <3>5, <3>6 DEF Balance
  <2>11. HoldInv'
    <3>1. Range(work') = Range(work) \cup {m}
      <4>1. \A k \in DOMAIN work : work'[k] = work[k]
        BY Zenon, <2>4
      <4>2. DOMAIN work' = DOMAIN work \cup {Len(work) + 1} /\ work'[Len(work) + 1] = m
        BY Zenon, <2>4
      <4> QED BY Zenon, <4>1, <4>2 DEF Range
    <3>2. InFlight' = InFlight \cup {m}
      BY Zenon, <1>2, <1>3, <3>1 DEF InFlight, Range
    <3>3. m.held # 0 => EntryOf(m).kind \in {"file", "segment"}
      BY Zenon, <2>1, <2>8 DEF HoldInv, EntryOf
    <3> QED BY Zenon, <1>1, <1>3, <2>1, <3>2, <3>3 DEF HoldInv, EntryOf
  <2>10. FlowInv'
    <3>1. InPending' = InPending /\ "next" # "gone"
      BY Zenon, <1>3 DEF InPending
    <3> QED BY Zenon, <1>2, <1>3, <2>1, <2>2, <2>3, <3>1 DEF FlowInv
  <2> QED BY Zenon, <2>6, <2>7, <2>9, <2>10, <2>11 DEF RunInv
<1> QED BY Zenon, <1>9, <1>10, <1>11, <1>12 DEF PipeInv

\* Take: a worker receives an entry.
LEMMA TakeKeeps ==
  ASSUME PipeInv, NEW w \in Workers, Take(w)
  PROVE  PipeInv'
<1> DEFINE m == Head(work)
<1>1. /\ worker[w].at = "recv" /\ work # << >> /\ work' = Tail(work)
      /\ worker' = [worker EXCEPT ![w] = [at |-> "busy", msg |-> m]]
  BY Zenon DEF Take
<1>2. UNCHANGED <<walkVars, budget, results, rxOpen, consumer, consumerVars, err, shutdown>>
  BY Zenon DEF Take
<1>3. UNCHANGED <<source, seq, walker, grant, next, pending, accum, toSkip, stream, errors>> /\ Walk' = Walk
  BY Zenon, <1>2, SameWalk DEF consumerVars, walkVars
<1>4. /\ work \in Seq(Message) /\ Len(work) \in Nat /\ Len(work) <= WorkCap /\ WorkCap \in Nat
      /\ worker \in [Workers -> [at : {"recv", "busy", "send", "gone"}, msg : Message]]
  BY Caps DEF PipeInv, TypeOK
<1>5. /\ work' \in Seq(Message) /\ Len(work') <= WorkCap /\ m \in Message
      /\ 1 \in DOMAIN work /\ m = work[1]
      /\ \A k \in DOMAIN work' : k + 1 \in DOMAIN work /\ work'[k] = work[k + 1]
      /\ \A k \in DOMAIN work : k # 1 => k - 1 \in DOMAIN work' /\ work'[k - 1] = work[k]
  BY <1>1, <1>4
<1> HIDE DEF m
<1>6. /\ worker' \in [Workers -> [at : {"recv", "busy", "send", "gone"}, msg : Message]]
      /\ worker'[w] = [at |-> "busy", msg |-> m] /\ \A v \in Workers \ {w} : worker'[v] = worker[v]
  BY <1>1, <1>4, <1>5
<1>7. worker'[w].at = "busy" /\ worker'[w].msg = m
  BY <1>6
<1>8. TypeOK'
  BY Zenon, <1>2, <1>3, <1>5, <1>6 DEF TypeOK, PipeInv
<1>9. SegmentsInOrder' /\ (Running' <=> Running)
  BY Zenon, <1>2, ConsumerFrame DEF PipeInv
<1>10. ThreadsInv'
  <2>1. \A v \in Workers \ Active' : v \in Workers \ Active /\ worker'[v] = worker[v]
    BY Zenon, <1>6, <1>7 DEF Active
  <2> QED BY Zenon, <1>2, <1>3, <2>1 DEF PipeInv, ThreadsInv
<1>11. ASSUME Running' PROVE RunInv'
  <2>1. QueueInv /\ PlacesInv /\ ProcessedInv /\ FlowInv /\ AccumInv /\ HoldInv /\ Balance
    BY Zenon, <1>9, <1>11 DEF PipeInv, RunInv
  <2>2. QueueInv' /\ PlacesInv' /\ AccumInv'
    BY Zenon, <1>2, <1>3, <2>1, TakePlaces, AccumFrame DEF PipeInv
  <2>3. ProcessedInv'
    <3>1. \A x : Processed(x)' <=> Processed(x)
      BY Zenon, <1>3 DEF Processed, EntryOf
    <3>2. \A v \in Workers : worker'[v].at = "send" => worker'[v] = worker[v]
      BY Zenon, <1>6, <1>7
    <3>3. \A v \in Workers : worker'[v].at = "send" => Processed(worker'[v].msg)
      BY Zenon, <2>1, <3>2 DEF ProcessedInv
    <3> QED BY Zenon, <1>2, <1>3, <2>1, <3>1, <3>3 DEF ProcessedInv, Processed, EntryOf
  <2>4. Balance' /\ HoldInv'
    <3>1. worker[w].msg = Idle /\ Idle.held = 0
      <4>1. w \notin Active
        BY Zenon, <1>1 DEF Active
      <4> QED BY Zenon, <4>1 DEF PipeInv, ThreadsInv, Idle
    <3>2. Range(work) = Range(work') \cup {m}
      <4>1. ASSUME NEW x \in Range(work) PROVE x \in Range(work') \cup {m}
        <5>1. PICK k \in DOMAIN work : x = work[k]
          BY Zenon DEF Range
        <5>2. k # 1 => work'[k - 1] = x /\ k - 1 \in DOMAIN work'
          BY Zenon, <1>5, <5>1
        <5> QED BY Zenon, <1>5, <5>1, <5>2 DEF Range
      <4>2. ASSUME NEW x \in Range(work') PROVE x \in Range(work)
        <5>1. PICK k \in DOMAIN work' : x = work'[k]
          BY Zenon DEF Range
        <5> QED BY Zenon, <1>5, <5>1 DEF Range
      <4>3. m \in Range(work)
        BY Zenon, <1>5 DEF Range
      <4> QED BY Zenon, <4>1, <4>2, <4>3
    <3>3. \A x \in InFlight : x \in InFlight' \/ x = Idle
      <4>1. m \in InFlight'
        BY Zenon, <1>7 DEF InFlight
      <4>2. \A v \in Workers : worker[v].msg \in InFlight' \/ worker[v].msg = Idle
        BY Zenon, <1>6, <3>1 DEF InFlight
      <4>3. Range(work') \cup Range(results) \cup pending \subseteq InFlight'
        BY Zenon, <1>2, <1>3 DEF InFlight
      <4> QED BY Zenon, <3>2, <4>1, <4>2, <4>3 DEF InFlight
    <3>4. \A x \in InFlight' : x \in InFlight
      BY Zenon, <1>2, <1>3, <1>6, <1>7, <3>2 DEF InFlight
    <3>5. Held' = Held
      BY Zenon, <3>1, <3>3, <3>4, HeldSame
    <3>6. HoldInv'
      BY Zenon, <1>3, <2>1, <3>4, HoldFrame
    <3> QED BY Zenon, <1>2, <1>3, <2>1, <3>5, <3>6 DEF Balance
  <2>5. FlowInv'
    <3>1. InPending' = InPending /\ "busy" # "gone"
      BY Zenon, <1>3 DEF InPending
    <3>2. \A v \in Workers : worker[v].at # "gone"
      BY Zenon, <1>1, <2>1 DEF FlowInv
    <3>3. \A v \in Workers : worker'[v].at # "gone"
      BY Zenon, <1>6, <1>7, <3>1, <3>2
    <3> QED BY Zenon, <1>2, <1>3, <2>1, <3>1, <3>3 DEF FlowInv
  <2> QED BY Zenon, <2>2, <2>3, <2>4, <2>5 DEF RunInv
<1> QED BY Zenon, <1>8, <1>9, <1>10, <1>11 DEF PipeInv

\* Starve: a worker ends.
LEMMA StarveKeeps ==
  ASSUME PipeInv, NEW w \in Workers, Starve(w)
  PROVE  PipeInv'
<1>1. /\ worker[w].at = "recv" /\ work = << >> /\ walker = "gone"
      /\ worker' = [worker EXCEPT ![w] = [at |-> "gone", msg |-> Idle]]
  BY Zenon DEF Starve
<1>2. UNCHANGED <<walkVars, budget, work, results, rxOpen, consumer, consumerVars, err, shutdown>>
  BY Zenon DEF Starve
<1>3. UNCHANGED <<source, seq, walker, grant, next, pending, accum, toSkip, stream, errors>> /\ Walk' = Walk
  BY Zenon, <1>2, SameWalk DEF consumerVars, walkVars
<1>4. /\ worker \in [Workers -> [at : {"recv", "busy", "send", "gone"}, msg : Message]] /\ Idle \in Message
  BY PipelineAssumption DEF PipeInv, TypeOK, Idle, Message
<1>5. /\ worker' \in [Workers -> [at : {"recv", "busy", "send", "gone"}, msg : Message]]
      /\ worker'[w].at = "gone" /\ worker'[w].msg = Idle /\ \A v \in Workers \ {w} : worker'[v] = worker[v]
  BY <1>1, <1>4
<1>6. TypeOK'
  BY Zenon, <1>2, <1>3, <1>5 DEF TypeOK, PipeInv
<1>7. SegmentsInOrder' /\ (Running' <=> Running)
  BY Zenon, <1>2, ConsumerFrame DEF PipeInv
<1>8. w \notin Active /\ Active' = Active /\ worker[w].msg = Idle
  <2>1. "recv" \notin {"busy", "send"} /\ "gone" \notin {"busy", "send"}
    OBVIOUS
  <2>2. w \notin Active /\ w \notin Active'
    BY Zenon, <1>1, <1>5, <2>1 DEF Active
  <2>3. \A v \in Workers \ {w} : v \in Active <=> v \in Active'
    BY Zenon, <1>5 DEF Active
  <2>4. Active \subseteq Workers /\ Active' \subseteq Workers
    BY Zenon DEF Active
  <2>5. worker[w].msg = Idle
    BY Zenon, <2>2 DEF PipeInv, ThreadsInv
  <2>6. \A v : v \in Active <=> v \in Active'
    BY Zenon, <2>2, <2>3, <2>4
  <2> QED BY Zenon, <2>2, <2>5, <2>6
<1>9. ThreadsInv'
  BY Zenon, <1>2, <1>3, <1>5, <1>8 DEF PipeInv, ThreadsInv
<1>10. ASSUME Running' PROVE RunInv'
  <2>1. QueueInv /\ PlacesInv /\ ProcessedInv /\ FlowInv /\ AccumInv /\ HoldInv /\ Balance
    BY Zenon, <1>7, <1>10 DEF PipeInv, RunInv
  <2>2. QueueInv' /\ AccumInv' /\ Taken' = Taken
    BY Zenon, <1>2, <1>3, <2>1, QueueFrame, AccumFrame
  <2>3. PlacesInv'
    <3>1. Delivered' = Delivered
      BY Zenon, <1>2 DEF Delivered
    <3>2. \A v \in Active : worker'[v] = worker[v]
      BY Zenon, <1>5, <1>8 DEF Active
    <3> QED BY Zenon, <1>2, <1>3, <1>8, <2>1, <2>2, <3>1, <3>2, PlacesSame
  <2>4. ProcessedInv'
    <3>1. \A x : Processed(x)' <=> Processed(x)
      BY Zenon, <1>3 DEF Processed, EntryOf
    <3>2. \A v \in Workers : worker'[v].at = "send" => worker'[v] = worker[v]
      BY Zenon, <1>5
    <3>3. \A v \in Workers : worker'[v].at = "send" => Processed(worker'[v].msg)
      BY Zenon, <2>1, <3>2 DEF ProcessedInv
    <3> QED BY Zenon, <1>2, <1>3, <2>1, <3>1, <3>3 DEF ProcessedInv, Processed, EntryOf
  <2>5. Balance' /\ HoldInv'
    <3>1. \A v \in Workers : worker'[v].msg = worker[v].msg
      BY Zenon, <1>5, <1>8
    <3>2. InFlight' = InFlight
      BY Zenon, <1>2, <1>3, <3>1 DEF InFlight
    <3>3. Held' = Held
      BY Zenon, <3>2, HeldSame
    <3>4. HoldInv'
      BY Zenon, <1>3, <2>1, <3>2, HoldFrame
    <3> QED BY Zenon, <1>2, <1>3, <2>1, <3>3, <3>4 DEF Balance
  <2>6. FlowInv'
    <3>1. InPending' = InPending
      BY Zenon, <1>3 DEF InPending
    <3> QED BY Zenon, <1>1, <1>2, <1>3, <2>1, <3>1 DEF FlowInv
  <2> QED BY Zenon, <2>2, <2>3, <2>4, <2>5, <2>6 DEF RunInv
<1> QED BY Zenon, <1>6, <1>7, <1>9, <1>10 DEF PipeInv

\* A waiting walk is woken, or nothing happens to it.
Woken ==
    /\ walker' \in {"next", "report", "acquire", "wait", "send", "gone"}
    /\ walker' \in {"acquire", "wait", "send"} => walker \in {"acquire", "wait", "send"}
    /\ walker' = "send" <=> walker = "send"
    /\ walker' = "gone" <=> walker = "gone"

\* notify_all.
LEMMA NotifyWakes ==
  ASSUME TypeOK, Notify \/ walker' = walker
  PROVE  Woken
BY DEF TypeOK, Notify, Woken

\* Release, or nothing.
BytesBack(n) ==
    /\ Woken /\ budget' \in [available : 0..Capacity, poisoned : BOOLEAN]
    /\ budget'.poisoned = budget.poisoned
    /\ budget.available + n <= Capacity => budget'.available = budget.available + n

\* A release returns the bytes.
LEMMA ReleaseReturns ==
  ASSUME TypeOK, NEW n \in Nat, Release(n)
  PROVE  BytesBack(n)
BY Zenon, ReleaseType, NotifyWakes DEF Release, BytesBack

\* No bytes are returned when none are held.
LEMMA UntouchedReturns ==
  ASSUME TypeOK, Untouched
  PROVE  BytesBack(0)
<1>1. budget' = budget /\ walker' = walker
  BY Zenon DEF Untouched
<1>2. budget.available + 0 = budget.available /\ budget \in [available : 0..Capacity, poisoned : BOOLEAN]
  BY DEF TypeOK
<1> QED BY Zenon, <1>1, <1>2, NotifyWakes DEF BytesBack

\* A message that changes its place, or its result, keeps its bytes.
LEMMA HeldMoved ==
  ASSUME \A m \in InFlight : m.held = 0 \/ \E n \in InFlight' : n.idx = m.idx /\ n.held = m.held,
         \A m \in InFlight' : m.held = 0 \/ \E n \in InFlight : n.idx = m.idx /\ n.held = m.held
  PROVE  Held' = Held
<1>1. ASSUME NEW x \in Held PROVE x \in Held'
  <2>1. PICK m \in InFlight : x \in Bytes(m)
    BY Zenon, HeldBytes
  <2>2. PICK n \in InFlight' : n.idx = m.idx /\ n.held = m.held
    BY Zenon, <2>1, NoBytes
  <2>3. x \in Bytes(n)
    BY Zenon, <2>1, <2>2 DEF Bytes
  <2> QED BY Zenon, <2>3 DEF Held, Bytes
<1>2. ASSUME NEW x \in Held' PROVE x \in Held
  <2>1. PICK m \in InFlight' : x \in Bytes(m)
    BY Zenon DEF Held, Bytes
  <2>2. PICK n \in InFlight : n.idx = m.idx /\ n.held = m.held
    BY Zenon, <2>1, NoBytes
  <2>3. x \in Bytes(n)
    BY Zenon, <2>1, <2>2 DEF Bytes
  <2> QED BY Zenon, <2>3 DEF Held, Bytes
<1> QED BY Zenon, <1>1, <1>2

\* What is outside the work channel was taken from it.
LEMMA OutsideQueue ==
  ASSUME TypeOK, QueueInv, PlacesInv, NEW n \in Range(work)
  PROVE  n.idx \notin AtWorkers \cup InResults \cup InPending
<1>1. work \in Seq(Message) /\ seq \in Nat /\ Taken \in Int /\ next \in Nat
  BY DEF TypeOK, Taken
<1>2. PICK k \in 1..Len(work) : n = work[k]
  BY <1>1 DEF Range
<1>3. n.idx = Taken + k - 1
  BY Zenon, <1>2 DEF QueueInv
<1>4. n.idx \notin next..(Taken - 1)
  BY <1>1, <1>3
<1> QED BY Zenon, <1>4 DEF PlacesInv

\* An entry with bytes that a worker has is nowhere else.
LEMMA OnlyAtWorker ==
  ASSUME TypeOK, ThreadsInv, QueueInv, PlacesInv, ProcessedInv,
         NEW w \in Active, NEW n, n.idx = worker[w].msg.idx, n.held # 0
  PROVE  /\ n \notin Range(work) /\ n \notin Range(results) /\ n \notin pending
         /\ \A v \in Workers : n = worker[v].msg => v = w
<1>1. n.idx \in AtWorkers /\ n.idx \notin InResults /\ n.idx \notin InPending
  <2>1. n.idx \in AtWorkers
    BY Zenon DEF AtWorkers
  <2> QED BY Zenon, <2>1 DEF PlacesInv
<1>2. n \notin Range(work)
  BY Zenon, <1>1, OutsideQueue
<1>3. n \notin pending
  BY Zenon, <1>1 DEF InPending
<1>4. n \notin Range(results)
  <2>1. ASSUME NEW k \in DOMAIN results, n = results[k] PROVE FALSE
    <3>1. k \notin Delivered
      BY Zenon, <1>1, <2>1 DEF InResults
    <3> QED BY Zenon, <2>1, <3>1 DEF Delivered, ProcessedInv
  <2> QED BY Zenon, <2>1 DEF Range
<1>5. ASSUME NEW v \in Workers, n = worker[v].msg PROVE v = w
  <2>1. Idle.held = 0
    BY DEF Idle
  <2>2. v \in Active
    BY Zenon, <1>5, <2>1 DEF ThreadsInv
  <2> QED BY Zenon, <1>5, <2>2 DEF PlacesInv
<1> QED BY Zenon, <1>2, <1>3, <1>4, <1>5

\* An entry with bytes in the reorder buffer is nowhere else.
LEMMA OnlyPending ==
  ASSUME TypeOK, ThreadsInv, QueueInv, PlacesInv, ProcessedInv,
         NEW m \in pending, NEW n, n.idx = m.idx, n.held # 0
  PROVE  /\ n \notin Range(work) /\ n \notin Range(results)
         /\ n \notin {worker[v].msg : v \in Workers} /\ (n \in pending => n = m)
<1>1. n.idx \in InPending /\ n.idx \notin InResults /\ n.idx \notin AtWorkers
  <2>1. n.idx \in InPending
    BY Zenon DEF InPending
  <2> QED BY Zenon, <2>1 DEF PlacesInv
<1>2. n \notin Range(work)
  BY Zenon, <1>1, OutsideQueue
<1>3. n \in pending => n = m
  BY Zenon DEF PlacesInv
<1>4. n \notin Range(results)
  <2>1. ASSUME NEW k \in DOMAIN results, n = results[k] PROVE FALSE
    <3>1. k \notin Delivered
      BY Zenon, <1>1, <2>1 DEF InResults
    <3> QED BY Zenon, <2>1, <3>1 DEF Delivered, ProcessedInv
  <2> QED BY Zenon, <2>1 DEF Range
<1>5. ASSUME NEW v \in Workers, n = worker[v].msg PROVE FALSE
  <2>1. Idle.held = 0
    BY DEF Idle
  <2>2. v \in Active
    BY Zenon, <1>5, <2>1 DEF ThreadsInv
  <2> QED BY Zenon, <1>1, <1>5, <2>2 DEF AtWorkers
<1> QED BY Zenon, <1>2, <1>3, <1>4, <1>5

\* What process_file_worker makes of an entry.
LEMMA ProcessResult ==
  ASSUME NEW e, NEW reading \in Readings(e)
  PROVE  /\ Converted(e, reading) \in {"done", "skipped", "soft", "hard"}
         /\ Converted(e, reading) = "soft" =>
              e.kind = "segment" /\ e.index # 0
         /\ Converted(e, reading) = "skipped" /\ e.kind = "segment" => e.index = 0
<1>1. CASE e.kind \in {"file", "segment"}
  <2>1. reading \in {"done", "soft", "hard"}
    BY <1>1 DEF Readings
  <2> QED BY <1>1, <2>1 DEF Converted
<1>2. CASE e.kind = "skipped"
  <2>1. reading = "skipped"
    BY <1>2 DEF Readings
  <2> QED BY <1>2, <2>1 DEF Converted
<1>3. CASE e.kind \notin {"file", "segment", "skipped"}
  <2>1. reading = "done"
    BY <1>3 DEF Readings
  <2> QED BY <1>3, <2>1 DEF Converted
<1> QED BY Zenon, <1>1, <1>2, <1>3

\* What a worker does to its own message.
LEMMA ProcessMessage ==
  ASSUME PipeInv, NEW w \in Workers, Process(w)
  PROVE  \E n \in Message :
           /\ worker' = [worker EXCEPT ![w] = [at |-> "send", msg |-> n]]
           /\ n.idx = worker[w].msg.idx
           /\ n.res \in {"done", "skipped", "soft", "hard"}
           /\ n.res = "soft" => EntryOf(n).kind = "segment" /\ EntryOf(n).index # 0
           /\ n.res = "skipped" /\ EntryOf(n).kind = "segment" => EntryOf(n).index = 0
           /\ n.held # 0 => n.res = "done"
           /\ \/ n.held = worker[w].msg.held /\ BytesBack(0)
              \/ n.held = 0 /\ BytesBack(worker[w].msg.held)
<1> DEFINE msg == worker[w].msg
           e == EntryOf(msg)
<1>1. PICK reading \in Readings(e) :
        /\ worker' = [worker EXCEPT ![w] =
             [at |-> "send", msg |-> [idx |-> msg.idx, res |-> Converted(e, reading),
                                      held |-> Carried(msg, Converted(e, reading))]]]
        /\ IF Converted(e, reading) # "done" /\ msg.held > 0 THEN Release(msg.held) ELSE Untouched
  BY Zenon DEF Process
<1> DEFINE res == Converted(e, reading)
           n == [idx |-> msg.idx, res |-> res, held |-> Carried(msg, res)]
<1>2. /\ res \in {"done", "skipped", "soft", "hard"}
      /\ res = "soft" => e.kind = "segment" /\ e.index # 0
      /\ res = "skipped" /\ e.kind = "segment" => e.index = 0
  BY Zenon, ProcessResult
<1>3. msg \in Message /\ Capacity \in Nat
  BY PipelineAssumption DEF PipeInv, TypeOK
<1>4. msg.idx \in Nat /\ msg.held \in 0..Capacity /\ msg.held \in Nat
  BY <1>3 DEF Message
<1> HIDE DEF msg, res
<1>5. Carried(msg, res) = IF res = "done" THEN msg.held ELSE 0
  BY Zenon DEF Carried
<1>6. n \in Message
  BY <1>2, <1>3, <1>4, <1>5 DEF Message
<1>7. n.idx = msg.idx /\ n.res = res /\ n.held = Carried(msg, res)
  OBVIOUS
<1>8. EntryOf(n) = e
  BY Zenon, <1>7 DEF EntryOf
<1>9. (n.held = msg.held /\ BytesBack(0)) \/ (n.held = 0 /\ BytesBack(msg.held))
  <2>1. CASE res # "done" /\ msg.held > 0
    <3>1. Release(msg.held)
      BY Zenon, <1>1, <2>1 DEF res
    <3> QED BY Zenon, <1>4, <1>5, <1>7, <2>1, <3>1, ReleaseReturns DEF PipeInv
  <2>2. CASE ~(res # "done" /\ msg.held > 0)
    <3>1. Untouched
      BY Zenon, <1>1, <2>2 DEF res
    <3>2. Carried(msg, res) = msg.held
      BY <1>4, <1>5, <2>2
    <3> QED BY Zenon, <1>7, <3>1, <3>2, UntouchedReturns DEF PipeInv
  <2> QED BY Zenon, <2>1, <2>2
<1>10. worker' = [worker EXCEPT ![w] = [at |-> "send", msg |-> n]]
  BY Zenon, <1>1 DEF res
<1>11. n.held # 0 => n.res = "done"
  BY Zenon, <1>5, <1>7
<1> HIDE DEF n, e
<1> QED BY Zenon, <1>2, <1>6, <1>7, <1>8, <1>9, <1>10, <1>11 DEF msg

\* Process: BudgetGuard returns the bytes of an entry that failed, and only those.
LEMMA ProcessKeeps ==
  ASSUME PipeInv, NEW w \in Workers, Process(w)
  PROVE  PipeInv'
<1> DEFINE m == worker[w].msg
<1>1. worker[w].at = "busy"
  BY Zenon DEF Process
<1>2. UNCHANGED <<source, seq, grant, work, results, rxOpen, consumer, consumerVars, err, shutdown>>
  BY Zenon DEF Process
<1>3. UNCHANGED <<next, pending, accum, toSkip, stream, errors>> /\ Walk' = Walk
  BY Zenon, <1>2, SameWalk DEF consumerVars
<1>4. PICK n \in Message :
           /\ worker' = [worker EXCEPT ![w] = [at |-> "send", msg |-> n]]
           /\ n.idx = m.idx
           /\ n.res \in {"done", "skipped", "soft", "hard"}
           /\ n.res = "soft" => EntryOf(n).kind = "segment" /\ EntryOf(n).index # 0
           /\ n.res = "skipped" /\ EntryOf(n).kind = "segment" => EntryOf(n).index = 0
           /\ n.held # 0 => n.res = "done"
           /\ (n.held = m.held /\ BytesBack(0)) \/ (n.held = 0 /\ BytesBack(m.held))
  BY Zenon, ProcessMessage
<1>5. /\ worker \in [Workers -> [at : {"recv", "busy", "send", "gone"}, msg : Message]]
  BY Zenon DEF PipeInv, TypeOK
<1>6. /\ worker' \in [Workers -> [at : {"recv", "busy", "send", "gone"}, msg : Message]]
      /\ worker'[w].at = "send" /\ worker'[w].msg = n /\ \A v \in Workers \ {w} : worker'[v] = worker[v]
  BY <1>4, <1>5
<1>7. Woken /\ budget' \in [available : 0..Capacity, poisoned : BOOLEAN] /\ budget'.poisoned = budget.poisoned
  BY Zenon, <1>4 DEF BytesBack
<1>8. TypeOK'
  BY Zenon, <1>2, <1>3, <1>6, <1>7 DEF TypeOK, PipeInv, Woken
<1>9. SegmentsInOrder' /\ (Running' <=> Running)
  BY Zenon, <1>2, ConsumerFrame DEF PipeInv
<1>10. Active' = Active /\ w \in Active
  <2>1. "busy" \in {"busy", "send"} /\ "send" \in {"busy", "send"}
    OBVIOUS
  <2>2. w \in Active /\ w \in Active'
    BY Zenon, <1>1, <1>6, <2>1 DEF Active
  <2>3. \A v \in Workers \ {w} : v \in Active <=> v \in Active'
    BY Zenon, <1>6 DEF Active
  <2>4. Active \subseteq Workers /\ Active' \subseteq Workers
    BY Zenon DEF Active
  <2>5. \A v : v \in Active <=> v \in Active'
    BY Zenon, <2>2, <2>3, <2>4
  <2> QED BY Zenon, <2>2, <2>5
<1>11. ThreadsInv'
  <2>1. \A v \in Workers \ Active : worker'[v] = worker[v]
    BY Zenon, <1>6, <1>10
  <2> QED BY Zenon, <1>2, <1>3, <1>7, <1>10, <2>1 DEF PipeInv, ThreadsInv, Woken
<1>12. ASSUME Running' PROVE RunInv'
  <2>1. QueueInv /\ PlacesInv /\ ProcessedInv /\ FlowInv /\ AccumInv /\ HoldInv /\ Balance
    BY Zenon, <1>9, <1>12 DEF PipeInv, RunInv
  <2>2. QueueInv' /\ AccumInv' /\ Taken' = Taken
    BY Zenon, <1>2, <1>3, <2>1, QueueFrame, AccumFrame
  <2>3. PlacesInv'
    <3>1. Delivered' = Delivered
      BY Zenon, <1>2 DEF Delivered
    <3>2. \A v \in Active : worker'[v].msg.idx = worker[v].msg.idx
      BY Zenon, <1>4, <1>6 DEF Active
    <3> QED BY Zenon, <1>2, <1>3, <1>10, <2>1, <2>2, <3>1, <3>2, PlacesSame
  <2>4. ProcessedInv'
    <3>1. \A x : Processed(x)' <=> Processed(x)
      BY Zenon, <1>3 DEF Processed, EntryOf
    <3>2. Processed(n)
      BY Zenon, <1>4 DEF Processed
    <3>3. \A v \in Workers : worker'[v].at = "send" => Processed(worker'[v].msg)
      BY Zenon, <1>6, <2>1, <3>2 DEF ProcessedInv
    <3> QED BY Zenon, <1>2, <1>3, <2>1, <3>1, <3>3 DEF ProcessedInv, Processed, EntryOf
  <2>5. FlowInv'
    <3>1. InPending' = InPending /\ "busy" # "gone" /\ "send" # "gone"
      BY Zenon, <1>3 DEF InPending
    <3>2. \A v \in Workers : worker'[v].at = "gone" => worker[v].at = "gone"
      BY Zenon, <1>6, <3>1
    <3> QED BY Zenon, <1>2, <1>3, <1>7, <2>1, <3>1, <3>2 DEF FlowInv, Woken
  <2>6. /\ m \in InFlight /\ n \in InFlight'
        /\ \A x \in InFlight : x \in InFlight' \/ x = m
        /\ \A x \in InFlight' : x \in InFlight \/ x = n
    <3>1. m \in InFlight /\ n \in InFlight'
      BY Zenon, <1>6 DEF InFlight
    <3>2. \A v \in Workers : worker[v].msg \in InFlight' \/ worker[v].msg = m
      BY Zenon, <1>6 DEF InFlight
    <3>3. \A v \in Workers : worker'[v].msg \in InFlight \/ worker'[v].msg = n
      BY Zenon, <1>6 DEF InFlight
    <3> QED BY Zenon, <1>2, <1>3, <3>1, <3>2, <3>3 DEF InFlight, Range
  <2> HIDE DEF m
  <2>7. HoldInv'
    <3>1. EntryOf(n) = EntryOf(m)
      BY Zenon, <1>4 DEF EntryOf
    <3>2. n.held # 0 => EntryOf(n).kind \in {"file", "segment"}
      BY Zenon, <1>4, <2>1, <2>6, <3>1 DEF HoldInv
    <3> QED BY Zenon, <1>2, <1>3, <2>1, <2>6, <3>2 DEF HoldInv, EntryOf
  <2>8. Balance'
    <3>0. /\ IsFiniteSet(Held) /\ Cardinality(Held) \in Nat /\ Capacity \in Nat /\ grant \in Nat
          /\ budget \in [available : 0..Capacity, poisoned : BOOLEAN] /\ m.held \in 0..Capacity
      <4>1. IsFiniteSet(Held) /\ Cardinality(Held) \in Nat /\ Capacity \in Nat /\ m.held \in 0..Capacity
        BY Zenon, <2>1, <2>6, HeldFinite, MessageType DEF PipeInv
      <4>2. grant \in 0..Capacity
        BY Zenon DEF PipeInv, TypeOK
      <4> QED BY <4>1, <4>2 DEF PipeInv, TypeOK
    <3>1. CASE n.held = m.held /\ BytesBack(0)
      <4>1. Held' = Held
        BY Zenon, <1>4, <2>6, <3>1, HeldMoved
      <4>2. budget'.available = budget.available
        BY <3>0, <3>1 DEF BytesBack
      <4> QED BY Zenon, <1>2, <2>1, <4>1, <4>2 DEF Balance
    <3>2. CASE n.held = 0 /\ BytesBack(m.held)
      <4>1. \A x \in InFlight : x.idx = m.idx => x = m \/ x.held = 0
        <5>1. ASSUME NEW x \in InFlight, x.idx = m.idx, x.held # 0 PROVE x = m
          <6>1. x \in {worker[v].msg : v \in Workers}
            BY Zenon, <1>10, <2>1, <5>1, OnlyAtWorker DEF PipeInv, m, InFlight
          <6> QED BY Zenon, <1>10, <2>1, <5>1, <6>1, OnlyAtWorker DEF PipeInv, m
        <5> QED BY Zenon, <5>1
      <4>2. \A x \in InFlight' : x.idx = m.idx => x.held = 0
        <5>1. ASSUME NEW x \in InFlight', x.idx = m.idx, x.held # 0 PROVE FALSE
          <6>1. x \notin Range(work') /\ x \notin Range(results') /\ x \notin pending'
            BY Zenon, <1>2, <1>3, <1>10, <2>1, <5>1, OnlyAtWorker DEF PipeInv, m
          <6>2. PICK v \in Workers : x = worker'[v].msg
            BY Zenon, <6>1 DEF InFlight
          <6>3. v # w
            BY Zenon, <1>6, <3>2, <5>1, <6>2
          <6>4. x = worker[v].msg
            BY Zenon, <1>6, <6>2, <6>3
          <6> QED BY Zenon, <1>10, <2>1, <5>1, <6>3, <6>4, OnlyAtWorker DEF PipeInv, m
        <5> QED BY Zenon, <5>1
      <4>3. Cardinality(Held') = Cardinality(Held) - m.held /\ m.held <= Cardinality(Held)
        BY Zenon, <1>4, <2>6, <3>0, <4>1, <4>2, HeldDrops DEF PipeInv
      <4>4. budget.available + m.held <= Capacity
        BY <2>1, <3>0, <4>3 DEF Balance
      <4>5. budget'.available = budget.available + m.held
        BY Zenon, <3>2, <4>4 DEF BytesBack
      <4> QED BY <1>2, <2>1, <3>0, <4>3, <4>5 DEF Balance
    <3> QED BY Zenon, <1>4, <3>1, <3>2
  <2> QED BY Zenon, <2>2, <2>3, <2>4, <2>5, <2>7, <2>8 DEF RunInv
<1> QED BY Zenon, <1>8, <1>9, <1>11, <1>12 DEF PipeInv

\* Deliver: the result enters the result channel, or the worker ends.
LEMMA DeliverKeeps ==
  ASSUME PipeInv, NEW w \in Workers, Deliver(w)
  PROVE  PipeInv'
<1> DEFINE m == worker[w].msg
<1>1. /\ worker[w].at = "send"
      /\ \/ /\ rxOpen /\ Len(results) < ResultCap /\ results' = Append(results, m)
            /\ worker' = [worker EXCEPT ![w] = [at |-> "recv", msg |-> Idle]]
         \/ /\ ~rxOpen /\ UNCHANGED results
            /\ worker' = [worker EXCEPT ![w] = [at |-> "gone", msg |-> Idle]]
  BY Zenon DEF Deliver
<1>2. UNCHANGED <<walkVars, budget, work, rxOpen, consumer, consumerVars, err, shutdown>>
  BY Zenon DEF Deliver
<1>3. UNCHANGED <<source, seq, walker, grant, next, pending, accum, toSkip, stream, errors>> /\ Walk' = Walk
  BY Zenon, <1>2, SameWalk DEF consumerVars, walkVars
<1>4. /\ worker \in [Workers -> [at : {"recv", "busy", "send", "gone"}, msg : Message]] /\ Idle \in Message
      /\ results \in Seq(Message) /\ Len(results) <= ResultCap /\ ResultCap \in Nat /\ m \in Message
  BY PipelineAssumption, Caps DEF PipeInv, TypeOK, Idle, Message
<1>5. /\ results' \in Seq(Message) /\ Len(results') <= ResultCap
      /\ worker' \in [Workers -> [at : {"recv", "busy", "send", "gone"}, msg : Message]]
      /\ worker'[w].at \in {"recv", "gone"} /\ worker'[w].msg = Idle
      /\ \A v \in Workers \ {w} : worker'[v] = worker[v]
  <2>1. results' \in Seq(Message) /\ Len(results') <= ResultCap
    <3>1. CASE results' = Append(results, m) /\ Len(results) < ResultCap
      <4> HIDE DEF m
      <4> QED BY <1>4, <3>1
    <3>2. CASE results' = results
      BY Zenon, <1>4, <3>2
    <3> QED BY Zenon, <1>1, <3>1, <3>2
  <2>2. PICK at \in {"recv", "gone"} : worker' = [worker EXCEPT ![w] = [at |-> at, msg |-> Idle]]
    BY Zenon, <1>1
  <2> QED BY <1>4, <2>1, <2>2
<1>6. TypeOK'
  BY Zenon, <1>2, <1>3, <1>5 DEF TypeOK, PipeInv
<1>7. SegmentsInOrder' /\ (Running' <=> Running)
  BY Zenon, <1>2, ConsumerFrame DEF PipeInv
<1>8. ThreadsInv'
  <2>1. \A v \in Workers \ Active' : v = w \/ (v \in Workers \ Active /\ worker'[v] = worker[v])
    BY Zenon, <1>5 DEF Active
  <2>2. \A v \in Workers \ Active' : worker'[v].msg = Idle
    BY Zenon, <1>5, <2>1 DEF PipeInv, ThreadsInv
  <2> QED BY Zenon, <1>2, <1>3, <2>2 DEF PipeInv, ThreadsInv
<1>9. ASSUME Running' PROVE RunInv'
  <2>1. QueueInv /\ PlacesInv /\ ProcessedInv /\ FlowInv /\ AccumInv /\ HoldInv /\ Balance
    BY Zenon, <1>7, <1>9 DEF PipeInv, RunInv
  <2>2. QueueInv' /\ AccumInv' /\ Taken' = Taken
    BY Zenon, <1>2, <1>3, <2>1, QueueFrame, AccumFrame
  <2>3. results' = Append(results, m) /\ worker' = [worker EXCEPT ![w] = [at |-> "recv", msg |-> Idle]]
    BY Zenon, <1>1, <1>7, <1>9 DEF PipeInv, TypeOK, Running
  <2>4. Processed(m)
    BY Zenon, <1>1, <2>1 DEF ProcessedInv
  <2>5. m.res # "walk"
    BY <2>4 DEF Processed
  <2>6. PlacesInv'
    BY Zenon, <1>1, <1>2, <1>3, <2>1, <2>3, <2>5, DeliverPlaces DEF PipeInv
  <2>7. /\ DOMAIN results' = DOMAIN results \cup {Len(results) + 1} /\ Len(results) + 1 \notin DOMAIN results
        /\ results'[Len(results) + 1] = m /\ \A k \in DOMAIN results : results'[k] = results[k]
        /\ worker'[w].at = "recv"
    BY <1>4, <2>3
  <2> HIDE DEF m
  <2>8. ProcessedInv'
    <3>1. \A k \in DOMAIN results' :
            IF results'[k].res = "walk" THEN results'[k].held = 0 ELSE Processed(results'[k])
      BY Zenon, <2>1, <2>4, <2>5, <2>7 DEF ProcessedInv
    <3>2. \A x : Processed(x)' <=> Processed(x)
      BY Zenon, <1>3 DEF Processed, EntryOf
    <3>3. \A v \in Workers : worker'[v].at = "send" => worker'[v] = worker[v]
      BY Zenon, <1>5
    <3>4. \A v \in Workers : worker'[v].at = "send" => Processed(worker'[v].msg)
      BY Zenon, <2>1, <3>3 DEF ProcessedInv
    <3> QED BY Zenon, <1>3, <2>1, <3>1, <3>2, <3>4 DEF ProcessedInv, Processed, EntryOf
  <2>9. Balance' /\ HoldInv'
    <3>1. Range(results') = Range(results) \cup {m}
      <4>1. DOMAIN results' = DOMAIN results \cup {Len(results) + 1} /\ results'[Len(results) + 1] = m
        BY Zenon, <2>7
      <4>2. \A k \in DOMAIN results : results'[k] = results[k]
        BY Zenon, <2>7
      <4> QED BY Zenon, <4>1, <4>2 DEF Range
    <3>2. Idle.held = 0
      BY DEF Idle
    <3>3. \A v \in Workers : worker'[v].msg \in InFlight \/ worker'[v].msg = Idle
      BY Zenon, <1>5 DEF InFlight
    <3>4. \A v \in Workers : worker[v].msg \in InFlight'
      <4>1. m \in InFlight'
        BY Zenon, <3>1 DEF InFlight
      <4> QED BY Zenon, <1>5, <4>1 DEF InFlight, m
    <3>5. \A x \in InFlight' : x \in InFlight \/ x.held = 0
      <4>1. m \in InFlight
        BY Zenon DEF InFlight, m
      <4> QED BY Zenon, <1>2, <1>3, <3>1, <3>2, <3>3, <4>1 DEF InFlight, Range
    <3>6. \A x \in InFlight : x \in InFlight'
      BY Zenon, <1>2, <1>3, <3>1, <3>4 DEF InFlight, Range
    <3>7. Held' = Held
      BY Zenon, <3>5, <3>6, HeldSame
    <3>8. HoldInv'
      BY Zenon, <1>3, <2>1, <3>5, HoldFrame
    <3> QED BY Zenon, <1>2, <1>3, <2>1, <3>7, <3>8 DEF Balance
  <2>10. FlowInv'
    <3>1. InPending' = InPending /\ "recv" # "gone"
      BY Zenon, <1>3 DEF InPending
    <3>2. \A v \in Workers : worker'[v].at = "gone" => worker[v].at = "gone"
      BY Zenon, <1>5, <2>7, <3>1
    <3>3. (\E k \in DOMAIN results : results[k].res = "walk") => \E k \in DOMAIN results' : results'[k].res = "walk"
      BY Zenon, <2>7
    <3> QED BY Zenon, <1>2, <1>3, <2>1, <3>1, <3>2, <3>3 DEF FlowInv
  <2> QED BY Zenon, <2>2, <2>6, <2>8, <2>9, <2>10 DEF RunInv
<1> QED BY Zenon, <1>6, <1>7, <1>8, <1>9 DEF PipeInv

\* The types, after the consumer has given up.
LEMMA GiveUpTypes ==
  ASSUME TypeOK, NEW cause \in Causes, GiveUp(cause)
  PROVE  /\ Woken /\ budget' \in [available : 0..Capacity, poisoned : BOOLEAN]
         /\ err' \in Causes /\ consumer' = "close"
         /\ consumer' \in {"recv", "drain", "append", "close", "closed"} /\ consumer' # "closed"
<1>1. budget' = [budget EXCEPT !.poisoned = TRUE] /\ Notify /\ err' = cause /\ consumer' = "close"
  BY Zenon DEF GiveUp, Poison
<1>2. "close" \in {"recv", "drain", "append", "close", "closed"} /\ "close" # "closed"
  OBVIOUS
<1> QED BY Zenon, <1>1, <1>2, PoisonType, NotifyWakes

\* The consumer gives up.
LEMMA GiveUpKeeps ==
  ASSUME PipeInv, TypeOK', NEW cause \in {"interrupted", "walk", "worker", "commit"}, GiveUp(cause),
         UNCHANGED <<source, seq, grant, worker, shutdown>>
  PROVE  PipeInv'
<1>1. cause \in Causes /\ cause \notin {"none", "nested", "orphan", "mismatch", "incomplete"}
  BY DEF Causes
<1>2. Woken /\ err' = cause /\ consumer' = "close"
  BY Zenon, <1>1, GiveUpTypes DEF PipeInv, GiveUp
<1>3. "close" \notin {"recv", "drain", "append"}
  OBVIOUS
<1>4. Walk' = Walk /\ Active' = Active
  BY Zenon, SameWalk DEF Active
<1>5. ThreadsInv'
  BY Zenon, <1>2, <1>3, <1>4 DEF PipeInv, ThreadsInv, Woken
<1>6. SegmentsInOrder'
  BY Zenon, <1>1, <1>2 DEF SegmentsInOrder
<1>7. ~Running'
  BY Zenon, <1>1, <1>2 DEF Running
<1> QED BY Zenon, <1>5, <1>6, <1>7 DEF PipeInv

\* ReceiveResult.
LEMMA ReceiveKeeps ==
  ASSUME PipeInv, ReceiveResult
  PROVE  PipeInv'
<1> DEFINE m == Head(results)
<1>1. /\ consumer = "recv" /\ results # << >> /\ results' = Tail(results)
      /\ \/ GiveUp("interrupted") /\ UNCHANGED pending
         \/ GiveUp("walk") /\ UNCHANGED pending
         \/ /\ ~shutdown /\ m.res # "walk" /\ pending' = pending \cup {m}
            /\ consumer' = "drain" /\ Untouched /\ UNCHANGED err
  BY Zenon DEF ReceiveResult
<1>2. UNCHANGED <<source, seq, grant, work, worker, rxOpen, next, accum, toSkip, stream, errors, shutdown>>
      /\ Walk' = Walk
  BY Zenon, SameWalk DEF ReceiveResult
<1>3. results \in Seq(Message) /\ Len(results) \in Nat /\ Len(results) <= ResultCap /\ ResultCap \in Nat
  BY Caps DEF PipeInv, TypeOK
<1>4. /\ results' \in Seq(Message) /\ Len(results') <= ResultCap /\ m \in Message
      /\ 1 \in DOMAIN results /\ m = results[1]
      /\ \A k \in DOMAIN results' : k + 1 \in DOMAIN results /\ results'[k] = results[k + 1]
      /\ \A k \in DOMAIN results : k # 1 => k - 1 \in DOMAIN results' /\ results'[k - 1] = results[k]
  BY <1>1, <1>3
<1> HIDE DEF m
<1>5. rxOpen
  <2>1. "recv" # "closed"
    OBVIOUS
  <2> QED BY Zenon, <1>1, <2>1 DEF PipeInv, TypeOK
<1>6. ASSUME NEW cause \in {"interrupted", "walk"}, GiveUp(cause), UNCHANGED pending PROVE PipeInv'
  <2>0. cause \in Causes /\ cause \in {"interrupted", "walk", "worker", "commit"}
    BY Zenon, <1>6 DEF Causes
  <2>1. /\ Woken /\ budget' \in [available : 0..Capacity, poisoned : BOOLEAN]
        /\ err' \in Causes /\ consumer' \in {"recv", "drain", "append", "close", "closed"} /\ consumer' # "closed"
    BY Zenon, <1>6, <2>0, GiveUpTypes DEF PipeInv
  <2>2. TypeOK'
    BY Zenon, <1>2, <1>4, <1>5, <1>6, <2>1 DEF PipeInv, TypeOK, Woken
  <2> QED BY Zenon, <1>2, <1>6, <2>0, <2>2, GiveUpKeeps
<1>7. ASSUME m.res # "walk", pending' = pending \cup {m}, consumer' = "drain", Untouched, UNCHANGED err
      PROVE  PipeInv'
  <2>1. budget' = budget /\ walker' = walker
    BY Zenon, <1>7 DEF Untouched
  <2>2. TypeOK'
    <3>1. "drain" \in {"recv", "drain", "append", "close", "closed"} /\ "drain" # "closed"
      OBVIOUS
    <3>2. pending' \subseteq Message
      BY Zenon, <1>4, <1>7 DEF PipeInv, TypeOK
    <3> QED BY Zenon, <1>2, <1>4, <1>5, <1>7, <2>1, <3>1, <3>2 DEF PipeInv, TypeOK
  <2>3. SegmentsInOrder'
    BY Zenon, <1>2, <1>7 DEF PipeInv, SegmentsInOrder
  <2>4. err = "none" /\ Running
    <3>1. "recv" \in {"recv", "drain", "append"} /\ "recv" # "closed"
      OBVIOUS
    <3> QED BY Zenon, <1>1, <3>1 DEF PipeInv, ThreadsInv, Running
  <2>5. ThreadsInv'
    <3>1. Active' = Active
      BY Zenon, <1>2 DEF Active
    <3> QED BY Zenon, <1>2, <1>7, <2>1, <2>4, <3>1 DEF PipeInv, ThreadsInv
  <2>6. QueueInv /\ PlacesInv /\ ProcessedInv /\ FlowInv /\ AccumInv /\ HoldInv /\ Balance
    BY Zenon, <2>4 DEF PipeInv, RunInv
  <2>7. QueueInv' /\ PlacesInv'
    BY Zenon, <1>1, <1>2, <1>7, <2>6, QueueFrame, ReceivePlaces DEF PipeInv, m
  <2>8. ProcessedInv'
    <3>1. \A x : Processed(x)' <=> Processed(x)
      BY Zenon, <1>2 DEF Processed, EntryOf
    <3>2. Processed(m)
      BY Zenon, <1>4, <1>7, <2>6 DEF ProcessedInv
    <3>3. \A k \in DOMAIN results' :
            IF results'[k].res = "walk" THEN results'[k].held = 0 ELSE Processed(results'[k])
      <4>1. ASSUME NEW k \in DOMAIN results' PROVE results'[k].res = "walk" => results'[k].held = 0
        BY Zenon, <1>4, <2>6 DEF ProcessedInv
      <4>2. ASSUME NEW k \in DOMAIN results' PROVE results'[k].res # "walk" => Processed(results'[k])
        BY Zenon, <1>4, <2>6 DEF ProcessedInv
      <4> QED BY Zenon, <4>1, <4>2
    <3> QED BY Zenon, <1>2, <1>7, <2>6, <3>1, <3>2, <3>3 DEF ProcessedInv, Processed, EntryOf
  <2>9. FlowInv'
    <3>1. "drain" # "recv"
      OBVIOUS
    <3>2. (\E k \in DOMAIN results : results[k].res = "walk") => \E k \in DOMAIN results' : results'[k].res = "walk"
      BY Zenon, <1>4, <1>7
    <3> QED BY Zenon, <1>2, <1>7, <2>1, <2>6, <3>1, <3>2 DEF FlowInv
  <2>10. AccumInv'
    <3>1. "drain" # "close" /\ "recv" \in {"recv", "drain"}
      OBVIOUS
    <3> QED BY Zenon, <1>1, <1>2, <1>7, <2>6, <3>1 DEF AccumInv, Inside
  <2>11. InFlight' = InFlight
    <3>1. ASSUME NEW x \in Range(results) PROVE x \in Range(results') \cup {m}
      <4>1. PICK k \in DOMAIN results : x = results[k]
        BY Zenon DEF Range
      <4>2. k # 1 => k - 1 \in DOMAIN results' /\ results'[k - 1] = x
        BY Zenon, <1>4, <4>1
      <4> QED BY Zenon, <1>4, <4>1, <4>2 DEF Range
    <3>2. ASSUME NEW x \in Range(results') \cup {m} PROVE x \in Range(results)
      <4>1. m \in Range(results)
        BY Zenon, <1>4 DEF Range
      <4>2. ASSUME x \in Range(results') PROVE x \in Range(results)
        <5>1. PICK k \in DOMAIN results' : x = results'[k]
          BY Zenon, <4>2 DEF Range
        <5> QED BY Zenon, <1>4, <5>1 DEF Range
      <4> QED BY Zenon, <4>1, <4>2
    <3>3. \A x : x \in InFlight' <=> x \in InFlight
      BY Zenon, <1>2, <1>7, <3>1, <3>2 DEF InFlight
    <3> QED BY Zenon, <3>3
  <2>12. HoldInv' /\ Balance'
    <3>1. Held' = Held
      BY Zenon, <2>11, HeldSame
    <3>2. HoldInv'
      BY Zenon, <1>2, <2>6, <2>11, HoldFrame
    <3> QED BY Zenon, <1>2, <2>1, <2>6, <3>1, <3>2 DEF Balance
  <2> QED BY Zenon, <2>2, <2>3, <2>5, <2>7, <2>8, <2>9, <2>10, <2>12 DEF PipeInv, RunInv
<1> QED BY Zenon, <1>1, <1>6, <1>7

\* The entry whose turn it is leaves the reorder buffer.
LEMMA Removal ==
  ASSUME PipeInv, Running, NEW m \in Turn, RemovePending(m),
         UNCHANGED <<source, seq, grant, work, worker, results>>
  PROVE  /\ QueueInv' /\ PlacesInv' /\ ProcessedInv' /\ HoldInv'
         /\ next' = next + 1 /\ next' \in 1..Len(Walk) /\ EntryOf(m) = Walk[next + 1]
         /\ EntryOf(m) \in Entries /\ Processed(m)
         /\ m.held \in Nat
         /\ m.held # 0 => EntryOf(m).kind \in {"file", "segment"}
         /\ Cardinality(Held) \in Nat /\ Cardinality(Held') = Cardinality(Held) - m.held
         /\ m.held <= Cardinality(Held) /\ pending' \subseteq Message
<1>1. QueueInv /\ PlacesInv /\ ProcessedInv /\ FlowInv /\ AccumInv /\ HoldInv /\ Balance
  BY Zenon DEF PipeInv, RunInv
<1>2. /\ m \in pending /\ m.idx = next /\ pending' = pending \ {m} /\ next' = next + 1 /\ Walk' = Walk
  BY Zenon, SameWalk DEF Turn, RemovePending
<1>3. QueueInv' /\ Taken' = Taken /\ PlacesInv' /\ next < Taken
  BY Zenon, <1>1, <1>2, QueueFrame, RemovePlaces DEF PipeInv
<1>4. ProcessedInv' /\ Processed(m)
  <2>1. \A x : Processed(x)' <=> Processed(x)
    BY Zenon, <1>2 DEF Processed, EntryOf
  <2>2. Processed(m)
    BY Zenon, <1>1, <1>2 DEF ProcessedInv
  <2>3. pending' \subseteq pending
    BY Zenon, <1>2
  <2>4. \A x \in pending' : Processed(x)
    BY Zenon, <1>1, <2>3 DEF ProcessedInv
  <2> QED BY Zenon, <1>1, <1>2, <2>1, <2>2, <2>4 DEF ProcessedInv, Processed, EntryOf
<1>5. next' \in 1..Len(Walk) /\ EntryOf(m) = Walk[next + 1]
  <2>1. next \in Nat /\ seq \in Nat /\ Len(work) \in Nat /\ Len(Walk) \in Nat /\ seq <= Len(Walk)
    BY WalkIsShape DEF PipeInv, TypeOK
  <2> QED BY <1>2, <1>3, <2>1 DEF Taken, EntryOf
<1>6. EntryOf(m) \in Entries
  BY Zenon, <1>2, <1>5, WalkIsShape DEF PipeInv
<1>7. /\ m \in InFlight
      /\ \A x \in InFlight : x \in InFlight' \/ x = m
      /\ \A x \in InFlight' : x \in InFlight
  BY Zenon, <1>2 DEF InFlight, Range
<1>8. HoldInv'
  BY Zenon, <1>1, <1>7, HoldFrame
<1>9. m.held # 0 => EntryOf(m).kind \in {"file", "segment"}
  BY Zenon, <1>1, <1>7 DEF HoldInv
<1>10. m.held \in Nat /\ IsFiniteSet(Held) /\ Cardinality(Held) \in Nat
  <2>1. m.held \in 0..Capacity /\ Capacity \in Nat
    BY Zenon, <1>7, MessageType DEF PipeInv
  <2>2. m.held \in Nat
    BY <2>1
  <2> QED BY Zenon, <1>1, <2>2, HeldFinite DEF PipeInv
<1>11. Cardinality(Held') = Cardinality(Held) - m.held /\ m.held <= Cardinality(Held)
  <2>1. ASSUME NEW x \in InFlight, x.idx = m.idx, x.held # 0 PROVE x = m
    BY Zenon, <1>1, <1>2, <2>1, OnlyPending DEF PipeInv, InFlight
  <2>2. ASSUME NEW x \in InFlight', x.idx = m.idx, x.held # 0 PROVE FALSE
    <3>1. x = m
      BY Zenon, <1>7, <2>1, <2>2
    <3>2. x \notin Range(work) /\ x \notin Range(results) /\ x \notin {worker[v].msg : v \in Workers}
      BY Zenon, <1>1, <1>2, <2>2, OnlyPending DEF PipeInv
    <3>3. x \in pending'
      BY Zenon, <3>2 DEF InFlight
    <3> QED BY Zenon, <1>2, <3>1, <3>3
  <2> QED BY Zenon, <1>7, <1>10, <2>1, <2>2, HeldDrops DEF PipeInv
<1>12. pending' \subseteq Message
  BY Zenon, <1>2 DEF PipeInv, TypeOK
<1> QED BY Zenon, <1>2, <1>3, <1>4, <1>5, <1>6, <1>8, <1>9, <1>10, <1>11, <1>12

\* It takes its bytes along.
LEMMA RemovalRuns ==
  ASSUME PipeInv, Running, NEW m \in Turn, RemovePending(m), BytesBack(m.held), consumer' # "recv",
         UNCHANGED <<source, seq, grant, work, worker, results, shutdown>>
  PROVE  QueueInv' /\ PlacesInv' /\ ProcessedInv' /\ HoldInv' /\ FlowInv' /\ Balance'
<1>1. FlowInv /\ Balance
  BY Zenon DEF PipeInv, RunInv
<1>2. /\ QueueInv' /\ PlacesInv' /\ ProcessedInv' /\ HoldInv'
      /\ m.held \in Nat /\ Cardinality(Held) \in Nat /\ Cardinality(Held') = Cardinality(Held) - m.held
      /\ m.held <= Cardinality(Held) /\ Walk' = Walk
  BY Zenon, Removal, SameWalk
<1>3. FlowInv'
  BY Zenon, <1>1, <1>2 DEF FlowInv, BytesBack, Woken
<1>4. Capacity \in Nat /\ grant \in Nat /\ budget.available \in Nat
  BY PipelineAssumption DEF PipeInv, TypeOK
<1>5. budget.available + m.held <= Capacity
  BY <1>1, <1>2, <1>4 DEF Balance
<1>6. budget'.available = budget.available + m.held
  BY Zenon, <1>5 DEF BytesBack
<1>7. Balance'
  BY <1>1, <1>2, <1>4, <1>6 DEF Balance
<1> QED BY Zenon, <1>2, <1>3, <1>7

\* What the consumer relies on at the entry whose turn it is.
LEMMA AtTurn ==
  ASSUME PipeInv, Running, consumer = "drain", next + 1 \in 1..Len(Walk), NEW e, e = Walk[next + 1]
  PROVE  /\ Inside(next) => /\ next > 0 /\ e.kind = "segment" /\ e.index = Walk[next].index + 1
                            /\ e.name = Walk[next].name /\ e.count = Walk[next].count
                            /\ Walk[next].index \in Nat
         /\ e.kind = "segment" /\ e.index # 0 => Inside(next)
         /\ Inside(next + 1) <=> e.kind = "segment" /\ e.index + 1 < e.count
         /\ e.kind = "segment" => e.index < e.count
         /\ e.index \in Nat /\ e.count \in Nat
<1>1. Shape(Walk) /\ Len(Walk) \in Nat /\ \A k \in 1..Len(Walk) : Walk[k] \in Entries
  BY Zenon, WalkIsShape DEF PipeInv
<1>2. next \in Nat /\ next + 1 > 0 /\ (next + 1) - 1 = next
  BY DEF PipeInv, TypeOK
<1>3. e \in Entries
  BY Zenon, <1>1
<1>4. e.index \in Nat /\ e.count \in Nat
  BY <1>3 DEF Entries
<1>5. Inside(next + 1) <=> e.kind = "segment" /\ e.index + 1 < e.count
  BY Zenon, <1>2 DEF Inside
<1>6. e.kind = "segment" => e.index < e.count
  BY Zenon, <1>1 DEF Shape
<1>7. ASSUME Inside(next)
      PROVE  /\ next > 0 /\ e.kind = "segment" /\ e.index = Walk[next].index + 1
             /\ e.name = Walk[next].name /\ e.count = Walk[next].count /\ Walk[next].index \in Nat
  <2>1. next > 0 /\ Walk[next].kind = "segment" /\ Walk[next].index + 1 < Walk[next].count
    BY Zenon, <1>7 DEF Inside
  <2>2. next \in 1..Len(Walk)
    BY <1>1, <1>2, <2>1
  <2>3. Follows(Walk[next], e)
    BY Zenon, <1>1, <2>1, <2>2 DEF Shape
  <2>4. Walk[next] \in Entries
    BY Zenon, <1>1, <2>2
  <2>5. Walk[next].index \in Nat
    BY <2>4 DEF Entries
  <2> QED BY Zenon, <2>1, <2>3, <2>5 DEF Follows
<1>8. ASSUME e.kind = "segment", e.index # 0 PROVE Inside(next)
  <2>1. e.index > 0
    BY <1>4, <1>8
  <2>2. next + 1 > 1 /\ Follows(Walk[(next + 1) - 1], Walk[next + 1])
    BY Zenon, <1>1, <1>8, <2>1 DEF Shape
  <2>3. Follows(Walk[next], e) /\ next > 0
    BY <1>2, <2>2
  <2>4. Walk[next].kind = "segment" /\ e.index = Walk[next].index + 1 /\ e.count = Walk[next].count
    BY Zenon, <2>3 DEF Follows
  <2> QED BY Zenon, <1>6, <1>8, <2>3, <2>4 DEF Inside
<1> QED BY Zenon, <1>4, <1>5, <1>6, <1>7, <1>8

\* While the consumer drains, nothing has failed.
LEMMA DrainRuns ==
  ASSUME PipeInv, consumer = "drain"
  PROVE  Running /\ rxOpen /\ err = "none" /\ AccumInv
<1>1. "drain" \in {"recv", "drain", "append"} /\ "drain" # "closed"
  OBVIOUS
<1>2. Running /\ rxOpen /\ err = "none"
  BY Zenon, <1>1 DEF PipeInv, ThreadsInv, TypeOK, Running
<1> QED BY Zenon, <1>2 DEF PipeInv, RunInv

\* The types, after an entry was removed.
LEMMA RemovalTypes ==
  ASSUME PipeInv, consumer = "drain", NEW m \in Turn, RemovePending(m),
         UNCHANGED <<source, seq, grant, work, worker, results, rxOpen, shutdown>>, Woken,
         budget' \in [available : 0..Capacity, poisoned : BOOLEAN], toSkip' \in Nat, errors' \in Nat,
         err' \in Causes, consumer' \in {"drain", "append", "close"}
  PROVE  TypeOK'
<1>1. Running /\ rxOpen
  BY Zenon, DrainRuns
<1>2. next' \in 1..Len(Walk) /\ pending' \subseteq Message /\ Walk' = Walk
  BY Zenon, <1>1, Removal, SameWalk
<1>3. Len(Walk) \in Nat
  BY Zenon, WalkIsShape DEF PipeInv
<1>4. next' \in 0..Len(Walk)
  BY <1>2, <1>3
<1>5. consumer' \in {"recv", "drain", "append", "close", "closed"} /\ consumer' # "closed"
  OBVIOUS
<1> QED BY Zenon, <1>1, <1>2, <1>4, <1>5 DEF PipeInv, TypeOK, Woken

\* An entry that is consumed, whatever for, and takes its bytes along.
LEMMA RemovalKeeps ==
  ASSUME PipeInv, consumer = "drain", NEW m \in Turn, RemovePending(m), BytesBack(m.held),
         UNCHANGED <<source, seq, grant, work, worker, results, rxOpen, shutdown>>, UNCHANGED err,
         toSkip' \in Nat, errors' \in Nat, consumer' \in {"drain", "append"},
         consumer' = "drain" => AccumInv'
  PROVE  PipeInv'
<1>1. Running /\ err = "none" /\ consumer' # "recv" /\ consumer' # "close"
  BY Zenon, DrainRuns
<1>2. Woken /\ budget' \in [available : 0..Capacity, poisoned : BOOLEAN]
  BY Zenon DEF BytesBack
<1>3. err' \in Causes /\ consumer' \in {"drain", "append", "close"}
  BY Zenon DEF PipeInv, TypeOK
<1>4. TypeOK'
  BY Zenon, <1>2, <1>3, RemovalTypes
<1>5. Active' = Active /\ Walk' = Walk
  BY Zenon, SameWalk DEF Active
<1>6. ThreadsInv'
  BY Zenon, <1>1, <1>2, <1>5 DEF PipeInv, ThreadsInv, Woken
<1>7. SegmentsInOrder'
  BY Zenon DEF PipeInv, SegmentsInOrder
<1>8. QueueInv' /\ PlacesInv' /\ ProcessedInv' /\ HoldInv' /\ FlowInv' /\ Balance'
  <2>1. UNCHANGED <<source, seq, grant, work, worker, results, shutdown>>
    BY Zenon
  <2> QED BY Zenon, <1>1, <2>1, RemovalRuns
<1>9. AccumInv'
  <2>1. CASE consumer' = "drain"
    BY Zenon, <2>1
  <2>2. CASE consumer' = "append"
    <3>1. "append" # "close" /\ "append" \notin {"recv", "drain"}
      OBVIOUS
    <3> QED BY Zenon, <2>2, <3>1 DEF AccumInv
  <2> QED BY Zenon, <2>1, <2>2
<1> QED BY Zenon, <1>4, <1>6, <1>7, <1>8, <1>9 DEF PipeInv, RunInv

\* An entry on which the consumer gives up.
LEMMA RemovalStops ==
  ASSUME PipeInv, consumer = "drain", NEW m \in Turn, RemovePending(m),
         NEW cause \in {"worker", "commit"}, GiveUp(cause),
         UNCHANGED <<source, seq, grant, work, worker, results, rxOpen, shutdown>>,
         UNCHANGED <<toSkip, errors>>
  PROVE  PipeInv'
<1>1. cause \in Causes /\ cause \in {"interrupted", "walk", "worker", "commit"}
  BY Zenon DEF Causes
<1>2. /\ Woken /\ budget' \in [available : 0..Capacity, poisoned : BOOLEAN]
      /\ err' \in Causes /\ consumer' = "close"
  BY Zenon, <1>1, GiveUpTypes DEF PipeInv
<1>3. toSkip' \in Nat /\ errors' \in Nat
  BY Zenon DEF PipeInv, TypeOK
<1>4. TypeOK'
  BY Zenon, <1>2, <1>3, RemovalTypes
<1> QED BY Zenon, <1>1, <1>4, GiveUpKeeps

\* The accumulator fits the entry whose turn it is.
LEMMA Accumulated ==
  ASSUME PipeInv, consumer = "drain", NEW m \in Turn, next + 1 \in 1..Len(Walk), EntryOf(m) = Walk[next + 1],
         toSkip = 0
  PROVE  /\ EntryOf(m).kind # "segment" \/ EntryOf(m).index = 0 => accum = NoFile
         /\ EntryOf(m).kind = "segment" /\ EntryOf(m).index # 0 =>
              /\ accum # NoFile /\ accum.index = EntryOf(m).index
              /\ accum.name = EntryOf(m).name /\ accum.count = EntryOf(m).count
         /\ SegmentFault(EntryOf(m)) = "none"
<1> DEFINE e == EntryOf(m)
<1>1. Running /\ AccumInv
  BY Zenon, DrainRuns
<1>2. /\ accum # NoFile => /\ Inside(next) /\ accum.index = Walk[next].index + 1
                           /\ accum.name = Walk[next].name /\ accum.count = Walk[next].count
      /\ accum = NoFile => ~Inside(next)
  BY Zenon, <1>1 DEF AccumInv
<1> HIDE DEF e
<1>3. /\ Inside(next) => /\ e.kind = "segment" /\ e.index = Walk[next].index + 1
                         /\ e.name = Walk[next].name /\ e.count = Walk[next].count
                         /\ Walk[next].index \in Nat
      /\ e.kind = "segment" /\ e.index # 0 => Inside(next)
  BY Zenon, <1>1, AtTurn DEF e
<1>4. Inside(next) => e.index # 0
  BY <1>3
<1>5. /\ e.kind # "segment" \/ e.index = 0 => accum = NoFile
      /\ e.kind = "segment" /\ e.index # 0 =>
           accum # NoFile /\ accum.index = e.index /\ accum.name = e.name /\ accum.count = e.count
  BY Zenon, <1>2, <1>3, <1>4
<1>6. SegmentFault(e) = "none"
  <2>1. CASE e.kind # "segment"
    BY Zenon, <2>1 DEF SegmentFault
  <2>2. CASE e.kind = "segment" /\ e.index = 0
    <3>1. accum = NoFile
      BY Zenon, <1>5, <2>2
    <3> QED BY <2>2, <3>1 DEF SegmentFault
  <2>3. CASE e.kind = "segment" /\ e.index # 0
    <3>1. accum # NoFile /\ <<e.index, e.name, e.count>> = <<accum.index, accum.name, accum.count>>
      BY Zenon, <1>5, <2>3
    <3> QED BY <2>3, <3>1 DEF SegmentFault
  <2> QED BY Zenon, <2>1, <2>2, <2>3
<1> QED BY Zenon, <1>5, <1>6 DEF e

\* The entry whose turn it is, and its result.
LEMMA TurnFacts ==
  ASSUME PipeInv, consumer = "drain", NEW m \in Turn, RemovePending(m),
         UNCHANGED <<source, seq, grant, work, worker, results>>
  PROVE  /\ next + 1 \in 1..Len(Walk) /\ EntryOf(m) = Walk[next + 1] /\ next' = next + 1 /\ Walk' = Walk
         /\ Processed(m) /\ Running
         /\ m.held # 0 => EntryOf(m).kind \in {"file", "segment"}
         /\ m.held \in Nat /\ toSkip \in Nat /\ errors \in Nat
<1>1. Running
  BY Zenon, DrainRuns
<1>2. toSkip \in Nat /\ errors \in Nat
  BY Zenon DEF PipeInv, TypeOK
<1> QED BY Zenon, <1>1, <1>2, Removal, SameWalk

\* DrainSkipped: the bytes of a segment of a skipped file are returned.
LEMMA DrainSkippedKeeps ==
  ASSUME PipeInv, DrainSkipped
  PROVE  PipeInv'
<1>1. PICK m \in Turn :
        /\ consumer = "drain" /\ toSkip > 0 /\ RemovePending(m) /\ toSkip' = toSkip - 1
        /\ IF m.res = "done" /\ EntryOf(m).kind = "segment" THEN Release(m.held) ELSE Untouched
        /\ UNCHANGED <<source, seq, grant, work, worker, results, rxOpen, consumer, accum,
                       stream, errors, err, shutdown>>
  BY Zenon DEF DrainSkipped
<1>2. /\ next + 1 \in 1..Len(Walk) /\ EntryOf(m) = Walk[next + 1] /\ next' = next + 1 /\ Walk' = Walk
      /\ Processed(m) /\ Running /\ m.held \in Nat /\ toSkip \in Nat /\ errors \in Nat
  BY Zenon, <1>1, TurnFacts
<1> DEFINE e == EntryOf(m)
<1>3. /\ accum = NoFile /\ Inside(next) /\ Walk[next].index + 1 + toSkip = Walk[next].count
  <2>1. toSkip # 0
    BY <1>1, <1>2
  <2> QED BY Zenon, <1>1, <2>1, DrainRuns DEF AccumInv
<1> HIDE DEF e
<1>4. /\ e.kind = "segment" /\ e.index = Walk[next].index + 1 /\ e.count = Walk[next].count
      /\ Walk[next].index \in Nat /\ e.index \in Nat /\ e.count \in Nat
      /\ Inside(next + 1) <=> e.index + 1 < e.count
  BY Zenon, <1>1, <1>2, <1>3, AtTurn DEF e
<1>5. BytesBack(m.held)
  <2>1. CASE m.res = "done"
    BY Zenon, <1>1, <1>2, <1>4, <2>1, ReleaseReturns DEF PipeInv, e
  <2>2. CASE m.res # "done"
    BY Zenon, <1>1, <1>2, <2>2, UntouchedReturns DEF PipeInv, Processed
  <2> QED BY Zenon, <2>1, <2>2
<1>6. AccumInv'
  <2>1. e.index + toSkip = e.count
    BY Zenon, <1>3, <1>4
  <2>2. Inside(next + 1) <=> Inside(next)'
    BY Zenon, <1>2 DEF Inside
  <2>3. consumer' = "drain" /\ consumer' # "close" /\ accum' = NoFile
    BY <1>1, <1>3
  <2>4. e = Walk'[next']
    BY Zenon, <1>2 DEF e
  <2>5. e.index + 1 + toSkip' = e.count /\ (toSkip' > 0 => Inside(next + 1)) /\ (toSkip' = 0 => ~Inside(next + 1))
    <3>1. toSkip \in Nat /\ toSkip > 0 /\ toSkip' = toSkip - 1
      BY Zenon, <1>1, <1>2
    <3>2. e.index \in Nat /\ e.count \in Nat /\ (Inside(next + 1) <=> e.index + 1 < e.count)
      BY Zenon, <1>4
    <3> QED BY <2>1, <3>1, <3>2
  <2> QED BY Zenon, <2>2, <2>3, <2>4, <2>5 DEF AccumInv
<1>7. toSkip' \in Nat /\ errors' \in Nat
  BY <1>1, <1>2
<1>8. consumer' \in {"drain", "append"}
  BY Zenon, <1>1
<1> QED BY Zenon, <1>1, <1>5, <1>6, <1>7, <1>8, RemovalKeeps

\* CountSkipped: the rest of a skipped file will be drained.
LEMMA CountSkippedKeeps ==
  ASSUME PipeInv, CountSkipped
  PROVE  PipeInv'
<1>1. PICK m \in Turn :
        /\ consumer = "drain" /\ toSkip = 0 /\ m.res = "skipped" /\ RemovePending(m)
        /\ errors' = errors + 1 /\ toSkip' = RestOfSkipped(EntryOf(m))
        /\ UNCHANGED <<walkVars, budget, work, worker, results, rxOpen, consumer, accum,
                       stream, err, shutdown>>
  BY Zenon DEF CountSkipped
<1>0. UNCHANGED <<source, seq, grant, walker>>
  BY Zenon, <1>1 DEF walkVars
<1>2. /\ next + 1 \in 1..Len(Walk) /\ EntryOf(m) = Walk[next + 1] /\ next' = next + 1 /\ Walk' = Walk
      /\ Processed(m) /\ Running /\ m.held \in Nat /\ toSkip \in Nat /\ errors \in Nat
  BY Zenon, <1>0, <1>1, TurnFacts
<1> DEFINE e == EntryOf(m)
<1>3. m.held = 0 /\ (e.kind = "segment" => e.index = 0)
  <2>1. "skipped" # "done"
    OBVIOUS
  <2> QED BY Zenon, <1>1, <1>2, <2>1 DEF Processed
<1> HIDE DEF e
<1>4. /\ e.kind = "segment" => e.index < e.count
      /\ e.index \in Nat /\ e.count \in Nat
      /\ Inside(next + 1) <=> e.kind = "segment" /\ e.index + 1 < e.count
  BY Zenon, <1>1, <1>2, AtTurn DEF e
<1>5. accum = NoFile
  BY Zenon, <1>1, <1>2, <1>3, Accumulated DEF e
<1>6. toSkip' = IF e.kind = "segment" THEN e.count - 1 ELSE 0
  BY Zenon, <1>1 DEF RestOfSkipped, e
<1>7. BytesBack(m.held)
  <2>1. Untouched
    BY Zenon, <1>0, <1>1 DEF Untouched
  <2> QED BY Zenon, <1>3, <2>1, UntouchedReturns DEF PipeInv
<1>8. toSkip' \in Nat /\ errors' \in Nat
  BY <1>1, <1>2, <1>3, <1>4, <1>6
<1>9. AccumInv'
  <2>1. /\ toSkip' > 0 => Inside(next + 1) /\ e.index + 1 + toSkip' = e.count
        /\ toSkip' = 0 => ~Inside(next + 1)
    BY <1>3, <1>4, <1>6
  <2>2. Inside(next + 1) <=> Inside(next)'
    BY Zenon, <1>2 DEF Inside
  <2>3. consumer' = "drain" /\ consumer' # "close" /\ accum' = NoFile
    BY <1>1, <1>5
  <2>4. e = Walk'[next']
    BY Zenon, <1>2 DEF e
  <2> QED BY Zenon, <2>1, <2>2, <2>3, <2>4 DEF AccumInv
<1>10. consumer' \in {"drain", "append"}
  BY Zenon, <1>1
<1> QED BY Zenon, <1>0, <1>1, <1>7, <1>8, <1>9, <1>10, RemovalKeeps

\* ConsumeError: a soft error is one of a later segment, so the accumulator has a file
\* and the run fails.
LEMMA ConsumeErrorKeeps ==
  ASSUME PipeInv, ConsumeError
  PROVE  PipeInv'
<1>1. PICK m \in Turn :
        /\ consumer = "drain" /\ toSkip = 0 /\ m.res \in {"soft", "hard"} /\ RemovePending(m)
        /\ IF Tolerated(m) THEN errors' = errors + 1 /\ Untouched /\ UNCHANGED <<consumer, err>>
           ELSE GiveUp("worker") /\ UNCHANGED errors
        /\ UNCHANGED <<source, seq, grant, work, worker, results, rxOpen, accum, toSkip,
                       stream, shutdown>>
  BY Zenon DEF ConsumeError
<1>2. /\ next + 1 \in 1..Len(Walk) /\ EntryOf(m) = Walk[next + 1] /\ Processed(m)
  BY Zenon, <1>1, TurnFacts
<1>3. ~Tolerated(m)
  BY Zenon, <1>1, <1>2, Accumulated DEF Tolerated, Processed
<1>4. "worker" \in {"worker", "commit"}
  OBVIOUS
<1> QED BY Zenon, <1>1, <1>3, <1>4, RemovalStops

\* ConsumeFails: only a commit fails, validate_segment_accum does not.
LEMMA ConsumeFailsKeeps ==
  ASSUME PipeInv, ConsumeFails
  PROVE  PipeInv'
<1>1. PICK m \in Turn :
        /\ consumer = "drain" /\ toSkip = 0 /\ RemovePending(m)
        /\ GiveUp(IF SegmentFault(EntryOf(m)) = "none" THEN "commit" ELSE SegmentFault(EntryOf(m)))
        /\ UNCHANGED <<source, seq, grant, work, worker, results, rxOpen, accum, toSkip,
                       stream, errors, shutdown>>
  BY Zenon DEF ConsumeFails
<1>2. /\ next + 1 \in 1..Len(Walk) /\ EntryOf(m) = Walk[next + 1]
  BY Zenon, <1>1, TurnFacts
<1>3. SegmentFault(EntryOf(m)) = "none"
  BY Zenon, <1>1, <1>2, Accumulated
<1>4. GiveUp("commit") /\ "commit" \in {"worker", "commit"}
  BY Zenon, <1>1, <1>3
<1> QED BY Zenon, <1>1, <1>4, RemovalStops

\* ConsumeReturns: the bytes are returned before the item fails.
LEMMA ConsumeReturnsKeeps ==
  ASSUME PipeInv, ConsumeReturns
  PROVE  PipeInv'
<1>1. PICK m \in Turn :
        /\ consumer = "drain" /\ RemovePending(m) /\ Release(m.held) /\ consumer' = "append"
        /\ UNCHANGED <<source, seq, grant, work, worker, results, rxOpen, accum, toSkip,
                       stream, errors, err, shutdown>>
  BY Zenon DEF ConsumeReturns
<1>2. m.held \in Nat /\ toSkip \in Nat /\ errors \in Nat
  BY Zenon, <1>1, TurnFacts
<1>3. BytesBack(m.held)
  BY Zenon, <1>1, <1>2, ReleaseReturns DEF PipeInv
<1>4. "append" \in {"drain", "append"} /\ "append" # "drain"
  OBVIOUS
<1> QED BY Zenon, <1>1, <1>2, <1>3, <1>4, RemovalKeeps

\* Consume: the accumulator has the file whose segment comes next.
LEMMA ConsumeKeeps ==
  ASSUME PipeInv, Consume
  PROVE  PipeInv'
<1>1. PICK m \in Turn :
        /\ consumer = "drain" /\ toSkip = 0 /\ m.res = "done" /\ RemovePending(m)
        /\ accum' = IF EntryOf(m).kind # "segment" THEN accum
                    ELSE IF EntryOf(m).index = EntryOf(m).count - 1 THEN NoFile ELSE Extended(EntryOf(m))
        /\ IF EntryOf(m).kind \in {"file", "segment"} THEN Release(m.held) ELSE Untouched
        /\ UNCHANGED <<source, seq, grant, work, worker, results, rxOpen, consumer, toSkip,
                       errors, err, shutdown>>
  BY Zenon DEF Consume
<1>2. /\ next + 1 \in 1..Len(Walk) /\ EntryOf(m) = Walk[next + 1] /\ next' = next + 1 /\ Walk' = Walk
      /\ Running /\ m.held \in Nat /\ toSkip \in Nat /\ errors \in Nat
      /\ m.held # 0 => EntryOf(m).kind \in {"file", "segment"}
  BY Zenon, <1>1, TurnFacts
<1>3. BytesBack(m.held)
  <2>1. CASE EntryOf(m).kind \in {"file", "segment"}
    BY Zenon, <1>1, <1>2, <2>1, ReleaseReturns DEF PipeInv
  <2>2. CASE EntryOf(m).kind \notin {"file", "segment"}
    BY Zenon, <1>1, <1>2, <2>2, UntouchedReturns DEF PipeInv
  <2> QED BY Zenon, <2>1, <2>2
<1> DEFINE e == EntryOf(m)
<1> HIDE DEF e
<1>4. /\ e.kind = "segment" => e.index < e.count
      /\ e.index \in Nat /\ e.count \in Nat
      /\ Inside(next + 1) <=> e.kind = "segment" /\ e.index + 1 < e.count
  BY Zenon, <1>1, <1>2, AtTurn DEF e
<1>5. AccumInv'
  <2>1. e = Walk'[next']
    BY Zenon, <1>2 DEF e
  <2>2. Inside(next + 1) <=> Inside(next)'
    BY Zenon, <1>2 DEF Inside
  <2>3. consumer' = "drain" /\ consumer' # "close" /\ toSkip' = 0 /\ ~(toSkip' > 0)
    BY <1>1
  <2>4. CASE e.kind # "segment"
    <3>1. accum' = NoFile
      BY Zenon, <1>1, <1>2, <2>4, Accumulated DEF e
    <3> QED BY Zenon, <1>4, <2>2, <2>3, <2>4, <3>1 DEF AccumInv
  <2>5. CASE e.kind = "segment" /\ e.index = e.count - 1
    <3>1. accum' = NoFile
      BY Zenon, <1>1, <2>5 DEF e
    <3>2. ~Inside(next + 1)
      BY <1>4, <2>5
    <3> QED BY Zenon, <2>2, <2>3, <3>1, <3>2 DEF AccumInv
  <2>6. CASE e.kind = "segment" /\ e.index # e.count - 1
    <3>1. accum' = Extended(e)
      BY Zenon, <1>1, <2>6 DEF e
    <3>2. Extended(e).index = e.index + 1 /\ Extended(e).name = e.name /\ Extended(e).count = e.count
      BY DEF Extended
    <3>3. NoFile.index = 0
      BY DEF NoFile
    <3>4. Extended(e) # NoFile
      BY <1>4, <3>2, <3>3
    <3>5. Inside(next + 1)
      BY <1>4, <2>6
    <3> QED BY Zenon, <2>1, <2>2, <2>3, <3>1, <3>2, <3>4, <3>5 DEF AccumInv
  <2> QED BY Zenon, <2>4, <2>5, <2>6
<1>6. consumer' \in {"drain", "append"} /\ toSkip' \in Nat /\ errors' \in Nat
  BY Zenon, <1>1, <1>2
<1> QED BY Zenon, <1>1, <1>3, <1>5, <1>6, RemovalKeeps

\* AppendFails.
LEMMA AppendFailsKeeps ==
  ASSUME PipeInv, AppendFails
  PROVE  PipeInv'
<1>1. consumer = "append" /\ GiveUp("commit")
      /\ UNCHANGED <<source, seq, grant, work, worker, results, rxOpen, consumerVars, shutdown>>
  BY Zenon DEF AppendFails
<1>2. UNCHANGED <<next, pending, accum, toSkip, stream, errors>> /\ Walk' = Walk
  BY Zenon, <1>1, SameWalk DEF consumerVars
<1>3. "commit" \in Causes /\ "commit" \in {"interrupted", "walk", "worker", "commit"} /\ "append" # "closed"
  BY DEF Causes
<1>4. /\ Woken /\ budget' \in [available : 0..Capacity, poisoned : BOOLEAN]
      /\ err' \in Causes /\ consumer' \in {"recv", "drain", "append", "close", "closed"} /\ consumer' # "closed"
  BY Zenon, <1>1, <1>3, GiveUpTypes DEF PipeInv
<1>5. TypeOK'
  BY Zenon, <1>1, <1>2, <1>3, <1>4 DEF PipeInv, TypeOK, Woken
<1> QED BY Zenon, <1>1, <1>3, <1>5, GiveUpKeeps

\* DrainEnds: the next entry is not in the reorder buffer.
LEMMA DrainEndsKeeps ==
  ASSUME PipeInv, DrainEnds
  PROVE  PipeInv'
<1>1. /\ consumer = "drain" /\ Turn = {} /\ consumer' = "recv"
      /\ UNCHANGED <<walkVars, budget, work, worker, results, rxOpen, consumerVars, err, shutdown>>
  BY Zenon DEF DrainEnds
<1>2. UNCHANGED <<source, seq, walker, grant, next, pending, accum, toSkip, stream, errors>> /\ Walk' = Walk
  BY Zenon, <1>1, SameWalk DEF consumerVars, walkVars
<1>3. "recv" \in {"recv", "drain", "append", "close", "closed"} /\ "recv" # "closed" /\ "recv" # "close"
  OBVIOUS
<1>4. Running /\ rxOpen /\ err = "none"
  BY Zenon, <1>1, DrainRuns
<1>5. TypeOK'
  BY Zenon, <1>1, <1>2, <1>3, <1>4 DEF PipeInv, TypeOK
<1>6. ThreadsInv' /\ SegmentsInOrder'
  <2>1. Active' = Active
    BY Zenon, <1>1 DEF Active
  <2> QED BY Zenon, <1>1, <1>2, <1>4, <2>1 DEF PipeInv, ThreadsInv, SegmentsInOrder
<1>7. QueueInv /\ PlacesInv /\ ProcessedInv /\ FlowInv /\ AccumInv /\ HoldInv /\ Balance
  BY Zenon, <1>4 DEF PipeInv, RunInv
<1>8. QueueInv' /\ PlacesInv' /\ ProcessedInv' /\ Taken' = Taken
  BY Zenon, <1>1, <1>2, <1>7, QueueFrame, PlacesFrame, ProcessedFrame
<1>9. FlowInv'
  <2>1. next \notin InPending
    BY Zenon, <1>1 DEF Turn, InPending
  <2>2. InPending' = InPending
    BY Zenon, <1>2 DEF InPending
  <2> QED BY Zenon, <1>1, <1>2, <1>7, <2>1, <2>2 DEF FlowInv
<1>10. AccumInv'
  BY Zenon, <1>1, <1>2, <1>3, <1>7 DEF AccumInv, Inside
<1>11. HoldInv' /\ Balance'
  <2>1. InFlight' = InFlight /\ Held' = Held
    BY Zenon, <1>1, <1>2, SameFlight, FlightFrame
  <2> QED BY Zenon, <1>1, <1>2, <1>7, <2>1, HoldFrame DEF Balance
<1> QED BY Zenon, <1>5, <1>6, <1>8, <1>9, <1>10, <1>11 DEF PipeInv, RunInv

\* When every sender is gone and the result channel is empty, and no shutdown is
\* requested, every entry has been consumed.
LEMMA AllConsumed ==
  ASSUME PipeInv, Running, consumer = "recv", results = << >>, walker = "gone",
         \A w \in Workers : worker[w].at = "gone", ~shutdown
  PROVE  next = Len(Walk) /\ accum = NoFile /\ toSkip = 0
<1>1. QueueInv /\ PlacesInv /\ ProcessedInv /\ FlowInv /\ AccumInv /\ HoldInv /\ Balance
  BY Zenon DEF PipeInv, RunInv
<1>2. DOMAIN results = {}
  OBVIOUS
<1>3. seq = Len(Walk) /\ next \notin InPending
  BY Zenon, <1>1, <1>2 DEF FlowInv
<1>4. work = << >>
  BY Zenon, <1>1, PipelineAssumption DEF FlowInv
<1>5. AtWorkers = {} /\ InResults = {}
  <2>1. "gone" \notin {"busy", "send"}
    OBVIOUS
  <2>2. Active = {} /\ Delivered = {}
    BY Zenon, <1>2, <2>1 DEF Active, Delivered
  <2> QED BY Zenon, <2>2 DEF AtWorkers, InResults
<1>6. InPending = next..(Taken - 1) /\ next <= Taken
  BY <1>1, <1>5 DEF PlacesInv
<1>7. next \in Nat /\ Taken = Len(Walk) /\ Len(Walk) \in Nat /\ toSkip \in Nat
  BY <1>3, <1>4, WalkIsShape DEF PipeInv, TypeOK, Taken
<1>8. next = Len(Walk)
  BY <1>3, <1>6, <1>7
<1>9. ~Inside(next)
  <2> SUFFICES ASSUME Inside(next) PROVE FALSE
    BY Zenon
  <2>1. next \in 1..Len(Walk)
    BY <1>7, <1>8 DEF Inside
  <2>2. next + 1 <= Len(Walk)
    BY Zenon, <2>1, WalkIsShape DEF PipeInv, Inside, Shape
  <2> QED BY <1>7, <1>8, <2>2
<1>10. accum = NoFile /\ ~(toSkip > 0)
  BY Zenon, <1>1, <1>9 DEF AccumInv
<1>11. toSkip = 0
  BY <1>7, <1>10
<1> QED BY Zenon, <1>8, <1>10, <1>11

\* Exhausted.
LEMMA ExhaustedKeeps ==
  ASSUME PipeInv, Exhausted
  PROVE  PipeInv'
<1>1. /\ consumer = "recv" /\ results = << >> /\ walker = "gone" /\ \A w \in Workers : worker[w].at = "gone"
      /\ consumer' = "close"
      /\ UNCHANGED <<walkVars, budget, work, worker, results, rxOpen, consumerVars, err, shutdown>>
  BY Zenon DEF Exhausted
<1>2. UNCHANGED <<source, seq, walker, grant, next, pending, accum, toSkip, stream, errors>> /\ Walk' = Walk
  BY Zenon, <1>1, SameWalk DEF consumerVars, walkVars
<1>3. /\ "close" \in {"recv", "drain", "append", "close", "closed"} /\ "recv" # "closed" /\ "close" # "closed"
      /\ "recv" \in {"recv", "drain", "append"} /\ "close" \notin {"recv", "drain", "append"}
  OBVIOUS
<1>4. Running /\ rxOpen /\ err = "none"
  BY Zenon, <1>1, <1>3 DEF PipeInv, ThreadsInv, TypeOK, Running
<1>5. TypeOK'
  BY Zenon, <1>1, <1>2, <1>3, <1>4 DEF PipeInv, TypeOK
<1>6. ThreadsInv' /\ SegmentsInOrder'
  <2>1. Active' = Active
    BY Zenon, <1>1 DEF Active
  <2> QED BY Zenon, <1>1, <1>2, <1>4, <2>1 DEF PipeInv, ThreadsInv, SegmentsInOrder
<1>7. QueueInv /\ PlacesInv /\ ProcessedInv /\ FlowInv /\ AccumInv /\ HoldInv /\ Balance
  BY Zenon, <1>4 DEF PipeInv, RunInv
<1>8. QueueInv' /\ PlacesInv' /\ ProcessedInv' /\ Taken' = Taken
  BY Zenon, <1>1, <1>2, <1>7, QueueFrame, PlacesFrame, ProcessedFrame
<1>9. FlowInv'
  <2>1. "close" # "recv"
    OBVIOUS
  <2> QED BY Zenon, <1>1, <1>2, <1>7, <2>1 DEF FlowInv
<1>10. AccumInv'
  <2>1. SUFFICES ASSUME accum # NoFile, ~shutdown PROVE FALSE
    BY Zenon, <1>1, <1>2, <1>3 DEF AccumInv
  <2> QED BY Zenon, <1>1, <1>4, <2>1, AllConsumed
<1>11. HoldInv' /\ Balance'
  <2>1. InFlight' = InFlight /\ Held' = Held
    BY Zenon, <1>1, <1>2, SameFlight, FlightFrame
  <2> QED BY Zenon, <1>1, <1>2, <1>7, <2>1, HoldFrame DEF Balance
<1> QED BY Zenon, <1>5, <1>6, <1>8, <1>9, <1>10, <1>11 DEF PipeInv, RunInv

\* Close: no file is incomplete unless a shutdown was requested.
LEMMA CloseKeeps ==
  ASSUME PipeInv, Close
  PROVE  PipeInv'
<1>1. /\ consumer = "close" /\ consumer' = "closed" /\ rxOpen' = FALSE /\ results' = << >> /\ err' = Verdict
      /\ pending' = {} /\ accum' = NoFile /\ next' = 0 /\ toSkip' = 0
      /\ errors' = errors \/ errors' = 0
      /\ UNCHANGED <<walkVars, budget, work, worker, shutdown>>
  BY Zenon DEF Close
<1>2. UNCHANGED <<source, seq, walker, grant>> /\ Walk' = Walk
  BY Zenon, <1>1, SameWalk DEF walkVars
<1>3. /\ "closed" \in {"recv", "drain", "append", "close", "closed"} /\ "close" # "closed"
      /\ "closed" \notin {"recv", "drain", "append"}
      /\ {"none", "incomplete", "interrupted"} \subseteq Causes
      /\ "none" # "incomplete" /\ "interrupted" # "incomplete"
      /\ \A x \in {"none", "incomplete", "interrupted"} : x \notin {"nested", "orphan", "mismatch"}
  BY DEF Causes
<1>4. Verdict = err \/ (Verdict \in {"none", "interrupted", "incomplete"} /\ err = "none" /\ (Verdict = "incomplete" => accum # NoFile))
  BY Zenon, <1>3 DEF Verdict
<1>5. TypeOK'
  <2>1. err' \in Causes
    BY Zenon, <1>1, <1>3, <1>4 DEF PipeInv, TypeOK
  <2>2. results' \in Seq(Message) /\ Len(results') <= ResultCap /\ next' \in 0..Len(Walk)
        /\ toSkip' \in Nat /\ pending' \subseteq Message
    <3>1. Len(Walk) \in Nat /\ ResultCap \in Nat
      BY Zenon, WalkIsShape, Caps DEF PipeInv
    <3> QED BY <1>1, <3>1
  <2>3. errors' \in Nat
    BY <1>1 DEF PipeInv, TypeOK
  <2>4. rxOpen' = (consumer' # "closed")
    BY Zenon, <1>1
  <2> QED BY Zenon, <1>1, <1>2, <1>3, <2>1, <2>2, <2>3, <2>4 DEF PipeInv, TypeOK
<1>6. ThreadsInv'
  <2>1. Active' = Active
    BY Zenon, <1>1 DEF Active
  <2> QED BY Zenon, <1>1, <1>2, <1>3, <2>1 DEF PipeInv, ThreadsInv
<1>7. SegmentsInOrder'
  <2>1. CASE Verdict = err
    BY Zenon, <1>1, <2>1 DEF PipeInv, SegmentsInOrder
  <2>2. CASE Verdict \in {"none", "interrupted", "incomplete"} /\ err = "none" /\ (Verdict = "incomplete" => accum # NoFile)
    <3>1. Running
      BY Zenon, <1>1, <1>3, <2>2 DEF Running
    <3>2. accum # NoFile => shutdown
      BY Zenon, <1>1, <3>1 DEF PipeInv, RunInv, AccumInv
    <3> QED BY Zenon, <1>1, <1>3, <2>2, <3>2 DEF SegmentsInOrder
  <2> QED BY Zenon, <1>4, <2>1, <2>2
<1>8. ~Running'
  BY Zenon, <1>1 DEF Running
<1> QED BY Zenon, <1>5, <1>6, <1>7, <1>8 DEF PipeInv

\* Interrupt.
LEMMA InterruptKeeps ==
  ASSUME PipeInv, Interrupt
  PROVE  PipeInv'
<1>1. /\ shutdown' = TRUE
      /\ UNCHANGED <<walkVars, budget, work, worker, results, rxOpen, consumer, consumerVars, err>>
  BY Zenon DEF Interrupt
<1>2. UNCHANGED <<source, seq, walker, grant, next, pending, accum, toSkip, stream, errors>> /\ Walk' = Walk
  BY Zenon, <1>1, SameWalk DEF consumerVars, walkVars
<1>3. TypeOK'
  <2>1. shutdown' \in BOOLEAN
    BY Zenon, <1>1
  <2> QED BY Zenon, <1>1, <1>2, <2>1 DEF PipeInv, TypeOK
<1>4. SegmentsInOrder' /\ (Running' <=> Running)
  BY Zenon, <1>1, ConsumerFrame DEF PipeInv
<1>5. ThreadsInv'
  <2>1. Active' = Active
    BY Zenon, <1>1 DEF Active
  <2> QED BY Zenon, <1>1, <1>2, <2>1 DEF PipeInv, ThreadsInv
<1>6. ASSUME Running' PROVE RunInv'
  <2>1. QueueInv /\ PlacesInv /\ ProcessedInv /\ FlowInv /\ AccumInv /\ HoldInv /\ Balance
    BY Zenon, <1>4, <1>6 DEF PipeInv, RunInv
  <2>2. QueueInv' /\ PlacesInv' /\ ProcessedInv' /\ AccumInv'
    BY Zenon, <1>1, <1>2, <2>1, QueueFrame, PlacesFrame, ProcessedFrame, AccumFrame
  <2>3. FlowInv'
    <3>1. InPending' = InPending
      BY Zenon, <1>2 DEF InPending
    <3> QED BY Zenon, <1>1, <1>2, <2>1, <3>1 DEF FlowInv
  <2>4. HoldInv' /\ Balance'
    <3>1. InFlight' = InFlight /\ Held' = Held
      BY Zenon, <1>1, <1>2, SameFlight, FlightFrame
    <3> QED BY Zenon, <1>1, <1>2, <2>1, <3>1, HoldFrame DEF Balance
  <2> QED BY Zenon, <2>2, <2>3, <2>4 DEF RunInv
<1> QED BY Zenon, <1>3, <1>4, <1>5, <1>6 DEF PipeInv

\* The initial states.
LEMMA InitHolds ==
  ASSUME Init
  PROVE  PipeInv
<1>1. /\ source \in Sources /\ seq = 0 /\ walker = "next" /\ grant = 0
      /\ budget = [available |-> Capacity, poisoned |-> FALSE] /\ work = << >>
      /\ worker = [w \in Workers |-> [at |-> "recv", msg |-> Idle]] /\ results = << >> /\ rxOpen = TRUE
      /\ consumer = "recv" /\ next = 0 /\ pending = {} /\ accum = NoFile /\ toSkip = 0
      /\ errors = 0 /\ err = "none" /\ shutdown = FALSE
  BY Zenon DEF Init
<1>2. Len(Walk) \in Nat
  <2>1. Walk = WalkOf(source) /\ source \in Seq(Objects)
    BY Zenon, <1>1, PipelineAssumption DEF Walk, WalkEntries
  <2>2. Walk \in Seq(Entries)
    BY Zenon, <2>1, WalkShape DEF Shape
  <2> QED BY <2>2
<1>3. Idle \in Message /\ Idle.held = 0 /\ Capacity \in Nat
  BY PipelineAssumption DEF Idle, Message
<1>4. /\ worker \in [Workers -> [at : {"recv", "busy", "send", "gone"}, msg : Message]]
      /\ \A w \in Workers : worker[w].at = "recv" /\ worker[w].msg = Idle
  BY <1>1, <1>3
<1>5. /\ seq \in 0..Len(Walk) /\ grant \in 0..Capacity /\ next \in 0..Len(Walk) /\ toSkip \in Nat /\ errors \in Nat
      /\ budget \in [available : 0..Capacity, poisoned : BOOLEAN]
      /\ budget.available = Capacity /\ budget.poisoned = FALSE
      /\ work \in Seq(Message) /\ Len(work) = 0 /\ results \in Seq(Message) /\ Len(results) = 0
      /\ DOMAIN work = {} /\ DOMAIN results = {}
  BY <1>1, <1>2, <1>3
<1>6. Len(work) <= WorkCap /\ Len(results) <= ResultCap
  BY <1>5, Caps
<1>7. TypeOK
  <2>1. /\ walker \in {"next", "report", "acquire", "wait", "send", "gone"} /\ err \in Causes
        /\ consumer \in {"recv", "drain", "append", "close", "closed"} /\ rxOpen = (consumer # "closed")
        /\ shutdown \in BOOLEAN /\ pending \subseteq Message
    BY <1>1 DEF Causes
  <2> QED BY Zenon, <1>1, <1>4, <1>5, <1>6, <2>1 DEF TypeOK
<1>8. SegmentsInOrder
  BY <1>1 DEF SegmentsInOrder
<1>9. ThreadsInv
  BY Zenon, <1>1, <1>4 DEF ThreadsInv
<1>10. Active = {} /\ Delivered = {} /\ AtWorkers = {} /\ InResults = {} /\ InPending = {} /\ Taken = 0
  <2>1. "recv" \notin {"busy", "send"}
    OBVIOUS
  <2>2. Active = {} /\ Delivered = {}
    BY Zenon, <1>4, <1>5, <2>1 DEF Active, Delivered
  <2>3. Taken = 0
    <3>1. 0 - 0 = 0
      OBVIOUS
    <3> QED BY Zenon, <1>1, <1>5, <3>1 DEF Taken
  <2> QED BY Zenon, <1>1, <2>2, <2>3 DEF AtWorkers, InResults, InPending
<1>11. QueueInv
  BY <1>1, <1>5 DEF QueueInv
<1>12. PlacesInv
  <2>1. next <= Taken /\ next..(Taken - 1) = {}
    BY <1>1, <1>10
  <2> QED BY <1>1, <1>10, <2>1 DEF PlacesInv
<1>13. ProcessedInv
  <2>1. "recv" # "send"
    OBVIOUS
  <2> QED BY Zenon, <1>1, <1>4, <1>5, <2>1 DEF ProcessedInv
<1>14. FlowInv
  <2>1. "recv" # "gone" /\ "next" # "gone"
    OBVIOUS
  <2> QED BY Zenon, <1>1, <1>4, <1>5, <1>10, <2>1 DEF FlowInv
<1>15. AccumInv
  <2>1. "recv" # "close" /\ ~(next > 0) /\ ~(toSkip > 0)
    BY <1>1
  <2> QED BY Zenon, <1>1, <2>1 DEF AccumInv, Inside
<1>16. \A m \in InFlight : m.held = 0
  BY Zenon, <1>1, <1>3, <1>4, <1>5 DEF InFlight, Range
<1>17. HoldInv
  BY Zenon, <1>1, <1>16 DEF HoldInv
<1>18. Balance
  <2>1. Held = {}
    <3>1. ASSUME NEW x \in Held PROVE FALSE
      <4>1. PICK m \in InFlight : x \in Bytes(m)
        BY Zenon, HeldBytes
      <4>2. Bytes(m) = {}
        BY Zenon, <1>16, NoBytes
      <4> QED BY Zenon, <4>1, <4>2
    <3> QED BY Zenon, <3>1
  <2>2. Cardinality(Held) = 0
    BY Zenon, <2>1, FS_EmptySet
  <2> QED BY <1>1, <1>3, <1>5, <2>2 DEF Balance
<1> QED BY Zenon, <1>7, <1>8, <1>9, <1>11, <1>12, <1>13, <1>14, <1>15, <1>17, <1>18 DEF PipeInv, RunInv

\* Nothing happens.
LEMMA Stutters ==
  ASSUME PipeInv, UNCHANGED vars
  PROVE  PipeInv'
<1>1. /\ UNCHANGED <<walkVars, budget, work, worker, results, rxOpen, consumer, consumerVars, err, shutdown>>
  BY Zenon DEF vars
<1>2. UNCHANGED <<source, seq, walker, grant, next, pending, accum, toSkip, stream, errors>> /\ Walk' = Walk
  BY Zenon, <1>1, SameWalk DEF consumerVars, walkVars
<1>3. TypeOK'
  BY Zenon, <1>1, <1>2 DEF PipeInv, TypeOK
<1>4. SegmentsInOrder' /\ (Running' <=> Running)
  BY Zenon, <1>1, ConsumerFrame DEF PipeInv
<1>5. ThreadsInv'
  <2>1. Active' = Active
    BY Zenon, <1>1 DEF Active
  <2> QED BY Zenon, <1>1, <1>2, <2>1 DEF PipeInv, ThreadsInv
<1>6. ASSUME Running' PROVE RunInv'
  <2>1. QueueInv /\ PlacesInv /\ ProcessedInv /\ FlowInv /\ AccumInv /\ HoldInv /\ Balance
    BY Zenon, <1>4, <1>6 DEF PipeInv, RunInv
  <2>2. QueueInv' /\ PlacesInv' /\ ProcessedInv' /\ AccumInv'
    BY Zenon, <1>1, <1>2, <2>1, QueueFrame, PlacesFrame, ProcessedFrame, AccumFrame
  <2>3. FlowInv'
    <3>1. InPending' = InPending
      BY Zenon, <1>2 DEF InPending
    <3> QED BY Zenon, <1>1, <1>2, <2>1, <3>1 DEF FlowInv
  <2>4. HoldInv' /\ Balance'
    <3>1. InFlight' = InFlight /\ Held' = Held
      BY Zenon, <1>1, <1>2, SameFlight, FlightFrame
    <3> QED BY Zenon, <1>1, <1>2, <2>1, <3>1, HoldFrame DEF Balance
  <2> QED BY Zenon, <2>2, <2>3, <2>4 DEF RunInv
<1> QED BY Zenon, <1>3, <1>4, <1>5, <1>6 DEF PipeInv

\* The invariant holds in every state of every run.
THEOREM InvariantHolds == Spec => []PipeInv
<1>1. Init => PipeInv
  BY Zenon, InitHolds
<1>2. PipeInv /\ [Next]_vars => PipeInv'
  <2> SUFFICES ASSUME PipeInv, [Next]_vars PROVE PipeInv'
    BY Zenon
  <2>1. CASE WalkThread
    BY Zenon, <2>1, WalkMoves, ReportKeeps, AcquireKeeps, SendKeeps DEF WalkThread
  <2>2. CASE \E w \in Workers : WorkerThread(w)
    BY Zenon, <2>2, TakeKeeps, StarveKeeps, ProcessKeeps, DeliverKeeps DEF WorkerThread
  <2>3. CASE Consumer
    BY Zenon, <2>3, ReceiveKeeps, DrainSkippedKeeps, CountSkippedKeeps, ConsumeErrorKeeps, ConsumeKeeps,
       ConsumeFailsKeeps, ConsumeReturnsKeeps, AppendFailsKeeps, DrainEndsKeeps, ExhaustedKeeps,
       CloseKeeps DEF Consumer
  <2>4. CASE Interrupt
    BY Zenon, <2>4, InterruptKeeps
  <2>5. CASE UNCHANGED vars
    BY Zenon, <2>5, Stutters
  <2> QED BY Zenon, <2>1, <2>2, <2>3, <2>4, <2>5 DEF Next, Threads
<1> QED BY <1>1, <1>2, PTL DEF Spec

\* Between any two steps of the threads, for any number of workers, any depth of the
\* channels, any capacity of the byte budget, any segment size and any sources: the state
\* is well-formed, no byte of the budget is lost or returned twice, and the segments of a
\* large file reach the accumulator in order, so that none of the checks of
\* validate_segment_accum fires.
THEOREM PipelineIsSafe == Spec => []PipelineInv
<1>1. PipeInv => PipelineInv
  BY Zenon DEF PipeInv, PipelineInv, BudgetConserved, RunInv, Balance, Running, TypeOK
<1> QED BY <1>1, InvariantHolds, PTL

Parts == [offset : Nat, len : Nat]
Items == [name : STRING, parts : Seq(Parts)]

\* The objects whose last entry is among the first n, and the items of the stream at them.
Ended(n) == {k \in 1..n : Last(Walk[k])}

Placed(n) ==
    /\ stream \in Seq(Items)
    /\ \E at \in [DOMAIN stream -> Ended(n)] :
         /\ \A j, k \in DOMAIN stream : j < k => at[j] < at[k]
         /\ \A k \in DOMAIN stream : /\ stream[k].name = Walk[at[k]].name
                                     /\ Tiles(stream[k].parts, End(Walk[at[k]]))

Complete == Placed(Len(Walk)) /\ Len(stream) + errors = Cardinality(Ended(Len(Walk)))

StreamInv ==
    /\ consumer \in {"recv", "drain"} =>
         /\ Placed(next)
         /\ Len(stream) + errors = Cardinality(Ended(next)) + (IF toSkip > 0 THEN 1 ELSE 0)
         /\ accum # NoFile => accum.parts \in Seq(Parts) /\ Tiles(accum.parts, End(Walk[next]))
    /\ consumer = "close" /\ err = "none" /\ ~shutdown => Complete
    /\ Succeeded => Complete

\* The parts of an item without data.
LEMMA TilesNone == Tiles(<< >>, 0)
BY DEF Tiles

\* One more part.
LEMMA TilesExtend ==
  ASSUME NEW parts \in Seq(Parts), NEW x \in Parts, Tiles(parts, x.offset)
  PROVE  parts \o <<x>> \in Seq(Parts) /\ Tiles(parts \o <<x>>, x.offset + x.len)
<1> DEFINE q == parts \o <<x>>
           n == Len(parts)
<1>1. /\ n \in Nat /\ q \in Seq(Parts) /\ Len(q) = n + 1 /\ DOMAIN q = 1..(n + 1) /\ DOMAIN parts = 1..n
      /\ q[n + 1] = x /\ \A k \in 1..n : q[k] = parts[k]
  OBVIOUS
<1>2. /\ \A k \in 1..n : parts[k].offset = IF k - 1 = 0 THEN 0 ELSE parts[k - 1].offset + parts[k - 1].len
      /\ (IF n = 0 THEN 0 ELSE parts[n].offset + parts[n].len) = x.offset
  BY Zenon, <1>1 DEF Tiles
<1> HIDE DEF q, n
<1>3. ASSUME NEW k \in 1..(n + 1)
      PROVE  q[k].offset = IF k - 1 = 0 THEN 0 ELSE q[k - 1].offset + q[k - 1].len
  <2>1. CASE k = n + 1
    <3>1. k - 1 = n /\ (n # 0 => n \in 1..n)
      BY <1>1, <2>1
    <3> QED BY Zenon, <1>1, <1>2, <2>1, <3>1
  <2>2. CASE k # n + 1
    <3>1. k \in 1..n /\ (k - 1 # 0 => k - 1 \in 1..n)
      BY <1>1, <2>2
    <3> QED BY Zenon, <1>1, <1>2, <3>1
  <2> QED BY Zenon, <2>1, <2>2
<1>4. n + 1 # 0
  BY <1>1
<1>5. Tiles(q, x.offset + x.len)
  BY Zenon, <1>1, <1>3, <1>4 DEF Tiles
<1> QED BY Zenon, <1>1, <1>5 DEF q

\* One more entry of the walk: it ends an object or it does not.
LEMMA EndedGrows ==
  ASSUME NEW n \in Nat
  PROVE  /\ IsFiniteSet(Ended(n)) /\ Cardinality(Ended(n)) \in Nat
         /\ Cardinality(Ended(n + 1)) = Cardinality(Ended(n)) + (IF Last(Walk[n + 1]) THEN 1 ELSE 0)
         /\ Ended(n) \subseteq Ended(n + 1)
         /\ Last(Walk[n + 1]) => n + 1 \in Ended(n + 1)
         /\ \A k \in Ended(n) : k \in Nat /\ k < n + 1
<1>1. IsFiniteSet(1..n)
  BY FS_Interval
<1>2. IsFiniteSet(Ended(n))
  <2>1. Ended(n) \in SUBSET (1..n)
    BY Zenon DEF Ended
  <2> QED BY Zenon, <1>1, <2>1, FS_Subset
<1>3. Cardinality(Ended(n)) \in Nat
  BY Zenon, <1>2, FS_CardinalityType
<1>4. \A k \in Ended(n) : k \in Nat /\ k < n + 1
  BY DEF Ended
<1>5. \A k : k \in 1..(n + 1) <=> k \in 1..n \/ k = n + 1
  OBVIOUS
<1>6. n + 1 \notin Ended(n)
  BY <1>4
<1>7. CASE Last(Walk[n + 1])
  <2>1. Ended(n + 1) = Ended(n) \cup {n + 1}
    BY Zenon, <1>5, <1>7 DEF Ended
  <2>2. Cardinality(Ended(n) \cup {n + 1}) = Cardinality(Ended(n)) + 1
    BY Zenon, <1>2, <1>6, FS_AddElement
  <2> QED BY Zenon, <1>2, <1>3, <1>4, <1>7, <2>1, <2>2
<1>8. CASE ~Last(Walk[n + 1])
  <2>1. Ended(n + 1) = Ended(n)
    BY Zenon, <1>5, <1>8 DEF Ended
  <2>2. Cardinality(Ended(n)) + 0 = Cardinality(Ended(n))
    BY <1>3
  <2> QED BY Zenon, <1>2, <1>3, <1>4, <1>8, <2>1, <2>2
<1> QED BY Zenon, <1>7, <1>8

\* An entry that adds no item.
LEMMA PlacedGrows ==
  ASSUME NEW n \in Nat, Placed(n), stream' = stream, Walk' = Walk
  PROVE  Placed(n + 1)'
<1>1. PICK at \in [DOMAIN stream -> Ended(n)] :
         /\ \A j, k \in DOMAIN stream : j < k => at[j] < at[k]
         /\ \A k \in DOMAIN stream : /\ stream[k].name = Walk[at[k]].name
                                     /\ Tiles(stream[k].parts, End(Walk[at[k]]))
  BY Zenon DEF Placed
<1>2. Ended(n) \subseteq Ended(n + 1)
  BY Zenon, EndedGrows
<1>3. Ended(n + 1)' = Ended(n + 1)
  BY Zenon DEF Ended
<1>4. at \in [DOMAIN stream -> Ended(n + 1)']
  BY Zenon, <1>2, <1>3
<1>5. stream \in Seq(Items)
  BY Zenon DEF Placed
<1> QED BY Zenon, <1>1, <1>4, <1>5 DEF Placed

\* An entry that adds one.
LEMMA PlacedAppends ==
  ASSUME NEW n \in Nat, Placed(n), Walk' = Walk, NEW x \in Items, stream' = stream \o <<x>>,
         Last(Walk[n + 1]), x.name = Walk[n + 1].name, Tiles(x.parts, End(Walk[n + 1]))
  PROVE  Placed(n + 1)' /\ Len(stream') = Len(stream) + 1
<1>1. PICK at \in [DOMAIN stream -> Ended(n)] :
         /\ \A j, k \in DOMAIN stream : j < k => at[j] < at[k]
         /\ \A k \in DOMAIN stream : /\ stream[k].name = Walk[at[k]].name
                                     /\ Tiles(stream[k].parts, End(Walk[at[k]]))
  BY Zenon DEF Placed
<1>2. stream \in Seq(Items)
  BY Zenon DEF Placed
<1> DEFINE z == Len(stream) + 1
<1>3. /\ stream' \in Seq(Items) /\ Len(stream') = Len(stream) + 1 /\ z \notin DOMAIN stream
      /\ \A k : k \in DOMAIN stream' <=> k \in DOMAIN stream \/ k = z
      /\ stream'[z] = x /\ \A k \in DOMAIN stream : stream'[k] = stream[k] /\ ~(z < k)
      /\ ~(z < z)
  BY <1>2
<1>4. /\ Ended(n) \subseteq Ended(n + 1) /\ n + 1 \in Ended(n + 1)
      /\ \A k \in Ended(n) : k \in Nat /\ k < n + 1
  BY Zenon, EndedGrows
<1>5. Ended(n + 1)' = Ended(n + 1)
  BY Zenon DEF Ended
<1> HIDE DEF z
<1> DEFINE on == [k \in DOMAIN stream' |-> IF k = z THEN n + 1 ELSE at[k]]
<1>6. /\ on \in [DOMAIN stream' -> Ended(n + 1)'] /\ on[z] = n + 1
      /\ \A k \in DOMAIN stream : on[k] = at[k] /\ at[k] \in Ended(n)
  BY Zenon, <1>3, <1>4, <1>5
<1> HIDE DEF on
<1>7. ASSUME NEW j \in DOMAIN stream', NEW k \in DOMAIN stream', j < k PROVE on[j] < on[k]
  <2>1. j \in DOMAIN stream
    BY Zenon, <1>3, <1>7
  <2>2. CASE k = z
    BY Zenon, <1>4, <1>6, <2>1, <2>2
  <2>3. CASE k # z
    BY Zenon, <1>1, <1>3, <1>6, <1>7, <2>1, <2>3
  <2> QED BY Zenon, <2>2, <2>3
<1>8. ASSUME NEW k \in DOMAIN stream'
      PROVE  stream'[k].name = Walk'[on[k]].name /\ Tiles(stream'[k].parts, End(Walk'[on[k]]))
  <2>1. CASE k = z
    BY Zenon, <1>3, <1>6, <2>1
  <2>2. CASE k # z
    <3>1. k \in DOMAIN stream /\ stream'[k] = stream[k] /\ on[k] = at[k]
      BY Zenon, <1>3, <1>6, <2>2
    <3> QED BY Zenon, <1>1, <3>1
  <2> QED BY Zenon, <2>1, <2>2
<1> QED BY Zenon, <1>3, <1>6, <1>7, <1>8 DEF Placed

\* A step that does not touch what the consumer has.
LEMMA StreamFrame ==
  ASSUME StreamInv, UNCHANGED <<source, stream, errors, consumer, next, accum, toSkip, err>>,
         shutdown => shutdown'
  PROVE  StreamInv'
<1>1. Walk' = Walk
  BY Zenon, SameWalk
<1>2. \A n : Ended(n)' = Ended(n)
  BY Zenon, <1>1 DEF Ended
<1>3. \A n : Placed(n)' <=> Placed(n)
  BY Zenon, <1>1, <1>2 DEF Placed
<1>4. Complete' <=> Complete
  BY Zenon, <1>1, <1>2, <1>3 DEF Complete
<1>5. Placed(next)' <=> Placed(next)
  BY Zenon, <1>1 DEF Placed, Ended
<1> QED BY Zenon, <1>1, <1>4, <1>5 DEF StreamInv, Succeeded, Ended

\* A run that will not succeed owes nothing to the item stream.
LEMMA StopsOwes ==
  ASSUME consumer' = "append" \/ (consumer' = "close" /\ err' # "none")
  PROVE  StreamInv'
<1>1. /\ "append" # "close" /\ "append" \notin {"recv", "drain"} /\ "append" # "closed"
      /\ "close" # "closed" /\ "close" \notin {"recv", "drain"}
  OBVIOUS
<1> QED BY Zenon, <1>1 DEF StreamInv, Succeeded

\* The consumer goes on in its loop.
LEMMA StreamGoesOn ==
  ASSUME consumer' \in {"recv", "drain"}, Placed(next)',
         Len(stream') + errors' = Cardinality(Ended(next)') + (IF toSkip' > 0 THEN 1 ELSE 0),
         accum' # NoFile => accum'.parts \in Seq(Parts) /\ Tiles(accum'.parts, End(Walk'[next']))
  PROVE  StreamInv'
<1>1. /\ "recv" # "close" /\ "recv" # "closed" /\ "drain" # "close" /\ "drain" # "closed"
  OBVIOUS
<1>2. NoFile' = NoFile
  BY Zenon DEF NoFile
<1> QED BY Zenon, <1>1, <1>2 DEF StreamInv, Succeeded

\* The item stream while the consumer drains.
LEMMA DrainStream ==
  ASSUME StreamInv, consumer = "drain"
  PROVE  /\ Placed(next) /\ Len(stream) \in Nat /\ stream \in Seq(Items)
         /\ Len(stream) + errors = Cardinality(Ended(next)) + (IF toSkip > 0 THEN 1 ELSE 0)
         /\ accum # NoFile => accum.parts \in Seq(Parts) /\ Tiles(accum.parts, End(Walk[next]))
<1>1. "drain" \in {"recv", "drain"}
  OBVIOUS
<1>2. Placed(next)
  BY Zenon, <1>1 DEF StreamInv
<1>3. stream \in Seq(Items)
  BY Zenon, <1>2 DEF Placed
<1>4. Len(stream) \in Nat
  BY <1>3
<1> QED BY Zenon, <1>1, <1>2, <1>3, <1>4 DEF StreamInv

\* The next entry is consumed and the item stream stays as it is.
LEMMA NoItem ==
  ASSUME PipeInv, StreamInv, consumer = "drain", consumer' = "drain", next' = next + 1, Walk' = Walk,
         stream' = stream
  PROVE  /\ Placed(next)' /\ Cardinality(Ended(next)) \in Nat
         /\ Cardinality(Ended(next)') = Cardinality(Ended(next)) + (IF Last(Walk[next + 1]) THEN 1 ELSE 0)
<1>1. next \in Nat
  BY DEF PipeInv, TypeOK
<1>2. PICK n \in Nat : n = next
  BY Zenon, <1>1
<1>3. Placed(n)
  BY Zenon, <1>2, DrainStream
<1>4. Placed(n + 1)'
  BY Zenon, <1>3, PlacedGrows
<1>5. Ended(n) = Ended(next) /\ Ended(next)' = Ended(n + 1) /\ Ended(n + 1)' = Ended(n + 1)
  BY Zenon, <1>2 DEF Ended
<1>6. Placed(next)'
  BY Zenon, <1>2, <1>4 DEF Placed, Ended
<1>7. /\ Cardinality(Ended(n)) \in Nat
      /\ Cardinality(Ended(n + 1)) = Cardinality(Ended(n)) + (IF Last(Walk[n + 1]) THEN 1 ELSE 0)
  BY Zenon, EndedGrows
<1> QED BY Zenon, <1>2, <1>5, <1>6, <1>7

\* The next entry is consumed and adds an item.
LEMMA OneItem ==
  ASSUME PipeInv, StreamInv, consumer = "drain", consumer' = "drain", next' = next + 1, Walk' = Walk,
         NEW x \in Items, stream' = stream \o <<x>>,
         Last(Walk[next + 1]), x.name = Walk[next + 1].name, Tiles(x.parts, End(Walk[next + 1]))
  PROVE  /\ Placed(next)' /\ Cardinality(Ended(next)) \in Nat /\ Len(stream') = Len(stream) + 1
         /\ Cardinality(Ended(next)') = Cardinality(Ended(next)) + 1
<1>1. next \in Nat
  BY DEF PipeInv, TypeOK
<1>2. PICK n \in Nat : n = next
  BY Zenon, <1>1
<1>3. Placed(n) /\ Last(Walk[n + 1]) /\ x.name = Walk[n + 1].name /\ Tiles(x.parts, End(Walk[n + 1]))
  BY Zenon, <1>2, DrainStream
<1>4. Placed(n + 1)' /\ Len(stream') = Len(stream) + 1
  BY Zenon, <1>3, PlacedAppends
<1>5. Ended(n) = Ended(next) /\ Ended(next)' = Ended(n + 1) /\ Ended(n + 1)' = Ended(n + 1)
  BY Zenon, <1>2 DEF Ended
<1>6. Placed(next)'
  BY Zenon, <1>2, <1>4 DEF Placed, Ended
<1>7. /\ Cardinality(Ended(n)) \in Nat
      /\ Cardinality(Ended(n + 1)) = Cardinality(Ended(n)) + (IF Last(Walk[n + 1]) THEN 1 ELSE 0)
  BY Zenon, EndedGrows
<1> QED BY Zenon, <1>3, <1>4, <1>5, <1>6, <1>7

\* DrainSkipped: the error of the file was counted with its first segment.
LEMMA DrainSkippedStream ==
  ASSUME PipeInv, StreamInv, DrainSkipped
  PROVE  StreamInv'
<1>1. PICK m \in Turn :
        /\ consumer = "drain" /\ toSkip > 0 /\ RemovePending(m) /\ toSkip' = toSkip - 1
        /\ UNCHANGED <<source, seq, grant, work, worker, results, consumer, accum, stream, errors>>
  BY Zenon DEF DrainSkipped
<1>2. /\ next + 1 \in 1..Len(Walk) /\ EntryOf(m) = Walk[next + 1] /\ next' = next + 1 /\ Walk' = Walk
      /\ toSkip \in Nat /\ errors \in Nat /\ Running
  BY Zenon, <1>1, TurnFacts
<1> DEFINE e == Walk[next + 1]
<1>3. accum = NoFile /\ Inside(next) /\ Walk[next].index + 1 + toSkip = Walk[next].count
  <2>1. toSkip # 0
    BY <1>1, <1>2
  <2> QED BY Zenon, <1>1, <2>1, DrainRuns DEF AccumInv
<1> HIDE DEF e
<1>4. /\ e.kind = "segment" /\ e.index = Walk[next].index + 1 /\ e.count = Walk[next].count
      /\ Walk[next].index \in Nat /\ e.index \in Nat /\ e.count \in Nat
  BY Zenon, <1>1, <1>2, <1>3, AtTurn DEF e
<1>5. e.index + toSkip = e.count
  BY Zenon, <1>3, <1>4
<1>6. Last(e) <=> ~(toSkip' > 0)
  BY <1>1, <1>2, <1>4, <1>5 DEF Last
<1>7. /\ Placed(next)' /\ Cardinality(Ended(next)) \in Nat
      /\ Cardinality(Ended(next)') = Cardinality(Ended(next)) + (IF Last(e) THEN 1 ELSE 0)
  BY Zenon, <1>1, <1>2, NoItem DEF e
<1>8. Len(stream) \in Nat /\ Len(stream) + errors = Cardinality(Ended(next)) + 1
  BY Zenon, <1>1, DrainStream
<1>9. Len(stream') + errors' = Cardinality(Ended(next)') + (IF toSkip' > 0 THEN 1 ELSE 0)
  BY <1>1, <1>2, <1>6, <1>7, <1>8
<1>10. consumer' \in {"recv", "drain"} /\ accum' = NoFile
  BY Zenon, <1>1, <1>3
<1> QED BY Zenon, <1>7, <1>9, <1>10, StreamGoesOn

\* CountSkipped: one error for the object.
LEMMA CountSkippedStream ==
  ASSUME PipeInv, StreamInv, CountSkipped
  PROVE  StreamInv'
<1>1. PICK m \in Turn :
        /\ consumer = "drain" /\ toSkip = 0 /\ m.res = "skipped" /\ RemovePending(m)
        /\ errors' = errors + 1 /\ toSkip' = RestOfSkipped(EntryOf(m))
        /\ UNCHANGED <<walkVars, work, worker, results, consumer, accum, stream>>
  BY Zenon DEF CountSkipped
<1>2. UNCHANGED <<source, seq, grant>>
  BY Zenon, <1>1 DEF walkVars
<1>3. /\ next + 1 \in 1..Len(Walk) /\ EntryOf(m) = Walk[next + 1] /\ next' = next + 1 /\ Walk' = Walk
      /\ Processed(m) /\ Running /\ toSkip \in Nat /\ errors \in Nat
  BY Zenon, <1>1, <1>2, TurnFacts
<1> DEFINE e == Walk[next + 1]
<1> HIDE DEF e
<1>4. /\ e.kind = "segment" => e.index = 0 /\ e.index < e.count
      /\ e.index \in Nat /\ e.count \in Nat
  BY Zenon, <1>1, <1>3, AtTurn DEF e, Processed
<1>5. accum = NoFile
  BY Zenon, <1>1, <1>3, <1>4, Accumulated DEF e
<1>6. toSkip' = IF e.kind = "segment" THEN e.count - 1 ELSE 0
  BY Zenon, <1>1, <1>3 DEF RestOfSkipped, e
<1>7. Last(e) <=> ~(toSkip' > 0)
  BY <1>4, <1>6 DEF Last
<1>8. /\ Placed(next)' /\ Cardinality(Ended(next)) \in Nat
      /\ Cardinality(Ended(next)') = Cardinality(Ended(next)) + (IF Last(e) THEN 1 ELSE 0)
  BY Zenon, <1>1, <1>3, NoItem DEF e
<1>9. /\ Len(stream) \in Nat
      /\ Len(stream) + errors = Cardinality(Ended(next)) + (IF toSkip > 0 THEN 1 ELSE 0)
  BY Zenon, <1>1, DrainStream
<1>10. Len(stream') + errors' = Cardinality(Ended(next)') + (IF toSkip' > 0 THEN 1 ELSE 0)
  BY <1>1, <1>3, <1>7, <1>8, <1>9
<1>11. consumer' \in {"recv", "drain"} /\ accum' = NoFile
  BY Zenon, <1>1, <1>5
<1> QED BY Zenon, <1>8, <1>10, <1>11, StreamGoesOn

\* A later segment begins where the entry before it ends.
LEMMA ContinuesAt ==
  ASSUME PipeInv, next + 1 \in 1..Len(Walk), NEW e, e = Walk[next + 1]
  PROVE  /\ e \in Entries /\ e.kind \in Kinds /\ e.name \in STRING /\ e.len \in Nat /\ e.offset \in Nat
         /\ e.index \in Nat /\ e.count \in Nat
         /\ e.kind \in {"file", "segment"} \/ e.len = 0
         /\ e.offset = 0 \/ (e.kind = "segment" /\ e.index # 0)
         /\ e.kind = "segment" /\ e.index # 0 => e.offset = End(Walk[next])
<1>1. Shape(Walk) /\ e \in Entries
  BY Zenon, WalkIsShape DEF PipeInv
<1>2. /\ e.kind \in Kinds /\ e.name \in STRING /\ e.len \in Nat /\ e.offset \in Nat
      /\ e.index \in Nat /\ e.count \in Nat
      /\ e.kind \in {"file", "segment"} \/ e.len = 0
      /\ e.offset = 0 \/ (e.kind = "segment" /\ e.index # 0)
  BY <1>1 DEF Entries
<1>3. ASSUME e.kind = "segment", e.index # 0 PROVE e.offset = End(Walk[next])
  <2>1. e.index > 0
    BY <1>2, <1>3
  <2>2. Follows(Walk[(next + 1) - 1], Walk[next + 1])
    BY Zenon, <1>1, <1>3, <2>1 DEF Shape
  <2>3. (next + 1) - 1 = next
    BY DEF PipeInv, TypeOK
  <2> QED BY Zenon, <2>2, <2>3 DEF Follows
<1> QED BY Zenon, <1>1, <1>2, <1>3

\* The bytes of a large file after one more segment.
LEMMA ExtendedTiles ==
  ASSUME PipeInv, StreamInv, consumer = "drain", toSkip = 0, NEW m \in Turn, next + 1 \in 1..Len(Walk),
         EntryOf(m) = Walk[next + 1], EntryOf(m).kind = "segment"
  PROVE  Extended(EntryOf(m)).parts \in Seq(Parts) /\ Tiles(Extended(EntryOf(m)).parts, End(EntryOf(m)))
<1> DEFINE e == EntryOf(m)
           x == [offset |-> e.offset, len |-> e.len]
           before == IF e.index = 0 THEN << >> ELSE accum.parts
<1>1. /\ e.len \in Nat /\ e.offset \in Nat
      /\ e.index = 0 => e.offset = 0
      /\ e.index # 0 => e.offset = End(Walk[next])
  BY Zenon, ContinuesAt
<1>2. before \in Seq(Parts) /\ Tiles(before, e.offset)
  <2>1. CASE e.index = 0
    <3>1. << >> \in Seq(Parts)
      OBVIOUS
    <3> QED BY Zenon, <1>1, <2>1, <3>1, TilesNone
  <2>2. CASE e.index # 0
    <3>1. accum # NoFile
      BY Zenon, <2>2, Accumulated
    <3> QED BY Zenon, <1>1, <2>2, <3>1, DrainStream
  <2> QED BY Zenon, <2>1, <2>2
<1>3. Extended(e).parts = before \o <<x>>
  BY DEF Extended
<1>4. x \in Parts /\ x.offset = e.offset /\ x.len = e.len
  BY <1>1 DEF Parts
<1> HIDE DEF before, x, e
<1>5. before \o <<x>> \in Seq(Parts) /\ Tiles(before \o <<x>>, x.offset + x.len)
  BY Zenon, <1>2, <1>4, TilesExtend
<1> QED BY Zenon, <1>3, <1>4, <1>5 DEF End, e

\* The item of an entry that is no segment.
LEMMA ItemTiles ==
  ASSUME PipeInv, next + 1 \in 1..Len(Walk), NEW e, e = Walk[next + 1], e.kind # "segment"
  PROVE  Item(e) \in Items /\ Item(e).name = e.name /\ Tiles(Item(e).parts, End(e))
<1>1. /\ e.name \in STRING /\ e.len \in Nat /\ e.offset = 0 /\ (e.kind # "file" => e.len = 0)
  <2>1. e.name \in STRING /\ e.len \in Nat /\ (e.kind \in {"file", "segment"} \/ e.len = 0)
    BY Zenon, ContinuesAt
  <2>2. e.offset = 0
    BY Zenon, ContinuesAt
  <2> QED BY Zenon, ContinuesAt, <2>1, <2>2
<1>2. End(e) = e.len
  BY <1>1 DEF End
<1>3. CASE e.kind = "file"
  <2> DEFINE x == [offset |-> 0, len |-> e.len]
  <2>1. Item(e) = [name |-> e.name, parts |-> <<x>>]
    BY Zenon, <1>3 DEF Item
  <2>2. x \in Parts /\ x.offset = 0 /\ x.len = e.len
    BY <1>1 DEF Parts
  <2> HIDE DEF x
  <2>3. <<x>> \in Seq(Parts) /\ Len(<<x>>) = 1 /\ DOMAIN <<x>> = {1} /\ <<x>>[1] = x
    BY <2>2
  <2>4. Tiles(<<x>>, e.len)
    <3>1. 1 - 1 = 0 /\ 1 # 0 /\ 0 + e.len = e.len
      BY <1>1
    <3> QED BY <2>2, <2>3, <3>1 DEF Tiles
  <2> QED BY <1>1, <1>2, <2>1, <2>3, <2>4 DEF Items
<1>4. CASE e.kind # "file"
  <2>1. Item(e) = [name |-> e.name, parts |-> << >>]
    BY Zenon, <1>4 DEF Item
  <2>2. End(e) = 0
    BY Zenon, <1>1, <1>2, <1>4
  <2> QED BY <1>1, <2>1, <2>2, TilesNone DEF Items
<1> QED BY Zenon, <1>3, <1>4

\* Consume: the last entry of an object adds its item, the others add none.
LEMMA ConsumeStream ==
  ASSUME PipeInv, StreamInv, Consume
  PROVE  StreamInv'
<1>1. PICK m \in Turn :
        /\ consumer = "drain" /\ toSkip = 0 /\ RemovePending(m)
        /\ accum' = IF EntryOf(m).kind # "segment" THEN accum
                    ELSE IF EntryOf(m).index = EntryOf(m).count - 1 THEN NoFile ELSE Extended(EntryOf(m))
        /\ stream' = stream \o Completed(EntryOf(m))
        /\ UNCHANGED <<source, seq, grant, work, worker, results, consumer, toSkip, errors>>
  BY Zenon DEF Consume
<1>2. /\ next + 1 \in 1..Len(Walk) /\ EntryOf(m) = Walk[next + 1] /\ next' = next + 1 /\ Walk' = Walk
      /\ errors \in Nat /\ Running
  BY Zenon, <1>1, TurnFacts
<1>3. /\ Placed(next) /\ Len(stream) \in Nat /\ stream \in Seq(Items)
      /\ Len(stream) + errors = Cardinality(Ended(next)) + (IF toSkip > 0 THEN 1 ELSE 0)
  BY Zenon, <1>1, DrainStream
<1> DEFINE e == EntryOf(m)
<1> HIDE DEF e
<1>4. e = Walk[next + 1] /\ e = Walk'[next'] /\ e.name \in STRING /\ e.index \in Nat /\ e.count \in Nat
  BY Zenon, <1>2, ContinuesAt DEF e
<1>5. consumer' \in {"recv", "drain"} /\ consumer' = "drain"
  BY Zenon, <1>1
<1>6. ASSUME NEW x \in Items, stream' = stream \o <<x>>, x.name = e.name, Tiles(x.parts, End(e)), Last(e),
             accum' = NoFile
      PROVE  StreamInv'
  <2>1. /\ Placed(next)' /\ Cardinality(Ended(next)) \in Nat /\ Len(stream') = Len(stream) + 1
        /\ Cardinality(Ended(next)') = Cardinality(Ended(next)) + 1
    BY Zenon, <1>1, <1>2, <1>4, <1>5, <1>6, OneItem
  <2>2. Len(stream') + errors' = Cardinality(Ended(next)') + (IF toSkip' > 0 THEN 1 ELSE 0)
    <3>1. errors' = errors /\ toSkip = 0 /\ toSkip' = 0
      BY Zenon, <1>1
    <3> QED BY <1>2, <1>3, <2>1, <3>1
  <2> QED BY Zenon, <1>5, <1>6, <2>1, <2>2, StreamGoesOn
<1>7. CASE e.kind # "segment"
  <2>1. Completed(e) = <<Item(e)>>
    BY Zenon, <1>7 DEF Completed
  <2>2. Item(e) \in Items /\ Item(e).name = e.name /\ Tiles(Item(e).parts, End(e)) /\ Last(e)
    BY Zenon, <1>2, <1>4, <1>7, ItemTiles DEF Last
  <2>3. accum' = NoFile
    BY Zenon, <1>1, <1>2, <1>7, Accumulated DEF e
  <2> QED BY Zenon, <1>1, <1>6, <2>1, <2>2, <2>3 DEF e
<1>8. CASE e.kind = "segment"
  <2> DEFINE p == Extended(e).parts
  <2>1. p \in Seq(Parts) /\ Tiles(p, End(e))
    BY Zenon, <1>1, <1>2, <1>8, ExtendedTiles DEF e
  <2> HIDE DEF p
  <2>2. Last(e) <=> e.index = e.count - 1
    BY <1>4, <1>8 DEF Last
  <2>3. CASE e.index = e.count - 1
    <3> DEFINE x == [name |-> e.name, parts |-> p]
    <3>1. Completed(e) = <<x>>
      BY Zenon, <1>8, <2>3 DEF Completed, p
    <3>2. x \in Items /\ x.name = e.name /\ x.parts = p
      BY <1>4, <2>1 DEF Items
    <3> HIDE DEF x
    <3>3. accum' = NoFile
      BY Zenon, <1>1, <1>8, <2>3 DEF e
    <3> QED BY Zenon, <1>1, <1>6, <2>1, <2>2, <2>3, <3>1, <3>2, <3>3 DEF e
  <2>4. CASE e.index # e.count - 1
    <3>1. Completed(e) = << >> /\ accum' = Extended(e)
      BY Zenon, <1>1, <1>8, <2>4 DEF Completed, e
    <3>2. stream' = stream
      <4>1. stream' = stream \o << >>
        BY Zenon, <1>1, <3>1 DEF e
      <4> QED BY <1>3, <4>1
    <3>3. /\ Placed(next)' /\ Cardinality(Ended(next)) \in Nat
          /\ Cardinality(Ended(next)') = Cardinality(Ended(next)) + 0
      BY Zenon, <1>1, <1>2, <1>4, <1>5, <2>2, <2>4, <3>2, NoItem
    <3>4. Len(stream') + errors' = Cardinality(Ended(next)') + (IF toSkip' > 0 THEN 1 ELSE 0)
      BY <1>1, <1>2, <1>3, <3>2, <3>3
    <3>5. accum'.parts \in Seq(Parts) /\ Tiles(accum'.parts, End(Walk'[next']))
      BY Zenon, <1>4, <2>1, <3>1 DEF p
    <3> QED BY Zenon, <1>5, <3>3, <3>4, <3>5, StreamGoesOn
  <2> QED BY Zenon, <2>3, <2>4
<1> QED BY Zenon, <1>7, <1>8

\* The other threads and the signal handler do not touch what the consumer has.
LEMMA OthersStream ==
  ASSUME StreamInv,
         WalkThread \/ (\E w \in Workers : WorkerThread(w)) \/ Interrupt \/ UNCHANGED vars
  PROVE  StreamInv'
<1>1. UNCHANGED <<source, consumer, consumerVars, err>> /\ (shutdown => shutdown')
  <2>1. CASE WalkThread
    <3>1. CASE WalkEnds
      BY Zenon, <3>1 DEF WalkEnds
    <3>5. CASE WalkYields
      BY Zenon, <3>5 DEF WalkYields
    <3>2. CASE WalkReports
      BY Zenon, <3>2 DEF WalkReports
    <3>3. CASE Acquire
      BY Zenon, <3>3 DEF Acquire
    <3>4. CASE WalkSends
      BY Zenon, <3>4 DEF WalkSends
    <3> QED BY Zenon, <2>1, <3>1, <3>2, <3>3, <3>4, <3>5 DEF WalkThread
  <2>2. CASE \E w \in Workers : WorkerThread(w)
    <3>1. PICK w \in Workers : Take(w) \/ Starve(w) \/ Process(w) \/ Deliver(w)
      BY Zenon, <2>2 DEF WorkerThread
    <3>2. CASE Process(w)
      BY Zenon, <3>2 DEF Process
    <3>3. CASE Take(w)
      BY Zenon, <3>3 DEF Take, walkVars
    <3>5. CASE Starve(w)
      BY Zenon, <3>5 DEF Starve, walkVars
    <3>4. CASE Deliver(w)
      BY Zenon, <3>4 DEF Deliver, walkVars
    <3> QED BY Zenon, <3>1, <3>2, <3>3, <3>4, <3>5
  <2>3. CASE Interrupt
    BY Zenon, <2>3 DEF Interrupt, walkVars
  <2>4. CASE UNCHANGED vars
    BY Zenon, <2>4 DEF vars, walkVars
  <2> QED BY Zenon, <2>1, <2>2, <2>3, <2>4
<1> QED BY Zenon, <1>1, StreamFrame DEF consumerVars

\* An error ends the loop.
LEMMA ErrorStream ==
  ASSUME PipeInv, ConsumeError \/ ConsumeFails \/ ConsumeReturns \/ AppendFails
  PROVE  StreamInv'
<1>1. "worker" # "none" /\ "commit" # "none"
  OBVIOUS
<1>2. CASE ConsumeError
  <2>1. PICK m \in Turn :
          /\ consumer = "drain" /\ toSkip = 0 /\ RemovePending(m)
          /\ ~Tolerated(m) => GiveUp("worker")
          /\ UNCHANGED <<source, seq, grant, work, worker, results>>
    BY Zenon, <1>2 DEF ConsumeError
  <2>2. next + 1 \in 1..Len(Walk) /\ EntryOf(m) = Walk[next + 1] /\ Processed(m)
    BY Zenon, <2>1, TurnFacts
  <2>3. ~Tolerated(m)
    BY Zenon, <2>1, <2>2, Accumulated DEF Tolerated, Processed
  <2> QED BY Zenon, <1>1, <2>1, <2>3, StopsOwes DEF GiveUp
<1>3. CASE ConsumeFails
  BY Zenon, <1>1, <1>3, StopsOwes DEF ConsumeFails, GiveUp
<1>4. CASE ConsumeReturns
  BY Zenon, <1>4, StopsOwes DEF ConsumeReturns
<1>5. CASE AppendFails
  BY Zenon, <1>1, <1>5, StopsOwes DEF AppendFails, GiveUp
<1> QED BY Zenon, <1>2, <1>3, <1>4, <1>5

\* The loop goes from receiving to draining and back.
LEMMA LoopStream ==
  ASSUME PipeInv, StreamInv, consumer \in {"recv", "drain"}, consumer' \in {"recv", "drain"},
         UNCHANGED <<source, next, accum, toSkip, stream, errors>>
  PROVE  StreamInv'
<1>1. Walk' = Walk
  BY Zenon, SameWalk
<1>2. Placed(next)' /\ Ended(next)' = Ended(next)
  BY Zenon, <1>1 DEF StreamInv, Placed, Ended
<1> QED BY Zenon, <1>1, <1>2, StreamGoesOn DEF StreamInv

\* ReceiveResult and DrainEnds.
LEMMA ReceiveStream ==
  ASSUME PipeInv, StreamInv, ReceiveResult \/ DrainEnds
  PROVE  StreamInv'
<1>1. CASE ReceiveResult
  <2>1. /\ consumer = "recv" /\ UNCHANGED <<source, next, accum, toSkip, stream, errors>>
        /\ GiveUp("interrupted") \/ GiveUp("walk") \/ consumer' = "drain"
    BY Zenon, <1>1 DEF ReceiveResult
  <2>2. CASE consumer' = "drain"
    BY Zenon, <2>1, <2>2, LoopStream
  <2>3. CASE GiveUp("interrupted") \/ GiveUp("walk")
    <3>1. "interrupted" # "none" /\ "walk" # "none"
      OBVIOUS
    <3> QED BY Zenon, <2>3, <3>1, StopsOwes DEF GiveUp
  <2> QED BY Zenon, <2>1, <2>2, <2>3
<1>2. CASE DrainEnds
  <2>1. consumer = "drain" /\ consumer' = "recv" /\ UNCHANGED <<source, next, accum, toSkip, stream, errors>>
    BY Zenon, <1>2 DEF DrainEnds, walkVars, consumerVars
  <2> QED BY Zenon, <2>1, LoopStream
<1> QED BY Zenon, <1>1, <1>2

\* The loop ends: every entry was consumed, or the flag is set.
LEMMA ExhaustedStream ==
  ASSUME PipeInv, StreamInv, Exhausted
  PROVE  StreamInv'
<1>1. /\ consumer = "recv" /\ results = << >> /\ walker = "gone" /\ \A w \in Workers : worker[w].at = "gone"
      /\ consumer' = "close" /\ UNCHANGED <<source, next, stream, errors, shutdown>>
  BY Zenon DEF Exhausted, walkVars, consumerVars
<1>2. /\ "close" \notin {"recv", "drain"} /\ "close" # "closed" /\ "recv" # "closed"
      /\ "recv" \in {"recv", "drain"} /\ "recv" \in {"recv", "drain", "append"}
  OBVIOUS
<1>3. ASSUME ~shutdown PROVE Complete'
  <2>1. Running
    BY Zenon, <1>1, <1>2 DEF PipeInv, ThreadsInv, Running
  <2>2. next = Len(Walk) /\ toSkip = 0
    BY Zenon, <1>1, <1>3, <2>1, AllConsumed
  <2>3. Placed(next) /\ Len(stream) + errors = Cardinality(Ended(next)) + (IF toSkip > 0 THEN 1 ELSE 0)
    BY Zenon, <1>1, <1>2 DEF StreamInv
  <2>4. Placed(Len(Walk))' /\ Ended(Len(Walk))' = Ended(next)
    <3>1. Walk' = Walk
      BY Zenon, <1>1, SameWalk
    <3>2. Placed(Len(Walk)) /\ Ended(Len(Walk)) = Ended(next)
      BY Zenon, <2>2, <2>3
    <3> QED BY Zenon, <1>1, <3>1, <3>2 DEF Placed, Ended
  <2>5. Len(stream) + errors = Cardinality(Ended(next))
    <3>1. IsFiniteSet(Ended(next)) /\ Cardinality(Ended(next)) \in Nat /\ ~(toSkip > 0)
      <4>1. next \in Nat /\ ~(toSkip > 0)
        BY <2>2 DEF PipeInv, TypeOK
      <4> QED BY Zenon, <4>1, EndedGrows
    <3>2. Cardinality(Ended(next)) + 0 = Cardinality(Ended(next))
      BY <3>1
    <3> QED BY Zenon, <2>3, <3>1, <3>2
  <2> QED BY Zenon, <1>1, <2>4, <2>5 DEF Complete
<1> QED BY Zenon, <1>1, <1>2, <1>3 DEF StreamInv, Succeeded

\* Close: the verdict is success only with a complete item stream.
LEMMA CloseStream ==
  ASSUME PipeInv, StreamInv, Close
  PROVE  StreamInv'
<1>1. /\ consumer = "close" /\ consumer' = "closed" /\ err' = Verdict /\ source' = source
      /\ err' = "none" => UNCHANGED <<stream, errors>>
  BY Zenon DEF Close, walkVars
<1>2. "closed" \notin {"recv", "drain"} /\ "closed" # "close" /\ "incomplete" # "none" /\ "interrupted" # "none"
  OBVIOUS
<1>3. ASSUME err' = "none" PROVE Complete'
  <2>1. err = "none" /\ ~shutdown
    BY Zenon, <1>1, <1>2, <1>3 DEF Verdict
  <2>2. Complete
    BY Zenon, <1>1, <2>1 DEF StreamInv
  <2>3. Walk' = Walk
    BY Zenon, <1>1, SameWalk
  <2>4. Placed(Len(Walk))' /\ Ended(Len(Walk))' = Ended(Len(Walk))
    BY Zenon, <1>1, <1>3, <2>2, <2>3 DEF Complete, Placed, Ended
  <2> QED BY Zenon, <1>1, <1>3, <2>2, <2>4 DEF Complete
<1> QED BY Zenon, <1>1, <1>2, <1>3 DEF StreamInv, Succeeded

\* The initial states.
LEMMA InitStream ==
  ASSUME Init
  PROVE  StreamInv
<1>1. /\ consumer = "recv" /\ next = 0 /\ accum = NoFile /\ toSkip = 0 /\ stream = << >> /\ errors = 0
  BY Zenon DEF Init
<1>2. stream \in Seq(Items) /\ DOMAIN stream = {} /\ Len(stream) = 0 /\ ~(toSkip > 0) /\ 1..0 = {} /\ 0 + 0 = 0
  BY <1>1
<1>3. Ended(next) = {}
  BY Zenon, <1>1, <1>2 DEF Ended
<1>4. Placed(next)
  <2> DEFINE at == [k \in DOMAIN stream |-> 0]
  <2>1. at \in [DOMAIN stream -> Ended(next)]
    BY Zenon, <1>2
  <2> HIDE DEF at
  <2> QED BY Zenon, <1>2, <2>1 DEF Placed
<1>5. Cardinality(Ended(next)) = 0
  BY Zenon, <1>3, FS_EmptySet
<1>6. "recv" # "close" /\ "recv" # "closed"
  OBVIOUS
<1> QED BY Zenon, <1>1, <1>2, <1>4, <1>5, <1>6 DEF StreamInv, Succeeded

\* What the consumer has at the end of a run that succeeds, told by the objects of the source.
LEMMA CompleteSnapshot ==
  ASSUME TypeOK, Succeeded, Complete
  PROVE  SnapshotComplete
<1>1. source \in Sources /\ source \in Seq(Objects)
  BY Zenon, PipelineAssumption DEF TypeOK
<1>2. Walk = WalkOf(source)
  BY Zenon, <1>1 DEF Walk, WalkEntries
<1>3. PICK f : Matches(Walk, source, Len(source), f)
  BY Zenon, <1>1, <1>2, WalkShape
<1> DEFINE F == Finals(Walk)
<1>4. Ended(Len(Walk)) = F /\ Visible = Seen(source, Len(source))
  <2>1. DOMAIN source = 1..Len(source)
    BY <1>1
  <2> QED BY Zenon, <2>1 DEF Ended, Finals, Visible, Seen
<1>5. /\ f \in [F -> Visible]
      /\ \A j, k \in F : j < k => f[j] < f[k]
      /\ \A o \in Visible : \E k \in F : f[k] = o
      /\ \A k \in F : /\ Walk[k].name = source[f[k]].name
                      /\ source[f[k]].type = "file" /\ ~source[f[k]].cached => End(Walk[k]) = source[f[k]].size
  BY Zenon, <1>3, <1>4 DEF Matches
<1>6. Len(Walk) \in Nat /\ \A k \in F : k \in Nat
  <2>1. Len(Walk) \in Nat
    BY Zenon, WalkIsShape
  <2> QED BY <2>1 DEF Finals
<1>7. \A o \in Visible : o \in Nat
  BY <1>1 DEF Visible
<1> HIDE DEF F
<1>8. Cardinality(F) = Cardinality(Visible)
  <2>1. \A j, k \in F : f[j] = f[k] => j = k
    <3>1. \A j, k \in F : j < k \/ k < j \/ j = k
      BY <1>6
    <3>2. \A j \in F : f[j] \in Nat
      BY Zenon, <1>5, <1>7
    <3>3. \A j, k \in F : f[j] < f[k] => f[j] # f[k]
      BY <3>2
    <3> QED BY Zenon, <1>5, <3>1, <3>3
  <2>2. f \in Bijection(F, Visible)
    <3>1. DOMAIN f = F
      BY Zenon, <1>5
    <3>2. IsInjective(f)
      BY Zenon, <2>1, <3>1 DEF IsInjective
    <3> QED BY Zenon, <1>5, <3>2 DEF Bijection, Injection, Surjection
  <2>3. ExistsBijection(F, Visible)
    BY Zenon, <2>2 DEF ExistsBijection
  <2>4. IsFiniteSet(F)
    BY Zenon, <1>4, <1>6, EndedGrows
  <2> QED BY Zenon, <2>3, <2>4, FS_Bijection
<1>9. PICK at \in [DOMAIN stream -> F] :
         /\ \A j, k \in DOMAIN stream : j < k => at[j] < at[k]
         /\ \A k \in DOMAIN stream : /\ stream[k].name = Walk[at[k]].name
                                     /\ Tiles(stream[k].parts, End(Walk[at[k]]))
  BY Zenon, <1>4 DEF Complete, Placed
<1> DEFINE place == [k \in DOMAIN stream |-> f[at[k]]]
<1>10. place \in [DOMAIN stream -> Visible] /\ \A k \in DOMAIN stream : place[k] = f[at[k]] /\ at[k] \in F
  BY Zenon, <1>5, <1>9
<1> HIDE DEF place
<1>11. \A j, k \in DOMAIN stream : j < k => place[j] < place[k]
  BY Zenon, <1>5, <1>9, <1>10
<1>12. ASSUME NEW k \in DOMAIN stream
       PROVE  /\ stream[k].name = source[place[k]].name
              /\ source[place[k]].type = "file" /\ ~source[place[k]].cached =>
                   Tiles(stream[k].parts, source[place[k]].size)
  <2>1. PICK j \in F : j = at[k] /\ place[k] = f[j]
    BY Zenon, <1>10
  <2>2. stream[k].name = Walk[j].name /\ Tiles(stream[k].parts, End(Walk[j]))
    BY Zenon, <1>9, <2>1
  <2>3. /\ Walk[j].name = source[f[j]].name
        /\ source[f[j]].type = "file" /\ ~source[f[j]].cached => End(Walk[j]) = source[f[j]].size
    BY Zenon, <1>5
  <2> QED BY Zenon, <2>1, <2>2, <2>3
<1>13. Len(stream) + errors = Cardinality(Visible)
  BY Zenon, <1>4, <1>8 DEF Complete
<1> QED BY Zenon, <1>10, <1>11, <1>12, <1>13 DEF SnapshotComplete

\* A run that reports success has, for any number of workers, any depth of the channels,
\* any capacity of the byte budget, any segment size and any sources, put every object of
\* the source into the item stream in the order of the walk or has counted one error for
\* it, and the item of a file that was read covers the whole file.
THEOREM SnapshotIsComplete == Spec => []SnapshotComplete
<1>1. Init => StreamInv
  BY Zenon, InitStream
<1>2. PipeInv /\ StreamInv /\ [Next]_vars => StreamInv'
  <2> SUFFICES ASSUME PipeInv, StreamInv, [Next]_vars PROVE StreamInv'
    BY Zenon
  <2>1. CASE Consumer
    BY Zenon, <2>1, ReceiveStream, DrainSkippedStream, CountSkippedStream, ErrorStream, ConsumeStream,
       ExhaustedStream, CloseStream DEF Consumer
  <2>2. CASE ~Consumer
    BY Zenon, <2>2, OthersStream DEF Next, Threads
  <2> QED BY Zenon, <2>1, <2>2
<1>3. PipeInv /\ StreamInv => SnapshotComplete
  BY Zenon, CompleteSnapshot DEF StreamInv, PipeInv, SnapshotComplete
<1> QED BY <1>1, <1>2, <1>3, InvariantHolds, PTL DEF Spec

================================================================================
