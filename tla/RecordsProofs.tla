---------------------------- MODULE RecordsProofs ----------------------------
(***************************************************************************)
(* For every set of files, of changes and of column names, and rows and    *)
(* values of any length: a hyperloop that is built can run, Nomios's own   *)
(* state is never captured, a replay gives the same bytes, and two records *)
(* of a table carry the same key exactly when they are of one entity.      *)
(***************************************************************************)
EXTENDS Records, WellFoundedInduction, FiniteSetTheorems, SequenceTheorems, TLAPS

----------------------------------------------------------------------------
(* Least elements and induction over the natural numbers, stated of sets: a *)
(* lemma of sets can be cited with the set an argument is about.           *)

\* A set of natural numbers that is not empty has a least element.
LEMMA LeastElement ==
    ASSUME NEW T \in SUBSET Nat, T # {}
    PROVE  \E x \in T : \A y \in T : x <= y
<1> DEFINE Less == OpToRel(<, Nat)
<1>1. IsWellFoundedOn(Less, Nat)
  BY NatLessThanWellFounded
<1>2. \A x, y \in Nat : <<y, x>> \in Less <=> y < x
  BY DEF OpToRel
<1> HIDE DEF Less
<1>3. PICK x \in T : \A y \in T : ~(<<y, x>> \in Less)
  BY <1>1, WFMin
<1>4. \A y \in T : y \in Nat /\ x \in Nat /\ ~(y < x)
  BY <1>2, <1>3
<1>5. \A y \in T : x <= y
  BY <1>4
<1> QED
  BY <1>5

\* Induction: a set with 0 and the successors of its elements is all of Nat.
LEMMA SetInduction ==
    ASSUME NEW T \in SUBSET Nat, 0 \in T, \A n \in T : n + 1 \in T
    PROVE  \A n \in Nat : n \in T
<1> SUFFICES ASSUME Nat \ T # {} PROVE FALSE
  OBVIOUS
<1>1. PICK x \in Nat \ T : \A y \in Nat \ T : x <= y
  BY LeastElement
<1>2. x # 0 /\ x - 1 \in Nat /\ ~(x <= x - 1) /\ (x - 1) + 1 = x
  BY <1>1
<1>3. x - 1 \in T
  BY <1>1, <1>2
<1> QED
  BY <1>1, <1>2, <1>3

----------------------------------------------------------------------------
(* Flattening a sequence of sequences, step by step *)

FlatTo(g, ss, n) == g = [i \in 1..n |-> IF i = 1 THEN ss[i] ELSE g[i - 1] \o ss[i]]

LEMMA FlatIs ==
    ASSUME NEW ss, Len(ss) # 0
    PROVE  FlattenSeq(ss) = (CHOOSE g : FlatTo(g, ss, Len(ss)))[Len(ss)]
  BY DEF FlattenSeq, FlatTo

LEMMA FlatExists ==
    ASSUME NEW S, NEW ss \in Seq(Seq(S))
    PROVE  \A n \in Nat : n + 1 <= Len(ss) =>
              \E g : FlatTo(g, ss, n + 1) /\ \A i \in 1..(n + 1) : g[i] \in Seq(S)
<1> DEFINE Ok(n) == \E g : FlatTo(g, ss, n + 1) /\ \A i \in 1..(n + 1) : g[i] \in Seq(S)
           T == {n \in Nat : n + 1 <= Len(ss) => Ok(n)}
<1>0. Len(ss) \in Nat /\ \A i \in 1..Len(ss) : ss[i] \in Seq(S)
  OBVIOUS
<1>1. 0 \in T
  <2> SUFFICES ASSUME 0 + 1 <= Len(ss) PROVE Ok(0)
    OBVIOUS
  <2> DEFINE g == [i \in 1..1 |-> ss[i]]
  <2>1. ss[1] \in Seq(S)
    BY <1>0
  <2>2. g = [i \in 1..1 |-> IF i = 1 THEN ss[i] ELSE g[i - 1] \o ss[i]] /\ \A i \in 1..1 : g[i] \in Seq(S)
    BY <2>1
  <2>3. 0 + 1 = 1
    OBVIOUS
  <2> QED
    BY <2>2, <2>3 DEF FlatTo
<1>2. ASSUME NEW n \in T PROVE n + 1 \in T
  <2> DEFINE k == n + 1
  <2>1. SUFFICES ASSUME k + 1 <= Len(ss) PROVE Ok(k)
    OBVIOUS
  <2>2. k \in Nat /\ k >= 1 /\ k <= Len(ss) /\ k + 1 \in 1..Len(ss)
    BY <1>0, <2>1
  <2>3. PICK g : FlatTo(g, ss, k) /\ \A i \in 1..k : g[i] \in Seq(S)
    BY <2>2
  <2> HIDE DEF k
  <2> DEFINE h == [i \in 1..(k + 1) |-> IF i = k + 1 THEN g[k] \o ss[k + 1] ELSE g[i]]
  <2>4. \A i \in 1..k : g[i] = IF i = 1 THEN ss[i] ELSE g[i - 1] \o ss[i]
    BY <2>3 DEF FlatTo
  <2>5. ASSUME NEW i \in 1..(k + 1)
        PROVE  /\ h[i] = IF i = 1 THEN ss[i] ELSE h[i - 1] \o ss[i]
               /\ h[i] \in Seq(S)
    <3>1. CASE i = k + 1
      <4>1. i # 1 /\ i - 1 = k /\ k \in 1..(k + 1) /\ k # k + 1 /\ k \in 1..k
        BY <2>2, <3>1
      <4>2. g[k] \in Seq(S) /\ ss[k + 1] \in Seq(S)
        BY <1>0, <2>2, <2>3, <4>1
      <4>3. g[k] \o ss[k + 1] \in Seq(S)
        BY <4>2, ConcatProperties
      <4> QED
        BY <3>1, <4>1, <4>3
    <3>2. CASE i # k + 1
      <4>1. i \in 1..k /\ (i # 1 => i - 1 \in 1..(k + 1) /\ i - 1 # k + 1)
        BY <2>2, <3>2
      <4> QED
        BY <2>3, <2>4, <3>2, <4>1
    <3> QED
      BY <3>1, <3>2
  <2>6. FlatTo(h, ss, k + 1)
    <3> DEFINE d == [i \in 1..(k + 1) |-> IF i = 1 THEN ss[i] ELSE h[i - 1] \o ss[i]]
    <3>1. h = d
      BY <2>5
    <3> QED
      BY <3>1 DEF FlatTo
  <2> HIDE DEF h
  <2> QED
    BY <2>5, <2>6
<1>3. T \in SUBSET Nat
  OBVIOUS
<1> HIDE DEF T
<1>4. \A n \in Nat : n \in T
  BY <1>1, <1>2, <1>3, SetInduction
<1> QED
  BY <1>4 DEF T

LEMMA FlatUnique ==
    ASSUME NEW n \in Nat, NEW m \in Nat, n <= m, NEW g, NEW h, NEW ss, NEW tt,
           FlatTo(g, ss, n), FlatTo(h, tt, m), \A i \in 1..n : ss[i] = tt[i]
    PROVE  \A i \in 1..n : g[i] = h[i]
<1> DEFINE T == {k \in Nat : k + 1 <= n => g[k + 1] = h[k + 1]}
<1>1. /\ \A i \in 1..n : g[i] = IF i = 1 THEN ss[i] ELSE g[i - 1] \o ss[i]
      /\ \A i \in 1..n : i \in 1..m
      /\ \A i \in 1..m : h[i] = IF i = 1 THEN tt[i] ELSE h[i - 1] \o tt[i]
  <2>1. \A i \in 1..n : g[i] = IF i = 1 THEN ss[i] ELSE g[i - 1] \o ss[i]
    BY DEF FlatTo
  <2>2. \A i \in 1..m : h[i] = IF i = 1 THEN tt[i] ELSE h[i - 1] \o tt[i]
    BY DEF FlatTo
  <2>3. \A i \in 1..n : i \in 1..m
    OBVIOUS
  <2> QED
    BY <2>1, <2>2, <2>3
<1>2. 0 \in T
  <2>1. 0 + 1 = 1 /\ (1 <= n => 1 \in 1..n)
    OBVIOUS
  <2> QED
    BY <1>1, <2>1
<1>3. ASSUME NEW k \in T PROVE k + 1 \in T
  <2> DEFINE j == (k + 1) + 1
  <2> SUFFICES ASSUME j <= n PROVE g[j] = h[j]
    OBVIOUS
  <2>1. k \in Nat /\ j \in 1..n /\ j # 1 /\ j - 1 = k + 1 /\ k + 1 <= n
    OBVIOUS
  <2>2. g[k + 1] = h[k + 1]
    BY <2>1
  <2> QED
    BY <1>1, <2>1, <2>2
<1>4. T \in SUBSET Nat
  OBVIOUS
<1> HIDE DEF T
<1>5. \A k \in Nat : k \in T
  BY <1>2, <1>3, <1>4, SetInduction
<1>6. \A k \in Nat : k + 1 <= n => g[k + 1] = h[k + 1]
  BY <1>5 DEF T
<1>7. \A i \in 1..n : i - 1 \in Nat /\ (i - 1) + 1 = i /\ i <= n
  OBVIOUS
<1> QED
  BY <1>6, <1>7

LEMMA FlatType ==
    ASSUME NEW S, NEW ss \in Seq(Seq(S))
    PROVE  /\ FlattenSeq(ss) \in Seq(S)
           /\ Len(ss) # 0 => FlatTo(CHOOSE g : FlatTo(g, ss, Len(ss)), ss, Len(ss))
<1>1. CASE Len(ss) = 0
  <2>1. ss = <<>>
    BY <1>1
  <2>2. FlattenSeq(ss) = ss
    BY <1>1 DEF FlattenSeq
  <2>3. <<>> \in Seq(S)
    OBVIOUS
  <2> QED
    BY <1>1, <2>1, <2>2, <2>3
<1>2. CASE Len(ss) # 0
  <2> DEFINE n == Len(ss)
             G == CHOOSE g : FlatTo(g, ss, n)
  <2>1. n \in Nat /\ n - 1 \in Nat /\ (n - 1) + 1 = n /\ n \in 1..n /\ n <= n
    BY <1>2
  <2>2. PICK g : FlatTo(g, ss, n) /\ \A i \in 1..n : g[i] \in Seq(S)
    <3>1. \E g : FlatTo(g, ss, (n - 1) + 1) /\ \A i \in 1..((n - 1) + 1) : g[i] \in Seq(S)
      BY <2>1, FlatExists
    <3> QED
      BY <2>1, <3>1
  <2>3. FlatTo(G, ss, n) /\ FlattenSeq(ss) = G[n]
    BY <1>2, <2>2, FlatIs
  <2> HIDE DEF G
  <2>4. G[n] = g[n]
    BY <2>1, <2>2, <2>3, FlatUnique
  <2> QED
    BY <2>1, <2>2, <2>3, <2>4 DEF G
<1> QED
  BY <1>1, <1>2

\* One sequence more.
LEMMA FlatAppend ==
    ASSUME NEW S, NEW ss \in Seq(Seq(S)), NEW s \in Seq(S)
    PROVE  FlattenSeq(Append(ss, s)) = FlattenSeq(ss) \o s
<1> DEFINE tt == Append(ss, s)
           n == Len(ss)
           H == CHOOSE g : FlatTo(g, tt, Len(tt))
           G == CHOOSE g : FlatTo(g, ss, n)
<1>1. /\ tt \in Seq(Seq(S)) /\ Len(tt) = n + 1 /\ n \in Nat /\ tt[n + 1] = s
      /\ \A i \in 1..n : ss[i] = tt[i]
  OBVIOUS
<1> HIDE DEF tt
<1>2. Len(tt) # 0
  BY <1>1
<1>3. FlatTo(H, tt, n + 1) /\ FlattenSeq(tt) = H[n + 1]
  BY <1>1, <1>2, FlatType, FlatIs
<1> HIDE DEF H
<1>4. H[n + 1] = IF n + 1 = 1 THEN tt[n + 1] ELSE H[(n + 1) - 1] \o tt[n + 1]
  <2>1. n + 1 \in 1..(n + 1)
    BY <1>1
  <2> QED
    BY <1>3, <2>1 DEF FlatTo
<1>5. CASE n = 0
  <2>1. FlattenSeq(ss) = ss /\ ss = <<>>
    BY <1>5 DEF FlattenSeq
  <2>2. <<>> \o s = s
    BY ConcatEmptySeq
  <2> QED
    BY <1>1, <1>3, <1>4, <1>5, <2>1, <2>2 DEF tt
<1>6. CASE n # 0
  <2>1. n + 1 # 1 /\ (n + 1) - 1 = n /\ n \in 1..n /\ n <= n + 1 /\ n + 1 \in Nat
    BY <1>1, <1>6
  <2>2. FlatTo(G, ss, n) /\ FlattenSeq(ss) = G[n]
    BY <1>6, FlatType, FlatIs
  <2> HIDE DEF G, n
  <2>3. G[n] = H[n]
    <3>0. /\ n \in Nat /\ n + 1 \in Nat /\ n <= n + 1 /\ \A i \in 1..n : ss[i] = tt[i]
          /\ FlatTo(G, ss, n) /\ FlatTo(H, tt, n + 1)
      BY <1>1, <1>3, <2>1, <2>2
    <3>1. \A i \in 1..n : G[i] = H[i]
      BY ONLY <3>0, FlatUnique
    <3> QED
      BY <2>1, <3>1
  <2> QED
    BY <1>1, <1>3, <1>4, <2>1, <2>2, <2>3 DEF tt
<1> QED
  BY <1>5, <1>6

----------------------------------------------------------------------------
(* Induction over sequences, stated of sets of sequences *)

LEMMA SeqInduction ==
    ASSUME NEW S, NEW T \in SUBSET Seq(S), <<>> \in T, \A s \in T, e \in S : Append(s, e) \in T
    PROVE  \A s \in Seq(S) : s \in T
<1> DEFINE M == {n \in Nat : \A s \in Seq(S) : Len(s) = n => s \in T}
<1>1. 0 \in M
  <2>1. \A s \in Seq(S) : Len(s) = 0 => s = <<>>
    OBVIOUS
  <2> QED
    BY <2>1
<1>2. ASSUME NEW n \in M PROVE n + 1 \in M
  <2> SUFFICES ASSUME NEW s \in Seq(S), Len(s) = n + 1 PROVE s \in T
    OBVIOUS
  <2>1. n \in Nat /\ \A t \in Seq(S) : Len(t) = n => t \in T
    OBVIOUS
  <2>2. s # <<>>
    BY <2>1
  <2>3. PICK t \in Seq(S), e \in S : s = Append(t, e)
    BY <2>2, SequenceEmptyOrAppend
  <2>4. Len(t) = n
    <3>1. Len(s) = Len(t) + 1 /\ Len(t) \in Nat
      BY <2>3
    <3> QED
      BY <2>1, <3>1
  <2> QED
    BY <2>1, <2>3, <2>4
<1>3. M \in SUBSET Nat
  OBVIOUS
<1> HIDE DEF M
<1>4. \A n \in Nat : n \in M
  BY <1>1, <1>2, <1>3, SetInduction
<1>5. \A s \in Seq(S) : Len(s) \in Nat
  OBVIOUS
<1> QED
  BY <1>4, <1>5 DEF M

----------------------------------------------------------------------------
(* One value, whichever way go-mysql delivers it *)

LEMMA ImageType ==
    ASSUME NEW vals, IsImage(vals)
    PROVE  /\ Len(vals) \in Nat /\ DOMAIN vals = 1..Len(vals)
           /\ \A i \in 1..Len(vals) : IsValue(vals[i])
  BY DEF IsImage

LEMMA NormalizeForgets ==
    ASSUME NEW v, IsValue(v), NEW kind
    PROVE  Normalize(kind, IF v.t = "chars" THEN [v EXCEPT !.t = "string"] ELSE v)
         = Normalize(kind, IF v.t = "chars" THEN [v EXCEPT !.t = "bytes"] ELSE v)
<1>1. CASE v.t # "chars"
  BY <1>1
<1>2. CASE v.t = "chars"
  <2>1. v \in [t : {"chars"}, s : Seq(STRING)]
    BY <1>2 DEF IsValue, Nil
  <2> QED
    BY <1>2, <2>1 DEF Normalize
<1> QED
  BY <1>1, <1>2

LEMMA MinOfTwo ==
    ASSUME NEW a \in Nat, NEW b \in Nat
    PROVE  Min({a, b}) \in Nat /\ Min({a, b}) <= a /\ Min({a, b}) <= b
<1>1. \E x \in {a, b} : \A y \in {a, b} : x =< y
  OBVIOUS
<1> QED
  BY <1>1 DEF Min

\* A value as it is delivered, and the columns a row has.
As(v, rep) == IF v.t = "chars" THEN [v EXCEPT !.t = rep] ELSE v
Width(schema, vals) == Min({Len(vals), Len(schema.columns)})
Present(schema, vals) == {schema.columns[i] : i \in 1..Width(schema, vals)}
At(schema, vals, n) == CHOOSE i \in 1..Width(schema, vals) : schema.columns[i] = n

IsSchema(schema) ==
    /\ schema.columns \in Seq(Range(Letters)) /\ IsInjective(schema.columns)
    /\ schema.pk \in Seq(STRING)

LEMMA WidthType ==
    ASSUME NEW schema, IsSchema(schema), NEW vals, IsImage(vals)
    PROVE  /\ Width(schema, vals) \in Nat
           /\ Width(schema, vals) <= Len(vals) /\ Width(schema, vals) <= Len(schema.columns)
           /\ \A n \in Present(schema, vals) :
                /\ At(schema, vals, n) \in 1..Width(schema, vals)
                /\ schema.columns[At(schema, vals, n)] = n
           /\ \A i \in 1..Width(schema, vals) :
                At(schema, vals, schema.columns[i]) = i /\ schema.columns[i] \in Present(schema, vals)
<1> DEFINE w == Width(schema, vals)
           at(n) == At(schema, vals, n)
<1>1. Len(vals) \in Nat
  BY ImageType
<1>2. Len(schema.columns) \in Nat /\ DOMAIN schema.columns = 1..Len(schema.columns)
  BY DEF IsSchema
<1>3. w \in Nat /\ w <= Len(vals) /\ w <= Len(schema.columns)
  BY <1>1, <1>2, MinOfTwo DEF Width
<1> HIDE DEF w
<1>4. ASSUME NEW n \in Present(schema, vals)
      PROVE  at(n) \in 1..w /\ schema.columns[at(n)] = n
  <2>1. \E i \in 1..w : schema.columns[i] = n
    BY DEF Present, w
  <2> QED
    BY <2>1 DEF At, w
<1>5. ASSUME NEW i \in 1..w
      PROVE  at(schema.columns[i]) = i /\ schema.columns[i] \in Present(schema, vals)
  <2>1. schema.columns[i] \in Present(schema, vals)
    BY DEF Present, w
  <2>2. at(schema.columns[i]) \in 1..w /\ schema.columns[at(schema.columns[i])] = schema.columns[i]
    BY <1>4, <2>1
  <2> HIDE DEF at
  <2>3. i \in DOMAIN schema.columns /\ at(schema.columns[i]) \in DOMAIN schema.columns
    BY <1>2, <1>3, <2>2
  <2> QED
    BY <2>1, <2>2, <2>3 DEF IsSchema, IsInjective
<1> QED
  BY <1>3, <1>4, <1>5 DEF w

\* mapRow of a delivered row, in these terms.
LEMMA MapRowIs ==
    ASSUME NEW schema, IsSchema(schema), NEW vals, IsImage(vals), NEW rep
    PROVE  mapRow(schema, Delivered(vals, rep)) =
             [n \in Present(schema, vals) |->
                Normalize(schema.kinds[At(schema, vals, n)], As(vals[At(schema, vals, n)], rep))]
<1> DEFINE d == Delivered(vals, rep)
<1>1. Len(vals) \in Nat /\ DOMAIN vals = 1..Len(vals)
  BY ImageType
<1>2. d = [i \in 1..Len(vals) |-> As(vals[i], rep)]
  BY <1>1 DEF Delivered, As
<1>3. Len(d) = Len(vals)
  BY <1>1, <1>2
<1>4. Width(schema, vals) \in Nat /\ Width(schema, vals) <= Len(vals)
  BY WidthType
<1>5. \A n \in Present(schema, vals) : At(schema, vals, n) \in 1..Width(schema, vals)
  BY WidthType
<1>6. \A n \in Present(schema, vals) : d[At(schema, vals, n)] = As(vals[At(schema, vals, n)], rep)
  BY <1>1, <1>2, <1>4, <1>5
<1> HIDE DEF d
<1>7. mapRow(schema, d) = [n \in Present(schema, vals) |->
                Normalize(schema.kinds[At(schema, vals, n)], d[At(schema, vals, n)])]
  BY ONLY <1>3 DEF mapRow, Present, At, Width
<1>8. mapRow(schema, d) = [n \in Present(schema, vals) |->
                Normalize(schema.kinds[At(schema, vals, n)], As(vals[At(schema, vals, n)], rep))]
  BY <1>6, <1>7
<1> QED
  BY <1>8 DEF d

LEMMA RowIsStable ==
    ASSUME NEW schema, IsSchema(schema), NEW vals, IsImage(vals)
    PROVE  mapRow(schema, Delivered(vals, "string")) = mapRow(schema, Delivered(vals, "bytes"))
<1> DEFINE at(n) == At(schema, vals, n)
<1>1. \A n \in Present(schema, vals) : IsValue(vals[at(n)])
  <2>1. \A n \in Present(schema, vals) : at(n) \in 1..Width(schema, vals)
    BY WidthType
  <2>2. Width(schema, vals) \in Nat /\ Width(schema, vals) <= Len(vals)
    BY WidthType
  <2> HIDE DEF at
  <2> QED
    BY <2>1, <2>2, ImageType
<1>2. \A n \in Present(schema, vals) :
        Normalize(schema.kinds[at(n)], As(vals[at(n)], "string"))
      = Normalize(schema.kinds[at(n)], As(vals[at(n)], "bytes"))
  BY <1>1, NormalizeForgets DEF As
<1> HIDE DEF at
<1>3. mapRow(schema, Delivered(vals, "string")) = [n \in Present(schema, vals) |->
        Normalize(schema.kinds[at(n)], As(vals[at(n)], "string"))]
  BY MapRowIs DEF at
<1>4. mapRow(schema, Delivered(vals, "bytes")) = [n \in Present(schema, vals) |->
        Normalize(schema.kinds[at(n)], As(vals[at(n)], "bytes"))]
  BY MapRowIs DEF at
<1> QED
  BY <1>2, <1>3, <1>4

\* What the assumption says of one change.
LEMMA ChangeType ==
    ASSUME NEW c \in Changes
    PROVE  IsSchema(c.schema) /\ IsImage(c.before) /\ IsImage(c.after) /\ IsImage(Image(c))
  BY ChangesAssumption DEF IsSchema, Image

\* The event of a change does not depend on how its values were delivered.
LEMMA EventIsStable ==
    ASSUME NEW c \in Changes, NEW rep \in {"string", "bytes"}
    PROVE  EventOf(c, rep) = EventOf(c, "string")
<1>1. /\ mapRow(c.schema, Delivered(c.before, "string")) = mapRow(c.schema, Delivered(c.before, "bytes"))
      /\ mapRow(c.schema, Delivered(c.after, "string")) = mapRow(c.schema, Delivered(c.after, "bytes"))
  BY ChangeType, RowIsStable
<1>2. CASE rep = "string"
  BY <1>2
<1>3. CASE rep = "bytes"
  BY <1>1, <1>3 DEF EventOf
<1> QED
  BY <1>2, <1>3

----------------------------------------------------------------------------
(* Sorting: column names in order, and only one way to put them in order *)

Columns == Range(Letters)

LEMMA RankType ==
    /\ Len(Letters) \in Nat
    /\ \A c \in Columns : Rank(c) \in 1..Len(Letters) /\ Letters[Rank(c)] = c
<1>1. Letters \in Seq(STRING)
  BY LettersAssumption
<1>2. Len(Letters) \in Nat /\ DOMAIN Letters = 1..Len(Letters)
  BY <1>1
<1>3. ASSUME NEW c \in Columns PROVE Rank(c) \in DOMAIN Letters /\ Letters[Rank(c)] = c
  <2>1. \E i \in DOMAIN Letters : Letters[i] = c
    BY DEF Columns, Range
  <2> QED
    BY <2>1 DEF Rank
<1> QED
  BY <1>2, <1>3

\* s lists the columns of S in order.
Lists(s, S) == s \in Seq(Columns) /\ Ascending(s) /\ \A c : c \in S <=> \E i \in 1..Len(s) : s[i] = c

LEMMA ListsIs ==
    ASSUME NEW s, NEW S, Lists(s, S)
    PROVE  /\ Len(s) \in Nat /\ DOMAIN s = 1..Len(s)
           /\ \A i \in 1..Len(s) : s[i] \in S /\ s[i] \in Columns /\ Rank(s[i]) \in Nat
           /\ \A i, j \in 1..Len(s) : i < j => Rank(s[i]) < Rank(s[j])
           /\ \A c \in S : \E i \in 1..Len(s) : s[i] = c
<1>1. s \in Seq(Columns)
  BY DEF Lists
<1>2. Len(s) \in Nat /\ DOMAIN s = 1..Len(s) /\ \A i \in 1..Len(s) : s[i] \in Columns
  BY <1>1
<1>3. \A i \in 1..Len(s) : Rank(s[i]) \in Nat
  BY <1>2, RankType
<1>4. \A i, j \in 1..Len(s) : i < j => Rank(s[i]) < Rank(s[j])
  BY <1>2 DEF Lists, Ascending, Before
<1>5. /\ \A c \in S : \E i \in 1..Len(s) : s[i] = c
      /\ \A i \in 1..Len(s) : s[i] \in S
  BY DEF Lists
<1> QED
  BY <1>2, <1>3, <1>4, <1>5

\* Where a column is inserted: behind the smaller ones.
LEMMA InsertPlace ==
    ASSUME NEW s, NEW S, Lists(s, S), NEW c \in Columns
    PROVE  \E m \in 0..Len(s) : {i \in DOMAIN s : ~Before(c, s[i])} = 1..m
<1> DEFINE B == {i \in DOMAIN s : ~Before(c, s[i])}
           n == Len(s)
           T == {k \in Nat : k \in 1..(n + 1) /\ k \notin B}
<1>1. /\ n \in Nat /\ DOMAIN s = 1..n
      /\ \A i \in 1..n : s[i] \in Columns /\ Rank(s[i]) \in Nat
      /\ \A i, j \in 1..n : i < j => Rank(s[i]) < Rank(s[j])
  BY ListsIs
<1>2. Rank(c) \in Nat
  BY RankType
<1> HIDE DEF n
<1>3. \A i : i \in B <=> i \in 1..n /\ Rank(s[i]) <= Rank(c)
  BY <1>1, <1>2 DEF Before
<1> HIDE DEF B
<1>4. n + 1 \in T
  BY <1>1, <1>3
<1>5. T \in SUBSET Nat /\ T # {}
  BY <1>4
<1>6. PICK k \in T : \A l \in T : k <= l
  BY <1>5, LeastElement
<1>7. k \in 1..(n + 1) /\ k \notin B /\ \A l \in 1..(n + 1) : l < k => l \in B
  BY <1>1, <1>6
<1>8. \A i \in 1..n : i > k => i \notin B
  <2> SUFFICES ASSUME NEW i \in 1..n, i > k PROVE i \notin B
    OBVIOUS
  <2>1. k \in 1..n /\ k < i
    BY <1>1, <1>7
  <2>2. Rank(s[k]) > Rank(c) /\ Rank(s[k]) < Rank(s[i])
    BY <1>1, <1>2, <1>3, <1>7, <2>1
  <2> QED
    BY <1>1, <1>2, <1>3, <2>1, <2>2
<1>9. k - 1 \in 0..n
  BY <1>1, <1>7
<1>10. \A i : i \in B <=> i \in 1..(k - 1)
  <2>1. \A i : i \in B => i \in 1..(k - 1)
    BY <1>1, <1>3, <1>7, <1>8
  <2>2. \A i : i \in 1..(k - 1) => i \in B
    BY <1>1, <1>7
  <2> QED
    BY <2>1, <2>2
<1>11. B = 1..(k - 1)
  BY <1>10
<1> QED
  BY <1>9, <1>11 DEF B, n

\* InsertAt, element by element.
Inserted(t, C, s, c, m) ==
    /\ t \in Seq(C) /\ Len(t) = Len(s) + 1
    /\ \A i \in 1..(Len(s) + 1) :
        t[i] = IF i <= m THEN s[i] ELSE IF i = m + 1 THEN c ELSE s[i - 1]

LEMMA InsertAtIs ==
    ASSUME NEW C, NEW s \in Seq(C), NEW c \in C, NEW m \in 0..Len(s)
    PROVE  Inserted(InsertAt(s, 1 + m, c), C, s, c, m)
<1> DEFINE n == Len(s)
           l == SubSeq(s, 1, m)
           r == SubSeq(s, m + 1, n)
           t == (l \o <<c>>) \o r
<1>1. n \in Nat /\ m \in Nat /\ m <= n /\ (1 + m) - 1 = m /\ 1 + m = m + 1
  OBVIOUS
<1>2. l \in Seq(C) /\ Len(l) = m /\ \A i \in 1..m : l[i] = s[i]
  BY <1>1
<1>3. r \in Seq(C) /\ Len(r) = n - m /\ \A i \in 1..(n - m) : r[i] = s[m + i]
  BY <1>1
<1>4. InsertAt(s, 1 + m, c) = t
  BY <1>1 DEF InsertAt
<1> HIDE DEF l, r, n
<1> DEFINE lc == l \o <<c>>
<1>5. lc \in Seq(C) /\ Len(lc) = m + 1 /\ (\A i \in 1..m : lc[i] = l[i]) /\ lc[m + 1] = c
  BY <1>1, <1>2
<1> HIDE DEF lc
<1>6. /\ lc \o r \in Seq(C) /\ Len(lc \o r) = n + 1
      /\ \A i \in 1..(m + 1) : (lc \o r)[i] = lc[i]
      /\ \A i \in (m + 2)..(n + 1) : (lc \o r)[i] = r[i - (m + 1)]
  <2>1. Len(lc) + Len(r) = n + 1
    BY <1>1, <1>3, <1>5
  <2>2. lc \o r \in Seq(C) /\ Len(lc \o r) = Len(lc) + Len(r)
    BY <1>3, <1>5, ConcatProperties
  <2>3. \A i \in 1..(n + 1) : (lc \o r)[i] = IF i <= m + 1 THEN lc[i] ELSE r[i - (m + 1)]
    BY <1>3, <1>5, <2>1, ConcatProperties
  <2> QED
    BY <1>1, <2>1, <2>2, <2>3
<1>7. t = lc \o r
  BY DEF lc
<1> HIDE DEF t
<1>8. ASSUME NEW i \in 1..(n + 1)
      PROVE  t[i] = IF i <= m THEN s[i] ELSE IF i = m + 1 THEN c ELSE s[i - 1]
  <2>1. CASE i <= m
    BY <1>1, <1>2, <1>5, <1>6, <1>7, <2>1
  <2>2. CASE i = m + 1
    BY <1>1, <1>5, <1>6, <1>7, <2>2
  <2>3. CASE i > m + 1
    <3>1. i \in (m + 2)..(n + 1) /\ i - (m + 1) \in 1..(n - m) /\ m + (i - (m + 1)) = i - 1
      BY <1>1, <2>3
    <3>2. t[i] = s[i - 1]
      BY <1>3, <1>6, <1>7, <3>1
    <3> QED
      BY <1>1, <2>3, <3>2
  <2> QED
    BY <1>1, <2>1, <2>2, <2>3
<1>9. t \in Seq(C) /\ Len(t) = n + 1
  BY ONLY <1>6, <1>7
<1>10. Inserted(t, C, s, c, m)
  BY ONLY <1>8, <1>9 DEF Inserted, n
<1> QED
  BY <1>4, <1>10

LEMMA InsertLists ==
    ASSUME NEW s, NEW S, Lists(s, S), NEW c \in Columns, c \notin S
    PROVE  Lists(Insert(s, c), S \cup {c}) /\ Len(Insert(s, c)) = Len(s) + 1
<1> DEFINE n == Len(s)
           t == Insert(s, c)
<1>1. /\ n \in Nat /\ DOMAIN s = 1..n
      /\ \A i \in 1..n : s[i] \in S /\ s[i] \in Columns /\ Rank(s[i]) \in Nat
      /\ \A i, j \in 1..n : i < j => Rank(s[i]) < Rank(s[j])
      /\ \A d \in S : \E i \in 1..n : s[i] = d
  BY ListsIs
<1>2. PICK m \in 0..n : {i \in DOMAIN s : ~Before(c, s[i])} = 1..m
  BY InsertPlace
<1>3. Cardinality(1..m) = m
  BY FS_Interval
<1>4. t = InsertAt(s, 1 + m, c)
  BY <1>2, <1>3 DEF Insert
<1>5. s \in Seq(Columns)
  BY DEF Lists
<1> HIDE DEF n, t
<1>6. /\ t \in Seq(Columns) /\ Len(t) = n + 1
      /\ \A i \in 1..(n + 1) : t[i] = IF i <= m THEN s[i] ELSE IF i = m + 1 THEN c ELSE s[i - 1]
  <2>1. m \in 0..Len(s)
    BY <1>2 DEF n
  <2>2. Inserted(InsertAt(s, 1 + m, c), Columns, s, c, m)
    BY <1>5, <2>1, InsertAtIs
  <2>3. Inserted(t, Columns, s, c, m)
    BY <1>4, <2>2
  <2> QED
    BY <2>3 DEF Inserted, n
<1>7. \A i \in 1..n : i <= m <=> Rank(s[i]) <= Rank(c)
  <2>1. Rank(c) \in Nat
    BY RankType
  <2>2. \A i \in 1..n : i \in 1..m <=> ~(Rank(c) < Rank(s[i]))
    BY <1>1, <1>2 DEF Before
  <2> QED
    BY <1>1, <1>2, <2>1, <2>2
<1>8. Rank(c) \in Nat /\ \A i \in 1..n : Rank(s[i]) # Rank(c)
  <2>1. \A i \in 1..n : s[i] # c
    BY <1>1
  <2>2. Letters[Rank(c)] = c /\ \A i \in 1..n : Letters[Rank(s[i])] = s[i]
    BY <1>1, RankType
  <2>3. \A i \in 1..n : Rank(s[i]) # Rank(c)
    BY <2>1, <2>2
  <2> QED
    BY <2>3, RankType
<1>9. ASSUME NEW i \in 1..(n + 1), NEW j \in 1..(n + 1), i < j
      PROVE  Rank(t[i]) < Rank(t[j])
  <2>1. CASE j <= m
    BY <1>1, <1>2, <1>6, <1>9, <2>1
  <2>2. CASE j = m + 1
    <3>1. i \in 1..n /\ i <= m /\ t[i] = s[i] /\ t[j] = c
      BY <1>1, <1>2, <1>6, <1>9, <2>2
    <3> QED
      BY <1>1, <1>7, <1>8, <3>1
  <2>3. CASE j > m + 1
    <3>1. j - 1 \in 1..n /\ ~(j - 1 <= m) /\ t[j] = s[j - 1]
      BY <1>1, <1>2, <1>6, <1>9, <2>3
    <3>2. CASE i <= m
      BY <1>1, <1>2, <1>6, <1>9, <3>1, <3>2
    <3>3. CASE i = m + 1
      <4>1. t[i] = c
        BY <1>1, <1>2, <1>6, <3>3
      <4> QED
        BY <1>1, <1>7, <1>8, <3>1, <4>1
    <3>4. CASE i > m + 1
      <4>1. i - 1 \in 1..n /\ t[i] = s[i - 1] /\ i - 1 < j - 1
        BY <1>1, <1>2, <1>6, <1>9, <3>4
      <4> QED
        BY <1>1, <3>1, <4>1
    <3> QED
      BY <1>2, <3>2, <3>3, <3>4
  <2> QED
    BY <1>2, <2>1, <2>2, <2>3
<1>10. DOMAIN t = 1..(n + 1) /\ Ascending(t)
  <2>1. DOMAIN t = 1..(n + 1)
    BY <1>6
  <2> QED
    BY <1>9, <2>1 DEF Ascending, Before
<1>11. ASSUME NEW d PROVE d \in S \cup {c} <=> \E i \in 1..(n + 1) : t[i] = d
  <2>1. ASSUME NEW i \in 1..(n + 1) PROVE t[i] \in S \cup {c}
    <3>1. CASE i <= m
      BY <1>1, <1>2, <1>6, <3>1
    <3>2. CASE i = m + 1
      BY <1>1, <1>2, <1>6, <3>2
    <3>3. CASE i > m + 1
      <4>1. i - 1 \in 1..n /\ t[i] = s[i - 1]
        BY <1>1, <1>2, <1>6, <3>3
      <4> QED
        BY <1>1, <4>1
    <3> QED
      BY <1>2, <3>1, <3>2, <3>3
  <2>2. ASSUME d \in S PROVE \E i \in 1..(n + 1) : t[i] = d
    <3>1. PICK i \in 1..n : s[i] = d
      BY <1>1, <2>2
    <3>2. CASE i <= m
      <4>1. i \in 1..(n + 1) /\ t[i] = d
        BY <1>1, <1>2, <1>6, <3>1, <3>2
      <4> QED
        BY <4>1
    <3>3. CASE i > m
      <4>1. i + 1 \in 1..(n + 1) /\ ~(i + 1 <= m) /\ i + 1 # m + 1 /\ (i + 1) - 1 = i
        BY <1>1, <1>2, <3>3
      <4>2. t[i + 1] = d
        BY <1>6, <3>1, <4>1
      <4> QED
        BY <4>1, <4>2
    <3> QED
      BY <1>2, <3>2, <3>3
  <2>3. m + 1 \in 1..(n + 1) /\ t[m + 1] = c
    BY <1>1, <1>2, <1>6
  <2> QED
    BY <2>1, <2>2, <2>3
<1>12. Lists(t, S \cup {c})
  BY <1>6, <1>10, <1>11 DEF Lists
<1> QED
  BY <1>6, <1>12 DEF n, t

\* The turns of insertionSort: g[i] is what the first i columns are sorted to.
SortTo(g, p, n) == g = [i \in 0..n |-> IF i = 0 THEN <<>> ELSE Insert(g[i - 1], p[i])]

LEMMA SortIs ==
    ASSUME NEW p
    PROVE  insertionSort(p) = (CHOOSE g : SortTo(g, p, Len(p)))[Len(p)]
  BY DEF insertionSort, SortTo

LEMMA SortExists == ASSUME NEW p PROVE \A n \in Nat : \E g : SortTo(g, p, n)
<1> DEFINE T == {n \in Nat : \E g : SortTo(g, p, n)}
<1>1. 0 \in T
  <2> DEFINE g == [i \in 0..0 |-> <<>>]
  <2>1. g = [i \in 0..0 |-> IF i = 0 THEN <<>> ELSE Insert(g[i - 1], p[i])]
    OBVIOUS
  <2>2. SortTo(g, p, 0)
    BY <2>1 DEF SortTo
  <2> QED
    BY <2>2
<1>2. ASSUME NEW n \in T PROVE n + 1 \in T
  <2>1. n \in Nat
    OBVIOUS
  <2>2. PICK g : SortTo(g, p, n)
    OBVIOUS
  <2>3. \A i \in 0..n : g[i] = IF i = 0 THEN <<>> ELSE Insert(g[i - 1], p[i])
    BY <2>2 DEF SortTo
  <2> DEFINE h == [i \in 0..(n + 1) |-> IF i = n + 1 THEN Insert(g[n], p[n + 1]) ELSE g[i]]
             d == [i \in 0..(n + 1) |-> IF i = 0 THEN <<>> ELSE Insert(h[i - 1], p[i])]
  <2>4. ASSUME NEW i \in 0..(n + 1)
        PROVE  h[i] = IF i = 0 THEN <<>> ELSE Insert(h[i - 1], p[i])
    <3>1. CASE i = n + 1
      <4>1. i # 0 /\ i - 1 = n /\ n \in 0..(n + 1) /\ n # n + 1
        BY <2>1, <3>1
      <4>2. h[n] = g[n] /\ h[i] = Insert(g[n], p[n + 1])
        BY <3>1, <4>1
      <4> HIDE DEF h
      <4> QED
        BY <3>1, <4>1, <4>2
    <3>2. CASE i # n + 1
      <4>1. i \in 0..n /\ (i # 0 => i - 1 \in 0..(n + 1) /\ i - 1 # n + 1)
        BY <2>1, <3>2
      <4>2. h[i] = g[i] /\ (i # 0 => h[i - 1] = g[i - 1])
        BY <3>2, <4>1
      <4> HIDE DEF h
      <4> QED
        BY <2>3, <4>1, <4>2
    <3> QED
      BY <3>1, <3>2
  <2>5. h = d
    BY <2>4
  <2>6. SortTo(h, p, n + 1)
    BY <2>5 DEF SortTo
  <2> HIDE DEF h
  <2> QED
    BY <2>1, <2>6
<1>3. T \in SUBSET Nat
  OBVIOUS
<1> HIDE DEF T
<1>4. \A n \in Nat : n \in T
  BY <1>1, <1>2, <1>3, SetInduction
<1> QED
  BY <1>4 DEF T

\* Sorting distinct columns lists them.
LEMMA SortLists ==
    ASSUME NEW p \in Seq(Columns), \A i, j \in 1..Len(p) : i # j => p[i] # p[j]
    PROVE  Lists(insertionSort(p), {p[k] : k \in 1..Len(p)}) /\ Len(insertionSort(p)) = Len(p)
<1> DEFINE n == Len(p)
           g == CHOOSE f : SortTo(f, p, n)
           First(i) == {p[k] : k \in 1..i}
           Ok(i) == Lists(g[i], First(i)) /\ Len(g[i]) = i
           T == {i \in Nat : i <= n => Ok(i)}
<1>1. n \in Nat /\ \A i \in 1..n : p[i] \in Columns
  OBVIOUS
<1>2. SortTo(g, p, n) /\ insertionSort(p) = g[n]
  BY <1>1, SortIs, SortExists
<1> HIDE DEF n, g
<1>3. \A i \in 0..n : g[i] = IF i = 0 THEN <<>> ELSE Insert(g[i - 1], p[i])
  BY <1>2 DEF SortTo
<1>4. 0 \in T
  <2>1. g[0] = <<>>
    BY <1>1, <1>3
  <2>2. <<>> \in Seq(Columns) /\ Len(<<>>) = 0 /\ Ascending(<<>>)
    BY DEF Ascending
  <2>3. \A c : c \in First(0) <=> \E i \in 1..Len(<<>>) : <<>>[i] = c
    <3>1. 1..0 = {} /\ Len(<<>>) = 0
      OBVIOUS
    <3> QED
      BY <3>1
  <2>4. Lists(<<>>, First(0))
    BY <2>2, <2>3 DEF Lists
  <2> QED
    BY <2>1, <2>2, <2>4
<1>5. ASSUME NEW i \in T PROVE i + 1 \in T
  <2>1. SUFFICES ASSUME i + 1 <= n PROVE Ok(i + 1)
    BY DEF T
  <2>2. i \in Nat /\ i + 1 \in 0..n /\ i + 1 \in 1..n /\ i + 1 # 0 /\ (i + 1) - 1 = i /\ i <= n
    BY <1>1, <2>1
  <2>3. Ok(i)
    BY <2>2
  <2>4. g[i + 1] = Insert(g[i], p[i + 1])
    BY <1>3, <2>2
  <2>5. p[i + 1] \in Columns /\ p[i + 1] \notin First(i)
    BY <1>1, <2>2 DEF n
  <2>6. Lists(g[i + 1], First(i) \cup {p[i + 1]}) /\ Len(g[i + 1]) = i + 1
    <3>1. Lists(g[i], First(i)) /\ Len(g[i]) = i
      BY <2>3
    <3> HIDE DEF First
    <3> QED
      BY <2>4, <2>5, <3>1, InsertLists
  <2>7. First(i + 1) = First(i) \cup {p[i + 1]}
    <3>1. \A k : k \in 1..(i + 1) <=> k \in 1..i \/ k = i + 1
      BY <2>2
    <3> QED
      BY <3>1
  <2> QED
    BY <2>6, <2>7
<1>6. T \in SUBSET Nat
  OBVIOUS
<1> HIDE DEF T
<1>7. \A i \in Nat : i \in T
  BY <1>4, <1>5, <1>6, SetInduction
<1>8. Ok(n)
  <2>1. n \in T /\ n <= n
    BY <1>1, <1>7
  <2> HIDE DEF Ok
  <2> QED
    BY <2>1 DEF T
<1> QED
  BY <1>2, <1>8 DEF n

\* Of two lists of the same columns, each begins like the other.
LEMMA ListsAgree ==
    ASSUME NEW s, NEW t, NEW S, Lists(s, S), Lists(t, S)
    PROVE  \A i \in 1..Len(s) : i \in 1..Len(t) /\ s[i] = t[i]
<1> DEFINE n == Len(s)
           m == Len(t)
           T == {k \in Nat : k \in 1..n /\ ~(k \in 1..m /\ s[k] = t[k])}
<1>1. /\ n \in Nat /\ \A i \in 1..n : s[i] \in S /\ s[i] \in Columns /\ Rank(s[i]) \in Nat
      /\ \A i, j \in 1..n : i < j => Rank(s[i]) < Rank(s[j])
      /\ \A c \in S : \E i \in 1..n : s[i] = c
  BY ListsIs
<1>2. /\ m \in Nat /\ \A i \in 1..m : t[i] \in S /\ t[i] \in Columns /\ Rank(t[i]) \in Nat
      /\ \A i, j \in 1..m : i < j => Rank(t[i]) < Rank(t[j])
      /\ \A c \in S : \E i \in 1..m : t[i] = c
  BY ListsIs
<1> HIDE DEF n, m
<1>3. SUFFICES ASSUME T # {} PROVE FALSE
  BY <1>1 DEF n, m
<1>4. T \in SUBSET Nat
  OBVIOUS
<1>5. PICK k \in T : \A l \in T : k <= l
  BY <1>3, <1>4, LeastElement
<1>6. k \in 1..n /\ ~(k \in 1..m /\ s[k] = t[k]) /\ \A l \in 1..n : l < k => l \in 1..m /\ s[l] = t[l]
  BY <1>1, <1>5
<1>7. PICK j \in 1..m : t[j] = s[k]
  BY <1>1, <1>2, <1>6
<1>8. ~(j < k)
  <2>1. SUFFICES ASSUME j < k PROVE FALSE
    OBVIOUS
  <2>2. j \in 1..n /\ s[j] = t[j]
    BY <1>1, <1>2, <1>6, <2>1
  <2>3. Rank(s[j]) < Rank(s[k])
    BY <1>1, <1>6, <2>1, <2>2
  <2> QED
    BY <1>1, <1>7, <2>2, <2>3
<1>9. k \in 1..m /\ k <= j
  BY <1>1, <1>2, <1>6, <1>8
<1>10. PICK i \in 1..n : s[i] = t[k]
  BY <1>1, <1>2, <1>9
<1>11. ~(i < k)
  <2>1. SUFFICES ASSUME i < k PROVE FALSE
    OBVIOUS
  <2>2. i \in 1..m /\ s[i] = t[i]
    BY <1>6, <2>1
  <2>3. Rank(t[i]) < Rank(t[k])
    BY <1>2, <1>9, <2>1, <2>2
  <2> QED
    BY <1>1, <1>2, <1>10, <2>2, <2>3
<1>12. Rank(s[k]) <= Rank(s[i]) /\ Rank(t[k]) <= Rank(t[j])
  BY <1>1, <1>2, <1>6, <1>9, <1>11
<1>13. Rank(s[k]) = Rank(t[k])
  <2>1. Rank(s[k]) \in Nat /\ Rank(t[k]) \in Nat
    BY <1>1, <1>2, <1>6, <1>9
  <2> QED
    BY <1>7, <1>10, <1>12, <2>1
<1>14. Letters[Rank(s[k])] = s[k] /\ Letters[Rank(t[k])] = t[k]
  BY <1>1, <1>2, <1>6, <1>9, RankType
<1> QED
  BY <1>6, <1>9, <1>13, <1>14

LEMMA ListsUnique ==
    ASSUME NEW s, NEW t, NEW S, Lists(s, S), Lists(t, S)
    PROVE  s = t
<1>1. s \in Seq(Columns) /\ t \in Seq(Columns) /\ Len(s) \in Nat /\ Len(t) \in Nat
  BY DEF Lists
<1>2. \A i \in 1..Len(s) : i \in 1..Len(t) /\ s[i] = t[i]
  BY ListsAgree
<1>3. \A i \in 1..Len(t) : i \in 1..Len(s) /\ t[i] = s[i]
  BY ListsAgree
<1>4. Len(s) = Len(t)
  <2>1. Len(s) <= Len(t)
    BY <1>1, <1>2
  <2>2. Len(t) <= Len(s)
    BY <1>1, <1>3
  <2> QED
    BY <1>1, <2>1, <2>2
<1> QED
  BY <1>1, <1>2, <1>4

\* The orders in which a map with these keys can be iterated.
LEMMA SeqsOf ==
    ASSUME NEW S \in SUBSET Columns, IsFiniteSet(S), NEW p \in SetToSeqs(S)
    PROVE  /\ p \in Seq(Columns) /\ Len(p) = Cardinality(S)
           /\ \A i, j \in 1..Len(p) : i # j => p[i] # p[j]
           /\ {p[k] : k \in 1..Len(p)} = S
<1> DEFINE n == Cardinality(S)
<1>1. n \in Nat
  BY FS_CardinalityType
<1>2. p \in [1..n -> S] /\ \A i, j \in 1..n : i # j => p[i] # p[j]
  BY DEF SetToSeqs
<1>3. Cardinality(1..n) = n
  BY <1>1, FS_Interval
<1> HIDE DEF n
<1>4. p \in Injection(1..n, S)
  BY <1>2 DEF Injection, IsInjective
<1>5. p \in Surjection(1..n, S)
  BY <1>3, <1>4, FS_Injection DEF n
<1>6. p \in Seq(Columns) /\ Len(p) = n
  BY <1>1, <1>2
<1>7. \A c : c \in {p[k] : k \in 1..n} <=> c \in S
  BY <1>2, <1>5 DEF Surjection
<1> QED
  BY <1>2, <1>6, <1>7 DEF n

LEMMA SortOfSeqs ==
    ASSUME NEW S \in SUBSET Columns, IsFiniteSet(S), NEW p \in SetToSeqs(S)
    PROVE  Lists(insertionSort(p), S) /\ Len(insertionSort(p)) = Cardinality(S)
<1>1. /\ p \in Seq(Columns) /\ Len(p) = Cardinality(S)
      /\ \A i, j \in 1..Len(p) : i # j => p[i] # p[j]
      /\ {p[k] : k \in 1..Len(p)} = S
  BY SeqsOf
<1>2. Lists(insertionSort(p), {p[k] : k \in 1..Len(p)}) /\ Len(insertionSort(p)) = Len(p)
  BY <1>1, SortLists
<1> QED
  BY <1>1, <1>2

----------------------------------------------------------------------------
(* What every reachable state is like *)

Running == {"running", "mapped", "routed"}

Captured(c) ==
    c.schema.name.table # "nomios_state" /\ c.schema.name.db \notin SystemSchemas
Capturable == {c \in Changes : Captured(c)}

IsOverrides(ov) == \A t \in DOMAIN ov : ov[t] \in Seq(STRING)

\* The routed event of a change, and the records it can become.
Routed(ov, c) == [EventOf(c, "string") EXCEPT !.key = DefaultKey(ov, EventOf(c, "string"))]
RecordsOf(ov, c) ==
    {[change |-> c, key |-> Routed(ov, c).key, value |-> AppendEvent(Routed(ov, c), b, a)] :
        b \in SetToSeqs(DOMAIN Routed(ov, c).before), a \in SetToSeqs(DOMAIN Routed(ov, c).after)}
Publishable(ov) == UNION {RecordsOf(ov, c) : c \in Capturable}

\* What is configured is what Build took from a file.
Configured ==
    /\ stage \in {"load", "build"} => file \in Files
    /\ stage = "built" => AlwaysExcluded \subseteq built.filter.exclude /\ IsOverrides(built.overrides)
    /\ stage \in Running => AlwaysExcluded \subseteq filter.exclude /\ IsOverrides(overrides)

\* The change under way is one the source captures, and its event is the one of
\* that change, keyed and then routed.
UnderWay ==
    /\ stage \in {"mapped", "routed"} => change \in Capturable
    /\ stage = "mapped" => event = EventOf(change, "string")
    /\ stage = "routed" => event = Routed(overrides, change)

\* Records are those of captured changes under the configured keys.
Recorded ==
    /\ records \in Seq(Publishable(overrides))
    /\ stage \notin Running => records = <<>>

Inv == Configured /\ BuiltIsRunnable /\ UnderWay /\ Recorded

LEMMA MatchCaptures ==
    ASSUME NEW f, AlwaysExcluded \subseteq f.exclude, NEW c \in Changes, match(f, c.schema.name)
    PROVE  c \in Capturable
<1> DEFINE p == [db |-> "*", table |-> "nomios_state"]
           q(d) == [db |-> d, table |-> "*"]
<1>1. p \in f.exclude /\ \A d \in SystemSchemas : q(d) \in f.exclude
  BY DEF AlwaysExcluded, SystemSchemas
<1>2. ~Match(p, c.schema.name) /\ \A d \in SystemSchemas : ~Match(q(d), c.schema.name)
  BY <1>1 DEF match
<1>3. c.schema.name.table # "nomios_state" /\ c.schema.name.db \notin SystemSchemas
  BY <1>2 DEF Match
<1>4. Captured(c)
  BY <1>3 DEF Captured
<1> QED
  BY <1>4 DEF Capturable

LEMMA BuildRuns ==
    ASSUME NEW f \in Files, Build(f).ok
    PROVE  LET b == Build(f)
               flush == flushSize(b.batch)
           IN  /\ b.queues >= 1 /\ b.inflight >= 1
               /\ flush \in 1..b.batch
               /\ batches(b.capacity, flush) >= 2
               /\ b.stateAt \in {<<"dir">>, <<"addr">>, b.dials}
               /\ AlwaysExcluded \subseteq b.filter.exclude
               /\ IsOverrides(b.overrides)
<1> DEFINE b == Build(f)
           flush == flushSize(b.batch)
<1>1. /\ f.port \in Int /\ f.inflight \in Int /\ f.queues \in Int /\ f.capacity \in Int /\ f.batch \in Int
      /\ IsOverrides(f.overrides)
  BY FilesAssumption DEF IsOverrides
<1>2. Accepted(f)
  BY DEF Build, Refused
<1>3. /\ b.dials = <<"host", sourceWithDefaults(f.port)>>
      /\ b.stateAt = IF f.store = "file" THEN <<"dir">> ELSE stateCredentials(f)
      /\ b.inflight = Positive(f.inflight, 32) /\ b.queues = Positive(f.queues, 4)
      /\ b.capacity = Positive(f.capacity, 4096) /\ b.batch = Positive(f.batch, 500)
      /\ b.overrides = f.overrides /\ b.filter.exclude = f.exclude \cup AlwaysExcluded
  BY <1>2 DEF Build, kafkaWithDefaults
<1> HIDE DEF b
<1>4. b.inflight >= 1 /\ b.queues >= 1
  BY <1>1, <1>3 DEF Positive
<1>5. b.capacity \in Int /\ b.batch \in Int /\ b.batch >= 1
  BY <1>1, <1>3 DEF Positive
<1>6. flush \in 1..b.batch
  BY <1>5 DEF flushSize
<1>7. flush \in Int /\ flush >= 1
  BY <1>5, <1>6
<1> HIDE DEF flush
<1>8. batches(b.capacity, flush) >= 2
  <2>1. b.capacity \div flush \in Int
    BY <1>5, <1>7
  <2> QED
    BY <2>1 DEF batches
<1>9. b.stateAt \in {<<"dir">>, <<"addr">>, b.dials}
  BY <1>3 DEF stateCredentials, sourceWithDefaults
<1>10. AlwaysExcluded \subseteq b.filter.exclude /\ IsOverrides(b.overrides)
  BY <1>1, <1>3
<1> QED
  BY <1>4, <1>6, <1>8, <1>9, <1>10 DEF b, flush

LEMMA RecordsInit == Init => Inv
<1> SUFFICES ASSUME Init PROVE Inv
  OBVIOUS
<1>1. Configured
  BY DEF Init, Configured, Running
<1>2. BuiltIsRunnable
  BY DEF Init, BuiltIsRunnable
<1>3. UnderWay
  BY DEF Init, UnderWay
<1>4. Recorded
  BY DEF Init, Recorded, Running
<1> QED
  BY <1>1, <1>2, <1>3, <1>4 DEF Inv

LEMMA LoadInv == ASSUME Inv, LoadFile PROVE Inv'
<1>1. Configured'
  BY DEF Inv, LoadFile, Configured, Running
<1>2. BuiltIsRunnable'
  BY DEF LoadFile, BuiltIsRunnable
<1>3. UnderWay'
  BY DEF LoadFile, UnderWay
<1>4. Recorded'
  BY DEF Inv, LoadFile, Recorded, Running
<1> QED
  BY <1>1, <1>2, <1>3, <1>4 DEF Inv

LEMMA BuildInv == ASSUME Inv, BuildHyperloop PROVE Inv'
<1>1. file \in Files /\ built' = Build(file) /\ stage' = (IF built'.ok THEN "built" ELSE "dead")
  BY DEF Inv, Configured, BuildHyperloop
<1>2. CASE ~built'.ok
  <2>1. stage' = "dead"
    BY <1>1, <1>2
  <2> QED
    BY <2>1 DEF Inv, BuildHyperloop, Configured, BuiltIsRunnable, UnderWay, Recorded, Running
<1>3. CASE built'.ok
  <2>1. stage' = "built" /\ Build(file).ok
    BY <1>1, <1>3
  <2>2. BuiltIsRunnable'
    BY <1>1, <2>1, BuildRuns DEF BuiltIsRunnable
  <2>3. Configured'
    BY <1>1, <2>1, BuildRuns DEF Configured, Running
  <2>4. UnderWay' /\ Recorded'
    BY <2>1 DEF Inv, BuildHyperloop, UnderWay, Recorded, Running
  <2> QED
    BY <2>2, <2>3, <2>4 DEF Inv
<1> QED
  BY <1>2, <1>3

LEMMA RunInv == ASSUME Inv, Run PROVE Inv'
<1>1. Configured'
  BY DEF Inv, Run, Configured, Running
<1>2. BuiltIsRunnable'
  BY DEF Run, BuiltIsRunnable
<1>3. UnderWay'
  BY DEF Run, UnderWay
<1>4. Recorded'
  BY DEF Inv, Run, Recorded, Running
<1> QED
  BY <1>1, <1>2, <1>3, <1>4 DEF Inv

LEMMA EmitInv == ASSUME Inv, EmitRow PROVE Inv'
<1>1. PICK c \in Changes, rep \in {"string", "bytes"} :
        match(filter, c.schema.name) /\ change' = c /\ event' = EventOf(c, rep)
  BY DEF EmitRow
<1>2. stage = "running" /\ stage' = "mapped" /\ UNCHANGED <<file, built, overrides, filter, records>>
  BY DEF EmitRow
<1>3. Configured'
  BY <1>2 DEF Inv, Configured, Running
<1>4. BuiltIsRunnable'
  BY <1>2 DEF BuiltIsRunnable
<1>5. UnderWay'
  <2>1. change' \in Capturable
    BY <1>1, <1>2, MatchCaptures DEF Inv, Configured, Running
  <2>2. event' = EventOf(change', "string")
    BY <1>1, EventIsStable
  <2> QED
    BY <1>2, <2>1, <2>2 DEF UnderWay
<1>6. Recorded'
  BY <1>2 DEF Inv, Recorded, Running
<1> QED
  BY <1>3, <1>4, <1>5, <1>6 DEF Inv

LEMMA PickInv == ASSUME Inv, PickKey PROVE Inv'
<1>1. /\ stage = "mapped" /\ stage' = "routed" /\ UNCHANGED <<file, built, overrides, filter, change, records>>
      /\ event' = [event EXCEPT !.key = DefaultKey(overrides, event)]
  BY DEF PickKey
<1>2. Configured'
  BY <1>1 DEF Inv, Configured, Running
<1>3. BuiltIsRunnable'
  BY <1>1 DEF BuiltIsRunnable
<1>4. UnderWay'
  BY <1>1 DEF Inv, UnderWay, Routed
<1>5. Recorded'
  BY <1>1 DEF Inv, Recorded, Running
<1> QED
  BY <1>2, <1>3, <1>4, <1>5 DEF Inv

LEMMA PublishInv == ASSUME Inv, Publish PROVE Inv'
<1>1. stage = "routed" /\ stage' = "running" /\ UNCHANGED <<file, built, overrides, filter>>
  BY DEF Publish
<1>2. PICK b \in SetToSeqs(DOMAIN event.before), a \in SetToSeqs(DOMAIN event.after) :
        records' = Append(records, [change |-> change, key |-> Serialize(event, b, a).key,
                                    value |-> Serialize(event, b, a).value])
  BY DEF Publish
<1>3. change \in Capturable /\ event = Routed(overrides, change)
  BY <1>1 DEF Inv, UnderWay
<1> DEFINE r == [change |-> change, key |-> event.key, value |-> AppendEvent(event, b, a)]
<1>4. records' = Append(records, r)
  BY <1>2 DEF Serialize
<1>5. r \in RecordsOf(overrides, change)
  BY <1>3 DEF RecordsOf
<1> HIDE DEF r
<1>6. r \in Publishable(overrides)
  BY <1>3, <1>5 DEF Publishable
<1>7. Recorded'
  <2>1. records \in Seq(Publishable(overrides)) /\ overrides' = overrides
    BY <1>1 DEF Inv, Recorded
  <2>2. Append(records, r) \in Seq(Publishable(overrides))
    BY <1>6, <2>1
  <2>3. records' \in Seq(Publishable(overrides'))
    BY <1>4, <2>1, <2>2
  <2> QED
    BY <1>1, <2>3 DEF Recorded, Running
<1>8. Configured'
  BY <1>1 DEF Inv, Configured, Running
<1>9. BuiltIsRunnable' /\ UnderWay'
  BY <1>1 DEF BuiltIsRunnable, UnderWay
<1> QED
  BY <1>7, <1>8, <1>9 DEF Inv

LEMMA RecordsStep == Inv /\ [Next]_vars => Inv'
<1> SUFFICES ASSUME Inv, [Next]_vars PROVE Inv'
  OBVIOUS
<1>1. CASE UNCHANGED vars
  BY <1>1 DEF Inv, Configured, BuiltIsRunnable, UnderWay, Recorded, vars
<1> QED
  BY <1>1, LoadInv, BuildInv, RunInv, EmitInv, PickInv, PublishInv DEF Next

LEMMA RecordsInv == Spec => []Inv
<1> QED
  BY RecordsInit, RecordsStep, PTL DEF Spec

\* Whatever the file holds, a hyperloop that is built can run: no channel of
\* negative size, no empty batch, and the mysql store dials the source's server.
THEOREM BuiltRuns == Spec => []BuiltIsRunnable
<1>1. Inv => BuiltIsRunnable
  BY DEF Inv
<1> QED
  BY <1>1, RecordsInv, PTL

LEMMA RecordIs ==
    ASSUME Inv, NEW i \in DOMAIN records
    PROVE  records[i].change \in Capturable /\ records[i] \in RecordsOf(overrides, records[i].change)
<1>1. records[i] \in Publishable(overrides)
  BY DEF Inv, Recorded
<1>2. PICK c \in Capturable : records[i] \in RecordsOf(overrides, c)
  BY <1>1 DEF Publishable
<1>3. records[i].change = c
  BY <1>2 DEF RecordsOf
<1> QED
  BY <1>2, <1>3

\* Nomios never captures the table of its own state, nor the system schemas,
\* whatever tables the file includes.
THEOREM OwnStateStaysOut == Spec => []OwnStateIsNotCaptured
<1>1. Inv => OwnStateIsNotCaptured
  BY RecordIs DEF OwnStateIsNotCaptured, Capturable, Captured
<1> QED
  BY <1>1, RecordsInv, PTL

----------------------------------------------------------------------------
(* A replay gives the same bytes *)

LEMMA ColumnsFinite == IsFiniteSet(Columns)
<1> DEFINE n == Len(Letters)
<1>1. n \in Nat /\ DOMAIN Letters = 1..n /\ Letters \in [1..n -> Columns]
  <2>1. Letters \in Seq(STRING)
    BY LettersAssumption
  <2>2. n \in Nat /\ DOMAIN Letters = 1..n /\ Letters = [i \in 1..n |-> Letters[i]]
    BY <2>1
  <2>3. \A i \in 1..n : Letters[i] \in Columns
    BY <2>2 DEF Columns, Range
  <2> QED
    BY <2>2, <2>3
<1>2. Letters \in Surjection(1..n, Columns)
  BY <1>1 DEF Surjection, Columns, Range
<1>3. IsFiniteSet(1..n)
  BY <1>1, FS_Interval
<1> QED
  BY <1>2, <1>3, FS_Surjection

LEMMA PresentColumns ==
    ASSUME NEW schema, IsSchema(schema), NEW vals, IsImage(vals)
    PROVE  Present(schema, vals) \in SUBSET Columns
<1>1. Width(schema, vals) \in Nat /\ Width(schema, vals) <= Len(schema.columns)
  BY WidthType
<1>2. schema.columns \in Seq(Columns)
  BY DEF IsSchema, Columns
<1>3. \A i \in 1..Width(schema, vals) : schema.columns[i] \in Columns
  BY <1>1, <1>2
<1> QED
  BY <1>3 DEF Present

\* An image of an event, from the row of the change.
RowOf(schema, vals) ==
    [n \in Present(schema, vals) |->
        Normalize(schema.kinds[At(schema, vals, n)], As(vals[At(schema, vals, n)], "string"))]

LEMMA ImageIs ==
    ASSUME NEW schema, IsSchema(schema), NEW vals, IsImage(vals)
    PROVE  (IF vals = None THEN NoRow ELSE mapRow(schema, Delivered(vals, "string"))) = RowOf(schema, vals)
<1>1. CASE vals = None
  <2>1. Len(vals) = 0 /\ Len(schema.columns) \in Nat
    BY <1>1 DEF None, IsSchema
  <2>2. Width(schema, vals) = 0
    <3>1. Width(schema, vals) \in Nat /\ Width(schema, vals) <= Len(vals)
      BY WidthType
    <3> QED
      BY <2>1, <3>1
  <2>3. Present(schema, vals) = {}
    BY <2>2 DEF Present
  <2> QED
    BY <1>1, <2>3 DEF RowOf, NoRow
<1>2. CASE vals # None
  BY <1>2, MapRowIs DEF RowOf
<1> QED
  BY <1>1, <1>2

\* The parts of the event of a change.
LEMMA EventIs ==
    ASSUME NEW c \in Changes, NEW ov
    PROVE  LET e == Routed(ov, c)
               k == EventOf(c, "string")
           IN  /\ e.before = RowOf(c.schema, c.before) /\ e.after = RowOf(c.schema, c.after)
               /\ e.key = DefaultKey(ov, k)
               /\ k.op = c.op /\ k.fqtn = c.schema.fqtn /\ Row(k) = RowOf(c.schema, Image(c))
               /\ k.key = KeyFromColumns(c.schema.fqtn, RowOf(c.schema, Image(c)), c.schema.pk)
<1> DEFINE image(vals) == IF vals = None THEN NoRow ELSE mapRow(c.schema, Delivered(vals, "string"))
           k == EventOf(c, "string")
           e == [id |-> c.id, op |-> c.op, fqtn |-> c.schema.fqtn, key |-> <<>>,
                 before |-> image(c.before), after |-> image(c.after),
                 source |-> [table |-> c.schema.fqtn, gtid |-> c.gtid, pos |-> c.pos]]
<1>1. image(c.before) = RowOf(c.schema, c.before) /\ image(c.after) = RowOf(c.schema, c.after)
  BY ChangeType, ImageIs
<1>2. k = [e EXCEPT !.key = KeyFromColumns(e.fqtn, Row(e), c.schema.pk)]
  BY DEF EventOf
<1> HIDE DEF image
<1>3. Row(e) = RowOf(c.schema, Image(c))
  BY <1>1 DEF Row, Image
<1>4. /\ k.op = c.op /\ k.fqtn = c.schema.fqtn
      /\ k.before = RowOf(c.schema, c.before) /\ k.after = RowOf(c.schema, c.after)
      /\ k.key = KeyFromColumns(c.schema.fqtn, RowOf(c.schema, Image(c)), c.schema.pk)
      /\ k = [id |-> k.id, op |-> k.op, fqtn |-> k.fqtn, key |-> k.key,
              before |-> k.before, after |-> k.after, source |-> k.source]
  BY <1>1, <1>2, <1>3
<1> HIDE DEF k, e
<1>5. Row(k) = RowOf(c.schema, Image(c))
  BY <1>4 DEF Row, Image
<1>6. /\ Routed(ov, c).before = k.before /\ Routed(ov, c).after = k.after
      /\ Routed(ov, c).key = DefaultKey(ov, k)
  BY <1>4 DEF Routed, k
<1> QED
  BY <1>4, <1>5, <1>6 DEF k

LEMMA RowBytes ==
    ASSUME NEW schema, IsSchema(schema), NEW vals, IsImage(vals),
           NEW p \in SetToSeqs(DOMAIN RowOf(schema, vals)), NEW q \in SetToSeqs(DOMAIN RowOf(schema, vals))
    PROVE  appendRow(RowOf(schema, vals), p) = appendRow(RowOf(schema, vals), q)
<1> DEFINE S == Present(schema, vals)
<1>1. S \in SUBSET Columns /\ IsFiniteSet(S)
  BY PresentColumns, ColumnsFinite, FS_Subset
<1>2. DOMAIN RowOf(schema, vals) = S
  BY DEF RowOf
<1> HIDE DEF S
<1>3. Lists(insertionSort(p), S) /\ Lists(insertionSort(q), S)
  BY <1>1, <1>2, SortOfSeqs
<1>4. insertionSort(p) = insertionSort(q)
  BY <1>3, ListsUnique
<1> QED
  BY <1>4 DEF appendRow

LEMMA OneRecord ==
    ASSUME NEW ov, NEW c \in Changes, NEW r \in RecordsOf(ov, c), NEW s \in RecordsOf(ov, c)
    PROVE  r = s
<1> DEFINE e == Routed(ov, c)
<1>1. e.before = RowOf(c.schema, c.before) /\ e.after = RowOf(c.schema, c.after)
  BY EventIs
<1>2. IsSchema(c.schema) /\ IsImage(c.before) /\ IsImage(c.after)
  BY ChangeType
<1>3. PICK b \in SetToSeqs(DOMAIN e.before), a \in SetToSeqs(DOMAIN e.after) :
        r = [change |-> c, key |-> e.key, value |-> AppendEvent(e, b, a)]
  BY DEF RecordsOf
<1>4. PICK x \in SetToSeqs(DOMAIN e.before), y \in SetToSeqs(DOMAIN e.after) :
        s = [change |-> c, key |-> e.key, value |-> AppendEvent(e, x, y)]
  BY DEF RecordsOf
<1> HIDE DEF e
<1>5. appendRow(e.before, b) = appendRow(e.before, x)
  BY <1>1, <1>2, RowBytes
<1>6. appendRow(e.after, a) = appendRow(e.after, y)
  BY <1>1, <1>2, RowBytes
<1>7. AppendEvent(e, b, a) = AppendEvent(e, x, y)
  BY <1>5, <1>6 DEF AppendEvent
<1> QED
  BY <1>3, <1>4, <1>7

\* A change that is published twice gives the same key and the same bytes, in
\* whatever order the maps were iterated and however the values were delivered.
THEOREM ReplaysAreIdentical == Spec => []ReplayIsIdentical
<1>1. ASSUME Inv PROVE ReplayIsIdentical
  <2> SUFFICES ASSUME NEW i \in DOMAIN records, NEW j \in DOMAIN records,
                      records[i].change = records[j].change
               PROVE  records[i] = records[j]
    BY DEF ReplayIsIdentical
  <2>1. /\ records[i].change \in Changes /\ records[i] \in RecordsOf(overrides, records[i].change)
        /\ records[j] \in RecordsOf(overrides, records[i].change)
    BY <1>1, RecordIs DEF Capturable
  <2> QED
    BY <2>1, OneRecord
<1> QED
  BY <1>1, RecordsInv, PTL

----------------------------------------------------------------------------
(* Separators: where the parts of a key begin and end *)

Digits == {"0", "1", "2", "3", "4", "5", "6", "7", "8", "9"}
Char == STRING \cup {"|", "\\", "N", "-"} \cup Digits
Text == Seq(Char)

\* g[i] is 1 when the character behind position i is escaped.
Scan(g, t) ==
    /\ g \in [0..Len(t) -> {0, 1}] /\ g[0] = 0
    /\ \A i \in 1..Len(t) : g[i] = IF t[i] = "\\" /\ g[i - 1] = 0 THEN 1 ELSE 0

\* A text in which no escape is left open; and one whose bars are all escaped.
Whole(t) == \E g : Scan(g, t) /\ g[Len(t)] = 0
Closed(g, t) == Scan(g, t) /\ g[Len(t)] = 0 /\ \A i \in 1..Len(t) : t[i] = "|" => g[i - 1] = 1
Word == {t \in Text : \E g : Closed(g, t)}

\* A text, a separator and a word; and their scan.
With(t, w) == (t \o <<"|">>) \o w
WithScan(g, p, h, n) == [i \in 0..n |-> IF i <= p THEN g[i] ELSE h[i - (p + 1)]]

LEMMA WithIs ==
    ASSUME NEW t \in Text, NEW w \in Text
    PROVE  /\ With(t, w) \in Text /\ Len(With(t, w)) = Len(t) + 1 + Len(w)
           /\ \A i \in 1..Len(t) : With(t, w)[i] = t[i]
           /\ With(t, w)[Len(t) + 1] = "|"
           /\ \A i \in 1..Len(w) : With(t, w)[Len(t) + 1 + i] = w[i]
<1> DEFINE n == Len(t)
           m == Len(w)
           u == t \o <<"|">>
<1>1. n \in Nat /\ m \in Nat /\ <<"|">> \in Seq(Char) /\ t \in Seq(Char) /\ w \in Seq(Char)
  <2>1. "|" \in Char
    BY DEF Char
  <2>2. <<"|">> \in Seq(Char)
    BY <2>1
  <2> QED
    BY <2>2 DEF Text
<1>2. u \in Seq(Char) /\ Len(u) = n + 1 /\ (\A i \in 1..n : u[i] = t[i]) /\ u[n + 1] = "|"
  BY <1>1
<1> HIDE DEF u, n, m
<1>3. u \o w \in Seq(Char) /\ Len(u \o w) = Len(u) + Len(w)
  BY <1>1, <1>2, ConcatProperties
<1>4. \A i \in 1..(Len(u) + Len(w)) : (u \o w)[i] = IF i <= Len(u) THEN u[i] ELSE w[i - Len(u)]
  BY <1>1, <1>2, ConcatProperties
<1>5. With(t, w) = u \o w
  BY DEF With, u
<1>6. \A i \in 1..(n + 1) : (u \o w)[i] = u[i]
  BY <1>1, <1>2, <1>4 DEF m
<1>7. \A i \in 1..m : (u \o w)[n + 1 + i] = w[i]
  BY <1>1, <1>2, <1>4 DEF m
<1>8. n + 1 \in 1..(n + 1) /\ \A i \in 1..n : i \in 1..(n + 1)
  BY <1>1
<1>9. \A i \in 1..n : (u \o w)[i] = t[i]
  BY <1>2, <1>6, <1>8
<1> QED
  BY <1>2, <1>3, <1>5, <1>6, <1>7, <1>8, <1>9 DEF Text, n, m

\* The scan goes through the text, the separator and the word.
LEMMA WithScanned ==
    ASSUME NEW t \in Text, NEW w \in Text, NEW g, Scan(g, t), g[Len(t)] = 0, NEW h, Scan(h, w)
    PROVE  Scan(WithScan(g, Len(t), h, Len(t) + 1 + Len(w)), With(t, w))
<1> DEFINE n == Len(t)
           m == Len(w)
           l == n + 1 + m
           G == WithScan(g, n, h, l)
           u == With(t, w)
<1>1. n \in Nat /\ m \in Nat /\ l \in Nat
  BY DEF Text
<1>2. /\ Len(u) = l /\ (\A i \in 1..n : u[i] = t[i]) /\ u[n + 1] = "|"
      /\ \A i \in 1..m : u[n + 1 + i] = w[i]
  BY WithIs
<1>3. /\ g \in [0..n -> {0, 1}] /\ g[0] = 0 /\ g[n] = 0
      /\ \A i \in 1..n : g[i] = IF t[i] = "\\" /\ g[i - 1] = 0 THEN 1 ELSE 0
  BY DEF Scan
<1>4. /\ h \in [0..m -> {0, 1}] /\ h[0] = 0
      /\ \A i \in 1..m : h[i] = IF w[i] = "\\" /\ h[i - 1] = 0 THEN 1 ELSE 0
  BY DEF Scan
<1> HIDE DEF n, m, u
<1>5. /\ \A i \in 0..n : G[i] = g[i]
      /\ \A i \in 0..m : G[n + 1 + i] = h[i]
  <2>1. \A i \in 0..n : i \in 0..l /\ i <= n
    BY <1>1
  <2>2. \A i \in 0..m : n + 1 + i \in 0..l /\ ~(n + 1 + i <= n) /\ (n + 1 + i) - (n + 1) = i
    BY <1>1
  <2> QED
    BY <2>1, <2>2 DEF WithScan
<1>6. G = [i \in 0..l |-> G[i]]
  BY DEF WithScan
<1> HIDE DEF G
<1>7. \A i \in 0..l : i \in 0..n \/ (i - (n + 1) \in 0..m /\ n + 1 + (i - (n + 1)) = i)
  BY <1>1
<1>8. \A i \in 0..l : G[i] \in {0, 1}
  <2> SUFFICES ASSUME NEW i \in 0..l PROVE G[i] \in {0, 1}
    OBVIOUS
  <2>1. CASE i \in 0..n
    BY <1>3, <1>5, <2>1
  <2>2. CASE i - (n + 1) \in 0..m /\ n + 1 + (i - (n + 1)) = i
    BY <1>4, <1>5, <2>2
  <2> QED
    BY <1>7, <2>1, <2>2
<1>9. G[0] = 0
  BY <1>1, <1>3, <1>5
<1>10. ASSUME NEW i \in 1..l
       PROVE  G[i] = IF u[i] = "\\" /\ G[i - 1] = 0 THEN 1 ELSE 0
  <2>1. CASE i <= n
    <3>1. i \in 1..n /\ i \in 0..n /\ i - 1 \in 0..n
      BY <1>1, <2>1
    <3> QED
      BY <1>2, <1>3, <1>5, <3>1
  <2>2. CASE i = n + 1
    <3>1. G[i] = 0
      <4>1. 0 \in 0..m /\ n + 1 + 0 = i
        BY <1>1, <2>2
      <4> QED
        BY <1>4, <1>5, <4>1
    <3>2. u[i] # "\\"
      BY <1>2, <2>2
    <3> QED
      BY <3>1, <3>2
  <2>3. CASE i > n + 1
    <3> DEFINE j == i - (n + 1)
    <3>1. j \in 1..m /\ j \in 0..m /\ j - 1 \in 0..m /\ n + 1 + j = i /\ n + 1 + (j - 1) = i - 1
      BY <1>1, <2>3
    <3> HIDE DEF j
    <3>2. G[i] = h[j] /\ G[i - 1] = h[j - 1] /\ u[i] = w[j]
      BY <1>2, <1>5, <3>1
    <3> QED
      BY <1>4, <3>1, <3>2
  <2> QED
    BY <1>1, <2>1, <2>2, <2>3
<1>11. Scan(G, u)
  <2>1. G \in [0..l -> {0, 1}]
    BY <1>6, <1>8
  <2> QED
    BY <1>2, <1>9, <1>10, <2>1 DEF Scan
<1> QED
  BY <1>11 DEF G, n, m, u

\* Two scans agree as far as their texts do.
LEMMA ScansAgree ==
    ASSUME NEW t \in Text, NEW u \in Text, NEW g, Scan(g, t), NEW h, Scan(h, u),
           NEW n \in Nat, n <= Len(t), n <= Len(u), \A i \in 1..n : t[i] = u[i]
    PROVE  \A i \in 0..n : g[i] = h[i]
<1> DEFINE T == {i \in Nat : i <= n => g[i] = h[i]}
<1>1. Len(t) \in Nat /\ Len(u) \in Nat
  BY DEF Text
<1>2. 0 \in T
  BY DEF Scan
<1>3. ASSUME NEW i \in T PROVE i + 1 \in T
  <2>1. SUFFICES ASSUME i + 1 <= n PROVE g[i + 1] = h[i + 1]
    OBVIOUS
  <2>2. /\ i \in Nat /\ i <= n /\ i + 1 \in 1..n /\ i + 1 \in 1..Len(t) /\ i + 1 \in 1..Len(u)
        /\ (i + 1) - 1 = i
    BY <1>1, <2>1
  <2>3. g[i] = h[i] /\ t[i + 1] = u[i + 1]
    BY <2>2
  <2>4. g[i + 1] = IF t[i + 1] = "\\" /\ g[i] = 0 THEN 1 ELSE 0
    BY <2>2 DEF Scan
  <2>5. h[i + 1] = IF u[i + 1] = "\\" /\ h[i] = 0 THEN 1 ELSE 0
    BY <2>2 DEF Scan
  <2> QED
    BY <2>3, <2>4, <2>5
<1>4. T \in SUBSET Nat
  OBVIOUS
<1> HIDE DEF T
<1>5. \A i \in Nat : i \in T
  BY <1>2, <1>3, <1>4, SetInduction
<1>6. \A i \in 0..n : i \in Nat /\ i <= n
  OBVIOUS
<1> QED
  BY <1>5, <1>6 DEF T

\* Only one separator can be the last: a bar inside a word is escaped, and
\* the separator is not.
LEMMA LastSeparator ==
    ASSUME NEW t \in Text, Whole(t), NEW w \in Word, NEW u \in Text, Whole(u), NEW x \in Word,
           With(t, w) = With(u, x)
    PROVE  ~(Len(t) < Len(u))
<1>1. SUFFICES ASSUME Len(t) < Len(u) PROVE FALSE
  OBVIOUS
<1> DEFINE p == Len(t)
           q == Len(u)
           m == Len(w)
<1>2. w \in Text /\ x \in Text /\ p \in Nat /\ q \in Nat /\ m \in Nat /\ Len(x) \in Nat
  BY DEF Word, Text
<1>3. PICK g : Scan(g, t) /\ g[p] = 0
  BY DEF Whole
<1>4. PICK f : Scan(f, u) /\ f[q] = 0
  BY DEF Whole
<1>5. PICK h : Closed(h, w)
  BY DEF Word
<1>6. Scan(h, w) /\ \A i \in 1..m : w[i] = "|" => h[i - 1] = 1
  BY <1>5 DEF Closed
<1> DEFINE G == WithScan(g, p, h, p + 1 + m)
           v == With(t, w)
<1>7. v \in Text /\ Len(v) = p + 1 + m /\ \A i \in 1..m : v[p + 1 + i] = w[i]
  BY <1>2, WithIs
<1>8. v \in Text /\ Len(v) = q + 1 + Len(x) /\ v[q + 1] = "|" /\ \A i \in 1..q : v[i] = u[i]
  <2>1. v = With(u, x)
    OBVIOUS
  <2>2. /\ Len(With(u, x)) = q + 1 + Len(x) /\ With(u, x)[q + 1] = "|"
        /\ \A i \in 1..q : With(u, x)[i] = u[i]
    BY <1>2, WithIs
  <2> HIDE DEF v
  <2> QED
    BY <1>7, <2>1, <2>2
<1>9. Scan(G, v)
  BY <1>2, <1>3, <1>6, WithScanned
<1> HIDE DEF v
<1>10. q <= Len(v)
  BY <1>2, <1>8
<1> DEFINE j == q - p
<1>11. j \in 1..m /\ p + 1 + j = q + 1 /\ q \in 0..(p + 1 + m) /\ ~(q <= p) /\ q - (p + 1) = j - 1 /\ q \in 0..q
  BY <1>1, <1>2, <1>7, <1>8
<1>12. G[q] = h[j - 1]
  BY <1>11 DEF WithScan
<1>13. w[j] = "|"
  BY <1>7, <1>8, <1>11
<1> HIDE DEF G, p, q, m, j
<1>14. \A i \in 0..q : G[i] = f[i]
  <2>1. q <= Len(u)
    BY <1>2 DEF q
  <2>2. \A i \in 1..q : v[i] = u[i]
    BY <1>8
  <2>3. v \in Text /\ u \in Text /\ Scan(G, v) /\ Scan(f, u) /\ q \in Nat
    BY <1>2, <1>4, <1>8, <1>9
  <2> QED
    BY ONLY <1>10, <2>1, <2>2, <2>3, ScansAgree
<1>15. h[j - 1] = 1 /\ f[q] = 0 /\ G[q] = f[q]
  BY <1>4, <1>6, <1>11, <1>13, <1>14
<1> QED
  BY <1>12, <1>15

LEMMA SplitUnique ==
    ASSUME NEW t \in Text, Whole(t), NEW w \in Word, NEW u \in Text, Whole(u), NEW x \in Word,
           With(t, w) = With(u, x)
    PROVE  t = u /\ w = x
<1>1. w \in Text /\ x \in Text
  BY DEF Word
<1>2. Len(t) \in Nat /\ Len(u) \in Nat /\ Len(w) \in Nat /\ Len(x) \in Nat
  BY <1>1 DEF Text
<1>3. Len(t) = Len(u)
  <2>1. ~(Len(t) < Len(u))
    BY LastSeparator
  <2>2. ~(Len(u) < Len(t))
    BY LastSeparator
  <2> QED
    BY <1>2, <2>1, <2>2
<1>4. /\ Len(With(t, w)) = Len(t) + 1 + Len(w)
      /\ \A i \in 1..Len(t) : With(t, w)[i] = t[i]
      /\ \A i \in 1..Len(w) : With(t, w)[Len(t) + 1 + i] = w[i]
  BY <1>1, WithIs
<1>5. /\ Len(With(u, x)) = Len(u) + 1 + Len(x)
      /\ \A i \in 1..Len(u) : With(u, x)[i] = u[i]
      /\ \A i \in 1..Len(x) : With(u, x)[Len(u) + 1 + i] = x[i]
  BY <1>1, WithIs
<1>6. Len(w) = Len(x)
  BY <1>2, <1>3, <1>4, <1>5
<1>7. \A i \in 1..Len(t) : t[i] = u[i]
  BY <1>3, <1>4, <1>5
<1>8. \A i \in 1..Len(w) : w[i] = x[i]
  BY <1>3, <1>4, <1>5, <1>6
<1>9. t = u
  BY <1>3, <1>7 DEF Text
<1>10. w = x
  BY <1>1, <1>6, <1>8 DEF Text
<1> QED
  BY <1>9, <1>10

LEMMA EmptyWhole == <<>> \in Text /\ Whole(<<>>)
<1> DEFINE g == [i \in 0..0 |-> 0]
<1>1. <<>> \in Text /\ Len(<<>>) = 0
  BY DEF Text
<1>2. g \in [0..0 -> {0, 1}] /\ g[0] = 0 /\ 1..0 = {}
  OBVIOUS
<1>3. Scan(g, <<>>) /\ g[Len(<<>>)] = 0
  BY <1>1, <1>2 DEF Scan
<1> QED
  BY <1>1, <1>3 DEF Whole

LEMMA WithWhole ==
    ASSUME NEW t \in Text, Whole(t), NEW w \in Word
    PROVE  With(t, w) \in Text /\ Whole(With(t, w))
<1> DEFINE p == Len(t)
           m == Len(w)
<1>1. w \in Text /\ p \in Nat /\ m \in Nat
  BY DEF Word, Text
<1>2. PICK g : Scan(g, t) /\ g[p] = 0
  BY DEF Whole
<1>3. PICK h : Scan(h, w) /\ h[m] = 0
  BY DEF Word, Closed
<1> DEFINE G == WithScan(g, p, h, p + 1 + m)
<1>4. Scan(G, With(t, w))
  BY <1>1, <1>2, <1>3, WithScanned
<1>5. With(t, w) \in Text /\ Len(With(t, w)) = p + 1 + m
  BY <1>1, WithIs
<1>6. G[p + 1 + m] = 0
  <2>1. p + 1 + m \in 0..(p + 1 + m) /\ ~(p + 1 + m <= p) /\ (p + 1 + m) - (p + 1) = m
    BY <1>1
  <2> QED
    BY <1>3, <2>1 DEF WithScan
<1> HIDE DEF G
<1> QED
  BY <1>4, <1>5, <1>6 DEF Whole

----------------------------------------------------------------------------
(* The parts of a key, each behind a separator *)

Parts(ws) == [i \in DOMAIN ws |-> <<"|">> \o ws[i]]
Joined(ws) == FlattenSeq(Parts(ws))

LEMMA PartsType ==
    ASSUME NEW ws \in Seq(Text)
    PROVE  Parts(ws) \in Seq(Seq(Char)) /\ Len(Parts(ws)) = Len(ws)
<1>1. Len(ws) \in Nat /\ DOMAIN ws = 1..Len(ws) /\ \A i \in 1..Len(ws) : ws[i] \in Seq(Char)
  BY DEF Text
<1>2. <<"|">> \in Seq(Char)
  <2>1. "|" \in Char
    BY DEF Char
  <2> QED
    BY <2>1
<1>3. \A i \in 1..Len(ws) : <<"|">> \o ws[i] \in Seq(Char)
  BY <1>1, <1>2, ConcatProperties
<1> QED
  BY <1>1, <1>3 DEF Parts

LEMMA JoinedEmpty == Joined(<<>>) = <<>>
<1>1. Parts(<<>>) = <<>>
  BY DEF Parts
<1>2. FlattenSeq(<<>>) = <<>>
  BY DEF FlattenSeq
<1> QED
  BY <1>1, <1>2 DEF Joined

LEMMA JoinedType == ASSUME NEW ws \in Seq(Text) PROVE Joined(ws) \in Text
  BY PartsType, FlatType DEF Joined, Text

LEMMA JoinedAppend ==
    ASSUME NEW ws \in Seq(Text), NEW w \in Text
    PROVE  Joined(Append(ws, w)) = With(Joined(ws), w)
<1> DEFINE bar == <<"|">>
           n == Len(ws)
<1>1. "|" \in Char /\ w \in Seq(Char)
  BY DEF Char, Text
<1>2. bar \in Seq(Char)
  BY <1>1
<1>3. bar \o w \in Seq(Char)
  BY <1>1, <1>2, ConcatProperties
<1>4. n \in Nat /\ DOMAIN ws = 1..n
  OBVIOUS
<1>5. /\ Append(ws, w) \in Seq(Text) /\ DOMAIN Append(ws, w) = 1..(n + 1)
      /\ (\A i \in 1..n : Append(ws, w)[i] = ws[i]) /\ Append(ws, w)[n + 1] = w
  OBVIOUS
<1>6. Parts(ws) \in Seq(Seq(Char)) /\ Len(Parts(ws)) = n
  BY PartsType
<1> HIDE DEF bar
<1> DEFINE x == bar \o w
<1>7. Parts(Append(ws, w)) = Append(Parts(ws), x)
  <2> DEFINE L == Parts(Append(ws, w))
             R == Append(Parts(ws), x)
  <2>1. L = [i \in 1..(n + 1) |-> bar \o Append(ws, w)[i]]
    BY <1>5 DEF Parts, bar
  <2>2. \A i \in 1..n : Parts(ws)[i] = bar \o ws[i]
    BY <1>4 DEF Parts, bar
  <2> HIDE DEF x
  <2>3. /\ R \in Seq(Seq(Char)) /\ DOMAIN R = 1..(n + 1) /\ R[n + 1] = x
        /\ \A i \in 1..n : R[i] = Parts(ws)[i]
    BY <1>3, <1>4, <1>6 DEF x
  <2> HIDE DEF R
  <2>4. R = [i \in 1..(n + 1) |-> R[i]]
    BY <2>3
  <2>5. \A i \in 1..(n + 1) : i \in 1..n \/ i = n + 1
    BY <1>4
  <2>6. ASSUME NEW i \in 1..(n + 1) PROVE R[i] = bar \o Append(ws, w)[i]
    <3>1. CASE i \in 1..n
      BY <1>5, <2>2, <2>3, <3>1
    <3>2. CASE i = n + 1
      BY <1>5, <2>3, <3>2 DEF x
    <3> QED
      BY <2>5, <3>1, <3>2
  <2> QED
    BY <2>1, <2>4, <2>6 DEF R
<1>8. FlattenSeq(Append(Parts(ws), x)) = FlattenSeq(Parts(ws)) \o x
  BY <1>3, <1>6, FlatAppend
<1>9. Joined(ws) \in Seq(Char)
  BY JoinedType DEF Text
<1>10. Joined(ws) \o (bar \o w) = (Joined(ws) \o bar) \o w
  <2> DEFINE J == Joined(ws)
  <2>1. J \in Seq(Char) /\ bar \in Seq(Char) /\ w \in Seq(Char)
    BY <1>1, <1>2, <1>9
  <2> HIDE DEF J
  <2> QED
    BY ONLY <2>1
<1> QED
  BY <1>7, <1>8, <1>10 DEF Joined, With, bar

LEMMA JoinedWhole ==
    \A ws \in Seq(Word) : Joined(ws) \in Text /\ Whole(Joined(ws))
<1> DEFINE T == {ws \in Seq(Word) : Joined(ws) \in Text /\ Whole(Joined(ws))}
<1>1. <<>> \in T
  BY JoinedEmpty, EmptyWhole
<1>2. ASSUME NEW ws \in T, NEW w \in Word PROVE Append(ws, w) \in T
  <2>1. ws \in Seq(Word) /\ ws \in Seq(Text) /\ w \in Text /\ Append(ws, w) \in Seq(Word)
    BY DEF Word
  <2>2. Joined(Append(ws, w)) = With(Joined(ws), w)
    BY <2>1, JoinedAppend
  <2> QED
    BY <2>1, <2>2, WithWhole
<1>3. T \in SUBSET Seq(Word)
  OBVIOUS
<1> HIDE DEF T
<1>4. \A ws \in Seq(Word) : ws \in T
  BY <1>1, <1>2, <1>3, SeqInduction
<1> QED
  BY <1>4 DEF T

\* The parts of a key can be told apart.
LEMMA JoinedInjective ==
    \A ws \in Seq(Word) : \A xs \in Seq(Word) : Joined(ws) = Joined(xs) => ws = xs
<1> DEFINE T == {ws \in Seq(Word) : \A xs \in Seq(Word) : Joined(ws) = Joined(xs) => ws = xs}
<1>1. ASSUME NEW ws \in Seq(Word), NEW w \in Word
      PROVE  /\ Joined(Append(ws, w)) = With(Joined(ws), w)
             /\ Joined(ws) \in Text /\ Whole(Joined(ws)) /\ w \in Text
             /\ Joined(Append(ws, w)) # <<>>
  <2>1. ws \in Seq(Text) /\ w \in Text
    BY DEF Word
  <2>2. Joined(ws) \in Text /\ Whole(Joined(ws))
    BY JoinedWhole
  <2>3. Joined(Append(ws, w)) = With(Joined(ws), w)
    BY <2>1, JoinedAppend
  <2>4. Len(With(Joined(ws), w)) # 0
    <3>1. Len(Joined(ws)) \in Nat /\ Len(w) \in Nat
      BY <2>1, <2>2 DEF Text
    <3>2. Len(With(Joined(ws), w)) = Len(Joined(ws)) + 1 + Len(w)
      BY <2>1, <2>2, WithIs
    <3> QED
      BY <3>1, <3>2
  <2> QED
    BY <2>1, <2>2, <2>3, <2>4
<1>2. <<>> \in T
  <2> SUFFICES ASSUME NEW xs \in Seq(Word), Joined(<<>>) = Joined(xs), xs # <<>> PROVE FALSE
    OBVIOUS
  <2>1. PICK ys \in Seq(Word), y \in Word : xs = Append(ys, y)
    BY SequenceEmptyOrAppend
  <2> QED
    BY <1>1, <2>1, JoinedEmpty
<1>3. ASSUME NEW ws \in T, NEW w \in Word PROVE Append(ws, w) \in T
  <2>1. ws \in Seq(Word) /\ Append(ws, w) \in Seq(Word)
    OBVIOUS
  <2> SUFFICES ASSUME NEW xs \in Seq(Word), Joined(Append(ws, w)) = Joined(xs)
               PROVE  Append(ws, w) = xs
    BY <2>1
  <2>2. xs # <<>>
    BY <1>1, <2>1, JoinedEmpty
  <2>3. PICK ys \in Seq(Word), y \in Word : xs = Append(ys, y)
    BY <2>2, SequenceEmptyOrAppend
  <2>4. With(Joined(ws), w) = With(Joined(ys), y)
    BY <1>1, <2>1, <2>3
  <2>5. Joined(ws) = Joined(ys) /\ w = y
    BY <1>1, <2>1, <2>3, <2>4, SplitUnique
  <2>6. ws = ys
    BY <2>5
  <2> QED
    BY <2>3, <2>5, <2>6
<1>4. T \in SUBSET Seq(Word)
  OBVIOUS
<1> HIDE DEF T
<1>5. \A ws \in Seq(Word) : ws \in T
  BY <1>2, <1>3, <1>4, SeqInduction
<1> QED
  BY <1>5 DEF T

----------------------------------------------------------------------------
(* Every part of a key is a word *)

BarsEscaped(g, t) == \A i \in 1..Len(t) : t[i] = "|" => g[i - 1] = 1

LEMMA ScanAppend ==
    ASSUME NEW t \in Text, NEW c \in Char, NEW g, Scan(g, t), BarsEscaped(g, t),
           c = "|" => g[Len(t)] = 1
    PROVE  \E h : /\ Scan(h, Append(t, c)) /\ BarsEscaped(h, Append(t, c))
                  /\ h[Len(t) + 1] = IF c = "\\" /\ g[Len(t)] = 0 THEN 1 ELSE 0
<1> DEFINE n == Len(t)
           u == Append(t, c)
           b == IF c = "\\" /\ g[n] = 0 THEN 1 ELSE 0
           h == [i \in 0..(n + 1) |-> IF i = n + 1 THEN b ELSE g[i]]
<1>1. n \in Nat /\ Len(u) = n + 1 /\ u[n + 1] = c /\ \A i \in 1..n : u[i] = t[i]
  BY DEF Text
<1>2. /\ g \in [0..n -> {0, 1}] /\ g[0] = 0
      /\ \A i \in 1..n : g[i] = IF t[i] = "\\" /\ g[i - 1] = 0 THEN 1 ELSE 0
  BY DEF Scan
<1>3. \A i \in 1..n : t[i] = "|" => g[i - 1] = 1
  BY DEF BarsEscaped
<1> HIDE DEF u, n
<1>4. h[n + 1] = b /\ (\A i \in 0..n : h[i] = g[i]) /\ h \in [0..(n + 1) -> {0, 1}]
  <2>1. n + 1 \in 0..(n + 1) /\ \A i \in 0..n : i \in 0..(n + 1) /\ i # n + 1
    BY <1>1
  <2>2. \A i \in 0..(n + 1) : i # n + 1 => i \in 0..n
    BY <1>1
  <2>3. b \in {0, 1}
    OBVIOUS
  <2> QED
    BY <1>2, <2>1, <2>2, <2>3
<1> HIDE DEF h
<1>5. \A i \in 1..(n + 1) : (i \in 1..n /\ i \in 0..n /\ i - 1 \in 0..n) \/ i = n + 1
  BY <1>1
<1>6. n \in 0..n /\ (n + 1) - 1 = n /\ 0 \in 0..n
  BY <1>1
<1>7. ASSUME NEW i \in 1..(n + 1)
      PROVE  /\ h[i] = IF u[i] = "\\" /\ h[i - 1] = 0 THEN 1 ELSE 0
             /\ u[i] = "|" => h[i - 1] = 1
  <2>1. CASE i \in 1..n /\ i \in 0..n /\ i - 1 \in 0..n
    <3>1. h[i] = g[i] /\ h[i - 1] = g[i - 1] /\ u[i] = t[i]
      BY <1>1, <1>4, <2>1
    <3> QED
      BY <1>2, <1>3, <2>1, <3>1
  <2>2. CASE i = n + 1
    <3>1. h[i] = b /\ h[i - 1] = g[n] /\ u[i] = c
      BY <1>1, <1>4, <1>6, <2>2
    <3>2. c = "|" => g[n] = 1
      BY DEF n
    <3> QED
      BY <3>1, <3>2
  <2> QED
    BY <1>5, <2>1, <2>2
<1>8. h[0] = 0
  BY <1>2, <1>4, <1>6
<1>9. Scan(h, u) /\ BarsEscaped(h, u)
  BY <1>1, <1>4, <1>7, <1>8 DEF Scan, BarsEscaped
<1> QED
  BY <1>4, <1>9 DEF u, n

LEMMA WordIs ==
    ASSUME NEW t \in Text
    PROVE  t \in Word <=> \E g : Scan(g, t) /\ BarsEscaped(g, t) /\ g[Len(t)] = 0
  BY DEF Word, Closed, BarsEscaped

\* What appendEscaped writes for a character.
Code(c) == IF c \in {"|", "\\"} THEN <<"\\", c>> ELSE <<c>>

LEMMA CodeType ==
    ASSUME NEW c \in Char
    PROVE  Code(c) \in Seq(Char) /\ Code(c)[Len(Code(c))] = c /\ Len(Code(c)) \in 1..2
<1>1. "\\" \in Char
  BY DEF Char
<1>2. CASE c \in {"|", "\\"}
  BY <1>1, <1>2 DEF Code
<1>3. CASE c \notin {"|", "\\"}
  BY <1>3 DEF Code
<1> QED
  BY <1>2, <1>3

LEMMA CodeLen == ASSUME NEW c \in Char PROVE Len(Code(c)) \in Nat /\ Len(Code(c)) >= 1
<1>1. CASE c \in {"|", "\\"}
  BY <1>1 DEF Code
<1>2. CASE c \notin {"|", "\\"}
  BY <1>2 DEF Code
<1> QED
  BY <1>1, <1>2

LEMMA WordGrows ==
    ASSUME NEW w \in Word, NEW c \in Char
    PROVE  w \o Code(c) \in Word
<1>1. w \in Text /\ w \in Seq(Char) /\ Len(w) \in Nat
  BY DEF Word, Text
<1>2. PICK g : Scan(g, w) /\ BarsEscaped(g, w) /\ g[Len(w)] = 0
  BY <1>1, WordIs
<1>3. CASE c \notin {"|", "\\"}
  <2>1. PICK h : /\ Scan(h, Append(w, c)) /\ BarsEscaped(h, Append(w, c))
                 /\ h[Len(w) + 1] = IF c = "\\" /\ g[Len(w)] = 0 THEN 1 ELSE 0
    BY <1>1, <1>2, <1>3, ScanAppend
  <2>2. Append(w, c) \in Text /\ Len(Append(w, c)) = Len(w) + 1
    BY <1>1 DEF Text
  <2>3. h[Len(w) + 1] = 0
    BY <1>3, <2>1
  <2>4. Append(w, c) \in Word
    BY <2>1, <2>2, <2>3, WordIs
  <2>5. w \o Code(c) = Append(w, c)
    BY <1>1, <1>3 DEF Code
  <2> QED
    BY <2>4, <2>5
<1>4. CASE c \in {"|", "\\"}
  <2> DEFINE v == Append(w, "\\")
  <2>1. "\\" \in Char /\ "\\" # "|"
    BY DEF Char
  <2>2. PICK h : /\ Scan(h, v) /\ BarsEscaped(h, v)
                 /\ h[Len(w) + 1] = IF "\\" = "\\" /\ g[Len(w)] = 0 THEN 1 ELSE 0
    BY <1>1, <1>2, <2>1, ScanAppend
  <2>3. h[Len(w) + 1] = 1
    BY <1>2, <2>2
  <2>4. v \in Text /\ v \in Seq(Char) /\ Len(v) = Len(w) + 1
    BY <1>1, <2>1 DEF Text
  <2> HIDE DEF v
  <2>5. h[Len(v)] = 1
    BY <2>3, <2>4
  <2>6. PICK k : /\ Scan(k, Append(v, c)) /\ BarsEscaped(k, Append(v, c))
                 /\ k[Len(v) + 1] = IF c = "\\" /\ h[Len(v)] = 0 THEN 1 ELSE 0
    BY <2>2, <2>4, <2>5, ScanAppend
  <2>7. Append(v, c) \in Text /\ Len(Append(v, c)) = Len(v) + 1
    BY <2>4 DEF Text
  <2>8. k[Len(v) + 1] = 0
    BY <2>5, <2>6
  <2>9. Append(v, c) \in Word
    BY <2>6, <2>7, <2>8, WordIs
  <2>10. w \o <<"\\", c>> = Append(v, c)
    BY <1>1, <2>1 DEF v
  <2> QED
    BY <1>4, <2>9, <2>10 DEF Code
<1> QED
  BY <1>3, <1>4

Codes(s) == [i \in DOMAIN s |-> Code(s[i])]

LEMMA EscapedIs == ASSUME NEW s PROVE appendEscaped(s) = FlattenSeq(Codes(s))
  BY DEF appendEscaped, Codes, Code

LEMMA CodesType == ASSUME NEW s \in Text PROVE Codes(s) \in Seq(Seq(Char)) /\ Len(Codes(s)) = Len(s)
<1>1. Len(s) \in Nat /\ DOMAIN s = 1..Len(s) /\ \A i \in 1..Len(s) : s[i] \in Char
  BY DEF Text
<1>2. \A i \in 1..Len(s) : Code(s[i]) \in Seq(Char)
  BY <1>1, CodeType
<1> QED
  BY <1>1, <1>2 DEF Codes

LEMMA EscapedEmpty == appendEscaped(<<>>) = <<>>
<1>1. Codes(<<>>) = <<>>
  BY DEF Codes
<1>2. FlattenSeq(<<>>) = <<>>
  BY DEF FlattenSeq
<1> QED
  BY <1>1, <1>2, EscapedIs

LEMMA EscapedType == ASSUME NEW s \in Text PROVE appendEscaped(s) \in Text
  BY EscapedIs, CodesType, FlatType DEF Text

LEMMA EscapedAppend ==
    ASSUME NEW s \in Text, NEW c \in Char
    PROVE  appendEscaped(Append(s, c)) = appendEscaped(s) \o Code(c)
<1> DEFINE n == Len(s)
           L == Codes(Append(s, c))
           R == Append(Codes(s), Code(c))
<1>1. n \in Nat /\ DOMAIN s = 1..n
  BY DEF Text
<1>2. /\ Append(s, c) \in Text /\ DOMAIN Append(s, c) = 1..(n + 1)
      /\ (\A i \in 1..n : Append(s, c)[i] = s[i]) /\ Append(s, c)[n + 1] = c
  BY DEF Text
<1>3. Codes(s) \in Seq(Seq(Char)) /\ Len(Codes(s)) = n
  BY CodesType
<1>4. Code(c) \in Seq(Char)
  BY CodeType
<1>5. L = [i \in 1..(n + 1) |-> Code(Append(s, c)[i])]
  BY <1>2 DEF Codes
<1>6. \A i \in 1..n : Codes(s)[i] = Code(s[i])
  BY <1>1 DEF Codes
<1>7. /\ R \in Seq(Seq(Char)) /\ DOMAIN R = 1..(n + 1) /\ R[n + 1] = Code(c)
      /\ \A i \in 1..n : R[i] = Codes(s)[i]
  BY <1>1, <1>3, <1>4
<1> HIDE DEF R, L
<1>8. R = [i \in 1..(n + 1) |-> R[i]]
  BY <1>7
<1>9. \A i \in 1..(n + 1) : i \in 1..n \/ i = n + 1
  BY <1>1
<1>10. ASSUME NEW i \in 1..(n + 1) PROVE R[i] = Code(Append(s, c)[i])
  <2>1. CASE i \in 1..n
    BY <1>2, <1>6, <1>7, <2>1
  <2>2. CASE i = n + 1
    BY <1>2, <1>7, <2>2
  <2> QED
    BY <1>9, <2>1, <2>2
<1>11. L = R
  BY <1>5, <1>8, <1>10
<1>12. FlattenSeq(R) = FlattenSeq(Codes(s)) \o Code(c)
  BY <1>3, <1>4, FlatAppend DEF R
<1> QED
  BY <1>11, <1>12, EscapedIs DEF L

LEMMA EscapedWord == \A s \in Seq(Char) : appendEscaped(s) \in Word
<1> DEFINE T == {s \in Seq(Char) : appendEscaped(s) \in Word}
<1>1. <<>> \in T
  <2> DEFINE g == [i \in 0..0 |-> 0]
  <2>1. <<>> \in Text /\ Len(<<>>) = 0
    BY DEF Text
  <2>2. g \in [0..0 -> {0, 1}] /\ g[0] = 0 /\ 1..0 = {}
    OBVIOUS
  <2>3. Scan(g, <<>>) /\ BarsEscaped(g, <<>>) /\ g[Len(<<>>)] = 0
    BY <2>1, <2>2 DEF Scan, BarsEscaped
  <2>4. <<>> \in Word
    BY <2>1, <2>3, WordIs
  <2> QED
    BY <2>4, EscapedEmpty
<1>2. ASSUME NEW s \in T, NEW c \in Char PROVE Append(s, c) \in T
  <2>1. s \in Text /\ Append(s, c) \in Seq(Char)
    BY DEF Text
  <2>2. appendEscaped(Append(s, c)) = appendEscaped(s) \o Code(c)
    BY <2>1, EscapedAppend
  <2> QED
    BY <2>1, <2>2, WordGrows
<1>3. T \in SUBSET Seq(Char)
  OBVIOUS
<1> HIDE DEF T
<1>4. \A s \in Seq(Char) : s \in T
  BY <1>1, <1>2, <1>3, SeqInduction
<1> QED
  BY <1>4 DEF T

----------------------------------------------------------------------------
(* Different values have different texts *)

LEMMA SameElements ==
    ASSUME NEW C, NEW s \in Seq(C), NEW t \in Seq(C), Len(s) = Len(t), \A i \in 1..Len(s) : s[i] = t[i]
    PROVE  s = t
  OBVIOUS

LEMMA PairIs ==
    ASSUME NEW C, NEW a \in C, NEW b \in C
    PROVE  <<a>> \o <<b>> = <<a, b>> /\ Append(<<a>>, b) = <<a, b>>
<1> DEFINE x == <<a>>
           y == <<b>>
           s == x \o y
           t == <<a, b>>
<1>1. x \in Seq(C) /\ y \in Seq(C) /\ Len(x) = 1 /\ Len(y) = 1 /\ x[1] = a /\ y[1] = b
  OBVIOUS
<1>2. t \in Seq(C) /\ Len(t) = 2 /\ t[1] = a /\ t[2] = b
  OBVIOUS
<1> HIDE DEF x, y
<1>3. s \in Seq(C) /\ Len(s) = 1 + 1 /\ \A i \in 1..(1 + 1) : s[i] = IF i <= 1 THEN x[i] ELSE y[i - 1]
  <2>1. /\ s \in Seq(C) /\ Len(s) = Len(x) + Len(y)
        /\ \A i \in 1..(Len(x) + Len(y)) : s[i] = IF i <= Len(x) THEN x[i] ELSE y[i - Len(x)]
    BY <1>1, ConcatProperties
  <2> HIDE DEF s
  <2> QED
    BY <1>1, <2>1
<1> HIDE DEF s, t
<1>4. Len(s) = 2 /\ s[1] = a /\ s[2] = b
  BY <1>1, <1>3
<1>5. \A i \in 1..2 : i = 1 \/ i = 2
  OBVIOUS
<1>6. \A i \in 1..Len(s) : s[i] = t[i]
  BY <1>2, <1>4, <1>5
<1>7. s = t
  BY <1>2, <1>3, <1>4, <1>6, SameElements
<1>8. \A r \in Seq(C) : Append(r, b) = r \o <<b>>
  OBVIOUS
<1> QED
  BY <1>1, <1>7, <1>8 DEF s, t, x, y

\* A text with one more character written behind it: its end tells which.
Coded(s, c) == s \o Code(c)

LEMMA CodeEnds ==
    ASSUME NEW s \in Seq(Char), NEW t \in Seq(Char), NEW c \in Char, NEW d \in Char,
           Coded(s, c) = Coded(t, d)
    PROVE  s = t /\ c = d
<1>1. /\ Code(c) \in Seq(Char) /\ Code(c)[Len(Code(c))] = c /\ Len(Code(c)) \in 1..2
      /\ Code(d) \in Seq(Char) /\ Code(d)[Len(Code(d))] = d /\ Len(Code(d)) \in 1..2
  BY CodeType
<1> DEFINE n == Len(s)
           m == Len(t)
           x == Code(c)
           y == Code(d)
           u == s \o x
           v == t \o y
<1>2. n \in Nat /\ m \in Nat
  OBVIOUS
<1>3. /\ Len(u) = n + Len(x)
      /\ \A i \in 1..(n + Len(x)) : u[i] = IF i <= n THEN s[i] ELSE x[i - n]
  BY <1>1, ConcatProperties
<1>4. /\ Len(v) = m + Len(y)
      /\ \A i \in 1..(m + Len(y)) : v[i] = IF i <= m THEN t[i] ELSE y[i - m]
  BY <1>1, ConcatProperties
<1>5. u = v
  BY DEF Coded
<1>0. Len(x) \in Nat /\ Len(x) >= 1 /\ Len(y) \in Nat /\ Len(y) >= 1
  BY CodeLen
<1> HIDE DEF u, v, x, y, n, m
<1>6. u[n + Len(x)] = c
  <2>1. n + Len(x) \in 1..(n + Len(x)) /\ ~(n + Len(x) <= n) /\ (n + Len(x)) - n = Len(x)
    BY <1>0, <1>2
  <2> QED
    BY <1>1, <1>3, <2>1 DEF x
<1>7. v[m + Len(y)] = d
  <2>1. m + Len(y) \in 1..(m + Len(y)) /\ ~(m + Len(y) <= m) /\ (m + Len(y)) - m = Len(y)
    BY <1>0, <1>2
  <2> QED
    BY <1>1, <1>4, <2>1 DEF y
<1>8. c = d
  BY <1>3, <1>4, <1>5, <1>6, <1>7
<1>9. x = y /\ Len(x) \in 1..2
  BY <1>1, <1>8 DEF x, y
<1>10. n = m
  BY <1>2, <1>3, <1>4, <1>5, <1>9
<1>11. \A i \in 1..n : s[i] = t[i]
  <2>1. \A i \in 1..n : i \in 1..(n + Len(x)) /\ i <= n
    BY <1>2, <1>9
  <2> QED
    BY <1>3, <1>4, <1>5, <1>9, <1>10, <2>1
<1>12. s = t
  BY <1>10, <1>11 DEF n, m
<1> QED
  BY <1>8, <1>12

LEMMA CodeNotEmpty == ASSUME NEW s \in Seq(Char), NEW c \in Char PROVE s \o Code(c) # <<>>
<1>1. Code(c) \in Seq(Char) /\ Len(Code(c)) \in 1..2
  BY CodeType
<1>2. Len(s \o Code(c)) = Len(s) + Len(Code(c)) /\ Len(s) \in Nat
  BY <1>1, ConcatProperties
<1>3. Len(s \o Code(c)) # 0
  BY <1>1, <1>2
<1> QED
  BY <1>3

LEMMA EscapedInjective ==
    \A s \in Seq(Char) : \A t \in Seq(Char) : appendEscaped(s) = appendEscaped(t) => s = t
<1> DEFINE T == {s \in Seq(Char) : \A t \in Seq(Char) : appendEscaped(s) = appendEscaped(t) => s = t}
<1>1. ASSUME NEW s \in Seq(Char), NEW c \in Char
      PROVE  /\ appendEscaped(Append(s, c)) = appendEscaped(s) \o Code(c)
             /\ appendEscaped(s) \in Seq(Char) /\ appendEscaped(Append(s, c)) # <<>>
  <2>1. appendEscaped(s) \in Seq(Char) /\ appendEscaped(Append(s, c)) = appendEscaped(s) \o Code(c)
    BY EscapedType, EscapedAppend DEF Text
  <2> QED
    BY <2>1, CodeNotEmpty
<1>2. <<>> \in T
  <2> SUFFICES ASSUME NEW t \in Seq(Char), appendEscaped(<<>>) = appendEscaped(t), t # <<>> PROVE FALSE
    OBVIOUS
  <2>1. PICK r \in Seq(Char), c \in Char : t = Append(r, c)
    BY SequenceEmptyOrAppend
  <2> QED
    BY <1>1, <2>1, EscapedEmpty
<1>3. ASSUME NEW s \in T, NEW c \in Char PROVE Append(s, c) \in T
  <2>1. s \in Seq(Char) /\ Append(s, c) \in Seq(Char)
    OBVIOUS
  <2> SUFFICES ASSUME NEW t \in Seq(Char), appendEscaped(Append(s, c)) = appendEscaped(t)
               PROVE  Append(s, c) = t
    BY <2>1
  <2>2. t # <<>>
    BY <1>1, <2>1, EscapedEmpty
  <2>3. PICK r \in Seq(Char), d \in Char : t = Append(r, d)
    BY <2>2, SequenceEmptyOrAppend
  <2>4. appendEscaped(Append(s, c)) = appendEscaped(s) \o Code(c) /\ appendEscaped(s) \in Seq(Char)
    BY <1>1, <2>1
  <2>5. appendEscaped(Append(r, d)) = appendEscaped(r) \o Code(d) /\ appendEscaped(r) \in Seq(Char)
    BY <1>1, <2>3
  <2>7. appendEscaped(s) \o Code(c) = appendEscaped(r) \o Code(d)
    BY <2>3, <2>4, <2>5
  <2>8. appendEscaped(s) = appendEscaped(r) /\ c = d
    <3>1. Coded(appendEscaped(s), c) = Coded(appendEscaped(r), d)
      BY <2>7 DEF Coded
    <3> QED
      BY <2>3, <2>4, <2>5, <3>1, CodeEnds
  <2>6. s = r
    BY <2>3, <2>8
  <2> QED
    BY <2>3, <2>6, <2>8
<1>4. T \in SUBSET Seq(Char)
  OBVIOUS
<1> HIDE DEF T
<1>5. \A s \in Seq(Char) : s \in T
  BY <1>2, <1>3, <1>4, SeqInduction
<1> QED
  BY <1>5 DEF T

\* What is written for NULL: a word, and no text is escaped to it.
NullText == <<"\\", "N">>

LEMMA NullWord == NullText \in Word
<1>1. "\\" \in Char /\ "N" \in Char /\ "\\" # "|" /\ "N" # "|" /\ "N" # "\\"
  BY DEF Char
<1> DEFINE v == <<"\\">>
           g == [i \in 0..1 |-> IF i = 1 THEN 1 ELSE 0]
<1>2. v \in Text /\ Len(v) = 1 /\ v[1] = "\\"
  BY <1>1 DEF Text
<1> HIDE DEF v
<1>3. g \in [0..1 -> {0, 1}] /\ g[0] = 0 /\ g[1] = 1
  OBVIOUS
<1> HIDE DEF g
<1>4. Scan(g, v)
  <2>1. \A i \in 1..1 : i = 1 /\ i - 1 = 0
    OBVIOUS
  <2> QED
    BY <1>2, <1>3, <2>1 DEF Scan
<1>5. BarsEscaped(g, v)
  BY <1>1, <1>2 DEF BarsEscaped
<1>6. PICK h : /\ Scan(h, Append(v, "N")) /\ BarsEscaped(h, Append(v, "N"))
               /\ h[Len(v) + 1] = IF "N" = "\\" /\ g[Len(v)] = 0 THEN 1 ELSE 0
  BY <1>1, <1>2, <1>4, <1>5, ScanAppend
<1>7. Append(v, "N") = NullText
  BY <1>1, PairIs DEF v, NullText
<1>8. NullText \in Text /\ Len(NullText) = Len(v) + 1
  BY <1>1, <1>2 DEF NullText, Text
<1>9. h[Len(NullText)] = 0
  BY <1>1, <1>6, <1>8
<1> QED
  BY <1>6, <1>7, <1>8, <1>9, WordIs

LEMMA NullIsNoText == ASSUME NEW s \in Seq(Char) PROVE appendEscaped(s) # NullText
<1> SUFFICES ASSUME appendEscaped(s) = NullText PROVE FALSE
  OBVIOUS
<1>1. "\\" \in Char /\ "N" \in Char /\ "N" # "|" /\ "N" # "\\"
  BY DEF Char
<1>2. Code("N") = <<"N">>
  BY <1>1 DEF Code
<1>3. <<"\\">> \in Seq(Char) /\ <<"\\">> \o <<"N">> = NullText /\ NullText # <<>>
  <2>1. <<"\\">> \in Seq(Char)
    BY <1>1
  <2>2. <<"\\">> \o <<"N">> = NullText
    BY <1>1, PairIs DEF NullText
  <2>3. NullText # <<>>
    BY DEF NullText
  <2> QED
    BY <2>1, <2>2, <2>3
<1>4. s # <<>>
  BY <1>3, EscapedEmpty
<1>5. PICK r \in Seq(Char), c \in Char : s = Append(r, c)
  BY <1>4, SequenceEmptyOrAppend
<1>6. appendEscaped(r) \in Seq(Char) /\ appendEscaped(s) = appendEscaped(r) \o Code(c)
  BY <1>5, EscapedType, EscapedAppend DEF Text
<1>7. appendEscaped(r) = <<"\\">>
  <2>1. appendEscaped(r) \o Code(c) = <<"\\">> \o Code("N")
    BY <1>2, <1>3, <1>6
  <2> DEFINE b == <<"\\">>
  <2>2. b \in Seq(Char) /\ appendEscaped(r) \o Code(c) = b \o Code("N")
    BY <1>3, <2>1
  <2> HIDE DEF b
  <2>3. Coded(appendEscaped(r), c) = Coded(b, "N")
    BY <2>2 DEF Coded
  <2>4. appendEscaped(r) = b
    BY <1>1, <1>5, <1>6, <2>2, <2>3, CodeEnds
  <2> QED
    BY <2>4 DEF b
<1>8. r # <<>>
  <2>1. <<"\\">> # <<>>
    OBVIOUS
  <2> QED
    BY <1>7, <2>1, EscapedEmpty
<1>9. PICK q \in Seq(Char), d \in Char : r = Append(q, d)
  BY <1>8, SequenceEmptyOrAppend
<1>10. appendEscaped(q) \in Seq(Char) /\ appendEscaped(r) = appendEscaped(q) \o Code(d)
  BY <1>9, EscapedType, EscapedAppend DEF Text
<1> DEFINE e == appendEscaped(q)
           x == e \o Code(d)
<1>11. x = <<"\\">>
  BY <1>7, <1>10
<1>12. Code(d) \in Seq(Char) /\ Code(d)[Len(Code(d))] = d /\ Len(Code(d)) \in 1..2
  BY CodeType
<1> HIDE DEF e
<1> DEFINE l == Len(Code(d))
           k == Len(e)
<1>13. k \in Nat /\ Len(x) = k + l /\ e \in Seq(Char)
  BY <1>10, <1>12, ConcatProperties DEF e
<1>14. Len(x) = 1 /\ x[1] = "\\"
  BY <1>11
<1>15. \A i \in 1..(k + l) : x[i] = IF i <= k THEN e[i] ELSE Code(d)[i - k]
  BY <1>12, <1>13, ConcatProperties
<1>16. l \in Nat /\ l >= 1
  BY CodeLen
<1>17. Code(d)[l] = d /\ (d = "\\" => l = 2)
  BY <1>12 DEF Code
<1>18. k + l = 1
  BY <1>13, <1>14
<1> HIDE DEF x, l, k
<1>19. k = 0 /\ l = 1
  BY <1>13, <1>16, <1>18
<1>20. x[1] = Code(d)[1]
  BY <1>15, <1>19
<1> QED
  BY <1>14, <1>17, <1>19, <1>20

----------------------------------------------------------------------------
(* Numbers *)

LEMMA Division ==
    ASSUME NEW k \in Nat
    PROVE  /\ k \div 10 \in Nat /\ k % 10 \in 0..9 /\ k = 10 * (k \div 10) + (k % 10)
           /\ k >= 10 => k \div 10 < k
  OBVIOUS

LEMMA DigitIs ==
    ASSUME NEW i \in 0..9
    PROVE  Digit[i + 1] \in Digits /\ \A j \in 0..9 : Digit[i + 1] = Digit[j + 1] => i = j
<1>1. \A j \in 0..9 : j \in {0, 1, 2, 3, 4, 5, 6, 7, 8, 9}
  OBVIOUS
<1>2. /\ Digit[1] = "0" /\ Digit[2] = "1" /\ Digit[3] = "2" /\ Digit[4] = "3" /\ Digit[5] = "4"
      /\ Digit[6] = "5" /\ Digit[7] = "6" /\ Digit[8] = "7" /\ Digit[9] = "8" /\ Digit[10] = "9"
  BY DEF Digit
<1> QED
  BY <1>1, <1>2 DEF Digits

DigitsTo(g, n) == g = [k \in 0..n |-> IF k < 10 THEN <<Digit[k + 1]>>
                                      ELSE Append(g[k \div 10], Digit[(k % 10) + 1])]

LEMMA DecimalChoice == ASSUME NEW n PROVE Decimal(n) = (CHOOSE g : DigitsTo(g, n))[n]
  BY DEF Decimal, DigitsTo

LEMMA DigitsExist == \A n \in Nat : \E g : DigitsTo(g, n)
<1> DEFINE T == {n \in Nat : \E g : DigitsTo(g, n)}
           E(g, k) == IF k < 10 THEN <<Digit[k + 1]>> ELSE Append(g[k \div 10], Digit[(k % 10) + 1])
<1>1. 0 \in T
  <2> DEFINE g == [k \in 0..0 |-> <<Digit[k + 1]>>]
  <2>1. \A k \in 0..0 : k < 10
    OBVIOUS
  <2>2. g = [k \in 0..0 |-> E(g, k)]
    BY <2>1
  <2>3. DigitsTo(g, 0)
    BY <2>2 DEF DigitsTo
  <2> QED
    BY <2>3
<1>2. ASSUME NEW n \in T PROVE n + 1 \in T
  <2>1. n \in Nat
    OBVIOUS
  <2>2. PICK g : DigitsTo(g, n)
    OBVIOUS
  <2>3. \A k \in 0..n : g[k] = E(g, k)
    BY <2>2 DEF DigitsTo
  <2> DEFINE h == [k \in 0..(n + 1) |-> IF k = n + 1 THEN E(g, k) ELSE g[k]]
  <2>4. /\ h[n + 1] = E(g, n + 1) /\ \A k \in 0..n : h[k] = g[k]
        /\ h = [k \in 0..(n + 1) |-> h[k]]
    <3>1. n + 1 \in 0..(n + 1) /\ \A k \in 0..n : k \in 0..(n + 1) /\ k # n + 1
      BY <2>1
    <3> HIDE DEF E
    <3> QED
      BY <3>1
  <2> HIDE DEF h
  <2>5. ASSUME NEW k \in 0..(n + 1) PROVE h[k] = E(h, k)
    <3>1. k >= 10 => k \div 10 \in 0..n
      BY <2>1, Division
    <3>2. k >= 10 => h[k \div 10] = g[k \div 10]
      BY <2>4, <3>1
    <3>3. E(h, k) = E(g, k)
      <4>1. CASE k < 10
        BY <4>1
      <4>2. CASE k >= 10
        BY <3>2, <4>2
      <4> QED
        BY <2>1, <4>1, <4>2
    <3> HIDE DEF E
    <3>4. CASE k = n + 1
      BY <2>4, <3>3, <3>4
    <3>5. CASE k # n + 1
      <4>1. k \in 0..n
        BY <2>1, <3>5
      <4> QED
        BY <2>3, <2>4, <3>3, <4>1
    <3> QED
      BY <3>4, <3>5
  <2>6. h = [k \in 0..(n + 1) |-> E(h, k)]
    <3> HIDE DEF E
    <3> QED
      BY <2>4, <2>5
  <2>7. DigitsTo(h, n + 1)
    BY <2>6 DEF DigitsTo
  <2> QED
    BY <2>1, <2>7
<1>3. T \in SUBSET Nat
  OBVIOUS
<1> HIDE DEF T
<1>4. \A n \in Nat : n \in T
  BY <1>1, <1>2, <1>3, SetInduction
<1> QED
  BY <1>4 DEF T

LEMMA DigitsUnique ==
    ASSUME NEW n \in Nat, NEW m \in Nat, NEW g, NEW h, DigitsTo(g, n), DigitsTo(h, m), n <= m
    PROVE  \A k \in 0..n : g[k] = h[k]
<1> DEFINE T == {k \in Nat : k \in 0..n /\ g[k] # h[k]}
<1>1. SUFFICES ASSUME T # {} PROVE FALSE
  OBVIOUS
<1>2. T \in SUBSET Nat
  OBVIOUS
<1>3. PICK k \in T : \A l \in T : k <= l
  BY <1>1, <1>2, LeastElement
<1>4. k \in Nat /\ k \in 0..n /\ k \in 0..m /\ g[k] # h[k]
  BY <1>3
<1>5. g[k] = IF k < 10 THEN <<Digit[k + 1]>> ELSE Append(g[k \div 10], Digit[(k % 10) + 1])
  BY <1>4 DEF DigitsTo
<1>6. h[k] = IF k < 10 THEN <<Digit[k + 1]>> ELSE Append(h[k \div 10], Digit[(k % 10) + 1])
  BY <1>4 DEF DigitsTo
<1>7. k >= 10
  BY <1>4, <1>5, <1>6
<1> DEFINE d == k \div 10
<1>8. d \in Nat /\ d < k
  BY <1>4, <1>7, Division
<1>9. d \in 0..n /\ ~(k <= d)
  BY <1>4, <1>8
<1>10. g[d] = h[d]
  BY <1>3, <1>8, <1>9
<1> QED
  BY <1>4, <1>5, <1>6, <1>7, <1>10

\* A number below 10 is a digit; another ends in one.
LEMMA DecimalIs ==
    ASSUME NEW n \in Nat
    PROVE  Decimal(n) = IF n < 10 THEN <<Digit[n + 1]>>
                        ELSE Append(Decimal(n \div 10), Digit[(n % 10) + 1])
<1> DEFINE G(k) == CHOOSE g : DigitsTo(g, k)
           d == n \div 10
<1>1. \A k \in Nat : DigitsTo(G(k), k) /\ Decimal(k) = G(k)[k]
  BY DecimalChoice, DigitsExist
<1> HIDE DEF G
<1>2. n \in 0..n
  OBVIOUS
<1>3. G(n)[n] = IF n < 10 THEN <<Digit[n + 1]>> ELSE Append(G(n)[d], Digit[(n % 10) + 1])
  BY <1>1, <1>2 DEF DigitsTo
<1>4. CASE n < 10
  BY <1>1, <1>3, <1>4
<1>5. CASE n >= 10
  <2>1. d \in Nat /\ d <= n /\ d \in 0..d
    BY <1>5, Division
  <2> HIDE DEF d
  <2>2. DigitsTo(G(d), d) /\ DigitsTo(G(n), n)
    BY <1>1, <2>1
  <2>3. G(d)[d] = G(n)[d]
    BY <2>1, <2>2, DigitsUnique
  <2> QED
    BY <1>1, <1>3, <1>5, <2>1, <2>3 DEF d
<1> QED
  BY <1>4, <1>5

LEMMA DecimalSmall == ASSUME NEW n \in Nat, n < 10 PROVE Decimal(n) = <<Digit[n + 1]>>
  BY DecimalIs

LEMMA DecimalLarge ==
    ASSUME NEW n \in Nat, n >= 10
    PROVE  Decimal(n) = Append(Decimal(n \div 10), Digit[(n % 10) + 1])
<1>1. ~(n < 10)
  OBVIOUS
<1> QED
  BY <1>1, DecimalIs

LEMMA DecimalType == \A n \in Nat : Decimal(n) \in Seq(Digits) /\ Len(Decimal(n)) >= 1
<1> DEFINE T == {n \in Nat : ~(Decimal(n) \in Seq(Digits) /\ Len(Decimal(n)) >= 1)}
<1>1. SUFFICES ASSUME T # {} PROVE FALSE
  OBVIOUS
<1>2. T \in SUBSET Nat
  OBVIOUS
<1>3. PICK n \in T : \A k \in T : n <= k
  BY <1>1, <1>2, LeastElement
<1>4. n \in Nat
  OBVIOUS
<1>5. CASE n < 10
  <2>1. Digit[n + 1] \in Digits
    BY <1>4, <1>5, DigitIs
  <2>2. Decimal(n) = <<Digit[n + 1]>>
    BY <1>4, <1>5, DecimalSmall
  <2> HIDE DEF T
  <2>3. Decimal(n) \in Seq(Digits) /\ Len(Decimal(n)) = 1
    BY <2>1, <2>2
  <2> QED
    BY <1>3, <2>3 DEF T
<1>6. CASE n >= 10
  <2> DEFINE d == n \div 10
             c == Digit[(n % 10) + 1]
  <2>1. d \in Nat /\ ~(n <= d) /\ n % 10 \in 0..9
    BY <1>4, <1>6, Division
  <2>2. c \in Digits
    BY <2>1, DigitIs
  <2>3. Decimal(d) \in Seq(Digits)
    BY <1>3, <2>1
  <2>4. Decimal(n) = Append(Decimal(d), c)
    BY <1>4, <1>6, DecimalLarge
  <2> HIDE DEF T, c, d
  <2>5. Len(Decimal(d)) \in Nat /\ Append(Decimal(d), c) \in Seq(Digits)
        /\ Len(Append(Decimal(d), c)) = Len(Decimal(d)) + 1
    BY <2>2, <2>3
  <2>6. Decimal(n) \in Seq(Digits) /\ Len(Decimal(n)) >= 1
    BY <2>4, <2>5
  <2> QED
    BY <1>3, <2>6 DEF T
<1> QED
  BY <1>4, <1>5, <1>6

LEMMA DecimalInjective == \A n, m \in Nat : Decimal(n) = Decimal(m) => n = m
<1> DEFINE T == {n \in Nat : \E m \in Nat : Decimal(n) = Decimal(m) /\ n # m}
<1>1. SUFFICES ASSUME T # {} PROVE FALSE
  OBVIOUS
<1>2. T \in SUBSET Nat
  OBVIOUS
<1>3. PICK n \in T : \A k \in T : n <= k
  BY <1>1, <1>2, LeastElement
<1>4. n \in Nat
  OBVIOUS
<1>5. PICK m \in Nat : Decimal(n) = Decimal(m) /\ n # m
  OBVIOUS
<1> DEFINE a == n \div 10
           b == m \div 10
           x == Digit[(n % 10) + 1]
           y == Digit[(m % 10) + 1]
<1>6. /\ a \in Nat /\ n % 10 \in 0..9 /\ n = 10 * a + (n % 10) /\ (n >= 10 => a < n)
      /\ b \in Nat /\ m % 10 \in 0..9 /\ m = 10 * b + (m % 10)
  BY <1>4, <1>5, Division
<1>7. /\ n < 10 => Decimal(n) = <<Digit[n + 1]>>
      /\ n >= 10 => Decimal(n) = Append(Decimal(a), x)
      /\ m < 10 => Decimal(m) = <<Digit[m + 1]>>
      /\ m >= 10 => Decimal(m) = Append(Decimal(b), y)
  BY <1>4, <1>5, DecimalSmall, DecimalLarge
<1>8. /\ Decimal(a) \in Seq(Digits) /\ Len(Decimal(a)) >= 1
      /\ Decimal(b) \in Seq(Digits) /\ Len(Decimal(b)) >= 1
  BY <1>6, DecimalType
<1>9. x \in Digits /\ y \in Digits /\ (x = y => n % 10 = m % 10)
  BY <1>6, DigitIs
<1> HIDE DEF T, x, y
<1>10. CASE n < 10 /\ m < 10
  <2>1. <<Digit[n + 1]>> = <<Digit[m + 1]>>
    BY <1>5, <1>7, <1>10
  <2>2. Digit[n + 1] = Digit[m + 1]
    BY <2>1
  <2>3. n \in 0..9 /\ m \in 0..9
    BY <1>4, <1>10
  <2> QED
    BY <1>5, <2>2, <2>3, DigitIs
<1>11. ASSUME NEW s \in Seq(Digits), Len(s) >= 1, NEW z \in Digits, NEW e, Append(s, z) = <<e>> PROVE FALSE
  <2>1. Len(Append(s, z)) = Len(s) + 1 /\ Len(s) \in Nat /\ Len(<<e>>) = 1
    OBVIOUS
  <2>2. Len(s) + 1 = 1
    BY <1>11, <2>1
  <2> QED
    BY <1>11, <2>1, <2>2
<1>12. CASE n < 10 /\ m >= 10
  <2>1. Append(Decimal(b), y) = <<Digit[n + 1]>>
    BY <1>5, <1>7, <1>12
  <2> QED
    BY <1>8, <1>9, <1>11, <2>1
<1>13. CASE n >= 10 /\ m < 10
  <2>1. Append(Decimal(a), x) = <<Digit[m + 1]>>
    BY <1>5, <1>7, <1>13
  <2> QED
    BY <1>8, <1>9, <1>11, <2>1
<1>14. CASE n >= 10 /\ m >= 10
  <2>1. Append(Decimal(a), x) = Append(Decimal(b), y)
    BY <1>4, <1>5, <1>7, <1>14
  <2>2. \A s, t \in Seq(Digits) : \A c, d \in Digits : Append(s, c) = Append(t, d) => s = t /\ c = d
    BY AppendProperties
  <2>3. Decimal(a) = Decimal(b) /\ x = y
    BY <1>8, <1>9, <2>1, <2>2
  <2>4. a \notin T
    BY <1>3, <1>4, <1>6, <1>14 DEF T
  <2>5. a = b
    BY <1>6, <2>3, <2>4 DEF T
  <2> QED
    BY <1>4, <1>5, <1>6, <1>9, <2>3, <2>5
<1> QED
  BY <1>4, <1>5, <1>10, <1>12, <1>13, <1>14

\* A text without separators and escapes needs none.
LEMMA PlainWord ==
    ASSUME NEW t \in Text, \A i \in 1..Len(t) : t[i] # "|" /\ t[i] # "\\"
    PROVE  t \in Word
<1> DEFINE n == Len(t)
           g == [i \in 0..n |-> 0]
<1>1. n \in Nat
  BY DEF Text
<1> HIDE DEF n
<1>2. g \in [0..n -> {0, 1}] /\ \A i \in 0..n : g[i] = 0
  OBVIOUS
<1>3. 0 \in 0..n /\ n \in 0..n /\ 1..n \subseteq 0..n
  BY <1>1
<1> HIDE DEF g
<1>4. Scan(g, t)
  BY <1>2, <1>3 DEF Scan, n
<1>5. BarsEscaped(g, t)
  BY DEF BarsEscaped
<1>6. g[Len(t)] = 0
  BY <1>2, <1>3 DEF n
<1> QED
  BY <1>4, <1>5, <1>6, WordIs

LEMMA DigitChar ==
    ASSUME NEW d \in Digits
    PROVE  d \in Char /\ d # "|" /\ d # "\\" /\ d # "-"
  BY DEF Digits, Char

LEMMA DecimalWord ==
    ASSUME NEW n \in Nat
    PROVE  /\ Decimal(n) \in Text /\ Len(Decimal(n)) \in Nat /\ Len(Decimal(n)) >= 1
           /\ \A i \in 1..Len(Decimal(n)) : Decimal(n)[i] \in Digits
<1>1. Decimal(n) \in Seq(Digits) /\ Len(Decimal(n)) >= 1
  BY DecimalType
<1>2. Digits \subseteq Char
  BY DigitChar
<1> QED
  BY <1>1, <1>2 DEF Text

\* The sign in front.
LEMMA SignedIs ==
    ASSUME NEW n \in Nat
    PROVE  LET t == <<"-">> \o Decimal(n)
           IN  /\ t \in Text /\ Len(t) = 1 + Len(Decimal(n)) /\ t[1] = "-"
               /\ \A i \in 1..Len(Decimal(n)) : t[i + 1] = Decimal(n)[i]
<1> DEFINE m == <<"-">>
           d == Decimal(n)
           l == Len(d)
<1>1. m \in Seq(Char) /\ Len(m) = 1 /\ m[1] = "-"
  <2>1. "-" \in Char
    BY DEF Char
  <2> QED
    BY <2>1
<1>2. d \in Seq(Char) /\ l \in Nat
  BY DecimalWord DEF Text
<1> HIDE DEF m, d
<1>3. /\ m \o d \in Seq(Char) /\ Len(m \o d) = Len(m) + Len(d)
      /\ \A i \in 1..(Len(m) + Len(d)) : (m \o d)[i] = IF i <= Len(m) THEN m[i] ELSE d[i - Len(m)]
  BY <1>1, <1>2, ConcatProperties
<1> DEFINE t == m \o d
<1> HIDE DEF t, l
<1>4. t \in Seq(Char) /\ Len(t) = 1 + l /\ \A i \in 1..(1 + l) : t[i] = IF i <= 1 THEN m[i] ELSE d[i - 1]
  BY <1>1, <1>3 DEF t, l
<1>5. t[1] = "-"
  BY <1>1, <1>2, <1>4
<1>6. \A i \in 1..l : i + 1 \in 1..(1 + l) /\ ~(i + 1 <= 1) /\ (i + 1) - 1 = i
  BY <1>2
<1>7. \A i \in 1..l : t[i + 1] = d[i]
  BY <1>4, <1>6
<1> QED
  BY <1>4, <1>5, <1>7 DEF t, l, m, d, Text

\* What is written for a number: a word, and a different one for each number.
LEMMA IntStarts ==
    ASSUME NEW n \in Int
    PROVE  /\ AppendInt(n) \in Text /\ Len(AppendInt(n)) \in Nat /\ Len(AppendInt(n)) >= 1
           /\ AppendInt(n) \in Word
           /\ AppendInt(n)[1] = "-" <=> n < 0
           /\ AppendInt(n)[1] # "\\"
<1>1. CASE n < 0
  <2> DEFINE k == -n
             t == <<"-">> \o Decimal(k)
             l == Len(Decimal(k))
  <2>1. k \in Nat
    BY <1>1
  <2>2. AppendInt(n) = t
    BY <1>1 DEF AppendInt
  <2> HIDE DEF k
  <2>3. t \in Text /\ Len(t) = 1 + l /\ t[1] = "-" /\ \A i \in 1..l : t[i + 1] = Decimal(k)[i]
    BY <2>1, SignedIs
  <2>4. l \in Nat /\ \A i \in 1..l : Decimal(k)[i] \in Digits
    BY <2>1, DecimalWord
  <2> HIDE DEF t, l
  <2>5. \A j \in 1..(1 + l) : j = 1 \/ (j - 1 \in 1..l /\ (j - 1) + 1 = j)
    BY <2>4
  <2>6. \A j \in 1..Len(t) : t[j] # "|" /\ t[j] # "\\"
    BY <2>3, <2>4, <2>5, DigitChar
  <2>7. t \in Word
    BY <2>3, <2>6, PlainWord
  <2> QED
    BY <1>1, <2>2, <2>3, <2>4, <2>7
<1>2. CASE ~(n < 0)
  <2> DEFINE t == Decimal(n)
  <2>1. n \in Nat /\ AppendInt(n) = t
    BY <1>2 DEF AppendInt
  <2>2. t \in Text /\ Len(t) \in Nat /\ Len(t) >= 1 /\ \A i \in 1..Len(t) : t[i] \in Digits
    BY <2>1, DecimalWord
  <2> HIDE DEF t
  <2>3. 1 \in 1..Len(t)
    BY <2>2
  <2>4. \A i \in 1..Len(t) : t[i] # "|" /\ t[i] # "\\" /\ t[i] # "-"
    BY <2>2, DigitChar
  <2>5. t \in Word
    BY <2>2, <2>4, PlainWord
  <2> QED
    BY <1>2, <2>1, <2>2, <2>3, <2>4, <2>5
<1> QED
  BY <1>1, <1>2

LEMMA IntInjective ==
    ASSUME NEW n \in Int, NEW m \in Int, AppendInt(n) = AppendInt(m)
    PROVE  n = m
<1>1. n < 0 <=> m < 0
  BY IntStarts
<1>2. CASE ~(n < 0)
  <2>1. n \in Nat /\ m \in Nat /\ Decimal(n) = Decimal(m)
    BY <1>1, <1>2 DEF AppendInt
  <2> QED
    BY <2>1, DecimalInjective
<1>3. CASE n < 0
  <2> DEFINE j == -n
             k == -m
             t == <<"-">> \o Decimal(j)
             l == Len(Decimal(j))
  <2>1. j \in Nat /\ k \in Nat /\ (j = k => n = m)
    BY <1>1, <1>3
  <2>2. t = <<"-">> \o Decimal(k)
    BY <1>1, <1>3 DEF AppendInt
  <2> HIDE DEF j, k
  <2>3. Len(t) = 1 + l /\ \A i \in 1..l : t[i + 1] = Decimal(j)[i]
    BY <2>1, SignedIs
  <2>4. Len(t) = 1 + Len(Decimal(k)) /\ \A i \in 1..Len(Decimal(k)) : t[i + 1] = Decimal(k)[i]
    BY <2>1, <2>2, SignedIs
  <2>5. /\ l \in Nat /\ Len(Decimal(k)) \in Nat
        /\ Decimal(j) \in Seq(Char) /\ Decimal(k) \in Seq(Char)
    BY <2>1, DecimalWord DEF Text
  <2> HIDE DEF t
  <2>6. Len(Decimal(k)) = l
    <3> DEFINE z == Len(Decimal(k))
    <3> HIDE DEF z, l
    <3>1. 1 + z = 1 + l /\ z \in Nat /\ l \in Nat
      BY <2>3, <2>4, <2>5 DEF z
    <3> QED
      BY <3>1 DEF z
  <2>7. \A i \in 1..l : Decimal(j)[i] = Decimal(k)[i]
    BY <2>3, <2>4, <2>6
  <2>8. Decimal(j) = Decimal(k)
    BY <2>5, <2>6, <2>7, SameElements
  <2> QED
    BY <2>1, <2>8, DecimalInjective
<1> QED
  BY <1>2, <1>3

----------------------------------------------------------------------------
(* What is written for the value of a column *)

LEMMA ValueText ==
    ASSUME NEW v, IsValue(v)
    PROVE  \/ v = Nil /\ v.t = "nil" /\ appendKeyValue(v) = NullText
           \/ v.t = "int" /\ v.s[1] \in Int /\ v = [t |-> "int", s |-> [i \in 1..1 |-> v.s[1]]]
              /\ appendKeyValue(v) = AppendInt(v.s[1])
           \/ v.t = "chars" /\ v.s \in Seq(Char) /\ v = [t |-> "chars", s |-> v.s]
              /\ appendKeyValue(v) = appendEscaped(v.s)
<1>1. CASE v = Nil
  BY <1>1 DEF Nil, appendKeyValue, NullText
<1>2. CASE v.t = "int" /\ v \in [t : {"int"}, s : [1..1 -> Int]]
  <2>1. v.s \in [1..1 -> Int] /\ v = [t |-> "int", s |-> v.s]
    BY <1>2
  <2>2. v.s = [i \in 1..1 |-> v.s[1]] /\ v.s[1] \in Int
    BY <2>1
  <2>3. appendKeyValue(v) = AppendInt(v.s[1])
    BY <1>2 DEF appendKeyValue
  <2> QED
    BY <1>2, <2>1, <2>2, <2>3
<1>3. CASE v.t = "chars" /\ v \in [t : {"chars"}, s : Seq(STRING)]
  <2>1. v.s \in Seq(STRING) /\ v = [t |-> "chars", s |-> v.s]
    BY <1>3
  <2>2. v.s \in Seq(Char)
    <3>1. STRING \subseteq Char
      BY DEF Char
    <3>2. /\ Len(v.s) \in Nat /\ v.s = [i \in 1..Len(v.s) |-> v.s[i]]
          /\ \A i \in 1..Len(v.s) : v.s[i] \in STRING
      BY <2>1
    <3>3. \A i \in 1..Len(v.s) : v.s[i] \in Char
      BY <3>1, <3>2
    <3> DEFINE l == Len(v.s)
    <3> HIDE DEF l
    <3>4. v.s \in [1..l -> Char] /\ l \in Nat
      BY <3>2, <3>3 DEF l
    <3> QED
      BY <3>4
  <2>3. appendKeyValue(v) = appendEscaped(v.s)
    BY <1>3 DEF appendKeyValue
  <2> QED
    BY <1>3, <2>1, <2>2, <2>3
<1> QED
  BY <1>1, <1>2, <1>3 DEF IsValue

LEMMA ValueWord ==
    ASSUME NEW v, IsValue(v)
    PROVE  appendKeyValue(v) \in Word
  BY ValueText, NullWord, IntStarts, EscapedWord

\* Two values of a column that are written alike are the same.
LEMMA ValueInjective ==
    ASSUME NEW v, IsValue(v), NEW w, IsValue(w), {v.t, w.t} # {"int", "chars"},
           appendKeyValue(v) = appendKeyValue(w)
    PROVE  v = w
<1>1. NullText[1] = "\\"
  BY DEF NullText
<1>2. \A n \in Int : AppendInt(n) # NullText
  BY <1>1, IntStarts
<1>3. \A s \in Seq(Char) : appendEscaped(s) # NullText
  BY NullIsNoText
<1>4. CASE v.t = "nil"
  BY <1>2, <1>3, <1>4, ValueText
<1>5. CASE v.t = "int"
  <2>1. v.s[1] \in Int /\ v = [t |-> "int", s |-> [i \in 1..1 |-> v.s[1]]] /\ appendKeyValue(v) = AppendInt(v.s[1])
    BY <1>5, ValueText
  <2>2. w.t # "chars" /\ w.t # "nil"
    BY <1>2, <1>5, <2>1, ValueText
  <2>3. w.s[1] \in Int /\ w = [t |-> "int", s |-> [i \in 1..1 |-> w.s[1]]] /\ appendKeyValue(w) = AppendInt(w.s[1])
    BY <2>2, ValueText
  <2>4. v.s[1] = w.s[1]
    BY <2>1, <2>3, IntInjective
  <2> QED
    BY <2>1, <2>3, <2>4
<1>6. CASE v.t = "chars"
  <2>1. v.s \in Seq(Char) /\ v = [t |-> "chars", s |-> v.s] /\ appendKeyValue(v) = appendEscaped(v.s)
    BY <1>6, ValueText
  <2>2. w.t # "int" /\ w.t # "nil"
    BY <1>3, <1>6, <2>1, ValueText
  <2>3. w.s \in Seq(Char) /\ w = [t |-> "chars", s |-> w.s] /\ appendKeyValue(w) = appendEscaped(w.s)
    BY <2>2, ValueText
  <2>4. v.s = w.s
    BY <2>1, <2>3, EscapedInjective
  <2> QED
    BY <2>1, <2>3, <2>4
<1> QED
  BY <1>4, <1>5, <1>6, ValueText

LEMMA Unchanged ==
    ASSUME NEW v, v.t \notin {"string", "bytes"}, NEW kind
    PROVE  Normalize(kind, v) = v
  BY DEF Normalize

\* A value as it is delivered and normalised is written like the database's own.
LEMMA NormalizedText ==
    ASSUME NEW v, IsValue(v), NEW kind
    PROVE  appendKeyValue(Normalize(kind, As(v, "string"))) =
           appendKeyValue(IF kind = "json" /\ v.s = <<>> THEN Nil ELSE v)
<1> DEFINE x == Normalize(kind, As(v, "string"))
<1>1. CASE v.t = "nil"
  <2>1. v = Nil /\ x = Nil
    <3>1. v = Nil
      BY <1>1, ValueText
    <3>2. As(v, "string") = v
      BY <1>1 DEF As
    <3>3. v.t \notin {"string", "bytes"}
      BY <1>1
    <3>4. Normalize(kind, v) = v
      BY <3>3, Unchanged
    <3> QED
      BY <3>1, <3>2, <3>4
  <2> QED
    BY <2>1
<1>2. CASE v.t = "int"
  <2>1. x = v
    <3>1. As(v, "string") = v
      BY <1>2 DEF As
    <3>2. v.t \notin {"string", "bytes"}
      BY <1>2
    <3> QED
      BY <3>1, <3>2, Unchanged
  <2>2. v.s # <<>>
    <3>1. v = [t |-> "int", s |-> [i \in 1..1 |-> v.s[1]]]
      BY <1>2, ValueText
    <3>2. v.s = [i \in 1..1 |-> v.s[1]]
      BY <3>1
    <3>3. DOMAIN v.s = 1..1 /\ 1 \in 1..1
      BY <3>2
    <3> QED
      BY <3>3
  <2> QED
    BY <2>1, <2>2
<1>3. CASE v.t = "chars"
  <2>1. v.s \in Seq(Char) /\ v = [t |-> "chars", s |-> v.s] /\ appendKeyValue(v) = appendEscaped(v.s)
    BY <1>3, ValueText
  <2>2. As(v, "string") = [t |-> "string", s |-> v.s]
    BY <1>3, <2>1 DEF As
  <2>3. CASE kind = "json" /\ v.s = <<>>
    BY <2>2, <2>3 DEF Normalize
  <2>4. CASE kind = "json" /\ v.s # <<>>
    <3>1. x = [t |-> "raw", s |-> v.s]
      BY <2>2, <2>4 DEF Normalize
    <3>2. appendKeyValue(x) = appendEscaped(v.s)
      BY <3>1 DEF appendKeyValue
    <3> QED
      BY <2>1, <2>4, <3>2
  <2>5. CASE kind = "binary"
    <3>1. x = [t |-> "bytes", s |-> v.s]
      BY <2>2, <2>5 DEF Normalize
    <3>2. appendKeyValue(x) = appendEscaped(v.s)
      BY <3>1 DEF appendKeyValue
    <3> QED
      BY <2>1, <2>5, <3>2
  <2>6. CASE kind # "json" /\ kind # "binary"
    <3>1. x = [t |-> "string", s |-> v.s]
      BY <2>2, <2>6 DEF Normalize
    <3>2. appendKeyValue(x) = appendEscaped(v.s)
      BY <3>1 DEF appendKeyValue
    <3> QED
      BY <2>1, <2>6, <3>2
  <2> QED
    BY <2>3, <2>4, <2>5, <2>6
<1> QED
  BY <1>1, <1>2, <1>3, ValueText

----------------------------------------------------------------------------
(* The key of a row *)

\* The value an entity has in a column.
ColumnValue(schema, vals, n) ==
    IF \/ n \notin Present(schema, vals)
       \/ schema.kinds[At(schema, vals, n)] = "json" /\ vals[At(schema, vals, n)].s = <<>>
    THEN Nil ELSE vals[At(schema, vals, n)]

LEMMA PresentValue ==
    ASSUME NEW schema, IsSchema(schema), NEW vals, IsImage(vals), NEW n \in Present(schema, vals)
    PROVE  At(schema, vals, n) \in 1..Len(vals) /\ IsValue(vals[At(schema, vals, n)])
<1> DEFINE a == At(schema, vals, n)
<1>1. Len(vals) \in Nat /\ \A i \in 1..Len(vals) : IsValue(vals[i])
  BY ImageType
<1>2. Width(schema, vals) \in Nat /\ Width(schema, vals) <= Len(vals) /\ a \in 1..Width(schema, vals)
  BY WidthType
<1> HIDE DEF a
<1>3. a \in 1..Len(vals)
  BY <1>1, <1>2
<1> QED
  BY <1>1, <1>3 DEF a

LEMMA ColumnText ==
    ASSUME NEW schema, IsSchema(schema), NEW vals, IsImage(vals), NEW n
    PROVE  /\ IsValue(ColumnValue(schema, vals, n))
           /\ appendKeyValue(IF n \in DOMAIN RowOf(schema, vals) THEN RowOf(schema, vals)[n] ELSE Nil)
              = appendKeyValue(ColumnValue(schema, vals, n))
<1> DEFINE a == At(schema, vals, n)
           row == RowOf(schema, vals)
           v == vals[a]
           kind == schema.kinds[a]
<1>1. IsValue(Nil)
  BY DEF IsValue
<1>2. DOMAIN row = Present(schema, vals)
  BY DEF RowOf
<1>3. CASE n \notin Present(schema, vals)
  BY <1>1, <1>2, <1>3 DEF ColumnValue
<1>4. CASE n \in Present(schema, vals)
  <2>1. IsValue(v)
    BY <1>4, PresentValue
  <2>2. row[n] = Normalize(kind, As(v, "string"))
    BY <1>4 DEF RowOf
  <2>3. ColumnValue(schema, vals, n) = IF kind = "json" /\ v.s = <<>> THEN Nil ELSE v
    BY <1>4 DEF ColumnValue
  <2> HIDE DEF a, row, v, kind
  <2>4. appendKeyValue(row[n]) = appendKeyValue(ColumnValue(schema, vals, n))
    BY <2>1, <2>2, <2>3, NormalizedText
  <2>5. IsValue(ColumnValue(schema, vals, n))
    BY <1>1, <2>1, <2>3
  <2> QED
    BY <1>2, <1>4, <2>4, <2>5 DEF row
<1> QED
  BY <1>3, <1>4

\* Two rows whose columns have one type each, and agree on where a column is.
Compatible(vals, wals) ==
    \A i \in DOMAIN vals \cap DOMAIN wals : {vals[i].t, wals[i].t} # {"int", "chars"}

LEMMA ColumnTypes ==
    ASSUME NEW schema, IsSchema(schema), NEW vals, IsImage(vals), NEW wals, IsImage(wals),
           Compatible(vals, wals), NEW n
    PROVE  {ColumnValue(schema, vals, n).t, ColumnValue(schema, wals, n).t} # {"int", "chars"}
<1> DEFINE a == At(schema, vals, n)
           b == At(schema, wals, n)
<1>1. Nil.t = "nil" /\ \A x : {"nil", x} # {"int", "chars"} /\ {x, "nil"} # {"int", "chars"}
  <2>1. Nil.t = "nil" /\ "nil" \notin {"int", "chars"}
    BY DEF Nil
  <2> QED
    BY <2>1
<1>2. CASE ColumnValue(schema, vals, n) = Nil \/ ColumnValue(schema, wals, n) = Nil
  BY <1>1, <1>2
<1>3. CASE ColumnValue(schema, vals, n) # Nil /\ ColumnValue(schema, wals, n) # Nil
  <2>1. n \in Present(schema, vals) /\ n \in Present(schema, wals)
    BY <1>3 DEF ColumnValue
  <2>2. ColumnValue(schema, vals, n) = vals[a] /\ ColumnValue(schema, wals, n) = wals[b]
    BY <1>3 DEF ColumnValue
  <2>3. a \in 1..Len(vals) /\ b \in 1..Len(wals)
    BY <2>1, PresentValue
  <2>4. DOMAIN vals = 1..Len(vals) /\ DOMAIN wals = 1..Len(wals)
    BY ImageType
  <2>5. a = b
    <3>1. /\ a \in 1..Width(schema, vals) /\ schema.columns[a] = n
          /\ Width(schema, vals) \in Nat /\ Width(schema, vals) <= Len(schema.columns)
      BY <2>1, WidthType
    <3>2. /\ b \in 1..Width(schema, wals) /\ schema.columns[b] = n
          /\ Width(schema, wals) \in Nat /\ Width(schema, wals) <= Len(schema.columns)
      BY <2>1, WidthType
    <3>3. Len(schema.columns) \in Nat /\ DOMAIN schema.columns = 1..Len(schema.columns)
      BY DEF IsSchema
    <3> HIDE DEF a, b
    <3>4. a \in DOMAIN schema.columns /\ b \in DOMAIN schema.columns
      BY <3>1, <3>2, <3>3
    <3> QED
      BY <3>1, <3>2, <3>4 DEF IsSchema, IsInjective
  <2> HIDE DEF a, b
  <2>6. {vals[a].t, wals[a].t} # {"int", "chars"}
    BY <2>3, <2>4, <2>5 DEF Compatible
  <2> QED
    BY <2>2, <2>5, <2>6
<1> QED
  BY <1>2, <1>3

\* The parts of a key behind the table.
Texts(schema, vals, names) ==
    [i \in DOMAIN names |-> appendKeyValue(ColumnValue(schema, vals, names[i]))]

LEMMA TextsType ==
    ASSUME NEW schema, IsSchema(schema), NEW vals, IsImage(vals), NEW S, NEW names \in Seq(S)
    PROVE  /\ Texts(schema, vals, names) \in Seq(Word) /\ Len(Texts(schema, vals, names)) = Len(names)
           /\ Len(names) \in Nat /\ DOMAIN names = 1..Len(names)
<1> DEFINE l == Len(names)
           t(i) == appendKeyValue(ColumnValue(schema, vals, names[i]))
<1>1. l \in Nat /\ DOMAIN names = 1..l
  OBVIOUS
<1>2. \A i \in 1..l : t(i) \in Word
  BY ColumnText, ValueWord
<1>3. Texts(schema, vals, names) = [i \in 1..l |-> t(i)]
  BY <1>1 DEF Texts
<1> HIDE DEF l, t
<1>4. [i \in 1..l |-> t(i)] \in Seq(Word) /\ Len([i \in 1..l |-> t(i)]) = l
  BY <1>1, <1>2
<1> QED
  BY <1>1, <1>3, <1>4 DEF l

\* For the same columns, the texts agree exactly when the values do.
LEMMA TextsTell ==
    ASSUME NEW schema, IsSchema(schema), NEW vals, IsImage(vals), NEW wals, IsImage(wals),
           Compatible(vals, wals), NEW names
    PROVE  Texts(schema, vals, names) = Texts(schema, wals, names)
           <=> \A n \in Range(names) : ColumnValue(schema, vals, n) = ColumnValue(schema, wals, n)
<1> DEFINE x(n) == ColumnValue(schema, vals, n)
           y(n) == ColumnValue(schema, wals, n)
<1>1. \A n : x(n) = y(n) <=> appendKeyValue(x(n)) = appendKeyValue(y(n))
  BY ColumnText, ColumnTypes, ValueInjective
<1>2. /\ Texts(schema, vals, names) = [i \in DOMAIN names |-> appendKeyValue(x(names[i]))]
      /\ Texts(schema, wals, names) = [i \in DOMAIN names |-> appendKeyValue(y(names[i]))]
  BY DEF Texts
<1> HIDE DEF x, y
<1>3. Texts(schema, vals, names) = Texts(schema, wals, names)
      <=> \A i \in DOMAIN names : appendKeyValue(x(names[i])) = appendKeyValue(y(names[i]))
  BY <1>2
<1>4. (\A n \in Range(names) : x(n) = y(n)) <=> \A i \in DOMAIN names : x(names[i]) = y(names[i])
  BY DEF Range
<1>5. (\A i \in DOMAIN names : x(names[i]) = y(names[i]))
      <=> \A i \in DOMAIN names : appendKeyValue(x(names[i])) = appendKeyValue(y(names[i]))
  BY <1>1
<1> QED
  BY <1>3, <1>4, <1>5 DEF x, y

\* sort.Strings finds an order, and the only one.
LEMMA SortStringsLists ==
    ASSUME NEW S \in SUBSET Columns, IsFiniteSet(S)
    PROVE  Lists(SortStrings(S), S) /\ Len(SortStrings(S)) = Cardinality(S)
<1> DEFINE n == Cardinality(S)
<1>1. n \in Nat /\ \E p : p \in Bijection(1..n, S)
  BY FS_CardinalityType DEF ExistsBijection
<1>2. PICK p : p \in Bijection(1..n, S)
  BY <1>1
<1>3. p \in [1..n -> S] /\ \A i, j \in 1..n : i # j => p[i] # p[j]
  BY <1>2 DEF Bijection, Injection, IsInjective
<1>4. p \in SetToSeqs(S)
  BY <1>3 DEF SetToSeqs
<1> DEFINE t == insertionSort(p)
<1>5. Lists(t, S) /\ Len(t) = n
  BY <1>4, SortOfSeqs
<1> HIDE DEF n, t
<1>6. /\ DOMAIN t = 1..n /\ \A i \in 1..n : t[i] \in S /\ Rank(t[i]) \in Nat
      /\ \A i, j \in 1..n : i < j => Rank(t[i]) < Rank(t[j])
  BY <1>5, ListsIs
<1>7. \A i, j \in 1..n : i # j => t[i] # t[j]
  <2> SUFFICES ASSUME NEW i \in 1..n, NEW j \in 1..n, i # j, t[i] = t[j] PROVE FALSE
    OBVIOUS
  <2>1. i < j \/ j < i
    BY <1>1 DEF n
  <2>2. Rank(t[i]) < Rank(t[i])
    BY <1>6, <2>1
  <2>3. Rank(t[i]) \in Nat
    BY <1>6
  <2> QED
    BY <2>2, <2>3
<1>8. t \in [1..n -> S]
  <2>1. t \in Seq(Columns)
    BY <1>5 DEF Lists
  <2>2. t = [i \in 1..Len(t) |-> t[i]]
    BY <2>1
  <2> QED
    BY <1>5, <1>6, <2>2
<1>9. t \in SetToSeqs(S) /\ Ascending(t)
  BY <1>5, <1>7, <1>8 DEF SetToSeqs, Lists, n
<1> DEFINE q == SortStrings(S)
<1>10. q \in SetToSeqs(S) /\ Ascending(q)
  BY <1>9 DEF SortStrings
<1> HIDE DEF q
<1>11. q \in Seq(Columns) /\ Len(q) = Cardinality(S) /\ {q[k] : k \in 1..Len(q)} = S
  BY <1>10, SeqsOf
<1>12. Lists(q, S)
  BY <1>10, <1>11 DEF Lists
<1> QED
  BY <1>11, <1>12 DEF q

\* The table in front does not matter between two rows of a table.
LEMMA PrefixCancels ==
    ASSUME NEW f, NEW s \in Text, NEW t \in Text
    PROVE  /\ <<f>> \o s = <<f>> \o t <=> s = t
           /\ <<f>> \o s # <<>>
<1> DEFINE C == Char \cup {f}
           x == <<f>>
           k == Len(s)
           l == Len(t)
           u == x \o s
           w == x \o t
<1>1. x \in Seq(C) /\ Len(x) = 1
  OBVIOUS
<1>2. s \in Seq(C) /\ t \in Seq(C) /\ k \in Nat /\ l \in Nat
  <2>1. Char \subseteq C
    OBVIOUS
  <2> HIDE DEF C
  <2> QED
    BY <2>1 DEF Text
<1> HIDE DEF C, x
<1>3. /\ Len(u) = Len(x) + k
      /\ \A i \in 1..(Len(x) + k) : u[i] = IF i <= Len(x) THEN x[i] ELSE s[i - Len(x)]
  BY <1>1, <1>2, ConcatProperties
<1>4. /\ Len(w) = Len(x) + l
      /\ \A i \in 1..(Len(x) + l) : w[i] = IF i <= Len(x) THEN x[i] ELSE t[i - Len(x)]
  BY <1>1, <1>2, ConcatProperties
<1> HIDE DEF u, w, k, l
<1>5. Len(u) = 1 + k /\ \A i \in 1..(1 + k) : u[i] = IF i <= 1 THEN x[i] ELSE s[i - 1]
  BY <1>1, <1>3
<1>6. Len(w) = 1 + l /\ \A i \in 1..(1 + l) : w[i] = IF i <= 1 THEN x[i] ELSE t[i - 1]
  BY <1>1, <1>4
<1>7. ASSUME u = w PROVE s = t
  <2>1. 1 + k = 1 + l
    BY <1>5, <1>6, <1>7
  <2>2. k = l
    BY <1>2, <2>1
  <2>3. ASSUME NEW i \in 1..k PROVE s[i] = t[i]
    <3>1. i + 1 \in 1..(1 + k) /\ ~(i + 1 <= 1) /\ (i + 1) - 1 = i
      BY <1>2
    <3>2. u[i + 1] = s[i] /\ w[i + 1] = t[i]
      BY <1>5, <1>6, <2>2, <3>1
    <3> QED
      BY <1>7, <3>2
  <2> QED
    BY <1>2, <2>2, <2>3, SameElements DEF k, l
<1>8. u # <<>>
  <2>1. Len(<<>>) = 0
    OBVIOUS
  <2>2. 1 + k # 0
    BY <1>2
  <2>3. Len(u) # 0
    BY <1>5, <2>2
  <2> QED
    BY <2>1, <2>3
<1>9. (s = t) => (u = w)
  BY DEF u, w
<1> QED
  BY <1>7, <1>8, <1>9 DEF u, w, x

\* The columns of the key of a row, given the ones that are named for its table.
Names(schema, vals, named) == IF named = <<>> THEN SortStrings(Present(schema, vals)) ELSE named

LEMMA NamesType ==
    ASSUME NEW schema, IsSchema(schema), NEW vals, IsImage(vals), NEW named \in Seq(STRING)
    PROVE  /\ \E S : Names(schema, vals, named) \in Seq(S)
           /\ named = <<>> => /\ Range(Names(schema, vals, named)) = Present(schema, vals)
                              /\ Len(Names(schema, vals, named)) = Cardinality(Present(schema, vals))
<1> DEFINE S == Present(schema, vals)
           q == SortStrings(S)
<1>1. S \in SUBSET Columns /\ IsFiniteSet(S)
  BY PresentColumns, ColumnsFinite, FS_Subset
<1> HIDE DEF S
<1>2. Lists(q, S) /\ Len(q) = Cardinality(S)
  BY <1>1, SortStringsLists
<1> HIDE DEF q
<1>3. q \in Seq(Columns)
  BY <1>2 DEF Lists
<1>4. Range(q) = S
  <2>1. DOMAIN q = 1..Len(q)
    BY <1>2, ListsIs
  <2>2. \A c : c \in S <=> \E i \in 1..Len(q) : q[i] = c
    BY <1>2 DEF Lists
  <2>3. \A c : c \in Range(q) <=> c \in S
    BY <2>1, <2>2 DEF Range
  <2> QED
    BY <2>3
<1>5. CASE named = <<>>
  BY <1>2, <1>3, <1>4, <1>5 DEF Names, S, q
<1>6. CASE named # <<>>
  BY <1>6 DEF Names
<1> QED
  BY <1>5, <1>6

LEMMA KeyIs ==
    ASSUME NEW f, NEW schema, IsSchema(schema), NEW vals, IsImage(vals), NEW named \in Seq(STRING)
    PROVE  /\ KeyFromColumns(f, RowOf(schema, vals), named)
              = <<f>> \o Joined(Texts(schema, vals, Names(schema, vals, named)))
           /\ Texts(schema, vals, Names(schema, vals, named)) \in Seq(Word)
           /\ Joined(Texts(schema, vals, Names(schema, vals, named))) \in Text
<1> DEFINE row == RowOf(schema, vals)
           names == Names(schema, vals, named)
           value(n) == IF n \in DOMAIN row THEN row[n] ELSE Nil
           texts == Texts(schema, vals, names)
<1>1. DOMAIN row = Present(schema, vals)
  BY DEF RowOf
<1>2. \A n : appendKeyValue(value(n)) = appendKeyValue(ColumnValue(schema, vals, n))
  BY ColumnText
<1>3. KeyColumns(row, named) = names
  BY <1>1 DEF KeyColumns, Names
<1> HIDE DEF names, row
<1>4. KeyFromColumns(f, row, named) =
        <<f>> \o FlattenSeq([i \in DOMAIN names |-> <<"|">> \o appendKeyValue(value(names[i]))])
  BY ONLY <1>3 DEF KeyFromColumns
<1> HIDE DEF value
<1>5. DOMAIN texts = DOMAIN names
      /\ \A i \in DOMAIN names : texts[i] = appendKeyValue(value(names[i]))
  BY <1>2 DEF Texts
<1> HIDE DEF texts
<1>6. Parts(texts) = [i \in DOMAIN names |-> <<"|">> \o appendKeyValue(value(names[i]))]
  BY <1>5 DEF Parts
<1>7. KeyFromColumns(f, row, named) = <<f>> \o Joined(texts)
  BY <1>4, <1>6 DEF Joined
<1>8. PICK S : names \in Seq(S)
  BY NamesType DEF names
<1>9. texts \in Seq(Word)
  BY <1>8, TextsType DEF texts
<1>10. Joined(texts) \in Text
  <2>1. Word \subseteq Text
    BY DEF Word
  <2>2. texts \in Seq(Text)
    BY <1>9, <2>1
  <2> QED
    BY <2>2, JoinedType
<1> QED
  BY <1>7, <1>9, <1>10 DEF texts, names, row

\* The columns a row has are the first ones: of two rows, one has them all.
LEMMA PresentNested ==
    ASSUME NEW schema, IsSchema(schema), NEW vals, IsImage(vals), NEW wals, IsImage(wals)
    PROVE  \/ Present(schema, vals) \subseteq Present(schema, wals)
           \/ Present(schema, wals) \subseteq Present(schema, vals)
<1> DEFINE k == Width(schema, vals)
           l == Width(schema, wals)
<1>1. k \in Nat /\ l \in Nat
  BY WidthType
<1> HIDE DEF k, l
<1>2. 1..k \subseteq 1..l \/ 1..l \subseteq 1..k
  BY <1>1
<1> QED
  BY <1>2 DEF Present, k, l

EntityIn(schema, vals, named) ==
    [n \in IF named = <<>> THEN Present(schema, vals) ELSE Range(named) |-> ColumnValue(schema, vals, n)]

\* Two rows of a table have the same key exactly when they are of one entity.
LEMMA KeysTell ==
    ASSUME NEW schema, IsSchema(schema), NEW vals, IsImage(vals), NEW wals, IsImage(wals),
           Compatible(vals, wals), NEW named \in Seq(STRING), NEW f
    PROVE  KeyFromColumns(f, RowOf(schema, vals), named) = KeyFromColumns(f, RowOf(schema, wals), named)
           <=> EntityIn(schema, vals, named) = EntityIn(schema, wals, named)
<1> DEFINE p == Names(schema, vals, named)
           q == Names(schema, wals, named)
           x == Texts(schema, vals, p)
           y == Texts(schema, wals, q)
           A == Present(schema, vals)
           B == Present(schema, wals)
<1>1. /\ KeyFromColumns(f, RowOf(schema, vals), named) = <<f>> \o Joined(x)
      /\ x \in Seq(Word) /\ Joined(x) \in Text
  BY KeyIs
<1>2. /\ KeyFromColumns(f, RowOf(schema, wals), named) = <<f>> \o Joined(y)
      /\ y \in Seq(Word) /\ Joined(y) \in Text
  BY KeyIs
<1>3. (KeyFromColumns(f, RowOf(schema, vals), named) = KeyFromColumns(f, RowOf(schema, wals), named))
      <=> x = y
  <2> HIDE DEF x, y
  <2>1. (<<f>> \o Joined(x) = <<f>> \o Joined(y)) <=> Joined(x) = Joined(y)
    BY <1>1, <1>2, PrefixCancels
  <2>2. Joined(x) = Joined(y) <=> x = y
    BY <1>1, <1>2, JoinedInjective
  <2> QED
    BY <1>1, <1>2, <2>1, <2>2
<1>4. p = q => ((x = y) <=>
          \A n \in Range(p) : ColumnValue(schema, vals, n) = ColumnValue(schema, wals, n))
  BY TextsTell
<1>5. CASE named # <<>>
  <2>1. p = named /\ q = named
    BY <1>5 DEF Names
  <2>2. (EntityIn(schema, vals, named) = EntityIn(schema, wals, named))
        <=> \A n \in Range(named) : ColumnValue(schema, vals, n) = ColumnValue(schema, wals, n)
    BY <1>5 DEF EntityIn
  <2> QED
    BY <1>3, <1>4, <2>1, <2>2
<1>6. CASE named = <<>>
  <2>1. Range(p) = A /\ Len(p) = Cardinality(A) /\ Len(q) = Cardinality(B)
    BY <1>6, NamesType
  <2>2. Len(x) = Len(p) /\ Len(y) = Len(q)
    <3>1. PICK S : p \in Seq(S)
      BY NamesType
    <3>2. PICK T : q \in Seq(T)
      BY NamesType
    <3> QED
      BY <3>1, <3>2, TextsType
  <2>3. A = B => p = q
    BY <1>6 DEF Names
  <2>4. x = y => A = B
    <3>1. IsFiniteSet(A) /\ IsFiniteSet(B)
      BY PresentColumns, ColumnsFinite, FS_Subset
    <3>2. A \subseteq B \/ B \subseteq A
      BY PresentNested
    <3>3. x = y => Cardinality(A) = Cardinality(B)
      BY <2>1, <2>2
    <3> HIDE DEF A, B, x, y
    <3> QED
      BY <3>1, <3>2, <3>3, FS_Subset
  <2>5. /\ EntityIn(schema, vals, named) = [n \in A |-> ColumnValue(schema, vals, n)]
        /\ EntityIn(schema, wals, named) = [n \in B |-> ColumnValue(schema, wals, n)]
    BY <1>6 DEF EntityIn
  <2> HIDE DEF A, B, x, y, p, q
  <2>6. EntityIn(schema, vals, named) = EntityIn(schema, wals, named)
        <=> /\ A = B
            /\ \A n \in A : ColumnValue(schema, vals, n) = ColumnValue(schema, wals, n)
    BY <2>5
  <2> QED
    BY <1>3, <1>4, <2>1, <2>3, <2>4, <2>6
<1> QED
  BY <1>5, <1>6

\* The columns that are named for the table of a change.
Named(ov, c) == IF c.schema.fqtn \in DOMAIN ov THEN ov[c.schema.fqtn] ELSE c.schema.pk

LEMMA RoutedKey ==
    ASSUME NEW ov, IsOverrides(ov), NEW c \in Changes
    PROVE  /\ Named(ov, c) \in Seq(STRING)
           /\ Routed(ov, c).key = KeyFromColumns(c.schema.fqtn, RowOf(c.schema, Image(c)), Named(ov, c))
<1> DEFINE k == EventOf(c, "string")
           f == c.schema.fqtn
           row == RowOf(c.schema, Image(c))
<1>1. IsSchema(c.schema) /\ IsImage(Image(c))
  BY ChangeType
<1>2. Named(ov, c) \in Seq(STRING)
  BY <1>1 DEF Named, IsOverrides, IsSchema
<1>3. /\ Routed(ov, c).key = DefaultKey(ov, k) /\ k.fqtn = f /\ Row(k) = row
      /\ k.key = KeyFromColumns(f, row, c.schema.pk)
  BY EventIs
<1>4. k.key # <<>>
  <2>1. c.schema.pk \in Seq(STRING)
    BY <1>1 DEF IsSchema
  <2> DEFINE j == Joined(Texts(c.schema, Image(c), Names(c.schema, Image(c), c.schema.pk)))
  <2>2. k.key = <<f>> \o j /\ j \in Text
    BY <1>1, <1>3, <2>1, KeyIs
  <2> HIDE DEF j
  <2> QED
    BY <2>2, PrefixCancels
<1> HIDE DEF k, f, row
<1>5. DefaultKey(ov, k) = KeyFromColumns(f, row, Named(ov, c))
  <2>1. Named(ov, c) = IF f \in DOMAIN ov THEN ov[f] ELSE c.schema.pk
    BY DEF Named, f
  <2>2. CASE f \in DOMAIN ov
    <3>1. DefaultKey(ov, k) = KeyFromColumns(k.fqtn, Row(k), ov[k.fqtn])
      BY <1>3, <2>2 DEF DefaultKey
    <3> QED
      BY <1>3, <2>1, <2>2, <3>1
  <2>3. CASE f \notin DOMAIN ov
    <3>1. DefaultKey(ov, k) = k.key
      BY <1>3, <1>4, <2>3 DEF DefaultKey
    <3> QED
      BY <1>3, <2>1, <2>3, <3>1
  <2> QED
    BY <2>2, <2>3
<1> QED
  BY <1>2, <1>3, <1>5 DEF f, row

LEMMA EntityIs ==
    ASSUME NEW c
    PROVE  Entity(c) = EntityIn(c.schema, Image(c), Named(overrides, c))
  BY DEF Entity, EntityIn, ColumnValue, Named, Present, At, Width

\* Two records of a table carry the same key exactly when their changes belong
\* to the same entity, whatever the values contain and however many columns,
\* tables and overrides there are.
THEOREM KeysExact == Spec => []KeysAreExact
<1>1. ASSUME Inv PROVE KeysAreExact
  <2> SUFFICES ASSUME NEW i \in DOMAIN records, NEW j \in DOMAIN records,
                      records[i].change.schema.fqtn = records[j].change.schema.fqtn
               PROVE  records[i].key = records[j].key
                      <=> Entity(records[i].change) = Entity(records[j].change)
    BY DEF KeysAreExact
  <2> DEFINE c == records[i].change
             d == records[j].change
             named == Named(overrides, c)
  <2>1. /\ c \in Changes /\ records[i] \in RecordsOf(overrides, c)
        /\ d \in Changes /\ records[j] \in RecordsOf(overrides, d)
    BY <1>1, RecordIs DEF Capturable
  <2>2. IsOverrides(overrides)
    <3>1. records # <<>>
      OBVIOUS
    <3> QED
      BY <1>1, <3>1 DEF Inv, Recorded, Configured
  <2>3. records[i].key = Routed(overrides, c).key /\ records[j].key = Routed(overrides, d).key
    BY <2>1 DEF RecordsOf
  <2> HIDE DEF c, d
  <2>4. c.schema = d.schema /\ Compatible(Image(c), Image(d))
    BY <2>1, ChangesAssumption DEF Compatible, c, d
  <2>5. IsSchema(c.schema) /\ IsImage(Image(c)) /\ IsImage(Image(d))
    BY <2>1, ChangeType
  <2>6. Named(overrides, d) = named
    BY <2>4 DEF Named
  <2> HIDE DEF named
  <2>7. /\ named \in Seq(STRING)
        /\ Routed(overrides, c).key = KeyFromColumns(c.schema.fqtn, RowOf(c.schema, Image(c)), named)
        /\ Routed(overrides, d).key = KeyFromColumns(c.schema.fqtn, RowOf(c.schema, Image(d)), named)
    BY <2>1, <2>2, <2>4, <2>6, RoutedKey DEF named
  <2>8. /\ Entity(c) = EntityIn(c.schema, Image(c), named)
        /\ Entity(d) = EntityIn(c.schema, Image(d), named)
    BY <2>4, <2>6, EntityIs DEF named
  <2>9. Routed(overrides, c).key = Routed(overrides, d).key <=> Entity(c) = Entity(d)
    BY <2>4, <2>5, <2>7, <2>8, KeysTell
  <2> QED
    BY <2>3, <2>9 DEF c, d
<1> QED
  BY <1>1, RecordsInv, PTL
=============================================================================
