-------------------------- MODULE MysqlSourceProofs -------------------------
(***************************************************************************)
(* The MySQL source, for every log, every number of restarts and           *)
(* reconnects, by GTID set and by file and offset.  Inv holds of any       *)
(* binlog: types, and a cached table schema that is never older than the   *)
(* row it maps.  Whole holds where transactions are written whole: a       *)
(* resume from the position of a sent event skips nothing and replays no   *)
(* earlier transaction, and event IDs are stable.                          *)
(***************************************************************************)
EXTENDS MysqlSource, WellFoundedInduction, FiniteSetTheorems, SequenceTheorems, TLAPS

----------------------------------------------------------------------------
(* Least elements and induction over the natural numbers, stated of sets: a *)
(* lemma of sets can be cited with the set an argument is about.           *)

\* A set of natural numbers that is not empty has a least element.
LEMMA LeastElement ==
    ASSUME NEW T \in SUBSET Nat, T # {}
    PROVE  \E x \in T : \A y \in T : x <= y
<1> DEFINE Less == OpToRel(<, Nat)
<1>1. IsWellFoundedOn(Less, Nat)
  BY NatLessThanWellFounded
<1>2. \A x, y \in Nat : <<y, x>> \in Less <=> y < x
  BY DEF OpToRel
<1> HIDE DEF Less
<1>3. PICK x \in T : \A y \in T : ~(<<y, x>> \in Less)
  BY <1>1, WFMin
<1>4. \A y \in T : y \in Nat /\ x \in Nat /\ ~(y < x)
  BY <1>2, <1>3
<1>5. \A y \in T : x <= y
  BY <1>4
<1> QED
  BY <1>5

\* Induction: a set with 0 and the successors of its elements is all of Nat.
LEMMA SetInduction ==
    ASSUME NEW T \in SUBSET Nat, 0 \in T, \A n \in T : n + 1 \in T
    PROVE  \A n \in Nat : n \in T
<1> SUFFICES ASSUME Nat \ T # {} PROVE FALSE
  OBVIOUS
<1>1. PICK x \in Nat \ T : \A y \in Nat \ T : x <= y
  BY LeastElement
<1>2. x # 0 /\ x - 1 \in Nat /\ ~(x <= x - 1) /\ (x - 1) + 1 = x
  BY <1>1
<1>3. x - 1 \in T
  BY <1>1, <1>2
<1> QED
  BY <1>1, <1>2, <1>3

----------------------------------------------------------------------------
(* Running sums *)

Steps(g, w, f, k) == g[f] = 0 /\ \A j \in f..(k - 1) : g[j + 1] = g[j] + w[j]
IsSum(g, w, f, k) == g = [j \in f..k |-> IF j = f THEN 0 ELSE g[j - 1] + w[j - 1]]

LEMMA TotalIs ==
    ASSUME NEW w, NEW f, NEW k
    PROVE  Total(w, f, k) = (CHOOSE g : IsSum(g, w, f, k))[k]
  BY DEF Total, IsSum

LEMMA SumIs ==
    ASSUME NEW g, NEW w, NEW f \in Nat, NEW k \in Nat, f <= k, IsSum(g, w, f, k)
    PROVE  Steps(g, w, f, k)
<1>1. DOMAIN g = f..k /\ \A j \in f..k : g[j] = IF j = f THEN 0 ELSE g[j - 1] + w[j - 1]
  BY DEF IsSum
<1>2. f \in f..k
  OBVIOUS
<1>3. \A j \in f..(k - 1) : j + 1 \in f..k /\ j + 1 # f /\ (j + 1) - 1 = j
  OBVIOUS
<1> QED
  BY <1>1, <1>2, <1>3 DEF Steps

LEMMA SumExists ==
    ASSUME NEW n \in Nat, NEW w \in [1..n -> Nat], NEW f \in 1..n
    PROVE  \A m \in Nat : f + m <= n + 1 =>
                \E g : IsSum(g, w, f, f + m) /\ \A j \in f..(f + m) : g[j] \in Nat
<1> DEFINE Ok(m) == \E g : IsSum(g, w, f, f + m) /\ \A j \in f..(f + m) : g[j] \in Nat
           T == {m \in Nat : f + m <= n + 1 => Ok(m)}
<1>1. 0 \in T
  <2> DEFINE g == [j \in f..f |-> 0]
  <2>1. g = [j \in f..f |-> IF j = f THEN 0 ELSE g[j - 1] + w[j - 1]] /\ \A j \in f..f : g[j] \in Nat
    OBVIOUS
  <2>2. f + 0 = f
    OBVIOUS
  <2>3. Ok(0)
    BY <2>1, <2>2 DEF IsSum
  <2> QED
    BY <2>3
<1>2. ASSUME NEW m \in T PROVE m + 1 \in T
  <2>1. SUFFICES ASSUME f + (m + 1) <= n + 1 PROVE Ok(m + 1)
    OBVIOUS
  <2>2. f + m <= n + 1 /\ f + m \in 1..n /\ f + m \in Nat /\ f + (m + 1) = (f + m) + 1
    BY <2>1
  <2>3. Ok(m)
    BY <2>2
  <2> DEFINE k == f + m
  <2>4. PICK g : IsSum(g, w, f, k) /\ \A j \in f..k : g[j] \in Nat
    BY <2>3
  <2>5. k \in 1..n /\ f <= k /\ f \in Nat /\ k \in Nat
    BY <2>2
  <2>6. w[k] \in Nat /\ f + (m + 1) = k + 1
    BY <2>2
  <2> HIDE DEF k
  <2> DEFINE h == [j \in f..(k + 1) |-> IF j = k + 1 THEN g[k] + w[k] ELSE g[j]]
  <2>7. \A j \in f..k : g[j] = IF j = f THEN 0 ELSE g[j - 1] + w[j - 1]
    BY <2>4 DEF IsSum
  <2>8. ASSUME NEW j \in f..(k + 1) PROVE h[j] = IF j = f THEN 0 ELSE h[j - 1] + w[j - 1]
    <3>1. CASE j = k + 1
      <4>1. j # f /\ j - 1 = k /\ k \in f..(k + 1) /\ k # k + 1
        BY <2>5, <3>1
      <4> QED
        BY <3>1, <4>1
    <3>2. CASE j # k + 1
      <4>1. j \in f..k /\ (j # f => j - 1 \in f..(k + 1) /\ j - 1 # k + 1)
        BY <2>5, <3>2
      <4> QED
        BY <2>7, <3>2, <4>1
    <3> QED
      BY <3>1, <3>2
  <2>9. IsSum(h, w, f, k + 1)
    <3> DEFINE d == [j \in f..(k + 1) |-> IF j = f THEN 0 ELSE h[j - 1] + w[j - 1]]
    <3>1. h = d
      BY <2>8
    <3> QED
      BY <3>1 DEF IsSum
  <2>10. \A j \in f..(k + 1) : h[j] \in Nat
    <3> TAKE j \in f..(k + 1)
    <3>1. k \in f..k /\ (j # k + 1 => j \in f..k)
      BY <2>5
    <3>2. CASE j = k + 1
      <4>1. h[j] = g[k] + w[k] /\ g[k] \in Nat /\ w[k] \in Nat
        BY <2>4, <2>6, <3>1, <3>2
      <4> QED
        BY ONLY <4>1
    <3>3. CASE j # k + 1
      BY <2>4, <3>1, <3>3
    <3> QED
      BY <3>2, <3>3
  <2> HIDE DEF h
  <2> QED
    BY <2>6, <2>9, <2>10
<1>3. T \in SUBSET Nat
  OBVIOUS
<1> HIDE DEF T
<1>4. \A m \in Nat : m \in T
  BY <1>1, <1>2, <1>3, SetInduction
<1> QED
  BY <1>4 DEF T

LEMMA SumUnique ==
    ASSUME NEW f \in Nat, NEW k \in Nat, NEW l \in Nat, f <= k, k <= l,
           NEW g, NEW w, NEW h, NEW v, IsSum(g, w, f, k), IsSum(h, v, f, l),
           \A j \in f..(k - 1) : w[j] = v[j]
    PROVE  \A j \in f..k : g[j] = h[j]
<1> DEFINE T == {m \in Nat : f + m <= k => g[f + m] = h[f + m]}
<1>1. /\ g[f] = 0 /\ \A j \in f..(k - 1) : g[j + 1] = g[j] + w[j]
      /\ h[f] = 0 /\ \A j \in f..(l - 1) : h[j + 1] = h[j] + v[j]
  <2>1. f <= l
    OBVIOUS
  <2>2. Steps(g, w, f, k) /\ Steps(h, v, f, l)
    BY <2>1, SumIs
  <2> QED
    BY <2>2 DEF Steps
<1>2. 0 \in T
  BY <1>1
<1>3. ASSUME NEW m \in T PROVE m + 1 \in T
  <2>1. SUFFICES ASSUME f + (m + 1) <= k PROVE g[f + (m + 1)] = h[f + (m + 1)]
    OBVIOUS
  <2>2. /\ f + m \in f..(k - 1) /\ f + m \in f..(l - 1) /\ f + (m + 1) = (f + m) + 1
        /\ f + m <= k
    BY <2>1
  <2>3. g[f + m] = h[f + m]
    BY <2>2
  <2> QED
    BY <1>1, <2>2, <2>3
<1>4. T \in SUBSET Nat
  OBVIOUS
<1> HIDE DEF T
<1>5. \A m \in Nat : m \in T
  BY <1>2, <1>3, <1>4, SetInduction
<1>6. \A j \in f..k : j - f \in Nat /\ f + (j - f) = j /\ j <= k
  OBVIOUS
<1>7. \A m \in Nat : f + m <= k => g[f + m] = h[f + m]
  BY <1>5 DEF T
<1> QED
  BY <1>6, <1>7

\* What the running sum is: nothing at its start, and one summand more at the
\* next place, whatever the summands beyond.
LEMMA TotalFacts ==
    ASSUME NEW n \in Nat, NEW w \in [1..n -> Nat], NEW f \in 1..n, NEW k \in f..n
    PROVE  /\ Total(w, f, k) \in Nat
           /\ Total(w, f, f) = 0
           /\ Total(w, f, k + 1) = Total(w, f, k) + w[k]
<1> DEFINE G(j) == CHOOSE g : IsSum(g, w, f, j)
<1>1. ASSUME NEW j \in f..(n + 1)
      PROVE  IsSum(G(j), w, f, j) /\ G(j)[j] \in Nat
  <2>1. j - f \in Nat /\ f + (j - f) = j /\ j <= n + 1 /\ f <= j /\ j \in Nat
    OBVIOUS
  <2>2. PICK g : IsSum(g, w, f, j) /\ \A i \in f..j : g[i] \in Nat
    <3>1. \A m \in Nat : f + m <= n + 1 =>
             \E g : IsSum(g, w, f, f + m) /\ \A i \in f..(f + m) : g[i] \in Nat
      BY SumExists
    <3>2. \E g : IsSum(g, w, f, f + (j - f)) /\ \A i \in f..(f + (j - f)) : g[i] \in Nat
      BY <2>1, <3>1
    <3> QED
      BY <2>1, <3>2
  <2>3. IsSum(G(j), w, f, j)
    BY <2>2
  <2> HIDE DEF G
  <2>4. G(j)[j] = g[j]
    BY <2>1, <2>2, <2>3, SumUnique
  <2> QED
    BY <2>1, <2>2, <2>3, <2>4
<1>2. \A j : Total(w, f, j) = G(j)[j]
  BY TotalIs
<1> HIDE DEF G
<1>3. f \in f..(n + 1) /\ k \in f..(n + 1) /\ k + 1 \in f..(n + 1) /\ f \in Nat /\ k \in Nat /\ f <= k
      /\ f <= f /\ f <= k + 1 /\ k <= k + 1 /\ k + 1 \in Nat /\ k \in f..((k + 1) - 1) /\ k \in f..k
  OBVIOUS
<1>4. G(f)[f] = 0
  BY <1>1, <1>3, SumIs DEF Steps
<1>5. G(k + 1)[k + 1] = G(k + 1)[k] + w[k]
  <2>1. IsSum(G(k + 1), w, f, k + 1)
    BY <1>1, <1>3
  <2>2. Steps(G(k + 1), w, f, k + 1)
    BY <1>3, <2>1, SumIs
  <2> QED
    BY <1>3, <2>2 DEF Steps
<1>6. G(k)[k] = G(k + 1)[k]
  <2>1. IsSum(G(k), w, f, k) /\ IsSum(G(k + 1), w, f, k + 1)
    BY <1>1, <1>3
  <2> QED
    BY <1>3, <2>1, SumUnique
<1> QED
  BY <1>1, <1>2, <1>3, <1>4, <1>5, <1>6

LEMMA TotalAgrees ==
    ASSUME NEW n \in Nat, NEW w \in [1..n -> Nat], NEW f \in 1..n, NEW k \in f..n,
           NEW m \in Nat, n <= m, NEW v \in [1..m -> Nat], \A j \in 1..n : w[j] = v[j]
    PROVE  Total(v, f, k) = Total(w, f, k)
<1> DEFINE G == CHOOSE g : IsSum(g, w, f, k)
           H == CHOOSE g : IsSum(g, v, f, k)
<1>1. /\ k - f \in Nat /\ f + (k - f) = k /\ k <= n + 1 /\ k <= m + 1 /\ f <= k /\ k \in Nat
      /\ f \in Nat /\ f \in 1..m /\ k <= k /\ k \in f..k /\ \A j \in f..(k - 1) : j \in 1..n
  OBVIOUS
<1>2. \E g : IsSum(g, w, f, k)
  BY <1>1, SumExists
<1>3. \E g : IsSum(g, v, f, k)
  BY <1>1, SumExists
<1>4. IsSum(G, w, f, k) /\ IsSum(H, v, f, k)
  BY <1>2, <1>3
<1>5. Total(w, f, k) = G[k] /\ Total(v, f, k) = H[k]
  BY TotalIs
<1> HIDE DEF G, H
<1>6. \A j \in f..(k - 1) : w[j] = v[j]
  BY <1>1
<1>7. G[k] = H[k]
  BY <1>1, <1>4, <1>6, SumUnique
<1> QED
  BY <1>5, <1>7

----------------------------------------------------------------------------
(* The binlog.  Definitions take the log as a parameter, for the log before *)
(* a step and the log after it.                                             *)

Ends == {"xid", "query", "ddl"}
ItemOf(T) == [kind : Kinds, tx : T, n : Nat, match : BOOLEAN]
Item == ItemOf(GNO)

Rotations(l, k) == {i \in 1..k : l[i].kind = "rotate"}
Ddls(l, k) == {i \in 1..k : l[i].kind = "ddl"}

\* The transactions whose end is among the first c entries.
Done(l, c) == {l[i].tx : i \in {j \in 1..c : l[j].kind \in Ends}}

\* Transactions are numbered from 1, and the entries of one are consecutive.
Numbered(l) == \E m \in Nat : m <= Len(l) /\ {l[i].tx : i \in 1..Len(l)} \ {NoGTID} = 1..m
Consecutive(l) ==
    /\ \A i \in 1..Len(l) : l[i].tx = NoGTID <=> l[i].kind = "rotate"
    /\ \A i, j, k \in 1..Len(l) :
         (i <= j /\ j <= k /\ l[i].tx = l[k].tx /\ l[i].tx # NoGTID) => l[j].tx = l[i].tx

\* What the server does: the log keeps its entries and gets new ones.
Extends(l, m) == /\ l \in Seq(Item) /\ m \in Seq(Item) /\ Len(l) <= Len(m)
                 /\ \A i \in 1..Len(l) : m[i] = l[i]

LEMMA CountType ==
    ASSUME NEW k \in Nat, NEW S \in SUBSET (1..k)
    PROVE  IsFiniteSet(S) /\ Cardinality(S) \in Nat /\ Cardinality(S) <= k
<1>1. k \in Int /\ 1 \in Int
  OBVIOUS
<1>2. IsFiniteSet(1..k) /\ Cardinality(1..k) = (IF 1 > k THEN 0 ELSE k - 1 + 1)
  BY <1>1, FS_Interval
<1>3. IsFiniteSet(S) /\ Cardinality(S) <= Cardinality(1..k)
  BY <1>2, FS_Subset
<1>4. Cardinality(S) \in Nat
  BY <1>3, FS_CardinalityType
<1> QED
  BY <1>2, <1>3, <1>4

LEMMA CountMonotonic ==
    ASSUME NEW k \in Nat, NEW S \in SUBSET (1..k), NEW T \in SUBSET S
    PROVE  Cardinality(T) <= Cardinality(S)
  BY CountType, FS_Subset

LEMMA CountOneMore ==
    ASSUME NEW k \in Nat, NEW S \in SUBSET (1..k)
    PROVE  Cardinality(S \cup {k + 1}) = Cardinality(S) + 1
<1>1. k + 1 \notin S
  OBVIOUS
<1> QED
  BY <1>1, CountType, FS_AddElement

LEMMA RotationsStep ==
    ASSUME NEW l, NEW k \in Nat
    PROVE  /\ l[k + 1].kind = "rotate" => Rotations(l, k + 1) = Rotations(l, k) \cup {k + 1}
           /\ l[k + 1].kind # "rotate" => Rotations(l, k + 1) = Rotations(l, k)
<1>1. \A i : i \in 1..(k + 1) <=> i \in 1..k \/ i = k + 1
  OBVIOUS
<1> QED
  BY <1>1 DEF Rotations

LEMMA DdlsStep ==
    ASSUME NEW l, NEW k \in Nat
    PROVE  l[k + 1].kind # "ddl" => Ddls(l, k + 1) = Ddls(l, k)
<1>1. \A i : i \in 1..(k + 1) <=> i \in 1..k \/ i = k + 1
  OBVIOUS
<1> QED
  BY <1>1 DEF Ddls

LEMMA SamePrefix ==
    ASSUME NEW l, NEW m, Extends(l, m), NEW k \in 0..Len(l)
    PROVE  Rotations(m, k) = Rotations(l, k) /\ Ddls(m, k) = Ddls(l, k) /\ Done(m, k) = Done(l, k)
<1>1. \A i \in 1..k : m[i] = l[i]
  BY DEF Extends
<1> QED
  BY <1>1 DEF Rotations, Ddls, Done

\* What FileAt and SchemaAt count.
LEMMA FileAtIs == \A k : FileAt(k) = 1 + Cardinality(Rotations(log, k))
  BY DEF FileAt, Rotations

LEMMA FileAtIsPrime == \A k : FileAt(k)' = 1 + Cardinality(Rotations(log', k))
  BY DEF FileAt, Rotations

LEMMA SchemaAtIs == \A k : SchemaAt(k) = 1 + Cardinality(Ddls(log, k - 1))
  BY DEF SchemaAt, Ddls

LEMMA SchemaAtIsPrime == \A k : SchemaAt(k)' = 1 + Cardinality(Ddls(log', k - 1))
  BY DEF SchemaAt, Ddls

LEMMA FileAtType == ASSUME NEW k \in Nat PROVE FileAt(k) \in Nat /\ FileAt(k) >= 1 /\ FileAt(k) <= k + 1
<1>1. Rotations(log, k) \in SUBSET (1..k)
  BY DEF Rotations
<1> QED
  BY <1>1, CountType, FileAtIs

LEMMA SchemaAtType ==
    ASSUME NEW k \in Nat PROVE SchemaAt(k + 1) \in Nat /\ SchemaAt(k + 1) >= 1 /\ SchemaAt(k + 1) <= k + 1
<1>1. Ddls(log, k) \in SUBSET (1..k) /\ (k + 1) - 1 = k
  BY DEF Ddls
<1> QED
  BY <1>1, CountType, SchemaAtIs

LEMMA SchemaAtMonotonic ==
    ASSUME NEW j \in Nat, NEW k \in Nat, j <= k PROVE SchemaAt(j + 1) <= SchemaAt(k + 1)
<1>1. Ddls(log, k) \in SUBSET (1..k) /\ Ddls(log, j) \in SUBSET (Ddls(log, k))
  BY DEF Ddls
<1>2. (j + 1) - 1 = j /\ (k + 1) - 1 = k
  OBVIOUS
<1>3. Cardinality(Ddls(log, j)) <= Cardinality(Ddls(log, k))
  BY <1>1, CountMonotonic
<1>4. Cardinality(Ddls(log, k)) \in Nat /\ Cardinality(Ddls(log, j)) \in Nat
  <2>1. Ddls(log, j) \in SUBSET (1..j)
    BY DEF Ddls
  <2> QED
    BY <1>1, <2>1, CountType
<1> QED
  BY <1>2, <1>3, <1>4, SchemaAtIs

\* Where a stream that leaves out X begins; the first entry of a transaction.
Skips(l, X, k) ==
    /\ k \in 0..Len(l)
    /\ \A i \in 1..k : l[i].tx \in X \cup {NoGTID}
    /\ k = Len(l) \/ l[k + 1].tx \notin X \cup {NoGTID}

First(l, k, f) ==
    f \in 1..k /\ l[f].tx = l[k].tx /\ \A j \in 1..(f - 1) : l[j].tx # l[k].tx

LEMMA SkipIs == ASSUME log \in Seq(Item), NEW X PROVE Skips(log, X, SkipExecuted(X))
<1> DEFINE T == {i \in 1..Len(log) : log[i].tx \notin X \cup {NoGTID}}
           P(k) == /\ \A i \in 1..k : log[i].tx \in X \cup {NoGTID}
                   /\ k = Len(log) \/ log[k + 1].tx \notin X \cup {NoGTID}
<1>0. Len(log) \in Nat
  OBVIOUS
<1>1. \E k \in 0..Len(log) : P(k)
  <2>1. CASE T = {}
    <3>1. Len(log) \in 0..Len(log) /\ P(Len(log))
      BY <1>0, <2>1
    <3> QED
      BY <3>1
  <2>2. CASE T # {}
    <3>1. T \in SUBSET Nat
      BY <1>0
    <3>2. PICK i \in T : \A j \in T : i <= j
      BY <2>2, <3>1, LeastElement
    <3>3. /\ i \in 1..Len(log) /\ i - 1 \in 0..Len(log) /\ (i - 1) + 1 = i
          /\ \A j \in 1..(i - 1) : j \in 1..Len(log) /\ ~(i <= j)
      BY <1>0, <3>2
    <3>4. P(i - 1)
      BY <3>2, <3>3
    <3> QED
      BY <3>3, <3>4
  <2> QED
    BY <2>1, <2>2
<1>2. SkipExecuted(X) = CHOOSE k \in 0..Len(log) : P(k)
  BY DEF SkipExecuted
<1> HIDE DEF P
<1>3. SkipExecuted(X) \in 0..Len(log) /\ P(SkipExecuted(X))
  BY <1>1, <1>2
<1> QED
  BY <1>3 DEF Skips, P

LEMMA TxnStartIs ==
    ASSUME log \in Seq(Item), NEW k \in 1..Len(log) PROVE First(log, k, TxnStart(k))
<1> DEFINE T == {i \in 1..k : log[i].tx = log[k].tx}
           P(i) == log[i].tx = log[k].tx /\ \A j \in 1..(i - 1) : log[j].tx # log[k].tx
<1>0. Len(log) \in Nat /\ k \in Nat /\ k \in 1..k
  OBVIOUS
<1>1. \E i \in 1..k : P(i)
  <2>1. T # {} /\ T \in SUBSET Nat
    BY <1>0
  <2>2. PICK i \in T : \A j \in T : i <= j
    BY <2>1, LeastElement
  <2>3. i \in 1..k /\ \A j \in 1..(i - 1) : j \in 1..k /\ ~(i <= j)
    BY <1>0, <2>2
  <2>4. P(i)
    BY <2>2, <2>3
  <2> QED
    BY <2>3, <2>4
<1>2. TxnStart(k) = CHOOSE i \in 1..k : P(i)
  BY DEF TxnStart
<1> HIDE DEF P
<1>3. TxnStart(k) \in 1..k /\ P(TxnStart(k))
  BY <1>1, <1>2
<1> QED
  BY <1>3 DEF First, P

LEMMA FirstUnique ==
    ASSUME NEW l, NEW k \in Nat, NEW f, NEW g, First(l, k, f), First(l, k, g)
    PROVE  f = g
<1>1. f \in Nat /\ g \in Nat /\ f >= 1 /\ g >= 1
  BY DEF First
<1>2. ~(f < g)
  <2>1. f < g => f \in 1..(g - 1)
    BY <1>1
  <2> QED
    BY <2>1 DEF First
<1>3. ~(g < f)
  <2>1. g < f => g \in 1..(f - 1)
    BY <1>1
  <2> QED
    BY <2>1 DEF First
<1> QED
  BY <1>1, <1>2, <1>3

----------------------------------------------------------------------------
(* The server appends. *)

\* m is l and a block of entries of transaction g.
Appends(l, m, g) ==
    /\ Extends(l, m)
    /\ \A i \in (Len(l) + 1)..Len(m) : m[i].tx = g /\ m[i].kind # "rotate"

\* e holds what body writes, behind a GTID event if the server writes any.
Offset == IF HasGTIDs THEN 1 ELSE 0
Writes(e, body, g) ==
    /\ e \in Seq(ItemOf({g})) /\ Len(e) = Offset + Len(body) /\ Len(body) \in Nat
    /\ \A i \in 1..Len(e) :
         /\ e[i].tx = g /\ e[i].kind # "rotate"
         /\ e[i].kind = "gtid" <=> HasGTIDs /\ i = 1
         /\ e[i].kind # "gtid" =>
              i - Offset \in 1..Len(body) /\ e[i].kind = body[i - Offset].kind

LEMMA EntriesIs ==
    ASSUME NEW body \in Bodies \cup {PreBody}, NEW g, HasGTIDs \in BOOLEAN
    PROVE  Writes(Entries(body, g), body, g)
<1> DEFINE h == IF HasGTIDs THEN 1 ELSE 0
           BodyItem == [kind : {"begin", "rows", "xid", "query", "ddl"}, n : Nat, match : BOOLEAN]
           AnyItem == [kind : Kinds, n : Nat, match : BOOLEAN]
           head == IF HasGTIDs THEN <<[kind |-> "gtid", n |-> 0, match |-> FALSE]>> ELSE <<>>
           all == head \o body
           e == Entries(body, g)
<1>1. body \in Seq(BodyItem) /\ Len(body) \in Nat
  BY BodiesAssumption
<1>2. \A i \in 1..Len(body) : body[i] \in AnyItem /\ body[i].kind \notin {"rotate", "gtid"}
  <2>1. \A x \in BodyItem : x \in AnyItem /\ x.kind \notin {"rotate", "gtid"}
    BY DEF Kinds
  <2> HIDE DEF BodyItem, AnyItem
  <2>2. \A i \in 1..Len(body) : body[i] \in BodyItem
    BY <1>1
  <2> QED
    BY <2>1, <2>2
<1>3. /\ head \in Seq(AnyItem) /\ Len(head) = h /\ h \in Nat
      /\ HasGTIDs => head[1].kind = "gtid"
      /\ \A i \in 1..h : HasGTIDs /\ i = 1
  <2> DEFINE r == [kind |-> "gtid", n |-> 0, match |-> FALSE]
  <2>1. r \in AnyItem /\ r.kind = "gtid"
    BY DEF Kinds
  <2> HIDE DEF r, AnyItem
  <2>2. CASE HasGTIDs
    <3>1. head = <<r>> /\ h = 1
      BY <2>2 DEF r
    <3> HIDE DEF head, h
    <3> QED
      BY <2>1, <2>2, <3>1
  <2>3. CASE ~HasGTIDs
    <3>1. head = <<>> /\ h = 0
      BY <2>3
    <3> HIDE DEF head, h
    <3> QED
      BY <2>3, <3>1
  <2> QED
    BY <2>2, <2>3
<1> HIDE DEF AnyItem, BodyItem, head
<1>4. body \in Seq(AnyItem)
  BY <1>1, <1>2
<1>5. /\ all \in Seq(AnyItem) /\ Len(all) = h + Len(body)
      /\ \A i \in 1..(h + Len(body)) : all[i] = IF i <= h THEN head[i] ELSE body[i - h]
  <2> HIDE DEF h
  <2>1. /\ all \in Seq(AnyItem) /\ Len(all) = Len(head) + Len(body)
        /\ \A i \in 1..(Len(head) + Len(body)) :
             all[i] = IF i <= Len(head) THEN head[i] ELSE body[i - Len(head)]
    <3>1. head \in Seq(AnyItem)
      BY <1>3
    <3> QED
      BY <3>1, <1>4, ConcatProperties
  <2> HIDE DEF all
  <2> QED
    BY <1>3, <2>1
<1>6. \A i \in 1..Len(all) : all[i] \in AnyItem
  BY <1>5
<1>7. e = [i \in 1..Len(all) |-> [kind |-> all[i].kind, n |-> all[i].n,
                                  match |-> all[i].match, tx |-> g]]
  BY DEF Entries, head
<1>8. \A i \in 1..Len(all) : (i <= h <=> HasGTIDs /\ i = 1) /\ (~(i <= h) => i - h \in 1..Len(body))
  BY <1>1, <1>3, <1>5
<1> HIDE DEF all, e
<1>9. e \in Seq(ItemOf({g})) /\ Len(e) = Len(all)
  <2> DEFINE U == ItemOf({g})
  <2>1. \A i \in 1..Len(all) : e[i] \in U
    BY <1>6, <1>7 DEF ItemOf, AnyItem
  <2>2. Len(all) \in Nat
    BY <1>5
  <2> HIDE DEF U
  <2>3. e \in Seq(U) /\ Len(e) = Len(all)
    BY <1>7, <2>1, <2>2
  <2> QED
    BY <2>3 DEF U
<1>10. \A i \in 1..Len(e) : e[i].tx = g /\ e[i].kind = all[i].kind
  BY <1>7, <1>9
<1>11. \A i \in 1..Len(e) : all[i].kind = IF i <= h THEN "gtid" ELSE body[i - h].kind
  <2> TAKE i \in 1..Len(e)
  <2>1. i \in 1..(h + Len(body)) /\ i \in 1..Len(all)
    BY <1>5, <1>9
  <2>2. CASE i <= h
    BY <1>3, <1>5, <1>8, <2>1, <2>2
  <2>3. CASE ~(i <= h)
    BY <1>5, <2>1, <2>3
  <2> QED
    BY <2>2, <2>3
<1>12. ASSUME NEW i \in 1..Len(e)
       PROVE  /\ e[i].tx = g /\ e[i].kind # "rotate"
              /\ e[i].kind = "gtid" <=> HasGTIDs /\ i = 1
              /\ e[i].kind # "gtid" => i - h \in 1..Len(body) /\ e[i].kind = body[i - h].kind
  <2>1. i \in 1..Len(all)
    BY <1>9
  <2>2. CASE i <= h
    BY <1>8, <1>10, <1>11, <2>1, <2>2
  <2>3. CASE ~(i <= h)
    BY <1>2, <1>8, <1>10, <1>11, <2>1, <2>3
  <2> QED
    BY <2>2, <2>3
<1>13. Writes(e, body, g)
  BY <1>1, <1>5, <1>9, <1>12 DEF Writes, Offset
<1> QED
  BY <1>13 DEF e

LEMMA AppendsNumbered ==
    ASSUME NEW l, NEW m, NEW n \in Nat, n <= Len(l), Appends(l, m, n + 1), Consecutive(l),
           {l[i].tx : i \in 1..Len(l)} \ {NoGTID} = 1..n
    PROVE  Numbered(m) /\ Consecutive(m)
<1>1. /\ Len(l) \in Nat /\ Len(m) \in Nat /\ Len(l) <= Len(m)
      /\ \A i \in 1..Len(l) : i \in 1..Len(m) /\ m[i] = l[i]
      /\ \A i \in (Len(l) + 1)..Len(m) : m[i].tx = n + 1 /\ m[i].kind # "rotate"
  BY DEF Appends, Extends
<1>2. \A i \in 1..Len(m) : i \in 1..Len(l) \/ i \in (Len(l) + 1)..Len(m)
  BY <1>1
<1>3. \A i \in 1..Len(l) : l[i].tx # NoGTID => l[i].tx \in 1..n
  OBVIOUS
<1>4. n + 1 # NoGTID /\ n + 1 \notin 1..n
  BY DEF NoGTID
<1>5. Consecutive(m)
  <2>1. \A i \in 1..Len(m) : m[i].tx = NoGTID <=> m[i].kind = "rotate"
    BY <1>1, <1>2, <1>4 DEF Consecutive
  <2>2. ASSUME NEW i \in 1..Len(m), NEW j \in 1..Len(m), NEW k \in 1..Len(m),
               i <= j, j <= k, m[i].tx = m[k].tx, m[i].tx # NoGTID
        PROVE  m[j].tx = m[i].tx
    <3>1. CASE k \in 1..Len(l)
      <4>1. i \in 1..Len(l) /\ j \in 1..Len(l)
        BY <1>1, <2>2, <3>1
      <4> QED
        BY <1>1, <2>2, <3>1, <4>1 DEF Consecutive
    <3>2. CASE k \in (Len(l) + 1)..Len(m)
      <4>1. m[i].tx = n + 1
        BY <1>1, <2>2, <3>2
      <4>2. i \notin 1..Len(l)
        BY <1>1, <1>3, <1>4, <4>1
      <4>3. j \in (Len(l) + 1)..Len(m)
        BY <1>1, <1>2, <2>2, <4>2
      <4> QED
        BY <1>1, <4>1, <4>3
    <3> QED
      BY <1>2, <3>1, <3>2
  <2> QED
    BY <2>1, <2>2 DEF Consecutive
<1>6. CASE Len(m) = Len(l)
  <2>1. \A x : x \in {m[i].tx : i \in 1..Len(m)} <=> x \in {l[i].tx : i \in 1..Len(l)}
    BY <1>1, <1>6
  <2>2. {m[i].tx : i \in 1..Len(m)} = {l[i].tx : i \in 1..Len(l)}
    BY <2>1
  <2> HIDE DEF Appends
  <2> QED
    BY <1>5, <1>6, <2>2 DEF Numbered
<1>7. CASE Len(m) # Len(l)
  <2>1. Len(l) + 1 \in (Len(l) + 1)..Len(m) /\ Len(l) + 1 \in 1..Len(m) /\ n + 1 <= Len(m)
        /\ n + 1 \in Nat
    BY <1>1, <1>7
  <2>2. m[Len(l) + 1].tx = n + 1
    BY <1>1, <2>1
  <2> DEFINE Xm == {m[i].tx : i \in 1..Len(m)} \ {NoGTID}
             Xl == {l[i].tx : i \in 1..Len(l)} \ {NoGTID}
  <2>3. \A x : x \in Xm <=> x \in Xl \/ x = n + 1
    <3> TAKE x
    <3>1. ASSUME x \in Xm PROVE x \in Xl \/ x = n + 1
      <4>1. PICK i \in 1..Len(m) : x = m[i].tx /\ x # NoGTID
        BY <3>1
      <4> QED
        BY <1>1, <1>2, <4>1
    <3>2. ASSUME x \in Xl PROVE x \in Xm
      <4>1. PICK i \in 1..Len(l) : x = l[i].tx /\ x # NoGTID
        BY <3>2
      <4> QED
        BY <1>1, <4>1
    <3>3. ASSUME x = n + 1 PROVE x \in Xm
      BY <1>4, <2>1, <2>2, <3>3
    <3> QED
      BY <3>1, <3>2, <3>3
  <2>4. \A x : x \in 1..(n + 1) <=> x \in 1..n \/ x = n + 1
    OBVIOUS
  <2>5. Xm = 1..(n + 1)
    <3>1. Xl = 1..n
      OBVIOUS
    <3> HIDE DEF Xm, Xl
    <3> QED
      BY <2>3, <2>4, <3>1
  <2> QED
    BY <1>5, <2>1, <2>5 DEF Numbered
<1> QED
  BY <1>6, <1>7

LEMMA RotateNumbered ==
    ASSUME NEW l, NEW m, Extends(l, m), Len(m) = Len(l) + 1, Numbered(l), Consecutive(l),
           m[Len(m)].tx = NoGTID, m[Len(m)].kind = "rotate"
    PROVE  Numbered(m) /\ Consecutive(m)
<1>1. /\ Len(l) \in Nat /\ Len(m) \in Nat /\ \A i \in 1..Len(l) : i \in 1..Len(m) /\ m[i] = l[i]
  BY DEF Extends
<1>2. \A i \in 1..Len(m) : i \in 1..Len(l) \/ i = Len(m)
  BY <1>1
<1>3. PICK n \in Nat : n <= Len(l) /\ {l[i].tx : i \in 1..Len(l)} \ {NoGTID} = 1..n
  BY DEF Numbered
<1>4. {m[i].tx : i \in 1..Len(m)} \ {NoGTID} = {l[i].tx : i \in 1..Len(l)} \ {NoGTID}
  BY <1>1, <1>2
<1>5. Numbered(m)
  <2>1. n <= Len(m)
    BY <1>1, <1>3
  <2> QED
    BY <1>3, <1>4, <2>1 DEF Numbered
<1>6. \A i \in 1..Len(m) : m[i].tx = NoGTID <=> m[i].kind = "rotate"
  BY <1>1, <1>2 DEF Consecutive
<1>7. ASSUME NEW i \in 1..Len(m), NEW j \in 1..Len(m), NEW k \in 1..Len(m),
             i <= j, j <= k, m[i].tx = m[k].tx, m[i].tx # NoGTID
      PROVE  m[j].tx = m[i].tx
  <2>1. k # Len(m)
    BY <1>7
  <2>2. i \in 1..Len(l) /\ j \in 1..Len(l) /\ k \in 1..Len(l)
    BY <1>1, <1>2, <1>7, <2>1
  <2> QED
    BY <1>1, <1>7, <2>2 DEF Consecutive
<1> QED
  BY <1>5, <1>6, <1>7 DEF Consecutive

----------------------------------------------------------------------------
(* What holds of any binlog *)

TypeMode == GTID \in BOOLEAN /\ HasGTIDs \in BOOLEAN /\ (GTID => HasGTIDs)
TypeLog == log \in Seq(Item) /\ Len(log) <= MaxLog
TypeRun == /\ starts \in 0..MaxStarts /\ drops \in 0..MaxDrops /\ up \in BOOLEAN
           /\ cursor \in 0..Len(log) /\ heard \in 0..Len(log) /\ read \in 0..Len(log)
TypeTxn == /\ set \subseteq GNO /\ pendingGTID \in GNO /\ committed \in Positions
           /\ currentFile \in 0..(MaxLog + 1) /\ txOrder \in Nat /\ seq \in Nat
TypeSaved == saved \in Positions
TypeSchema == schema \in 0..(MaxLog + 1)

\* A batch that was sent is of a rows entry of the log.
TypeLast ==
    last # Nothing => /\ last.entry \in 1..Len(log) /\ log[last.entry].kind = "rows"
                      /\ last.pos \in Positions /\ last.read \in 0..Len(log)

\* The syncer resumes at a GTID event, and never ahead of what it has read.
Heard == heard <= cursor + 1 /\ (heard > 0 => log[heard].kind = "gtid")

\* The source knows the file it reads, and runs only after a start.
Filed == /\ up => starts > 0
         /\ starts > 0 => currentFile = FileAt(cursor)

\* Offsets the source has seen lie in the log.
Behind == /\ saved.off <= Len(log) /\ committed.off <= Len(log)
          /\ last # Nothing => last.pos.off <= Len(log)

\* The cached schema has all the DDL the stream has passed.
Cached == /\ schema # NoSchema => schema >= SchemaAt(cursor + 1)
          /\ last # Nothing => last.schema >= SchemaAt(last.entry)

Inv == /\ TypeMode /\ TypeLog /\ TypeRun /\ TypeTxn /\ TypeSaved /\ TypeSchema /\ TypeLast
       /\ Heard /\ Filed /\ Behind /\ Cached /\ Numbered(log) /\ Consecutive(log)

USE DEF mode, stream, txn

LEMMA Bounds == MaxLog \in Nat /\ MaxStarts \in Nat /\ MaxDrops \in Nat
  BY ModeAssumption

LEMMA ZeroType == ZeroPosition \in Positions
  BY Bounds DEF ZeroPosition, Positions

\* The log grows; the source does not notice.
LEMMA GrowInv ==
    ASSUME Inv, TypeLog', Extends(log, log'), Numbered(log'), Consecutive(log'),
           UNCHANGED <<mode, saved, starts, drops, up, stream, txn, schema, last>>
    PROVE  Inv'
<1>1. Len(log) \in Nat /\ Len(log') \in Nat /\ Len(log) <= Len(log') /\ cursor \in 0..Len(log)
  BY DEF Inv, TypeLog, TypeRun, Extends
<1>2. TypeMode' /\ TypeRun' /\ TypeTxn' /\ TypeSaved' /\ TypeSchema'
  BY <1>1 DEF Inv, TypeMode, TypeRun, TypeTxn, TypeSaved, TypeSchema
<1>3. TypeLast' /\ Heard'
  <2>1. \A i \in 1..Len(log) : i \in 1..Len(log') /\ log'[i] = log[i]
    BY <1>1 DEF Extends
  <2>2. \A i \in 0..Len(log) : i \in 0..Len(log')
    BY <1>1
  <2>3. heard > 0 => heard \in 1..Len(log)
    BY <1>1 DEF Inv, TypeRun
  <2> QED
    BY <2>1, <2>2, <2>3 DEF Inv, TypeLast, Heard
<1>4. FileAt(cursor)' = FileAt(cursor)
  <2>1. Rotations(log', cursor) = Rotations(log, cursor)
    BY <1>1, SamePrefix
  <2>2. FileAt(cursor)' = 1 + Cardinality(Rotations(log', cursor))
    BY DEF FileAt, Rotations
  <2> QED
    BY <2>1, <2>2, FileAtIs
<1>5. Filed'
  BY <1>4 DEF Inv, Filed
<1>6. SchemaAt(cursor + 1)' = SchemaAt(cursor + 1)
  <2>1. (cursor + 1) - 1 = cursor /\ Ddls(log', cursor) = Ddls(log, cursor)
    BY <1>1, SamePrefix
  <2>2. SchemaAt(cursor + 1)' = 1 + Cardinality(Ddls(log', (cursor + 1) - 1))
    BY DEF SchemaAt, Ddls
  <2> QED
    BY <2>1, <2>2, SchemaAtIs
<1>7. last # Nothing => SchemaAt(last.entry)' = SchemaAt(last.entry)
  <2> SUFFICES ASSUME last # Nothing PROVE SchemaAt(last.entry)' = SchemaAt(last.entry)
    OBVIOUS
  <2> DEFINE k == last.entry
  <2>1. k - 1 \in 0..Len(log)
    BY <1>1 DEF Inv, TypeLast
  <2>2. Ddls(log', k - 1) = Ddls(log, k - 1)
    BY <2>1, SamePrefix
  <2>3. SchemaAt(last.entry)' = 1 + Cardinality(Ddls(log', k - 1))
    BY DEF SchemaAt, Ddls
  <2> QED
    BY <2>2, <2>3, SchemaAtIs
<1>8. Cached'
  BY <1>6, <1>7 DEF Inv, Cached
<1>9. Behind'
  <2>1. saved.off \in Nat /\ committed.off \in Nat /\ (last # Nothing => last.pos.off \in Nat)
    BY DEF Inv, TypeSaved, TypeTxn, TypeLast, Positions
  <2> QED
    BY <1>1, <2>1 DEF Inv, Behind
<1> QED
  BY <1>2, <1>3, <1>5, <1>8, <1>9 DEF Inv

LEMMA EntriesAppends ==
    ASSUME NEW l \in Seq(Item), NEW body \in Bodies \cup {PreBody}, body # <<>>, HasGTIDs \in BOOLEAN,
           NEW n \in Nat, n <= Len(l), Len(l) + Len(Entries(body, n + 1)) <= MaxLog
    PROVE  LET e == Entries(body, n + 1) IN
           /\ Appends(l, l \o e, n + 1)
           /\ Len(e) \in Nat /\ Len(e) >= 1 /\ Len(l \o e) = Len(l) + Len(e)
           /\ \A i \in 1..Len(e) : (l \o e)[i + Len(l)] = e[i]
<1> DEFINE g == n + 1
           e == Entries(body, g)
           m == l \o e
<1>1. /\ e \in Seq(ItemOf({g})) /\ Len(body) \in Nat
      /\ Len(e) = (IF HasGTIDs THEN 1 ELSE 0) + Len(body)
      /\ \A i \in 1..Len(e) : e[i].tx = g /\ e[i].kind # "rotate"
  <2>1. Writes(e, body, g)
    BY EntriesIs
  <2> HIDE DEF e, g
  <2> QED
    BY <2>1 DEF Writes, Offset
<1>2. Len(body) >= 1
  <2>1. body \in Seq([kind : {"begin", "rows", "xid", "query", "ddl"}, n : Nat, match : BOOLEAN])
    BY BodiesAssumption
  <2> QED
    BY <1>1, <2>1, EmptySeq
<1>3. Len(e) \in Nat /\ Len(e) >= 1
  BY <1>1, <1>2
<1>4. g \in GNO
  BY <1>3, Bounds DEF GNO
<1> HIDE DEF e, g
<1>5. e \in Seq(Item)
  <2>1. \A i \in 1..Len(e) : e[i] \in ItemOf({g})
    BY <1>1
  <2>2. \A x \in ItemOf({g}) : x \in Item
    BY <1>4 DEF Item, ItemOf
  <2> HIDE DEF Item, ItemOf
  <2>3. \A i \in 1..Len(e) : e[i] \in Item
    BY <2>1, <2>2
  <2> QED
    BY <1>1, <2>3
<1>6. /\ m \in Seq(Item) /\ Len(m) = Len(l) + Len(e)
      /\ \A i \in 1..(Len(l) + Len(e)) : m[i] = IF i <= Len(l) THEN l[i] ELSE e[i - Len(l)]
  BY <1>5, ConcatProperties
<1> HIDE DEF m
<1>7. Len(l) \in Nat
  OBVIOUS
<1>8. \A i \in 1..Len(l) : m[i] = l[i]
  BY <1>3, <1>6, <1>7
<1>9. \A i \in (Len(l) + 1)..Len(m) : i - Len(l) \in 1..Len(e) /\ m[i] = e[i - Len(l)]
  <2> TAKE i \in (Len(l) + 1)..Len(m)
  <2>1. i - Len(l) \in 1..Len(e) /\ i \in 1..(Len(l) + Len(e)) /\ ~(i <= Len(l))
    BY <1>3, <1>6, <1>7
  <2> QED
    BY <1>6, <2>1
<1>10. \A i \in 1..Len(e) : m[i + Len(l)] = e[i]
  <2> TAKE i \in 1..Len(e)
  <2>1. i + Len(l) \in (Len(l) + 1)..Len(m) /\ (i + Len(l)) - Len(l) = i
    BY <1>3, <1>6, <1>7
  <2> QED
    BY <1>9, <2>1
<1>11. Extends(l, m)
  BY <1>3, <1>6, <1>7, <1>8 DEF Extends
<1>12. Appends(l, m, g)
  BY <1>1, <1>9, <1>11 DEF Appends
<1> QED
  BY <1>3, <1>6, <1>10, <1>12 DEF m, e, g

\* The next transaction gets the next number.
LEMMA NextNumber ==
    ASSUME Numbered(log), log \in Seq(Item)
    PROVE  \E n \in Nat : /\ n <= Len(log) /\ Executed = 1..n /\ Cardinality(Executed) + 1 = n + 1
<1>1. PICK n \in Nat : n <= Len(log) /\ {log[i].tx : i \in 1..Len(log)} \ {NoGTID} = 1..n
  BY DEF Numbered
<1>2. Executed = 1..n
  BY <1>1 DEF Executed
<1>3. n \in Int /\ 1 \in Int
  OBVIOUS
<1>4. Cardinality(1..n) = (IF 1 > n THEN 0 ELSE n - 1 + 1)
  BY <1>3, FS_Interval
<1> QED
  BY <1>1, <1>2, <1>4

LEMMA ServerCommitsLog ==
    ASSUME Inv, NEW body \in Bodies, ServerCommits(body)
    PROVE  \E n \in Nat : /\ n <= Len(log) /\ Executed = 1..n /\ Appends(log, log', n + 1)
                          /\ log' = log \o Entries(body, n + 1) /\ TypeLog'
<1>1. PICK n \in Nat : n <= Len(log) /\ Executed = 1..n /\ Cardinality(Executed) + 1 = n + 1
  BY NextNumber DEF Inv, TypeLog
<1> DEFINE e == Entries(body, n + 1)
<1>2. Len(log) + Len(e) <= MaxLog /\ log' = log \o e
  BY <1>1 DEF ServerCommits
<1>3. Appends(log, log', n + 1) /\ Len(log') = Len(log) + Len(e)
  <2>1. body # <<>> /\ log \in Seq(Item) /\ HasGTIDs \in BOOLEAN
    BY BodiesAssumption DEF Inv, TypeLog, TypeMode
  <2> QED
    BY <1>1, <1>2, <2>1, EntriesAppends
<1>4. TypeLog'
  BY <1>2, <1>3 DEF TypeLog, Appends, Extends
<1> QED
  BY <1>1, <1>2, <1>3, <1>4

LEMMA ServerCommitsInv == ASSUME Inv, NEW body \in Bodies, ServerCommits(body) PROVE Inv'
<1>1. PICK n \in Nat : /\ n <= Len(log) /\ Executed = 1..n /\ Appends(log, log', n + 1)
                       /\ TypeLog'
  BY ServerCommitsLog
<1>2. {log[i].tx : i \in 1..Len(log)} \ {NoGTID} = 1..n
  BY <1>1 DEF Executed
<1>3. Numbered(log') /\ Consecutive(log')
  BY <1>1, <1>2, AppendsNumbered DEF Inv
<1>4. Extends(log, log')
  BY <1>1 DEF Appends
<1>5. UNCHANGED <<mode, saved, starts, drops, up, stream, txn, schema, last>>
  BY DEF ServerCommits
<1> QED
  BY <1>1, <1>3, <1>4, <1>5, GrowInv

LEMMA ServerRotatesLog ==
    ASSUME Inv, ServerRotates
    PROVE  /\ Extends(log, log') /\ Len(log') = Len(log) + 1 /\ TypeLog'
           /\ log'[Len(log')].tx = NoGTID /\ log'[Len(log')].kind = "rotate"
<1> DEFINE r == [kind |-> "rotate", tx |-> NoGTID, n |-> 0, match |-> FALSE]
<1>1. Len(log) < MaxLog /\ log' = Append(log, r)
  BY DEF ServerRotates
<1>2. r \in Item /\ r.tx = NoGTID /\ r.kind = "rotate"
  BY Bounds DEF Item, ItemOf, Kinds, GNO, NoGTID
<1>3. log \in Seq(Item) /\ Len(log) \in Nat
  BY DEF Inv, TypeLog
<1> HIDE DEF r
<1>4. /\ Append(log, r) \in Seq(Item) /\ Len(Append(log, r)) = Len(log) + 1
      /\ Append(log, r)[Len(log) + 1] = r
      /\ \A i \in 1..Len(log) : Append(log, r)[i] = log[i]
  <2> HIDE DEF Item
  <2> QED
    BY <1>2, <1>3
<1> QED
  BY <1>1, <1>2, <1>3, <1>4, Bounds DEF TypeLog, Extends

LEMMA ServerRotatesInv == ASSUME Inv, ServerRotates PROVE Inv'
<1>1. Numbered(log') /\ Consecutive(log')
  BY ServerRotatesLog, RotateNumbered DEF Inv
<1>2. UNCHANGED <<mode, saved, starts, drops, up, stream, txn, schema, last>>
  BY DEF ServerRotates
<1> QED
  BY <1>1, <1>2, ServerRotatesLog, GrowInv

----------------------------------------------------------------------------
(* The source's steps, of any binlog *)

LEMMA InitLog ==
    ASSUME Init
    PROVE  /\ TypeMode /\ TypeLog /\ Numbered(log) /\ Consecutive(log)
           /\ PreBody # <<>> => /\ Appends(<<>>, log, 1) /\ log = Entries(PreBody, 1)
                                /\ Len(log) >= 1
<1>1. PICK m \in Modes : GTID = m[1] /\ HasGTIDs = m[2]
  BY DEF Init
<1>2. TypeMode
  BY <1>1, ModeAssumption DEF TypeMode
<1>3. /\ <<>> \in Seq(Item) /\ Len(<<>>) = 0 /\ 1..0 = {}
  OBVIOUS
<1>4. /\ {<<>>[i].tx : i \in 1..Len(<<>>)} \ {NoGTID} = 1..0 /\ Consecutive(<<>>) /\ Numbered(<<>>)
  BY <1>3 DEF Consecutive, Numbered
<1>5. CASE PreBody = <<>>
  <2>1. log = <<>>
    BY <1>5 DEF Init
  <2> QED
    BY <1>2, <1>3, <1>4, <1>5, <2>1, Bounds DEF TypeLog
<1>6. CASE PreBody # <<>>
  <2> DEFINE e == Entries(PreBody, 1)
  <2>1. log = e /\ HasGTIDs \in BOOLEAN
    BY <1>2, <1>6 DEF Init, TypeMode
  <2>2. Writes(e, PreBody, 1)
    BY <2>1, EntriesIs
  <2>3. Len(e) <= MaxLog /\ Len(e) \in Nat
    <3> HIDE DEF e
    <3>1. Len(PreBody) \in Nat /\ Len(e) = (IF HasGTIDs THEN 1 ELSE 0) + Len(PreBody)
      BY <2>2 DEF Writes, Offset
    <3> QED
      BY <3>1, BodiesAssumption, Bounds
  <2>4. 0 + 1 = 1 /\ 0 \in Nat /\ 0 <= Len(<<>>) /\ Len(<<>>) + Len(e) <= MaxLog
    BY <1>3, <2>3
  <2>5. Appends(<<>>, <<>> \o e, 1) /\ Len(e) >= 1
    <3> DEFINE l == <<>>
    <3>1. /\ l \in Seq(Item) /\ PreBody \in Bodies \cup {PreBody} /\ PreBody # <<>>
          /\ HasGTIDs \in BOOLEAN /\ 0 \in Nat /\ 0 <= Len(l)
          /\ Len(l) + Len(Entries(PreBody, 0 + 1)) <= MaxLog
      BY <1>3, <1>6, <2>1, <2>4
    <3> HIDE DEF l
    <3>2. /\ Appends(l, l \o Entries(PreBody, 0 + 1), 0 + 1)
          /\ Len(Entries(PreBody, 0 + 1)) >= 1
      BY ONLY <3>1, EntriesAppends
    <3> QED
      BY <2>4, <3>2 DEF l
  <2>6. e \in Seq(ItemOf({1}))
    <3> HIDE DEF e
    <3> QED
      BY <2>2 DEF Writes
  <2>7. <<>> \o e = e
    BY <2>6, ConcatEmptySeq
  <2>8. Appends(<<>>, log, 1)
    BY <2>1, <2>5, <2>7
  <2>9. Numbered(log) /\ Consecutive(log)
    BY <1>4, <2>4, <2>8, AppendsNumbered
  <2>10. TypeLog
    <3>1. Extends(<<>>, log)
      BY <2>8 DEF Appends
    <3> QED
      BY <2>1, <2>3, <3>1 DEF TypeLog, Extends
  <2> QED
    BY <1>2, <2>1, <2>5, <2>8, <2>9, <2>10
<1> QED
  BY <1>5, <1>6

LEMMA InitInv == Init => Inv
<1> SUFFICES ASSUME Init PROVE Inv
  OBVIOUS
<1>1. TypeMode /\ TypeLog /\ Numbered(log) /\ Consecutive(log)
  BY InitLog
<1>2. Len(log) \in Nat
  BY <1>1 DEF TypeLog
<1>3. /\ saved = ZeroPosition /\ starts = 0 /\ drops = 0 /\ up = FALSE /\ cursor = 0 /\ heard = 0 /\ read = 0
      /\ set = {} /\ pendingGTID = 0 /\ committed = ZeroPosition /\ currentFile = 0 /\ txOrder = 0 /\ seq = 0
      /\ schema = 0 /\ last = Nothing
  BY DEF Init, NoGTID, NoSchema
<1>4. TypeRun /\ TypeTxn /\ TypeSaved /\ TypeSchema /\ TypeLast
  <2>1. 0 \in 0..MaxStarts /\ 0 \in 0..MaxDrops /\ 0 \in 0..Len(log) /\ 0 \in 0..MaxLog
        /\ 0 \in 0..(MaxLog + 1)
    BY <1>2, Bounds
  <2>2. TypeRun
    BY <1>3, <2>1 DEF TypeRun
  <2>3. TypeTxn
    BY <1>3, <2>1, ZeroType DEF TypeTxn, GNO
  <2>4. TypeSaved /\ TypeSchema /\ TypeLast
    BY <1>3, <2>1, ZeroType DEF TypeSaved, TypeSchema, TypeLast
  <2> QED
    BY <2>2, <2>3, <2>4
<1>5. Heard /\ Filed /\ Cached
  BY <1>3 DEF Heard, Filed, Cached, NoSchema
<1>6. Behind
  BY <1>2, <1>3 DEF Behind, ZeroPosition
<1> QED
  BY <1>1, <1>4, <1>5, <1>6 DEF Inv

\* The position a start resolves to.
LEMMA ResolveType ==
    ASSUME Inv, NEW from \in Positions, from.off <= Len(log)
    PROVE  LET p == resolveStart(from)
           IN  /\ p \in Positions /\ p.off <= Len(log) /\ Skipped(p) \in 0..Len(log)
<1> DEFINE p == resolveStart(from)
<1>1. log \in Seq(Item) /\ Len(log) \in Nat /\ Len(log) <= MaxLog
  BY DEF Inv, TypeLog
<1>2. /\ masterStatus.set = Executed /\ masterStatus.file = FileAt(Len(log))
      /\ masterStatus.off = Len(log)
  BY DEF masterStatus
<1>3. Executed \subseteq GNO
  <2>1. PICK n \in Nat : n <= Len(log) /\ Executed = 1..n
    BY <1>1, NextNumber DEF Inv
  <2> QED
    BY <1>1, <2>1, Bounds DEF GNO
<1>4. FileAt(Len(log)) \in 0..(MaxLog + 1) /\ Len(log) \in 0..MaxLog
  BY <1>1, FileAtType, Bounds
<1>5. from.set \subseteq GNO /\ from.file \in 0..(MaxLog + 1) /\ from.off \in 0..MaxLog
  BY DEF Positions
<1>6. CASE GTID
  <2>1. p.off = 0 /\ p.set \in {from.set, Executed} /\ p.file = 0
        /\ p = [set |-> p.set, file |-> 0, off |-> 0]
    BY <1>2, <1>6 DEF resolveStart, ZeroPosition
  <2>2. Skipped(p) = SkipExecuted(p.set)
    BY <1>6 DEF Skipped
  <2>3. Skips(log, p.set, SkipExecuted(p.set))
    BY <1>1, SkipIs
  <2> HIDE DEF p
  <2>4. p \in Positions
    BY <1>3, <1>5, <2>1, Bounds DEF Positions
  <2> QED
    BY <1>1, <2>1, <2>2, <2>3, <2>4 DEF Skips, p
<1>7. CASE ~GTID
  <2>1. \/ p = [set |-> {}, file |-> from.file, off |-> from.off]
        \/ p = [set |-> {}, file |-> FileAt(Len(log)), off |-> Len(log)]
    BY <1>2, <1>7 DEF resolveStart, ZeroPosition
  <2>2. Skipped(p) = p.off
    BY <1>7 DEF Skipped
  <2> HIDE DEF p
  <2>3. p \in Positions
    BY <1>4, <1>5, <2>1 DEF Positions
  <2>4. p.off \in 0..Len(log)
    BY <1>1, <1>5, <2>1
  <2> QED
    BY <1>1, <2>2, <2>3, <2>4 DEF p
<1> QED
  BY <1>6, <1>7

LEMMA StartInv == ASSUME Inv, Start PROVE Inv'
<1> DEFINE p == resolveStart(saved)
<1>1. /\ cursor' = Skipped(p) /\ heard' = 0 /\ read' = Skipped(p)
      /\ set' = p.set /\ committed' = p /\ currentFile' = FileAt(Skipped(p))
      /\ starts < MaxStarts /\ up' = TRUE /\ starts' = starts + 1
      /\ pendingGTID' = NoGTID /\ txOrder' = 0 /\ seq' = 0
      /\ schema' = NoSchema /\ last' = Nothing
      /\ UNCHANGED <<GTID, HasGTIDs, log, saved, drops>>
  BY DEF Start
<1>2. p \in Positions /\ p.off <= Len(log) /\ Skipped(p) \in 0..Len(log)
  BY ResolveType DEF Inv, TypeSaved, Behind
<1> HIDE DEF p
<1>3. Len(log) \in Nat /\ Len(log) <= MaxLog
  BY DEF Inv, TypeLog
<1>4. TypeMode' /\ TypeLog' /\ TypeSaved' /\ Numbered(log') /\ Consecutive(log')
  BY <1>1 DEF Inv, TypeMode, TypeLog, TypeSaved
<1>5. TypeRun' /\ Heard'
  <2>1. 0 \in 0..Len(log) /\ Skipped(p) + 1 >= 0
    BY <1>2, <1>3
  <2> QED
    BY <1>1, <1>2, <2>1, Bounds DEF Inv, TypeRun, Heard
<1>6. FileAt(Skipped(p)) \in 0..(MaxLog + 1)
  <2> DEFINE k == Skipped(p)
  <2>1. k \in Nat /\ k <= MaxLog
    BY <1>2, <1>3, Bounds
  <2> HIDE DEF k
  <2>2. FileAt(k) \in Nat /\ FileAt(k) <= k + 1
    BY <2>1, FileAtType
  <2>3. FileAt(k) \in 0..(MaxLog + 1)
    BY <2>1, <2>2, Bounds
  <2> QED
    BY <2>3 DEF k
<1>7. TypeTxn'
  BY <1>1, <1>2, <1>6, Bounds DEF TypeTxn, Positions, NoGTID, GNO
<1>8. TypeSchema' /\ TypeLast' /\ Cached'
  BY <1>1, Bounds DEF TypeSchema, TypeLast, Cached, NoSchema
<1>9. FileAt(cursor)' = FileAt(Skipped(p))
  BY <1>1 DEF FileAt
<1>10. Filed'
  <2>1. starts \in Nat
    BY DEF Inv, TypeRun
  <2> QED
    BY <1>1, <1>9, <2>1 DEF Filed
<1>11. Behind'
  BY <1>1, <1>2 DEF Inv, Behind
<1> QED
  BY <1>4, <1>5, <1>7, <1>8, <1>10, <1>11 DEF Inv

LEMMA StopsSavesInv == ASSUME Inv, Stops \/ Saves PROVE Inv'
<1>1. UNCHANGED <<GTID, HasGTIDs, log, starts, drops, cursor, heard, read, set, pendingGTID,
                  committed, currentFile, txOrder, seq, schema, last>>
  BY DEF Stops, Saves
<1>2. FileAt(cursor)' = FileAt(cursor) /\ SchemaAt(cursor + 1)' = SchemaAt(cursor + 1)
      /\ SchemaAt(last.entry)' = SchemaAt(last.entry)
  BY <1>1 DEF FileAt, SchemaAt
<1>3. TypeMode' /\ TypeLog' /\ TypeTxn' /\ TypeSchema' /\ TypeLast' /\ Numbered(log') /\ Consecutive(log')
  BY <1>1 DEF Inv, TypeMode, TypeLog, TypeTxn, TypeSchema, TypeLast
<1>4. TypeRun' /\ Heard'
  BY <1>1 DEF Inv, TypeRun, Heard, Stops, Saves
<1>5. TypeSaved' /\ Behind'
  BY <1>1 DEF Inv, TypeSaved, TypeLast, Behind, Stops, Saves
<1>6. Filed' /\ Cached'
  BY <1>1, <1>2 DEF Inv, Filed, Cached, Stops, Saves
<1> QED
  BY <1>3, <1>4, <1>5, <1>6 DEF Inv

\* The stream goes back to the last GTID event.
LEMMA ReconnectsIs ==
    ASSUME Inv, Reconnects
    PROVE  /\ GTID /\ heard \in 1..Len(log) /\ log[heard].kind = "gtid"
           /\ cursor' = heard - 1 /\ heard - 1 \in 0..Len(log) /\ heard - 1 <= cursor
           /\ currentFile' = FileAt(heard - 1)
           /\ UNCHANGED <<GTID, HasGTIDs, log, saved, starts, up, heard, read, set, pendingGTID,
                          committed, txOrder, seq, schema, last>>
<1>1. /\ GTID /\ heard > 0 /\ cursor' = heard - 1 /\ currentFile' = FileAt(heard - 1)
      /\ UNCHANGED <<GTID, HasGTIDs, log, saved, starts, up, heard, read, set, pendingGTID,
                     committed, txOrder, seq, schema, last>>
  BY DEF Reconnects
<1>2. Len(log) \in Nat /\ heard \in 0..Len(log) /\ cursor \in 0..Len(log) /\ heard <= cursor + 1
  BY DEF Inv, TypeLog, TypeRun, Heard
<1>3. heard \in 1..Len(log) /\ heard - 1 \in 0..Len(log) /\ heard - 1 <= cursor
  BY <1>1, <1>2
<1>4. log[heard].kind = "gtid"
  BY <1>1 DEF Inv, Heard
<1> QED
  BY <1>1, <1>3, <1>4

LEMMA ReconnectsInv == ASSUME Inv, Reconnects PROVE Inv'
<1> DEFINE k == heard - 1
<1>1. /\ cursor' = k /\ k \in 0..Len(log) /\ k <= cursor /\ currentFile' = FileAt(k)
      /\ UNCHANGED <<GTID, HasGTIDs, log, saved, starts, up, heard, read, set, pendingGTID,
                     committed, txOrder, seq, schema, last>>
  BY ReconnectsIs
<1>2. /\ Len(log) \in Nat /\ Len(log) <= MaxLog /\ cursor \in Nat /\ k \in Nat /\ k <= MaxLog
      /\ heard <= k + 1
  <2>1. Len(log) \in Nat /\ Len(log) <= MaxLog /\ cursor \in 0..Len(log) /\ heard \in 0..Len(log)
    BY DEF Inv, TypeLog, TypeRun
  <2> QED
    BY <1>1, <2>1, Bounds
<1> HIDE DEF k
<1>3. TypeMode' /\ TypeLog' /\ TypeSaved' /\ TypeSchema' /\ TypeLast' /\ Behind'
      /\ Numbered(log') /\ Consecutive(log')
  BY <1>1 DEF Inv, TypeMode, TypeLog, TypeSaved, TypeSchema, TypeLast, Behind
<1>4. TypeRun' /\ Heard'
  <2>1. drops' \in 0..MaxDrops
    BY Bounds DEF Inv, TypeRun, Reconnects
  <2> QED
    BY <1>1, <1>2, <2>1 DEF Inv, TypeRun, Heard
<1>5. TypeTxn'
  <2>1. FileAt(k) \in Nat /\ FileAt(k) <= k + 1
    BY <1>2, FileAtType
  <2>2. FileAt(k) \in 0..(MaxLog + 1)
    BY <1>2, <2>1, Bounds
  <2> QED
    BY <1>1, <2>2 DEF Inv, TypeTxn
<1>6. FileAt(cursor)' = FileAt(k)
  BY <1>1 DEF FileAt
<1>7. Filed'
  BY <1>1, <1>6 DEF Inv, Filed
<1>8. SchemaAt(cursor + 1)' = SchemaAt(k + 1) /\ SchemaAt(last.entry)' = SchemaAt(last.entry)
  BY <1>1 DEF SchemaAt
<1>9. /\ SchemaAt(k + 1) <= SchemaAt(cursor + 1) /\ SchemaAt(cursor + 1) \in Nat
      /\ SchemaAt(k + 1) \in Nat
  BY <1>1, <1>2, SchemaAtMonotonic, SchemaAtType
<1>10. schema \in Nat
  BY DEF Inv, TypeSchema
<1>11. schema # NoSchema => schema >= SchemaAt(k + 1)
  BY <1>9, <1>10 DEF Inv, Cached
<1>12. Cached'
  BY <1>1, <1>8, <1>11 DEF Inv, Cached
<1> QED
  BY <1>3, <1>4, <1>5, <1>7, <1>12 DEF Inv

\* What every handler shares: the next entry is read.
LEMMA ReadsFacts ==
    ASSUME Inv, NEW K, Reads(K)
    PROVE  /\ cursor \in Nat /\ cursor + 1 \in 1..Len(log) /\ cursor' = cursor + 1 /\ starts > 0
           /\ log[cursor + 1].kind \in K /\ log[cursor + 1] \in Item
           /\ read' = IF cursor < read THEN read ELSE cursor + 1
           /\ UNCHANGED <<GTID, HasGTIDs, log, saved, starts, drops, up>>
           /\ TypeMode' /\ TypeLog' /\ TypeRun' /\ Heard' /\ TypeSaved' /\ Numbered(log') /\ Consecutive(log')
<1>1. /\ up /\ cursor < Len(log) /\ cursor' = cursor + 1 /\ log[cursor + 1].kind \in K
      /\ heard' = IF log[cursor + 1].kind = "gtid" THEN cursor + 1 ELSE heard
      /\ read' = IF cursor < read THEN read ELSE cursor + 1
      /\ UNCHANGED <<GTID, HasGTIDs, log, saved, starts, drops, up>>
  BY DEF Reads
<1>2. log \in Seq(Item) /\ Len(log) \in Nat /\ cursor \in 0..Len(log)
  BY DEF Inv, TypeLog, TypeRun
<1>3. cursor + 1 \in 1..Len(log) /\ cursor + 1 \in 0..Len(log) /\ cursor \in Nat
  BY <1>1, <1>2
<1>4. log[cursor + 1] \in Item
  <2> HIDE DEF Item
  <2> QED
    BY <1>2, <1>3
<1>5. TypeMode' /\ TypeLog' /\ TypeSaved' /\ Numbered(log') /\ Consecutive(log')
  BY <1>1 DEF Inv, TypeMode, TypeLog, TypeSaved
<1>6. TypeRun'
  BY <1>1, <1>3 DEF Inv, TypeRun
<1>7. Heard'
  <2>1. heard \in Nat /\ heard <= cursor + 1 /\ (heard > 0 => log[heard].kind = "gtid")
    BY DEF Inv, TypeRun, Heard
  <2>2. heard' <= (cursor + 1) + 1
    BY <1>1, <1>3, <2>1
  <2>3. heard' > 0 => log[heard'].kind = "gtid"
    BY <1>1, <2>1
  <2> QED
    BY <1>1, <2>2, <2>3 DEF Heard
<1> QED
  BY <1>1, <1>3, <1>4, <1>5, <1>6, <1>7 DEF Inv, Filed

LEMMA ReadsFile ==
    ASSUME Inv, NEW K, Reads(K)
    PROVE  /\ FileAt(cursor)' = IF log[cursor + 1].kind = "rotate" THEN FileAt(cursor) + 1
                                                                  ELSE FileAt(cursor)
           /\ FileAt(cursor)' \in 1..(MaxLog + 1) /\ FileAt(cursor) \in 1..(MaxLog + 1)
           /\ FileAt(cursor)' = FileAt(cursor + 1)
<1>1. cursor \in Nat /\ cursor' = cursor + 1 /\ log' = log /\ cursor + 1 \in 1..Len(log)
  BY ReadsFacts
<1>2. Len(log) \in Nat /\ Len(log) <= MaxLog
  BY DEF Inv, TypeLog
<1>3. FileAt(cursor)' = FileAt(cursor + 1)
  BY <1>1 DEF FileAt
<1>4. Rotations(log, cursor) \in SUBSET (1..cursor)
  BY DEF Rotations
<1>5. Cardinality(Rotations(log, cursor)) \in Nat /\ Cardinality(Rotations(log, cursor)) <= cursor
  BY <1>1, <1>4, CountType
<1>6. CASE log[cursor + 1].kind = "rotate"
  <2>1. FileAt(cursor + 1) = 1 + (Cardinality(Rotations(log, cursor)) + 1)
    BY <1>1, <1>4, <1>6, FileAtIs, RotationsStep, CountOneMore
  <2>2. FileAt(cursor) = 1 + Cardinality(Rotations(log, cursor))
    BY FileAtIs
  <2> QED
    BY <1>1, <1>2, <1>3, <1>5, <1>6, <2>1, <2>2, Bounds
<1>7. CASE log[cursor + 1].kind # "rotate"
  <2>1. FileAt(cursor + 1) = 1 + Cardinality(Rotations(log, cursor))
    BY <1>1, <1>7, FileAtIs, RotationsStep
  <2>2. FileAt(cursor) = 1 + Cardinality(Rotations(log, cursor))
    BY FileAtIs
  <2> QED
    BY <1>1, <1>2, <1>3, <1>5, <1>7, <2>1, <2>2, Bounds
<1> QED
  BY <1>6, <1>7

LEMMA ReadsSchema ==
    ASSUME Inv, NEW K, Reads(K)
    PROVE  /\ SchemaAt(cursor + 1)' \in Nat /\ SchemaAt(cursor + 1) \in Nat
           /\ log[cursor + 1].kind # "ddl" => SchemaAt(cursor + 1)' = SchemaAt(cursor + 1)
<1>1. cursor \in Nat /\ cursor' = cursor + 1 /\ log' = log
  BY ReadsFacts
<1> DEFINE c == cursor
<1>2. SchemaAt(cursor + 1)' = SchemaAt((c + 1) + 1)
  BY <1>1 DEF SchemaAt
<1>3. SchemaAt((c + 1) + 1) \in Nat /\ SchemaAt(c + 1) \in Nat
  <2>1. c + 1 \in Nat /\ c \in Nat
    BY <1>1
  <2> QED
    BY <2>1, SchemaAtType
<1>4. ((c + 1) + 1) - 1 = c + 1 /\ (c + 1) - 1 = c
  BY <1>1
<1>5. SchemaAt((c + 1) + 1) = 1 + Cardinality(Ddls(log, c + 1))
      /\ SchemaAt(c + 1) = 1 + Cardinality(Ddls(log, c))
  BY <1>4, SchemaAtIs
<1>6. log[c + 1].kind # "ddl" => Ddls(log, c + 1) = Ddls(log, c)
  BY <1>1, DdlsStep
<1> QED
  BY <1>2, <1>3, <1>5, <1>6

\* A handler that sends nothing keeps what is known of the last batch.
LEMMA ReadsQuietly ==
    ASSUME Inv, NEW K, Reads(K), last' = last
    PROVE  /\ TypeLast' /\ (last # Nothing => last.pos.off <= Len(log'))
           /\ last' # Nothing => last'.schema >= SchemaAt(last.entry)'
<1>1. log' = log
  BY ReadsFacts
<1>2. SchemaAt(last.entry)' = SchemaAt(last.entry)
  BY <1>1 DEF SchemaAt
<1> QED
  BY <1>1, <1>2 DEF Inv, TypeLast, Behind, Cached

LEMMA HandleRotateInv == ASSUME Inv, HandleRotate PROVE Inv'
<1>1. /\ Reads({"rotate"}) /\ currentFile' = currentFile + 1
      /\ UNCHANGED <<set, pendingGTID, committed, txOrder, seq, schema, last>>
  BY DEF HandleRotate
<1>2. /\ log' = log /\ saved' = saved /\ starts' = starts /\ up' = up
      /\ starts > 0 /\ log[cursor + 1].kind = "rotate"
      /\ TypeMode' /\ TypeLog' /\ TypeRun' /\ Heard' /\ TypeSaved' /\ Numbered(log') /\ Consecutive(log')
  BY <1>1, ReadsFacts
<1>3. FileAt(cursor)' = FileAt(cursor) + 1 /\ FileAt(cursor)' \in 1..(MaxLog + 1)
  BY <1>1, <1>2, ReadsFile
<1>4. currentFile = FileAt(cursor)
  BY <1>2 DEF Inv, Filed
<1>5. TypeTxn' /\ TypeSchema'
  BY <1>1, <1>3, <1>4 DEF Inv, TypeTxn, TypeSchema
<1>6. Filed'
  BY <1>1, <1>2, <1>3, <1>4 DEF Inv, Filed
<1>7. TypeLast' /\ (last # Nothing => last.pos.off <= Len(log'))
      /\ (last' # Nothing => last'.schema >= SchemaAt(last.entry)')
  BY <1>1, ReadsQuietly
<1>8. Behind'
  BY <1>1, <1>2, <1>7 DEF Inv, Behind
<1>9. Cached'
  BY <1>1, <1>2, <1>7, ReadsSchema DEF Inv, Cached
<1> QED
  BY <1>2, <1>5, <1>6, <1>7, <1>8, <1>9 DEF Inv

LEMMA HandleGTIDInv == ASSUME Inv, HandleGTID PROVE Inv'
<1>1. /\ Reads({"gtid"}) /\ pendingGTID' = log[cursor + 1].tx /\ txOrder' = 0
      /\ UNCHANGED <<set, committed, currentFile, seq, schema, last>>
  BY DEF HandleGTID
<1>2. /\ log' = log /\ saved' = saved /\ starts' = starts /\ up' = up
      /\ starts > 0 /\ log[cursor + 1].kind = "gtid" /\ log[cursor + 1] \in Item
      /\ TypeMode' /\ TypeLog' /\ TypeRun' /\ Heard' /\ TypeSaved' /\ Numbered(log') /\ Consecutive(log')
  BY <1>1, ReadsFacts
<1>3. FileAt(cursor)' = FileAt(cursor)
  BY <1>1, <1>2, ReadsFile
<1>4. log[cursor + 1].tx \in GNO
  BY <1>2 DEF Item, ItemOf
<1>5. TypeTxn' /\ TypeSchema'
  BY <1>1, <1>4 DEF Inv, TypeTxn, TypeSchema
<1>6. Filed'
  BY <1>1, <1>2, <1>3 DEF Inv, Filed
<1>7. TypeLast' /\ (last # Nothing => last.pos.off <= Len(log'))
      /\ (last' # Nothing => last'.schema >= SchemaAt(last.entry)')
  BY <1>1, ReadsQuietly
<1>8. Behind'
  BY <1>1, <1>2, <1>7 DEF Inv, Behind
<1>9. Cached'
  BY <1>1, <1>2, <1>7, ReadsSchema DEF Inv, Cached
<1> QED
  BY <1>2, <1>5, <1>6, <1>7, <1>8, <1>9 DEF Inv

\* An entry that ends a transaction moves the committed coordinates behind it.
LEMMA CommitType ==
    ASSUME Inv, NEW K, Reads(K), commit
    PROVE  /\ set' \subseteq GNO /\ pendingGTID' \in GNO /\ committed' \in Positions
           /\ committed'.off = cursor + 1 /\ cursor + 1 <= Len(log)
<1>1. cursor + 1 \in 1..Len(log) /\ cursor \in Nat
  BY ReadsFacts
<1>2. Len(log) \in Nat /\ Len(log) <= MaxLog
  BY DEF Inv, TypeLog
<1>3. set \subseteq GNO /\ pendingGTID \in GNO /\ currentFile \in 0..(MaxLog + 1)
  BY DEF Inv, TypeTxn
<1>z. 0 \in GNO
  BY Bounds DEF GNO
<1>4. set' \subseteq GNO /\ pendingGTID' \in GNO
  <2>1. CASE GTID /\ pendingGTID # NoGTID
    <3>1. set' = set \cup {pendingGTID} /\ pendingGTID' = 0
      BY <2>1 DEF commit, NoGTID
    <3> QED
      BY <3>1, <1>3, <1>z
  <2>2. CASE ~(GTID /\ pendingGTID # NoGTID)
    <3>1. set' = set /\ pendingGTID' = pendingGTID
      BY <2>2 DEF commit
    <3> QED
      BY <3>1, <1>3
  <2> QED
    BY <2>1, <2>2
<1>5. committed' = [set |-> set', file |-> currentFile, off |-> cursor + 1]
  BY DEF commit
<1>6. cursor + 1 \in 0..MaxLog
  BY <1>1, <1>2, Bounds
<1> QED
  BY <1>1, <1>3, <1>4, <1>5, <1>6 DEF Positions

LEMMA HandleXIDInv == ASSUME Inv, HandleXID PROVE Inv'
<1>1. /\ Reads({"xid"}) /\ commit /\ UNCHANGED <<currentFile, txOrder, seq, schema, last>>
  BY DEF HandleXID
<1>2. /\ log' = log /\ saved' = saved /\ starts' = starts /\ up' = up
      /\ starts > 0 /\ log[cursor + 1].kind = "xid"
      /\ TypeMode' /\ TypeLog' /\ TypeRun' /\ Heard' /\ TypeSaved' /\ Numbered(log') /\ Consecutive(log')
  BY <1>1, ReadsFacts
<1>3. FileAt(cursor)' = FileAt(cursor)
  BY <1>1, <1>2, ReadsFile
<1>4. /\ set' \subseteq GNO /\ pendingGTID' \in GNO /\ committed' \in Positions
      /\ committed'.off = cursor + 1 /\ cursor + 1 <= Len(log)
  BY <1>1, CommitType
<1>5. TypeTxn' /\ TypeSchema'
  BY <1>1, <1>4 DEF Inv, TypeTxn, TypeSchema
<1>6. Filed'
  BY <1>1, <1>2, <1>3 DEF Inv, Filed
<1>7. TypeLast' /\ (last # Nothing => last.pos.off <= Len(log'))
      /\ (last' # Nothing => last'.schema >= SchemaAt(last.entry)')
  BY <1>1, ReadsQuietly
<1>8. Behind'
  BY <1>1, <1>2, <1>4, <1>7 DEF Inv, Behind
<1>9. Cached'
  BY <1>1, <1>2, <1>7, ReadsSchema DEF Inv, Cached
<1> QED
  BY <1>2, <1>5, <1>6, <1>7, <1>8, <1>9 DEF Inv

\* DDL empties the cache.
LEMMA HandleQueryInv == ASSUME Inv, HandleQuery PROVE Inv'
<1>1. /\ Reads({"begin", "query", "ddl"}) /\ UNCHANGED <<currentFile, txOrder, seq, last>>
      /\ \/ log[cursor + 1].kind = "begin" /\ UNCHANGED <<set, pendingGTID, committed, schema>>
         \/ commit /\ schema' = NoSchema
  BY DEF HandleQuery
<1>2. /\ log' = log /\ saved' = saved /\ starts' = starts /\ up' = up
      /\ starts > 0 /\ log[cursor + 1].kind \in {"begin", "query", "ddl"}
      /\ TypeMode' /\ TypeLog' /\ TypeRun' /\ Heard' /\ TypeSaved' /\ Numbered(log') /\ Consecutive(log')
  BY <1>1, ReadsFacts
<1>3. FileAt(cursor)' = FileAt(cursor)
  BY <1>1, <1>2, ReadsFile
<1>4. commit => /\ set' \subseteq GNO /\ pendingGTID' \in GNO /\ committed' \in Positions
                /\ committed'.off = cursor + 1 /\ cursor + 1 <= Len(log)
  BY <1>1, CommitType
<1>5. TypeTxn'
  BY <1>1, <1>4 DEF Inv, TypeTxn
<1>6. TypeSchema'
  BY <1>1, Bounds DEF Inv, TypeSchema, NoSchema
<1>7. Filed'
  BY <1>1, <1>2, <1>3 DEF Inv, Filed
<1>8. TypeLast' /\ (last # Nothing => last.pos.off <= Len(log'))
      /\ (last' # Nothing => last'.schema >= SchemaAt(last.entry)')
  BY <1>1, ReadsQuietly
<1>9. Behind'
  BY <1>1, <1>2, <1>4, <1>8 DEF Inv, Behind
<1>10. Cached'
  BY <1>1, <1>2, <1>8, ReadsSchema DEF Inv, Cached
<1> QED
  BY <1>2, <1>5, <1>6, <1>7, <1>8, <1>9, <1>10 DEF Inv

LEMMA HandleFilteredInv == ASSUME Inv, HandleFiltered PROVE Inv'
<1>1. /\ Reads({"rows"}) /\ txOrder' = txOrder + log[cursor + 1].n
      /\ UNCHANGED <<set, pendingGTID, committed, currentFile, seq, schema, last>>
  BY DEF HandleFiltered
<1>2. /\ log' = log /\ saved' = saved /\ starts' = starts /\ up' = up
      /\ starts > 0 /\ log[cursor + 1].kind = "rows" /\ log[cursor + 1] \in Item
      /\ TypeMode' /\ TypeLog' /\ TypeRun' /\ Heard' /\ TypeSaved' /\ Numbered(log') /\ Consecutive(log')
  BY <1>1, ReadsFacts
<1>3. FileAt(cursor)' = FileAt(cursor)
  BY <1>1, <1>2, ReadsFile
<1>4. log[cursor + 1].n \in Nat
  BY <1>2 DEF Item, ItemOf
<1>5. TypeTxn' /\ TypeSchema'
  BY <1>1, <1>4 DEF Inv, TypeTxn, TypeSchema
<1>6. Filed'
  BY <1>1, <1>2, <1>3 DEF Inv, Filed
<1>7. TypeLast' /\ (last # Nothing => last.pos.off <= Len(log'))
      /\ (last' # Nothing => last'.schema >= SchemaAt(last.entry)')
  BY <1>1, ReadsQuietly
<1>8. Behind'
  BY <1>1, <1>2, <1>7 DEF Inv, Behind
<1>9. Cached'
  BY <1>1, <1>2, <1>7, ReadsSchema DEF Inv, Cached
<1> QED
  BY <1>2, <1>5, <1>6, <1>7, <1>8, <1>9 DEF Inv

\* What HandleRows sends.
LEMMA HandleRowsIs ==
    ASSUME HandleRows
    PROVE  LET k == cursor + 1 IN
           /\ Reads({"rows"}) /\ log[k].match
           /\ schema' \in {Get, load}
           /\ last'.entry = k /\ last'.read = read /\ last'.pos = committed /\ last'.schema = schema'
           /\ last'.ids = [i \in 1..log[k].n |-> EventID(i)]
           /\ txOrder' = txOrder + log[k].n /\ seq' = seq + log[k].n
           /\ UNCHANGED <<set, pendingGTID, committed, currentFile>>
  BY DEF HandleRows, Stamp

\* A schema that is used was loaded after the DDL the stream has passed.
LEMMA HandleRowsInv == ASSUME Inv, HandleRows PROVE Inv'
<1> DEFINE k == cursor + 1
<1>1. /\ Reads({"rows"}) /\ schema' \in {Get, load}
      /\ last'.entry = k /\ last'.read = read /\ last'.pos = committed /\ last'.schema = schema'
      /\ txOrder' = txOrder + log[k].n /\ seq' = seq + log[k].n
      /\ UNCHANGED <<set, pendingGTID, committed, currentFile>>
  BY HandleRowsIs
<1>2. /\ log' = log /\ saved' = saved /\ starts' = starts /\ up' = up /\ cursor' = cursor + 1
      /\ starts > 0 /\ log[k].kind = "rows" /\ log[k] \in Item /\ k \in 1..Len(log) /\ cursor \in Nat
      /\ TypeMode' /\ TypeLog' /\ TypeRun' /\ Heard' /\ TypeSaved' /\ Numbered(log') /\ Consecutive(log')
  BY <1>1, ReadsFacts
<1>3. FileAt(cursor)' = FileAt(cursor)
  BY <1>1, <1>2, ReadsFile
<1>4. log[k].n \in Nat
  BY <1>2 DEF Item, ItemOf
<1>5. Len(log) \in Nat /\ Len(log) <= MaxLog
  BY DEF Inv, TypeLog
<1>6. /\ load \in Nat /\ load <= MaxLog + 1 /\ load >= SchemaAt(k) /\ SchemaAt(k) \in Nat
      /\ SchemaAt(k) >= 1
  <2>1. load = SchemaAt(Len(log) + 1)
    BY DEF load
  <2>2. SchemaAt(Len(log) + 1) \in Nat /\ SchemaAt(Len(log) + 1) <= Len(log) + 1
    BY <1>5, SchemaAtType
  <2>3. SchemaAt(cursor + 1) \in Nat /\ SchemaAt(cursor + 1) >= 1
    BY <1>2, SchemaAtType
  <2>4. cursor <= Len(log)
    BY <1>2, <1>5
  <2>5. SchemaAt(cursor + 1) <= SchemaAt(Len(log) + 1)
    BY <1>2, <1>5, <2>4, SchemaAtMonotonic
  <2> QED
    BY <1>5, <2>1, <2>2, <2>3, <2>5, Bounds
<1>7. schema' \in 0..(MaxLog + 1) /\ schema' >= SchemaAt(k)
  <2>1. schema \in 0..(MaxLog + 1) /\ (schema # NoSchema => schema >= SchemaAt(k))
    BY DEF Inv, TypeSchema, Cached
  <2>2. load \in 0..(MaxLog + 1)
    BY <1>6, Bounds
  <2>3. Get \in 0..(MaxLog + 1) /\ Get >= SchemaAt(k)
    BY <1>6, <2>1, <2>2 DEF Get
  <2> QED
    BY <1>1, <1>6, <2>2, <2>3
<1> HIDE DEF k
<1>8. TypeTxn'
  BY <1>1, <1>4 DEF Inv, TypeTxn
<1>9. TypeSchema'
  BY <1>7 DEF TypeSchema
<1>10. TypeLast'
  BY <1>1, <1>2 DEF Inv, TypeRun, TypeTxn, TypeLast
<1>11. Filed'
  BY <1>1, <1>2, <1>3 DEF Inv, Filed
<1>12. Behind'
  BY <1>1, <1>2 DEF Inv, Behind
<1>13. SchemaAt(last.entry)' = SchemaAt(k)
  BY <1>1, <1>2 DEF SchemaAt
<1>14. SchemaAt(cursor + 1)' = SchemaAt(k)
  BY <1>1, <1>2, ReadsSchema DEF k
<1>15. Cached'
  BY <1>1, <1>7, <1>13, <1>14 DEF Cached
<1> QED
  BY <1>2, <1>8, <1>9, <1>10, <1>11, <1>12, <1>15 DEF Inv

LEMMA StepInv == Inv /\ [Next]_vars => Inv'
<1> SUFFICES ASSUME Inv, [Next]_vars PROVE Inv'
  OBVIOUS
<1>1. CASE UNCHANGED vars
  <2>1. FileAt(cursor)' = FileAt(cursor) /\ SchemaAt(cursor + 1)' = SchemaAt(cursor + 1)
        /\ SchemaAt(last.entry)' = SchemaAt(last.entry)
    BY <1>1 DEF FileAt, SchemaAt, vars
  <2> QED
    BY <1>1, <2>1 DEF vars, Inv, TypeMode, TypeLog, TypeRun, TypeTxn, TypeSaved, TypeSchema,
                      TypeLast, Heard, Filed, Behind, Cached
<1>2. CASE Next
  BY <1>2, ServerCommitsInv, ServerRotatesInv, StartInv, StopsSavesInv, ReconnectsInv,
     HandleRotateInv, HandleGTIDInv, HandleXIDInv, HandleQueryInv, HandleFilteredInv,
     HandleRowsInv DEF Next
<1> QED
  BY <1>1, <1>2

LEMMA SourceInv == Spec => []Inv
  BY InitInv, StepInv, PTL DEF Spec

\* Every variable of the source and of its txnState has its type, whatever the
\* server writes and however often the source reconnects and restarts.
THEOREM SourceTypeCorrect == Spec => []TypeOK
<1>1. Inv => TypeOK
  BY DEF Inv, TypeLog, TypeRun, TypeTxn, TypeSaved, TypeSchema, Item, ItemOf, TypeOK
<1> QED
  BY <1>1, SourceInv, PTL

\* A row is never mapped with a table schema older than the one it was written
\* with, whatever the server writes: DDL empties the registry's cache.
THEOREM SchemasNeverOlder == Spec => []SchemaNeverOlder
<1>1. Inv => SchemaNeverOlder
  BY DEF Inv, Cached, SchemaNeverOlder
<1> QED
  BY <1>1, SourceInv, PTL

----------------------------------------------------------------------------
(* Binlogs of whole transactions: each body ends with what commits it, and  *)
(* nothing inside it does.  A savepoint is such a thing (run FindSavepoint),*)
(* so what follows does not hold of transactions that have one.             *)

WholeBody(b) ==
    /\ Len(b) >= 1 /\ b[Len(b)].kind \in Ends
    /\ \A i \in 1..(Len(b) - 1) : b[i].kind \notin Ends
WholeTransactions == \A b \in Bodies \cup {PreBody} : b # <<>> => WholeBody(b)

\* Every transaction in the log has an end, and nothing of it is behind that.
Ended(l) ==
    \A i \in 1..Len(l) :
      l[i].tx # NoGTID => \E j \in i..Len(l) : l[j].tx = l[i].tx /\ l[j].kind \in Ends
Closed(l) ==
    \A i, j \in 1..Len(l) : l[i].kind \in Ends /\ i < j => l[j].tx # l[i].tx

\* Each transaction begins with its GTID event, and has no other; or has none.
Headed(l) ==
    \A i \in 1..Len(l) :
      /\ l[i].kind = "gtid" => \A j \in 1..(i - 1) : l[j].tx # l[i].tx
      /\ l[i].kind # "gtid" /\ l[i].tx # NoGTID => i > 1 /\ l[i - 1].tx = l[i].tx
Headless(l) == \A i \in 1..Len(l) : l[i].kind # "gtid"

WholeLog(h, l) == /\ Ended(l) /\ Closed(l)
                  /\ h => Headed(l)
                  /\ ~h => Headless(l)

\* No transaction is open after k entries.
Boundary(l, k) == k = 0 \/ l[k].tx = NoGTID \/ l[k].kind \in Ends
NoEnds(l, j, k) == \A i \in (j + 1)..k : l[i].kind \notin Ends

\* p resumes at the transaction that is open after k entries.
Marks(g, p, l, k) ==
    /\ g => p.set = Done(l, k)
    /\ ~g => p.file # 0 /\ p.off <= k /\ Boundary(l, p.off) /\ NoEnds(l, p.off, k)

\* What was done counts from the furthest entry read: a reconnect takes the
\* cursor back, never the executed set, and by offset it takes back nothing.
Furthest(g, k, c) == c <= k /\ (~g => c = k)
Read == starts > 0 => /\ Marks(GTID, committed, log, read)
                      /\ Furthest(GTID, read, cursor)
                      /\ GTID => committed.set = set
Sent == last # Nothing => /\ Marks(GTID, last.pos, log, last.read)
                          /\ Furthest(GTID, last.read, last.entry - 1)
Stored == /\ GTID => \E c \in 0..Len(log) : saved.set = Done(log, c)
          /\ ~GTID /\ saved.file # 0 => Boundary(log, saved.off)

\* While a transaction is open, the source knows its GTID and the rows so far.
Rows(l) == [i \in 1..Len(l) |-> IF l[i].kind = "rows" THEN l[i].n ELSE 0]
Counts(l, k, g, o) ==
    g = l[k].tx /\ \A f \in 1..k : First(l, k, f) => o = Total(Rows(l), f, k + 1)
Counted ==
    /\ HasGTIDs /\ starts > 0 /\ ~Boundary(log, cursor) => Counts(log, cursor, pendingGTID, txOrder)
    /\ ~HasGTIDs => pendingGTID = NoGTID

\* The IDs of a batch denote the rows of entry k.
Denotes(h, l, k, ids) ==
    \A i \in 1..l[k].n :
      /\ h => \A f \in 1..k :
                First(l, k, f) => ids[i] = <<"gtid", l[k].tx, Total(Rows(l), f, k) + i>>
      /\ ~h => ids[i] = <<"pos", 1 + Cardinality(Rotations(l, k)), k, i>>
Named == last # Nothing => Denotes(HasGTIDs, log, last.entry, last.ids)

Whole == WholeLog(HasGTIDs, log) /\ Read /\ Sent /\ Stored /\ Counted /\ Named

\* The server had executed something before the first start: positions are
\* never taken for the missing one.
Begun == /\ \E i \in 1..Len(log) : log[i].tx # NoGTID
         /\ GTID => /\ starts > 0 => set # {}
                    /\ saved # ZeroPosition => saved.set # {}
                    /\ last # Nothing => last.pos.set # {}

----------------------------------------------------------------------------
(* Logs of whole transactions *)

\* m is l and one transaction, which is whole.
Block(h, l, m) ==
    /\ Len(l) < Len(m) /\ m[Len(m)].kind \in Ends
    /\ \A i \in (Len(l) + 1)..(Len(m) - 1) : m[i].kind \notin Ends
    /\ \A i \in (Len(l) + 1)..Len(m) : m[i].kind = "gtid" <=> h /\ i = Len(l) + 1

LEMMA BlockIs ==
    ASSUME NEW l, NEW m, NEW e, NEW body, NEW g, HasGTIDs \in BOOLEAN, Len(l) \in Nat,
           Writes(e, body, g), WholeBody(body), Len(m) = Len(l) + Len(e),
           \A i \in 1..Len(e) : m[i + Len(l)] = e[i]
    PROVE  Block(HasGTIDs, l, m)
<1>1. /\ Len(e) = Offset + Len(body) /\ Len(body) \in Nat /\ Offset \in {0, 1} /\ Len(body) >= 1
      /\ HasGTIDs <=> Offset = 1
  BY DEF Writes, WholeBody, Offset
<1>2. /\ Len(e) \in Nat /\ Len(e) >= 1 /\ Len(l) < Len(m) /\ Len(e) \in 1..Len(e)
      /\ Len(m) = Len(e) + Len(l) /\ Len(e) - Offset = Len(body) /\ (Len(e) = 1 => Offset = 0)
  BY <1>1
<1>3. ASSUME NEW i \in (Len(l) + 1)..Len(m)
      PROVE  i - Len(l) \in 1..Len(e) /\ m[i] = e[i - Len(l)]
  <2>1. i - Len(l) \in 1..Len(e) /\ (i - Len(l)) + Len(l) = i
    BY <1>2
  <2> QED
    BY <2>1
<1>4. m[Len(m)].kind \in Ends
  <2>1. m[Len(m)] = e[Len(e)]
    BY <1>2
  <2>2. e[Len(e)].kind # "gtid"
    <3>1. ~(HasGTIDs /\ Len(e) = 1)
      BY <1>1, <1>2
    <3> QED
      BY <1>2, <3>1 DEF Writes
  <2>3. e[Len(e)].kind = body[Len(body)].kind
    BY <1>2, <2>2 DEF Writes
  <2> QED
    BY <2>1, <2>3 DEF WholeBody
<1>5. ASSUME NEW i \in (Len(l) + 1)..(Len(m) - 1) PROVE m[i].kind \notin Ends
  <2> DEFINE j == i - Len(l)
  <2>1. i \in (Len(l) + 1)..Len(m) /\ j # Len(e)
    BY <1>2
  <2>2. j \in 1..Len(e) /\ m[i] = e[j]
    BY <1>3, <2>1
  <2> HIDE DEF j
  <2>3. CASE e[j].kind = "gtid"
    BY <2>2, <2>3 DEF Ends
  <2>4. CASE e[j].kind # "gtid"
    <3>1. j - Offset \in 1..Len(body) /\ e[j].kind = body[j - Offset].kind
      BY <2>2, <2>4 DEF Writes
    <3>2. j - Offset \in 1..(Len(body) - 1)
      <4>1. Offset \in Nat /\ j \in Nat /\ Len(e) = Offset + Len(body) /\ j # Len(e)
        BY <1>1, <2>1, <2>2
      <4>2. Len(body) \in Nat /\ j - Offset \in 1..Len(body)
        BY <1>1, <3>1
      <4>3. j - Offset # Len(body)
        BY <4>1, <4>2
      <4> DEFINE d == j - Offset
      <4>4. d \in 1..Len(body) /\ d # Len(body)
        BY <4>2, <4>3
      <4> HIDE DEF d
      <4>5. d \in 1..(Len(body) - 1)
        BY <4>2, <4>4
      <4> QED
        BY <4>5 DEF d
    <3> QED
      BY <2>2, <3>1, <3>2 DEF WholeBody
  <2> QED
    BY <2>3, <2>4
<1>6. ASSUME NEW i \in (Len(l) + 1)..Len(m) PROVE m[i].kind = "gtid" <=> HasGTIDs /\ i = Len(l) + 1
  <2>1. i - Len(l) \in 1..Len(e) /\ m[i] = e[i - Len(l)] /\ (i - Len(l) = 1 <=> i = Len(l) + 1)
    BY <1>3
  <2> QED
    BY <2>1 DEF Writes
<1> QED
  BY <1>2, <1>4, <1>5, <1>6 DEF Block

\* A whole transaction more.
LEMMA BlockWhole ==
    ASSUME NEW h \in BOOLEAN, NEW l, NEW m, NEW n \in Nat, Appends(l, m, n + 1),
           {l[i].tx : i \in 1..Len(l)} \ {NoGTID} = 1..n, Block(h, l, m), WholeLog(h, l)
    PROVE  WholeLog(h, m)
<1>1. /\ Len(l) \in Nat /\ Len(m) \in Nat /\ Len(l) < Len(m)
      /\ \A i \in 1..Len(l) : i \in 1..Len(m) /\ m[i] = l[i]
      /\ \A i \in (Len(l) + 1)..Len(m) : m[i].tx = n + 1 /\ m[i].kind # "rotate"
  BY DEF Appends, Extends, Block
<1>2. \A i \in 1..Len(m) : i \in 1..Len(l) \/ i \in (Len(l) + 1)..Len(m)
  BY <1>1
<1>3. \A i \in 1..Len(l) : m[i].tx # n + 1
  <2>1. \A i \in 1..Len(l) : l[i].tx # NoGTID => l[i].tx \in 1..n
    OBVIOUS
  <2>2. n + 1 # NoGTID /\ n + 1 \notin 1..n
    BY DEF NoGTID
  <2> QED
    BY <1>1, <2>1, <2>2
<1>4. Ended(m)
  <2> SUFFICES ASSUME NEW i \in 1..Len(m), m[i].tx # NoGTID
               PROVE  \E j \in i..Len(m) : m[j].tx = m[i].tx /\ m[j].kind \in Ends
    BY DEF Ended
  <2>1. CASE i \in 1..Len(l)
    <3>1. PICK j \in i..Len(l) : l[j].tx = l[i].tx /\ l[j].kind \in Ends
      BY <1>1, <2>1 DEF WholeLog, Ended
    <3>2. j \in i..Len(m) /\ j \in 1..Len(l)
      BY <1>1, <2>1
    <3> QED
      BY <1>1, <2>1, <3>1, <3>2
  <2>2. CASE i \in (Len(l) + 1)..Len(m)
    <3>1. Len(m) \in i..Len(m) /\ Len(m) \in (Len(l) + 1)..Len(m)
      BY <1>1, <2>2
    <3> QED
      BY <1>1, <2>2, <3>1 DEF Block
  <2> QED
    BY <1>2, <2>1, <2>2
<1>5. Closed(m)
  <2> SUFFICES ASSUME NEW i \in 1..Len(m), NEW j \in 1..Len(m), m[i].kind \in Ends, i < j
               PROVE  m[j].tx # m[i].tx
    BY DEF Closed
  <2>1. CASE i \in (Len(l) + 1)..Len(m)
    <3>1. i \in (Len(l) + 1)..(Len(m) - 1)
      BY <1>1, <2>1
    <3> QED
      BY <3>1 DEF Block
  <2>2. CASE i \in 1..Len(l) /\ j \in 1..Len(l)
    BY <1>1, <2>2 DEF WholeLog, Closed
  <2>3. CASE i \in 1..Len(l) /\ j \in (Len(l) + 1)..Len(m)
    BY <1>1, <1>3, <2>3
  <2> QED
    BY <1>2, <2>1, <2>2, <2>3
<1>6. ASSUME h PROVE Headed(m)
  <2> SUFFICES ASSUME NEW i \in 1..Len(m)
               PROVE  /\ m[i].kind = "gtid" => \A j \in 1..(i - 1) : m[j].tx # m[i].tx
                      /\ m[i].kind # "gtid" /\ m[i].tx # NoGTID => i > 1 /\ m[i - 1].tx = m[i].tx
    BY DEF Headed
  <2>1. CASE i \in 1..Len(l)
    <3>1. i - 1 \in 0..Len(l) /\ \A j \in 1..(i - 1) : m[j] = l[j]
      BY <1>1, <2>1
    <3>2. i > 1 => i - 1 \in 1..(i - 1)
      BY <2>1
    <3> QED
      BY <1>1, <1>6, <2>1, <3>1, <3>2 DEF WholeLog, Headed
  <2>2. CASE i \in (Len(l) + 1)..Len(m)
    <3>1. CASE i = Len(l) + 1
      <4>1. m[i].kind = "gtid"
        BY <1>6, <2>2, <3>1 DEF Block
      <4>2. \A j \in 1..(i - 1) : j \in 1..Len(l)
        BY <1>1, <3>1
      <4> QED
        BY <1>1, <1>3, <2>2, <4>1, <4>2
    <3>2. CASE i # Len(l) + 1
      <4>1. m[i].kind # "gtid"
        BY <2>2, <3>2 DEF Block
      <4>2. i > 1 /\ i - 1 \in (Len(l) + 1)..Len(m)
        BY <1>1, <2>2, <3>2
      <4> QED
        BY <1>1, <2>2, <4>1, <4>2
    <3> QED
      BY <3>1, <3>2
  <2> QED
    BY <1>2, <2>1, <2>2
<1>7. ASSUME ~h PROVE Headless(m)
  <2> SUFFICES ASSUME NEW i \in 1..Len(m) PROVE m[i].kind # "gtid"
    BY DEF Headless
  <2>1. CASE i \in 1..Len(l)
    BY <1>1, <1>7, <2>1 DEF WholeLog, Headless
  <2>2. CASE i \in (Len(l) + 1)..Len(m)
    BY <1>7, <2>2 DEF Block
  <2> QED
    BY <1>2, <2>1, <2>2
<1> QED
  BY <1>4, <1>5, <1>6, <1>7 DEF WholeLog

\* A rotation more.
LEMMA RotateWhole ==
    ASSUME NEW h \in BOOLEAN, NEW l, NEW m, Extends(l, m), Len(m) = Len(l) + 1,
           m[Len(m)].tx = NoGTID, m[Len(m)].kind = "rotate", Consecutive(l), WholeLog(h, l)
    PROVE  WholeLog(h, m)
<1>1. /\ Len(l) \in Nat /\ Len(m) \in Nat /\ \A i \in 1..Len(l) : i \in 1..Len(m) /\ m[i] = l[i]
  BY DEF Extends
<1>2. \A i \in 1..Len(m) : i \in 1..Len(l) \/ i = Len(m)
  BY <1>1
<1>3. m[Len(m)].kind \notin Ends /\ m[Len(m)].kind # "gtid"
  BY DEF Ends
<1>4. Ended(m)
  <2> SUFFICES ASSUME NEW i \in 1..Len(m), m[i].tx # NoGTID
               PROVE  \E j \in i..Len(m) : m[j].tx = m[i].tx /\ m[j].kind \in Ends
    BY DEF Ended
  <2>1. i \in 1..Len(l)
    BY <1>2
  <2>2. PICK j \in i..Len(l) : l[j].tx = l[i].tx /\ l[j].kind \in Ends
    BY <1>1, <2>1 DEF WholeLog, Ended
  <2>3. j \in i..Len(m) /\ j \in 1..Len(l)
    BY <1>1, <2>1
  <2> QED
    BY <1>1, <2>1, <2>2, <2>3
<1>5. Closed(m)
  <2> SUFFICES ASSUME NEW i \in 1..Len(m), NEW j \in 1..Len(m), m[i].kind \in Ends, i < j
               PROVE  m[j].tx # m[i].tx
    BY DEF Closed
  <2>1. i \in 1..Len(l)
    BY <1>2, <1>3
  <2>2. CASE j \in 1..Len(l)
    BY <1>1, <2>1, <2>2 DEF WholeLog, Closed
  <2>3. CASE j = Len(m)
    <3>1. l[i].kind \in Ends
      BY <1>1, <2>1
    <3>2. l[i].kind # "rotate"
      BY <3>1 DEF Ends
    <3>3. l[i].tx # NoGTID
      BY <2>1, <3>2 DEF Consecutive
    <3> QED
      BY <1>1, <2>1, <2>3, <3>3
  <2> QED
    BY <1>2, <2>2, <2>3
<1>6. ASSUME h PROVE Headed(m)
  <2> SUFFICES ASSUME NEW i \in 1..Len(m)
               PROVE  /\ m[i].kind = "gtid" => \A j \in 1..(i - 1) : m[j].tx # m[i].tx
                      /\ m[i].kind # "gtid" /\ m[i].tx # NoGTID => i > 1 /\ m[i - 1].tx = m[i].tx
    BY DEF Headed
  <2>1. CASE i \in 1..Len(l)
    <3>1. i - 1 \in 0..Len(l) /\ \A j \in 1..(i - 1) : m[j] = l[j]
      BY <1>1, <2>1
    <3>2. i > 1 => i - 1 \in 1..(i - 1)
      BY <2>1
    <3> QED
      BY <1>1, <1>6, <2>1, <3>1, <3>2 DEF WholeLog, Headed
  <2>2. CASE i = Len(m)
    BY <1>3, <2>2
  <2> QED
    BY <1>2, <2>1, <2>2
<1>7. ASSUME ~h PROVE Headless(m)
  <2> SUFFICES ASSUME NEW i \in 1..Len(m) PROVE m[i].kind # "gtid"
    BY DEF Headless
  <2> QED
    BY <1>1, <1>2, <1>3, <1>7 DEF WholeLog, Headless
<1> QED
  BY <1>4, <1>5, <1>6, <1>7 DEF WholeLog

LEMMA EmptyWhole == ASSUME NEW h PROVE WholeLog(h, <<>>)
<1>1. Len(<<>>) = 0 /\ 1..0 = {}
  OBVIOUS
<1> QED
  BY <1>1 DEF WholeLog, Ended, Closed, Headed, Headless

LEMMA DoneIs ==
    ASSUME NEW l, NEW c
    PROVE  \A t : t \in Done(l, c) <=> \E i \in 1..c : l[i].kind \in Ends /\ l[i].tx = t
  BY DEF Done

\* At the end of the log every transaction is done.
LEMMA DoneAll ==
    ASSUME NEW h, NEW l, WholeLog(h, l), Consecutive(l), Len(l) \in Nat
    PROVE  /\ Done(l, Len(l)) = {l[i].tx : i \in 1..Len(l)} \ {NoGTID}
           /\ Boundary(l, Len(l))
<1>1. \A i \in 1..Len(l) : l[i].kind \in Ends => l[i].tx # NoGTID
  BY DEF Consecutive, Ends
<1>2. ASSUME NEW i \in 1..Len(l), l[i].tx # NoGTID
      PROVE  \E j \in 1..Len(l) : l[j].kind \in Ends /\ l[j].tx = l[i].tx
  <2>1. PICK j \in i..Len(l) : l[j].tx = l[i].tx /\ l[j].kind \in Ends
    BY <1>2 DEF WholeLog, Ended
  <2>2. j \in 1..Len(l)
    OBVIOUS
  <2> QED
    BY <2>1, <2>2
<1>3. \A t : t \in Done(l, Len(l)) <=> t \in {l[i].tx : i \in 1..Len(l)} \ {NoGTID}
  <2> TAKE t
  <2>1. t \in Done(l, Len(l)) <=> \E i \in 1..Len(l) : l[i].kind \in Ends /\ l[i].tx = t
    BY DoneIs
  <2>2. t \in {l[i].tx : i \in 1..Len(l)} \ {NoGTID} <=> \E i \in 1..Len(l) : l[i].tx = t /\ t # NoGTID
    OBVIOUS
  <2>3. (\E i \in 1..Len(l) : l[i].kind \in Ends /\ l[i].tx = t)
          => \E i \in 1..Len(l) : l[i].tx = t /\ t # NoGTID
    BY <1>1
  <2>4. (\E i \in 1..Len(l) : l[i].tx = t /\ t # NoGTID)
          => \E i \in 1..Len(l) : l[i].kind \in Ends /\ l[i].tx = t
    BY <1>2
  <2> QED
    BY <2>1, <2>2, <2>3, <2>4
<1>4. Boundary(l, Len(l))
  <2> SUFFICES ASSUME Len(l) # 0, l[Len(l)].tx # NoGTID PROVE l[Len(l)].kind \in Ends
    BY DEF Boundary
  <2>1. Len(l) \in 1..Len(l)
    OBVIOUS
  <2>2. PICK j \in Len(l)..Len(l) : l[j].kind \in Ends
    BY <2>1 DEF WholeLog, Ended
  <2> QED
    BY <2>2
<1> QED
  BY <1>3, <1>4

\* The transaction of an entry that is not an end goes on with the next entry.
LEMMA GoesOn ==
    ASSUME NEW h, NEW l, WholeLog(h, l), Consecutive(l), Len(l) \in Nat,
           NEW k \in 1..Len(l), l[k].tx # NoGTID, l[k].kind \notin Ends
    PROVE  k + 1 \in 1..Len(l) /\ l[k + 1].tx = l[k].tx
<1>1. PICK j \in k..Len(l) : l[j].tx = l[k].tx /\ l[j].kind \in Ends
  BY DEF WholeLog, Ended
<1>2. j # k
  BY <1>1
<1>3. k + 1 \in 1..Len(l) /\ k <= k + 1 /\ k + 1 <= j /\ j \in 1..Len(l)
  BY <1>2
<1> QED
  BY <1>1, <1>3 DEF Consecutive

\* A stream that leaves out what was done after c entries begins between
\* transactions, with exactly those done.
LEMMA SkipDone ==
    ASSUME NEW h, NEW l, WholeLog(h, l), Consecutive(l), Len(l) \in Nat,
           NEW c \in 0..Len(l), NEW k, Skips(l, Done(l, c), k)
    PROVE  Done(l, k) = Done(l, c) /\ Boundary(l, k)
<1> DEFINE X == Done(l, c)
<1>1. /\ k \in 0..Len(l) /\ \A i \in 1..k : l[i].tx \in X \/ l[i].tx = NoGTID
      /\ k = Len(l) \/ (l[k + 1].tx \notin X /\ l[k + 1].tx # NoGTID)
  BY DEF Skips
<1>2. \A t : t \in X <=> \E i \in 1..c : l[i].kind \in Ends /\ l[i].tx = t
  BY DoneIs
<1>3. \A t : t \in Done(l, k) <=> \E i \in 1..k : l[i].kind \in Ends /\ l[i].tx = t
  BY DoneIs
<1> HIDE DEF X
<1>4. \A i \in 1..Len(l) : l[i].kind \in Ends => l[i].tx # NoGTID
  BY DEF Consecutive, Ends
<1>5. \A t : t \in Done(l, k) => t \in X
  <2>1. \A i \in 1..k : i \in 1..Len(l)
    BY <1>1
  <2> QED
    BY <1>1, <1>3, <1>4, <2>1
<1>6. ASSUME NEW t \in X PROVE t \in Done(l, k)
  <2>1. PICK i \in 1..c : l[i].kind \in Ends /\ l[i].tx = t
    BY <1>2
  <2>2. CASE i <= k
    <3>1. i \in 1..k
      BY <1>1, <2>2
    <3> QED
      BY <1>3, <2>1, <3>1
  <2>3. CASE ~(i <= k)
    <3>1. k + 1 \in 1..Len(l) /\ k + 1 <= i /\ i \in 1..Len(l) /\ k # Len(l)
      BY <1>1, <2>3
    <3>2. PICK j \in (k + 1)..Len(l) : l[j].tx = l[k + 1].tx /\ l[j].kind \in Ends
      BY <1>1, <3>1 DEF WholeLog, Ended
    <3>3. j \in 1..Len(l)
      BY <3>1
    <3>4. ~(i <= j)
      BY <1>1, <1>6, <2>1, <3>1, <3>2, <3>3 DEF Consecutive
    <3>5. j \in 1..c
      BY <3>1, <3>3, <3>4
    <3> QED
      BY <1>1, <1>2, <3>1, <3>2, <3>5
  <2> QED
    BY <2>2, <2>3
<1>7. Boundary(l, k)
  <2> SUFFICES ASSUME k # 0, l[k].tx # NoGTID, l[k].kind \notin Ends PROVE FALSE
    BY DEF Boundary
  <2>1. k \in 1..Len(l) /\ k \in 1..k
    BY <1>1
  <2>2. k + 1 \in 1..Len(l) /\ l[k + 1].tx = l[k].tx
    BY <2>1, GoesOn
  <2>3. k # Len(l)
    BY <2>1, <2>2
  <2> QED
    BY <1>1, <2>1, <2>2, <2>3
<1>8. Done(l, k) = X
  BY <1>5, <1>6
<1> QED
  BY <1>7, <1>8 DEF X

LEMMA DoneStep ==
    ASSUME NEW l, NEW k \in Nat
    PROVE  /\ l[k + 1].kind \in Ends => Done(l, k + 1) = Done(l, k) \cup {l[k + 1].tx}
           /\ l[k + 1].kind \notin Ends => Done(l, k + 1) = Done(l, k)
<1>1. \A i : i \in 1..(k + 1) <=> i \in 1..k \/ i = k + 1
  OBVIOUS
<1>2. \A t : t \in Done(l, k + 1) <=> t \in Done(l, k) \/ (l[k + 1].kind \in Ends /\ t = l[k + 1].tx)
  BY <1>1, DoneIs
<1> QED
  BY <1>2

\* What is known of the first entries stays so when the log grows.
LEMMA KeepsMarks ==
    ASSUME NEW l, NEW m, Extends(l, m), NEW k \in 0..Len(l), NEW g, NEW p, p.off \in Nat,
           Marks(g, p, l, k)
    PROVE  Marks(g, p, m, k)
<1>1. Len(l) \in Nat /\ \A i \in 1..Len(l) : m[i] = l[i]
  BY DEF Extends
<1>2. Done(m, k) = Done(l, k)
  BY SamePrefix
<1>3. ASSUME ~g PROVE p.file # 0 /\ p.off <= k /\ Boundary(m, p.off) /\ NoEnds(m, p.off, k)
  <2>1. p.file # 0 /\ p.off <= k /\ Boundary(l, p.off) /\ NoEnds(l, p.off, k)
    BY <1>3 DEF Marks
  <2>2. \A i \in (p.off + 1)..k : i \in 1..Len(l)
    BY <1>1
  <2>3. p.off # 0 => p.off \in 1..Len(l)
    BY <1>1, <2>1
  <2> QED
    BY <1>1, <2>1, <2>2, <2>3 DEF Boundary, NoEnds
<1> QED
  BY <1>2, <1>3 DEF Marks

LEMMA KeepsFirst ==
    ASSUME NEW l, NEW m, Extends(l, m), NEW k \in 1..Len(l)
    PROVE  \A f \in 1..k : First(m, k, f) <=> First(l, k, f)
<1>1. Len(l) \in Nat /\ \A i \in 1..Len(l) : m[i] = l[i]
  BY DEF Extends
<1> TAKE f \in 1..k
<1>2. f \in 1..Len(l) /\ \A j \in 1..(f - 1) : j \in 1..Len(l)
  BY <1>1
<1> QED
  BY <1>1, <1>2 DEF First

LEMMA RowsType ==
    ASSUME NEW l \in Seq(Item)
    PROVE  /\ Rows(l) \in [1..Len(l) -> Nat]
           /\ \A i \in 1..Len(l) : Rows(l)[i] = IF l[i].kind = "rows" THEN l[i].n ELSE 0
<1>1. \A x \in Item : x.n \in Nat
  BY DEF Item, ItemOf
<1> HIDE DEF Item
<1>2. \A i \in 1..Len(l) : l[i].n \in Nat
  BY <1>1
<1> QED
  BY <1>2 DEF Rows

LEMMA KeepsTotals ==
    ASSUME NEW l, NEW m, Extends(l, m), NEW k \in 1..Len(l), NEW f \in 1..k
    PROVE  /\ Total(Rows(m), f, k) = Total(Rows(l), f, k)
           /\ Total(Rows(m), f, k + 1) = Total(Rows(l), f, k + 1)
<1> DEFINE v == Rows(l)
           w == Rows(m)
<1>1. /\ Len(l) \in Nat /\ Len(m) \in Nat /\ Len(l) <= Len(m)
      /\ \A i \in 1..Len(l) : i \in 1..Len(m) /\ m[i] = l[i]
      /\ l \in Seq(Item) /\ m \in Seq(Item)
  BY DEF Extends
<1>2. v \in [1..Len(l) -> Nat] /\ w \in [1..Len(m) -> Nat] /\ \A i \in 1..Len(l) : v[i] = w[i]
  BY <1>1, RowsType
<1> HIDE DEF v, w
<1>3. f \in 1..Len(l) /\ k \in f..Len(l) /\ f \in 1..Len(m) /\ k \in f..Len(m)
  BY <1>1
<1>4. Total(w, f, k) = Total(v, f, k)
  BY <1>1, <1>2, <1>3, TotalAgrees
<1>5. Total(v, f, k + 1) = Total(v, f, k) + v[k]
  BY <1>1, <1>2, <1>3, TotalFacts
<1>6. Total(w, f, k + 1) = Total(w, f, k) + w[k]
  BY <1>1, <1>2, <1>3, TotalFacts
<1> QED
  BY <1>2, <1>4, <1>5, <1>6 DEF v, w

----------------------------------------------------------------------------
(* The server's steps, on whole transactions *)

\* The log grows; the source does not notice.
LEMMA GrowWhole ==
    ASSUME Inv, Whole, Extends(log, log'), WholeLog(HasGTIDs, log'),
           UNCHANGED <<mode, saved, starts, drops, up, stream, txn, schema, last>>
    PROVE  Whole'
<1> DEFINE l == log
           m == log'
<1>1. /\ Len(l) \in Nat /\ Len(m) \in Nat /\ Len(l) <= Len(m) /\ cursor \in 0..Len(l)
      /\ read \in 0..Len(l) /\ \A i \in 1..Len(l) : m[i] = l[i]
  BY DEF Inv, TypeLog, TypeRun, Extends
<1>2. Read'
  <2> SUFFICES ASSUME starts > 0 PROVE Marks(GTID, committed, m, read)
    BY DEF Whole, Read
  <2>1. committed.off \in Nat
    BY DEF Inv, TypeTxn, Positions
  <2>2. Marks(GTID, committed, l, read)
    BY DEF Whole, Read
  <2> QED
    BY <1>1, <2>1, <2>2, KeepsMarks
<1>3. Sent'
  <2> SUFFICES ASSUME last # Nothing PROVE Marks(GTID, last.pos, m, last.read)
    BY DEF Whole, Sent
  <2>1. last.pos.off \in Nat
    BY DEF Inv, TypeLast, Positions
  <2>2. last.read \in 0..Len(l)
    BY DEF Inv, TypeLast
  <2>3. Marks(GTID, last.pos, l, last.read)
    BY DEF Whole, Sent
  <2> QED
    BY <2>1, <2>2, <2>3, KeepsMarks
<1>4. Stored'
  <2>1. ASSUME GTID PROVE \E c \in 0..Len(m) : saved.set = Done(m, c)
    <3>1. PICK c \in 0..Len(l) : saved.set = Done(l, c)
      BY <2>1 DEF Whole, Stored
    <3>2. Done(m, c) = Done(l, c) /\ c \in 0..Len(m)
      BY <1>1, SamePrefix
    <3> QED
      BY <3>1, <3>2
  <2>2. ASSUME ~GTID, saved.file # 0 PROVE Boundary(m, saved.off)
    <3>1. saved.off \in Nat /\ saved.off <= Len(l)
      BY DEF Inv, TypeSaved, Behind, Positions
    <3>2. saved.off # 0 => m[saved.off] = l[saved.off]
      BY <1>1, <3>1
    <3> QED
      BY <2>2, <3>2 DEF Whole, Stored, Boundary
  <2> QED
    BY <2>1, <2>2 DEF Stored
<1>5. Counted'
  <2>1. ASSUME HasGTIDs, starts > 0, ~Boundary(m, cursor) PROVE Counts(m, cursor, pendingGTID, txOrder)
    <3>1. cursor \in 1..Len(l)
      BY <1>1, <2>1 DEF Boundary
    <3>2. m[cursor] = l[cursor]
      BY <1>1, <3>1
    <3>3. Counts(l, cursor, pendingGTID, txOrder)
      BY <2>1, <3>2 DEF Whole, Counted, Boundary
    <3>4. \A f \in 1..cursor : /\ First(m, cursor, f) <=> First(l, cursor, f)
                               /\ Total(Rows(m), f, cursor + 1) = Total(Rows(l), f, cursor + 1)
      BY <3>1, KeepsFirst, KeepsTotals
    <3> QED
      BY <3>2, <3>3, <3>4 DEF Counts
  <2> QED
    BY <2>1 DEF Whole, Counted
<1>6. Named'
  <2> SUFFICES ASSUME last # Nothing PROVE Denotes(HasGTIDs, m, last.entry, last.ids)
    BY DEF Named
  <2> DEFINE k == last.entry
  <2>1. k \in 1..Len(l) /\ Denotes(HasGTIDs, l, k, last.ids)
    BY DEF Inv, TypeLast, Whole, Named
  <2> HIDE DEF k
  <2>2. m[k] = l[k] /\ k \in 0..Len(l)
    BY <1>1, <2>1
  <2>3. Rotations(m, k) = Rotations(l, k)
    BY <2>2, SamePrefix
  <2>4. \A f \in 1..k : /\ First(m, k, f) <=> First(l, k, f)
                        /\ Total(Rows(m), f, k) = Total(Rows(l), f, k)
    BY <2>1, KeepsFirst, KeepsTotals
  <2>5. Denotes(HasGTIDs, m, k, last.ids)
    BY <2>1, <2>2, <2>3, <2>4 DEF Denotes
  <2> QED
    BY <2>5 DEF k
<1>7. WholeLog(HasGTIDs, log)'
  OBVIOUS
<1> QED
  BY <1>2, <1>3, <1>4, <1>5, <1>6, <1>7 DEF Whole

LEMMA ServerCommitsWhole ==
    ASSUME WholeTransactions, Inv, Whole, NEW body \in Bodies, ServerCommits(body) PROVE Whole'
<1>1. PICK n \in Nat : /\ n <= Len(log) /\ Executed = 1..n /\ Appends(log, log', n + 1)
                       /\ log' = log \o Entries(body, n + 1) /\ TypeLog'
  BY ServerCommitsLog
<1> DEFINE e == Entries(body, n + 1)
<1>2. body # <<>> /\ log \in Seq(Item) /\ HasGTIDs \in BOOLEAN /\ Len(log) \in Nat
      /\ body \in Bodies \cup {PreBody}
  BY BodiesAssumption DEF Inv, TypeLog, TypeMode
<1>3. Len(log) + Len(e) <= MaxLog
  <2>1. Cardinality(Executed) + 1 = n + 1
    <3>1. PICK k \in Nat : Executed = 1..k /\ Cardinality(Executed) + 1 = k + 1
      BY <1>2, NextNumber DEF Inv
    <3>2. k = n
      BY <1>1, <3>1
    <3> QED
      BY <3>1, <3>2
  <2> QED
    BY <2>1 DEF ServerCommits
<1>4. Len(log') = Len(log) + Len(e) /\ \A i \in 1..Len(e) : log'[i + Len(log)] = e[i]
  BY <1>1, <1>2, <1>3, EntriesAppends
<1>5. Writes(e, body, n + 1) /\ WholeBody(body)
  BY <1>2, EntriesIs DEF WholeTransactions
<1> HIDE DEF e
<1>6. Block(HasGTIDs, log, log')
  BY <1>2, <1>4, <1>5, BlockIs
<1>7. {log[i].tx : i \in 1..Len(log)} \ {NoGTID} = 1..n
  BY <1>1 DEF Executed
<1>8. WholeLog(HasGTIDs, log')
  BY <1>1, <1>2, <1>6, <1>7, BlockWhole DEF Whole
<1>9. UNCHANGED <<mode, saved, starts, drops, up, stream, txn, schema, last>>
  BY DEF ServerCommits
<1> QED
  BY <1>1, <1>8, <1>9, GrowWhole DEF Appends

LEMMA ServerRotatesWhole == ASSUME Inv, Whole, ServerRotates PROVE Whole'
<1>1. WholeLog(HasGTIDs, log')
  BY ServerRotatesLog, RotateWhole DEF Inv, TypeMode, Whole
<1>2. UNCHANGED <<mode, saved, starts, drops, up, stream, txn, schema, last>>
  BY DEF ServerRotates
<1> QED
  BY <1>1, <1>2, ServerRotatesLog, GrowWhole

LEMMA InitWhole == ASSUME WholeTransactions, Init PROVE Whole
<1>1. /\ saved = ZeroPosition /\ starts = 0 /\ last = Nothing /\ pendingGTID = NoGTID
  BY DEF Init
<1>2. TypeMode /\ TypeLog
  BY InitLog
<1>3. Read /\ Sent /\ Counted /\ Named
  BY <1>1 DEF Read, Sent, Counted, Named
<1>4. Stored
  <2>1. saved.set = {} /\ saved.file = 0
    BY <1>1 DEF ZeroPosition
  <2>2. 0 \in 0..Len(log) /\ Done(log, 0) = {}
    <3>1. Len(log) \in Nat /\ 1..0 = {}
      BY <1>2 DEF TypeLog
    <3> QED
      BY <3>1 DEF Done
  <2> QED
    BY <2>1, <2>2 DEF Stored
<1>5. WholeLog(HasGTIDs, log)
  <2>1. CASE PreBody = <<>>
    <3>1. log = <<>>
      BY <2>1 DEF Init
    <3> QED
      BY <3>1, EmptyWhole
  <2>2. CASE PreBody # <<>>
    <3> DEFINE e == Entries(PreBody, 1)
    <3>1. log = e /\ Appends(<<>>, log, 1) /\ HasGTIDs \in BOOLEAN
      BY <1>2, <2>2, InitLog DEF TypeMode
    <3>2. Writes(e, PreBody, 1) /\ WholeBody(PreBody)
      BY <2>2, <3>1, EntriesIs DEF WholeTransactions
    <3> HIDE DEF e
    <3>3. Len(<<>>) = 0 /\ {<<>>[i].tx : i \in 1..Len(<<>>)} \ {NoGTID} = 1..0 /\ 0 + 1 = 1
      OBVIOUS
    <3>4. Len(e) \in Nat /\ \A i \in 1..Len(e) : i + 0 = i
      BY <3>2 DEF Writes
    <3>5. Block(HasGTIDs, <<>>, log)
      BY <3>1, <3>2, <3>3, <3>4, BlockIs
    <3> QED
      BY <3>1, <3>3, <3>5, EmptyWhole, BlockWhole
  <2> QED
    BY <2>1, <2>2
<1> QED
  BY <1>3, <1>4, <1>5 DEF Whole

----------------------------------------------------------------------------
(* The source's steps, on whole transactions *)

\* A position that may be stored.
Storable(p) == /\ p \in Positions /\ p.off <= Len(log)
               /\ GTID => \E c \in 0..Len(log) : p.set = Done(log, c)
               /\ ~GTID /\ p.file # 0 => Boundary(log, p.off)

\* A start from it begins between two transactions, and resumes there.
LEMMA ResumeIs ==
    ASSUME Inv, Whole, NEW from, Storable(from)
    PROVE  /\ Skipped(resolveStart(from)) \in 0..Len(log)
           /\ Boundary(log, Skipped(resolveStart(from)))
           /\ Marks(GTID, resolveStart(from), log, Skipped(resolveStart(from)))
<1> DEFINE p == resolveStart(from)
           k == Skipped(p)
<1>1. log \in Seq(Item) /\ Len(log) \in Nat /\ Consecutive(log) /\ WholeLog(HasGTIDs, log)
  BY DEF Inv, TypeLog, Whole
<1>2. k \in 0..Len(log)
  BY ResolveType DEF Storable
<1>3. Done(log, Len(log)) = Executed /\ Boundary(log, Len(log))
  BY <1>1, DoneAll DEF Executed
<1>4. CASE GTID
  <2>1. p.set = IF IsZero(from) THEN Executed ELSE from.set
    BY <1>4 DEF resolveStart, masterStatus, ZeroPosition
  <2>2. PICK c \in 0..Len(log) : p.set = Done(log, c)
    <3>1. Len(log) \in 0..Len(log)
      BY <1>1
    <3> QED
      BY <1>3, <1>4, <2>1, <3>1 DEF Storable
  <2>3. k = SkipExecuted(p.set)
    BY <1>4 DEF Skipped
  <2>4. Skips(log, Done(log, c), k)
    BY <1>1, <2>2, <2>3, SkipIs
  <2> HIDE DEF p, k
  <2>5. Done(log, k) = Done(log, c) /\ Boundary(log, k)
    BY <1>1, <2>4, SkipDone
  <2>6. Marks(GTID, p, log, k)
    BY <1>4, <2>2, <2>5 DEF Marks
  <2> QED
    BY <1>2, <2>5, <2>6 DEF p, k
<1>5. CASE ~GTID
  <2>1. /\ from.file # 0 => p.file = from.file /\ p.off = from.off
        /\ from.file = 0 => p.file = FileAt(Len(log)) /\ p.off = Len(log)
    BY <1>5 DEF resolveStart, masterStatus, ZeroPosition
  <2>2. k = p.off
    BY <1>5 DEF Skipped
  <2>3. FileAt(Len(log)) # 0
    BY <1>1, FileAtType
  <2> HIDE DEF p, k
  <2>4. p.file # 0 /\ Boundary(log, p.off)
    BY <1>3, <1>5, <2>1, <2>3 DEF Storable
  <2>5. k \in Nat /\ NoEnds(log, k, k)
    BY <1>2 DEF NoEnds
  <2>6. Marks(GTID, p, log, k)
    BY <1>5, <2>2, <2>4, <2>5 DEF Marks
  <2> QED
    BY <1>2, <2>2, <2>4, <2>6 DEF p, k
<1> QED
  BY <1>4, <1>5

LEMMA StartWhole == ASSUME Inv, Whole, Start PROVE Whole'
<1> DEFINE p == resolveStart(saved)
           k == Skipped(p)
<1>1. /\ cursor' = k /\ read' = k /\ set' = p.set /\ committed' = p
      /\ pendingGTID' = NoGTID /\ last' = Nothing
      /\ UNCHANGED <<GTID, HasGTIDs, log, saved>>
  BY DEF Start
<1>2. Storable(saved)
  BY DEF Inv, TypeSaved, Behind, Whole, Stored, Storable
<1>3. Boundary(log, k) /\ Marks(GTID, p, log, k) /\ k \in 0..Len(log)
  BY <1>2, ResumeIs
<1> HIDE DEF p, k
<1>4. Read'
  <2>1. k <= k
    BY <1>3
  <2> QED
    BY <1>1, <1>3, <2>1 DEF Read, Furthest
<1>5. Counted'
  BY <1>1, <1>3 DEF Counted
<1>6. Sent' /\ Named'
  BY <1>1 DEF Sent, Named
<1>7. Stored' /\ WholeLog(HasGTIDs, log)'
  BY <1>1 DEF Whole, Stored
<1> QED
  BY <1>4, <1>5, <1>6, <1>7 DEF Whole

LEMMA StopsWhole == ASSUME Whole, Stops PROVE Whole'
<1>1. UNCHANGED <<GTID, HasGTIDs, log, saved, starts, cursor, read, set, pendingGTID,
                  committed, txOrder, last>>
  BY DEF Stops
<1> QED
  BY <1>1 DEF Whole, Read, Sent, Stored, Counted, Named

\* The position of a sent event may be stored.
LEMMA SentStorable == ASSUME Inv, Whole, last # Nothing PROVE Storable(last.pos)
<1>1. Marks(GTID, last.pos, log, last.read)
  BY DEF Whole, Sent
<1>2. last.read \in 0..Len(log)
  BY DEF Inv, TypeLast
<1>3. last.pos \in Positions /\ last.pos.off <= Len(log)
  BY DEF Inv, TypeLast, Behind
<1> QED
  BY <1>1, <1>2, <1>3 DEF Marks, Storable

LEMMA SavesWhole == ASSUME Inv, Whole, Saves PROVE Whole'
<1>1. /\ last # Nothing /\ saved' = last.pos
      /\ UNCHANGED <<GTID, HasGTIDs, log, starts, cursor, read, set, pendingGTID,
                     committed, txOrder, last>>
  BY DEF Saves
<1>2. Stored'
  BY <1>1, SentStorable DEF Storable, Stored
<1> QED
  BY <1>1, <1>2 DEF Whole, Read, Sent, Counted, Named

\* The stream goes back to where a transaction begins; what was done stays done.
LEMMA ReconnectsWhole == ASSUME Inv, Whole, Reconnects PROVE Whole'
<1> DEFINE f == heard
           k == heard - 1
<1>1. /\ GTID /\ f \in 1..Len(log) /\ log[f].kind = "gtid" /\ cursor' = k /\ k <= cursor
      /\ UNCHANGED <<GTID, HasGTIDs, log, saved, starts, up, heard, read, set, pendingGTID,
                     committed, txOrder, seq, schema, last>>
  BY ReconnectsIs
<1>2. Len(log) \in Nat /\ Consecutive(log) /\ WholeLog(HasGTIDs, log) /\ HasGTIDs
  BY <1>1 DEF Inv, TypeMode, TypeLog, Whole
<1>3. Boundary(log, k)
  <2> SUFFICES ASSUME k # 0, log[k].tx # NoGTID, log[k].kind \notin Ends PROVE FALSE
    BY DEF Boundary
  <2>1. k \in 1..Len(log) /\ k \in 1..(f - 1) /\ k + 1 = f
    BY <1>1, <1>2
  <2>2. log[f].tx = log[k].tx
    BY <1>2, <2>1, GoesOn
  <2> QED
    BY <1>1, <1>2, <2>1, <2>2 DEF WholeLog, Headed
<1>4. Read'
  <2>1. cursor \in Nat /\ read \in Nat /\ k \in Nat
    BY <1>1, <1>2 DEF Inv, TypeRun
  <2>2. starts > 0 => k <= read
    <3>1. starts > 0 => cursor <= read
      BY DEF Whole, Read, Furthest
    <3> QED
      BY <1>1, <2>1, <3>1
  <2> HIDE DEF k
  <2> QED
    BY <1>1, <2>2 DEF Whole, Read, Furthest
<1>5. Counted'
  BY <1>1, <1>3 DEF Whole, Counted
<1> QED
  BY <1>1, <1>4, <1>5 DEF Whole, Sent, Stored, Named

\* A handler that sends nothing.
LEMMA QuietWhole ==
    ASSUME Inv, Whole, NEW K, Reads(K), last' = last, Read', Counted'
    PROVE  Whole'
<1>1. UNCHANGED <<GTID, HasGTIDs, log, saved>>
  BY ReadsFacts
<1> QED
  BY <1>1 DEF Whole, Sent, Stored, Named

\* The entry that is read is behind the furthest one, or is the furthest then.
LEMMA ReadsFurther ==
    ASSUME Inv, Whole, NEW K, Reads(K)
    PROVE  /\ read \in Nat /\ Furthest(GTID, read', cursor + 1)
           /\ \/ GTID /\ read' = read /\ cursor + 1 <= read
              \/ read = cursor /\ read' = cursor + 1
<1>1. cursor \in Nat /\ starts > 0 /\ read' = IF cursor < read THEN read ELSE cursor + 1
  BY ReadsFacts
<1>2. read \in Nat
  BY DEF Inv, TypeRun
<1>3. cursor <= read /\ (~GTID => cursor = read)
  BY <1>1 DEF Whole, Read, Furthest
<1>4. CASE cursor < read
  <2>1. cursor + 1 <= read /\ GTID /\ read' = read
    BY <1>1, <1>2, <1>3, <1>4
  <2> QED
    BY <1>2, <2>1 DEF Furthest
<1>5. CASE ~(cursor < read)
  <2>1. read = cursor /\ read' = cursor + 1 /\ cursor + 1 <= cursor + 1
    BY <1>1, <1>2, <1>3, <1>5
  <2> QED
    BY <1>2, <2>1 DEF Furthest
<1> QED
  BY <1>4, <1>5

\* An entry that ends nothing leaves the resume position alone.
LEMMA ReadsOn ==
    ASSUME Inv, Whole, NEW K, Reads(K), UNCHANGED <<set, committed>>,
           log[cursor + 1].kind \notin Ends
    PROVE  Read'
<1> DEFINE c == cursor
<1>1. c \in Nat /\ cursor' = c + 1 /\ starts > 0 /\ UNCHANGED <<GTID, log, starts>>
  BY ReadsFacts
<1>2. Marks(GTID, committed, log, read) /\ (GTID => committed.set = set)
  BY <1>1 DEF Whole, Read
<1>3. Furthest(GTID, read', c + 1)
  BY ReadsFurther
<1>4. SUFFICES Marks(GTID, committed, log, read')
  BY <1>1, <1>2, <1>3 DEF Read
<1>5. CASE read' = read
  BY <1>2, <1>5
<1>6. CASE read = c /\ read' = c + 1
  <2>1. Done(log, c + 1) = Done(log, c)
    BY <1>1, DoneStep
  <2>2. committed.off \in Nat
    BY DEF Inv, TypeTxn, Positions
  <2> HIDE DEF c
  <2>3. ASSUME ~GTID PROVE committed.off <= c + 1 /\ NoEnds(log, committed.off, c + 1)
    <3>1. committed.off <= c /\ NoEnds(log, committed.off, c)
      BY <1>2, <1>6, <2>3 DEF Marks
    <3>2. \A i \in (committed.off + 1)..(c + 1) : i \in (committed.off + 1)..c \/ i = c + 1
      BY <1>1, <2>2
    <3> QED
      BY <1>1, <2>2, <3>1, <3>2 DEF NoEnds, c
  <2> QED
    BY <1>2, <1>6, <2>1, <2>3 DEF Marks
<1> QED
  BY <1>5, <1>6, ReadsFurther

\* With GTID events, the source is inside the transaction of the entry it reads.
LEMMA OpenStep ==
    ASSUME Inv, Whole, NEW K, Reads(K), HasGTIDs, log[cursor + 1].kind \notin {"gtid", "rotate"}
    PROVE  /\ pendingGTID = log[cursor + 1].tx /\ pendingGTID # NoGTID
           /\ \A f \in 1..(cursor + 1) : First(log, cursor + 1, f) =>
                f \in 1..cursor /\ txOrder = Total(Rows(log), f, cursor + 1)
<1> DEFINE c == cursor
           k == c + 1
<1>0. c \in Nat /\ k \in 1..Len(log) /\ starts > 0
  BY ReadsFacts
<1>1. c \in Nat /\ k \in 1..Len(log) /\ k \in Nat /\ starts > 0 /\ k - 1 = c
  <2>1. k \in Nat /\ k - 1 = c
    BY <1>0
  <2> QED
    BY <1>0, <2>1
<1>2. Len(log) \in Nat /\ Consecutive(log) /\ WholeLog(HasGTIDs, log)
  BY DEF Inv, TypeLog, Whole
<1>3. log[k].tx # NoGTID
  BY <1>1, <1>2 DEF Consecutive
<1>4. k > 1 /\ log[c].tx = log[k].tx
  BY <1>1, <1>2, <1>3 DEF WholeLog, Headed
<1>5. c \in 1..Len(log) /\ c < k /\ c \in 1..(k - 1)
  BY <1>1, <1>2, <1>4
<1>6. log[c].kind \notin Ends
  BY <1>1, <1>2, <1>4, <1>5 DEF WholeLog, Closed
<1>7. ~Boundary(log, c)
  BY <1>3, <1>4, <1>5, <1>6 DEF Boundary
<1>8. Counts(log, c, pendingGTID, txOrder)
  BY <1>1, <1>7 DEF Whole, Counted
<1>9. pendingGTID = log[k].tx
  BY <1>4, <1>8 DEF Counts
<1>10. ASSUME NEW f \in 1..k, First(log, k, f)
       PROVE  f \in 1..c /\ txOrder = Total(Rows(log), f, k)
  <2>1. f # k
    BY <1>4, <1>5, <1>10 DEF First
  <2>2. f \in 1..c
    BY <1>1, <2>1
  <2>3. First(log, c, f)
    BY <1>4, <1>10, <2>2 DEF First
  <2> QED
    BY <1>8, <2>2, <2>3 DEF Counts
<1> QED
  BY <1>3, <1>9, <1>10

\* The rows of an entry inside the transaction are counted.
LEMMA CountsOn ==
    ASSUME Inv, Whole, NEW K, Reads(K), HasGTIDs, log[cursor + 1].kind \notin {"gtid", "rotate"},
           pendingGTID' = pendingGTID, txOrder' = txOrder + Rows(log)[cursor + 1]
    PROVE  Counted'
<1> DEFINE c == cursor
           k == c + 1
<1>1. c \in Nat /\ k \in 1..Len(log) /\ cursor' = k /\ UNCHANGED <<HasGTIDs, log, starts>>
  BY ReadsFacts
<1>2. /\ pendingGTID = log[k].tx
      /\ \A f \in 1..k : First(log, k, f) => f \in 1..c /\ txOrder = Total(Rows(log), f, k)
  BY OpenStep
<1>3. log \in Seq(Item) /\ Len(log) \in Nat
  BY DEF Inv, TypeLog
<1> HIDE DEF k
<1>4. ASSUME NEW f \in 1..k, First(log, k, f) PROVE txOrder' = Total(Rows(log), f, k + 1)
  <2> DEFINE w == Rows(log)
  <2>1. w \in [1..Len(log) -> Nat]
    BY <1>3, RowsType
  <2>2. f \in 1..Len(log) /\ k \in f..Len(log)
    BY <1>1, <1>3
  <2> HIDE DEF w
  <2>3. Total(w, f, k + 1) = Total(w, f, k) + w[k]
    BY <1>3, <2>1, <2>2, TotalFacts
  <2> QED
    BY <1>2, <1>4, <2>3 DEF w, k
<1>5. Counts(log, k, pendingGTID', txOrder')
  BY <1>2, <1>4 DEF Counts
<1> QED
  BY <1>1, <1>5 DEF Counted

\* Without GTID events none is pending.
LEMMA NoGTIDs ==
    ASSUME Inv, Whole, NEW K, Reads(K), ~HasGTIDs, pendingGTID' = pendingGTID
    PROVE  Counted'
<1>1. UNCHANGED HasGTIDs
  BY ReadsFacts
<1> QED
  BY <1>1 DEF Whole, Counted

LEMMA HandleRotateWhole == ASSUME Inv, Whole, HandleRotate PROVE Whole'
<1>1. /\ Reads({"rotate"}) /\ UNCHANGED <<set, pendingGTID, committed, txOrder, last>>
  BY DEF HandleRotate
<1>2. /\ cursor + 1 \in 1..Len(log) /\ cursor' = cursor + 1 /\ log[cursor + 1].kind = "rotate"
      /\ UNCHANGED <<GTID, HasGTIDs, log>>
  BY <1>1, ReadsFacts
<1>3. Read'
  BY <1>1, <1>2, ReadsOn DEF Ends
<1>4. Boundary(log, cursor + 1)
  BY <1>2 DEF Inv, Consecutive, Boundary
<1>5. Counted'
  BY <1>1, <1>2, <1>4 DEF Whole, Counted
<1> QED
  BY <1>1, <1>3, <1>5, QuietWhole

LEMMA HandleGTIDWhole == ASSUME Inv, Whole, HandleGTID PROVE Whole'
<1> DEFINE k == cursor + 1
<1>1. /\ Reads({"gtid"}) /\ pendingGTID' = log[k].tx /\ txOrder' = 0
      /\ UNCHANGED <<set, committed, last>>
  BY DEF HandleGTID
<1>2. /\ k \in 1..Len(log) /\ cursor' = k /\ log[k].kind = "gtid"
      /\ UNCHANGED <<GTID, HasGTIDs, log>>
  BY <1>1, ReadsFacts
<1>3. Read'
  BY <1>1, <1>2, ReadsOn DEF Ends
<1>4. /\ log \in Seq(Item) /\ Len(log) \in Nat /\ HasGTIDs \in BOOLEAN
      /\ WholeLog(HasGTIDs, log)
  BY DEF Inv, TypeLog, TypeMode, Whole
<1>5. HasGTIDs /\ \A j \in 1..(k - 1) : log[j].tx # log[k].tx
  BY <1>2, <1>4 DEF WholeLog, Headed, Headless
<1> HIDE DEF k
<1>6. ASSUME NEW f \in 1..k, First(log, k, f) PROVE Total(Rows(log), f, k + 1) = 0
  <2>1. f = k
    <3>1. f # k => f \in 1..(k - 1)
      BY <1>2
    <3> QED
      BY <1>5, <1>6, <3>1 DEF First
  <2> DEFINE w == Rows(log)
  <2>2. w \in [1..Len(log) -> Nat] /\ w[k] = 0
    BY <1>2, <1>4, RowsType
  <2>3. k \in k..Len(log)
    BY <1>2, <1>4
  <2> HIDE DEF w
  <2>4. Total(w, k, k) = 0 /\ Total(w, k, k + 1) = Total(w, k, k) + w[k]
    BY <1>2, <1>4, <2>2, <2>3, TotalFacts
  <2> QED
    BY <2>1, <2>2, <2>4 DEF w
<1>7. Counts(log, k, log[k].tx, 0)
  BY <1>6 DEF Counts
<1>8. Counted'
  BY <1>1, <1>2, <1>5, <1>7 DEF Counted
<1> QED
  BY <1>1, <1>3, <1>8, QuietWhole

\* An entry that ends the transaction: it is done, and the position is behind it.
LEMMA CommitWhole ==
    ASSUME Inv, Whole, NEW K, Reads(K), commit, log[cursor + 1].kind \in Ends, last' = last,
           txOrder' = txOrder
    PROVE  Whole'
<1> DEFINE c == cursor
           k == c + 1
<1>1. /\ c \in Nat /\ k \in 1..Len(log) /\ cursor' = k /\ starts > 0
      /\ UNCHANGED <<GTID, HasGTIDs, log, starts>>
  BY ReadsFacts
<1>2. log[k].kind \notin {"gtid", "rotate"}
  BY DEF Ends
<1>3. committed' = [set |-> set', file |-> currentFile, off |-> k]
  BY DEF commit
<1>4. Boundary(log, k)
  BY DEF Boundary
<1>f. /\ read \in Nat /\ Furthest(GTID, read', k)
      /\ \/ GTID /\ read' = read /\ k <= read
         \/ read = c /\ read' = k
  BY ReadsFurther
<1>5. ASSUME GTID PROVE set' = Done(log, read')
  <2>1. HasGTIDs
    BY <1>5 DEF Inv, TypeMode
  <2>2. pendingGTID = log[k].tx /\ pendingGTID # NoGTID
    BY <1>2, <2>1, OpenStep
  <2>3. set' = set \cup {pendingGTID}
    BY <1>5, <2>2 DEF commit
  <2>4. set = Done(log, read)
    BY <1>1, <1>5 DEF Whole, Read, Marks
  <2>5. Done(log, k) = Done(log, c) \cup {log[k].tx}
    BY <1>1, DoneStep
  <2>6. CASE read = c /\ read' = k
    BY <2>2, <2>3, <2>4, <2>5, <2>6
  <2>7. CASE read' = read /\ k <= read
    <3>1. k \in 1..read
      BY <1>1, <1>f, <2>7
    <3>2. log[k].tx \in Done(log, read)
      BY <3>1, DoneIs
    <3> QED
      BY <2>2, <2>3, <2>4, <2>7, <3>2
  <2> QED
    BY <1>f, <2>6, <2>7
<1>6. currentFile # 0
  <2>1. currentFile = FileAt(c)
    BY <1>1 DEF Inv, Filed
  <2>2. FileAt(c) # 0
    BY <1>1, FileAtType
  <2> QED
    BY <2>1, <2>2
<1>7. k \in Nat /\ NoEnds(log, k, k)
  BY <1>1 DEF NoEnds
<1> HIDE DEF k
<1>8. Marks(GTID, committed', log, read')
  <2>1. ASSUME ~GTID PROVE read' = k /\ k <= k
    BY <1>7, <1>f, <2>1
  <2> QED
    BY <1>3, <1>4, <1>5, <1>6, <1>7, <2>1 DEF Marks
<1>9. Read'
  BY <1>1, <1>3, <1>8, <1>f DEF Read
<1>10. ~HasGTIDs => pendingGTID' = NoGTID
  BY DEF Whole, Counted, commit
<1>11. Counted'
  BY <1>1, <1>4, <1>10 DEF Counted
<1> QED
  BY <1>9, <1>11, QuietWhole

LEMMA HandleXIDWhole == ASSUME Inv, Whole, HandleXID PROVE Whole'
<1>1. Reads({"xid"}) /\ commit /\ UNCHANGED <<txOrder, last>>
  BY DEF HandleXID
<1>2. log[cursor + 1].kind \in Ends
  BY <1>1, ReadsFacts DEF Ends
<1> QED
  BY <1>1, <1>2, CommitWhole

LEMMA HandleQueryWhole == ASSUME Inv, Whole, HandleQuery PROVE Whole'
<1>1. Reads({"begin", "query", "ddl"}) /\ UNCHANGED <<txOrder, last>>
  BY DEF HandleQuery
<1>2. log[cursor + 1].kind \in {"begin", "query", "ddl"} /\ cursor + 1 \in 1..Len(log)
  BY <1>1, ReadsFacts
<1>3. CASE log[cursor + 1].kind = "begin"
  <2>1. UNCHANGED <<set, pendingGTID, committed>>
    BY <1>3 DEF HandleQuery
  <2>2. Read'
    BY <1>1, <1>3, <2>1, ReadsOn DEF Ends
  <2>3. txOrder' = txOrder + Rows(log)[cursor + 1]
    <3>1. log \in Seq(Item) /\ txOrder \in Nat
      BY DEF Inv, TypeLog, TypeTxn
    <3>2. Rows(log)[cursor + 1] = 0
      BY <1>2, <1>3, <3>1, RowsType
    <3> QED
      BY <1>1, <3>1, <3>2
  <2>4. Counted'
    BY <1>1, <1>3, <2>1, <2>3, CountsOn, NoGTIDs DEF Inv, TypeMode
  <2> QED
    BY <1>1, <2>2, <2>4, QuietWhole
<1>4. CASE log[cursor + 1].kind # "begin"
  <2>1. commit /\ log[cursor + 1].kind \in Ends
    BY <1>2, <1>4 DEF HandleQuery, Ends
  <2> QED
    BY <1>1, <2>1, CommitWhole
<1> QED
  BY <1>3, <1>4

\* Both ways rows are handled count them.
LEMMA RowsCounted ==
    ASSUME Inv, Whole, Reads({"rows"}), UNCHANGED <<set, pendingGTID, committed>>,
           txOrder' = txOrder + log[cursor + 1].n
    PROVE  Read' /\ Counted'
<1>1. log[cursor + 1].kind = "rows" /\ cursor + 1 \in 1..Len(log)
  BY ReadsFacts
<1>2. Read'
  BY <1>1, ReadsOn DEF Ends
<1>3. log \in Seq(Item)
  BY DEF Inv, TypeLog
<1>4. Rows(log)[cursor + 1] = log[cursor + 1].n
  BY <1>1, <1>3, RowsType
<1>5. Counted'
  BY <1>1, <1>4, CountsOn, NoGTIDs DEF Inv, TypeMode
<1> QED
  BY <1>2, <1>5

LEMMA HandleFilteredWhole == ASSUME Inv, Whole, HandleFiltered PROVE Whole'
<1>1. Reads({"rows"}) /\ UNCHANGED <<set, pendingGTID, committed, last>>
      /\ txOrder' = txOrder + log[cursor + 1].n
  BY DEF HandleFiltered
<1> QED
  BY <1>1, RowsCounted, QuietWhole

\* A batch is sent: its position is where its transaction begins, its IDs are
\* those of its rows.
LEMMA HandleRowsWhole == ASSUME Inv, Whole, HandleRows PROVE Whole'
<1> DEFINE c == cursor
           k == c + 1
<1>1. /\ Reads({"rows"})
      /\ last'.entry = k /\ last'.read = read /\ last'.pos = committed
      /\ last'.ids = [i \in 1..log[k].n |-> EventID(i)]
      /\ txOrder' = txOrder + log[k].n
      /\ UNCHANGED <<set, pendingGTID, committed, currentFile>>
  BY HandleRowsIs
<1>2. /\ c \in Nat /\ k \in 1..Len(log) /\ k - 1 = c /\ log[k].kind = "rows" /\ starts > 0
      /\ UNCHANGED <<GTID, HasGTIDs, log, saved>>
  BY <1>1, ReadsFacts
<1>3. Read' /\ Counted'
  BY <1>1, RowsCounted
<1>4. Sent'
  <2>1. Marks(GTID, committed, log, read) /\ Furthest(GTID, read, c)
    BY <1>2 DEF Whole, Read
  <2> QED
    BY <1>1, <1>2, <2>1 DEF Sent
<1>5. ASSUME NEW i \in 1..log[k].n, HasGTIDs, NEW f \in 1..k, First(log, k, f)
      PROVE  last'.ids[i] = <<"gtid", log[k].tx, Total(Rows(log), f, k) + i>>
  <2>1. pendingGTID = log[k].tx /\ pendingGTID # NoGTID /\ txOrder = Total(Rows(log), f, k)
    BY <1>1, <1>2, <1>5, OpenStep
  <2>2. last'.ids[i] = EventID(i)
    BY <1>1
  <2> QED
    BY <2>1, <2>2 DEF EventID
<1>6. ASSUME NEW i \in 1..log[k].n, ~HasGTIDs
      PROVE  last'.ids[i] = <<"pos", 1 + Cardinality(Rotations(log, k)), k, i>>
  <2>1. last'.ids[i] = EventID(i) /\ pendingGTID = NoGTID
    BY <1>1, <1>6 DEF Whole, Counted
  <2>2. currentFile = 1 + Cardinality(Rotations(log, c))
    BY <1>2, FileAtIs DEF Inv, Filed
  <2>3. Rotations(log, k) = Rotations(log, c)
    BY <1>2, RotationsStep
  <2> QED
    BY <2>1, <2>2, <2>3 DEF EventID
<1>7. Denotes(HasGTIDs, log, k, last'.ids)
  BY <1>5, <1>6 DEF Denotes
<1>8. Named'
  BY <1>1, <1>2, <1>7 DEF Named
<1> QED
  BY <1>2, <1>3, <1>4, <1>8 DEF Whole, Stored

LEMMA StepWhole == ASSUME WholeTransactions PROVE Inv /\ Whole /\ [Next]_vars => Whole'
<1> SUFFICES ASSUME Inv, Whole, [Next]_vars PROVE Whole'
  OBVIOUS
<1>1. CASE UNCHANGED vars
  BY <1>1 DEF vars, Whole, Read, Sent, Stored, Counted, Named
<1>2. CASE Next
  BY <1>2, ServerCommitsWhole, ServerRotatesWhole, StartWhole, StopsWhole, SavesWhole,
     ReconnectsWhole, HandleRotateWhole, HandleGTIDWhole, HandleXIDWhole, HandleQueryWhole,
     HandleFilteredWhole, HandleRowsWhole DEF Next
<1> QED
  BY <1>1, <1>2

LEMMA SourceWhole == ASSUME WholeTransactions PROVE Spec => [](Inv /\ Whole)
<1>1. Init => Inv /\ Whole
  BY InitInv, InitWhole
<1>2. Inv /\ Whole /\ [Next]_vars => Inv' /\ Whole'
  BY StepInv, StepWhole
<1> QED
  BY <1>1, <1>2, PTL DEF Spec

\* A restart from the position of a sent event reads no transaction before the
\* event's own again: where transactions are whole, whatever the server wrote,
\* and by GTID set as by file and offset (source.go:241-244).
THEOREM ResumesReplayOnlyOwnTxn ==
    ASSUME WholeTransactions PROVE Spec => []ResumeReplaysOnlyOwnTxn
<1>1. Inv /\ Whole => ResumeReplaysOnlyOwnTxn
  <2> SUFFICES ASSUME Inv, Whole, last # Nothing,
                      NEW k \in (Skipped(resolveStart(last.pos)) + 1)..(last.entry - 1),
                      log[k].kind \in {"rows", "xid"}
               PROVE  log[k].tx = log[last.entry].tx
    BY DEF ResumeReplaysOnlyOwnTxn
  <2> DEFINE s == Skipped(resolveStart(last.pos))
             e == last.entry
             p == resolveStart(last.pos)
             r == last.read
  <2>1. s \in 0..Len(log) /\ Marks(GTID, p, log, s)
    BY SentStorable, ResumeIs
  <2>2. /\ Marks(GTID, last.pos, log, r) /\ e - 1 <= r /\ (~GTID => r = e - 1)
        /\ e \in 1..Len(log) /\ r \in 0..Len(log)
    BY DEF Whole, Sent, Furthest, Inv, TypeLast
  <2>3. /\ Len(log) \in Nat /\ Consecutive(log) /\ WholeLog(HasGTIDs, log)
    BY DEF Inv, TypeLog, Whole
  <2>4. k \in 1..Len(log) /\ s < k /\ k < e /\ k \in Nat /\ e \in Nat
    BY <2>1, <2>2, <2>3
  <2>5. log[k].tx # NoGTID
    BY <2>3, <2>4 DEF Consecutive
  <2>6. PICK j \in k..Len(log) : log[j].tx = log[k].tx /\ log[j].kind \in Ends
    BY <2>3, <2>4, <2>5 DEF WholeLog, Ended
  <2>7. j \in 1..Len(log)
    BY <2>4
  <2>8. e <= j
    <3> SUFFICES ASSUME ~(e <= j) PROVE FALSE
      OBVIOUS
    <3>1. j \in 1..(e - 1) /\ s < j /\ j \in 1..r
      BY <2>1, <2>2, <2>3, <2>4, <2>7
    <3>2. CASE GTID
      <4>1. log[j].tx \in p.set
        <5>1. last.pos.set = Done(log, r)
          BY <2>2, <3>2 DEF Marks
        <5>2. log[j].tx \in last.pos.set
          BY <2>6, <3>1, <5>1, DoneIs
        <5>3. log[j].tx \in Executed
          BY <2>5, <2>6, <2>7 DEF Executed
        <5>4. p.set \in {last.pos.set, Executed}
          BY <3>2 DEF resolveStart, masterStatus, ZeroPosition
        <5> QED
          BY <5>2, <5>3, <5>4
      <4>2. log[j].tx \in Done(log, s)
        BY <2>1, <3>2, <4>1 DEF Marks
      <4>3. PICK i \in 1..s : log[i].kind \in Ends /\ log[i].tx = log[j].tx
        BY <4>2, DoneIs
      <4>4. i \in 1..Len(log) /\ i < j
        BY <2>1, <2>3, <3>1
      <4> QED
        BY <2>3, <2>7, <4>3, <4>4 DEF WholeLog, Closed
    <3>3. CASE ~GTID
      <4>1. last.pos.file # 0 /\ NoEnds(log, last.pos.off, e - 1)
        BY <2>2, <3>3 DEF Marks
      <4>2. s = last.pos.off
        BY <3>3, <4>1 DEF Skipped, resolveStart, ZeroPosition
      <4>3. j \in (s + 1)..(e - 1)
        BY <2>1, <3>1
      <4> QED
        BY <2>6, <4>1, <4>2, <4>3 DEF NoEnds
    <3> QED
      BY <3>2, <3>3
  <2>9. k <= e
    BY <2>4
  <2> QED
    BY <2>2, <2>3, <2>4, <2>5, <2>6, <2>7, <2>8, <2>9 DEF Consecutive
<1> QED
  BY <1>1, SourceWhole, PTL

\* The ID of a row is the same in every run, after a reconnect inside its
\* transaction, and whatever tables the filter excludes (README.md:131-134).
THEOREM IDsStable == ASSUME WholeTransactions PROVE Spec => []IDsAreStable
<1>1. Inv /\ Whole => IDsAreStable
  <2> SUFFICES ASSUME Inv, Whole, last # Nothing, NEW i \in 1..log[last.entry].n
               PROVE  last.ids[i] = ExpectedID(last.entry, i)
    BY DEF IDsAreStable
  <2> DEFINE k == last.entry
  <2>1. k \in 1..Len(log) /\ log \in Seq(Item) /\ HasGTIDs \in BOOLEAN
        /\ Denotes(HasGTIDs, log, k, last.ids)
    BY DEF Inv, TypeLast, TypeLog, TypeMode, Whole, Named
  <2>2. First(log, k, TxnStart(k))
    BY <2>1, TxnStartIs
  <2>3. TxnStart(k) \in 1..k
    BY <2>2 DEF First
  <2>4. RowsBefore(k) = Total(Rows(log), TxnStart(k), k)
    BY DEF RowsBefore, RowCounts, Rows
  <2>5. FileAt(k) = 1 + Cardinality(Rotations(log, k))
    BY FileAtIs
  <2> QED
    BY <2>1, <2>2, <2>3, <2>4, <2>5 DEF Denotes, ExpectedID
<1> QED
  BY <1>1, SourceWhole, PTL

----------------------------------------------------------------------------
(* A server that had executed something before the first start *)

LEMMA InitBegun == ASSUME PreBody # <<>>, Init PROVE Begun
<1>1. /\ saved = ZeroPosition /\ starts = 0 /\ last = Nothing
  BY DEF Init
<1>2. Appends(<<>>, log, 1) /\ Len(log) >= 1 /\ Len(log) \in Nat
  BY InitLog DEF TypeLog
<1>3. 1 \in 1..Len(log) /\ 1 \in (Len(<<>>) + 1)..Len(log)
  BY <1>2
<1>4. log[1].tx # NoGTID
  BY <1>2, <1>3 DEF Appends, NoGTID
<1> QED
  BY <1>1, <1>3, <1>4 DEF Begun

LEMMA StepBegun == Inv /\ Whole /\ Begun /\ [Next]_vars => Begun'
<1> SUFFICES ASSUME Inv, Whole, Begun, [Next]_vars PROVE Begun'
  OBVIOUS
<1>1. ASSUME log' = log PROVE \E i \in 1..Len(log') : log'[i].tx # NoGTID
  BY <1>1 DEF Begun
<1>2. CASE \/ \E body \in Bodies : ServerCommits(body)
           \/ ServerRotates
  <2>1. Extends(log, log')
    BY <1>2, ServerCommitsLog, ServerRotatesLog DEF Appends
  <2>2. PICK i \in 1..Len(log) : log[i].tx # NoGTID
    BY DEF Begun
  <2>3. i \in 1..Len(log') /\ log'[i] = log[i]
    BY <2>1 DEF Extends
  <2>4. UNCHANGED <<mode, saved, starts, drops, up, stream, txn, schema, last>>
    BY <1>2 DEF ServerCommits, ServerRotates
  <2> QED
    BY <2>2, <2>3, <2>4 DEF Begun
<1>3. CASE Start
  <2> DEFINE p == resolveStart(saved)
  <2>1. set' = p.set /\ last' = Nothing /\ UNCHANGED <<GTID, log, saved>>
    BY <1>3 DEF Start
  <2>2. Executed # {}
    BY DEF Begun, Executed
  <2>3. ASSUME GTID PROVE p.set # {}
    <3>1. p.set = IF IsZero(saved) THEN Executed ELSE saved.set
      BY <2>3 DEF resolveStart, masterStatus, ZeroPosition
    <3> QED
      BY <2>2, <2>3, <3>1 DEF Begun, IsZero
  <2> HIDE DEF p
  <2> QED
    BY <1>1, <2>1, <2>3 DEF Begun
<1>4. CASE Saves
  BY <1>1, <1>4 DEF Saves, Begun
<1>5. CASE Stops \/ Reconnects
  BY <1>1, <1>5 DEF Stops, Reconnects, Begun
<1>6. CASE HandleRotate \/ HandleGTID \/ HandleFiltered
  BY <1>1, <1>6 DEF HandleRotate, HandleGTID, HandleFiltered, Reads, Begun
<1>7. CASE HandleXID \/ HandleQuery
  <2>1. \E K : Reads(K)
    BY <1>7 DEF HandleXID, HandleQuery
  <2>2. UNCHANGED <<GTID, log, saved, starts>>
    BY <2>1 DEF Reads
  <2>3. last' = last /\ set \subseteq set'
    BY <1>7 DEF HandleXID, HandleQuery, commit
  <2> QED
    BY <1>1, <2>2, <2>3 DEF Begun
<1>8. CASE HandleRows
  <2>1. Reads({"rows"}) /\ last'.pos = committed /\ set' = set
    BY <1>8, HandleRowsIs
  <2>2. starts > 0 /\ UNCHANGED <<GTID, log, saved, starts>>
    BY <2>1, ReadsFacts
  <2>3. GTID => committed.set = set
    BY <2>2 DEF Whole, Read
  <2> QED
    BY <1>1, <2>1, <2>2, <2>3 DEF Begun
<1>9. CASE UNCHANGED vars
  BY <1>1, <1>9 DEF vars, Begun
<1> QED
  BY <1>2, <1>3, <1>4, <1>5, <1>6, <1>7, <1>8, <1>9 DEF Next

\* A restart from the position of any sent event reads again all rows the run
\* had not read before it, the event's own included: where transactions are
\* whole, and the server had executed one before the first start
\* (source.go:241-244).  Without one the position of the first events is the
\* zero Position, which resolveStart takes for none.
THEOREM ResumesNeverSkip ==
    ASSUME WholeTransactions, PreBody # <<>> PROVE Spec => []ResumeNeverSkips
<1>1. Inv /\ Whole /\ Begun => ResumeNeverSkips
  <2> DEFINE s == Skipped(resolveStart(last.pos))
             p == resolveStart(last.pos)
             r == last.read
  <2> SUFFICES ASSUME Inv, Whole, Begun, last # Nothing, NEW k \in (r + 1)..s,
                      log[k].kind = "rows"
               PROVE  FALSE
    BY DEF ResumeNeverSkips
  <2>1. s \in 0..Len(log)
    BY SentStorable, ResumeIs
  <2>2. Marks(GTID, last.pos, log, r) /\ r \in 0..Len(log)
    BY DEF Whole, Sent, Inv, TypeLast
  <2>3. /\ Len(log) \in Nat /\ Consecutive(log) /\ WholeLog(HasGTIDs, log) /\ log \in Seq(Item)
    BY DEF Inv, TypeLog, Whole
  <2>4. k \in 1..Len(log) /\ k \in 1..s /\ r < k
    BY <2>1, <2>2, <2>3
  <2>5. CASE GTID
    <3>1. p.set = last.pos.set
      <4>1. last.pos # ZeroPosition
        BY <2>5 DEF Begun, ZeroPosition
      <4> QED
        BY <2>5, <4>1 DEF resolveStart, IsZero, ZeroPosition
    <3>2. last.pos.set = Done(log, r)
      BY <2>2, <2>5 DEF Marks
    <3>3. Skips(log, Done(log, r), s)
      BY <2>3, <2>5, <3>1, <3>2, SkipIs DEF Skipped
    <3>4. log[k].tx # NoGTID
      BY <2>3, <2>4 DEF Consecutive
    <3>5. log[k].tx \notin Done(log, r)
      <4> SUFFICES ASSUME NEW i \in 1..r, log[i].kind \in Ends, log[i].tx = log[k].tx
                   PROVE  FALSE
        BY DoneIs
      <4>1. i \in 1..Len(log) /\ i < k
        BY <2>2, <2>3, <2>4
      <4> QED
        BY <2>3, <2>4, <4>1 DEF WholeLog, Closed
    <3> QED
      BY <2>4, <3>3, <3>4, <3>5 DEF Skips
  <2>6. CASE ~GTID
    <3>1. last.pos.file # 0 /\ last.pos.off <= r
      BY <2>2, <2>6 DEF Marks
    <3>2. s = last.pos.off
      BY <2>6, <3>1 DEF Skipped, resolveStart, ZeroPosition
    <3> QED
      BY <2>1, <2>2, <2>3, <2>4, <3>1, <3>2
  <2> QED
    BY <2>5, <2>6
<1>2. Init => Begun
  BY InitBegun
<1> QED
  BY <1>1, <1>2, SourceWhole, StepBegun, PTL DEF Spec
=============================================================================
