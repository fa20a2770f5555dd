--------------------------- MODULE InvoicingProofs ---------------------------
(***************************************************************************)
(* What Invoicing keeps true whatever the bills, receipts and documents.   *)
(***************************************************************************)
EXTENDS InvoicingInvariants, SequenceTheorems, FiniteSetTheorems, WellFoundedInduction, TLAPS

-----------------------------------------------------------------------------
(* Sequences. *)

\* Predicates for what r is made of, to cite without opening them.
Joins(r, s, t) == r = s \o t
Follows(r, a, b, s) == r = <<a, b>> \o s

\* A function on an interval is a sequence.
LEMMA IsSequence ==
    ASSUME NEW s, NEW n \in Nat, s = [k \in 1..n |-> s[k]]
    PROVE  IsSeq(s) /\ Len(s) = n /\ DOMAIN s = 1..n
  <1>1. s \in [1..n -> Range(s)]
    BY DEF Range
  <1>2. s \in Seq(Range(s))
    BY <1>1, SeqDef
  <1> QED BY <1>1, <1>2 DEF IsSeq

\* One sequence after another.
LEMMA Concatenated ==
    ASSUME NEW s, IsSeq(s), NEW t, IsSeq(t), NEW r, Joins(r, s, t)
    PROVE  /\ IsSeq(r) /\ Len(r) = Len(s) + Len(t) /\ DOMAIN r = 1..(Len(s) + Len(t))
           /\ Len(s) \in Nat /\ Len(t) \in Nat
           /\ \A k \in 1..Len(s) : r[k] = s[k]
           /\ \A k \in 1..Len(t) : r[Len(s) + k] = t[k]
  <1> DEFINE S == Range(s) \cup Range(t)
  <1>1. s \in Seq(S) /\ t \in Seq(S) /\ r = s \o t
    BY SeqMonotonic DEF IsSeq, Joins
  <1> HIDE DEF S
  <1>2. /\ r \in Seq(S) /\ Len(r) = Len(s) + Len(t)
        /\ \A k \in 1..(Len(s) + Len(t)) : r[k] = IF k <= Len(s) THEN s[k] ELSE t[k - Len(s)]
    BY <1>1, ConcatProperties
  <1>3. Len(s) \in Nat /\ Len(t) \in Nat /\ DOMAIN r = 1..Len(r) /\ IsSeq(r)
    BY <1>1, <1>2, LenProperties, SeqOfRange DEF IsSeq
  <1>4. \A k \in 1..Len(t) : Len(s) + k \in 1..(Len(s) + Len(t)) /\ ~ (Len(s) + k <= Len(s))
                              /\ (Len(s) + k) - Len(s) = k
    BY <1>3
  <1>5. \A k \in 1..Len(s) : k \in 1..(Len(s) + Len(t)) /\ k <= Len(s)
    BY <1>3
  <1> QED BY <1>2, <1>3, <1>4, <1>5

\* What is left after the next write.
LEMMA AfterWrite ==
    ASSUME NEW w, IsSeq(w), NEW i, Left(w, i)
    PROVE  /\ i \in 1..Len(w) /\ todo # <<>> /\ Head(todo) = w[i] /\ Last(todo) = w[Len(w)]
           /\ IsSeq(Tail(todo))
           /\ IF i = Len(w) THEN Tail(todo) = <<>>
              ELSE i + 1 \in 1..Len(w) /\ Tail(todo) = SubSeq(w, i + 1, Len(w))
  <1> USE DEF IsSeq, Left
  <1>1. Len(w) \in Nat /\ Len(w) \in i..Len(w) /\ i \in 1..Len(w)
    BY LenProperties
  <1>2. Head(todo) = w[i] /\ Tail(todo) = SubSeq(w, i + 1, Len(w))
    BY <1>1, HeadTailOfSubSeq
  <1>3. /\ todo \in Seq(Range(w)) /\ Len(todo) = Len(w) - i + 1
        /\ \A k \in 1..(Len(w) - i + 1) : todo[k] = w[i + k - 1]
    BY <1>1, ElementOfSeq, SubSeqProperties
  <1>4. todo # <<>> /\ Last(todo) = w[Len(w)]
    <2>1. Len(todo) \in 1..(Len(w) - i + 1) /\ i + Len(todo) - 1 = Len(w) /\ Len(todo) # 0
      BY <1>1, <1>3
    <2>2. todo[Len(todo)] = w[i + Len(todo) - 1]
      BY <1>3, <2>1
    <2>3. todo # <<>>
      BY <2>1, EmptySeq
    <2> QED BY <2>1, <2>2, <2>3 DEF Last
  <1>5. Tail(todo) \in Seq(Range(w))
    BY <1>3, <1>4, HeadTailProperties
  <1>6. i = Len(w) => Tail(todo) = <<>>
    BY <1>1, <1>2, SubSeqEmpty
  <1>7. i # Len(w) => i + 1 \in 1..Len(w)
    BY <1>1
  <1>8. IsSeq(Tail(todo))
    BY <1>5, SeqOfRange
  <1> QED BY <1>1, <1>2, <1>4, <1>6, <1>7, <1>8

-----------------------------------------------------------------------------
(* Sums of a few amounts. *)

\* The element SumFunctionOnSet takes first, and the sums of all subsets.
Taken1(s) == CHOOSE x \in s : TRUE

\* g is the sum of f over each subset of S.
IsSum(f, S, g) ==
    g = [s \in SUBSET S |-> IF s = {} THEN 0 ELSE f[Taken1(s)] + g[s \ {Taken1(s)}]]

\* Among some subsets of a finite set there is a smallest.
LEMMA SmallestSubset ==
    ASSUME NEW S, IsFiniteSet(S), NEW B \in SUBSET (SUBSET S), B # {}
    PROVE  \E T \in B : \A U \in B : U \subseteq T => U = T
  <1>1. IsWellFoundedOn(StrictSubsetOrdering(S), SUBSET S)
    BY FS_StrictSubsetOrderingWellFounded, FS_FiniteSubsetsOfFinite
  <1>2. PICK T \in B : \A U \in B : <<U, T>> \notin StrictSubsetOrdering(S)
    BY <1>1, WFMin
  <1> QED BY <1>2 DEF StrictSubsetOrdering

\* The community modules' sum is that function at S.
LEMMA SumIsChosen ==
    ASSUME NEW f, NEW S
    PROVE  SumFunctionOnSet(f, S) = (CHOOSE g : IsSum(f, S, g))[S]
  BY DEF SumFunctionOnSet, FoldFunctionOnSet, MapThenFoldSet, IsSum, Taken1

\* There is one such function,
LEMMA SumUnique ==
    ASSUME NEW f, NEW S, IsFiniteSet(S), NEW g, IsSum(f, S, g), NEW h, IsSum(f, S, h)
    PROVE  g = h
  <1> DEFINE B == {s \in SUBSET S : g[s] # h[s]}
  <1>1. B = {}
    <2> SUFFICES ASSUME B # {} PROVE FALSE
      OBVIOUS
    <2>5. B \in SUBSET (SUBSET S)
      OBVIOUS
    <2>6. \E T \in B : \A U \in B : U \subseteq T => U = T
      <3> HIDE DEF B
      <3> QED BY <2>5, SmallestSubset
    <2>1. PICK T \in B : \A U \in B : U \subseteq T => U = T
      BY <2>6
    <2>2. /\ g[T] = IF T = {} THEN 0 ELSE f[Taken1(T)] + g[T \ {Taken1(T)}]
          /\ h[T] = IF T = {} THEN 0 ELSE f[Taken1(T)] + h[T \ {Taken1(T)}]
      BY <2>1 DEF IsSum
    <2>3. T # {} /\ Taken1(T) \in T
      BY <2>1, <2>2 DEF Taken1
    <2>4. T \ {Taken1(T)} \notin B /\ T \ {Taken1(T)} \in SUBSET S
      BY <2>1, <2>3
    <2> QED BY <2>1, <2>2, <2>3, <2>4
  <1>2. /\ DOMAIN g = SUBSET S /\ DOMAIN h = SUBSET S
        /\ g = [s \in SUBSET S |-> g[s]] /\ h = [s \in SUBSET S |-> h[s]]
    BY DEF IsSum
  <1> QED BY <1>1, <1>2

\* it is one on each subset,
LEMMA SumRestricted ==
    ASSUME NEW f, NEW S, NEW g, IsSum(f, S, g), NEW U \in SUBSET S
    PROVE  IsSum(f, U, [s \in SUBSET U |-> g[s]])
  <1> DEFINE h == [s \in SUBSET U |-> g[s]]
  <1>1. ASSUME NEW s \in SUBSET U
        PROVE  h[s] = IF s = {} THEN 0 ELSE f[Taken1(s)] + h[s \ {Taken1(s)}]
    <2>1. g[s] = IF s = {} THEN 0 ELSE f[Taken1(s)] + g[s \ {Taken1(s)}]
      BY DEF IsSum
    <2>2. s \ {Taken1(s)} \in SUBSET U
      OBVIOUS
    <2>3. h[s] = g[s] /\ h[s \ {Taken1(s)}] = g[s \ {Taken1(s)}]
      BY <2>2
    <2> QED BY <2>1, <2>3
  <1> QED BY <1>1 DEF IsSum

\* and there is one for each finite set.
LEMMA SumExists ==
    ASSUME NEW f, NEW S, IsFiniteSet(S)
    PROVE  \E g : IsSum(f, S, g)
  <1> DEFINE B == {T \in SUBSET S : ~ \E g : IsSum(f, T, g)}
  <1> SUFFICES ASSUME B # {} PROVE FALSE
    OBVIOUS
  <1>a. B \in SUBSET (SUBSET S)
    OBVIOUS
  <1>b. \E T \in B : \A U \in B : U \subseteq T => U = T
    <2> HIDE DEF B
    <2> QED BY <1>a, SmallestSubset
  <1>1. PICK T \in B : \A U \in B : U \subseteq T => U = T
    BY <1>b
  <1> DEFINE G(s) == CHOOSE g : IsSum(f, s, g)
             Val(s) == G(s)[s]
             whole == [s \in SUBSET T |-> IF s = {} THEN 0
                                          ELSE f[Taken1(s)] + Val(s \ {Taken1(s)})]
  <1>2. ASSUME NEW s \in SUBSET T, s # T PROVE IsSum(f, s, G(s)) /\ IsFiniteSet(s)
    <2>1. \E g : IsSum(f, s, g)
      BY <1>1, <1>2
    <2>2. IsFiniteSet(s)
      BY FS_Subset
    <2> QED BY <2>1, <2>2
  <1> HIDE DEF G
  <1>3. ASSUME NEW s \in SUBSET T, s # {}
        PROVE  whole[s \ {Taken1(s)}] = Val(s \ {Taken1(s)})
    <2> DEFINE u == s \ {Taken1(s)}
    <2>1. Taken1(s) \in s
      BY <1>3 DEF Taken1
    <2>2. u \in SUBSET T /\ u # T
      BY <2>1
    <2> HIDE DEF u
    <2>3. IsSum(f, u, G(u))
      BY <2>2, <1>2
    <2>4. Val(u) = IF u = {} THEN 0 ELSE f[Taken1(u)] + G(u)[u \ {Taken1(u)}]
      BY <2>3 DEF IsSum
    <2>5. CASE u = {}
      BY <2>2, <2>4, <2>5 DEF u
    <2>6. CASE u # {}
      <3> DEFINE v == u \ {Taken1(u)}
      <3>1. Taken1(u) \in u
        BY <2>6 DEF Taken1
      <3>2. v \in SUBSET T /\ v # T /\ v \in SUBSET u /\ v \in SUBSET v
        BY <2>2, <3>1
      <3> HIDE DEF v
      <3>3. IsSum(f, v, G(v)) /\ IsFiniteSet(v)
        BY <3>2, <1>2
      <3>4. IsSum(f, v, [s_1 \in SUBSET v |-> G(u)[s_1]])
        BY <2>3, <3>2, SumRestricted
      <3>5. G(v) = [s_1 \in SUBSET v |-> G(u)[s_1]]
        BY <3>3, <3>4, SumUnique
      <3>6. Val(v) = G(u)[v]
        BY <3>2, <3>5
      <3>7. whole[u] = f[Taken1(u)] + Val(v)
        BY <2>2, <2>6 DEF v
      <3> QED BY <2>4, <2>6, <3>6, <3>7 DEF v, u
    <2> QED BY <2>5, <2>6
  <1>4. IsSum(f, T, whole)
    <2>1. \A s \in SUBSET T : whole[s] = IF s = {} THEN 0
                                  ELSE f[Taken1(s)] + whole[s \ {Taken1(s)}]
      BY <1>3
    <2>2. whole = [s \in SUBSET T |-> whole[s]]
      OBVIOUS
    <2> HIDE DEF whole
    <2> QED BY <2>1, <2>2 DEF IsSum
  <1> QED BY <1>1, <1>4

\* The sum over nothing.
LEMMA SumOfNothing ==
    ASSUME NEW f
    PROVE  SumFunctionOnSet(f, {}) = 0
  <1>1. IsSum(f, {}, CHOOSE g : IsSum(f, {}, g))
    BY SumExists, FS_EmptySet
  <1> QED BY <1>1, SumIsChosen DEF IsSum

\* One member taken off a sum.
LEMMA SumUnfolds ==
    ASSUME NEW f, NEW S, IsFiniteSet(S), S # {}
    PROVE  SumFunctionOnSet(f, S) = f[Taken1(S)] + SumFunctionOnSet(f, S \ {Taken1(S)})
  <1> DEFINE U == S \ {Taken1(S)}
             G(s) == CHOOSE g : IsSum(f, s, g)
  <1>1. U \in SUBSET S /\ IsFiniteSet(U)
    BY FS_Subset
  <1>2. IsSum(f, S, G(S)) /\ IsSum(f, U, G(U))
    BY <1>1, SumExists
  <1> HIDE DEF U, G
  <1>6. IsSum(f, U, [s \in SUBSET U |-> G(S)[s]])
    BY <1>1, <1>2, SumRestricted
  <1>3. G(U) = [s \in SUBSET U |-> G(S)[s]]
    <2> DEFINE h == [s \in SUBSET U |-> G(S)[s]]
    <2>1. IsSum(f, U, h)
      BY <1>6
    <2> HIDE DEF h
    <2>2. G(U) = h
      BY <1>1, <1>2, <2>1, SumUnique
    <2> QED BY <2>2 DEF h
  <1>4. G(S)[S] = f[Taken1(S)] + G(S)[S \ {Taken1(S)}]
    BY <1>2 DEF IsSum
  <1>5. U \in SUBSET U
    OBVIOUS
  <1> QED BY <1>3, <1>4, <1>5, SumIsChosen DEF U, G


\* The sum over two or three lines.
LEMMA TotalOfFew ==
    ASSUME NEW lines, NEW n \in {2, 3}, DOMAIN lines = 1..n,
           \A k \in 1..n : lines[k].amount \in Int
    PROVE  TotalOf(lines) = lines[1].amount + lines[2].amount
                                + (IF n = 3 THEN lines[3].amount ELSE 0)
  <1> DEFINE f == [k \in DOMAIN lines |-> lines[k].amount]
             sum(S) == SumFunctionOnSet(f, S)
  <1>1. /\ TotalOf(lines) = sum(1..n) /\ \A k \in 1..n : f[k] \in Int /\ f[k] = lines[k].amount
    BY DEF TotalOf, SumFunction
  <1>2. ASSUME NEW S \in SUBSET (1..n), S # {}
        PROVE  Taken1(S) \in S /\ sum(S) = f[Taken1(S)] + sum(S \ {Taken1(S)})
    <2>1. IsFiniteSet(1..n)
      BY FS_Interval
    <2>2. IsFiniteSet(S)
      BY <2>1, FS_Subset
    <2> QED BY <1>2, <2>2, SumUnfolds DEF Taken1
  <1>3. sum({}) = 0
    BY SumOfNothing
  <1> HIDE DEF f, sum
  <1>4. ASSUME NEW a \in 1..n PROVE sum({a}) = f[a]
    <2>1. Taken1({a}) \in {a} /\ sum({a}) = f[Taken1({a})] + sum({a} \ {Taken1({a})})
      BY <1>2
    <2>2. Taken1({a}) = a /\ {a} \ {a} = {}
      BY <2>1
    <2>3. sum({a}) = f[a] + 0
      BY <1>3, <2>1, <2>2
    <2> QED BY <1>1, <2>3
  <1>5. ASSUME NEW a \in 1..n, NEW b \in 1..n, a # b PROVE sum({a, b}) = f[a] + f[b]
    <2> PICK c : c = Taken1({a, b})
      OBVIOUS
    <2>1. c \in {a, b} /\ sum({a, b}) = f[c] + sum({a, b} \ {c})
      BY <1>2
    <2>2. {a, b} \ {a} = {b} /\ {a, b} \ {b} = {a}
      BY <1>5
    <2>3. f[a] \in Int /\ f[b] \in Int /\ sum({a}) = f[a] /\ sum({b}) = f[b]
      BY <1>1, <1>4
    <2>4. CASE c = a
      BY <2>1, <2>2, <2>3, <2>4
    <2>5. CASE c = b
      <3>1. sum({a, b}) = f[b] + f[a]
        BY <2>1, <2>2, <2>3, <2>5
      <3> QED BY <2>3, <3>1
    <2> QED BY <2>1, <2>4, <2>5
  <1>6. CASE n = 2
    <2>1. 1..2 = {1, 2} /\ 1 \in 1..n /\ 2 \in 1..n
      BY <1>6
    <2>2. sum({1, 2}) = f[1] + f[2]
      BY <1>5, <2>1
    <2> QED BY <1>1, <1>6, <2>1, <2>2
  <1>7. CASE n = 3
    <2>1. 1..3 = {1, 2, 3} /\ 1 \in 1..n /\ 2 \in 1..n /\ 3 \in 1..n
      BY <1>7
    <2>2. sum({1, 2}) = f[1] + f[2] /\ sum({1, 3}) = f[1] + f[3] /\ sum({2, 3}) = f[2] + f[3]
      BY <1>5, <2>1
    <2> PICK c : c = Taken1({1, 2, 3})
      OBVIOUS
    <2>3. c \in {1, 2, 3} /\ sum({1, 2, 3}) = f[c] + sum({1, 2, 3} \ {c})
      BY <1>2, <2>1
    <2>4. /\ {1, 2, 3} \ {1} = {2, 3} /\ {1, 2, 3} \ {2} = {1, 3} /\ {1, 2, 3} \ {3} = {1, 2}
      OBVIOUS
    <2>5. f[1] \in Int /\ f[2] \in Int /\ f[3] \in Int
      BY <1>1, <2>1
    <2>6. sum({1, 2, 3}) = f[1] + f[2] + f[3]
      <3>1. CASE c = 1
        <4>1. sum({1, 2, 3}) = f[1] + (f[2] + f[3])
          BY <2>2, <2>3, <2>4, <3>1
        <4> QED BY <2>5, <4>1
      <3>2. CASE c = 2
        <4>1. sum({1, 2, 3}) = f[2] + (f[1] + f[3])
          BY <2>2, <2>3, <2>4, <3>2
        <4> QED BY <2>5, <4>1
      <3>3. CASE c = 3
        <4>1. sum({1, 2, 3}) = f[3] + (f[1] + f[2])
          BY <2>2, <2>3, <2>4, <3>3
        <4> QED BY <2>5, <4>1
      <3> QED BY <2>3, <3>1, <3>2, <3>3
    <2> QED BY <1>1, <1>7, <2>1, <2>6
  <1> QED BY <1>6, <1>7

-----------------------------------------------------------------------------
(* What a bill comes to, and its writes. *)

\* What InvoicingAssumption says of a bill.
LEMMA BillIs ==
    ASSUME NEW bill \in Bills
    PROVE  /\ bill.supplier \in Suppliers \cup {Nobody}
           /\ bill.items \in Seq(BillItem) /\ Len(bill.items) \in Nat
           /\ DOMAIN bill.items = 1..Len(bill.items)
           /\ Cents(bill.gross) \in Int /\ NetOf(bill) \in Int /\ TaxOf(bill) \in Int
  <1>1. bill \in Bill
    BY InvoicingAssumption
  <1>2. /\ bill.gross \in Stated /\ bill.net \in Stated /\ bill.tax \in Stated
        /\ bill.supplier \in Suppliers \cup {Nobody} /\ bill.items \in Seq(BillItem)
    BY <1>1 DEF Bill
  <1>3. \A m \in Stated : Cents(m) \in Int
    BY DEF Stated, Cents
  <1>4. Cents(bill.gross) \in Int /\ NetOf(bill) \in Int /\ TaxOf(bill) \in Int
    BY <1>2, <1>3 DEF NetOf, TaxOf
  <1> QED BY <1>2, <1>4, LenProperties

\* A bill is posted as two or three lines; they balance if it adds up.
LEMMA InvoiceLinesAre ==
    ASSUME NEW bill \in Bills, NEW lines, lines = InvoiceLines(bill), NEW count, count = Len(lines)
    PROVE  /\ IsSeq(lines) /\ count \in {2, 3} /\ DOMAIN lines = 1..count
           /\ lines[1] = Line(bill.supplier, -Cents(bill.gross))
           /\ lines[2] = Line(Nobody, NetOf(bill))
           /\ IF count = 3 THEN lines[3] = Line(Nobody, TaxOf(bill)) ELSE TaxOf(bill) = 0
  <1> PICK first, tax, a, b, c :
        /\ a = Line(bill.supplier, -Cents(bill.gross)) /\ b = Line(Nobody, NetOf(bill))
        /\ c = Line(Nobody, TaxOf(bill)) /\ first = <<a, b>>
        /\ tax = IF TaxOf(bill) = 0 THEN <<>> ELSE <<c>>
    OBVIOUS
  <1>1. Joins(lines, first, tax)
    BY DEF InvoiceLines, Joins
  <1>2. IsSeq(first) /\ Len(first) = 2 /\ first[1] = a /\ first[2] = b
    <2>1. first \in Seq({a, b}) /\ Len(first) = 2
      OBVIOUS
    <2> QED BY <2>1, SeqOfRange DEF IsSeq
  <1>3. /\ IsSeq(tax) /\ Len(tax) = IF TaxOf(bill) = 0 THEN 0 ELSE 1
        /\ TaxOf(bill) # 0 => tax[1] = c
    <2>1. tax \in Seq({c}) /\ Len(tax) = IF TaxOf(bill) = 0 THEN 0 ELSE 1
      OBVIOUS
    <2> QED BY <2>1, SeqOfRange DEF IsSeq
  <1>6. /\ IsSeq(lines) /\ Len(lines) = Len(first) + Len(tax)
        /\ DOMAIN lines = 1..(Len(first) + Len(tax))
        /\ \A k \in 1..Len(first) : lines[k] = first[k]
        /\ \A k \in 1..Len(tax) : lines[Len(first) + k] = tax[k]
    <2>1. IsSeq(first) /\ IsSeq(tax)
      BY <1>2, <1>3
    <2> QED BY ONLY <1>1, <2>1, Concatenated
  <1> QED BY <1>2, <1>3, <1>6

\* Two writes before others.
LEMMA TwoAhead ==
    ASSUME NEW a, NEW b, NEW s, IsSeq(s), NEW r, Follows(r, a, b, s)
    PROVE  /\ IsSeq(r) /\ Len(s) \in Nat /\ Len(r) = Len(s) + 2
           /\ r[1] = a /\ r[2] = b /\ \A k \in 1..Len(s) : r[2 + k] = s[k]
  <1> PICK two : two = <<a, b>>
    OBVIOUS
  <1>1. /\ two \in Seq({a, b}) /\ Len(two) = 2 /\ two[1] = a /\ two[2] = b
    OBVIOUS
  <1>2. IsSeq(two) /\ Joins(r, two, s)
    BY <1>1, SeqOfRange DEF IsSeq, Joins, Follows
  <1>3. /\ IsSeq(r) /\ Len(r) = Len(two) + Len(s) /\ Len(s) \in Nat
        /\ \A k \in 1..Len(two) : r[k] = two[k]
        /\ \A k \in 1..Len(s) : r[Len(two) + k] = s[k]
    BY ONLY <1>2, IsSeq(s), Concatenated
  <1>4. Len(two) = 2 /\ two[1] = a /\ two[2] = b /\ 1 \in 1..2 /\ 2 \in 1..2
    BY <1>1
  <1>5. r[1] = a /\ r[2] = b /\ \A k \in 1..Len(s) : r[2 + k] = s[k]
    BY ONLY <1>3, <1>4
  <1>6. Len(r) = Len(s) + 2
    BY ONLY <1>3, <1>4
  <1> QED BY <1>3, <1>5, <1>6

\* The lines of a document and what they update, in turn.
LEMMA LineWritesAre ==
    ASSUME NEW lines, IsSeq(lines), NEW long, NEW w, w = LineWrites(lines, long)
    PROVE  /\ IsSeq(w) /\ Len(lines) \in Nat /\ Len(w) = 2 * Len(lines)
           /\ \A n \in 1..Len(lines) :
                /\ w[2 * n - 1].does = "line" /\ w[2 * n - 1].what = lines[n]
                /\ w[2 * n].does = "state" /\ w[2 * n].what = lines[n].account
           /\ \A k \in DOMAIN w : w[k].does \in {"line", "state"}
  <1>1. Len(lines) \in Nat /\ 2 * Len(lines) \in Nat
    BY LenProperties DEF IsSeq
  <1>2. /\ DOMAIN w = 1..(2 * Len(lines)) /\ w = [k \in 1..(2 * Len(lines)) |-> w[k]]
        /\ \A k \in 1..(2 * Len(lines)) :
            /\ w[k].does = IF k % 2 = 1 THEN "line" ELSE "state"
            /\ w[k].what = IF k % 2 = 1 THEN lines[(k + 1) \div 2] ELSE lines[(k + 1) \div 2].account
    BY DEF LineWrites, Write
  <1>3. IsSeq(w) /\ Len(w) = 2 * Len(lines)
    BY ONLY <1>1, <1>2, IsSequence
  <1>4. ASSUME NEW n \in 1..Len(lines)
        PROVE  /\ 2 * n \in 1..(2 * Len(lines)) /\ 2 * n - 1 \in 1..(2 * Len(lines))
               /\ (2 * n) % 2 = 0 /\ (2 * n - 1) % 2 = 1
               /\ (2 * n + 1) \div 2 = n /\ ((2 * n - 1) + 1) \div 2 = n
    BY <1>1
  <1>5. ASSUME NEW n \in 1..Len(lines)
        PROVE  /\ w[2 * n - 1].does = "line" /\ w[2 * n - 1].what = lines[n]
               /\ w[2 * n].does = "state" /\ w[2 * n].what = lines[n].account
    <2> PICK i, j : i = 2 * n /\ j = 2 * n - 1
      OBVIOUS
    <2>1. /\ i \in 1..(2 * Len(lines)) /\ j \in 1..(2 * Len(lines)) /\ i % 2 # 1 /\ j % 2 = 1
          /\ (i + 1) \div 2 = n /\ (j + 1) \div 2 = n
      BY <1>4
    <2>2. /\ w[j].does = "line" /\ w[j].what = lines[n]
          /\ w[i].does = "state" /\ w[i].what = lines[n].account
      BY <1>2, <2>1
    <2> QED BY <2>2
  <1>6. \A k \in DOMAIN w : w[k].does \in {"line", "state"}
    BY <1>2
  <1> QED BY <1>1, <1>3, <1>5, <1>6

\* w is what post_journal_entry writes.
Writes(w, by, lines, long) == w = EntryWrites(by, lines, long)

\* The writes of a document: its number, its header, its lines.
LEMMA EntryWritesAre ==
    ASSUME NEW by, NEW lines, IsSeq(lines), NEW long, NEW w, Writes(w, by, lines, long)
    PROVE  /\ IsSeq(w) /\ Len(lines) \in Nat /\ Len(w) = 2 * Len(lines) + 2
           /\ w[1] = DrawFrom("entry") /\ w[2].does = "head" /\ w[2].what = by
           /\ \A n \in 1..Len(lines) :
                /\ w[2 * n + 1].does = "line" /\ w[2 * n + 1].what = lines[n]
                /\ w[2 * n + 2].does = "state" /\ w[2 * n + 2].what = lines[n].account
           /\ \A k \in DOMAIN w \ {1} : w[k].does \in {"head", "line", "state"}
  <1> PICK rest, top : /\ rest = LineWrites(lines, long)
                        /\ top = Write("head", by, long # "head")
    OBVIOUS
  <1>1. /\ IsSeq(rest) /\ Len(lines) \in Nat /\ Len(rest) = 2 * Len(lines)
        /\ \A n \in 1..Len(lines) :
                /\ rest[2 * n - 1].does = "line" /\ rest[2 * n - 1].what = lines[n]
                /\ rest[2 * n].does = "state" /\ rest[2 * n].what = lines[n].account
        /\ \A k \in DOMAIN rest : rest[k].does \in {"line", "state"}
    BY LineWritesAre
  <1> PICK draw : draw = DrawFrom("entry")
    OBVIOUS
  <1>2. Follows(w, draw, top, rest) /\ top.does = "head" /\ top.what = by
    BY DEF Writes, EntryWrites, Write, Follows
  <1>3. /\ IsSeq(w) /\ Len(w) = Len(rest) + 2
        /\ w[1] = draw /\ w[2] = top /\ \A k \in 1..Len(rest) : w[2 + k] = rest[k]
    <2>1. IsSeq(rest) /\ Len(rest) \in Nat
      BY <1>1
    <2>2. Follows(w, draw, top, rest)
      BY <1>2
    <2> QED BY ONLY <2>1, <2>2, TwoAhead
  <1>4. ASSUME NEW n \in 1..Len(lines)
        PROVE  w[2 * n + 1] = rest[2 * n - 1] /\ w[2 * n + 2] = rest[2 * n]
    <2>1. /\ 2 * n - 1 \in 1..Len(rest) /\ 2 + (2 * n - 1) = 2 * n + 1
          /\ 2 * n \in 1..Len(rest) /\ 2 + 2 * n = 2 * n + 2
      BY <1>1
    <2> QED BY <1>3, <2>1
  <1>5. ASSUME NEW k \in DOMAIN w \ {1} PROVE w[k].does \in {"head", "line", "state"}
    <2>1. k \in 2..(Len(rest) + 2) /\ DOMAIN rest = 1..Len(rest)
      BY <1>1, <1>3, LenProperties DEF IsSeq
    <2>2. CASE k = 2
      BY <1>2, <1>3, <2>2
    <2>3. CASE k # 2
      <3>1. k - 2 \in 1..Len(rest) /\ 2 + (k - 2) = k
        BY <1>1, <2>1, <2>3
      <3>2. w[k] = rest[k - 2]
        BY <1>3, <3>1
      <3> QED BY <1>1, <2>1, <3>1, <3>2
    <2> QED BY <2>2, <2>3
  <1>6. Len(w) = 2 * Len(lines) + 2 /\ Len(lines) \in Nat
    BY <1>1, <1>3
  <1>7. ASSUME NEW n \in 1..Len(lines)
        PROVE  /\ w[2 * n + 1].does = "line" /\ w[2 * n + 1].what = lines[n]
               /\ w[2 * n + 2].does = "state" /\ w[2 * n + 2].what = lines[n].account
    <2> PICK i, j, k, l : /\ i = 2 * n - 1 /\ j = 2 * n /\ k = 2 * n + 1 /\ l = 2 * n + 2
      OBVIOUS
    <2>1. w[k] = rest[i] /\ w[l] = rest[j]
      BY <1>4
    <2>2. /\ rest[i].does = "line" /\ rest[i].what = lines[n]
          /\ rest[j].does = "state" /\ rest[j].what = lines[n].account
      BY <1>1
    <2>3. /\ w[k].does = "line" /\ w[k].what = lines[n]
          /\ w[l].does = "state" /\ w[l].what = lines[n].account
      BY <2>1, <2>2
    <2> QED BY <2>3
  <1> QED BY <1>2, <1>3, <1>5, <1>6, <1>7

\* w is what is written of an invoice itself.
Rows(w, bill, references, count) == w = RowWrites(bill, references) /\ count = Len(bill.items)

\* The writes of an invoice: its number, its row, its items.
LEMMA RowWritesAre ==
    ASSUME NEW bill \in Bills, NEW references, NEW w, NEW count, Rows(w, bill, references, count)
    PROVE  /\ IsSeq(w) /\ Len(w) = count + 2
           /\ w[1] = DrawFrom("invoice") /\ w[2].does = "invoice"
           /\ w[2].what = [party |-> bill.supplier, gross |-> Cents(bill.gross)]
           /\ \A n \in 1..count :
                /\ w[2 + n].does = "item"
                /\ w[2 + n].what = [position |-> bill.items[n].position,
                                    receipt |-> references[n]]
  <1> PICK rest, draw, row :
        /\ rest = [n \in DOMAIN bill.items |->
                     Write("item", [position |-> bill.items[n].position, receipt |-> references[n]],
                           bill.long # "item")]
        /\ draw = DrawFrom("invoice")
        /\ row = Write("invoice", [party |-> bill.supplier, gross |-> Cents(bill.gross)], TRUE)
    OBVIOUS
  <1>1. count \in Nat /\ DOMAIN bill.items = 1..count
    BY BillIs DEF Rows
  <1>2. IsSeq(rest) /\ Len(rest) = count
    <2>1. rest = [n \in 1..count |-> rest[n]]
      BY <1>1
    <2> QED BY ONLY <1>1, <2>1, IsSequence
  <1>3. Follows(w, draw, row, rest)
    BY DEF Rows, RowWrites, Follows
  <1>4. /\ IsSeq(w) /\ Len(w) = Len(rest) + 2 /\ w[1] = draw /\ w[2] = row
        /\ \A k \in 1..Len(rest) : w[2 + k] = rest[k]
    BY ONLY <1>2, <1>3, TwoAhead, SMTT(30)
  <1>5. /\ row.does = "invoice"
        /\ row.what = [party |-> bill.supplier, gross |-> Cents(bill.gross)]
    BY DEF Write
  <1>6. \A n \in 1..count :
            /\ rest[n].does = "item"
            /\ rest[n].what = [position |-> bill.items[n].position, receipt |-> references[n]]
    BY <1>1 DEF Write
  <1> QED BY <1>2, <1>4, <1>5, <1>6, ZenonT(40)

\* Document, invoice, items, IDoc: the writes of a bill in order.
LEMMA BillWritesAre ==
    ASSUME NEW bill \in Bills, NEW by, NEW references, NEW w, w = BillWrites(by, bill, references)
    PROVE  InOrder(w, by, bill, references)
  <1> PICK lines, c, m, doc, rows, both, done :
        /\ lines = InvoiceLines(bill) /\ c = Len(lines) /\ m = Len(bill.items)
        /\ doc = EntryWrites(by, lines, bill.long) /\ rows = RowWrites(bill, references)
        /\ both = doc \o rows
        /\ done = <<Write("outcome", 0, TRUE),
                    Write("file", [status |-> "53", payload |-> bill], TRUE)>>
    OBVIOUS
  <1>1. IsSeq(lines) /\ c \in {2, 3} /\ m \in Nat
    <2>1. lines = InvoiceLines(bill) /\ c = Len(lines) /\ m = Len(bill.items)
      OBVIOUS
    <2>2. IsSeq(lines) /\ c \in {2, 3}
      BY ONLY bill \in Bills, <2>1, InvoiceLinesAre
    <2>3. Len(bill.items) \in Nat
      BY ONLY bill \in Bills, BillIs
    <2> QED BY ONLY <2>1, <2>2, <2>3
  <1>2. /\ IsSeq(doc) /\ Len(doc) = 2 * c + 2
        /\ doc[1] = DrawFrom("entry") /\ doc[2].does = "head" /\ doc[2].what = by
        /\ \A n \in 1..c :
                /\ doc[2 * n + 1].does = "line" /\ doc[2 * n + 1].what = lines[n]
                /\ doc[2 * n + 2].does = "state" /\ doc[2 * n + 2].what = lines[n].account
    <2>1. IsSeq(lines)
      BY <1>1
    <2>2. c = Len(lines) /\ doc = EntryWrites(by, lines, bill.long)
      OBVIOUS
    <2>3. PICK long : long = bill.long
      OBVIOUS
    <2>4. Writes(doc, by, lines, long)
      BY ONLY <2>2, <2>3 DEF Writes
    <2>5. /\ IsSeq(doc) /\ Len(doc) = 2 * Len(lines) + 2
          /\ doc[1] = DrawFrom("entry") /\ doc[2].does = "head" /\ doc[2].what = by
          /\ \A n \in 1..Len(lines) :
                /\ doc[2 * n + 1].does = "line" /\ doc[2 * n + 1].what = lines[n]
                /\ doc[2 * n + 2].does = "state" /\ doc[2 * n + 2].what = lines[n].account
      BY ONLY <2>1, <2>4, EntryWritesAre
    <2> QED BY ONLY <2>2, <2>5
  <1>3. /\ IsSeq(rows) /\ Len(rows) = m + 2
        /\ rows[1] = DrawFrom("invoice") /\ rows[2].does = "invoice"
        /\ rows[2].what = [party |-> bill.supplier, gross |-> Cents(bill.gross)]
        /\ \A n \in 1..m :
             /\ rows[2 + n].does = "item"
             /\ rows[2 + n].what = [position |-> bill.items[n].position, receipt |-> references[n]]
    <2>1. Rows(rows, bill, references, m)
      BY DEF Rows
    <2> QED BY ONLY bill \in Bills, <2>1, RowWritesAre
  <1>4. /\ IsSeq(both) /\ Len(both) = Len(doc) + Len(rows)
        /\ \A k \in 1..Len(doc) : both[k] = doc[k]
        /\ \A k \in 1..Len(rows) : both[Len(doc) + k] = rows[k]
    <2>1. IsSeq(doc) /\ IsSeq(rows)
      BY <1>2, <1>3
    <2>2. Joins(both, doc, rows)
      BY DEF Joins
    <2> QED BY ONLY <2>1, <2>2, Concatenated
  <1>5. w = IF by = 0 THEN both ELSE both \o done
    BY DEF BillWrites, Filed, InvoiceWrites
  <1>6. /\ IsSeq(w) /\ Len(w) = Len(both) + IF by = 0 THEN 0 ELSE 2
        /\ \A k \in 1..Len(both) : w[k] = both[k]
        /\ by # 0 =>
             /\ w[Len(both) + 1] = Write("outcome", 0, TRUE)
             /\ w[Len(both) + 2] = Write("file", [status |-> "53", payload |-> bill], TRUE)
    <2>1. CASE by = 0
      <3>1. w = both /\ Len(both) \in Nat
        BY ONLY <1>2, <1>3, <1>4, <1>5, <2>1, <1>1, LenProperties DEF IsSeq
      <3> QED BY ONLY <1>4, <2>1, <3>1
    <2>2. CASE by # 0
      <3> PICK o, f : /\ o = Write("outcome", 0, TRUE)
                      /\ f = Write("file", [status |-> "53", payload |-> bill], TRUE)
        OBVIOUS
      <3>1. done \in Seq({o, f}) /\ Len(done) = 2 /\ done[1] = o /\ done[2] = f
        OBVIOUS
      <3>2. IsSeq(done) /\ IsSeq(both)
        BY <1>4, <3>1, SeqOfRange DEF IsSeq
      <3>3. Joins(w, both, done)
        BY <1>5, <2>2 DEF Joins
      <3>4. /\ IsSeq(w) /\ Len(w) = Len(both) + Len(done)
            /\ \A k \in 1..Len(both) : w[k] = both[k]
            /\ \A k \in 1..Len(done) : w[Len(both) + k] = done[k]
        BY ONLY <3>2, <3>3, Concatenated
      <3>5. 1 \in 1..Len(done) /\ 2 \in 1..Len(done) /\ Len(done) = 2
        BY <3>1
      <3> QED BY ONLY <2>2, <3>1, <3>4, <3>5, o = Write("outcome", 0, TRUE),
                   f = Write("file", [status |-> "53", payload |-> bill], TRUE)
    <2> QED BY <2>1, <2>2
  <1> PICK row : row = 2 * c + 4
    OBVIOUS
  <1>7. row = RowAt(bill) /\ Len(both) = row + m /\ Len(doc) = row - 2 /\ row \in Nat /\ row >= 8
    <2>1. row = 2 * c + 4 /\ RowAt(bill) = 2 * c + 4
      BY DEF RowAt
    <2>2. /\ c \in {2, 3} /\ m \in Nat /\ Len(doc) = 2 * c + 2 /\ Len(rows) = m + 2
          /\ Len(both) = Len(doc) + Len(rows)
      BY <1>1, <1>2, <1>3, <1>4
    <2> QED BY ONLY <2>1, <2>2
  <1>8. \A k \in 1..(row - 2) : w[k] = doc[k]
    BY <1>1, <1>4, <1>6, <1>7, SMTT(30)
  <1>9. \A k \in 1..(m + 2) : w[(row - 2) + k] = rows[k]
    <2>1. \A k \in 1..(m + 2) : (row - 2) + k \in 1..(row + m)
      BY ONLY <1>1, <1>7
    <2>2. \A k \in 1..(m + 2) : both[(row - 2) + k] = rows[k]
      BY ONLY <1>3, <1>4, <1>7
    <2>3. \A k \in 1..(row + m) : w[k] = both[k]
      BY ONLY <1>6, <1>7
    <2> QED BY ONLY <2>1, <2>2, <2>3
  <1>10. w[1] = DrawFrom("entry") /\ w[2].does = "head" /\ w[2].what = by
    <2>1. 1 \in 1..(row - 2) /\ 2 \in 1..(row - 2)
      BY <1>7
    <2> QED BY <1>2, <1>8, <2>1
  <1>11. ASSUME NEW n \in 1..c
         PROVE  /\ w[2 * n + 1].does = "line" /\ w[2 * n + 1].what = lines[n]
                /\ w[2 * n + 2].does = "state" /\ w[2 * n + 2].what = lines[n].account
    <2> PICK i, j : i = 2 * n + 1 /\ j = 2 * n + 2
      OBVIOUS
    <2>1. i \in 1..(row - 2) /\ j \in 1..(row - 2)
      BY <1>1
    <2>2. w[i] = doc[i] /\ w[j] = doc[j]
      BY <1>8, <2>1
    <2>3. /\ doc[i].does = "line" /\ doc[i].what = lines[n]
          /\ doc[j].does = "state" /\ doc[j].what = lines[n].account
      BY <1>2
    <2>4. /\ w[i].does = "line" /\ w[i].what = lines[n]
          /\ w[j].does = "state" /\ w[j].what = lines[n].account
      BY <2>2, <2>3
    <2> QED BY <2>4
  <1>12. /\ w[row - 1] = DrawFrom("invoice") /\ w[row].does = "invoice"
         /\ w[row].what = [party |-> bill.supplier, gross |-> Cents(bill.gross)]
    <2>1. 1 \in 1..(m + 2) /\ 2 \in 1..(m + 2) /\ (row - 2) + 1 = row - 1 /\ (row - 2) + 2 = row
      BY <1>1, <1>7
    <2>2. w[row - 1] = rows[1] /\ w[row] = rows[2]
      BY <1>9, <2>1
    <2> QED BY <1>3, <2>2
  <1>13. ASSUME NEW n \in 1..m
         PROVE  /\ w[row + n].does = "item"
                /\ w[row + n].what = [position |-> bill.items[n].position,
                                      receipt |-> references[n]]
    <2>1. 2 + n \in 1..(m + 2) /\ (row - 2) + (2 + n) = row + n
      BY <1>1, <1>7
    <2>2. w[row + n] = rows[2 + n]
      BY <1>9, <2>1
    <2> QED BY <1>3, <2>2
  <1>14. by # 0 => /\ w[row + m + 1] = Write("outcome", 0, TRUE)
                   /\ w[row + m + 2] = Write("file", [status |-> "53", payload |-> bill], TRUE)
    BY <1>6, <1>7
  <1>15. Len(w) = WritesOf(by, bill) /\ DOMAIN w = 1..WritesOf(by, bill)
    <2>1. Len(w) = WritesOf(by, bill)
      BY <1>6, <1>7 DEF WritesOf
    <2> QED BY <1>6, <2>1, LenProperties DEF IsSeq
  <1>16. lines = InvoiceLines(bill) /\ c = Len(lines) /\ m = Len(bill.items)
    OBVIOUS
  <1>17. /\ IsSeq(w)
         /\ \A n \in 1..c :
             /\ w[2 * n + 1].does = "line" /\ w[2 * n + 1].what = lines[n]
             /\ w[2 * n + 2].does = "state" /\ w[2 * n + 2].what = lines[n].account
         /\ \A n \in 1..m :
             /\ w[row + n].does = "item"
             /\ w[row + n].what = [position |-> bill.items[n].position, receipt |-> references[n]]
    BY ONLY <1>6, <1>11, <1>13
  <1>18. row = RowAt(bill)
    BY <1>7
  <1> QED BY ONLY <1>10, <1>12, <1>14, <1>15, <1>16, <1>17, <1>18 DEF InOrder

\* The lines, the place of the row and the number of items of a bill.
Shape(bill, lines, row, count) ==
    lines = InvoiceLines(bill) /\ row = RowAt(bill) /\ count = Len(bill.items)

\* Where everything is among the writes of a bill.
LEMMA ShapeOf ==
    ASSUME NEW bill \in Bills, NEW lines, NEW row, NEW count, Shape(bill, lines, row, count)
    PROVE  /\ Len(lines) \in {2, 3} /\ row = 2 * Len(lines) + 4 /\ row \in Nat /\ row >= 8
           /\ count \in Nat /\ DOMAIN bill.items = 1..count /\ DOMAIN lines = 1..Len(lines)
           /\ IsSeq(lines) /\ \A n \in 1..Len(lines) : lines[n].owed = FALSE
  <1> PICK c : c = Len(lines)
    OBVIOUS
  <1>1. lines = InvoiceLines(bill) /\ row = 2 * c + 4 /\ count = Len(bill.items)
    BY DEF Shape, RowAt
  <1>2. /\ IsSeq(lines) /\ c \in {2, 3} /\ DOMAIN lines = 1..c
        /\ lines[1] = Line(bill.supplier, -Cents(bill.gross))
        /\ lines[2] = Line(Nobody, NetOf(bill))
        /\ IF c = 3 THEN lines[3] = Line(Nobody, TaxOf(bill)) ELSE TaxOf(bill) = 0
    BY ONLY bill \in Bills, <1>1, c = Len(lines), InvoiceLinesAre
  <1>3. \A n \in 1..c : lines[n].owed = FALSE
    <2>1. lines[1].owed = FALSE /\ lines[2].owed = FALSE /\ (c = 3 => lines[3].owed = FALSE)
      BY <1>2 DEF Line
    <2>2. \A n \in 1..c : n = 1 \/ n = 2 \/ (n = 3 /\ c = 3)
      BY <1>2
    <2> QED BY <2>1, <2>2
  <1>4. count \in Nat /\ DOMAIN bill.items = 1..count
    BY <1>1, BillIs
  <1>5. row = 2 * c + 4 /\ row \in Nat /\ row >= 8
    BY ONLY <1>1, <1>2
  <1> QED BY <1>2, <1>3, <1>4, <1>5

\* The write a bill has come to is one of these.
LEMMA WhichWrite ==
    ASSUME NEW bill \in Bills, NEW lines, NEW row, NEW count, Shape(bill, lines, row, count),
           NEW by, NEW i \in 1..WritesOf(by, bill)
    PROVE  \/ i = 1 \/ i = 2
           \/ \E n \in 1..Len(lines) : i = 2 * n + 1
           \/ \E n \in 1..Len(lines) : i = 2 * n + 2
           \/ i = row - 1 \/ i = row
           \/ \E n \in 1..count : i = row + n
           \/ by # 0 /\ i = row + count + 1
           \/ by # 0 /\ i = row + count + 2
  <1> PICK c, last : c = Len(lines) /\ last = WritesOf(by, bill)
    OBVIOUS
  <1>1. /\ c \in {2, 3} /\ row = 2 * c + 4 /\ count \in Nat /\ i \in 1..last
        /\ last = row + count + IF by = 0 THEN 0 ELSE 2
    BY ShapeOf DEF WritesOf, Shape
  <1>2. i \in 1..(2 * c + 2) => i = 1 \/ i = 2 \/ i \in {3, 5, 7} \/ i \in {4, 6, 8}
    BY ONLY <1>1
  <1>3. i \in 1..(2 * c + 2) =>
            \/ i = 1 \/ i = 2
            \/ \E n \in 1..c : i = 2 * n + 1
            \/ \E n \in 1..c : i = 2 * n + 2
    <2>1. i \in 1..(2 * c + 2) /\ i = 3 => 1 \in 1..c /\ i = 2 * 1 + 1
      BY ONLY <1>1
    <2>2. i \in 1..(2 * c + 2) /\ i = 5 => 2 \in 1..c /\ i = 2 * 2 + 1
      BY ONLY <1>1
    <2>3. i \in 1..(2 * c + 2) /\ i = 7 => 3 \in 1..c /\ i = 2 * 3 + 1
      BY ONLY <1>1
    <2>4. i \in 1..(2 * c + 2) /\ i = 4 => 1 \in 1..c /\ i = 2 * 1 + 2
      BY ONLY <1>1
    <2>5. i \in 1..(2 * c + 2) /\ i = 6 => 2 \in 1..c /\ i = 2 * 2 + 2
      BY ONLY <1>1
    <2>6. i \in 1..(2 * c + 2) /\ i = 8 => 3 \in 1..c /\ i = 2 * 3 + 2
      BY ONLY <1>1
    <2> QED BY ONLY <1>2, <2>1, <2>2, <2>3, <2>4, <2>5, <2>6
  <1>4.     \/ i \in 1..(2 * c + 2) \/ i = row - 1 \/ i = row
            \/ i - row \in 1..count /\ i = row + (i - row)
            \/ by # 0 /\ i = row + count + 1
            \/ by # 0 /\ i = row + count + 2
    BY ONLY <1>1
  <1> QED BY <1>3, <1>4

-----------------------------------------------------------------------------
(* A step that writes under one number leaves the rest of the tables be. *)

\* f and g differ at k at most.
OnlyAt(f, g, k) ==
    /\ DOMAIN f \subseteq DOMAIN g /\ DOMAIN g \subseteq DOMAIN f \cup {k}
    /\ \A x \in DOMAIN f : x # k => g[x] = f[x]

\* The accounting document being written, of which there is no invoice.
LEMMA EntryKeeps ==
    ASSUME TablesOK, NEW d, d = drawn["entry"], OnlyAt(entries, entries', d),
           \A n \in DOMAIN invoices : invoices[n].document # d,
           UNCHANGED <<receipts, invoices, outcomes, idocs, drawn>>
    PROVE  TablesOK'
  <1> USE DEF TablesOK
  <1>1. NumbersOK'
    <2>1. d \in 0..drawn["entry"]
      BY DEF NumbersOK, Ranges
    <2> QED BY <2>1 DEF NumbersOK, OnlyAt
  <1>2. ReceiptsOK'
    BY DEF ReceiptsOK
  <1>3. InvoiceHasItsPayable'
    <2> SUFFICES ASSUME NEW n \in DOMAIN invoices
                 PROVE  /\ invoices[n].document \in DOMAIN entries'
                        /\ entries'[invoices[n].document] = entries[invoices[n].document]
      BY DEF PropertiesOK, InvoiceHasItsPayable, TotalOf
    <2>1. invoices[n].document \in DOMAIN entries /\ invoices[n].document # d
      BY DEF PropertiesOK, InvoiceHasItsPayable
    <2> QED BY <2>1 DEF OnlyAt
  <1>4. OutcomeIsWhatWasPosted'
    <2>1. ASSUME NEW n \in DOMAIN invoices
          PROVE  entries'[invoices[n].document] = entries[invoices[n].document]
      <3>1. invoices[n].document \in DOMAIN entries /\ invoices[n].document # d
        BY DEF PropertiesOK, InvoiceHasItsPayable
      <3> QED BY <3>1 DEF OnlyAt
    <2> QED BY <2>1 DEF PropertiesOK, OutcomeIsWhatWasPosted
  <1>5. BilledWasReceived'
    BY Z3 DEF PropertiesOK, BilledWasReceived
  <1> QED BY <1>1, <1>2, <1>3, <1>4, <1>5 DEF PropertiesOK

\* The payable an invoice must have.
Payable(i) ==
    /\ i.document \in DOMAIN entries
    /\ TotalOf(entries[i.document].lines) = 0
    /\ \E k \in DOMAIN entries[i.document].lines :
          entries[i.document].lines[k] = [account |-> i.party, amount |-> -i.gross, owed |-> TRUE]

\* The invoice being written, which no outcome names yet.
LEMMA InvoiceKeeps ==
    ASSUME TablesOK, NEW v, v = drawn["invoice"], OnlyAt(invoices, invoices', v),
           v \in DOMAIN invoices', Payable(invoices'[v]),
           \A k \in DOMAIN outcomes : outcomes[k] # v,
           UNCHANGED <<receipts, entries, outcomes, idocs, drawn>>
    PROVE  TablesOK'
  <1> USE DEF TablesOK
  <1>1. NumbersOK'
    <2>1. v \in 0..drawn["invoice"]
      BY DEF NumbersOK, Ranges
    <2> QED BY <2>1 DEF NumbersOK, OnlyAt
  <1>2. ReceiptsOK'
    BY DEF ReceiptsOK
  <1>3. InvoiceHasItsPayable'
    <2>1. \A n \in DOMAIN invoices : Payable(invoices[n])
      BY DEF PropertiesOK, InvoiceHasItsPayable, Payable
    <2>2. \A n \in DOMAIN invoices' : Payable(invoices'[n])
      BY <2>1 DEF OnlyAt
    <2>3. entries' = entries
      OBVIOUS
    <2> QED BY ONLY <2>2, <2>3 DEF InvoiceHasItsPayable, Payable, TotalOf
  <1>4. ASSUME NEW k \in DOMAIN outcomes
        PROVE  /\ outcomes[k] \in DOMAIN invoices /\ outcomes[k] \in DOMAIN invoices'
               /\ invoices'[outcomes[k]] = invoices[outcomes[k]]
    BY DEF PropertiesOK, OutcomeIsWhatWasPosted, OnlyAt
  <1>5. OutcomeIsWhatWasPosted'
    BY <1>4 DEF PropertiesOK, OutcomeIsWhatWasPosted
  <1>6. BilledWasReceived'
    <2>1. \A k \in DOMAIN idocs : idocs[k].status = "53" => k \in DOMAIN outcomes
      BY DEF PropertiesOK, OutcomeIsWhatWasPosted
    <2> QED BY <1>4, <2>1 DEF PropertiesOK, BilledWasReceived
  <1> QED BY <1>1, <1>2, <1>3, <1>5, <1>6 DEF PropertiesOK

\* A new number, and no row under it yet.
LEMMA DrawKeeps ==
    ASSUME TablesOK, NEW r \in Ranges, drawn' = [drawn EXCEPT ![r] = @ + 1], UNCHANGED tables
    PROVE  /\ TablesOK' /\ drawn'[r] = drawn[r] + 1 /\ drawn[r] \in Nat
           /\ \A s \in Ranges : s # r => drawn'[s] = drawn[s]
  <1> USE DEF TablesOK, tables
  <1>1. /\ drawn \in [Ranges -> Nat] /\ drawn' \in [Ranges -> Nat]
        /\ drawn'[r] = drawn[r] + 1 /\ drawn[r] \in Nat
        /\ \A s \in Ranges : s # r => drawn'[s] = drawn[s]
    BY DEF NumbersOK
  <1>2. \A s \in Ranges : 0..drawn[s] \subseteq 0..drawn'[s]
    BY <1>1
  <1>3. NumbersOK'
    BY <1>1, <1>2 DEF NumbersOK, Ranges
  <1>4. ReceiptsOK' /\ PropertiesOK'
    BY DEF ReceiptsOK, PropertiesOK, InvoiceHasItsPayable, OutcomeIsWhatWasPosted,
           BilledWasReceived, TotalOf
  <1> QED BY <1>1, <1>3, <1>4

-----------------------------------------------------------------------------
(* Lines and items as they are stored, one by one. *)

\* t is s and one more, e.
OneMoreIn(t, s, e, n) ==
    s = [k \in 1..n |-> t[k]] /\ t = [k \in 1..(n + 1) |-> t[k]] /\ t[n + 1] = e

\* A sequence with one more at its end.
LEMMA Extended ==
    ASSUME NEW n \in Nat, NEW s, NEW t, NEW e, OneMoreIn(t, s, e, n)
    PROVE  Append(s, e) = t /\ Len(s) = n
  <1> USE DEF OneMoreIn
  <1> PICK m : m = n + 1
    OBVIOUS
  <1>1. s = [k \in 1..n |-> s[k]] /\ \A k \in 1..n : s[k] = t[k]
    OBVIOUS
  <1>2. IsSeq(s) /\ Len(s) = n /\ DOMAIN s = 1..n
    BY ONLY n \in Nat, <1>1, IsSequence
  <1>3. m \in Nat /\ t = [k \in 1..m |-> t[k]]
    OBVIOUS
  <1>4. IsSeq(t) /\ Len(t) = m /\ DOMAIN t = 1..m
    BY ONLY <1>3, IsSequence
  <1> DEFINE S == Range(s) \cup Range(t)
  <1>5. s \in Seq(S) /\ t \in Seq(S)
    BY <1>2, <1>4, SeqMonotonic DEF IsSeq
  <1>6. e \in S
    <2>1. m \in DOMAIN t /\ t[m] = e
      BY <1>3, <1>4
    <2> QED BY <2>1 DEF Range
  <1> HIDE DEF S
  <1> PICK r : r = Append(s, e)
    OBVIOUS
  <1>7. r \in Seq(S) /\ Len(r) = n + 1 /\ \A k \in 1..(n + 1) : r[k] = IF k = n + 1 THEN e ELSE s[k]
    BY <1>2, <1>5, <1>6, AppendProperties
  <1>8. \A k \in 1..m : r[k] = t[k]
    <2> SUFFICES ASSUME NEW k \in 1..m PROVE r[k] = t[k]
      OBVIOUS
    <2>1. CASE k = m
      BY <1>7, <2>1
    <2>2. CASE k # m
      <3>1. k \in 1..n /\ k # n + 1 /\ k \in 1..(n + 1)
        BY <2>2
      <3> QED BY <1>1, <1>7, <3>1
    <2> QED BY <2>1, <2>2
  <1>9. r = t
    BY <1>4, <1>5, <1>7, <1>8, SeqEqual
  <1> QED BY <1>2, <1>9

\* A sequence of no members.
LEMMA NothingYet ==
    ASSUME NEW s, s = [k \in 1..0 |-> s[k]]
    PROVE  s = <<>>
  <1>1. IsSeq(s) /\ Len(s) = 0
    BY ONLY IsSequence, s = [k \in 1..0 |-> s[k]], 0 \in Nat
  <1> QED BY <1>1, EmptySeq DEF IsSeq

\* Each line is appended not yet owed, and becomes owed with its state.
LEMMA StoredSteps ==
    ASSUME NEW lines, NEW n \in Nat \ {0}, lines[n] = Line(lines[n].account, lines[n].amount)
    PROVE  /\ Append(Stored(lines, n - 1, n - 1), lines[n]) = Stored(lines, n, n - 1)
           /\ [Stored(lines, n, n - 1) EXCEPT ![n].owed = lines[n].account # Nobody]
                = Stored(lines, n, n)
           /\ Len(Stored(lines, n, n - 1)) = n
  <1> PICK m, s, t, u : /\ m = n - 1 /\ s = Stored(lines, m, m) /\ t = Stored(lines, n, m)
                        /\ u = Stored(lines, n, n)
    OBVIOUS
  <1>1. /\ m \in Nat /\ n = m + 1 /\ \A k \in 1..m : k <= m /\ k <= n /\ k \in 1..n
        /\ n \in 1..n /\ ~ (n <= m) /\ n <= n /\ \A k \in 1..n : k <= n /\ (k = n \/ k \in 1..m)
    OBVIOUS
  <1>2. /\ s = [k \in 1..m |-> t[k]] /\ t = [k \in 1..n |-> t[k]]
    BY <1>1 DEF Stored
  <1>3. t[n] = lines[n]
    <2>1. t[n] = [account |-> lines[n].account, amount |-> lines[n].amount, owed |-> FALSE]
      BY <1>1 DEF Stored
    <2> QED BY <2>1 DEF Line
  <1>4. Append(s, lines[n]) = t
    <2> PICK e : e = lines[n]
      OBVIOUS
    <2>1. OneMoreIn(t, s, e, m) /\ m \in Nat
      BY ONLY <1>1, <1>2, <1>3, e = lines[n] DEF OneMoreIn
    <2>2. Append(s, e) = t
      BY ONLY <2>1, Extended
    <2> QED BY <2>2
  <1>5. [t EXCEPT ![n].owed = lines[n].account # Nobody] = u
    <2> PICK flag : flag = (lines[n].account # Nobody)
      OBVIOUS
    <2> PICK r : r = [t EXCEPT ![n].owed = flag]
      OBVIOUS
    <2>1. DOMAIN r = 1..n /\ DOMAIN u = 1..n /\ u = [k \in 1..n |-> u[k]] /\ r = [k \in 1..n |-> r[k]]
      <3>1. DOMAIN t = 1..n /\ DOMAIN u = 1..n /\ u = [k \in 1..n |-> u[k]]
        BY DEF Stored
      <3>2. r = [k \in DOMAIN t |-> IF k = n THEN [t[n] EXCEPT !.owed = flag] ELSE t[k]]
        OBVIOUS
      <3> QED BY ONLY <3>1, <3>2
    <2>2. \A k \in 1..m : r[k] = u[k]
      <3> SUFFICES ASSUME NEW k \in 1..m PROVE r[k] = u[k]
        OBVIOUS
      <3>1. k \in 1..n /\ k # n /\ k <= m /\ k <= n
        BY <1>1
      <3>2. r[k] = t[k]
        BY <1>2, <3>1
      <3>3. t[k] = u[k]
        BY <3>1 DEF Stored
      <3> QED BY <3>2, <3>3
    <2>3. r[n] = u[n]
      <3>1. r[n] = [t[n] EXCEPT !.owed = flag]
        BY <1>1, <1>2
      <3>2. u[n] = [account |-> lines[n].account, amount |-> lines[n].amount,
                    owed |-> lines[n].account # Nobody]
        BY <1>1 DEF Stored
      <3>3. t[n] = [account |-> lines[n].account, amount |-> lines[n].amount, owed |-> FALSE]
        BY <1>3 DEF Line
      <3> QED BY <3>1, <3>2, <3>3
    <2>4. \A k \in 1..n : r[k] = u[k]
      BY <1>1, <2>2, <2>3
    <2> QED BY <2>1, <2>4
  <1>6. Len(t) = n
    <2>1. t = [k \in 1..n |-> t[k]] /\ n \in Nat
      BY <1>2
    <2> QED BY ONLY <2>1, IsSequence
  <1> QED BY <1>4, <1>5, <1>6

\* Whole, the document of a bill that adds up balances, and owes its supplier the gross.
LEMMA DocumentBalances ==
    ASSUME NEW bill \in Bills, bill.supplier # Nobody, AddsUp(bill),
           NEW lines, lines = InvoiceLines(bill), NEW c, c = Len(lines),
           NEW stored, stored = Stored(lines, c, c)
    PROVE  /\ TotalOf(stored) = 0 /\ 1 \in DOMAIN stored
           /\ stored[1] = [account |-> bill.supplier, amount |-> -Cents(bill.gross), owed |-> TRUE]
  <1>1. /\ IsSeq(lines) /\ c \in {2, 3} /\ DOMAIN lines = 1..c
        /\ lines[1] = Line(bill.supplier, -Cents(bill.gross))
        /\ lines[2] = Line(Nobody, NetOf(bill))
        /\ IF c = 3 THEN lines[3] = Line(Nobody, TaxOf(bill)) ELSE TaxOf(bill) = 0
    BY ONLY bill \in Bills, lines = InvoiceLines(bill), c = Len(lines), InvoiceLinesAre
  <1>2. 1 \in 1..c /\ 2 \in 1..c /\ 1 <= c /\ (c = 3 => 3 \in 1..c)
    BY <1>1
  <1> PICK gross, net, tax : gross = Cents(bill.gross) /\ net = NetOf(bill) /\ tax = TaxOf(bill)
    OBVIOUS
  <1> PICK due : due = -Cents(bill.gross)
    OBVIOUS
  <1>3. gross \in Int /\ net \in Int /\ tax \in Int /\ gross = net + tax
    <2>1. Cents(bill.gross) \in Int /\ NetOf(bill) \in Int /\ TaxOf(bill) \in Int
      BY ONLY bill \in Bills, BillIs
    <2>2. Cents(bill.gross) = NetOf(bill) + TaxOf(bill)
      BY ONLY AddsUp(bill) DEF AddsUp
    <2> QED BY <2>1, <2>2
  <1>4. /\ DOMAIN stored = 1..c /\ \A k \in 1..c : stored[k].amount = lines[k].amount
        /\ stored[1] = [account |-> lines[1].account, amount |-> lines[1].amount,
                        owed |-> lines[1].account # Nobody]
    BY <1>2 DEF Stored
  <1>5. /\ lines[1].account = bill.supplier /\ lines[1].amount = due /\ lines[2].amount = net
        /\ (c = 3 => lines[3].amount = tax) /\ (c = 2 => tax = 0)
    <2>1. /\ lines[1] = Line(bill.supplier, due) /\ lines[2] = Line(Nobody, net)
          /\ IF c = 3 THEN lines[3] = Line(Nobody, tax) ELSE tax = 0
      BY <1>1, Zenon
    <2> QED BY ONLY <2>1 DEF Line
  <1>6. /\ stored[1].amount = due /\ stored[2].amount = net /\ (c = 3 => stored[3].amount = tax)
    BY <1>2, <1>4, <1>5
  <1>10. due = -gross /\ due \in Int
    BY <1>3
  <1>7. \A k \in 1..c : stored[k].amount \in Int
    <2>1. \A k \in 1..c : k = 1 \/ k = 2 \/ (k = 3 /\ c = 3)
      BY <1>1
    <2> QED BY ONLY <1>3, <1>10, <1>6, <2>1
  <1>8. TotalOf(stored) = stored[1].amount + stored[2].amount + (IF c = 3 THEN stored[3].amount ELSE 0)
    <2>1. c \in {2, 3} /\ DOMAIN stored = 1..c
      BY <1>1, <1>4
    <2> QED BY ONLY <2>1, <1>7, TotalOfFew
  <1>9. TotalOf(stored) = 0
    BY ONLY <1>1, <1>3, <1>5, <1>6, <1>8, <1>10
  <1>11. stored[1] = [account |-> bill.supplier, amount |-> due, owed |-> TRUE]
    BY <1>4, <1>5, Zenon
  <1> QED BY <1>2, <1>4, <1>9, <1>11

-----------------------------------------------------------------------------
(* A bill in hand: the write it has come to, and what is left after it. *)

\* What is left of a bill's writes begins with the i-th.
LEMMA BillTodo ==
    ASSUME NEW bill \in Bills, NEW by, NEW references, NEW i, BillInHand(by, bill, references, i),
           NEW w, w = BillWrites(by, bill, references)
    PROVE  /\ InOrder(w, by, bill, references) /\ i \in 1..WritesOf(by, bill)
           /\ todo # <<>> /\ Head(todo) = w[i] /\ Last(todo) = w[WritesOf(by, bill)]
           /\ IsSeq(Tail(todo))
           /\ IF i = WritesOf(by, bill) THEN Tail(todo) = <<>>
              ELSE i + 1 \in 1..WritesOf(by, bill) /\ Tail(todo) = SubSeq(w, i + 1, Len(w))
  <1>1. InOrder(w, by, bill, references)
    BY BillWritesAre
  <1>2. IsSeq(w) /\ Len(w) = WritesOf(by, bill)
    BY <1>1 DEF InOrder
  <1>3. IsSeq(w) /\ Left(w, i)
    BY <1>2 DEF BillInHand
  <1>4. /\ i \in 1..Len(w) /\ todo # <<>> /\ Head(todo) = w[i] /\ Last(todo) = w[Len(w)]
        /\ IsSeq(Tail(todo))
        /\ IF i = Len(w) THEN Tail(todo) = <<>>
           ELSE i + 1 \in 1..Len(w) /\ Tail(todo) = SubSeq(w, i + 1, Len(w))
    BY ONLY <1>3, AfterWrite
  <1> QED BY ONLY <1>1, <1>2, <1>4

\* What the i-th write of a bill does.
BillDoing(by, bill, references, i, lines, row, count) ==
    /\ i \in 1..WritesOf(by, bill)
    /\ i = 1 => Head(todo) = DrawFrom("entry")
    /\ i = 2 => Head(todo).does = "head" /\ Head(todo).what = by
    /\ \A n \in 1..Len(lines) :
         /\ i = 2 * n + 1 => Head(todo).does = "line" /\ Head(todo).what = lines[n]
         /\ i = 2 * n + 2 => Head(todo).does = "state" /\ Head(todo).what = lines[n].account
    /\ i = row - 1 => Head(todo) = DrawFrom("invoice")
    /\ i = row => /\ Head(todo).does = "invoice"
                  /\ Head(todo).what = [party |-> bill.supplier, gross |-> Cents(bill.gross)]
    /\ \A n \in 1..count : i = row + n =>
         /\ Head(todo).does = "item"
         /\ Head(todo).what = [position |-> bill.items[n].position,
                               receipt |-> references[n]]
    /\ by # 0 /\ i = row + count + 1 => Head(todo) = Write("outcome", 0, TRUE)
    /\ by # 0 /\ i = row + count + 2 =>
         Head(todo) = Write("file", [status |-> "53", payload |-> bill], TRUE)

\* What a bill's writes do, by their place.
LEMMA BillDoes ==
    ASSUME NEW bill \in Bills, NEW by, NEW references, NEW i, BillInHand(by, bill, references, i),
           NEW lines, NEW row, NEW count, Shape(bill, lines, row, count)
    PROVE  BillDoing(by, bill, references, i, lines, row, count)
  <1> PICK w : w = BillWrites(by, bill, references)
    OBVIOUS
  <1>1. InOrder(w, by, bill, references) /\ i \in 1..WritesOf(by, bill) /\ Head(todo) = w[i]
    BY BillTodo
  <1>2. lines = InvoiceLines(bill) /\ row = RowAt(bill) /\ count = Len(bill.items)
    BY DEF Shape
  <1>3. /\ w[1] = DrawFrom("entry") /\ w[2].does = "head" /\ w[2].what = by
        /\ \A n \in 1..Len(lines) :
             /\ w[2 * n + 1].does = "line" /\ w[2 * n + 1].what = lines[n]
             /\ w[2 * n + 2].does = "state" /\ w[2 * n + 2].what = lines[n].account
        /\ w[row - 1] = DrawFrom("invoice") /\ w[row].does = "invoice"
        /\ w[row].what = [party |-> bill.supplier, gross |-> Cents(bill.gross)]
        /\ \A n \in 1..count :
             /\ w[row + n].does = "item"
             /\ w[row + n].what = [position |-> bill.items[n].position, receipt |-> references[n]]
        /\ by # 0 =>
             /\ w[row + count + 1] = Write("outcome", 0, TRUE)
             /\ w[row + count + 2] = Write("file", [status |-> "53", payload |-> bill], TRUE)
    BY ONLY <1>1, <1>2 DEF InOrder
  <1> PICK next : next = Head(todo)
    OBVIOUS
  <1>4. next = w[i] /\ i \in 1..WritesOf(by, bill)
    BY <1>1
  <1>5. /\ i = 1 => next = DrawFrom("entry")
        /\ i = 2 => next.does = "head" /\ next.what = by
        /\ i = row - 1 => next = DrawFrom("invoice")
        /\ i = row => /\ next.does = "invoice"
                      /\ next.what = [party |-> bill.supplier, gross |-> Cents(bill.gross)]
        /\ by # 0 /\ i = row + count + 1 => next = Write("outcome", 0, TRUE)
        /\ by # 0 /\ i = row + count + 2 =>
                next = Write("file", [status |-> "53", payload |-> bill], TRUE)
    BY ONLY <1>3, <1>4
  <1>6. ASSUME NEW n \in 1..Len(lines)
        PROVE  /\ i = 2 * n + 1 => next.does = "line" /\ next.what = lines[n]
               /\ i = 2 * n + 2 => next.does = "state" /\ next.what = lines[n].account
    BY ONLY <1>3, <1>4, n \in 1..Len(lines)
  <1>7. ASSUME NEW n \in 1..count
        PROVE  i = row + n =>
                /\ next.does = "item"
                /\ next.what = [position |-> bill.items[n].position, receipt |-> references[n]]
    BY ONLY <1>3, <1>4, n \in 1..count
  <1> QED BY ONLY <1>4, <1>5, <1>6, <1>7, next = Head(todo) DEF BillDoing

\* The write done, the bill is still in hand, one write further.
LEMMA HandedOn ==
    ASSUME NEW bill \in Bills, NEW by \in {0, drawn["idoc"]}, NEW references, NEW i,
           BillInHand(by, bill, references, i), todo' = Tail(todo),
           drawn'["idoc"] = drawn["idoc"], receipts' = receipts,
           i < WritesOf(by, bill) => Progress(by, bill, references, i + 1)'
    PROVE  TodoOK' /\ InHand'
  <1> PICK w : w = BillWrites(by, bill, references)
    OBVIOUS
  <1>1. /\ InOrder(w, by, bill, references) /\ i \in 1..WritesOf(by, bill)
        /\ IsSeq(Tail(todo))
        /\ IF i = WritesOf(by, bill) THEN Tail(todo) = <<>>
           ELSE i + 1 \in 1..WritesOf(by, bill) /\ Tail(todo) = SubSeq(w, i + 1, Len(w))
    BY BillTodo
  <1>2. CASE i = WritesOf(by, bill)
    BY <1>1, <1>2 DEF InHand, TodoOK, IsSeq
  <1>3. CASE i # WritesOf(by, bill)
    <2> PICK j : j = i + 1
      OBVIOUS
    <2>1. j \in 1..WritesOf(by, bill) /\ i < WritesOf(by, bill)
      <3>1. Len(w) = WritesOf(by, bill) /\ IsSeq(w)
        BY <1>1 DEF InOrder
      <3>2. WritesOf(by, bill) \in Nat
        BY <3>1, LenProperties DEF IsSeq
      <3> QED BY <1>1, <1>3, <3>2
    <2>2. Left(w, j)'
      BY <1>1, <1>3, <2>1 DEF Left, InOrder
    <2>3. Progress(by, bill, references, j)'
      BY <2>1
    <2>4. Resolved(bill, references) /\ bill.supplier # Nobody /\ AddsUp(bill)
      BY DEF BillInHand
    <2>5. Resolved(bill, references)' /\ ReceivedLines' = ReceivedLines
      BY <2>4 DEF Resolved, ReceivedLines, ReceivedUnder
    <2>6. BillInHand(by, bill, references, j)'
      BY ONLY <2>2, <2>3, <2>4, <2>5, w = BillWrites(by, bill, references) DEF BillInHand
    <2>7. by \in {0, drawn'["idoc"]} /\ references \in [DOMAIN bill.items -> {NoReceipt} \cup ReceivedLines']
      BY <2>4, <2>5 DEF Resolved
    <2>8. IsSeq(todo')
      BY <1>1
    <2> QED BY <2>1, <2>6, <2>7, <2>8 DEF InHand, TodoOK
  <1> QED BY <1>2, <1>3

-----------------------------------------------------------------------------
(* How far the document, the invoice and the filing are before a write. *)

\* No invoice is of the document drawn last.
NoInvoiceYet == \A n \in DOMAIN invoices : invoices[n].document # drawn["entry"]

\* The document before its n-th line is written,
LEMMA EntryBeforeLine ==
    ASSUME NEW bill \in Bills, NEW by, NEW lines, NEW row, NEW count,
           Shape(bill, lines, row, count), NEW n \in 1..Len(lines), NEW j, j = 2 * n + 1,
           NoInvoiceYet', NEW m, m = n - 1, EntryHolds(by, lines, m, m)'
    PROVE  EntryIsAt(by, bill, j)'
  <1> PICK c : c = Len(lines)
    OBVIOUS
  <1>1. c \in {2, 3} /\ lines = InvoiceLines(bill)
    BY ShapeOf DEF Shape
  <1>2. /\ ~ (j > 2 * c + 2) /\ \A k \in 1..c : j # 2 * k + 2
        /\ \A k \in 1..c : j = 2 * k + 1 => k - 1 = m
    BY <1>1
  <1> QED BY <1>1, <1>2 DEF EntryIsAt, NoInvoiceYet

\* before the n-th line's state is,
LEMMA EntryBeforeState ==
    ASSUME NEW bill \in Bills, NEW by, NEW lines, NEW row, NEW count,
           Shape(bill, lines, row, count), NEW n \in 1..Len(lines), NEW j, j = 2 * n + 2,
           NoInvoiceYet', NEW m, m = n - 1, EntryHolds(by, lines, n, m)'
    PROVE  EntryIsAt(by, bill, j)'
  <1> PICK c : c = Len(lines)
    OBVIOUS
  <1>1. c \in {2, 3} /\ lines = InvoiceLines(bill)
    BY ShapeOf DEF Shape
  <1>2. /\ ~ (j > 2 * c + 2) /\ \A k \in 1..c : j # 2 * k + 1
        /\ \A k \in 1..c : j = 2 * k + 2 => k = n /\ k - 1 = m
    BY <1>1
  <1> QED BY <1>1, <1>2 DEF EntryIsAt, NoInvoiceYet

\* and when it is whole.
LEMMA EntryWhole ==
    ASSUME NEW bill \in Bills, NEW by, NEW lines, NEW row, NEW count,
           Shape(bill, lines, row, count), NEW c, c = Len(lines), NEW j \in Nat, j > 2 * c + 2,
           j <= row => NoInvoiceYet', EntryHolds(by, lines, c, c)'
    PROVE  EntryIsAt(by, bill, j)'
  <1>1. c \in {2, 3} /\ lines = InvoiceLines(bill) /\ row = RowAt(bill) /\ row \in Nat
    BY ShapeOf DEF Shape
  <1>2. \A k \in 1..c : j # 2 * k + 1 /\ j # 2 * k + 2
    BY <1>1
  <1>3. j \in 2..RowAt(bill) => j <= row
    BY <1>1
  <1> QED BY <1>1, <1>2, <1>3 DEF EntryIsAt, NoInvoiceYet

\* Before its row nothing of an invoice is there.
LEMMA RowNotYet ==
    ASSUME NEW bill \in Bills, NEW references, NEW lines, NEW row, NEW count,
           Shape(bill, lines, row, count), NEW j \in Nat, j < row
    PROVE  RowIsAt(bill, references, j)'
  <1>1. row = RowAt(bill) /\ row \in Nat /\ count \in Nat /\ count = Len(bill.items)
    BY ShapeOf DEF Shape
  <1>2. /\ j # row /\ \A n \in 0..count : j # row + 1 + n /\ ~ (j > row + 1 + count)
        /\ j \notin row..(row + 1 + count)
    BY <1>1
  <1>3. ~ (j > row + 1 + count)
    BY <1>1
  <1> QED BY <1>1, <1>2, <1>3 DEF RowIsAt

\* Until the outcome is filed.
LEMMA NotFiledYet ==
    ASSUME NEW bill \in Bills, NEW by, NEW lines, NEW row, NEW count,
           Shape(bill, lines, row, count), NEW i \in Nat, NEW j, j = i + 1,
           by # 0 => j < row + count + 2, FileIsAt(by, bill, i), UNCHANGED <<outcomes, idocs>>
    PROVE  FileIsAt(by, bill, j)'
  <1>1. row = RowAt(bill) /\ row \in Nat /\ count \in Nat /\ count = Len(bill.items)
    BY ShapeOf DEF Shape
  <1> PICK last : last = row + count + 2
    OBVIOUS
  <1>2. by # 0 => i < last /\ j < last /\ j # last
    BY <1>1
  <1>3. last = RowAt(bill) + 2 + Len(bill.items)
    BY <1>1
  <1> QED BY <1>2, <1>3 DEF FileIsAt

-----------------------------------------------------------------------------
(* The writes of a bill: its document. *)

\* The first write: a number nothing is under.
LEMMA BillDrawsEntry ==
    ASSUME TablesOK, NEW bill \in Bills, NEW by, NEW references, BillInHand(by, bill, references, 1),
           NEW lines, NEW row, NEW count, Shape(bill, lines, row, count), DrawNumber
    PROVE  TablesOK' /\ Progress(by, bill, references, 2)'
  <1>1. Head(todo) = DrawFrom("entry")
    BY BillDoes DEF BillDoing
  <1>2. drawn' = [drawn EXCEPT !["entry"] = @ + 1] /\ UNCHANGED tables
    <2>1. Head(todo).range = "entry"
      BY <1>1 DEF DrawFrom
    <2> QED BY <2>1 DEF DrawNumber
  <1>3. /\ TablesOK' /\ drawn'["entry"] = drawn["entry"] + 1 /\ drawn["entry"] \in Nat
    BY <1>2, DrawKeeps DEF Ranges
  <1>4. NoInvoiceYet'
    <2> SUFFICES ASSUME NEW n \in DOMAIN invoices PROVE invoices[n].document # drawn'["entry"]
      BY <1>2 DEF NoInvoiceYet, tables
    <2>1. invoices[n].document \in 0..drawn["entry"]
      BY DEF TablesOK, PropertiesOK, InvoiceHasItsPayable, NumbersOK
    <2> QED BY <1>3, <2>1
  <1>5. /\ row \in Nat /\ row >= 8 /\ lines = InvoiceLines(bill) /\ count \in Nat
        /\ Len(lines) \in {2, 3}
    BY ShapeOf DEF Shape
  <1>6. EntryIsAt(by, bill, 2)'
    <2>1. /\ \A n \in 1..Len(lines) : 2 # 2 * n + 1 /\ 2 # 2 * n + 2
          /\ ~ (2 > 2 * Len(lines) + 2)
      BY <1>5
    <2> QED BY <1>4, <1>5, <2>1 DEF EntryIsAt, NoInvoiceYet
  <1>7. RowIsAt(bill, references, 2)'
    BY <1>5, RowNotYet
  <1>8. FileIsAt(by, bill, 2)'
    <2>1. 1 \in Nat /\ 2 = 1 + 1 /\ 2 < row + count + 2
      BY <1>5
    <2>2. UNCHANGED <<outcomes, idocs>> /\ FileIsAt(by, bill, 1)
      BY <1>2 DEF tables, BillInHand, Progress
    <2> QED BY <2>1, <2>2, NotFiledYet
  <1> QED BY <1>3, <1>6, <1>7, <1>8 DEF Progress

\* What StoreEntry does to the document drawn last.
LEMMA EntryStored ==
    ASSUME StoreEntry, NEW d, d = drawn["entry"]
    PROVE  /\ Head(todo).does \in {"head", "line", "state"}
           /\ Head(todo).does = "head" =>
                /\ d \in DOMAIN entries'
                /\ entries'[d] = [by |-> Head(todo).what, lines |-> <<>>]
           /\ Head(todo).does = "line" /\ d \in DOMAIN entries =>
                /\ d \in DOMAIN entries'
                /\ entries'[d] = [entries[d] EXCEPT !.lines = Append(@, Head(todo).what)]
           /\ Head(todo).does = "state" /\ d \in DOMAIN entries =>
                /\ d \in DOMAIN entries'
                /\ entries'[d] = [entries[d] EXCEPT
                      !.lines[Len(entries[d].lines)].owed = Head(todo).what # Nobody]
           /\ OnlyAt(entries, entries', d)
           /\ todo' = Tail(todo)
           /\ UNCHANGED <<receipts, invoices, outcomes, idocs, drawn>>
  <1>1. CASE Doing("head")
    <2>1. entries' = Put(entries, d, [by |-> Head(todo).what, lines |-> <<>>])
      BY <1>1 DEF StoreEntry, Doing
    <2>2. OnlyAt(entries, entries', d) /\ d \in DOMAIN entries'
            /\ entries'[d] = [by |-> Head(todo).what, lines |-> <<>>]
      BY <2>1 DEF Put, OnlyAt
    <2> QED BY <1>1, <2>2 DEF StoreEntry, Doing, Done
  <1>2. CASE Doing("line")
    <2>1. entries' = [entries EXCEPT ![d].lines = Append(@, Head(todo).what)]
      BY <1>2 DEF StoreEntry, Doing
    <2>2. /\ OnlyAt(entries, entries', d)
          /\ d \in DOMAIN entries =>
                /\ d \in DOMAIN entries'
                /\ entries'[d] = [entries[d] EXCEPT !.lines = Append(@, Head(todo).what)]
      BY <2>1 DEF OnlyAt
    <2> QED BY <1>2, <2>2 DEF StoreEntry, Doing, Done
  <1>3. CASE Doing("state")
    <2>1. entries' = [entries EXCEPT ![d].lines[Len(entries[d].lines)].owed = Head(todo).what # Nobody]
      BY <1>3 DEF StoreEntry, Doing
    <2>2. /\ OnlyAt(entries, entries', d)
          /\ d \in DOMAIN entries =>
                /\ d \in DOMAIN entries'
                /\ entries'[d] = [entries[d] EXCEPT
                      !.lines[Len(entries[d].lines)].owed = Head(todo).what # Nobody]
      BY <2>1 DEF OnlyAt
    <2> QED BY <1>3, <2>2 DEF StoreEntry, Doing, Done
  <1> QED BY <1>1, <1>2, <1>3 DEF StoreEntry

\* The header, the lines and their states of a bill's document, whichever is next.
LEMMA BillStoresEntry ==
    ASSUME TablesOK, NEW bill \in Bills, NEW by, NEW references,
           NEW i \in Nat, BillInHand(by, bill, references, i),
           NEW lines, NEW row, NEW count, Shape(bill, lines, row, count), StoreEntry,
           i \in 2..(row - 2), NEW j, j = i + 1, EntryIsAt(by, bill, j)'
    PROVE  TablesOK' /\ Progress(by, bill, references, j)'
  <1> PICK d : d = drawn["entry"]
    OBVIOUS
  <1>1. /\ OnlyAt(entries, entries', d)
        /\ UNCHANGED <<receipts, invoices, outcomes, idocs, drawn>>
    BY EntryStored
  <1>2. row = RowAt(bill) /\ row \in Nat /\ row >= 8 /\ count \in Nat
    BY ShapeOf DEF Shape
  <1>3. \A n \in DOMAIN invoices : invoices[n].document # d
    <2>1. i \in 2..RowAt(bill)
      BY <1>2
    <2>2. EntryIsAt(by, bill, i)
      BY DEF BillInHand, Progress
    <2> QED BY <2>1, <2>2 DEF EntryIsAt
  <1>4. TablesOK'
    BY <1>1, <1>3, EntryKeeps
  <1>5. j \in Nat /\ j < row /\ j < row + count + 2
    BY <1>2
  <1>6. RowIsAt(bill, references, j)'
    BY <1>5, RowNotYet
  <1>7. FileIsAt(by, bill, j)'
    <2>1. FileIsAt(by, bill, i) /\ UNCHANGED <<outcomes, idocs>>
      BY <1>1 DEF BillInHand, Progress
    <2> QED BY <1>5, <2>1, NotFiledYet
  <1> QED BY <1>4, <1>6, <1>7 DEF Progress

\* A line says what Line puts into it.
LEMMA LineIs ==
    ASSUME NEW bill \in Bills, NEW lines, NEW row, NEW count, Shape(bill, lines, row, count),
           NEW n \in 1..Len(lines)
    PROVE  lines[n] = Line(lines[n].account, lines[n].amount)
  <1> PICK c : c = Len(lines)
    OBVIOUS
  <1>1. lines = InvoiceLines(bill)
    BY DEF Shape
  <1>2. /\ c \in {2, 3}
        /\ lines[1] = Line(bill.supplier, -Cents(bill.gross))
        /\ lines[2] = Line(Nobody, NetOf(bill))
        /\ IF c = 3 THEN lines[3] = Line(Nobody, TaxOf(bill)) ELSE TaxOf(bill) = 0
    BY ONLY bill \in Bills, <1>1, c = Len(lines), InvoiceLinesAre
  <1>3. n = 1 \/ n = 2 \/ (n = 3 /\ c = 3)
    BY <1>2
  <1>4. \E account, amount : lines[n] = Line(account, amount)
    BY <1>2, <1>3
  <1> QED BY <1>4 DEF Line

\* A bill in hand at the header, a line or a state: what is in the document then.
LEMMA NoInvoiceKept ==
    ASSUME NEW bill \in Bills, NEW by, NEW references,
           NEW i \in Nat, BillInHand(by, bill, references, i),
           NEW lines, NEW row, NEW count, Shape(bill, lines, row, count),
           i \in 2..(row - 1), UNCHANGED <<invoices, drawn>>
    PROVE  NoInvoiceYet'
  <1>1. row = RowAt(bill) /\ row \in Nat
    BY ShapeOf DEF Shape
  <1>2. i \in 2..RowAt(bill)
    BY <1>1
  <1>3. EntryIsAt(by, bill, i)
    BY DEF BillInHand, Progress
  <1>4. \A n \in DOMAIN invoices : invoices[n].document # drawn["entry"]
    BY <1>2, <1>3 DEF EntryIsAt
  <1>5. invoices' = invoices /\ drawn' = drawn
    OBVIOUS
  <1> QED BY ONLY <1>4, <1>5 DEF NoInvoiceYet

\* The header: no lines yet.
LEMMA BillStoresHead ==
    ASSUME TablesOK, NEW bill \in Bills, NEW by, NEW references, BillInHand(by, bill, references, 2),
           NEW lines, NEW row, NEW count, Shape(bill, lines, row, count), StoreEntry
    PROVE  TablesOK' /\ Progress(by, bill, references, 3)'
  <1>1. Head(todo).does = "head" /\ Head(todo).what = by
    <2>1. BillDoing(by, bill, references, 2, lines, row, count)
      BY BillDoes
    <2> QED BY ONLY <2>1 DEF BillDoing
  <1> PICK d : d = drawn["entry"]
    OBVIOUS
  <1>2. /\ d \in DOMAIN entries' /\ entries'[d] = [by |-> by, lines |-> <<>>]
        /\ UNCHANGED <<invoices, drawn>>
    BY <1>1, EntryStored
  <1>3. row \in Nat /\ row >= 8 /\ Len(lines) \in {2, 3}
    BY ShapeOf
  <1>4. 2 \in Nat /\ 2 \in 2..(row - 1) /\ 2 \in 2..(row - 2) /\ 3 = 2 + 1
        /\ 1 \in 1..Len(lines) /\ 3 = 2 * 1 + 1 /\ 0 = 1 - 1
    BY ONLY <1>3
  <1>5. NoInvoiceYet'
    BY <1>2, <1>4, NoInvoiceKept
  <1>6. EntryHolds(by, lines, 0, 0)'
    <2> PICK s : s = Stored(lines, 0, 0)
      OBVIOUS
    <2>1. s = [k \in 1..0 |-> s[k]]
      BY DEF Stored
    <2>2. s = <<>>
      BY ONLY <2>1, NothingYet
    <2> QED BY <1>2, <2>2 DEF EntryHolds
  <1>7. EntryIsAt(by, bill, 3)'
    BY <1>4, <1>5, <1>6, EntryBeforeLine
  <1> QED BY <1>4, <1>7, BillStoresEntry

\* A line, not owed yet.
LEMMA BillStoresLine ==
    ASSUME TablesOK, NEW bill \in Bills, NEW by, NEW references,
           NEW i \in Nat, BillInHand(by, bill, references, i),
           NEW lines, NEW row, NEW count, Shape(bill, lines, row, count), StoreEntry,
           NEW n \in 1..Len(lines), i = 2 * n + 1, NEW j, j = i + 1
    PROVE  TablesOK' /\ Progress(by, bill, references, j)'
  <1> PICK d, m : d = drawn["entry"] /\ m = n - 1
    OBVIOUS
  <1>1. Head(todo).does = "line" /\ Head(todo).what = lines[n]
    <2>1. BillDoing(by, bill, references, i, lines, row, count)
      BY BillDoes
    <2> QED BY ONLY <2>1, i = 2 * n + 1, n \in 1..Len(lines) DEF BillDoing
  <1>2. EntryHolds(by, lines, m, m)
    BY DEF BillInHand, Progress, EntryIsAt, Shape
  <1>3. /\ d \in DOMAIN entries' /\ UNCHANGED <<invoices, drawn>>
        /\ entries'[d] = [entries[d] EXCEPT !.lines = Append(@, lines[n])]
    BY <1>1, <1>2, EntryStored DEF EntryHolds
  <1>4. entries'[d] = [by |-> by, lines |-> Append(Stored(lines, m, m), lines[n])]
    <2> PICK r, old, new : /\ r = entries[d] /\ old = Stored(lines, m, m)
                           /\ new = Append(old, lines[n])
      OBVIOUS
    <2>1. r = [by |-> by, lines |-> old]
      BY <1>2 DEF EntryHolds
    <2>2. entries'[d] = [r EXCEPT !.lines = Append(@, lines[n])]
      BY <1>3
    <2>3. entries'[d] = [by |-> by, lines |-> new]
      BY ONLY <2>1, <2>2, new = Append(old, lines[n])
    <2> QED BY <2>3, Zenon
  <1>5. Append(Stored(lines, m, m), lines[n]) = Stored(lines, n, m)
    <2>1. lines[n] = Line(lines[n].account, lines[n].amount) /\ n \in Nat \ {0}
      BY LineIs, ShapeOf
    <2>2. Append(Stored(lines, n - 1, n - 1), lines[n]) = Stored(lines, n, n - 1)
      BY <2>1, StoredSteps
    <2> QED BY <2>2
  <1>6. EntryHolds(by, lines, n, m)'
    BY <1>3, <1>4, <1>5 DEF EntryHolds
  <1>7. row = 2 * Len(lines) + 4 /\ Len(lines) \in {2, 3}
    BY ShapeOf
  <1>8. i \in 2..(row - 1) /\ i \in 2..(row - 2) /\ j = 2 * n + 2
    BY <1>7
  <1>9. NoInvoiceYet'
    BY <1>3, <1>8, NoInvoiceKept
  <1>10. EntryIsAt(by, bill, j)'
    BY <1>6, <1>8, <1>9, EntryBeforeState
  <1> QED BY <1>8, <1>10, BillStoresEntry

\* A line's state, and it is owed.
LEMMA BillStoresState ==
    ASSUME TablesOK, NEW bill \in Bills, NEW by, NEW references,
           NEW i \in Nat, BillInHand(by, bill, references, i),
           NEW lines, NEW row, NEW count, Shape(bill, lines, row, count), StoreEntry,
           NEW n \in 1..Len(lines), i = 2 * n + 2, NEW j, j = i + 1
    PROVE  TablesOK' /\ Progress(by, bill, references, j)'
  <1> PICK d, m, c : d = drawn["entry"] /\ m = n - 1 /\ c = Len(lines)
    OBVIOUS
  <1>1. Head(todo).does = "state" /\ Head(todo).what = lines[n].account
    <2>1. BillDoing(by, bill, references, i, lines, row, count)
      BY BillDoes
    <2> QED BY ONLY <2>1, i = 2 * n + 2, n \in 1..Len(lines) DEF BillDoing
  <1>2. EntryHolds(by, lines, n, m)
    BY DEF BillInHand, Progress, EntryIsAt, Shape
  <1> PICK flag : flag = (lines[n].account # Nobody)
    OBVIOUS
  <1>3. /\ d \in DOMAIN entries' /\ UNCHANGED <<invoices, drawn>>
        /\ entries'[d] = [entries[d] EXCEPT !.lines[Len(entries[d].lines)].owed = flag]
    BY <1>1, <1>2, EntryStored, Zenon DEF EntryHolds
  <1>4. /\ Len(Stored(lines, n, m)) = n
        /\ [Stored(lines, n, m) EXCEPT ![n].owed = flag] = Stored(lines, n, n)
    <2>1. lines[n] = Line(lines[n].account, lines[n].amount) /\ n \in Nat \ {0}
      BY LineIs, ShapeOf
    <2>2. /\ Len(Stored(lines, n, n - 1)) = n
          /\ [Stored(lines, n, n - 1) EXCEPT ![n].owed = lines[n].account # Nobody]
               = Stored(lines, n, n)
      BY <2>1, StoredSteps
    <2> QED BY <2>2, Zenon
  <1>5. entries'[d] = [by |-> by, lines |-> Stored(lines, n, n)]
    <2>1. entries[d] = [by |-> by, lines |-> Stored(lines, n, m)]
      BY <1>2 DEF EntryHolds
    <2> PICK r, old, new : r = entries[d] /\ old = Stored(lines, n, m) /\ new = Stored(lines, n, n)
      OBVIOUS
    <2>2. r = [by |-> by, lines |-> old] /\ Len(old) = n /\ [old EXCEPT ![n].owed = flag] = new
      BY <1>4, <2>1
    <2>3. entries'[d] = [r EXCEPT !.lines[Len(r.lines)].owed = flag]
      BY <1>3
    <2>4. entries'[d] = [r EXCEPT !.lines = [old EXCEPT ![n].owed = flag]]
      BY ONLY <2>2, <2>3
    <2>5. entries'[d] = [by |-> by, lines |-> new]
      BY ONLY <2>2, <2>4
    <2> QED BY <2>5
  <1>6. EntryHolds(by, lines, n, n)'
    BY <1>3, <1>5 DEF EntryHolds
  <1>7. row = 2 * c + 4 /\ c \in {2, 3} /\ row \in Nat
    BY ShapeOf
  <1>8. i \in 2..(row - 1) /\ i \in 2..(row - 2) /\ j = 2 * n + 3 /\ j \in Nat /\ j <= row
    BY <1>7
  <1>9. NoInvoiceYet'
    BY <1>3, <1>8, NoInvoiceKept
  <1>10. EntryIsAt(by, bill, j)'
    <2>1. CASE n = c
      <3>1. j > 2 * c + 2 /\ EntryHolds(by, lines, c, c)'
        BY <1>6, <1>8, <2>1
      <3> QED BY ONLY bill \in Bills, Shape(bill, lines, row, count), c = Len(lines), <1>8, <1>9,
                   <3>1, EntryWhole
    <2>2. CASE n # c
      <3> PICK k : k = n + 1
        OBVIOUS
      <3>1. k \in 1..Len(lines) /\ j = 2 * k + 1 /\ n = k - 1
        BY <1>7, <1>8, <2>2
      <3> QED BY ONLY bill \in Bills, Shape(bill, lines, row, count), <1>6, <1>9, <3>1, EntryBeforeLine
    <2> QED BY <2>1, <2>2
  <1> QED BY <1>8, <1>10, BillStoresEntry

-----------------------------------------------------------------------------
(* The writes of a bill: its invoice. *)

\* From here on the document is whole.
LEMMA DocumentIsWhole ==
    ASSUME NEW bill \in Bills, NEW by, NEW references,
           NEW i \in Nat, BillInHand(by, bill, references, i),
           NEW lines, NEW row, NEW count, Shape(bill, lines, row, count), i >= row - 1
    PROVE  EntryHolds(by, lines, Len(lines), Len(lines))
  <1> PICK c : c = Len(lines)
    OBVIOUS
  <1>1. row = 2 * c + 4 /\ c \in {2, 3} /\ lines = InvoiceLines(bill)
    BY ShapeOf DEF Shape
  <1>2. i > 2 * c + 2
    BY <1>1
  <1> QED BY <1>1, <1>2 DEF BillInHand, Progress, EntryIsAt

\* And stays so when the tables it is in do not change.
LEMMA DocumentStays ==
    ASSUME NEW bill \in Bills, NEW by, NEW references,
           NEW i \in Nat, BillInHand(by, bill, references, i),
           NEW lines, NEW row, NEW count, Shape(bill, lines, row, count), i >= row - 1,
           NEW j, j = i + 1, entries' = entries, drawn'["entry"] = drawn["entry"],
           j <= row => NoInvoiceYet'
    PROVE  EntryIsAt(by, bill, j)'
  <1> PICK c : c = Len(lines)
    OBVIOUS
  <1>1. EntryHolds(by, lines, c, c)
    BY DocumentIsWhole
  <1>2. EntryHolds(by, lines, c, c)'
    BY <1>1 DEF EntryHolds
  <1>3. row = 2 * c + 4 /\ c \in {2, 3}
    BY ShapeOf
  <1>4. j \in Nat /\ j > 2 * c + 2
    BY <1>3
  <1>5. j <= row => NoInvoiceYet'
    OBVIOUS
  <1> QED BY ONLY bill \in Bills, Shape(bill, lines, row, count), c = Len(lines), <1>2, <1>4, <1>5,
             EntryWhole

\* The number of the invoice, once its document is whole.
LEMMA BillDrawsInvoice ==
    ASSUME TablesOK, NEW bill \in Bills, NEW by, NEW references,
           NEW i \in Nat, BillInHand(by, bill, references, i),
           NEW lines, NEW row, NEW count, Shape(bill, lines, row, count), DrawNumber,
           i = row - 1, NEW j, j = i + 1
    PROVE  TablesOK' /\ Progress(by, bill, references, j)'
  <1>1. Head(todo) = DrawFrom("invoice")
    <2>1. BillDoing(by, bill, references, i, lines, row, count)
      BY BillDoes
    <2> QED BY ONLY <2>1, i = row - 1 DEF BillDoing
  <1>2. drawn' = [drawn EXCEPT !["invoice"] = @ + 1] /\ UNCHANGED tables
    <2>1. Head(todo).range = "invoice"
      BY <1>1 DEF DrawFrom
    <2> QED BY <2>1 DEF DrawNumber
  <1>3. /\ TablesOK' /\ drawn'["invoice"] = drawn["invoice"] + 1 /\ drawn["invoice"] \in Nat
        /\ drawn'["entry"] = drawn["entry"]
    BY <1>2, DrawKeeps DEF Ranges
  <1>4. /\ row \in Nat /\ row >= 8 /\ count \in Nat /\ row = RowAt(bill)
        /\ count = Len(bill.items)
    BY ShapeOf DEF Shape
  <1>5. j = row /\ j \in Nat /\ i \in 2..row /\ i >= row - 1
    BY <1>4
  <1>6. EntryIsAt(by, bill, j)'
    <2>1. \A n \in DOMAIN invoices : invoices[n].document # drawn["entry"]
      BY <1>4, <1>5 DEF BillInHand, Progress, EntryIsAt
    <2>2. NoInvoiceYet'
      BY <1>2, <1>3, <2>1 DEF NoInvoiceYet, tables
    <2>3. entries' = entries
      BY <1>2 DEF tables
    <2> QED BY <1>3, <1>5, <2>2, <2>3, DocumentStays
  <1>7. RowIsAt(bill, references, j)'
    <2>1. \A n \in 0..count : j # row + 1 + n
      BY <1>4, <1>5
    <2>2. ~ (j > row + 1 + count)
      BY <1>4, <1>5
    <2>3. drawn'["invoice"] \notin 0..drawn["invoice"]
      BY <1>3
    <2>4. drawn'["invoice"] \notin DOMAIN invoices
      BY <2>3 DEF TablesOK, NumbersOK
    <2>5. \A k \in DOMAIN outcomes : outcomes[k] # drawn'["invoice"]
      BY <2>4 DEF TablesOK, PropertiesOK, OutcomeIsWhatWasPosted
    <2>6. invoices' = invoices /\ outcomes' = outcomes
      BY <1>2 DEF tables
    <2> QED BY <1>4, <2>1, <2>2, <2>4, <2>5, <2>6 DEF RowIsAt
  <1>8. FileIsAt(by, bill, j)'
    <2>1. j < row + count + 2
      BY <1>4, <1>5
    <2>2. UNCHANGED <<outcomes, idocs>> /\ FileIsAt(by, bill, i)
      BY <1>2 DEF tables, BillInHand, Progress
    <2> QED BY <2>1, <2>2, NotFiledYet
  <1> QED BY <1>3, <1>6, <1>7, <1>8 DEF Progress

\* What StoreInvoice does to the invoice drawn last.
LEMMA InvoiceStored ==
    ASSUME StoreInvoice, NEW v, v = drawn["invoice"]
    PROVE  /\ Head(todo).does \in {"invoice", "item"}
           /\ Head(todo).does = "invoice" =>
                /\ v \in DOMAIN invoices'
                /\ invoices'[v] = [party |-> Head(todo).what.party, gross |-> Head(todo).what.gross,
                                   document |-> drawn["entry"], items |-> <<>>]
           /\ Head(todo).does = "item" /\ v \in DOMAIN invoices =>
                /\ v \in DOMAIN invoices'
                /\ invoices'[v] = [invoices[v] EXCEPT !.items = Append(@, Head(todo).what)]
           /\ OnlyAt(invoices, invoices', v)
           /\ todo' = Tail(todo)
           /\ UNCHANGED <<receipts, entries, outcomes, idocs, drawn>>
  <1>1. CASE Doing("invoice")
    <2>1. invoices' = Put(invoices, v, [party |-> Head(todo).what.party,
                                        gross |-> Head(todo).what.gross,
                                        document |-> drawn["entry"], items |-> <<>>])
      BY <1>1 DEF StoreInvoice, Doing
    <2>2. /\ OnlyAt(invoices, invoices', v) /\ v \in DOMAIN invoices'
          /\ invoices'[v] = [party |-> Head(todo).what.party, gross |-> Head(todo).what.gross,
                             document |-> drawn["entry"], items |-> <<>>]
      BY <2>1 DEF Put, OnlyAt
    <2> QED BY <1>1, <2>2 DEF StoreInvoice, Doing, Done
  <1>2. CASE Doing("item")
    <2>1. invoices' = [invoices EXCEPT ![v].items = Append(@, Head(todo).what)]
      BY <1>2 DEF StoreInvoice, Doing
    <2>2. /\ OnlyAt(invoices, invoices', v)
          /\ v \in DOMAIN invoices =>
                /\ v \in DOMAIN invoices'
                /\ invoices'[v] = [invoices[v] EXCEPT !.items = Append(@, Head(todo).what)]
      BY <2>1 DEF OnlyAt
    <2> QED BY <1>2, <2>2 DEF StoreInvoice, Doing, Done
  <1> QED BY <1>1, <1>2 DEF StoreInvoice

\* An invoice of the document just written has its payable.
LEMMA InvoicePays ==
    ASSUME NEW bill \in Bills, NEW by, NEW references,
           NEW i \in Nat, BillInHand(by, bill, references, i),
           NEW lines, NEW row, NEW count, Shape(bill, lines, row, count), i >= row - 1,
           NEW v, v.party = bill.supplier, v.gross = Cents(bill.gross), v.document = drawn["entry"]
    PROVE  Payable(v)
  <1> PICK c, stored : c = Len(lines) /\ stored = Stored(lines, c, c)
    OBVIOUS
  <1>1. EntryHolds(by, lines, c, c)
    BY DocumentIsWhole
  <1>2. v.document \in DOMAIN entries /\ entries[v.document].lines = stored
    BY <1>1 DEF EntryHolds
  <1>3. bill.supplier # Nobody /\ AddsUp(bill) /\ lines = InvoiceLines(bill)
    BY DEF BillInHand, Shape
  <1>4. /\ TotalOf(stored) = 0 /\ 1 \in DOMAIN stored
        /\ stored[1] = [account |-> bill.supplier, amount |-> -Cents(bill.gross), owed |-> TRUE]
    BY ONLY bill \in Bills, <1>3, c = Len(lines), stored = Stored(lines, c, c), DocumentBalances
  <1>5. stored[1] = [account |-> v.party, amount |-> -v.gross, owed |-> TRUE]
    BY <1>4
  <1> QED BY <1>2, <1>4, <1>5 DEF Payable

\* The row of the invoice with its first n items.
LEMMA BillStoresInvoice ==
    ASSUME TablesOK, NEW bill \in Bills, NEW by, NEW references,
           NEW i \in Nat, BillInHand(by, bill, references, i),
           NEW lines, NEW row, NEW count, Shape(bill, lines, row, count), StoreInvoice,
           NEW n \in 0..count, i = row + n, NEW j, j = i + 1, RowHolds(bill, references, n)'
    PROVE  TablesOK' /\ Progress(by, bill, references, j)'
  <1> PICK v : v = drawn["invoice"]
    OBVIOUS
  <1>1. /\ OnlyAt(invoices, invoices', v)
        /\ UNCHANGED <<receipts, entries, outcomes, idocs, drawn>>
    BY InvoiceStored
  <1>2. /\ row \in Nat /\ row >= 8 /\ count \in Nat /\ row = RowAt(bill) /\ count = Len(bill.items)
    BY ShapeOf DEF Shape
  <1>3. i \in row..(row + 1 + count) /\ i >= row - 1 /\ j \in Nat /\ j = row + 1 + n /\ ~ (j <= row)
    BY <1>2, SMTT(30)
  <1>4. \A k \in DOMAIN outcomes : outcomes[k] # v
    BY <1>2, <1>3 DEF BillInHand, Progress, RowIsAt
  <1>5. /\ v \in DOMAIN invoices'
        /\ invoices'[v] = [party |-> bill.supplier, gross |-> Cents(bill.gross),
                           document |-> drawn["entry"], items |-> Items(bill, references, n)]
    BY <1>1 DEF RowHolds
  <1>6. Payable(invoices'[v])
    <2> PICK r : r = invoices'[v]
      OBVIOUS
    <2>1. r.party = bill.supplier /\ r.gross = Cents(bill.gross) /\ r.document = drawn["entry"]
      BY <1>5
    <2>2. Payable(r)
      BY <1>3, <2>1, InvoicePays
    <2> QED BY <2>2
  <1>7. TablesOK'
    BY <1>1, <1>4, <1>5, <1>6, InvoiceKeeps
  <1>8. EntryIsAt(by, bill, j)'
    <2>1. entries' = entries /\ drawn'["entry"] = drawn["entry"] /\ (j <= row => NoInvoiceYet')
      BY <1>1, <1>3
    <2> QED BY <1>3, <2>1, DocumentStays
  <1>9. RowIsAt(bill, references, j)'
    <2>1. j # row /\ ~ (j > row + 1 + count) /\ \A k \in 0..count : j = row + 1 + k => k = n
      BY ONLY <1>2, <1>3, n \in 0..count, SMTT(30)
    <2>2. \A k \in DOMAIN outcomes' : outcomes'[k] # drawn'["invoice"]
      BY <1>1, <1>4
    <2> QED BY <1>2, <2>1, <2>2 DEF RowIsAt
  <1>10. FileIsAt(by, bill, j)'
    <2>1. j < row + count + 2
      BY <1>2, <1>3, SMTT(30)
    <2>2. UNCHANGED <<outcomes, idocs>> /\ FileIsAt(by, bill, i)
      BY <1>1 DEF BillInHand, Progress
    <2> QED BY <2>1, <2>2, NotFiledYet
  <1> QED BY <1>7, <1>8, <1>9, <1>10 DEF Progress

\* The row: an invoice of no items, of a document that is whole.
LEMMA BillStoresRow ==
    ASSUME TablesOK, NEW bill \in Bills, NEW by, NEW references,
           NEW i \in Nat, BillInHand(by, bill, references, i),
           NEW lines, NEW row, NEW count, Shape(bill, lines, row, count), StoreInvoice,
           i = row, NEW j, j = i + 1
    PROVE  TablesOK' /\ Progress(by, bill, references, j)'
  <1> PICK v : v = drawn["invoice"]
    OBVIOUS
  <1>1. /\ Head(todo).does = "invoice"
        /\ Head(todo).what = [party |-> bill.supplier, gross |-> Cents(bill.gross)]
    <2>1. BillDoing(by, bill, references, i, lines, row, count)
      BY BillDoes
    <2> QED BY ONLY <2>1, i = row DEF BillDoing
  <1>2. /\ v \in DOMAIN invoices' /\ drawn' = drawn
        /\ invoices'[v] = [party |-> Head(todo).what.party, gross |-> Head(todo).what.gross,
                           document |-> drawn["entry"], items |-> <<>>]
    BY <1>1, InvoiceStored
  <1>3. Head(todo).what.party = bill.supplier /\ Head(todo).what.gross = Cents(bill.gross)
    BY <1>1
  <1>4. Items(bill, references, 0) = <<>>
    <2> PICK s : s = Items(bill, references, 0)
      OBVIOUS
    <2>1. s = [k \in 1..0 |-> s[k]]
      BY DEF Items
    <2>2. s = <<>>
      BY ONLY <2>1, NothingYet
    <2> QED BY <2>2
  <1>5. RowHolds(bill, references, 0)'
    BY <1>2, <1>3, <1>4 DEF RowHolds
  <1>6. count \in Nat /\ row \in Nat
    BY ShapeOf
  <1>7. 0 \in 0..count /\ i = row + 0
    BY <1>6
  <1> QED BY <1>5, <1>7, BillStoresInvoice

\* An item with the receipt that was found for it.
LEMMA BillStoresItem ==
    ASSUME TablesOK, NEW bill \in Bills, NEW by, NEW references,
           NEW i \in Nat, BillInHand(by, bill, references, i),
           NEW lines, NEW row, NEW count, Shape(bill, lines, row, count), StoreInvoice,
           NEW n \in 1..count, i = row + n, NEW j, j = i + 1
    PROVE  TablesOK' /\ Progress(by, bill, references, j)'
  <1> PICK v, m, item : /\ v = drawn["invoice"] /\ m = n - 1
                        /\ item = [position |-> bill.items[n].position, receipt |-> references[n]]
    OBVIOUS
  <1>1. Head(todo).does = "item" /\ Head(todo).what = item
    <2>1. BillDoing(by, bill, references, i, lines, row, count)
      BY BillDoes
    <2>2. item = [position |-> bill.items[n].position, receipt |-> references[n]]
      OBVIOUS
    <2> QED BY ONLY <2>1, <2>2, i = row + n, n \in 1..count DEF BillDoing
  <1>2. /\ row \in Nat /\ row >= 8 /\ count \in Nat /\ row = RowAt(bill) /\ count = Len(bill.items)
    BY ShapeOf DEF Shape
  <1>3. m \in 0..count /\ i = row + 1 + m /\ n = m + 1 /\ n \in 0..count /\ m \in Nat
    BY <1>2
  <1>4. RowHolds(bill, references, m)
    BY <1>2, <1>3 DEF BillInHand, Progress, RowIsAt
  <1>5. /\ v \in DOMAIN invoices' /\ drawn' = drawn
        /\ invoices'[v] = [invoices[v] EXCEPT !.items = Append(@, item)]
    BY <1>1, <1>4, InvoiceStored DEF RowHolds
  <1>6. Append(Items(bill, references, m), item) = Items(bill, references, n)
    <2> PICK s, t : s = Items(bill, references, m) /\ t = Items(bill, references, n)
      OBVIOUS
    <2>1. \A k \in 1..m : k \in 1..n
      BY <1>3
    <2>2. n \in 1..n
      BY <1>3
    <2>3. s = [k \in 1..m |-> t[k]] /\ t = [k \in 1..n |-> t[k]] /\ t[n] = item
      BY <2>1, <2>2 DEF Items
    <2>4. OneMoreIn(t, s, item, m) /\ m \in Nat
      BY ONLY <1>3, <2>3 DEF OneMoreIn
    <2>5. Append(s, item) = t
      BY ONLY <2>4, Extended
    <2> QED BY <2>5
  <1>7. RowHolds(bill, references, n)'
    <2> PICK r, old, new : /\ r = invoices[v] /\ old = Items(bill, references, m)
                           /\ new = Items(bill, references, n)
      OBVIOUS
    <2>1. r = [party |-> bill.supplier, gross |-> Cents(bill.gross),
               document |-> drawn["entry"], items |-> old]
      BY <1>4 DEF RowHolds
    <2>2. invoices'[v] = [r EXCEPT !.items = Append(@, item)] /\ Append(old, item) = new
      BY <1>5, <1>6
    <2>3. invoices'[v] = [party |-> bill.supplier, gross |-> Cents(bill.gross),
                          document |-> drawn["entry"], items |-> new]
      BY ONLY <2>1, <2>2
    <2> QED BY <1>5, <2>3 DEF RowHolds
  <1> QED BY <1>3, <1>7, BillStoresInvoice

-----------------------------------------------------------------------------
(* The writes of a bill: what is filed. *)

\* After its items an invoice has them all.
LEMMA InvoiceIsWhole ==
    ASSUME NEW bill \in Bills, NEW by, NEW references,
           NEW i \in Nat, BillInHand(by, bill, references, i),
           NEW lines, NEW row, NEW count, Shape(bill, lines, row, count), i >= row + 1 + count
    PROVE  RowHolds(bill, references, count)
  <1>1. row \in Nat /\ count \in Nat /\ row = RowAt(bill) /\ count = Len(bill.items)
    BY ShapeOf DEF Shape
  <1>2. RowIsAt(bill, references, i)
    BY DEF BillInHand, Progress
  <1>3. CASE i = row + 1 + count
    <2>1. count \in 0..count
      BY <1>1
    <2> QED BY <1>1, <1>2, <1>3, <2>1 DEF RowIsAt
  <1>4. CASE i > row + 1 + count
    BY <1>1, <1>2, <1>4 DEF RowIsAt
  <1> QED BY <1>1, <1>3, <1>4

\* The outcome names the invoice just written.
LEMMA BillFilesOutcome ==
    ASSUME TablesOK, NEW bill \in Bills, NEW by, by # 0, by = drawn["idoc"], NEW references,
           NEW i \in Nat, BillInHand(by, bill, references, i),
           NEW lines, NEW row, NEW count, Shape(bill, lines, row, count), FileOutcome,
           i = row + count + 1, NEW j, j = i + 1
    PROVE  TablesOK' /\ Progress(by, bill, references, j)'
  <1> PICK v : v = drawn["invoice"]
    OBVIOUS
  <1>1. /\ row \in Nat /\ row >= 8 /\ count \in Nat /\ row = RowAt(bill) /\ count = Len(bill.items)
    BY ShapeOf DEF Shape
  <1>2. i >= row - 1 /\ i >= row + 1 + count /\ j = row + count + 2 /\ ~ (j <= row) /\ j \in Nat
    <2>1. row \in Nat /\ count \in Nat
      BY <1>1
    <2> QED BY ONLY <2>1, i = row + count + 1, j = i + 1
  <1>3. outcomes' = Put(outcomes, by, v) /\ UNCHANGED <<receipts, entries, invoices, idocs, drawn>>
    BY DEF FileOutcome
  <1>4. /\ DOMAIN outcomes' = DOMAIN outcomes \cup {by} /\ outcomes'[by] = v
        /\ \A k \in DOMAIN outcomes : k # by => outcomes'[k] = outcomes[k]
    BY <1>3 DEF Put
  <1>5. EntryHolds(by, lines, Len(lines), Len(lines)) /\ RowHolds(bill, references, count)
    BY <1>2, DocumentIsWhole, InvoiceIsWhole
  <1>6. by \notin DOMAIN idocs
    BY DEF BillInHand, Progress, FileIsAt
  <1>7. /\ v \in DOMAIN invoices /\ entries[invoices[v].document].by = by
    BY <1>5 DEF EntryHolds, RowHolds
  <1>8. NumbersOK'
    <2>1. by \in 0..drawn["idoc"]
      BY DEF TablesOK, NumbersOK, Ranges
    <2> QED BY <1>3, <1>4, <2>1 DEF TablesOK, NumbersOK
  <1>9. ReceiptsOK' /\ InvoiceHasItsPayable'
    BY <1>3 DEF TablesOK, PropertiesOK, ReceiptsOK, InvoiceHasItsPayable, TotalOf
  <1>10. OutcomeIsWhatWasPosted'
    <2>1. ASSUME NEW k \in DOMAIN outcomes'
          PROVE  /\ outcomes'[k] \in DOMAIN invoices
                 /\ entries[invoices[outcomes'[k]].document].by = k
      <3>1. CASE k = by
        BY <1>4, <1>7, <3>1
      <3>2. CASE k # by
        <4>1. k \in DOMAIN outcomes /\ outcomes'[k] = outcomes[k]
          BY <1>4, <3>2
        <4> QED BY <4>1 DEF TablesOK, PropertiesOK, OutcomeIsWhatWasPosted
      <3> QED BY <3>1, <3>2
    <2>2. ASSUME NEW k \in DOMAIN idocs
          PROVE  /\ idocs[k].status = "53" <=> k \in DOMAIN outcomes'
                 /\ idocs[k].status = "53" =>
                      Len(invoices[outcomes'[k]].items) = Len(idocs[k].payload.items)
      <3>1. k # by /\ (k \in DOMAIN outcomes' <=> k \in DOMAIN outcomes)
        BY <1>4, <1>6
      <3>2. k \in DOMAIN outcomes => outcomes'[k] = outcomes[k]
        BY <1>4, <3>1
      <3> QED BY <3>1, <3>2 DEF TablesOK, PropertiesOK, OutcomeIsWhatWasPosted
    <2> QED BY <1>3, <2>1, <2>2 DEF OutcomeIsWhatWasPosted
  <1>11. BilledWasReceived'
    <2>1. \A k \in DOMAIN idocs : idocs[k].status = "53" => outcomes'[k] = outcomes[k]
      BY <1>4, <1>6 DEF TablesOK, PropertiesOK, OutcomeIsWhatWasPosted
    <2>2. BilledWasReceived
      BY DEF TablesOK, PropertiesOK
    <2>3. UNCHANGED <<receipts, invoices, idocs>>
      BY <1>3
    <2> QED BY ONLY <2>1, <2>2, <2>3, Z3 DEF BilledWasReceived
  <1>12. EntryIsAt(by, bill, j)'
    <2>1. entries' = entries /\ drawn'["entry"] = drawn["entry"] /\ (j <= row => NoInvoiceYet')
      BY <1>2, <1>3
    <2> QED BY <1>2, <2>1, DocumentStays
  <1>13. RowIsAt(bill, references, j)'
    <2>1. /\ j # row /\ j > row + 1 + count /\ j \notin row..(row + 1 + count)
          /\ \A n \in 0..count : j # row + 1 + n
      BY ONLY <1>1, <1>2, SMTT(30)
    <2>2. RowHolds(bill, references, count)'
      BY <1>3, <1>5 DEF RowHolds
    <2> QED BY <1>1, <2>1, <2>2 DEF RowIsAt
  <1>14. FileIsAt(by, bill, j)'
    <2>1. j = RowAt(bill) + 2 + Len(bill.items) /\ ~ (j < RowAt(bill) + 2 + Len(bill.items))
      BY ONLY <1>1, <1>2, SMTT(30)
    <2>2. by \notin DOMAIN idocs' /\ by \in DOMAIN outcomes' /\ outcomes'[by] = drawn'["invoice"]
      BY <1>3, <1>4, <1>6
    <2> QED BY <2>1, <2>2 DEF FileIsAt
  <1> QED BY <1>8, <1>9, <1>10, <1>11, <1>12, <1>13, <1>14 DEF TablesOK, PropertiesOK, Progress

\* The last write of an IDoc: nothing is left to do after it.
LEMMA BillFilesIdoc ==
    ASSUME TablesOK, NEW bill \in Bills, NEW by, by # 0, by = drawn["idoc"], NEW references,
           NEW i \in Nat, BillInHand(by, bill, references, i),
           NEW lines, NEW row, NEW count, Shape(bill, lines, row, count), FileIdoc,
           i = row + count + 2
    PROVE  TablesOK'
  <1> PICK v : v = drawn["invoice"]
    OBVIOUS
  <1>1. /\ row \in Nat /\ row >= 8 /\ count \in Nat /\ row = RowAt(bill) /\ count = Len(bill.items)
        /\ DOMAIN bill.items = 1..count
    BY ShapeOf DEF Shape
  <1>2. i = row + 2 + count /\ i >= row + 1 + count
    BY ONLY <1>1, i = row + count + 2
  <1>3. Head(todo).what = [status |-> "53", payload |-> bill]
    <2>1. BillDoing(by, bill, references, i, lines, row, count)
      BY BillDoes
    <2>2. Head(todo) = Write("file", [status |-> "53", payload |-> bill], TRUE)
      BY ONLY <2>1, by # 0, i = row + count + 2 DEF BillDoing
    <2> QED BY ONLY <2>2 DEF Write
  <1>4. /\ idocs' = Put(idocs, by, [status |-> "53", payload |-> bill])
        /\ UNCHANGED <<receipts, entries, invoices, outcomes, drawn>>
    BY <1>3 DEF FileIdoc
  <1>5. /\ DOMAIN idocs' = DOMAIN idocs \cup {by} /\ idocs'[by] = [status |-> "53", payload |-> bill]
        /\ \A k \in DOMAIN idocs : k # by => idocs'[k] = idocs[k]
    BY <1>4 DEF Put
  <1>6. by \in DOMAIN outcomes /\ outcomes[by] = v
    BY <1>1, <1>2 DEF BillInHand, Progress, FileIsAt
  <1>7. /\ v \in DOMAIN invoices
        /\ invoices[v].items = Items(bill, references, count)
    <2>1. RowHolds(bill, references, count)
      BY <1>2, InvoiceIsWhole
    <2> QED BY <2>1 DEF RowHolds
  <1>8. /\ Len(Items(bill, references, count)) = count
        /\ \A n \in 1..count : Items(bill, references, count)[n].receipt = references[n]
    <2> PICK s : s = Items(bill, references, count)
      OBVIOUS
    <2>1. s = [k \in 1..count |-> s[k]] /\ \A n \in 1..count : s[n].receipt = references[n]
      BY DEF Items
    <2>2. Len(s) = count
      BY ONLY <1>1, <2>1, IsSequence
    <2> QED BY <2>1, <2>2
  <1>9. NumbersOK'
    <2>1. by \in 0..drawn["idoc"]
      BY DEF TablesOK, NumbersOK, Ranges
    <2> QED BY <1>4, <1>5, <2>1 DEF TablesOK, NumbersOK
  <1>10. ReceiptsOK' /\ InvoiceHasItsPayable'
    BY <1>4 DEF TablesOK, PropertiesOK, ReceiptsOK, InvoiceHasItsPayable, TotalOf
  <1>11. OutcomeIsWhatWasPosted'
    <2>1. ASSUME NEW k \in DOMAIN idocs'
          PROVE  /\ idocs'[k].status = "53" <=> k \in DOMAIN outcomes
                 /\ idocs'[k].status = "53" =>
                      Len(invoices[outcomes[k]].items) = Len(idocs'[k].payload.items)
      <3>1. CASE k = by
        BY <1>1, <1>5, <1>6, <1>7, <1>8, <3>1
      <3>2. CASE k # by
        <4>1. k \in DOMAIN idocs /\ idocs'[k] = idocs[k]
          BY <1>5, <3>2
        <4> QED BY <4>1 DEF TablesOK, PropertiesOK, OutcomeIsWhatWasPosted
      <3> QED BY <3>1, <3>2
    <2>2. ASSUME NEW k \in DOMAIN outcomes
          PROVE  /\ outcomes[k] \in DOMAIN invoices
                 /\ entries[invoices[outcomes[k]].document].by = k
      BY DEF TablesOK, PropertiesOK, OutcomeIsWhatWasPosted
    <2> QED BY <1>4, <2>1, <2>2 DEF OutcomeIsWhatWasPosted
  <1>12. BilledWasReceived'
    <2> DEFINE came(item, receipt) ==
                 IF item.note = NoNote THEN receipt = NoReceipt
                 ELSE \E m \in DOMAIN receipts : \E l \in DOMAIN receipts[m].lines :
                         /\ receipt = <<m, l>>
                         /\ receipts[m].note = item.note
                         /\ item.position \in {NoPosition, receipts[m].lines[l]}
    <2>1. \A n \in 1..count : came(bill.items[n], references[n])
      <3>1. Resolved(bill, references)
        BY DEF BillInHand
      <3> QED BY <1>1, <3>1 DEF Resolved, ReceivedUnder
    <2>2. ASSUME NEW k \in DOMAIN idocs, idocs[k].status = "53", NEW n \in DOMAIN idocs[k].payload.items
          PROVE  came(idocs[k].payload.items[n], invoices[outcomes[k]].items[n].receipt)
      BY <2>2 DEF TablesOK, PropertiesOK, BilledWasReceived
    <2>3. \A n \in 1..count : came(bill.items[n], invoices[outcomes[by]].items[n].receipt)
      <3> HIDE DEF came
      <3> QED BY <1>6, <1>7, <1>8, <2>1
    <2>4. ASSUME NEW k \in DOMAIN idocs', idocs'[k].status = "53",
                 NEW n \in DOMAIN idocs'[k].payload.items
          PROVE  came(idocs'[k].payload.items[n], invoices[outcomes[k]].items[n].receipt)
      <3> HIDE DEF came
      <3>1. CASE k = by
        <4>1. idocs'[k].payload.items = bill.items /\ DOMAIN bill.items = 1..count
          BY <1>1, <1>5, <3>1
        <4>2. n \in 1..count
          BY <4>1
        <4> QED BY ONLY <2>3, <3>1, <4>1, <4>2
      <3>2. CASE k # by
        <4>1. k \in DOMAIN idocs /\ idocs'[k] = idocs[k]
          BY <1>5, <3>2
        <4> QED BY <2>2, <2>4, <4>1
      <3> QED BY <3>1, <3>2
    <2>5. UNCHANGED <<receipts, invoices, outcomes>>
      BY <1>4
    <2> QED BY ONLY <2>4, <2>5, Z3 DEF BilledWasReceived
  <1> QED BY <1>9, <1>10, <1>11, <1>12 DEF TablesOK, PropertiesOK

-----------------------------------------------------------------------------
(* A bill in hand, whichever write is next. *)

\* A write is made: anything Commit does but refuse a value.
Commits == DrawNumber \/ StoreReceipt \/ StoreEntry \/ StoreInvoice \/ FileOutcome \/ FileIdoc

\* What the next write does says which commit it is.
LEMMA CommitOf ==
    ASSUME Commits, NEW kind, kind = Head(todo).does
    PROVE  /\ todo # <<>> /\ Head(todo).fits /\ todo' = Tail(todo)
           /\ kind = "draw" => DrawNumber
           /\ kind \in {"receipt", "received"} => StoreReceipt
           /\ kind \in {"head", "line", "state"} => StoreEntry
           /\ kind \in {"invoice", "item"} => StoreInvoice
           /\ kind = "outcome" => FileOutcome
           /\ kind = "file" => FileIdoc
           /\ kind # "draw" => drawn' = drawn
           /\ kind \notin {"receipt", "received"} => receipts' = receipts
  <1>1. CASE DrawNumber
    BY <1>1 DEF DrawNumber, Doing, Done, tables
  <1>2. CASE StoreReceipt
    BY <1>2 DEF StoreReceipt, Doing, Done
  <1>3. CASE StoreEntry
    BY <1>3 DEF StoreEntry, Doing, Done
  <1>4. CASE StoreInvoice
    BY <1>4 DEF StoreInvoice, Doing, Done
  <1>5. CASE FileOutcome
    BY <1>5 DEF FileOutcome, Doing, Done
  <1>6. CASE FileIdoc
    BY <1>6 DEF FileIdoc, Doing, Done
  <1> QED BY <1>1, <1>2, <1>3, <1>4, <1>5, <1>6 DEF Commits

\* Whichever write a bill has come to, the invariant is kept.
LEMMA BillCommits ==
    ASSUME TablesOK, NEW bill \in Bills, NEW by \in {0, drawn["idoc"]}, NEW references,
           NEW i, BillInHand(by, bill, references, i), Commits
    PROVE  IInv'
  <1> PICK lines, row, count, kind, j :
        /\ Shape(bill, lines, row, count) /\ kind = Head(todo).does /\ j = i + 1
    BY DEF Shape
  <1> DEFINE Then == /\ TablesOK' /\ (i < WritesOf(by, bill) => Progress(by, bill, references, j)')
                     /\ drawn'["idoc"] = drawn["idoc"] /\ receipts' = receipts
  <1>1. Then => IInv'
    <2> SUFFICES ASSUME Then PROVE IInv'
      OBVIOUS
    <2>1. todo' = Tail(todo)
      BY CommitOf
    <2>2. TodoOK' /\ InHand'
      BY <2>1, HandedOn
    <2> QED BY <2>2 DEF IInv
  <1>2. BillDoing(by, bill, references, i, lines, row, count)
    BY BillDoes
  <1>3. i \in 1..WritesOf(by, bill) /\ i \in Nat
    <2>1. i \in 1..WritesOf(by, bill)
      BY ONLY <1>2 DEF BillDoing
    <2> QED BY <2>1
  <1>4. /\ row \in Nat /\ row >= 8 /\ count \in Nat /\ row = 2 * Len(lines) + 4
        /\ row = RowAt(bill) /\ count = Len(bill.items)
    BY ShapeOf DEF Shape
  <1>5. CASE i = 1
    <2>1. kind = "draw"
      BY ONLY <1>2, <1>5, kind = Head(todo).does DEF BillDoing, DrawFrom
    <2>2. DrawNumber
      BY <2>1, CommitOf
    <2>3. TablesOK' /\ Progress(by, bill, references, 2)'
      BY <1>5, <2>2, BillDrawsEntry
    <2>4. drawn'["idoc"] = drawn["idoc"] /\ receipts' = receipts
      <3>1. Head(todo).range = "entry"
        BY ONLY <1>2, <1>5 DEF BillDoing, DrawFrom
      <3> QED BY <2>2, <3>1 DEF DrawNumber, tables, TablesOK, NumbersOK, Ranges
    <2>5. j = 2
      BY <1>5
    <2> QED BY <1>1, <2>3, <2>4, <2>5
  <1>6. CASE i = 2
    <2>1. kind = "head"
      BY ONLY <1>2, <1>6, kind = Head(todo).does DEF BillDoing
    <2>2. StoreEntry /\ drawn' = drawn /\ receipts' = receipts
      BY <2>1, CommitOf
    <2>3. TablesOK' /\ Progress(by, bill, references, 3)'
      BY <1>6, <2>2, BillStoresHead
    <2>4. j = 3
      BY <1>6
    <2> QED BY <1>1, <2>2, <2>3, <2>4
  <1>7. ASSUME NEW n \in 1..Len(lines), i = 2 * n + 1 PROVE IInv'
    <2>1. kind = "line"
      BY ONLY <1>2, <1>7, kind = Head(todo).does DEF BillDoing
    <2>2. StoreEntry /\ drawn' = drawn /\ receipts' = receipts
      BY <2>1, CommitOf
    <2>3. TablesOK' /\ Progress(by, bill, references, j)'
      BY <1>3, <1>7, <2>2, BillStoresLine
    <2> QED BY <1>1, <2>2, <2>3
  <1>8. ASSUME NEW n \in 1..Len(lines), i = 2 * n + 2 PROVE IInv'
    <2>1. kind = "state"
      BY ONLY <1>2, <1>8, kind = Head(todo).does DEF BillDoing
    <2>2. StoreEntry /\ drawn' = drawn /\ receipts' = receipts
      BY <2>1, CommitOf
    <2>3. TablesOK' /\ Progress(by, bill, references, j)'
      BY <1>3, <1>8, <2>2, BillStoresState
    <2> QED BY <1>1, <2>2, <2>3
  <1>9. CASE i = row - 1
    <2>1. kind = "draw" /\ Head(todo).range = "invoice"
      BY ONLY <1>2, <1>9, kind = Head(todo).does DEF BillDoing, DrawFrom
    <2>2. DrawNumber
      BY <2>1, CommitOf
    <2>3. TablesOK' /\ Progress(by, bill, references, j)'
      BY <1>3, <1>9, <2>2, BillDrawsInvoice
    <2>4. drawn'["idoc"] = drawn["idoc"] /\ receipts' = receipts
      BY <2>1, <2>2 DEF DrawNumber, tables, TablesOK, NumbersOK, Ranges
    <2> QED BY <1>1, <2>3, <2>4
  <1>10. CASE i = row
    <2>1. kind = "invoice"
      BY ONLY <1>2, <1>10, kind = Head(todo).does DEF BillDoing
    <2>2. StoreInvoice /\ drawn' = drawn /\ receipts' = receipts
      BY <2>1, CommitOf
    <2>3. TablesOK' /\ Progress(by, bill, references, j)'
      BY <1>3, <1>10, <2>2, BillStoresRow
    <2> QED BY <1>1, <2>2, <2>3
  <1>11. ASSUME NEW n \in 1..count, i = row + n PROVE IInv'
    <2>1. kind = "item"
      BY ONLY <1>2, <1>11, kind = Head(todo).does DEF BillDoing
    <2>2. StoreInvoice /\ drawn' = drawn /\ receipts' = receipts
      BY <2>1, CommitOf
    <2>3. TablesOK' /\ Progress(by, bill, references, j)'
      BY <1>3, <1>11, <2>2, BillStoresItem
    <2> QED BY <1>1, <2>2, <2>3
  <1>12. CASE by # 0 /\ i = row + count + 1
    <2>1. kind = "outcome"
      BY ONLY <1>2, <1>12, kind = Head(todo).does DEF BillDoing, Write
    <2>2. FileOutcome /\ drawn' = drawn /\ receipts' = receipts /\ by = drawn["idoc"]
      BY <1>12, <2>1, CommitOf
    <2>3. TablesOK' /\ Progress(by, bill, references, j)'
      BY <1>3, <1>12, <2>2, BillFilesOutcome
    <2> QED BY <1>1, <2>2, <2>3
  <1>13. CASE by # 0 /\ i = row + count + 2
    <2>1. kind = "file"
      BY ONLY <1>2, <1>13, kind = Head(todo).does DEF BillDoing, Write
    <2>2. FileIdoc /\ drawn' = drawn /\ receipts' = receipts /\ by = drawn["idoc"]
      BY <1>13, <2>1, CommitOf
    <2>3. TablesOK'
      BY <1>3, <1>13, <2>2, BillFilesIdoc
    <2>4. ~ (i < WritesOf(by, bill))
      <3>1. WritesOf(by, bill) = row + count + 2
        BY <1>4, <1>13 DEF WritesOf
      <3> QED BY <1>4, <1>13, <3>1
    <2> QED BY <1>1, <2>2, <2>3, <2>4
  <1> HIDE DEF Then
  <1>14. \/ i = 1 \/ i = 2
         \/ \E n \in 1..Len(lines) : i = 2 * n + 1
         \/ \E n \in 1..Len(lines) : i = 2 * n + 2
         \/ i = row - 1 \/ i = row
         \/ \E n \in 1..count : i = row + n
         \/ by # 0 /\ i = row + count + 1
         \/ by # 0 /\ i = row + count + 2
    BY <1>3, WhichWrite
  <1> QED BY ONLY <1>5, <1>6, <1>7, <1>8, <1>9, <1>10, <1>11, <1>12, <1>13, <1>14

\* A value of a bill that is too long: nothing more is written, or the IDoc is filed as in error.
LEMMA TablesStay ==
    ASSUME TablesOK, UNCHANGED <<tables, drawn>>
    PROVE  TablesOK'
  <1>1. UNCHANGED <<receipts, entries, invoices, outcomes, idocs>> /\ drawn' = drawn
    BY DEF tables
  <1>2. NumbersOK' /\ ReceiptsOK'
    BY <1>1 DEF TablesOK, NumbersOK, ReceiptsOK
  <1>3. PropertiesOK'
    BY <1>1 DEF TablesOK, PropertiesOK, InvoiceHasItsPayable, OutcomeIsWhatWasPosted,
                BilledWasReceived, TotalOf
  <1> QED BY <1>2, <1>3 DEF TablesOK

\* With nothing in hand the tables are all there is.
LEMMA NothingInHand ==
    ASSUME TablesOK', todo' = <<>>
    PROVE  IInv'
  BY DEF IInv, TodoOK, IsSeq, InHand

\* A list of one write.
LEMMA OneWrite ==
    ASSUME NEW x, NEW s, s = <<x>>
    PROVE  IsSeq(s) /\ s # <<>> /\ Head(s) = x /\ Last(s) = x /\ Tail(s) = <<>>
  <1>1. s \in Seq({x}) /\ Len(s) = 1 /\ s[1] = x
    OBVIOUS
  <1>2. IsSeq(s)
    BY <1>1, SeqOfRange DEF IsSeq
  <1>3. Head(s) = x /\ Last(s) = x /\ s # <<>>
    BY <1>1 DEF Last
  <1>4. Tail(s) = <<>>
    OBVIOUS
  <1> QED BY <1>2, <1>3, <1>4

\* A refused value: the rows written stay, and an IDoc is filed as not posted.
LEMMA BillRefused ==
    ASSUME TablesOK, NEW bill \in Bills, NEW by \in {0, drawn["idoc"]}, NEW references,
           NEW i, BillInHand(by, bill, references, i), RefuseValue
    PROVE  IInv'
  <1> PICK lines, row, count, w :
        Shape(bill, lines, row, count) /\ w = BillWrites(by, bill, references)
    BY DEF Shape
  <1>1. /\ row \in Nat /\ row >= 8 /\ count \in Nat /\ row = RowAt(bill) /\ count = Len(bill.items)
    BY ShapeOf DEF Shape
  <1>2. InOrder(w, by, bill, references) /\ Last(todo) = w[WritesOf(by, bill)]
        /\ i \in 1..WritesOf(by, bill)
    BY BillTodo
  <1>3. TablesOK'
    BY TablesStay DEF RefuseValue
  <1>4. CASE by = 0
    <2> PICK last : last = row + count
      OBVIOUS
    <2>1. WritesOf(by, bill) = last
      BY <1>1, <1>4 DEF WritesOf
    <2>2. w[last].does \in {"invoice", "item"}
      <3>1. CASE count = 0
        <4>1. last = row
          BY <1>1, <3>1
        <4> QED BY <1>1, <1>2, <4>1 DEF InOrder
      <3>2. CASE count # 0
        <4>1. count \in 1..count
          BY <1>1, <3>2
        <4> QED BY <1>1, <1>2, <4>1 DEF InOrder
      <3> QED BY <3>1, <3>2
    <2>3. todo' = <<>>
      BY <1>2, <2>1, <2>2 DEF RefuseValue
    <2> QED BY <1>3, <2>3, NothingInHand
  <1>5. CASE by # 0
    <2> PICK last, done : last = row + count + 2 /\ done = Write("file", [status |-> "53", payload |-> bill], TRUE)
      OBVIOUS
    <2>1. WritesOf(by, bill) = last
      BY <1>1, <1>5 DEF WritesOf
    <2>2. w[last] = done
      BY <1>1, <1>2, <1>5 DEF InOrder
    <2>3. done.does = "file" /\ done.what.payload = bill
      BY DEF Write
    <2>4. todo' = Declined(bill, "51")
      BY <1>2, <2>1, <2>2, <2>3 DEF RefuseValue
    <2>5. i < last
      <3>1. i # last
        <4>1. BillDoing(by, bill, references, i, lines, row, count)
          BY BillDoes
        <4>2. i = last => Head(todo) = done
          BY ONLY <1>5, <4>1, last = row + count + 2,
                  done = Write("file", [status |-> "53", payload |-> bill], TRUE) DEF BillDoing
        <4>3. done.fits = TRUE
          BY DEF Write
        <4> QED BY <4>2, <4>3 DEF RefuseValue
      <3> QED BY <1>1, <1>2, <2>1, <3>1, SMTT(30)
    <2>6. by \notin DOMAIN idocs /\ by \notin DOMAIN outcomes /\ by = drawn["idoc"]
      <3>1. i < RowAt(bill) + 2 + Len(bill.items)
        BY <1>1, <2>5, SMTT(30)
      <3> QED BY <1>5, <3>1 DEF BillInHand, Progress, FileIsAt
    <2>7. IdocInHand'
      <3>1. UNCHANGED <<idocs, outcomes, drawn>>
        BY DEF RefuseValue, tables
      <3>2. "51" \in NotPosted
        BY DEF NotPosted
      <3> QED BY <2>4, <2>6, <3>1, <3>2 DEF IdocInHand
    <2>8. TodoOK'
      BY <2>4, OneWrite DEF Declined, TodoOK
    <2> QED BY <1>3, <2>7, <2>8 DEF IInv, InHand
  <1> QED BY <1>4, <1>5

-----------------------------------------------------------------------------
(* An IDoc that is not posted. *)

\* An IDoc that is not posted has one write: its own row, without outcome.
LEMMA IdocCommits ==
    ASSUME TablesOK, IdocInHand, Commits \/ RefuseValue
    PROVE  IInv'
  <1> PICK k : k = drawn["idoc"]
    OBVIOUS
  <1> PICK bill \in Bills, status \in NotPosted : todo = Declined(bill, status)
    BY DEF IdocInHand
  <1> PICK row, write : row = [status |-> status, payload |-> bill] /\ write = Write("file", row, TRUE)
    OBVIOUS
  <1>1. Head(todo) = write /\ Tail(todo) = <<>>
    BY OneWrite DEF Declined
  <1>2. write.does = "file" /\ write.what = row /\ write.fits = TRUE
    BY DEF Write
  <1>3. ~ RefuseValue
    BY <1>1, <1>2 DEF RefuseValue
  <1>4. FileIdoc /\ todo' = <<>>
    <2>1. Commits
      BY <1>3
    <2> QED BY <1>1, <1>2, <2>1, CommitOf
  <1>5. /\ idocs' = Put(idocs, k, row)
        /\ UNCHANGED <<receipts, entries, invoices, outcomes, drawn>>
    BY <1>1, <1>2, <1>4 DEF FileIdoc
  <1>6. /\ DOMAIN idocs' = DOMAIN idocs \cup {k} /\ idocs'[k].status # "53"
        /\ k \notin DOMAIN outcomes
        /\ \A x \in DOMAIN idocs : x # k => idocs'[x] = idocs[x]
    <2>1. /\ DOMAIN idocs' = DOMAIN idocs \cup {k} /\ idocs'[k] = row
          /\ \A x \in DOMAIN idocs : x # k => idocs'[x] = idocs[x]
      BY <1>5 DEF Put
    <2>2. row.status # "53"
      BY DEF NotPosted
    <2> QED BY <2>1, <2>2 DEF IdocInHand
  <1>7. NumbersOK'
    <2>1. k \in 0..drawn["idoc"]
      BY DEF TablesOK, NumbersOK, Ranges
    <2> QED BY <1>5, <1>6, <2>1 DEF TablesOK, NumbersOK
  <1>8. ReceiptsOK' /\ InvoiceHasItsPayable'
    BY <1>5 DEF TablesOK, PropertiesOK, ReceiptsOK, InvoiceHasItsPayable, TotalOf
  <1>9. OutcomeIsWhatWasPosted'
    BY <1>5, <1>6 DEF TablesOK, PropertiesOK, OutcomeIsWhatWasPosted
  <1>10. BilledWasReceived'
    <2>1. BilledWasReceived
      BY DEF TablesOK, PropertiesOK
    <2>2. \A x \in DOMAIN idocs' : idocs'[x].status = "53" =>
              x \in DOMAIN idocs /\ idocs'[x] = idocs[x]
      BY <1>6
    <2>3. UNCHANGED <<receipts, invoices, outcomes>>
      BY <1>5
    <2> QED BY ONLY <2>1, <2>2, <2>3, Z3 DEF BilledWasReceived
  <1>11. TablesOK'
    BY <1>7, <1>8, <1>9, <1>10 DEF TablesOK, PropertiesOK
  <1> QED BY <1>4, <1>11, NothingInHand

-----------------------------------------------------------------------------
(* A document posted over RFC. *)

\* The next write, and the others.
LEMMA TodoParts ==
    ASSUME TodoOK, todo # <<>>, NEW rest, rest = Tail(todo)
    PROVE  /\ 1 \in DOMAIN todo /\ Head(todo) = todo[1] /\ IsSeq(rest)
           /\ Len(todo) \in DOMAIN todo /\ Last(todo) = todo[Len(todo)]
           /\ DOMAIN todo \subseteq Nat \ {0}
           /\ \A k \in DOMAIN rest : k \in Nat \ {0} /\ k + 1 \in DOMAIN todo /\ rest[k] = todo[k + 1]
  <1>1. todo \in Seq(Range(todo))
    BY DEF TodoOK, IsSeq
  <1>2. Len(todo) \in Nat /\ Len(todo) # 0 /\ DOMAIN todo = 1..Len(todo)
    BY <1>1, LenProperties, EmptySeq
  <1>3. /\ Head(todo) = todo[1] /\ rest \in Seq(Range(todo)) /\ Len(rest) = Len(todo) - 1
        /\ \A k \in 1..Len(rest) : rest[k] = todo[k + 1]
    BY <1>1, <1>2, HeadTailProperties
  <1>4. DOMAIN rest = 1..Len(rest)
    BY <1>3, LenProperties
  <1>5. IsSeq(rest)
    BY <1>3, SeqOfRange DEF IsSeq
  <1>6. \A k \in 1..Len(rest) : k \in Nat \ {0} /\ k + 1 \in 1..Len(todo)
    BY ONLY <1>2, <1>3
  <1> QED BY <1>2, <1>3, <1>4, <1>5, <1>6 DEF Last

\* A document posted over RFC: no invoice is of it, so any of it may be there.
LEMMA DocumentCommits ==
    ASSUME TablesOK, TodoOK, NEW i \in 1..3, DocumentInHand(i), Commits \/ RefuseValue
    PROVE  IInv'
  <1> PICK rest, kind : rest = Tail(todo) /\ kind = Head(todo).does
    OBVIOUS
  <1>1. todo # <<>>
    BY CommitOf DEF RefuseValue
  <1>2. /\ 1 \in DOMAIN todo /\ Head(todo) = todo[1] /\ IsSeq(rest)
        /\ Len(todo) \in DOMAIN todo /\ Last(todo) = todo[Len(todo)]
        /\ DOMAIN todo \subseteq Nat \ {0}
        /\ \A k \in DOMAIN rest : k \in Nat \ {0} /\ k + 1 \in DOMAIN todo /\ rest[k] = todo[k + 1]
    BY <1>1, TodoParts
  <1>3. \A k \in DOMAIN todo :
            IF i + k = 2 THEN todo[k] = DrawFrom("entry")
            ELSE todo[k].does \in {"head", "line", "state"}
    BY DEF DocumentInHand
  <1>4. CASE RefuseValue
    <2>1. Last(todo).does # "file"
      BY <1>2, <1>3 DEF DrawFrom
    <2>2. todo' = <<>> /\ UNCHANGED <<tables, drawn>>
      BY <1>4, <2>1 DEF RefuseValue
    <2> QED BY <2>2, TablesStay, NothingInHand
  <1>5. ASSUME Commits PROVE todo' = rest
    BY <1>5, CommitOf
  <1>6. ASSUME Commits, TablesOK', NoInvoiceYet', NEW j \in 2..3, j > i \/ (i > 1 /\ j = i)
        PROVE  IInv'
    <2>1. \A k \in DOMAIN rest :
            /\ j + k # 2
            /\ rest[k].does \in {"head", "line", "state"}
      <3> SUFFICES ASSUME NEW k \in DOMAIN rest
                   PROVE  j + k # 2 /\ rest[k].does \in {"head", "line", "state"}
        OBVIOUS
      <3> PICK l : l = k + 1
        OBVIOUS
      <3>1. k \in Nat \ {0} /\ l \in DOMAIN todo /\ rest[k] = todo[l] /\ l = k + 1
        BY <1>2
      <3>2. j + k # 2 /\ i + l # 2
        BY ONLY <3>1, i \in 1..3, j \in 2..3
      <3> QED BY <1>3, <3>1, <3>2
    <2>2. DocumentInHand(j)'
      BY <1>5, <1>6, <2>1 DEF DocumentInHand, NoInvoiceYet
    <2>3. TodoOK'
      BY <1>2, <1>5, <1>6 DEF TodoOK
    <2>4. j \in 1..3
      OBVIOUS
    <2> QED BY <1>6, <2>2, <2>3, <2>4 DEF IInv, InHand
  <1>7. CASE Commits /\ i = 1
    <2>1. Head(todo) = DrawFrom("entry")
      BY <1>2, <1>3, <1>7
    <2>2. kind = "draw" /\ Head(todo).range = "entry"
      BY <2>1 DEF DrawFrom
    <2>3. DrawNumber
      BY <1>7, <2>2, CommitOf
    <2>4. drawn' = [drawn EXCEPT !["entry"] = @ + 1] /\ UNCHANGED tables
      BY <2>2, <2>3 DEF DrawNumber
    <2>5. TablesOK' /\ drawn'["entry"] = drawn["entry"] + 1 /\ drawn["entry"] \in Nat
      BY <2>4, DrawKeeps DEF Ranges
    <2>6. NoInvoiceYet'
      <3> SUFFICES ASSUME NEW n \in DOMAIN invoices PROVE invoices[n].document # drawn'["entry"]
        BY <2>4 DEF NoInvoiceYet, tables
      <3>1. invoices[n].document \in 0..drawn["entry"]
        BY DEF TablesOK, PropertiesOK, InvoiceHasItsPayable, NumbersOK
      <3> QED BY <2>5, <3>1
    <2> QED BY <1>6, <1>7, <2>5, <2>6
  <1>8. CASE Commits /\ i # 1
    <2>1. i \in 2..3 /\ i + 1 # 2 /\ i > 1
      BY <1>8
    <2>2. kind \in {"head", "line", "state"}
      BY <1>2, <1>3, <2>1
    <2>3. StoreEntry
      BY <1>8, <2>2, CommitOf
    <2> PICK d : d = drawn["entry"]
      OBVIOUS
    <2>4. /\ OnlyAt(entries, entries', d)
          /\ UNCHANGED <<receipts, invoices, outcomes, idocs, drawn>>
      BY <2>3, EntryStored
    <2>5. \A n \in DOMAIN invoices : invoices[n].document # d
      BY <2>1 DEF DocumentInHand
    <2>6. TablesOK'
      BY <2>4, <2>5, EntryKeeps
    <2>7. NoInvoiceYet'
      BY <2>4, <2>5 DEF NoInvoiceYet
    <2> QED BY <1>6, <1>8, <2>1, <2>6, <2>7
  <1> QED BY <1>4, <1>7, <1>8

-----------------------------------------------------------------------------
(* A goods receipt. *)

\* A receipt with more lines than it had: what was received under it still was.
LEMMA ReceiptKeeps ==
    ASSUME TablesOK, NEW m, m = drawn["receipt"],
           DOMAIN receipts \subseteq DOMAIN receipts', DOMAIN receipts' \subseteq DOMAIN receipts \cup {m},
           ReceiptsOK',
           \A x \in DOMAIN receipts :
              /\ receipts'[x].note = receipts[x].note
              /\ \A l \in DOMAIN receipts[x].lines :
                    l \in DOMAIN receipts'[x].lines /\ receipts'[x].lines[l] = receipts[x].lines[l],
           UNCHANGED <<entries, invoices, outcomes, idocs, drawn>>
    PROVE  TablesOK'
  <1>1. NumbersOK'
    <2>1. m \in 0..drawn["receipt"]
      BY DEF TablesOK, NumbersOK, Ranges
    <2> QED BY <2>1 DEF TablesOK, NumbersOK
  <1>2. InvoiceHasItsPayable' /\ OutcomeIsWhatWasPosted'
    BY DEF TablesOK, PropertiesOK, InvoiceHasItsPayable, OutcomeIsWhatWasPosted, TotalOf
  <1>3. BilledWasReceived'
    <2> DEFINE came(item, receipt) ==
                 IF item.note = NoNote THEN receipt = NoReceipt
                 ELSE \E x \in DOMAIN receipts : \E l \in DOMAIN receipts[x].lines :
                         /\ receipt = <<x, l>>
                         /\ receipts[x].note = item.note
                         /\ item.position \in {NoPosition, receipts[x].lines[l]}
               comes(item, receipt) ==
                 IF item.note = NoNote THEN receipt = NoReceipt
                 ELSE \E x \in DOMAIN receipts' : \E l \in DOMAIN receipts'[x].lines :
                         /\ receipt = <<x, l>>
                         /\ receipts'[x].note = item.note
                         /\ item.position \in {NoPosition, receipts'[x].lines[l]}
    <2>1. ASSUME NEW item, NEW receipt, came(item, receipt) PROVE comes(item, receipt)
      <3>1. CASE item.note = NoNote
        BY <2>1, <3>1
      <3>2. CASE item.note # NoNote
        <4> PICK x \in DOMAIN receipts :
              \E l \in DOMAIN receipts[x].lines :
                /\ receipt = <<x, l>> /\ receipts[x].note = item.note
                /\ item.position \in {NoPosition, receipts[x].lines[l]}
          BY <2>1, <3>2
        <4>1. PICK l \in DOMAIN receipts[x].lines :
                /\ receipt = <<x, l>> /\ receipts[x].note = item.note
                /\ item.position \in {NoPosition, receipts[x].lines[l]}
          OBVIOUS
        <4>2. /\ x \in DOMAIN receipts' /\ l \in DOMAIN receipts'[x].lines
              /\ receipts'[x].lines[l] = receipts[x].lines[l] /\ receipts'[x].note = receipts[x].note
          OBVIOUS
        <4> QED BY <3>2, <4>1, <4>2
      <3> QED BY <3>1, <3>2
    <2>2. ASSUME NEW k \in DOMAIN idocs, idocs[k].status = "53", NEW n \in DOMAIN idocs[k].payload.items
          PROVE  came(idocs[k].payload.items[n], invoices[outcomes[k]].items[n].receipt)
      BY <2>2 DEF TablesOK, PropertiesOK, BilledWasReceived
    <2>3. ASSUME NEW k \in DOMAIN idocs, idocs[k].status = "53", NEW n \in DOMAIN idocs[k].payload.items
          PROVE  comes(idocs[k].payload.items[n], invoices[outcomes[k]].items[n].receipt)
      <3> HIDE DEF came, comes
      <3> QED BY <2>1, <2>2, <2>3
    <2>4. UNCHANGED <<idocs, invoices, outcomes>>
      OBVIOUS
    <2> QED BY ONLY <2>3, <2>4, Z3 DEF BilledWasReceived
  <1> QED BY <1>1, <1>2, <1>3 DEF TablesOK, PropertiesOK

\* What StoreReceipt does: a receipt of no lines, or one line more.
LEMMA ReceiptStored ==
    ASSUME TablesOK, NEW m, m = drawn["receipt"], StoreReceipt,
           NEW kind, kind = Head(todo).does, NEW what, what = Head(todo).what,
           kind = "receipt" => m \notin DOMAIN receipts /\ what \in Notes \cup {NoNote},
           kind = "received" => m \in DOMAIN receipts /\ what \in Positions
    PROVE  TablesOK' /\ m \in DOMAIN receipts' /\ drawn' = drawn /\ todo' = Tail(todo)
  <1>1. receipts \in [DOMAIN receipts -> [note: Notes \cup {NoNote}, lines: Seq(Positions)]]
    BY DEF TablesOK, ReceiptsOK
  <1>2. UNCHANGED <<entries, invoices, outcomes, idocs, drawn>> /\ todo' = Tail(todo)
    BY DEF StoreReceipt, Done
  <1>3. CASE Doing("receipt")
    <2> PICK new : new = [note |-> what, lines |-> <<>>]
      OBVIOUS
    <2>1. kind = "receipt" /\ receipts' = Put(receipts, m, new)
      BY <1>3 DEF StoreReceipt, Doing
    <2>2. new \in [note: Notes \cup {NoNote}, lines: Seq(Positions)]
      BY <2>1
    <2>3. /\ DOMAIN receipts' = DOMAIN receipts \cup {m} /\ receipts'[m] = new
          /\ \A x \in DOMAIN receipts : receipts'[x] = receipts[x]
          /\ receipts' = [x \in DOMAIN receipts \cup {m} |-> receipts'[x]]
      BY <2>1 DEF Put
    <2>4. ReceiptsOK'
      <3>1. \A x \in DOMAIN receipts' :
                receipts'[x] \in [note: Notes \cup {NoNote}, lines: Seq(Positions)]
        BY <1>1, <2>2, <2>3
      <3>2. receipts' = [x \in DOMAIN receipts' |-> receipts'[x]]
        BY <2>3
      <3> QED BY <3>1, <3>2 DEF ReceiptsOK
    <2>5. TablesOK'
      BY <1>2, <2>3, <2>4, ReceiptKeeps
    <2> QED BY <1>2, <2>3, <2>5
  <1>4. CASE Doing("received")
    <2>1. kind = "received" /\ receipts' = [receipts EXCEPT ![m].lines = Append(@, what)]
      BY <1>4 DEF StoreReceipt, Doing
    <2>2. m \in DOMAIN receipts /\ what \in Positions
      BY <2>1
    <2> PICK old, lines : old = receipts[m] /\ lines = Append(old.lines, what)
      OBVIOUS
    <2>3. old \in [note: Notes \cup {NoNote}, lines: Seq(Positions)]
      BY <1>1, <2>2
    <2>4. /\ DOMAIN receipts' = DOMAIN receipts
          /\ receipts'[m] = [old EXCEPT !.lines = lines]
          /\ \A x \in DOMAIN receipts : x # m => receipts'[x] = receipts[x]
          /\ receipts' = [x \in DOMAIN receipts |-> receipts'[x]]
      BY <2>1, <2>2
    <2>5. /\ lines \in Seq(Positions) /\ DOMAIN old.lines \subseteq DOMAIN lines
          /\ \A l \in DOMAIN old.lines : lines[l] = old.lines[l]
      <3>1. old.lines \in Seq(Positions)
        BY <2>3
      <3> PICK s : s = old.lines
        OBVIOUS
      <3>2. /\ lines \in Seq(Positions) /\ Len(lines) = Len(s) + 1
            /\ \A k \in 1..(Len(s) + 1) : lines[k] = IF k = Len(s) + 1 THEN what ELSE s[k]
        BY <2>2, <3>1, AppendProperties
      <3>3. DOMAIN s = 1..Len(s) /\ DOMAIN lines = 1..Len(lines) /\ Len(s) \in Nat
        BY <3>1, <3>2, LenProperties
      <3>4. \A k \in 1..Len(s) : k \in 1..(Len(s) + 1) /\ k # Len(s) + 1
        BY <3>3
      <3> QED BY <3>2, <3>3, <3>4
    <2>6. /\ receipts'[m].note = old.note /\ receipts'[m].lines = lines
          /\ receipts'[m] \in [note: Notes \cup {NoNote}, lines: Seq(Positions)]
      BY <2>3, <2>4, <2>5
    <2>7. ReceiptsOK'
      <3>1. \A x \in DOMAIN receipts :
                receipts'[x] \in [note: Notes \cup {NoNote}, lines: Seq(Positions)]
        BY <1>1, <2>4, <2>6
      <3> QED BY <2>4, <3>1 DEF ReceiptsOK
    <2>8. ASSUME NEW x \in DOMAIN receipts
          PROVE  /\ receipts'[x].note = receipts[x].note
                 /\ \A l \in DOMAIN receipts[x].lines :
                       l \in DOMAIN receipts'[x].lines /\ receipts'[x].lines[l] = receipts[x].lines[l]
      <3>1. CASE x = m
        BY <2>5, <2>6, <3>1
      <3>2. CASE x # m
        BY <2>4, <3>2
      <3> QED BY <3>1, <3>2
    <2>9. TablesOK'
      BY <1>2, <2>4, <2>7, <2>8, ReceiptKeeps
    <2> QED BY <1>2, <2>2, <2>4, <2>9
  <1> QED BY <1>3, <1>4 DEF StoreReceipt

\* The writes of a receipt, each kept.
LEMMA ReceiptCommits ==
    ASSUME TablesOK, TodoOK, NEW i \in 1..3, ReceiptInHand(i), Commits \/ RefuseValue
    PROVE  IInv'
  <1> PICK rest, kind, m : rest = Tail(todo) /\ kind = Head(todo).does /\ m = drawn["receipt"]
    OBVIOUS
  <1>1. todo # <<>>
    BY CommitOf DEF RefuseValue
  <1>2. /\ 1 \in DOMAIN todo /\ Head(todo) = todo[1] /\ IsSeq(rest)
        /\ Len(todo) \in DOMAIN todo /\ Last(todo) = todo[Len(todo)]
        /\ DOMAIN todo \subseteq Nat \ {0}
        /\ \A k \in DOMAIN rest : k \in Nat \ {0} /\ k + 1 \in DOMAIN todo /\ rest[k] = todo[k + 1]
    BY <1>1, TodoParts
  <1>3. /\ \A k \in DOMAIN todo :
            IF i + k = 2 THEN todo[k] = DrawFrom("receipt")
            ELSE IF i + k = 3 THEN todo[k].does = "receipt" /\ todo[k].what \in Notes \cup {NoNote}
            ELSE todo[k].does = "received" /\ todo[k].what \in Positions
        /\ i = 2 => m \notin DOMAIN receipts
        /\ i > 2 => m \in DOMAIN receipts
    BY DEF ReceiptInHand
  <1>4. CASE RefuseValue
    <2>1. Last(todo).does # "file"
      BY <1>2, <1>3 DEF DrawFrom
    <2>2. todo' = <<>> /\ UNCHANGED <<tables, drawn>>
      BY <1>4, <2>1 DEF RefuseValue
    <2> QED BY <2>2, TablesStay, NothingInHand
  <1>5. ASSUME Commits PROVE todo' = rest
    BY <1>5, CommitOf
  <1>6. ASSUME Commits, TablesOK', NEW j \in 2..3, j = i + 1 \/ (i = 3 /\ j = 3),
               IF j = 2 THEN drawn'["receipt"] \notin DOMAIN receipts'
               ELSE drawn'["receipt"] \in DOMAIN receipts'
        PROVE  IInv'
    <2>1. \A k \in DOMAIN rest :
            /\ j + k # 2
            /\ IF j + k = 3 THEN rest[k].does = "receipt" /\ rest[k].what \in Notes \cup {NoNote}
               ELSE rest[k].does = "received" /\ rest[k].what \in Positions
      <3> SUFFICES ASSUME NEW k \in DOMAIN rest
                   PROVE  /\ j + k # 2
                          /\ IF j + k = 3 THEN rest[k].does = "receipt" /\ rest[k].what \in Notes \cup {NoNote}
                             ELSE rest[k].does = "received" /\ rest[k].what \in Positions
        OBVIOUS
      <3> PICK l : l = k + 1
        OBVIOUS
      <3>1. k \in Nat \ {0} /\ l \in DOMAIN todo /\ rest[k] = todo[l] /\ l = k + 1
        BY <1>2
      <3>2. j = i + 1 \/ (i = 3 /\ j = 3)
        BY <1>6
      <3>3. j + k # 2 /\ i + l # 2 /\ (j + k = 3 <=> i + l = 3)
        BY ONLY <3>1, <3>2, i \in 1..3, j \in 2..3
      <3> QED BY <1>3, <3>1, <3>3
    <2>2. j \in 1..3 /\ (j = 2 \/ j = 3) /\ ~ (2 > 2) /\ (j > 2 => j # 2)
      OBVIOUS
    <2>3. ReceiptInHand(j)'
      BY <1>5, <1>6, <2>1, <2>2 DEF ReceiptInHand
    <2>4. TodoOK'
      BY <1>2, <1>5, <1>6 DEF TodoOK
    <2> QED BY <1>6, <2>2, <2>3, <2>4 DEF IInv, InHand
  <1>7. CASE Commits /\ i = 1
    <2>1. Head(todo) = DrawFrom("receipt")
      BY <1>2, <1>3, <1>7
    <2>2. kind = "draw" /\ Head(todo).range = "receipt"
      BY <2>1 DEF DrawFrom
    <2>3. DrawNumber
      BY <1>7, <2>2, CommitOf
    <2>4. drawn' = [drawn EXCEPT !["receipt"] = @ + 1] /\ UNCHANGED tables
      BY <2>2, <2>3 DEF DrawNumber
    <2>5. TablesOK' /\ drawn'["receipt"] = drawn["receipt"] + 1 /\ drawn["receipt"] \in Nat
      BY <2>4, DrawKeeps DEF Ranges
    <2>6. drawn'["receipt"] \notin DOMAIN receipts'
      <3>1. drawn'["receipt"] \notin 0..drawn["receipt"]
        BY <2>5
      <3> QED BY <2>4, <3>1 DEF tables, TablesOK, NumbersOK
    <2>7. 2 \in 2..3 /\ 2 = i + 1
      BY <1>7
    <2> QED BY <1>6, <1>7, <2>5, <2>6, <2>7
  <1>8. CASE Commits /\ i # 1
    <2> PICK what : what = Head(todo).what
      OBVIOUS
    <2>1. /\ i \in {2, 3} /\ i + 1 # 2 /\ (i = 2 => i + 1 = 3) /\ (i = 3 => i + 1 # 3 /\ i > 2)
      BY <1>8
    <2>2. \/ i = 2 /\ kind = "receipt" /\ what \in Notes \cup {NoNote} /\ m \notin DOMAIN receipts
          \/ i = 3 /\ kind = "received" /\ what \in Positions /\ m \in DOMAIN receipts
      BY <1>2, <1>3, <2>1
    <2>3. StoreReceipt
      BY <1>8, <2>2, CommitOf
    <2>4. TablesOK' /\ m \in DOMAIN receipts' /\ drawn' = drawn
      BY <2>2, <2>3, ReceiptStored
    <2>5. 3 \in 2..3 /\ (3 = i + 1 \/ i = 3) /\ 3 # 2
      BY <2>1
    <2> QED BY <1>6, <1>8, <2>4, <2>5
  <1> QED BY <1>4, <1>7, <1>8

-----------------------------------------------------------------------------
(* The requests. *)

\* Numbers have a smallest one.
LEMMA SmallestOf ==
    ASSUME NEW S \in SUBSET Nat, S # {}
    PROVE  \E n \in S : \A m \in S : n <= m
  <1>1. PICK s \in S : TRUE
    OBVIOUS
  <1> PICK Upto : Upto = 0..s
    OBVIOUS
  <1>2. IsFiniteSet(Upto)
    BY FS_Interval
  <1> PICK B : B = {0..k : k \in {m \in S : m <= s}}
    OBVIOUS
  <1>3. B \in SUBSET (SUBSET Upto) /\ B # {}
    <2>1. ASSUME NEW U \in B PROVE U \in SUBSET Upto
      <3>1. PICK k \in S : k <= s /\ U = 0..k
        OBVIOUS
      <3>2. k \in Nat /\ s \in Nat
        OBVIOUS
      <3> QED BY <3>1, <3>2
    <2>2. s <= s
      BY ONLY s \in S, S \in SUBSET Nat
    <2>3. 0..s \in B
      BY <2>2
    <2> QED BY <2>1, <2>3
  <1>4. PICK T \in B : \A U \in B : U \subseteq T => U = T
    BY ONLY <1>2, <1>3, SmallestSubset
  <1>5. PICK n \in S : n <= s /\ T = 0..n
    BY <1>4
  <1>6. ASSUME NEW m \in S, ~ (n <= m) PROVE FALSE
    <2>1. m \in Nat /\ n \in Nat /\ s \in Nat
      BY <1>1
    <2>2. m <= s /\ 0..m \subseteq 0..n /\ n \in 0..n /\ n \notin 0..m
      BY <1>5, <1>6, <2>1
    <2>3. 0..m \in B
      BY <2>2
    <2> QED BY <1>4, <1>5, <2>2, <2>3
  <1> QED BY <1>6

\* receipt_for finds a line that was received under the note, if there is one.
LEMMA ReceiptForIs ==
    ASSUME TablesOK, NEW note, NEW position, NEW found, found = ReceiptFor(note, position),
           found # NoReceipt
    PROVE  \E m \in DOMAIN receipts : \E l \in DOMAIN receipts[m].lines :
              found = <<m, l>> /\ ReceivedUnder(m, l, note, position)
  <1> DEFINE F == Found(note, position)
  <1>1. F # {} /\ found = CHOOSE f \in F : \A g \in F : f[1] < g[1] \/ (f[1] = g[1] /\ f[2] <= g[2])
    BY DEF ReceiptFor
  <1>2. \A f \in F : \E m \in DOMAIN receipts : \E l \in DOMAIN receipts[m].lines :
              f = <<m, l>> /\ ReceivedUnder(m, l, note, position)
    BY DEF Found
  <1>3. \A m \in DOMAIN receipts : m \in Nat /\ DOMAIN receipts[m].lines \subseteq Nat
    <2> SUFFICES ASSUME NEW m \in DOMAIN receipts PROVE m \in Nat /\ DOMAIN receipts[m].lines \subseteq Nat
      OBVIOUS
    <2>1. m \in Nat
      BY DEF TablesOK, NumbersOK, Ranges
    <2>2. receipts[m].lines \in Seq(Positions)
      BY DEF TablesOK, ReceiptsOK
    <2> QED BY <2>1, <2>2, LenProperties
  <1>4. \A f \in F : f[1] \in Nat /\ f[2] \in Nat
    BY <1>2, <1>3
  <1> HIDE DEF F
  <1>5. \E f \in F : \A g \in F : f[1] < g[1] \/ (f[1] = g[1] /\ f[2] <= g[2])
    <2> PICK firsts : firsts = {f[1] : f \in F}
      OBVIOUS
    <2>1. firsts \in SUBSET Nat /\ firsts # {}
      BY <1>1, <1>4
    <2>2. PICK a \in firsts : \A x \in firsts : a <= x
      BY <2>1, SmallestOf
    <2> PICK seconds : seconds = {f[2] : f \in {g \in F : g[1] = a}}
      OBVIOUS
    <2>3. seconds \in SUBSET Nat /\ seconds # {}
      BY <1>4
    <2>4. PICK b \in seconds : \A y \in seconds : b <= y
      BY <2>3, SmallestOf
    <2>5. PICK f \in F : f[1] = a /\ f[2] = b
      OBVIOUS
    <2>6. ASSUME NEW g \in F PROVE f[1] < g[1] \/ (f[1] = g[1] /\ f[2] <= g[2])
      <3>1. g[1] \in firsts /\ f[1] \in Nat /\ g[1] \in Nat /\ f[2] \in Nat /\ g[2] \in Nat
        BY <1>4
      <3>2. CASE g[1] = a
        BY <2>4, <2>5, <3>2
      <3>3. CASE g[1] # a
        <4> PICK x, y : x = f[1] /\ y = g[1]
          OBVIOUS
        <4>1. x \in Nat /\ y \in Nat /\ x <= y /\ x # y
          BY <2>2, <2>5, <3>1, <3>3
        <4>2. x < y
          BY ONLY <4>1
        <4> QED BY <4>2
      <3> QED BY <3>2, <3>3
    <2> QED BY <2>6
  <1>6. found \in F
    BY <1>1, <1>5
  <1> QED BY <1>2, <1>6

\* A bill that is taken in hand, with nothing written yet.
LEMMA BillBegins ==
    ASSUME TablesOK', NEW bill \in Bills, bill.supplier # Nobody, AddsUp(bill), NEW references,
           NEW by, by \in {0, drawn'["idoc"]}, todo' = BillWrites(by, bill, references),
           Resolved(bill, references)',
           by # 0 => by \notin DOMAIN idocs' /\ by \notin DOMAIN outcomes'
    PROVE  IInv'
  <1> PICK w, lines, row, count :
        w = BillWrites(by, bill, references) /\ Shape(bill, lines, row, count)
    BY DEF Shape
  <1>1. /\ row \in Nat /\ row >= 8 /\ count \in Nat /\ row = RowAt(bill) /\ count = Len(bill.items)
        /\ Len(lines) \in {2, 3} /\ lines = InvoiceLines(bill)
    BY ShapeOf DEF Shape
  <1>2. IsSeq(w) /\ Len(w) = WritesOf(by, bill)
    <2>1. InOrder(w, by, bill, references)
      BY ONLY bill \in Bills, w = BillWrites(by, bill, references), BillWritesAre
    <2> QED BY <2>1 DEF InOrder
  <1>3. 1 \in 1..WritesOf(by, bill)
    BY <1>1 DEF WritesOf
  <1>4. Left(w, 1)'
    <2>1. w = SubSeq(w, 1, Len(w))
      BY <1>2, SubSeqFull DEF IsSeq
    <2> QED BY <1>2, <1>3, <2>1 DEF Left
  <1>5. EntryIsAt(by, bill, 1)'
    <2>1. /\ 1 \notin 2..row /\ \A n \in 1..Len(lines) : 1 # 2 * n + 1 /\ 1 # 2 * n + 2
          /\ ~ (1 > 2 * Len(lines) + 2)
      BY ONLY <1>1
    <2> QED BY <1>1, <2>1 DEF EntryIsAt
  <1>6. RowIsAt(bill, references, 1)'
    <2>1. 1 \in Nat /\ 1 < row
      BY <1>1
    <2> QED BY ONLY bill \in Bills, Shape(bill, lines, row, count), <2>1, RowNotYet
  <1>7. FileIsAt(by, bill, 1)'
    <2>1. 1 # row + 2 + count
      BY ONLY <1>1
    <2> QED BY <1>1, <2>1 DEF FileIsAt
  <1>8. BillInHand(by, bill, references, 1)'
    BY <1>4, <1>5, <1>6, <1>7 DEF BillInHand, Progress
  <1>9. references \in [DOMAIN bill.items -> {NoReceipt} \cup ReceivedLines']
    BY DEF Resolved
  <1>10. InHand'
    BY <1>3, <1>8, <1>9 DEF InHand
  <1>11. TodoOK'
    BY <1>2 DEF TodoOK
  <1> QED BY <1>10, <1>11 DEF IInv

\* An invoice over OData quotes no note, so it refers to no receipt.
LEMMA BillIsTaken ==
    ASSUME TablesOK, NEW bill \in Bills, PostSupplierInvoice(bill)
    PROVE  IInv'
  <1> PICK references : references = [n \in DOMAIN bill.items |-> NoReceipt]
    OBVIOUS
  <1>1. /\ bill.supplier # Nobody /\ AddsUp(bill)
        /\ \A n \in DOMAIN bill.items : bill.items[n].note = NoNote
        /\ todo' = InvoiceWrites(0, bill, references) /\ UNCHANGED <<tables, drawn>>
    BY DEF PostSupplierInvoice, Begins
  <1>2. TablesOK'
    BY <1>1, TablesStay
  <1>3. Resolved(bill, references)'
    BY <1>1 DEF Resolved
  <1>4. todo' = BillWrites(0, bill, references)
    BY <1>1 DEF BillWrites
  <1> QED BY <1>1, <1>2, <1>3, <1>4, BillBegins

\* An IDoc takes the next number; posted or not, nothing is filed under it yet.
LEMMA IdocIsTaken ==
    ASSUME TablesOK, NEW bill \in Bills, ReceiveInvoice(bill) \/ ReceiveByRule(bill)
    PROVE  IInv'
  <1> PICK k : k = drawn["idoc"] + 1
    OBVIOUS
  <1>1. drawn' = [drawn EXCEPT !["idoc"] = @ + 1] /\ UNCHANGED tables
    BY DEF ReceiveInvoice, ReceiveByRule
  <1>2. TablesOK' /\ drawn'["idoc"] = k /\ drawn["idoc"] \in Nat /\ k # 0 /\ k \notin 0..drawn["idoc"]
    <2>1. TablesOK' /\ drawn'["idoc"] = drawn["idoc"] + 1 /\ drawn["idoc"] \in Nat
      BY <1>1, DrawKeeps DEF Ranges
    <2> QED BY <2>1
  <1>3. k \notin DOMAIN idocs' /\ k \notin DOMAIN outcomes'
    BY <1>1, <1>2 DEF TablesOK, NumbersOK, tables
  <1>4. ASSUME NEW status \in NotPosted, todo' = Declined(bill, status)
        PROVE  IInv'
    <2>1. IdocInHand'
      BY <1>2, <1>3, <1>4 DEF IdocInHand
    <2>2. TodoOK'
      BY <1>4, OneWrite DEF Declined, TodoOK
    <2> QED BY <1>2, <2>1, <2>2 DEF IInv, InHand
  <1>5. ASSUME CanPost(bill), ReceiveInvoice(bill)
        PROVE  IInv'
    <2> PICK references : references = [n \in DOMAIN bill.items |->
                                          ReceiptFor(bill.items[n].note, bill.items[n].position)]
      OBVIOUS
    <2>1. todo' = Filed(InvoiceWrites(k, bill, references), bill)
      BY <1>5 DEF ReceiveInvoice
    <2>2. todo' = BillWrites(k, bill, references)
      BY <1>2, <2>1 DEF BillWrites
    <2>3. bill.supplier # Nobody /\ AddsUp(bill) /\ Resolves(bill)
      BY <1>5 DEF CanPost
    <2>4. ASSUME NEW n \in DOMAIN bill.items
          PROVE  /\ references[n] \in {NoReceipt} \cup ReceivedLines
                 /\ IF bill.items[n].note = NoNote THEN references[n] = NoReceipt
                    ELSE \E m \in DOMAIN receipts : \E l \in DOMAIN receipts[m].lines :
                           /\ references[n] = <<m, l>>
                           /\ ReceivedUnder(m, l, bill.items[n].note, bill.items[n].position)
      <3> PICK note, position, found :
            /\ note = bill.items[n].note /\ position = bill.items[n].position
            /\ found = ReceiptFor(note, position)
        OBVIOUS
      <3>1. references[n] = found
        OBVIOUS
      <3>2. CASE note = NoNote
        BY <3>1, <3>2 DEF ReceiptFor
      <3>3. CASE note # NoNote
        <4>1. found # NoReceipt
          BY <2>3, <3>3 DEF Resolves
        <4>2. \E m \in DOMAIN receipts : \E l \in DOMAIN receipts[m].lines :
                found = <<m, l>> /\ ReceivedUnder(m, l, note, position)
          BY <4>1, ReceiptForIs
        <4>3. found \in ReceivedLines
          BY <4>2 DEF ReceivedLines
        <4> QED BY <3>1, <3>3, <4>2, <4>3
      <3> QED BY <3>2, <3>3
    <2>5. Resolved(bill, references)
      BY <2>4 DEF Resolved
    <2>6. Resolved(bill, references)'
      <3>1. receipts' = receipts
        BY <1>1 DEF tables
      <3> QED BY ONLY <2>5, <3>1, Z3 DEF Resolved, ReceivedLines, ReceivedUnder
    <2> QED BY <1>2, <1>3, <2>2, <2>3, <2>6, BillBegins
  <1>6. CASE ReceiveInvoice(bill)
    BY <1>4, <1>5, <1>6 DEF ReceiveInvoice, NotPosted
  <1>7. CASE ReceiveByRule(bill)
    BY <1>4, <1>7 DEF ReceiveByRule
  <1> QED BY <1>6, <1>7

\* A receipt is begun: number, row, then a line for each position.
LEMMA ReceiptIsTaken ==
    ASSUME TablesOK, NEW r \in Receipts, PostGoodsReceipt(r)
    PROVE  IInv'
  <1> PICK lines, note, count : lines = r.lines /\ note = r.note /\ count = Len(r.lines)
    OBVIOUS
  <1>1. /\ note \in Notes \cup {NoNote} /\ lines \in Seq(Positions \cup {NoPosition})
        /\ count = Len(lines)
    BY InvoicingAssumption DEF Receipt
  <1>2. count \in Nat /\ DOMAIN lines = 1..count
    BY <1>1, LenProperties
  <1> PICK rest, draw, row :
        /\ rest = [n \in DOMAIN lines |-> Write("received", lines[n], TRUE)]
        /\ draw = DrawFrom("receipt") /\ row = Write("receipt", note, TRUE)
    OBVIOUS
  <1> PICK w : w = todo'
    OBVIOUS
  <1>3. /\ \A n \in 1..count : lines[n] \in Positions
        /\ Follows(w, draw, row, rest)
        /\ UNCHANGED <<tables, drawn>>
    <2>1. \A n \in DOMAIN lines : lines[n] # NoPosition
      BY DEF PostGoodsReceipt
    <2>2. \A n \in 1..count : lines[n] \in Positions
      BY <1>1, <1>2, <2>1, ElementOfSeq
    <2> QED BY <2>2 DEF PostGoodsReceipt, Begins, Follows
  <1>4. IsSeq(rest) /\ Len(rest) = count /\ DOMAIN rest = 1..count
    <2>1. rest = [k \in 1..count |-> rest[k]]
      BY <1>2
    <2> QED BY ONLY <1>2, <2>1, IsSequence
  <1>5. /\ IsSeq(w) /\ Len(w) = count + 2
        /\ w[1] = draw /\ w[2] = row /\ \A k \in 1..count : w[2 + k] = rest[k]
    <2>1. /\ IsSeq(w) /\ Len(w) = Len(rest) + 2
          /\ w[1] = draw /\ w[2] = row /\ \A k \in 1..Len(rest) : w[2 + k] = rest[k]
      <3>1. IsSeq(rest)
        BY <1>4
      <3>2. Follows(w, draw, row, rest)
        BY <1>3
      <3> QED BY ONLY <3>1, <3>2, TwoAhead
    <2> QED BY <1>4, <2>1
  <1>6. DOMAIN w = 1..(count + 2)
    BY <1>5, LenProperties DEF IsSeq
  <1>7. ASSUME NEW k \in DOMAIN w
        PROVE  IF 1 + k = 2 THEN w[k] = DrawFrom("receipt")
               ELSE IF 1 + k = 3
               THEN w[k].does = "receipt" /\ w[k].what \in Notes \cup {NoNote}
               ELSE w[k].does = "received" /\ w[k].what \in Positions
    <2>1. \/ k = 1 /\ 1 + k = 2
          \/ k = 2 /\ 1 + k # 2 /\ 1 + k = 3
          \/ k # 1 /\ k # 2 /\ 1 + k # 2 /\ 1 + k # 3 /\ \E n \in 1..count : k = 2 + n
      <3>1. k \in 1..(count + 2)
        BY <1>6
      <3>2. k # 1 /\ k # 2 => k - 2 \in 1..count /\ k = 2 + (k - 2)
        BY ONLY <3>1, <1>2
      <3> QED BY ONLY <3>1, <3>2, <1>2
    <2>2. CASE k = 1 /\ 1 + k = 2
      BY <1>5, <2>2
    <2>3. CASE k = 2 /\ 1 + k # 2 /\ 1 + k = 3
      BY <1>1, <1>5, <2>3 DEF Write
    <2>4. CASE 1 + k # 2 /\ 1 + k # 3 /\ \E n \in 1..count : k = 2 + n
      <3> PICK n \in 1..count : k = 2 + n
        BY <2>4
      <3>1. w[k] = Write("received", lines[n], TRUE)
        BY <1>2, <1>5
      <3> QED BY <1>3, <2>4, <3>1 DEF Write
    <2> QED BY <2>1, <2>2, <2>3, <2>4
  <1>8. ReceiptInHand(1)'
    <2>1. 1 # 2 /\ ~ (1 > 2)
      OBVIOUS
    <2> QED BY <1>7, <2>1 DEF ReceiptInHand
  <1>9. TablesOK'
    BY <1>3, TablesStay
  <1>10. TodoOK' /\ 1 \in 1..3
    BY <1>5 DEF TodoOK
  <1> QED BY <1>8, <1>9, <1>10 DEF IInv, InHand

\* A document over RFC is begun: number, header, lines.
LEMMA DocumentIsTaken ==
    ASSUME TablesOK, NEW p \in Postings, AccDocumentPost(p)
    PROVE  IInv'
  <1> PICK asked, count, lines, long :
        /\ asked = p.lines /\ count = Len(p.lines) /\ long = p.long
        /\ lines = [n \in DOMAIN p.lines |-> Line(p.lines[n].account, Cents(p.lines[n].amount))]
    OBVIOUS
  <1>1. count \in Nat /\ DOMAIN lines = 1..count
    <2>1. asked \in Seq([account: Suppliers \cup {Nobody}, amount: Stated])
      BY InvoicingAssumption DEF Posting
    <2> QED BY <2>1, LenProperties
  <1>2. IsSeq(lines)
    <2>1. lines = [k \in 1..count |-> lines[k]]
      BY <1>1
    <2> QED BY ONLY <1>1, <2>1, IsSequence
  <1> PICK w : w = todo'
    OBVIOUS
  <1>3. Writes(w, 0, lines, long) /\ UNCHANGED <<tables, drawn>>
    BY DEF AccDocumentPost, Begins, Writes
  <1>4. /\ IsSeq(w) /\ w[1] = DrawFrom("entry")
        /\ \A k \in DOMAIN w \ {1} : w[k].does \in {"head", "line", "state"}
    <2>1. Writes(w, 0, lines, long)
      BY <1>3
    <2>2. \A k \in DOMAIN w \ {1} : w[k].does \in {"head", "line", "state"}
      BY ONLY <1>2, <2>1, EntryWritesAre
    <2>3. IsSeq(w)
      BY ONLY <1>2, <2>1, EntryWritesAre
    <2>4. w[1] = DrawFrom("entry")
      BY ONLY <1>2, <2>1, EntryWritesAre
    <2> QED BY <2>2, <2>3, <2>4
  <1>5. DOMAIN w \subseteq Nat
    BY <1>4, LenProperties DEF IsSeq
  <1>6. \A k \in DOMAIN w :
            IF 1 + k = 2 THEN w[k] = DrawFrom("entry")
            ELSE w[k].does \in {"head", "line", "state"}
    <2> SUFFICES ASSUME NEW k \in DOMAIN w
                 PROVE  IF 1 + k = 2 THEN w[k] = DrawFrom("entry")
                        ELSE w[k].does \in {"head", "line", "state"}
      OBVIOUS
    <2>1. k \in Nat /\ (1 + k = 2 <=> k = 1)
      BY <1>5
    <2> QED BY <1>4, <2>1
  <1>7. DocumentInHand(1)'
    <2>1. ~ (1 > 1)
      OBVIOUS
    <2> QED BY <1>6, <2>1 DEF DocumentInHand
  <1>8. TablesOK'
    BY <1>3, TablesStay
  <1>9. TodoOK' /\ 1 \in 1..3
    BY <1>4 DEF TodoOK
  <1> QED BY <1>7, <1>8, <1>9 DEF IInv, InHand

-----------------------------------------------------------------------------
(* The invariant, and what it is for. *)

\* The tables are empty at first.
LEMMA NothingAtFirst == Init => IInv
  <1> SUFFICES ASSUME Init PROVE IInv
    OBVIOUS
  <1>1. \A f : f = <<>> => DOMAIN f = {}
    OBVIOUS
  <1>2. /\ DOMAIN receipts = {} /\ DOMAIN entries = {} /\ DOMAIN invoices = {}
        /\ DOMAIN outcomes = {} /\ DOMAIN idocs = {} /\ todo = <<>>
    BY <1>1 DEF Init
  <1>3. NumbersOK
    BY <1>2 DEF Init, NumbersOK
  <1>4. ReceiptsOK
    BY <1>2 DEF Init, ReceiptsOK
  <1>5. PropertiesOK
    BY <1>2 DEF PropertiesOK, InvoiceHasItsPayable, OutcomeIsWhatWasPosted, BilledWasReceived
  <1> QED BY <1>2, <1>3, <1>4, <1>5 DEF IInv, TablesOK, TodoOK, IsSeq, InHand

\* A commit, or a refusal, of whatever is in hand.
LEMMA WhatIsInHandGoesOn ==
    ASSUME IInv, Commit
    PROVE  IInv'
  <1>1. Commits \/ RefuseValue
    BY DEF Commit, Commits
  <1>2. TablesOK /\ TodoOK /\ InHand
    BY DEF IInv
  <1>3. todo # <<>>
    BY <1>1, CommitOf DEF RefuseValue
  <1>4. CASE \E bill \in Bills, by \in {0, drawn["idoc"]} :
                \E i \in 1..WritesOf(by, bill),
                   references \in [DOMAIN bill.items -> {NoReceipt} \cup ReceivedLines] :
                    BillInHand(by, bill, references, i)
    <2> PICK bill \in Bills, by \in {0, drawn["idoc"]} :
                \E i \in 1..WritesOf(by, bill),
                   references \in [DOMAIN bill.items -> {NoReceipt} \cup ReceivedLines] :
                    BillInHand(by, bill, references, i)
      BY <1>4
    <2> PICK i, references : BillInHand(by, bill, references, i)
      OBVIOUS
    <2>1. CASE Commits
      BY <1>2, <2>1, BillCommits
    <2>2. CASE RefuseValue
      BY <1>2, <2>2, BillRefused
    <2> QED BY <1>1, <2>1, <2>2
  <1>5. CASE \E i \in 1..3 : DocumentInHand(i) \/ ReceiptInHand(i)
    <2> PICK i \in 1..3 : DocumentInHand(i) \/ ReceiptInHand(i)
      BY <1>5
    <2>1. CASE DocumentInHand(i)
      BY <1>1, <1>2, <2>1, DocumentCommits
    <2>2. CASE ReceiptInHand(i)
      BY <1>1, <1>2, <2>2, ReceiptCommits
    <2> QED BY <2>1, <2>2
  <1>6. CASE IdocInHand
    BY <1>1, <1>2, <1>6, IdocCommits
  <1> QED BY <1>2, <1>3, <1>4, <1>5, <1>6 DEF InHand

\* Every step keeps the invariant, a crash between two commits among them.
LEMMA TheNextStepKeepsIt == IInv /\ [Next]_vars => IInv'
  <1> SUFFICES ASSUME IInv, [Next]_vars PROVE IInv'
    OBVIOUS
  <1>1. TablesOK
    BY DEF IInv
  <1>2. ASSUME NEW r \in Receipts, PostGoodsReceipt(r) PROVE IInv'
    BY <1>1, <1>2, ReceiptIsTaken
  <1>3. ASSUME NEW b \in Bills, PostSupplierInvoice(b) PROVE IInv'
    BY <1>1, <1>3, BillIsTaken
  <1>4. ASSUME NEW b \in Bills, ReceiveInvoice(b) \/ ReceiveByRule(b) PROVE IInv'
    BY <1>1, <1>4, IdocIsTaken
  <1>5. ASSUME NEW p \in Postings, AccDocumentPost(p) PROVE IInv'
    BY <1>1, <1>5, DocumentIsTaken
  <1>6. CASE Commit
    BY <1>6, WhatIsInHandGoesOn
  <1>7. CASE Crash
    BY <1>1, <1>7, TablesStay, NothingInHand DEF Crash
  <1>8. CASE UNCHANGED vars
    <2>1. /\ receipts' = receipts /\ entries' = entries /\ invoices' = invoices
          /\ outcomes' = outcomes /\ idocs' = idocs /\ drawn' = drawn /\ todo' = todo
      BY <1>8 DEF vars, tables
    <2>2. TablesOK'
      BY <1>1, <2>1, TablesStay DEF tables
    <2>3. TodoOK'
      BY <2>1 DEF IInv, TodoOK, IsSeq
    <2>4. InHand
      BY DEF IInv
    <2>5. ReceivedLines' = ReceivedLines
      BY <2>1 DEF ReceivedLines
    <2>6. ASSUME NEW bill, NEW by, NEW references, NEW i, BillInHand(by, bill, references, i)
          PROVE  BillInHand(by, bill, references, i)'
      <3>1. Left(BillWrites(by, bill, references), i)'
        BY ONLY <2>1, <2>6 DEF BillInHand, Left
      <3>2. Resolved(bill, references)'
        <4>1. Resolved(bill, references)
          BY <2>6 DEF BillInHand
        <4> QED BY ONLY <2>1, <2>5, <4>1, Z3 DEF Resolved, ReceivedUnder
      <3>3. Progress(by, bill, references, i)'
        <4>1. EntryIsAt(by, bill, i)'
          BY ONLY <2>1, <2>6, Z3 DEF BillInHand, Progress, EntryIsAt, EntryHolds
        <4>2. RowIsAt(bill, references, i)'
          BY ONLY <2>1, <2>6, Z3 DEF BillInHand, Progress, RowIsAt, RowHolds
        <4>3. FileIsAt(by, bill, i)'
          BY ONLY <2>1, <2>6, Z3 DEF BillInHand, Progress, FileIsAt
        <4> QED BY <4>1, <4>2, <4>3 DEF Progress
      <3> QED BY <2>6, <3>1, <3>2, <3>3 DEF BillInHand
    <2>7. IdocInHand => IdocInHand'
      BY ONLY <2>1 DEF IdocInHand
    <2>8. InHand'
      <3>1. ASSUME NEW bill \in Bills, NEW by \in {0, drawn["idoc"]}, NEW i \in 1..WritesOf(by, bill),
                   NEW references \in [DOMAIN bill.items -> {NoReceipt} \cup ReceivedLines],
                   BillInHand(by, bill, references, i)
            PROVE  InHand'
        <4>1. by \in {0, drawn'["idoc"]}
          BY <2>1
        <4>2. references \in [DOMAIN bill.items -> {NoReceipt} \cup ReceivedLines']
          BY <2>5
        <4>3. BillInHand(by, bill, references, i)'
          BY <2>6, <3>1
        <4> QED BY ONLY bill \in Bills, i \in 1..WritesOf(by, bill), <4>1, <4>2, <4>3 DEF InHand
      <3>2. todo = <<>> => InHand'
        BY <2>1 DEF InHand
      <3>3. ASSUME NEW i \in 1..3, DocumentInHand(i) \/ ReceiptInHand(i) PROVE InHand'
        <4>1. DocumentInHand(i)' \/ ReceiptInHand(i)'
          BY ONLY <2>1, <3>3, Z3 DEF DocumentInHand, ReceiptInHand
        <4> QED BY ONLY i \in 1..3, <4>1 DEF InHand
      <3>4. IdocInHand => InHand'
        BY <2>7 DEF InHand
      <3> QED BY ONLY <2>4, <3>1, <3>2, <3>3, <3>4 DEF InHand
    <2> QED BY <2>2, <2>3, <2>8 DEF IInv
  <1> QED BY <1>2, <1>3, <1>4, <1>5, <1>6, <1>7, <1>8 DEF Next

\* While a request is being served the tables hold what its writes so far have
\* put there, and nothing else is half written.
THEOREM InHandHolds == Spec => []IInv
  <1> QED BY NothingAtFirst, TheNextStepKeepsIt, PTL DEF Spec

\* No invoice without its payable: whichever value is refused between two
\* commits of post_supplier_invoice, and wherever the process is stopped.
THEOREM InvoicesHavePayables == Spec => []InvoiceHasItsPayable
  <1>1. IInv => InvoiceHasItsPayable
    BY DEF IInv, TablesOK, PropertiesOK
  <1> QED BY <1>1, InHandHolds, PTL

\* What an IDoc's outcome says was posted was: file_invoice comes after
\* everything it tells of.
THEOREM OutcomesArePosted == Spec => []OutcomeIsWhatWasPosted
  <1>1. IInv => OutcomeIsWhatWasPosted
    BY DEF IInv, TablesOK, PropertiesOK
  <1> QED BY <1>1, InHandHolds, PTL

\* What an INVOIC billed under a delivery note was received under it.
THEOREM WhatIsBilledWasReceived == Spec => []BilledWasReceived
  <1>1. IInv => BilledWasReceived
    BY DEF IInv, TablesOK, PropertiesOK
  <1> QED BY <1>1, InHandHolds, PTL
=============================================================================
