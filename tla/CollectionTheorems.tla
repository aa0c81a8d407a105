------------------------- MODULE CollectionTheorems -------------------------
(***************************************************************************)
(* What the proofs need to know of the sums, the queues and the flattened  *)
(* sequences the models are built from (`SumFunctionOnSet`, `RemoveFirst`  *)
(* and `FlattenSeq` of the community modules). A sum of naturals is the    *)
(* number of pairs of an index and a unit of its value, so that its laws   *)
(* follow from those of the cardinality of finite sets; what holds of a    *)
(* flattened sequence follows from the least place where it would not.     *)
(***************************************************************************)
EXTENDS Integers, FiniteSets, Functions, Sequences, SequencesExt, FiniteSetTheorems,
        SequenceTheorems, WellFoundedInduction, TLAPS

\* A function whose values on S are naturals, where S is finite.
Summable(f, S) == IsFiniteSet(S) /\ \A x \in S : f[x] \in Nat

Units(f, S) == UNION {{x} \X (1..f[x]) : x \in S}
Count(f, S) == Cardinality(Units(f, S))

-----------------------------------------------------------------------------
(* Counting. *)

\* The units of one index are as many as its value.
LEMMA UnitsOfOne ==
    ASSUME NEW x, NEW n \in Nat
    PROVE  IsFiniteSet({x} \X (1..n)) /\ Cardinality({x} \X (1..n)) = n
<1>1. IsFiniteSet(1..n) /\ Cardinality(1..n) = n
  BY FS_Interval
<1>2. IsFiniteSet({x}) /\ Cardinality({x}) = 1
  BY FS_Singleton
<1>3. Cardinality({x} \X (1..n)) = Cardinality({x}) * Cardinality(1..n) /\ IsFiniteSet({x} \X (1..n))
  BY <1>1, <1>2, FS_Product
<1> QED BY <1>1, <1>2, <1>3

\* And those of all indices are finitely many.
LEMMA UnitsFinite ==
    ASSUME NEW f, NEW S, Summable(f, S)
    PROVE  IsFiniteSet(Units(f, S)) /\ Count(f, S) \in Nat
<1> DEFINE F == [x \in S |-> {x} \X (1..f[x])]
           T == {{x} \X (1..f[x]) : x \in S}
<1>1. F \in Surjection(S, T)
  BY DEF Surjection
<1>2. IsFiniteSet(T)
  BY <1>1, FS_Surjection DEF Summable
<1>3. ASSUME NEW x \in S PROVE IsFiniteSet({x} \X (1..f[x]))
  BY UnitsOfOne DEF Summable
<1>4. IsFiniteSet(UNION T)
  BY <1>2, <1>3, FS_UNION
<1> QED BY <1>4, FS_CardinalityType DEF Units, Count

\* One index more adds its value.
LEMMA CountAdd ==
    ASSUME NEW f, NEW S, NEW x, Summable(f, S), x \notin S, f[x] \in Nat
    PROVE  Count(f, S \union {x}) = Count(f, S) + f[x]
<1> DEFINE U == Units(f, S)
           V == {x} \X (1..f[x])
<1>1. Units(f, S \union {x}) = U \union V
  BY DEF Units
<1>2. Cardinality(U \intersect V) = 0
  <2>1. U \intersect V = {}
    BY DEF Units
  <2> QED BY <2>1, FS_EmptySet
<1>3. /\ IsFiniteSet(U) /\ Cardinality(U) \in Nat
      /\ Count(f, S) = Cardinality(U) /\ Count(f, S \union {x}) = Cardinality(U \union V)
  BY <1>1, UnitsFinite DEF Count
<1>4. IsFiniteSet(V) /\ Cardinality(V) = f[x]
  BY UnitsOfOne
<1> HIDE DEF U, V
<1>5. Cardinality(U \union V) = Cardinality(U) + Cardinality(V) - Cardinality(U \intersect V)
  BY <1>3, <1>4, FS_Union
<1> QED BY <1>2, <1>3, <1>4, <1>5

\* No index has no unit.
LEMMA CountNone ==
    ASSUME NEW f
    PROVE  Count(f, {}) = 0
BY FS_EmptySet DEF Count, Units

-----------------------------------------------------------------------------
(* The fold is that count. *)

\* Adding the values one index at a time comes to the same count whatever the order: of the
\* subsets on which the two differ a least one would be empty or have an index to take out.
LEMMA SumIsCount ==
    ASSUME NEW f, NEW S, Summable(f, S)
    PROVE  SumFunctionOnSet(f, S) = Count(f, S)
<1> DEFINE One(s) == CHOOSE x \in s : TRUE
           Folds(g) == g = [s \in SUBSET S |-> IF s = {} THEN 0 ELSE f[One(s)] + g[s \ {One(s)}]]
           C == [s \in SUBSET S |-> Count(f, s)]
<1>0. \A s \in SUBSET S : Summable(f, s)
  BY FS_Subset DEF Summable
<1>1. \A s \in SUBSET S : s # {} => One(s) \in s /\ f[One(s)] \in Nat /\ s \ {One(s)} \in SUBSET S
  BY DEF Summable
<1>2. \A s \in SUBSET S : s # {} => Count(f, s) = f[One(s)] + Count(f, s \ {One(s)})
  <2> SUFFICES ASSUME NEW s \in SUBSET S, s # {}
               PROVE  Count(f, s) = f[One(s)] + Count(f, s \ {One(s)})
    OBVIOUS
  <2> DEFINE x == One(s)
             r == s \ {x}
  <2>1. x \in s /\ f[x] \in Nat /\ r \in SUBSET S
    BY <1>1
  <2> HIDE DEF x, r
  <2>4. Summable(f, r)
    BY <2>1, <1>0
  <2>2. s = r \union {x} /\ x \notin r
    BY <2>1 DEF r
  <2>3. Count(f, r) \in Nat /\ Count(f, r \union {x}) = Count(f, r) + f[x]
    BY <2>1, <2>2, <2>4, CountAdd, UnitsFinite
  <2> QED BY <2>1, <2>2, <2>3 DEF x, r
<1>3. Folds(C)
  BY <1>1, <1>2, CountNone
<1>4. SumFunctionOnSet(f, S) = (CHOOSE g : Folds(g))[S]
  BY DEF SumFunctionOnSet, FoldFunctionOnSet, MapThenFoldSet
<1> DEFINE g == CHOOSE h : Folds(h)
<1>5. Folds(g)
  BY <1>3
<1> HIDE DEF g
<1>6. \A s \in SUBSET S : g[s] = C[s]
  <2> DEFINE Differ == {s \in SUBSET S : g[s] # C[s]}
  <2> SUFFICES ASSUME Differ # {} PROVE FALSE
    OBVIOUS
  <2>1. IsWellFoundedOn(StrictSubsetOrdering(S), SUBSET S)
    BY FS_StrictSubsetOrderingWellFounded, FS_FiniteSubsetsOfFinite DEF Summable
  <2>2. PICK s \in Differ : \A r \in Differ : <<r, s>> \notin StrictSubsetOrdering(S)
    BY <2>1, WFMin
  <2>3. s # {}
    BY <1>3, <1>5, <2>2
  <2> DEFINE x == One(s)
             r == s \ {x}
  <2>4. x \in s /\ r \in SUBSET S /\ s \in SUBSET S
    BY <1>1, <2>3
  <2>5. C[s] = f[x] + C[r] /\ g[s] = f[x] + g[r]
    BY <1>3, <1>5, <2>3
  <2> HIDE DEF x
  <2>6. <<r, s>> \in StrictSubsetOrdering(S)
    BY <2>4 DEF StrictSubsetOrdering
  <2>7. r \notin Differ
    BY <2>2, <2>6
  <2> HIDE DEF C
  <2> QED BY <2>2, <2>4, <2>5, <2>7
<1> QED BY <1>4, <1>6 DEF g

-----------------------------------------------------------------------------
(* The laws of sums. *)

\* A sum of naturals is a natural.
LEMMA SumType ==
    ASSUME NEW f, NEW S, Summable(f, S)
    PROVE  SumFunctionOnSet(f, S) \in Nat
BY SumIsCount, UnitsFinite

\* Nothing sums up to zero.
LEMMA SumEmpty ==
    ASSUME NEW f
    PROVE  SumFunctionOnSet(f, {}) = 0
<1>1. Summable(f, {})
  BY FS_EmptySet DEF Summable
<1> QED BY <1>1, SumIsCount, CountNone

\* One index more adds its value.
LEMMA SumAdd ==
    ASSUME NEW f, NEW S, NEW x, Summable(f, S), x \notin S, f[x] \in Nat
    PROVE  SumFunctionOnSet(f, S \union {x}) = SumFunctionOnSet(f, S) + f[x]
<1>1. Summable(f, S \union {x})
  BY FS_AddElement DEF Summable
<1> QED BY <1>1, SumIsCount, CountAdd

\* One index less takes its value out.
LEMMA SumRemove ==
    ASSUME NEW f, NEW S, NEW x \in S, Summable(f, S)
    PROVE  SumFunctionOnSet(f, S) = SumFunctionOnSet(f, S \ {x}) + f[x]
<1> DEFINE r == S \ {x}
<1>1. Summable(f, r) /\ f[x] \in Nat
  BY FS_RemoveElement DEF Summable
<1>2. S = r \union {x} /\ x \notin r
  OBVIOUS
<1> HIDE DEF r
<1>3. SumFunctionOnSet(f, r \union {x}) = SumFunctionOnSet(f, r) + f[x]
  BY <1>1, <1>2, SumAdd
<1> QED BY <1>2, <1>3 DEF r

\* A sum depends on the values it adds only.
LEMMA SumSame ==
    ASSUME NEW f, NEW g, NEW S, Summable(f, S), \A x \in S : g[x] = f[x]
    PROVE  Summable(g, S) /\ SumFunctionOnSet(g, S) = SumFunctionOnSet(f, S)
<1>1. Summable(g, S)
  BY DEF Summable
<1>2. Units(g, S) = Units(f, S)
  BY DEF Units
<1> QED BY <1>1, <1>2, SumIsCount DEF Count

\* Where one value changes, the sum changes by as much.
LEMMA SumChange ==
    ASSUME NEW f, NEW g, NEW S, NEW x \in S, Summable(f, S), g[x] \in Nat,
           \A y \in S \ {x} : g[y] = f[y]
    PROVE  /\ Summable(g, S)
           /\ SumFunctionOnSet(g, S) + f[x] = SumFunctionOnSet(f, S) + g[x]
<1>1. Summable(g, S)
  BY DEF Summable
<1>2. Summable(f, S \ {x})
  BY FS_RemoveElement DEF Summable
<1>3. SumFunctionOnSet(g, S \ {x}) = SumFunctionOnSet(f, S \ {x})
  BY <1>2, SumSame
<1>4. /\ SumFunctionOnSet(f, S) = SumFunctionOnSet(f, S \ {x}) + f[x]
      /\ SumFunctionOnSet(g, S) = SumFunctionOnSet(g, S \ {x}) + g[x]
  BY <1>1, SumRemove
<1>5. f[x] \in Nat /\ SumFunctionOnSet(f, S \ {x}) \in Nat
  BY <1>2, SumType DEF Summable
<1> QED BY <1>1, <1>3, <1>4, <1>5

\* Smaller values over fewer indices come to less.
LEMMA SumLess ==
    ASSUME NEW f, NEW g, NEW S, NEW T, Summable(f, S), T \subseteq S,
           \A x \in T : g[x] \in Nat /\ g[x] <= f[x]
    PROVE  Summable(g, T) /\ SumFunctionOnSet(g, T) <= SumFunctionOnSet(f, S)
<1>1. Summable(g, T)
  BY FS_Subset DEF Summable
<1>2. Units(g, T) \in SUBSET Units(f, S)
  <2>1. \A x \in T : \A i \in 1..g[x] : i \in 1..f[x]
    BY DEF Summable
  <2> QED BY <2>1 DEF Units
<1>3. IsFiniteSet(Units(f, S))
  BY UnitsFinite
<1>4. Count(g, T) <= Count(f, S)
  BY <1>2, <1>3, FS_Subset DEF Count
<1> QED BY <1>1, <1>4, SumIsCount

\* A sum over two separate sets is the sum of theirs.
LEMMA SumSplit ==
    ASSUME NEW f, NEW S, NEW T, Summable(f, S), Summable(f, T), S \intersect T = {}
    PROVE  /\ Summable(f, S \union T)
           /\ SumFunctionOnSet(f, S \union T) = SumFunctionOnSet(f, S) + SumFunctionOnSet(f, T)
<1> DEFINE U == Units(f, S)
           V == Units(f, T)
<1>1. Summable(f, S \union T)
  BY FS_Union DEF Summable
<1>2. Units(f, S \union T) = U \union V
  BY DEF Units
<1>3. Cardinality(U \intersect V) = 0
  <2>1. U \intersect V = {}
    BY DEF Units
  <2> QED BY <2>1, FS_EmptySet
<1>4. IsFiniteSet(U) /\ IsFiniteSet(V) /\ Cardinality(U) \in Nat /\ Cardinality(V) \in Nat
  BY UnitsFinite DEF Count
<1>5. Cardinality(U \union V) = Cardinality(U) + Cardinality(V) - Cardinality(U \intersect V)
  BY <1>4, FS_Union
<1>6. Cardinality(U \union V) = Cardinality(U) + Cardinality(V)
  BY <1>3, <1>4, <1>5
<1>7. Count(f, S \union T) = Count(f, S) + Count(f, T)
  BY <1>2, <1>6 DEF Count
<1> QED BY <1>1, <1>7, SumIsCount

\* Where no value passes k, the sum does not pass k times the number of indices.
LEMMA SumBound ==
    ASSUME NEW f, NEW S, NEW k \in Nat, Summable(f, S), \A x \in S : f[x] <= k
    PROVE  SumFunctionOnSet(f, S) <= Cardinality(S) * k
<1>1. Units(f, S) \in SUBSET (S \X (1..k))
  <2>1. \A x \in S : \A i \in 1..f[x] : i \in 1..k
    BY DEF Summable
  <2> QED BY <2>1 DEF Units
<1>2. IsFiniteSet(S) /\ IsFiniteSet(1..k) /\ Cardinality(1..k) = k
  BY FS_Interval DEF Summable
<1>3. IsFiniteSet(S \X (1..k)) /\ Cardinality(S \X (1..k)) = Cardinality(S) * Cardinality(1..k)
  BY <1>2, FS_Product
<1>4. Count(f, S) <= Cardinality(S) * k
  BY <1>1, <1>2, <1>3, FS_Subset DEF Count
<1> QED BY <1>4, SumIsCount

\* Zeros sum up to zero.
LEMMA SumZero ==
    ASSUME NEW f, NEW S, Summable(f, S), \A x \in S : f[x] = 0
    PROVE  SumFunctionOnSet(f, S) = 0
<1>1. Units(f, S) = {}
  BY DEF Units
<1> QED BY <1>1, SumIsCount, FS_EmptySet DEF Count

\* The sum over some of the indices is that over all with zero elsewhere.
LEMMA SumWhere ==
    ASSUME NEW f, NEW S, NEW T \in SUBSET S, IsFiniteSet(S), \A x \in T : f[x] \in Nat
    PROVE  LET g == [x \in S |-> IF x \in T THEN f[x] ELSE 0] IN
           Summable(g, S) /\ SumFunctionOnSet(g, S) = SumFunctionOnSet(f, T)
<1> DEFINE g == [x \in S |-> IF x \in T THEN f[x] ELSE 0]
<1>1. IsFiniteSet(T) /\ IsFiniteSet(S \ T) /\ S = T \union (S \ T) /\ T \intersect (S \ T) = {}
  BY FS_Subset, FS_Difference
<1>2. Summable(f, T) /\ Summable(g, T) /\ Summable(g, S \ T) /\ Summable(g, S)
  BY <1>1 DEF Summable
<1>3. \A x \in T : g[x] = f[x]
  OBVIOUS
<1>4. \A x \in S \ T : g[x] = 0
  OBVIOUS
<1> HIDE DEF g
<1>5. SumFunctionOnSet(g, T) = SumFunctionOnSet(f, T)
  BY <1>2, <1>3, SumSame
<1>6. SumFunctionOnSet(g, S \ T) = 0
  BY <1>2, <1>4, SumZero
<1>7. SumFunctionOnSet(g, S) = SumFunctionOnSet(g, T) + SumFunctionOnSet(g, S \ T)
  BY <1>1, <1>2, SumSplit
<1>8. SumFunctionOnSet(f, T) \in Nat
  BY <1>2, SumType
<1> QED BY <1>2, <1>5, <1>6, <1>7, <1>8 DEF g

\* The sums of two functions are that of their sum: a least set of indices where they are not
\* would have one to take out.
LEMMA SumPlus ==
    ASSUME NEW f, NEW g, NEW S, Summable(f, S), Summable(g, S)
    PROVE  LET h == [x \in S |-> f[x] + g[x]] IN
           /\ Summable(h, S)
           /\ SumFunctionOnSet(h, S) = SumFunctionOnSet(f, S) + SumFunctionOnSet(g, S)
<1> DEFINE h == [x \in S |-> f[x] + g[x]]
           Differ == {s \in SUBSET S : SumFunctionOnSet(h, s)
                                          # SumFunctionOnSet(f, s) + SumFunctionOnSet(g, s)}
<1>1. \A x \in S : h[x] = f[x] + g[x] /\ f[x] \in Nat /\ g[x] \in Nat /\ h[x] \in Nat
  BY DEF Summable
<1> HIDE DEF h
<1>2. \A s \in SUBSET S : Summable(f, s) /\ Summable(g, s) /\ Summable(h, s)
  <2>1. \A s \in SUBSET S : IsFiniteSet(s)
    BY FS_Subset DEF Summable
  <2> QED BY <1>1, <2>1 DEF Summable
<1>3. Differ = {}
  <2> SUFFICES ASSUME Differ # {} PROVE FALSE
    OBVIOUS
  <2>1. IsWellFoundedOn(StrictSubsetOrdering(S), SUBSET S)
    BY FS_StrictSubsetOrderingWellFounded, FS_FiniteSubsetsOfFinite DEF Summable
  <2>2. PICK s \in Differ : \A r \in Differ : <<r, s>> \notin StrictSubsetOrdering(S)
    BY <2>1, WFMin
  <2>3. PICK x \in s : TRUE
    BY <2>2, SumEmpty
  <2> DEFINE r == s \ {x}
  <2>4. r \in SUBSET S /\ <<r, s>> \in StrictSubsetOrdering(S) /\ x \in S
    BY DEF StrictSubsetOrdering
  <2>5. /\ SumFunctionOnSet(f, s) = SumFunctionOnSet(f, r) + f[x]
        /\ SumFunctionOnSet(g, s) = SumFunctionOnSet(g, r) + g[x]
        /\ SumFunctionOnSet(h, s) = SumFunctionOnSet(h, r) + h[x]
    BY <1>2, SumRemove
  <2> HIDE DEF r
  <2>6. SumFunctionOnSet(h, r) = SumFunctionOnSet(f, r) + SumFunctionOnSet(g, r)
    BY <2>2, <2>4
  <2>7. SumFunctionOnSet(f, r) \in Nat /\ SumFunctionOnSet(g, r) \in Nat
    BY <1>2, <2>4, SumType
  <2>8. SumFunctionOnSet(h, s) = SumFunctionOnSet(f, s) + SumFunctionOnSet(g, s)
    BY <1>1, <2>4, <2>5, <2>6, <2>7
  <2> QED BY <2>8
<1> QED BY <1>2, <1>3 DEF h

\* Counting the indices from another start does not change the sum.
LEMMA SumShift ==
    ASSUME NEW f, NEW g, NEW n \in Nat, \A i \in 1..n : f[i + 1] \in Nat /\ g[i] = f[i + 1]
    PROVE  /\ Summable(g, 1..n) /\ Summable(f, 2..(n + 1))
           /\ SumFunctionOnSet(f, 2..(n + 1)) = SumFunctionOnSet(g, 1..n)
<1>1. IsFiniteSet(1..n) /\ IsFiniteSet(2..(n + 1))
  BY FS_Interval
<1>2. \A i \in 2..(n + 1) : i - 1 \in 1..n /\ f[i] = g[i - 1] /\ f[i] \in Nat
  <2> TAKE i \in 2..(n + 1)
  <2>1. i - 1 \in 1..n /\ (i - 1) + 1 = i
    OBVIOUS
  <2> QED BY <2>1
<1>3. Summable(g, 1..n) /\ Summable(f, 2..(n + 1))
  BY <1>1, <1>2 DEF Summable
<1> DEFINE U == Units(g, 1..n)
           V == Units(f, 2..(n + 1))
           b == [u \in U |-> <<u[1] + 1, u[2]>>]
<1>4. \A u : u \in U <=> \E i \in 1..n : \E j \in 1..g[i] : u = <<i, j>>
  BY DEF Units
<1>5. \A u : u \in V <=> \E i \in 2..(n + 1) : \E j \in 1..f[i] : u = <<i, j>>
  BY DEF Units
<1> HIDE DEF U, V
<1>6. b \in Bijection(U, V)
  <2>1. ASSUME NEW u \in U PROVE b[u] \in V
    <3>1. PICK i \in 1..n : \E j \in 1..g[i] : u = <<i, j>>
      BY <1>4
    <3>2. PICK j \in 1..g[i] : u = <<i, j>>
      BY <3>1
    <3>3. i + 1 \in 2..(n + 1) /\ f[i + 1] = g[i] /\ b[u] = <<i + 1, j>>
      BY <3>2
    <3> HIDE DEF b
    <3> QED BY <3>2, <3>3, <1>5
  <2>2. ASSUME NEW v \in V PROVE \E u \in U : b[u] = v
    <3>1. PICK i \in 2..(n + 1) : \E j \in 1..f[i] : v = <<i, j>>
      BY <1>5
    <3>2. i - 1 \in 1..n /\ f[i] = g[i - 1] /\ (i - 1) + 1 = i
      BY <1>2
    <3>3. PICK j \in 1..f[i] : v = <<i, j>>
      BY <3>1
    <3>4. <<i - 1, j>> \in U
      BY <3>2, <3>3, <1>4
    <3>5. b[<<i - 1, j>>] = <<(i - 1) + 1, j>>
      BY <3>4
    <3> QED BY <3>2, <3>3, <3>4, <3>5
  <2>3. ASSUME NEW u \in U, NEW v \in U, b[u] = b[v] PROVE u = v
    <3>1. PICK i \in 1..n : \E j \in 1..g[i] : u = <<i, j>>
      BY <1>4
    <3>2. PICK k \in 1..n : \E l \in 1..g[k] : v = <<k, l>>
      BY <1>4
    <3> QED BY <2>3, <3>1, <3>2
  <2> QED BY <2>1, <2>2, <2>3 DEF Bijection, Injection, Surjection, IsInjective
<1>7. Cardinality(U) = Cardinality(V)
  BY <1>3, <1>6, UnitsFinite, FS_Bijection DEF U, ExistsBijection
<1> QED BY <1>3, <1>7, SumIsCount DEF Count, U, V

-----------------------------------------------------------------------------
(* Queues, as sequences without repetition. *)

\* A queue of members of S, each in it at most once.
IsQueue(q, S) == q \in Seq(S) /\ IsInjective(q)

\* A call that starts to wait, and was not waiting, is one more waiter.
LEMMA QueueAppend ==
    ASSUME NEW S, NEW q, IsQueue(q, S), NEW c \in S, c \notin ToSet(q)
    PROVE  /\ IsQueue(Append(q, c), S) /\ ToSet(Append(q, c)) = ToSet(q) \union {c}
           /\ q # <<>> => Append(q, c) # <<>> /\ Head(Append(q, c)) = Head(q)
<1> DEFINE r == Append(q, c)
<1>1. /\ r \in Seq(S) /\ Len(r) = Len(q) + 1
      /\ \A i \in 1..Len(q) : r[i] = q[i]
      /\ r[Len(q) + 1] = c
  BY AppendProperties DEF IsQueue
<1>2. DOMAIN q = 1..Len(q) /\ DOMAIN r = 1..(Len(q) + 1) /\ Len(q) \in Nat
  BY <1>1, LenProperties DEF IsQueue
<1> HIDE DEF r
<1>3. \A i \in 1..Len(q) : q[i] # c
  BY <1>2 DEF ToSet
<1>4. IsInjective(r)
  BY <1>1, <1>2, <1>3 DEF IsInjective, IsQueue
<1>5. ToSet(r) = ToSet(q) \union {c}
  BY <1>1, <1>2 DEF ToSet
<1>6. q # <<>> => r # <<>> /\ Head(r) = Head(q)
  BY <1>1, <1>2, EmptySeq DEF IsQueue
<1> QED BY <1>1, <1>4, <1>5, <1>6 DEF IsQueue, r

\* The first waiter that is served is one waiter less.
LEMMA QueueTail ==
    ASSUME NEW S, NEW q, IsQueue(q, S), q # <<>>
    PROVE  /\ IsQueue(Tail(q), S) /\ ToSet(Tail(q)) = ToSet(q) \ {Head(q)}
           /\ Head(q) \in ToSet(q)
<1> DEFINE r == Tail(q)
<1>1. /\ r \in Seq(S) /\ Len(r) = Len(q) - 1
      /\ \A i \in 1..Len(r) : r[i] = q[i + 1]
  BY HeadTailProperties DEF IsQueue
<1>2. Len(q) \in Nat \ {0} /\ Head(q) = q[1]
  BY EmptySeq DEF IsQueue
<1>3. DOMAIN q = 1..Len(q) /\ DOMAIN r = 1..(Len(q) - 1)
  BY <1>1, LenProperties DEF IsQueue
<1> HIDE DEF r
<1>4. IsInjective(r)
  BY <1>1, <1>2, <1>3 DEF IsInjective, IsQueue
<1>5. ToSet(r) = ToSet(q) \ {q[1]}
  <2>1. ToSet(r) \subseteq ToSet(q) \ {q[1]}
    BY <1>1, <1>2, <1>3 DEF IsInjective, IsQueue, ToSet
  <2>2. ASSUME NEW i \in 1..Len(q), q[i] # q[1] PROVE q[i] \in ToSet(r)
    <3>1. i - 1 \in 1..Len(r) /\ r[i - 1] = q[i]
      BY <1>1, <1>2, <2>2
    <3> QED BY <3>1, <1>1, <1>3 DEF ToSet
  <2> QED BY <2>1, <2>2, <1>3 DEF ToSet
<1>6. Head(q) \in ToSet(q)
  BY <1>2, <1>3 DEF ToSet
<1> QED BY <1>1, <1>2, <1>4, <1>5, <1>6 DEF IsQueue, r

\* A waiter that leaves, from wherever it stands, is one waiter less.
LEMMA QueueLeave ==
    ASSUME NEW S, NEW q, IsQueue(q, S), NEW c \in ToSet(q)
    PROVE  /\ IsQueue(RemoveFirst(q, c), S) /\ ToSet(RemoveFirst(q, c)) = ToSet(q) \ {c}
           /\ Head(q) # c => RemoveFirst(q, c) # <<>> /\ Head(RemoveFirst(q, c)) = Head(q)
<1> DEFINE at == CHOOSE i \in 1..Len(q) : q[i] = c
           a == SubSeq(q, 1, at - 1)
           b == SubSeq(q, at + 1, Len(q))
           r == a \o b
<1>1. Len(q) \in Nat /\ DOMAIN q = 1..Len(q) /\ \A i \in 1..Len(q) : q[i] \in S
  BY LenProperties, ElementOfSeq DEF IsQueue
<1>2. at \in 1..Len(q) /\ q[at] = c
  BY <1>1 DEF ToSet
<1>3. RemoveFirst(q, c) = r
  <2> DEFINE I == {i \in 1..Len(q) : q[i] = c}
  <2>1. I = {at}
    BY <1>1, <1>2 DEF IsQueue, IsInjective
  <2>2. SelectInSeq(q, LAMBDA v : v = c) = IF I # {} THEN Min(I) ELSE 0
    BY DEF SelectInSeq
  <2> HIDE DEF at, I
  <2>3. Min({at}) = at
    BY <1>1, <1>2 DEF Min
  <2>4. SelectInSeq(q, LAMBDA v : v = c) = at
    BY <2>1, <2>2, <2>3
  <2> QED BY <1>2, <2>4 DEF RemoveFirst, RemoveAt
<1> HIDE DEF at
<1>4. /\ a \in Seq(S) /\ Len(a) = at - 1
      /\ \A i \in 1..(at - 1) : a[i] = q[i]
  BY <1>1, <1>2, SubSeqProperties
<1>5. /\ b \in Seq(S) /\ Len(b) = Len(q) - at
      /\ \A i \in 1..(Len(q) - at) : b[i] = q[at + i]
  <2>1. at + 1 \in Int /\ \A i \in (at + 1)..Len(q) : q[i] \in S
    BY <1>1, <1>2
  <2>2. /\ b \in Seq(S)
        /\ Len(b) = IF at + 1 <= Len(q) THEN Len(q) - (at + 1) + 1 ELSE 0
        /\ \A i \in 1..(Len(q) - (at + 1) + 1) : b[i] = q[at + 1 + i - 1]
    BY <1>1, <2>1, SubSeqProperties
  <2> HIDE DEF b
  <2>3. \A i \in 1..(Len(q) - at) : i \in 1..(Len(q) - (at + 1) + 1) /\ at + 1 + i - 1 = at + i
    BY <1>1, <1>2
  <2>4. \A i \in 1..(Len(q) - at) : b[i] = q[at + i]
    BY <2>2, <2>3
  <2>5. Len(b) = Len(q) - at
    <3>1. at \in Int /\ Len(q) \in Int /\ at <= Len(q)
      BY <1>1, <1>2
    <3>2. CASE at + 1 <= Len(q)
      BY <3>1, <3>2, <2>2
    <3>3. CASE ~(at + 1 <= Len(q))
      BY <3>1, <3>3, <2>2
    <3> QED BY <3>2, <3>3
  <2> QED BY <2>2, <2>4, <2>5
<1> HIDE DEF a, b
<1>6. /\ r \in Seq(S) /\ Len(r) = Len(q) - 1
      /\ \A i \in 1..(Len(q) - 1) : r[i] = IF i <= at - 1 THEN q[i] ELSE q[i + 1]
  <2>1. /\ r \in Seq(S) /\ Len(r) = Len(a) + Len(b)
        /\ \A i \in 1..(Len(a) + Len(b)) : r[i] = IF i <= Len(a) THEN a[i] ELSE b[i - Len(a)]
    BY <1>4, <1>5, ConcatProperties
  <2>2. at \in Nat /\ at <= Len(q) /\ Len(a) = at - 1 /\ Len(a) + Len(b) = Len(q) - 1
    BY <1>1, <1>2, <1>4, <1>5
  <2>3. ASSUME NEW i \in 1..(Len(q) - 1)
        PROVE  r[i] = IF i <= at - 1 THEN q[i] ELSE q[i + 1]
    <3>1. r[i] = IF i <= at - 1 THEN a[i] ELSE b[i - (at - 1)]
      BY <2>1, <2>2
    <3>2. CASE i <= at - 1
      BY <3>1, <3>2, <1>4
    <3>3. CASE ~(i <= at - 1)
      <4>1. i - (at - 1) \in 1..(Len(q) - at) /\ at + (i - (at - 1)) = i + 1
        BY <3>3, <2>2, <1>1
      <4> QED BY <3>1, <3>3, <4>1, <1>5
    <3> QED BY <3>2, <3>3
  <2> QED BY <2>1, <2>2, <2>3
<1>7. DOMAIN r = 1..(Len(q) - 1)
  BY <1>6, LenProperties
<1> HIDE DEF r
<1> DEFINE f(n) == IF n <= at - 1 THEN n ELSE n + 1
<1>8. \A i \in 1..(Len(q) - 1) : f(i) \in (1..Len(q)) \ {at} /\ r[i] = q[f(i)]
  BY <1>1, <1>2, <1>6
<1>9. \A i, j \in 1..(Len(q) - 1) : f(i) = f(j) => i = j
  BY <1>1, <1>2
<1>10. \A i, j \in 1..Len(q) : q[i] = q[j] => i = j
  BY <1>1 DEF IsInjective, IsQueue
<1>11. IsInjective(r)
  <2> HIDE DEF f
  <2> QED BY <1>7, <1>8, <1>9, <1>10 DEF IsInjective
<1>12. ToSet(r) = ToSet(q) \ {c}
  <2>1. ASSUME NEW i \in 1..(Len(q) - 1) PROVE r[i] \in ToSet(q) \ {c}
    <3> HIDE DEF f
    <3> QED BY <1>1, <1>2, <1>8, <1>10 DEF ToSet
  <2>2. ASSUME NEW i \in 1..Len(q), q[i] # c PROVE q[i] \in ToSet(r)
    <3>1. CASE i < at
      BY <3>1, <1>1, <1>2, <1>6, <1>7 DEF ToSet
    <3>2. CASE i > at
      <4>1. i - 1 \in 1..(Len(q) - 1) /\ r[i - 1] = q[i]
        BY <3>2, <1>1, <1>2, <1>6
      <4> QED BY <4>1, <1>7 DEF ToSet
    <3> QED BY <3>1, <3>2, <2>2, <1>1, <1>2
  <2> QED BY <2>1, <2>2, <1>1, <1>7 DEF ToSet
<1>13. Head(q) # c => r # <<>> /\ Head(r) = Head(q)
  <2> SUFFICES ASSUME Head(q) # c PROVE r # <<>> /\ Head(r) = Head(q)
    OBVIOUS
  <2>1. at # 1 /\ q[1] = Head(q)
    BY <1>1, <1>2
  <2>2. Len(r) >= 1 /\ r[1] = q[1]
    BY <2>1, <1>1, <1>2, <1>6
  <2> QED BY <2>1, <2>2, <1>6, EmptySeq
<1> QED BY <1>3, <1>6, <1>11, <1>12, <1>13 DEF IsQueue

-----------------------------------------------------------------------------
(* Sequences that may hold an element twice. *)

\* The elements of a sequence are members of what it is a sequence of.
LEMMA ElementsOf ==
    ASSUME NEW S, NEW q \in Seq(S)
    PROVE  ToSet(q) \subseteq S
BY ElementOfSeq, LenProperties DEF ToSet

\* Appending adds the element to those of the sequence.
LEMMA AppendElements ==
    ASSUME NEW S, NEW q \in Seq(S), NEW c \in S
    PROVE  /\ Append(q, c) \in Seq(S) /\ Len(Append(q, c)) = Len(q) + 1
           /\ ToSet(Append(q, c)) = ToSet(q) \union {c}
<1> DEFINE r == Append(q, c)
<1>1. /\ r \in Seq(S) /\ Len(r) = Len(q) + 1
      /\ \A i \in 1..Len(q) : r[i] = q[i]
      /\ r[Len(q) + 1] = c
  BY AppendProperties
<1>2. DOMAIN q = 1..Len(q) /\ DOMAIN r = 1..(Len(q) + 1) /\ Len(q) \in Nat
  BY <1>1, LenProperties
<1> HIDE DEF r
<1>3. ToSet(r) = ToSet(q) \union {c}
  BY <1>1, <1>2 DEF ToSet
<1> QED BY <1>1, <1>3 DEF r

\* The head and the elements of the tail are those of the sequence.
LEMMA TailElements ==
    ASSUME NEW S, NEW q \in Seq(S), q # <<>>
    PROVE  /\ Tail(q) \in Seq(S) /\ Len(Tail(q)) = Len(q) - 1 /\ Head(q) \in S
           /\ ToSet(q) = ToSet(Tail(q)) \union {Head(q)}
<1> DEFINE r == Tail(q)
<1>1. /\ r \in Seq(S) /\ Len(r) = Len(q) - 1
      /\ \A i \in 1..Len(r) : r[i] = q[i + 1]
  BY HeadTailProperties
<1>2. Len(q) \in Nat \ {0} /\ Head(q) = q[1] /\ q[1] \in S
  BY EmptySeq, ElementOfSeq
<1>3. DOMAIN q = 1..Len(q) /\ DOMAIN r = 1..(Len(q) - 1)
  BY <1>1, LenProperties
<1> HIDE DEF r
<1>4. \A i \in 2..Len(q) : i - 1 \in 1..Len(r) /\ r[i - 1] = q[i]
  BY <1>1, <1>2
<1>5. \A x : x \in ToSet(q) <=> x \in ToSet(r) \union {Head(q)}
  <2>1. ASSUME NEW i \in DOMAIN q PROVE q[i] \in ToSet(r) \union {Head(q)}
    <3>1. CASE i = 1
      BY <3>1, <1>2
    <3>2. CASE i # 1
      <4>1. i \in 2..Len(q)
        BY <3>2, <1>2, <1>3
      <4>2. i - 1 \in DOMAIN r /\ r[i - 1] = q[i]
        BY <4>1, <1>1, <1>3, <1>4
      <4> QED BY <4>2 DEF ToSet
    <3> QED BY <3>1, <3>2
  <2>2. ASSUME NEW i \in DOMAIN r PROVE r[i] \in ToSet(q)
    <3>1. i + 1 \in DOMAIN q /\ r[i] = q[i + 1]
      BY <1>1, <1>2, <1>3
    <3> QED BY <3>1 DEF ToSet
  <2>3. Head(q) \in ToSet(q)
    BY <1>2, <1>3 DEF ToSet
  <2> QED BY <2>1, <2>2, <2>3 DEF ToSet
<1> QED BY <1>1, <1>2, <1>5 DEF r

-----------------------------------------------------------------------------
(* Numbers in order, in place of an induction. *)

\* A set of naturals that is not empty has a least member.
LEMMA LeastNatural ==
    ASSUME NEW T \in SUBSET Nat, T # {}
    PROVE  \E x \in T : \A y \in T : x <= y
<1>1. PICK x \in T : \A y \in T : <<y, x>> \notin OpToRel(<, Nat)
  BY NatLessThanWellFounded, WFMin
<1>2. ASSUME NEW y \in T PROVE x <= y
  <2>1. x \in Nat /\ y \in Nat
    OBVIOUS
  <2>2. y < x => <<y, x>> \in OpToRel(<, Nat)
    BY <2>1 DEF OpToRel
  <2>3. ~(y < x)
    BY <1>1, <2>2, Zenon
  <2> QED BY <2>1, <2>3
<1> QED BY <1>2

\* A set that has the first of 1..n, and with each number the next one, has them all.
LEMMA UpTo ==
    ASSUME NEW n \in Nat, NEW T, 1 \in 1..n => 1 \in T, \A i \in 2..n : i - 1 \in T => i \in T
    PROVE  1..n \subseteq T
<1> DEFINE Bad == {i \in 1..n : i \notin T}
<1> SUFFICES ASSUME Bad # {} PROVE FALSE
  OBVIOUS
<1>0. Bad \in SUBSET Nat
  OBVIOUS
<1>1. PICK k \in Bad : \A j \in Bad : k <= j
  BY <1>0, LeastNatural
<1>2. k \in 1..n /\ k \notin T /\ k # 1
  OBVIOUS
<1>3. k - 1 \in 1..n /\ k - 1 \notin Bad /\ k \in 2..n
  BY <1>1, <1>2
<1> QED BY <1>2, <1>3

-----------------------------------------------------------------------------
(* Sequences of sequences. *)

\* The sequences a sequence of sequences is flattened by, one after the other.
JoinsOf(f, s, n) == f = [i \in 1..n |-> IF i = 1 THEN s[i] ELSE f[i - 1] \o s[i]]

\* There are such sequences, as many as one likes.
LEMMA JoinsExist ==
    ASSUME NEW s, NEW n \in Nat
    PROVE  \E f : JoinsOf(f, s, n)
<1> DEFINE Bad == {k \in Nat : ~ \E f : JoinsOf(f, s, k)}
<1> SUFFICES ASSUME Bad # {} PROVE FALSE
  OBVIOUS
<1>1. PICK k \in Bad : \A j \in Bad : k <= j
  BY LeastNatural
<1>2. k \in Nat /\ ~ \E f : JoinsOf(f, s, k)
  OBVIOUS
<1>3. CASE k = 0
  <2>1. JoinsOf([i \in 1..0 |-> s], s, 0)
    BY DEF JoinsOf
  <2> QED BY <1>2, <1>3, <2>1
<1>4. CASE k # 0
  <2>1. k - 1 \in Nat /\ k - 1 \notin Bad
    BY <1>1, <1>2, <1>4
  <2>2. PICK f : JoinsOf(f, s, k - 1)
    BY <2>1
  <2> DEFINE g == [i \in 1..k |-> IF i = 1 THEN s[i] ELSE f[i - 1] \o s[i]]
  <2>3. \A i \in 1..(k - 1) : g[i] = f[i]
    <3> TAKE i \in 1..(k - 1)
    <3>1. i \in 1..k
      BY <1>2
    <3> QED BY <2>2, <3>1 DEF JoinsOf
  <2>4. \A i \in 1..k : i # 1 => i - 1 \in 1..(k - 1)
    BY <1>2
  <2>a. g = [i \in 1..k |-> IF i = 1 THEN s[i] ELSE f[i - 1] \o s[i]]
    OBVIOUS
  <2> HIDE DEF g
  <2>5. g = [i \in 1..k |-> IF i = 1 THEN s[i] ELSE g[i - 1] \o s[i]]
    <3>1. \A i \in 1..k : i # 1 => g[i - 1] = f[i - 1]
      BY <2>3, <2>4
    <3>2. \A i \in 1..k : (IF i = 1 THEN s[i] ELSE f[i - 1] \o s[i])
                          = (IF i = 1 THEN s[i] ELSE g[i - 1] \o s[i])
      BY <3>1
    <3> QED BY <2>a, <3>2
  <2> QED BY <1>2, <2>5 DEF JoinsOf
<1> QED BY <1>3, <1>4

\* Flattening appends the sequences one after the other.
LEMMA Flattens ==
    ASSUME NEW S, NEW n \in Nat \ {0}, NEW s \in [1..n -> Seq(S)]
    PROVE  \E f : /\ FlattenSeq(s) = f[n] /\ f[1] = s[1]
                  /\ \A i \in 2..n : f[i] = f[i - 1] \o s[i]
<1>1. s \in Seq(Seq(S)) /\ Len(s) = n
  OBVIOUS
<1> DEFINE f == CHOOSE g : JoinsOf(g, s, n)
<1>2. JoinsOf(f, s, n)
  BY JoinsExist
<1>3. FlattenSeq(s) = f[n]
  BY <1>1 DEF FlattenSeq, JoinsOf
<1> HIDE DEF f
<1>4. f[1] = s[1] /\ \A i \in 2..n : f[i] = f[i - 1] \o s[i]
  <2>1. 1 \in 1..n /\ \A i \in 2..n : i \in 1..n /\ i # 1
    OBVIOUS
  <2> QED BY <1>2, <2>1 DEF JoinsOf
<1> QED BY <1>3, <1>4

\* The elements of a sequence followed by another one are those of both.
LEMMA ConcatElements ==
    ASSUME NEW S, NEW p \in Seq(S), NEW q \in Seq(S)
    PROVE  p \o q \in Seq(S) /\ ToSet(p \o q) = ToSet(p) \union ToSet(q)
<1>1. p \o q \in Seq(S)
  BY ConcatProperties
<1>2. Range(p \o q) = Range(p) \union Range(q)
  BY RangeConcatenation
<1> QED BY <1>1, <1>2 DEF ToSet, Range

\* The elements of a flattened sequence are those of its sequences.
LEMMA FlattenElements ==
    ASSUME NEW S, NEW n \in Nat \ {0}, NEW s \in [1..n -> Seq(S)]
    PROVE  /\ FlattenSeq(s) \in Seq(S)
           /\ ToSet(FlattenSeq(s)) = UNION {ToSet(s[j]) : j \in 1..n}
<1>1. PICK f : /\ FlattenSeq(s) = f[n] /\ f[1] = s[1]
               /\ \A i \in 2..n : f[i] = f[i - 1] \o s[i]
  BY Flattens
<1> DEFINE T == {i \in 1..n : /\ f[i] \in Seq(S)
                              /\ ToSet(f[i]) = UNION {ToSet(s[j]) : j \in 1..i}}
<1>2. 1 \in T
  BY <1>1
<1>3. ASSUME NEW i \in 2..n, i - 1 \in T PROVE i \in T
  <2>0. i \in 1..n /\ s[i] \in Seq(S) /\ f[i] = f[i - 1] \o s[i]
    <3>1. i \in 1..n
      OBVIOUS
    <3>2. s[i] \in Seq(S)
      BY <3>1
    <3>3. f[i] = f[i - 1] \o s[i]
      BY <1>1
    <3> QED BY <3>1, <3>2, <3>3
  <2>1. f[i - 1] \in Seq(S)
    BY <1>3
  <2>2. f[i] \in Seq(S) /\ ToSet(f[i]) = ToSet(f[i - 1]) \union ToSet(s[i])
    BY <2>0, <2>1, ConcatElements
  <2>3. 1..i = (1..(i - 1)) \union {i}
    OBVIOUS
  <2>4. ToSet(f[i - 1]) = UNION {ToSet(s[j]) : j \in 1..(i - 1)}
    BY <1>3
  <2>5. UNION {ToSet(s[j]) : j \in 1..i} = (UNION {ToSet(s[j]) : j \in 1..(i - 1)}) \union ToSet(s[i])
    BY <2>3
  <2> QED BY <2>0, <2>2, <2>4, <2>5
<1> HIDE DEF T
<1>4. n \in T
  <2>1. 1..n \subseteq T
    BY <1>2, <1>3, UpTo
  <2> QED BY <2>1
<1> QED BY <1>1, <1>4 DEF T

\* Its numbers rise.
Increasing(q) == \A i, j \in 1..Len(q) : i < j => q[i] < q[j]

\* Two sequences of rising numbers make one where those of the first are below the second's.
LEMMA ConcatIncreasing ==
    ASSUME NEW p \in Seq(Nat), NEW q \in Seq(Nat), Increasing(p), Increasing(q),
           \A a \in ToSet(p), b \in ToSet(q) : a < b
    PROVE  Increasing(p \o q)
<1> DEFINE r == p \o q
<1>1. /\ Len(r) = Len(p) + Len(q)
      /\ \A i \in 1..Len(p) + Len(q) : r[i] = IF i <= Len(p) THEN p[i] ELSE q[i - Len(p)]
  BY ConcatProperties
<1>2. /\ Len(p) \in Nat /\ Len(q) \in Nat
      /\ \A i \in 1..Len(p) : p[i] \in ToSet(p)
      /\ \A i \in 1..Len(q) : q[i] \in ToSet(q)
  BY LenProperties DEF ToSet
<1> HIDE DEF r
<1>3. \A i \in 1..Len(r) : \/ i \in 1..Len(p) /\ r[i] = p[i]
                           \/ i - Len(p) \in 1..Len(q) /\ i > Len(p) /\ r[i] = q[i - Len(p)]
  BY <1>1, <1>2
<1>4. ASSUME NEW i \in 1..Len(r), NEW j \in 1..Len(r), i < j PROVE r[i] < r[j]
  <2>1. CASE i \in 1..Len(p) /\ r[i] = p[i]
    <3>1. CASE j \in 1..Len(p) /\ r[j] = p[j]
      BY <1>4, <2>1, <3>1 DEF Increasing
    <3>2. CASE j - Len(p) \in 1..Len(q) /\ r[j] = q[j - Len(p)]
      BY <1>2, <2>1, <3>2
    <3> QED BY <1>3, <3>1, <3>2
  <2>2. CASE i - Len(p) \in 1..Len(q) /\ i > Len(p) /\ r[i] = q[i - Len(p)]
    <3>1. j - Len(p) \in 1..Len(q) /\ r[j] = q[j - Len(p)]
      BY <1>2, <1>3, <1>4, <2>2
    <3>2. i - Len(p) < j - Len(p)
      BY <1>1, <1>2, <1>4
    <3> QED BY <2>2, <3>1, <3>2 DEF Increasing
  <2> QED BY <1>3, <2>1, <2>2
<1> QED BY <1>4 DEF Increasing, r

\* So do those of a flattened sequence, where each of its sequences follows those before it.
LEMMA FlattenIncreasing ==
    ASSUME NEW n \in Nat \ {0}, NEW s \in [1..n -> Seq(Nat)],
           \A i \in 1..n : Increasing(s[i]),
           \A i, j \in 1..n : i < j => \A a \in ToSet(s[i]), b \in ToSet(s[j]) : a < b
    PROVE  Increasing(FlattenSeq(s))
<1>1. PICK f : /\ FlattenSeq(s) = f[n] /\ f[1] = s[1]
               /\ \A i \in 2..n : f[i] = f[i - 1] \o s[i]
  BY Flattens
<1> DEFINE Below(i) == \A j \in 1..n : i < j => \A a \in ToSet(f[i]), b \in ToSet(s[j]) : a < b
           T == {i \in 1..n : f[i] \in Seq(Nat) /\ Increasing(f[i]) /\ Below(i)}
<1>2. 1 \in T
  BY <1>1
<1>3. ASSUME NEW i \in 2..n, i - 1 \in T PROVE i \in T
  <2>0. i \in 1..n /\ s[i] \in Seq(Nat) /\ f[i] = f[i - 1] \o s[i] /\ i - 1 < i
    <3>1. i \in 1..n /\ i - 1 < i
      OBVIOUS
    <3>2. s[i] \in Seq(Nat)
      BY <3>1
    <3>3. f[i] = f[i - 1] \o s[i]
      BY <1>1
    <3> QED BY <3>1, <3>2, <3>3
  <2>1. f[i - 1] \in Seq(Nat)
    BY <1>3
  <2>2. Increasing(f[i - 1]) /\ Below(i - 1)
    BY <1>3
  <2>3. \A a \in ToSet(f[i - 1]), b \in ToSet(s[i]) : a < b
    BY <2>0, <2>2
  <2>4. f[i] \in Seq(Nat) /\ ToSet(f[i]) = ToSet(f[i - 1]) \union ToSet(s[i])
    BY <2>0, <2>1, ConcatElements
  <2>5. Increasing(f[i])
    BY <2>0, <2>1, <2>2, <2>3, ConcatIncreasing
  <2>6. Below(i)
    <3> SUFFICES ASSUME NEW j \in 1..n, i < j
                 PROVE  \A a \in ToSet(f[i]), b \in ToSet(s[j]) : a < b
      OBVIOUS
    <3>1. i - 1 < j
      OBVIOUS
    <3> QED BY <2>0, <2>2, <2>4, <3>1
  <2> QED BY <2>0, <2>4, <2>5, <2>6
<1> HIDE DEF T
<1>4. n \in T
  <2>1. 1..n \subseteq T
    BY <1>2, <1>3, UpTo
  <2> QED BY <2>1
<1> QED BY <1>1, <1>4 DEF T

\* Where all sequences but one hold m elements, all together hold m times one less than they are.
LEMMA FlattenLength ==
    ASSUME NEW S, NEW n \in Nat \ {0}, NEW s \in [1..n -> Seq(S)], NEW m \in Nat, NEW g \in 1..n,
           \A i \in 1..n : i # g => Len(s[i]) >= m
    PROVE  Len(FlattenSeq(s)) >= (n - 1) * m
<1>1. PICK f : /\ FlattenSeq(s) = f[n] /\ f[1] = s[1]
               /\ \A i \in 2..n : f[i] = f[i - 1] \o s[i]
  BY Flattens
<1> DEFINE T == {i \in 1..n : /\ f[i] \in Seq(S) /\ Len(f[i]) >= (i - 1) * m
                              /\ i < g => Len(f[i]) >= i * m}
<1>2. 1 \in T
  <2>1. Len(s[1]) \in Nat /\ (1 < g => Len(s[1]) >= m)
    BY LenProperties
  <2>2. (1 - 1) * m = 0 /\ 1 * m = m
    OBVIOUS
  <2> QED BY <1>1, <2>1, <2>2
<1>3. ASSUME NEW i \in 2..n, i - 1 \in T PROVE i \in T
  <2>0. i \in 1..n /\ s[i] \in Seq(S) /\ f[i] = f[i - 1] \o s[i]
    <3>1. i \in 1..n
      OBVIOUS
    <3>2. s[i] \in Seq(S)
      BY <3>1
    <3>3. f[i] = f[i - 1] \o s[i]
      BY <1>1
    <3> QED BY <3>1, <3>2, <3>3
  <2>1. /\ f[i - 1] \in Seq(S)
        /\ Len(f[i - 1]) >= ((i - 1) - 1) * m /\ (i - 1 < g => Len(f[i - 1]) >= (i - 1) * m)
    BY <1>3
  <2> DEFINE x == Len(f[i - 1])
             y == Len(s[i])
  <2>2. f[i] \in Seq(S) /\ Len(f[i]) = x + y /\ x \in Nat /\ y \in Nat
    BY <2>0, <2>1, ConcatProperties, LenProperties
  <2>3. i * m = (i - 1) * m + m /\ (i - 1) * m = ((i - 1) - 1) * m + m
    OBVIOUS
  <2> DEFINE a == ((i - 1) - 1) * m
             b == (i - 1) * m
             c == i * m
  <2>4. a \in Int /\ b \in Int /\ c \in Int /\ b = a + m /\ c = b + m
    BY <2>3
  <2>5. x >= a /\ (i - 1 < g => x >= b)
    BY <2>1
  <2>6. i # g => y >= m
    BY <2>0
  <2> HIDE DEF a, b, c, x, y
  <2>7. Len(f[i]) >= b
    <3>1. CASE i = g
      BY <2>2, <2>4, <2>5, <3>1
    <3>2. CASE i # g
      BY <2>2, <2>4, <2>5, <2>6, <3>2
    <3> QED BY <3>1, <3>2
  <2>8. i < g => Len(f[i]) >= c
    BY <2>2, <2>4, <2>5, <2>6
  <2> QED BY <2>0, <2>2, <2>7, <2>8 DEF b, c
<1> HIDE DEF T
<1>4. n \in T
  <2>1. 1..n \subseteq T
    BY <1>2, <1>3, UpTo
  <2> QED BY <2>1
<1> QED BY <1>1, <1>4 DEF T
=============================================================================
