---------------------------- MODULE QuotaProofs ----------------------------
(***************************************************************************)
(* Proofs about QuotaStore, for every set of repositories, requests and    *)
(* reservations, every limit and every width of the counters.              *)
(*                                                                         *)
(* The counters are sums over the reservations, so the module first shows  *)
(* how a sum over a finite set changes when one element does, then how the *)
(* two kinds of counter do (Split: every reservation on its own; Shared:   *)
(* every key once), then that each operation of the ledger writes exactly  *)
(* these changes.  Ledger, at the end, is the inductive invariant.         *)
(***************************************************************************)
EXTENDS QuotaStore, FiniteSetTheorems, WellFoundedInduction, NaturalsInduction, TLAPS

(* Zenon proves what names no other prover. *)
USE Zenon

(* A set of numbers has a least one. *)
LEMMA LeastNumber ==
    ASSUME NEW S \in SUBSET Nat, S # {}
    PROVE  \E i \in S : \A j \in S : i <= j
<1>1. PICK i \in S : \A j \in S : ~(<<j, i>> \in OpToRel(<, Nat))
  BY NatLessThanWellFounded, WFMin
<1>2. \A j \in S : ~(j < i)
  BY <1>1 DEF OpToRel
<1>. QED
  BY <1>2, SMT

-----------------------------------------------------------------------------
(* Sums over finite sets.                                                  *)

Some(s) == CHOOSE x \in s : TRUE

(* The sums of f over the sets D, each from that of a smaller one. *)
Summing(f, D, g) == g = [s \in D |-> IF s = {} THEN 0 ELSE f[Some(s)] + g[s \ {Some(s)}]]

(* The subsets of S that have at most n elements. *)
UpTo(S, n) == {s \in SUBSET S : Cardinality(s) <= n}

(* What choosing one element and leaving it out does to a subset. *)
LEMMA UpToFacts ==
    ASSUME NEW S, IsFiniteSet(S)
    PROVE  /\ UpTo(S, Cardinality(S)) = SUBSET S
           /\ \A s \in SUBSET S : IsFiniteSet(s) /\ Cardinality(s) \in Nat /\ (s = {} <=> Cardinality(s) = 0)
           /\ \A s \in SUBSET S : s # {} =>
                /\ Some(s) \in s /\ s \ {Some(s)} \in SUBSET S
                /\ Cardinality(s \ {Some(s)}) = Cardinality(s) - 1
<1>1. ASSUME NEW s \in SUBSET S
      PROVE  /\ IsFiniteSet(s) /\ Cardinality(s) \in Nat /\ Cardinality(s) <= Cardinality(S)
             /\ (s = {} <=> Cardinality(s) = 0)
  BY FS_Subset, FS_CardinalityType, FS_EmptySet
<1>2. ASSUME NEW s \in SUBSET S, s # {}
      PROVE  /\ Some(s) \in s /\ s \ {Some(s)} \in SUBSET S
             /\ Cardinality(s \ {Some(s)}) = Cardinality(s) - 1
  <2>1. Some(s) \in s
    BY <1>2 DEF Some
  <2>2. Cardinality(s \ {Some(s)}) = Cardinality(s) - 1
    BY <1>1, <2>1, FS_RemoveElement
  <2>. QED
    BY <2>1, <2>2
<1>3. UpTo(S, Cardinality(S)) = SUBSET S
  BY <1>1 DEF UpTo
<1>. QED
  BY <1>1, <1>2, <1>3

(* Every finite set has its table of sums. *)
LEMMA SummingExists ==
    ASSUME NEW f, NEW S, IsFiniteSet(S)
    PROVE  \E g : Summing(f, SUBSET S, g)
<1>. DEFINE Bad == {n \in Nat : ~ \E g : Summing(f, UpTo(S, n), g)}
<1>1. Bad = {}
  <2>. SUFFICES ASSUME Bad # {} PROVE FALSE
    BY SMT
  <2>1. PICK m \in Bad : \A n \in Bad : m <= n
    BY LeastNumber
  <2>2. m # 0
    <3>1. \A s \in UpTo(S, 0) : s = {}
      <4>1. ASSUME NEW s \in UpTo(S, 0) PROVE s = {}
        <5>1. s \in SUBSET S /\ Cardinality(s) <= 0
          BY DEF UpTo
        <5>2. Cardinality(s) \in Nat /\ (s = {} <=> Cardinality(s) = 0)
          BY <5>1, UpToFacts
        <5>. QED
          BY <5>1, <5>2, SMT
      <4>. QED
        BY <4>1
    <3>2. Summing(f, UpTo(S, 0), [s \in UpTo(S, 0) |-> 0])
      BY <3>1, SMT DEF Summing
    <3>3. 0 \notin Bad
      BY <3>2
    <3>. QED
      BY <3>3
  <2>3. m - 1 \in Nat /\ ~(m <= m - 1)
    BY <2>2, SMT
  <2>4. PICK g : Summing(f, UpTo(S, m - 1), g)
    BY <2>1, <2>3
  <2>. DEFINE next(s) == f[Some(s)] + g[s \ {Some(s)}]
              h == [s \in UpTo(S, m) |-> IF s \in UpTo(S, m - 1) THEN g[s] ELSE next(s)]
  <2>5. ASSUME NEW s \in UpTo(S, m)
        PROVE  /\ s \in SUBSET S
               /\ s = {} => s \in UpTo(S, m - 1)
               /\ s # {} => s \ {Some(s)} \in UpTo(S, m - 1) /\ s \ {Some(s)} \in UpTo(S, m)
    <3>1. s \in SUBSET S /\ Cardinality(s) <= m
      BY DEF UpTo
    <3>2. Cardinality(s) \in Nat /\ (s = {} <=> Cardinality(s) = 0)
      BY <3>1, UpToFacts
    <3>3. s = {} => Cardinality(s) <= m - 1
      BY <2>3, <3>2, SMT
    <3>4. ASSUME s # {} PROVE s \ {Some(s)} \in UpTo(S, m - 1) /\ s \ {Some(s)} \in UpTo(S, m)
      <4>1. s \ {Some(s)} \in SUBSET S /\ Cardinality(s \ {Some(s)}) = Cardinality(s) - 1
        BY <3>1, <3>4, UpToFacts
      <4>2. Cardinality(s) - 1 <= m - 1 /\ Cardinality(s) - 1 <= m
        BY <2>3, <3>1, <3>2, SMT
      <4>. QED
        BY <4>1, <4>2 DEF UpTo
    <3>. QED
      BY <3>1, <3>3, <3>4 DEF UpTo
  <2>6. \A s \in UpTo(S, m - 1) : g[s] = IF s = {} THEN 0 ELSE next(s)
    BY <2>4 DEF Summing
  <2>7. \A s \in UpTo(S, m) : h[s] = IF s \in UpTo(S, m - 1) THEN g[s] ELSE next(s)
    OBVIOUS
  <2>8. ASSUME NEW s \in UpTo(S, m)
        PROVE  h[s] = IF s = {} THEN 0 ELSE f[Some(s)] + h[s \ {Some(s)}]
    <3>1. h[s] = IF s = {} THEN 0 ELSE next(s)
      BY <2>5, <2>6, <2>7
    <3>2. s # {} => h[s \ {Some(s)}] = g[s \ {Some(s)}]
      BY <2>5, <2>7
    <3>. QED
      BY <3>1, <3>2
  <2>9. h = [s \in UpTo(S, m) |-> h[s]]
    OBVIOUS
  <2>10. Summing(f, UpTo(S, m), h)
    <3>. HIDE DEF h
    <3>. QED
      BY <2>8, <2>9 DEF Summing
  <2>. QED
    BY <2>1, <2>10
<1>2. Cardinality(S) \in Nat
  BY FS_CardinalityType
<1>3. \E g : Summing(f, UpTo(S, Cardinality(S)), g)
  BY <1>1, <1>2
<1>4. UpTo(S, Cardinality(S)) = SUBSET S
  BY UpToFacts
<1>. QED
  BY <1>3, <1>4

(* SumFunctionOnSet is such a table at the set itself. *)
LEMMA SumIsSumming ==
    ASSUME NEW f, NEW S, IsFiniteSet(S)
    PROVE  \E g : Summing(f, SUBSET S, g) /\ SumFunctionOnSet(f, S) = g[S]
<1>. DEFINE g == CHOOSE g : Summing(f, SUBSET S, g)
<1>1. Summing(f, SUBSET S, g)
  BY SummingExists
<1>2. SumFunctionOnSet(f, S) = g[S]
  BY SMT DEF SumFunctionOnSet, FoldFunctionOnSet, MapThenFoldSet, Summing, Some
<1>. HIDE DEF g
<1>. QED
  BY <1>1, <1>2

PartsAgree(f, S, g) == \A T \in SUBSET S : \A h : Summing(f, SUBSET T, h) => g[T] = h[T]

(* Two ways to sum agree wherever both do. *)
LEMMA SummingAgree ==
    ASSUME NEW f, NEW S, IsFiniteSet(S), NEW g, Summing(f, SUBSET S, g)
    PROVE  PartsAgree(f, S, g)
<1>. SUFFICES ASSUME NEW T \in SUBSET S, NEW h, Summing(f, SUBSET T, h)
              PROVE  \A s \in SUBSET T : g[s] = h[s]
  BY DEF PartsAgree
<1>. DEFINE Bad == {n \in Nat : \E s \in SUBSET T : Cardinality(s) = n /\ g[s] # h[s]}
<1>1. Bad = {}
  <2>. SUFFICES ASSUME Bad # {} PROVE FALSE
    BY SMT
  <2>1. PICK m \in Bad : \A n \in Bad : m <= n
    BY LeastNumber
  <2>2. PICK s \in SUBSET T : Cardinality(s) = m /\ g[s] # h[s]
    BY <2>1
  <2>3. s \in SUBSET S /\ g[{}] = 0 /\ h[{}] = 0
    BY SMT DEF Summing
  <2>4. s # {}
    BY <2>2, <2>3
  <2>. DEFINE rest == s \ {Some(s)}
  <2>5. Some(s) \in s /\ rest \in SUBSET S /\ Cardinality(rest) = m - 1 /\ rest \in SUBSET T
    BY <2>2, <2>3, <2>4, UpToFacts
  <2>6. g[s] = f[Some(s)] + g[rest] /\ h[s] = f[Some(s)] + h[rest]
    BY <2>3, <2>4, <2>5 DEF Summing
  <2>7. m - 1 \in Nat /\ ~(m <= m - 1)
    <3>1. Cardinality(rest) \in Nat
      BY <2>5, UpToFacts, SMT
    <3>. QED
      BY <2>5, <3>1, SMT
  <2>8. g[rest] = h[rest]
    BY <2>1, <2>5, <2>7
  <2>. QED
    BY <2>2, <2>6, <2>8
<1>2. \A s \in SUBSET T : Cardinality(s) \in Nat
  BY UpToFacts
<1>. QED
  BY <1>1, <1>2

(* A sum takes one summand at a time. *)
LEMMA SumStep ==
    ASSUME NEW f, NEW S, IsFiniteSet(S)
    PROVE  SumFunctionOnSet(f, S) = IF S = {} THEN 0 ELSE f[Some(S)] + SumFunctionOnSet(f, S \ {Some(S)})
<1>1. PICK g : Summing(f, SUBSET S, g) /\ SumFunctionOnSet(f, S) = g[S]
  BY SumIsSumming
<1>2. g[S] = IF S = {} THEN 0 ELSE f[Some(S)] + g[S \ {Some(S)}]
  BY <1>1 DEF Summing
<1>3. ASSUME S # {} PROVE g[S \ {Some(S)}] = SumFunctionOnSet(f, S \ {Some(S)})
  <2>. DEFINE T == S \ {Some(S)}
  <2>1. T \in SUBSET S
    OBVIOUS
  <2>2. IsFiniteSet(T)
    BY <2>1, FS_Subset
  <2>. HIDE DEF T
  <2>3. PICK h : Summing(f, SUBSET T, h) /\ SumFunctionOnSet(f, T) = h[T]
    BY <2>2, SumIsSumming
  <2>4. PartsAgree(f, S, g)
    BY <1>1, SummingAgree
  <2>5. g[T] = h[T]
    BY <2>1, <2>3, <2>4 DEF PartsAgree
  <2>. QED
    BY <2>3, <2>5 DEF T
<1>. QED
  BY <1>1, <1>2, <1>3

(* Nothing sums to nothing. *)
LEMMA SumEmpty ==
    ASSUME NEW f PROVE SumFunctionOnSet(f, {}) = 0
BY SumStep, FS_EmptySet

(* A sum of integers is one, and may start with any of its summands. *)
LEMMA SumTakes ==
    ASSUME NEW f, NEW S, IsFiniteSet(S), \A x \in S : f[x] \in Int
    PROVE  /\ SumFunctionOnSet(f, S) \in Int
           /\ \A x \in S : SumFunctionOnSet(f, S) = f[x] + SumFunctionOnSet(f, S \ {x})
<1>. DEFINE Fine(T) == SumFunctionOnSet(f, T) \in Int /\ \A x \in T : SumFunctionOnSet(f, T) = f[x] + SumFunctionOnSet(f, T \ {x})
            Bad == {n \in Nat : \E T \in SUBSET S : Cardinality(T) = n /\ ~Fine(T)}
<1>1. Bad = {}
  <2>. SUFFICES ASSUME Bad # {} PROVE FALSE
    BY SMT
  <2>1. PICK m \in Bad : \A n \in Bad : m <= n
    BY LeastNumber
  <2>2. PICK T \in SUBSET S : Cardinality(T) = m /\ ~Fine(T)
    BY <2>1
  <2>3. IsFiniteSet(T)
    BY FS_Subset
  <2>4. \A U \in SUBSET S : Cardinality(U) \in Nat /\ Cardinality(U) < m => Fine(U)
    <3>1. ASSUME NEW U \in SUBSET S, Cardinality(U) \in Nat, Cardinality(U) < m PROVE Fine(U)
      <4>1. ~(m <= Cardinality(U))
        BY <3>1, SMT
      <4>. QED
        BY <2>1, <3>1, <4>1
    <3>. QED
      BY <3>1
  <2>5. ASSUME NEW U \in SUBSET T, NEW x \in U
        PROVE  /\ U \ {x} \in SUBSET S /\ Cardinality(U \ {x}) \in Nat
               /\ Cardinality(U \ {x}) = Cardinality(U) - 1 /\ Cardinality(U) \in Nat
    <3>1. IsFiniteSet(U) /\ IsFiniteSet(U \ {x})
      BY <2>3, FS_Subset
    <3>. QED
      BY <3>1, FS_RemoveElement, FS_CardinalityType
  <2>6. ASSUME NEW x \in T PROVE Fine(T \ {x})
    <3>1. T \ {x} \in SUBSET S /\ Cardinality(T \ {x}) \in Nat /\ Cardinality(T \ {x}) = m - 1
      BY <2>2, <2>5
    <3>2. m - 1 < m
      BY <2>1, SMT
    <3>. QED
      BY <2>4, <3>1, <3>2
  <2>7. T # {}
    <3>1. Fine({})
      BY SumEmpty, SMT
    <3>. QED
      BY <2>2, <3>1
  <2>. DEFINE c == Some(T)
  <2>8. c \in T
    BY <2>7 DEF Some
  <2>9. SumFunctionOnSet(f, T) = f[c] + SumFunctionOnSet(f, T \ {c})
    BY <2>3, <2>7, SumStep
  <2>. HIDE DEF c
  <2>10. SumFunctionOnSet(f, T) \in Int
    BY <2>6, <2>8, <2>9, SMT
  <2>11. ASSUME NEW x \in T PROVE SumFunctionOnSet(f, T) = f[x] + SumFunctionOnSet(f, T \ {x})
    <3>1. CASE x = c
      BY <2>9, <3>1
    <3>2. CASE x # c
      <4>1. Fine(T \ {c}) /\ Fine(T \ {x}) /\ f[x] \in Int /\ f[c] \in Int
        BY <2>6, <2>8
      <4>2. SumFunctionOnSet(f, T \ {c}) = f[x] + SumFunctionOnSet(f, (T \ {c}) \ {x}) /\ SumFunctionOnSet(f, T \ {x}) = f[c] + SumFunctionOnSet(f, (T \ {x}) \ {c})
        BY <2>8, <3>2, <4>1
      <4>3. (T \ {c}) \ {x} = (T \ {x}) \ {c} /\ (T \ {c}) \ {x} \in SUBSET S
        OBVIOUS
      <4>4. SumFunctionOnSet(f, (T \ {c}) \ {x}) \in Int
        <5>1. x \in T \ {c}
          BY <3>2
        <5>2. Cardinality((T \ {c}) \ {x}) \in Nat /\ Cardinality((T \ {c}) \ {x}) = Cardinality(T \ {c}) - 1
              /\ Cardinality(T \ {c}) = m - 1 /\ Cardinality(T \ {c}) \in Nat
          BY <2>2, <2>5, <2>8, <5>1
        <5>3. Cardinality((T \ {c}) \ {x}) < m
          BY <2>1, <5>2, SMT
        <5>. QED
          BY <2>4, <4>3, <5>2, <5>3
      <4>. DEFINE a == f[x]
                  b == f[c]
                  z == SumFunctionOnSet(f, (T \ {c}) \ {x})
      <4>5. SumFunctionOnSet(f, T) = b + (a + z) /\ a + SumFunctionOnSet(f, T \ {x}) = a + (b + z) /\ a \in Int /\ b \in Int /\ z \in Int
        BY <2>9, <4>1, <4>2, <4>3, <4>4
      <4>. HIDE DEF a, b, z
      <4>6. b + (a + z) = a + (b + z)
        BY <4>5, SMT
      <4>. QED
        BY <4>5, <4>6 DEF a
    <3>. QED
      BY <3>1, <3>2
  <2>. QED
    BY <2>2, <2>10, <2>11
<1>2. Cardinality(S) \in Nat /\ S \in SUBSET S
  BY FS_CardinalityType
<1>. QED
  BY <1>1, <1>2

-----------------------------------------------------------------------------
(* Rows, and sums that differ in one element.                              *)

(* The counters of a row, one by one. *)
UsageIs(u, rs, r) ==
    /\ u.artifact_bytes = Split(rs, OfRepository(r), Bytes)
    /\ u.accounted_bytes = Shared(rs, OfRepository(r), ByBlob, Bytes)
    /\ u.resources = Shared(rs, InResource(OfRepository(r)), ByResource, One)
ResourceIs(u, rs, k) ==
    /\ u.references = Split(rs, OfResource(k), One)
    /\ u.artifact_bytes = Split(rs, Metered(OfResource(k)), Bytes)
    /\ u.groups = Shared(rs, InGroup(OfResource(k)), ByGroup, One)

(* A scanned row, counter by counter. *)
LEMMA RowFields ==
    ASSUME NEW rs
    PROVE  /\ \A r : UsageIs(UsageOf(rs, r), rs, r)
           /\ \A k : ResourceIs(ResourceOf(rs, k), rs, k)
BY SMT DEF UsageIs, UsageOf, ResourceIs, ResourceOf

(* Reserving nothing changes nothing. *)
LEMMA AddNothing ==
    ASSUME NEW n, n \in [committed : Nat, reserved : Nat] PROVE reserved_add(n, 0) = n
BY SMT DEF reserved_add

(* Of the subsets in question one has none of them one element below. *)
LEMMA SmallestSubset ==
    ASSUME NEW S, IsFiniteSet(S), NEW Bad \in SUBSET (SUBSET S), Bad # {}
    PROVE  \E T \in Bad : \A x \in T : T \ {x} \notin Bad
<1>. DEFINE Sizes == {n \in Nat : \E T \in Bad : Cardinality(T) = n}
<1>1. \A T \in Bad : IsFiniteSet(T) /\ Cardinality(T) \in Nat
  BY FS_Subset, FS_CardinalityType
<1>2. Sizes # {} /\ Sizes \in SUBSET Nat
  BY <1>1
<1>3. PICK m \in Sizes : \A n \in Sizes : m <= n
  BY <1>2, LeastNumber
<1>4. PICK T \in Bad : Cardinality(T) = m
  BY <1>3
<1>5. ASSUME NEW x \in T, T \ {x} \in Bad PROVE FALSE
  <2>1. Cardinality(T \ {x}) = Cardinality(T) - 1
    BY <1>1, FS_RemoveElement
  <2>2. Cardinality(T \ {x}) \in Sizes /\ Cardinality(T) \in Nat
    BY <1>1, <1>5
  <2>3. m <= Cardinality(T \ {x})
    BY <1>3, <2>2
  <2>. QED
    BY <1>4, <2>1, <2>2, <2>3, SMT
<1>. QED
  BY <1>4, <1>5

(* A sum only looks at its summands. *)
LEMMA SumSame ==
    ASSUME NEW f, NEW g, NEW S, IsFiniteSet(S), \A x \in S : f[x] = g[x]
    PROVE  SumFunctionOnSet(f, S) = SumFunctionOnSet(g, S)
<1>. DEFINE Bad == {T \in SUBSET S : SumFunctionOnSet(f, T) # SumFunctionOnSet(g, T)}
<1>1. ASSUME Bad # {} PROVE FALSE
  <2>1. PICK T \in Bad : \A x \in T : T \ {x} \notin Bad
    BY <1>1, SmallestSubset
  <2>2. IsFiniteSet(T)
    BY FS_Subset
  <2>3. T # {}
    BY <2>1, SumEmpty
  <2>. DEFINE c == Some(T)
  <2>4. c \in T
    BY <2>3 DEF Some
  <2>5. /\ SumFunctionOnSet(f, T) = f[c] + SumFunctionOnSet(f, T \ {c})
        /\ SumFunctionOnSet(g, T) = g[c] + SumFunctionOnSet(g, T \ {c})
    BY <2>2, <2>3, SumStep
  <2>. HIDE DEF c
  <2>6. f[c] = g[c] /\ SumFunctionOnSet(f, T \ {c}) = SumFunctionOnSet(g, T \ {c})
    BY <2>1, <2>4
  <2>. QED
    BY <2>1, <2>5, <2>6
<1>. QED
  BY <1>1

(* Naturals sum to a natural. *)
LEMMA SumNat ==
    ASSUME NEW f, NEW S, IsFiniteSet(S), \A x \in S : f[x] \in Nat
    PROVE  SumFunctionOnSet(f, S) \in Nat
<1>. DEFINE Bad == {T \in SUBSET S : SumFunctionOnSet(f, T) \notin Nat}
<1>1. ASSUME Bad # {} PROVE FALSE
  <2>1. PICK T \in Bad : \A x \in T : T \ {x} \notin Bad
    BY <1>1, SmallestSubset
  <2>2. IsFiniteSet(T)
    BY FS_Subset
  <2>3. T # {}
    <3>1. SumFunctionOnSet(f, {}) \in Nat
      BY SumEmpty, SMT
    <3>. QED
      BY <2>1, <3>1
  <2>. DEFINE c == Some(T)
  <2>4. c \in T
    BY <2>3 DEF Some
  <2>5. SumFunctionOnSet(f, T) = f[c] + SumFunctionOnSet(f, T \ {c})
    BY <2>2, <2>3, SumStep
  <2>. HIDE DEF c
  <2>6. f[c] \in Nat /\ SumFunctionOnSet(f, T \ {c}) \in Nat
    BY <2>1, <2>4
  <2>7. SumFunctionOnSet(f, T) \in Nat
    BY <2>5, <2>6, SMT
  <2>. QED
    BY <2>1, <2>7
<1>. QED
  BY <1>1

(* Positive summands add up to nothing only if there are none. *)
LEMMA SumPositive ==
    ASSUME NEW f, NEW S, IsFiniteSet(S), \A x \in S : f[x] \in Nat \ {0}
    PROVE  SumFunctionOnSet(f, S) \in Nat /\ (SumFunctionOnSet(f, S) = 0 <=> S = {})
<1>1. \A x \in S : f[x] \in Nat /\ f[x] # 0
  OBVIOUS
<1>2. SumFunctionOnSet(f, S) \in Nat
  BY <1>1, SumNat
<1>3. ASSUME S # {} PROVE SumFunctionOnSet(f, S) # 0
  <2>. DEFINE c == Some(S)
  <2>1. c \in S
    BY <1>3 DEF Some
  <2>2. SumFunctionOnSet(f, S) = f[c] + SumFunctionOnSet(f, S \ {c})
    BY <1>3, SumStep
  <2>. HIDE DEF c
  <2>3. SumFunctionOnSet(f, S \ {c}) \in Nat
    <3>1. IsFiniteSet(S \ {c})
      BY FS_Subset
    <3>. QED
      BY <1>1, <3>1, SumNat
  <2>4. f[c] \in Nat /\ f[c] # 0
    BY <1>1, <2>1
  <2>. QED
    BY <2>2, <2>3, <2>4, SMT
<1>. QED
  BY <1>2, <1>3, SumEmpty

(* Two sums that differ in one summand. *)
LEMMA SumApart ==
    ASSUME NEW f, NEW S, IsFiniteSet(S), NEW x, \A y \in S : f[y] \in Nat
    PROVE  /\ SumFunctionOnSet(f, S \ {x}) \in Nat
           /\ SumFunctionOnSet(f, S) = SumFunctionOnSet(f, S \ {x}) + If(x \in S, f[x])
<1>1. IsFiniteSet(S \ {x}) /\ \A y \in S \ {x} : f[y] \in Nat
  BY FS_Subset
<1>2. SumFunctionOnSet(f, S \ {x}) \in Nat
  BY <1>1, SumNat
<1>3. CASE x \in S
  <2>1. \A y \in S : f[y] \in Int
    BY SMT
  <2>2. \A y \in S : SumFunctionOnSet(f, S) = f[y] + SumFunctionOnSet(f, S \ {y})
    BY <2>1, SumTakes, ZenonT(60)
  <2>3. f[x] \in Nat
    BY <1>3
  <2>. QED
    BY <1>2, <1>3, <2>2, <2>3, SMT DEF If
<1>4. CASE x \notin S
  <2>1. S \ {x} = S
    BY <1>4
  <2>. QED
    BY <1>2, <1>4, <2>1, SMT DEF If
<1>. QED
  BY <1>3, <1>4

Beside(f, A, g, B, x) ==
    /\ A \ {x} = B \ {x}
    /\ \A y \in A : f[y] \in Nat
    /\ \A y \in B : g[y] \in Nat
    /\ \A y \in A \ {x} : f[y] = g[y]

Rest(f, A, x) == SumFunctionOnSet(f, A \ {x})

SumsAround(f, A, g, B, x) ==
    /\ Rest(f, A, x) \in Nat
    /\ SumFunctionOnSet(f, A) = Rest(f, A, x) + If(x \in A, f[x])
    /\ SumFunctionOnSet(g, B) = Rest(f, A, x) + If(x \in B, g[x])

(* Two sums that agree but for x: the same rest, with x or without. *)
LEMMA SumAround ==
    ASSUME NEW f, NEW A, IsFiniteSet(A), NEW g, NEW B, IsFiniteSet(B), NEW x, Beside(f, A, g, B, x)
    PROVE  SumsAround(f, A, g, B, x)
<1>1. IsFiniteSet(A \ {x})
  BY FS_Subset
<1>2. SumFunctionOnSet(f, A \ {x}) = SumFunctionOnSet(g, A \ {x})
  <2>1. \A y \in A \ {x} : f[y] = g[y]
    BY DEF Beside
  <2>. QED
    BY <1>1, <2>1, SumSame
<1>3. SumFunctionOnSet(f, A \ {x}) \in Nat /\ SumFunctionOnSet(f, A) = SumFunctionOnSet(f, A \ {x}) + If(x \in A, f[x])
  BY SumApart DEF Beside
<1>4. SumFunctionOnSet(g, B) = SumFunctionOnSet(g, B \ {x}) + If(x \in B, g[x])
  BY SumApart DEF Beside
<1>5. A \ {x} = B \ {x}
  BY DEF Beside
<1>. QED
  BY <1>2, <1>3, <1>4, <1>5 DEF Rest, SumsAround

-----------------------------------------------------------------------------
(* One reservation more, less or in another state: what a split shows.     *)

Reservation == [request : Requests, state : {"reserved", "committed"}]

(* A table of reservations, and one with another row under one id. *)
RowsOK(rs) == IsFiniteSet(DOMAIN rs) /\ rs \in [DOMAIN rs -> Reservation]

Changes(rs, rs2, id, q) ==
    /\ RowsOK(rs) /\ RowsOK(rs2) /\ q \in Requests
    /\ \A i : i # id => (i \in DOMAIN rs2 <=> i \in DOMAIN rs)
    /\ \A i \in DOMAIN rs : i # id => rs2[i] = rs[i]
    /\ id \in DOMAIN rs => rs[id].request = q
    /\ id \in DOMAIN rs2 => rs2[id].request = q

Reserved(rs, rs2, id, q) ==
    Changes(rs, rs2, id, q) /\ id \notin DOMAIN rs /\ id \in DOMAIN rs2 /\ rs2[id].state = "reserved"
Moved(rs, rs2, id, q) ==
    /\ Changes(rs, rs2, id, q)
    /\ id \in DOMAIN rs /\ rs[id].state = "reserved" /\ id \in DOMAIN rs2 /\ rs2[id].state = "committed"
Dropped(rs, rs2, id, q, s) ==
    /\ Changes(rs, rs2, id, q) /\ s \in {"reserved", "committed"}
    /\ id \in DOMAIN rs /\ rs[id].state = s /\ id \notin DOMAIN rs2

(* Finitely many reservations hold anything. *)
LEMMA HoldingFinite ==
    ASSUME NEW rs, RowsOK(rs), NEW s, NEW F PROVE IsFiniteSet(Holding(rs, s, F))
<1>1. Holding(rs, s, F) \in SUBSET DOMAIN rs
  BY DEF Holding
<1>2. IsFiniteSet(DOMAIN rs)
  BY DEF RowsOK
<1>. QED
  BY <1>1, <1>2, FS_Subset

(* A change of one reservation is no change for the others. *)
LEMMA HoldingAround ==
    ASSUME NEW rs, NEW rs2, NEW id, NEW q, Changes(rs, rs2, id, q), NEW s, NEW F
    PROVE  \A i : i # id => (i \in Holding(rs, s, F) <=> i \in Holding(rs2, s, F))
<1>1. ASSUME NEW i, i # id PROVE i \in Holding(rs, s, F) <=> i \in Holding(rs2, s, F)
  <2>1. CASE i \in DOMAIN rs
    <3>1. i \in DOMAIN rs2 /\ rs2[i] = rs[i]
      BY <1>1, <2>1 DEF Changes
    <3>. QED
      BY <2>1, <3>1 DEF Holding
  <2>2. CASE i \notin DOMAIN rs
    <3>1. i \notin DOMAIN rs2
      BY <1>1, <2>2 DEF Changes
    <3>. QED
      BY <2>2, <3>1 DEF Holding
  <2>. QED
    BY <2>1, <2>2
<1>. QED
  BY <1>1

PartOf(rs, s, F, w) == SumFunctionOnSet([i \in DOMAIN rs |-> w[rs[i].request]], Holding(rs, s, F))
Weight(w) == \A p \in Requests : w[p] \in Nat

RestOf(rs, id, s, F, w) == Rest([i \in DOMAIN rs |-> w[rs[i].request]], Holding(rs, s, F), id)

PartsAround(rs, rs2, id, q, s, F, w) ==
    /\ RestOf(rs, id, s, F, w) \in Nat
    /\ PartOf(rs, s, F, w) = RestOf(rs, id, s, F, w) + If(id \in Holding(rs, s, F), w[q])
    /\ PartOf(rs2, s, F, w) = RestOf(rs, id, s, F, w) + If(id \in Holding(rs2, s, F), w[q])

(* One part of a split before and after the change. *)
LEMMA PartAround ==
    ASSUME NEW rs, NEW rs2, NEW id, NEW q, Changes(rs, rs2, id, q), NEW s, NEW F, NEW w, Weight(w)
    PROVE  PartsAround(rs, rs2, id, q, s, F, w)
<1>. DEFINE A == Holding(rs, s, F)
            B == Holding(rs2, s, F)
            f == [i \in DOMAIN rs |-> w[rs[i].request]]
            g == [i \in DOMAIN rs2 |-> w[rs2[i].request]]
<1>1. IsFiniteSet(A) /\ IsFiniteSet(B)
  BY HoldingFinite DEF Changes
<1>2. \A i : i # id => (i \in A <=> i \in B)
  BY HoldingAround
<1>3. \A i \in A : i \in DOMAIN rs /\ f[i] = w[rs[i].request] /\ rs[i].request \in Requests
  BY SMT DEF Holding, Changes, RowsOK, Reservation
<1>4. \A i \in B : i \in DOMAIN rs2 /\ g[i] = w[rs2[i].request] /\ rs2[i].request \in Requests
  BY SMT DEF Holding, Changes, RowsOK, Reservation
<1>5. ASSUME NEW i \in A, i # id PROVE f[i] = g[i]
  <2>1. i \in B /\ rs2[i] = rs[i]
    BY <1>2, <1>3, <1>5 DEF Changes
  <2>. QED
    BY <1>3, <1>4, <2>1
<1>6. (id \in A => f[id] = w[q]) /\ (id \in B => g[id] = w[q])
  BY <1>3, <1>4 DEF Changes
<1>. HIDE DEF A, B, f, g
<1>7. Beside(f, A, g, B, id)
  <2>1. (\A i \in A : f[i] \in Nat) /\ \A i \in B : g[i] \in Nat
    BY <1>3, <1>4 DEF Weight
  <2>2. A \ {id} = B \ {id}
    BY <1>2
  <2>. QED
    BY <1>5, <2>1, <2>2 DEF Beside
<1>8. SumsAround(f, A, g, B, id)
  BY <1>1, <1>7, SumAround
<1>9. If(id \in A, f[id]) = If(id \in A, w[q]) /\ If(id \in B, g[id]) = If(id \in B, w[q])
  BY <1>6 DEF If
<1>10. /\ Rest(f, A, id) \in Nat
       /\ SumFunctionOnSet(f, A) = Rest(f, A, id) + If(id \in A, w[q])
       /\ SumFunctionOnSet(g, B) = Rest(f, A, id) + If(id \in B, w[q])
  BY <1>8, <1>9 DEF SumsAround
<1>. QED
  BY <1>10 DEF A, B, f, g, PartOf, RestOf, PartsAround

(* A split before and after: what id weighs, and the rest. *)
Around(a, b, c, p, w, ac, ap, bc, bp) ==
    /\ c \in Nat /\ p \in Nat
    /\ a = [committed |-> c + If(ac, w), reserved |-> p + If(ap, w)]
    /\ b = [committed |-> c + If(bc, w), reserved |-> p + If(bp, w)]

(* Both sides of a split, around the changed reservation. *)
LEMMA SplitAround ==
    ASSUME NEW rs, NEW rs2, NEW id, NEW q, Changes(rs, rs2, id, q), NEW F, NEW w,
           Weight(w)
    PROVE  \E c, p : Around(Split(rs, F, w), Split(rs2, F, w), c, p, w[q],
                            id \in Holding(rs, "committed", F), id \in Holding(rs, "reserved", F),
                            id \in Holding(rs2, "committed", F), id \in Holding(rs2, "reserved", F))
<1>1. \A s : PartsAround(rs, rs2, id, q, s, F, w)
  BY PartAround
<1>2. /\ Split(rs, F, w) = [committed |-> PartOf(rs, "committed", F, w), reserved |-> PartOf(rs, "reserved", F, w)]
      /\ Split(rs2, F, w) = [committed |-> PartOf(rs2, "committed", F, w), reserved |-> PartOf(rs2, "reserved", F, w)]
  BY DEF Split, PartOf
<1>. DEFINE c == RestOf(rs, id, "committed", F, w)
            p == RestOf(rs, id, "reserved", F, w)
<1>3. Around(Split(rs, F, w), Split(rs2, F, w), c, p, w[q],
             id \in Holding(rs, "committed", F), id \in Holding(rs, "reserved", F),
             id \in Holding(rs2, "committed", F), id \in Holding(rs2, "reserved", F))
  BY <1>1, <1>2 DEF Around, PartsAround
<1>. QED
  BY <1>3

(* How each change shows in a split. *)
SplitStays(rs, rs2, F, w) == Split(rs2, F, w) = Split(rs, F, w)
SplitGains(rs, rs2, F, w, n) == Split(rs2, F, w) = reserved_add(Split(rs, F, w), n)
SplitMoves(rs, rs2, F, w, n) == Split(rs2, F, w) = move_value(Split(rs, F, w), n)
SplitLoses(rs, rs2, F, w, s, n) == Split(rs2, F, w) = subtract_value(Split(rs, F, w), s, n)

(* A split that does not count the request stays. *)
LEMMA SplitOutside ==
    ASSUME NEW rs, NEW rs2, NEW id, NEW q, Changes(rs, rs2, id, q), NEW F, NEW w, Weight(w), q \notin F
    PROVE  SplitStays(rs, rs2, F, w)
<1>1. PICK c, p : Around(Split(rs, F, w), Split(rs2, F, w), c, p, w[q],
                            id \in Holding(rs, "committed", F), id \in Holding(rs, "reserved", F),
                            id \in Holding(rs2, "committed", F), id \in Holding(rs2, "reserved", F))
  BY SplitAround
<1>2. /\ id \notin Holding(rs, "committed", F) /\ id \notin Holding(rs, "reserved", F)
      /\ id \notin Holding(rs2, "committed", F) /\ id \notin Holding(rs2, "reserved", F)
      /\ w[q] \in Nat
  BY DEF Changes, Holding, Weight
<1>. QED
  BY <1>1, <1>2, SMT DEF Around, If, SplitStays

(* A new reservation adds its weight to the reserved side. *)
LEMMA SplitReserved ==
    ASSUME NEW rs, NEW rs2, NEW id, NEW q, Reserved(rs, rs2, id, q), NEW F, NEW w, Weight(w), q \in F
    PROVE  SplitGains(rs, rs2, F, w, w[q])
<1>1. PICK c, p : Around(Split(rs, F, w), Split(rs2, F, w), c, p, w[q],
                            id \in Holding(rs, "committed", F), id \in Holding(rs, "reserved", F),
                            id \in Holding(rs2, "committed", F), id \in Holding(rs2, "reserved", F))
  BY SplitAround DEF Reserved
<1>2. /\ id \notin Holding(rs, "committed", F) /\ id \notin Holding(rs, "reserved", F)
      /\ id \notin Holding(rs2, "committed", F) /\ id \in Holding(rs2, "reserved", F)
      /\ w[q] \in Nat
  BY DEF Reserved, Changes, Holding, Weight
<1>. QED
  BY <1>1, <1>2, SMT DEF Around, If, reserved_add, SplitGains

(* A commit moves the weight to the committed side. *)
LEMMA SplitMoved ==
    ASSUME NEW rs, NEW rs2, NEW id, NEW q, Moved(rs, rs2, id, q), NEW F, NEW w, Weight(w), q \in F
    PROVE  SplitMoves(rs, rs2, F, w, w[q])
<1>1. PICK c, p : Around(Split(rs, F, w), Split(rs2, F, w), c, p, w[q],
                            id \in Holding(rs, "committed", F), id \in Holding(rs, "reserved", F),
                            id \in Holding(rs2, "committed", F), id \in Holding(rs2, "reserved", F))
  BY SplitAround DEF Moved
<1>2. /\ id \notin Holding(rs, "committed", F) /\ id \in Holding(rs, "reserved", F)
      /\ id \in Holding(rs2, "committed", F) /\ id \notin Holding(rs2, "reserved", F)
      /\ w[q] \in Nat
  BY DEF Moved, Changes, Holding, Weight
<1>. QED
  BY <1>1, <1>2, SMT DEF Around, If, move_value, SplitMoves

(* A release takes the weight off the side it was on. *)
LEMMA SplitDropped ==
    ASSUME NEW rs, NEW rs2, NEW id, NEW q, NEW s, Dropped(rs, rs2, id, q, s), NEW F, NEW w, Weight(w), q \in F
    PROVE  SplitLoses(rs, rs2, F, w, s, w[q])
<1>1. PICK c, p : Around(Split(rs, F, w), Split(rs2, F, w), c, p, w[q],
                            id \in Holding(rs, "committed", F), id \in Holding(rs, "reserved", F),
                            id \in Holding(rs2, "committed", F), id \in Holding(rs2, "reserved", F))
  BY SplitAround DEF Dropped
<1>2. /\ (id \in Holding(rs, "committed", F) <=> s = "committed")
      /\ (id \in Holding(rs, "reserved", F) <=> s = "reserved")
      /\ id \notin Holding(rs2, "committed", F) /\ id \notin Holding(rs2, "reserved", F)
      /\ w[q] \in Nat /\ s \in {"reserved", "committed"}
  BY DEF Dropped, Changes, Holding, Weight
<1>. QED
  BY <1>1, <1>2, SMT DEF Around, If, subtract_value, SplitLoses

-----------------------------------------------------------------------------
(* The keys of the reservations: what is counted once.                     *)

(* Finitely many keys are held. *)
LEMMA KeysFinite ==
    ASSUME NEW rs, RowsOK(rs), NEW s, NEW F, NEW key
    PROVE  IsFiniteSet(KeysHeld(rs, s, F, key))
<1>. DEFINE A == Holding(rs, s, F)
            K == KeysHeld(rs, s, F, key)
            to == [id \in A |-> key[rs[id].request]]
<1>1. IsFiniteSet(A)
  BY HoldingFinite
<1>2. to \in Surjection(A, K)
  BY SMT DEF Surjection, KeysHeld
<1>. HIDE DEF A, K, to
<1>3. IsFiniteSet(K)
  BY <1>1, <1>2, FS_Surjection
<1>. QED
  BY <1>3 DEF K

(* The keys counted as committed, and those counted as reserved. *)
KeysIn(rs, s, F, key) ==
    IF s = "committed" THEN KeysHeld(rs, "committed", F, key)
    ELSE KeysHeld(rs, "reserved", F, key) \ KeysHeld(rs, "committed", F, key)

(* What the key of a request weighs. *)
Weighs(rs, F, key, w, v) ==
    \A id \in DOMAIN rs : rs[id].request \in F =>
      w[rs[id].request] \in Nat /\ v[key[rs[id].request]] = w[rs[id].request]

SharedPart(rs, s, F, key, v) == SumFunctionOnSet(v, KeysIn(rs, s, F, key))

(* A key is counted because some reservation holds it. *)
LEMMA KeysInFacts ==
    ASSUME NEW rs, RowsOK(rs), NEW s \in {"committed", "reserved"}, NEW F, NEW key
    PROVE  /\ IsFiniteSet(KeysIn(rs, s, F, key))
           /\ \A k \in KeysIn(rs, s, F, key) : \E id \in DOMAIN rs : rs[id].request \in F /\ key[rs[id].request] = k
<1>1. IsFiniteSet(KeysIn(rs, s, F, key))
  <2>. DEFINE C == KeysHeld(rs, "committed", F, key)
              P == KeysHeld(rs, "reserved", F, key)
  <2>1. IsFiniteSet(C) /\ IsFiniteSet(P)
    BY KeysFinite
  <2>. HIDE DEF C, P
  <2>2. IsFiniteSet(P \ C)
    BY <2>1, FS_Subset
  <2>. QED
    BY <2>1, <2>2 DEF KeysIn, C, P
<1>2. \A t : \A k \in KeysHeld(rs, t, F, key) : \E id \in DOMAIN rs : rs[id].request \in F /\ key[rs[id].request] = k
  BY DEF KeysHeld, Holding
<1>3. \A k \in KeysIn(rs, s, F, key) : \E t : k \in KeysHeld(rs, t, F, key)
  BY DEF KeysIn
<1>. QED
  BY <1>1, <1>2, <1>3

(* Every counted key has a weight. *)
LEMMA KeyWeights ==
    ASSUME NEW rs, RowsOK(rs), NEW F, NEW key, NEW w, NEW v, Weighs(rs, F, key, w, v),
           NEW s \in {"committed", "reserved"}
    PROVE  \A k \in KeysIn(rs, s, F, key) : v[k] \in Nat
<1>1. ASSUME NEW k \in KeysIn(rs, s, F, key) PROVE v[k] \in Nat
  <2>1. PICK id \in DOMAIN rs : rs[id].request \in F /\ key[rs[id].request] = k
    BY KeysInFacts, SMT
  <2>. QED
    BY <2>1 DEF Weighs
<1>. QED
  BY <1>1

(* Any holder of a key tells its weight. *)
LEMMA SharedIs ==
    ASSUME NEW rs, RowsOK(rs), NEW F, NEW key, NEW w, NEW v, Weighs(rs, F, key, w, v)
    PROVE  Shared(rs, F, key, w) =
             [committed |-> SharedPart(rs, "committed", F, key, v), reserved |-> SharedPart(rs, "reserved", F, key, v)]
<1>. DEFINE settled == KeysHeld(rs, "committed", F, key)
            waiting == KeysHeld(rs, "reserved", F, key) \ settled
            holder(k) == CHOOSE id \in DOMAIN rs : rs[id].request \in F /\ key[rs[id].request] = k
            of == [k \in settled \cup waiting |-> w[rs[holder(k)].request]]
<1>1. Shared(rs, F, key, w) = [committed |-> SumFunctionOnSet(of, settled), reserved |-> SumFunctionOnSet(of, waiting)]
  BY DEF Shared
<1>2. settled = KeysIn(rs, "committed", F, key) /\ waiting = KeysIn(rs, "reserved", F, key)
  BY SMT DEF KeysIn
<1>3. ASSUME NEW k \in settled \cup waiting PROVE of[k] = v[k]
  <2>1. \E id \in DOMAIN rs : rs[id].request \in F /\ key[rs[id].request] = k
    <3>1. k \in KeysIn(rs, "committed", F, key) \/ k \in KeysIn(rs, "reserved", F, key)
      BY <1>2
    <3>. HIDE DEF settled, waiting
    <3>. QED
      BY <3>1, KeysInFacts, SMT
  <2>2. holder(k) \in DOMAIN rs /\ rs[holder(k)].request \in F /\ key[rs[holder(k)].request] = k
    BY <2>1
  <2>3. of[k] = w[rs[holder(k)].request]
    OBVIOUS
  <2>. HIDE DEF of, holder
  <2>. QED
    BY <2>2, <2>3 DEF Weighs
<1>. HIDE DEF of, settled, waiting
<1>4. IsFiniteSet(settled) /\ IsFiniteSet(waiting)
  BY <1>2, KeysInFacts, SMT
<1>5. SumFunctionOnSet(of, settled) = SumFunctionOnSet(v, settled)
  <2>1. \A x \in settled : of[x] = v[x]
    BY <1>3
  <2>. QED
    BY <1>4, <2>1, SumSame
<1>6. SumFunctionOnSet(of, waiting) = SumFunctionOnSet(v, waiting)
  <2>1. \A x \in waiting : of[x] = v[x]
    BY <1>3
  <2>. QED
    BY <1>4, <2>1, SumSame
<1>. QED
  BY <1>1, <1>2, <1>5, <1>6 DEF SharedPart

(* A key other than the one of q is counted as before. *)
LEMMA KeysAround ==
    ASSUME NEW rs, NEW rs2, NEW id, NEW q, Changes(rs, rs2, id, q), NEW s, NEW F, NEW key, NEW k, k # key[q]
    PROVE  k \in KeysHeld(rs, s, F, key) <=> k \in KeysHeld(rs2, s, F, key)
<1>1. \A i : i # id => (i \in Holding(rs, s, F) <=> i \in Holding(rs2, s, F))
  BY HoldingAround
<1>2. \A i \in DOMAIN rs : i # id => rs2[i] = rs[i]
  BY DEF Changes
<1>3. \A i \in Holding(rs, s, F) : i \in DOMAIN rs
  BY DEF Holding
<1>4. ASSUME k \in KeysHeld(rs, s, F, key) PROVE k \in KeysHeld(rs2, s, F, key)
  <2>1. PICK i \in Holding(rs, s, F) : key[rs[i].request] = k
    BY <1>4 DEF KeysHeld
  <2>2. i # id
    BY <1>3, <2>1 DEF Changes
  <2>3. i \in Holding(rs2, s, F) /\ rs2[i] = rs[i]
    BY <1>1, <1>2, <1>3, <2>1, <2>2
  <2>. QED
    BY <2>1, <2>3 DEF KeysHeld
<1>5. ASSUME k \in KeysHeld(rs2, s, F, key) PROVE k \in KeysHeld(rs, s, F, key)
  <2>1. PICK i \in Holding(rs2, s, F) : key[rs2[i].request] = k
    BY <1>5 DEF KeysHeld
  <2>2. i # id
    BY <2>1 DEF Changes, Holding
  <2>3. i \in Holding(rs, s, F) /\ rs2[i] = rs[i]
    BY <1>1, <1>2, <1>3, <2>1, <2>2
  <2>. QED
    BY <2>1, <2>3 DEF KeysHeld
<1>. QED
  BY <1>4, <1>5

SharedRest(rs, q, s, F, key, v) == Rest(v, KeysIn(rs, s, F, key), key[q])

SharedPartsAround(rs, rs2, q, s, F, key, w, v) ==
    /\ SharedRest(rs, q, s, F, key, v) \in Nat
    /\ SharedPart(rs, s, F, key, v) = SharedRest(rs, q, s, F, key, v) + If(key[q] \in KeysIn(rs, s, F, key), w[q])
    /\ SharedPart(rs2, s, F, key, v) = SharedRest(rs, q, s, F, key, v) + If(key[q] \in KeysIn(rs2, s, F, key), w[q])

(* One side of a shared counter, around the key of the changed request. *)
LEMMA SharedPartAround ==
    ASSUME NEW rs, NEW rs2, NEW id, NEW q, Changes(rs, rs2, id, q), NEW s \in {"committed", "reserved"},
           NEW F, NEW key, NEW w, NEW v, Weighs(rs, F, key, w, v), Weighs(rs2, F, key, w, v), v[key[q]] = w[q]
    PROVE  SharedPartsAround(rs, rs2, q, s, F, key, w, v)
<1>. DEFINE A == KeysIn(rs, s, F, key)
            B == KeysIn(rs2, s, F, key)
            k == key[q]
<1>1. IsFiniteSet(A) /\ IsFiniteSet(B)
  BY KeysInFacts DEF Changes
<1>2. \A x : x # k => (x \in A <=> x \in B)
  BY KeysAround DEF KeysIn
<1>3. \A x \in A : v[x] \in Nat
  BY KeyWeights DEF Changes
<1>4. \A x \in B : v[x] \in Nat
  BY KeyWeights DEF Changes
<1>. HIDE DEF A, B, k
<1>5. Beside(v, A, v, B, k)
  <2>1. A \ {k} = B \ {k}
    BY <1>2
  <2>. QED
    BY <1>3, <1>4, <2>1 DEF Beside
<1>6. SumsAround(v, A, v, B, k)
  BY <1>1, <1>5, SumAround
<1>. QED
  BY <1>6 DEF SumsAround, SharedPartsAround, SharedRest, SharedPart, A, B, k

-----------------------------------------------------------------------------
(* References tell whether a key is counted, and on which side.            *)

Values == [committed : Nat, reserved : Nat]

(* A reference weighs one. *)
LEMMA OneWeighs == Weight(One) /\ \A q \in Requests : One[q] = 1
BY SMT DEF Weight, One

(* References to a key: requests Fk of F that have the key of q. *)
Keyed(F, Fk, key, q) == \A p \in Requests : p \in Fk <=> p \in F /\ key[p] = key[q]

(* A key is held exactly when its reference counter has a holder. *)
LEMMA KeyIsHeld ==
    ASSUME NEW rs, RowsOK(rs), NEW F, NEW Fk, NEW key, NEW q, Keyed(F, Fk, key, q), NEW s
    PROVE  key[q] \in KeysHeld(rs, s, F, key) <=> Holding(rs, s, Fk) # {}
<1>1. \A i \in DOMAIN rs : rs[i].request \in Requests
  BY SMT DEF RowsOK, Reservation
<1>2. ASSUME key[q] \in KeysHeld(rs, s, F, key) PROVE Holding(rs, s, Fk) # {}
  <2>1. PICK i \in Holding(rs, s, F) : key[rs[i].request] = key[q]
    BY <1>2 DEF KeysHeld
  <2>2. i \in Holding(rs, s, Fk)
    BY <1>1, <2>1 DEF Holding, Keyed
  <2>. QED
    BY <2>2
<1>3. ASSUME Holding(rs, s, Fk) # {} PROVE key[q] \in KeysHeld(rs, s, F, key)
  <2>1. PICK i : i \in Holding(rs, s, Fk)
    BY <1>3
  <2>2. i \in Holding(rs, s, F) /\ key[rs[i].request] = key[q]
    BY <1>1, <2>1 DEF Holding, Keyed
  <2>. QED
    BY <2>2 DEF KeysHeld
<1>. QED
  BY <1>2, <1>3

Counts(n, A) == n \in Nat /\ (n = 0 <=> A = {})

(* A reference counter is zero exactly when nobody holds it. *)
LEMMA OnesCount ==
    ASSUME NEW rs, RowsOK(rs), NEW s, NEW F PROVE Counts(PartOf(rs, s, F, One), Holding(rs, s, F))
<1>. DEFINE A == Holding(rs, s, F)
            f == [i \in DOMAIN rs |-> One[rs[i].request]]
<1>1. IsFiniteSet(A)
  BY HoldingFinite
<1>2. ASSUME NEW i \in A PROVE f[i] \in Nat \ {0}
  <2>1. i \in DOMAIN rs /\ rs[i].request \in Requests
    BY SMT DEF Holding, RowsOK, Reservation
  <2>2. f[i] = 1
    BY <2>1, OneWeighs
  <2>. QED
    BY <2>2, SMT
<1>. HIDE DEF A, f
<1>3. Counts(SumFunctionOnSet(f, A), A)
  BY <1>1, <1>2, SumPositive DEF Counts
<1>. QED
  BY <1>3 DEF A, f, PartOf

References(n, c, p) == n \in Values /\ (c <=> n.committed # 0) /\ (p <=> n.committed = 0 /\ n.reserved # 0)

(* The reference counter of a key tells on which side the key counts. *)
LEMMA KeyIsCounted ==
    ASSUME NEW rs, RowsOK(rs), NEW F, NEW Fk, NEW key, NEW q, Keyed(F, Fk, key, q)
    PROVE  References(Split(rs, Fk, One), key[q] \in KeysIn(rs, "committed", F, key),
                      key[q] \in KeysIn(rs, "reserved", F, key))
<1>. DEFINE c == PartOf(rs, "committed", Fk, One)
            p == PartOf(rs, "reserved", Fk, One)
<1>1. Split(rs, Fk, One) = [committed |-> c, reserved |-> p]
  BY DEF Split, PartOf
<1>2. Counts(c, Holding(rs, "committed", Fk)) /\ Counts(p, Holding(rs, "reserved", Fk))
  BY OnesCount
<1>. HIDE DEF c, p
<1>3. /\ key[q] \in KeysHeld(rs, "committed", F, key) <=> c # 0
      /\ key[q] \in KeysHeld(rs, "reserved", F, key) <=> p # 0
  BY <1>2, KeyIsHeld DEF Counts
<1>4. /\ key[q] \in KeysIn(rs, "committed", F, key) <=> c # 0
      /\ key[q] \in KeysIn(rs, "reserved", F, key) <=> c = 0 /\ p # 0
  BY <1>3, SMT DEF KeysIn
<1>5. c \in Nat /\ p \in Nat
  BY <1>2 DEF Counts
<1>. QED
  BY <1>1, <1>4, <1>5, SMT DEF References, Values

(* Both sides of a shared counter, around the key of the request. *)
LEMMA SharedAround ==
    ASSUME NEW rs, NEW rs2, NEW id, NEW q, Changes(rs, rs2, id, q), id \in DOMAIN rs \cup DOMAIN rs2,
           NEW F, NEW key, NEW w, NEW v, Weighs(rs, F, key, w, v), Weighs(rs2, F, key, w, v), q \in F
    PROVE  /\ \E c, p : Around(Shared(rs, F, key, w), Shared(rs2, F, key, w), c, p, w[q],
                            key[q] \in KeysIn(rs, "committed", F, key), key[q] \in KeysIn(rs, "reserved", F, key),
                            key[q] \in KeysIn(rs2, "committed", F, key), key[q] \in KeysIn(rs2, "reserved", F, key))
           /\ w[q] \in Nat
<1>1. v[key[q]] = w[q] /\ w[q] \in Nat
  BY DEF Changes, Weighs
<1>2. \A s \in {"committed", "reserved"} : SharedPartsAround(rs, rs2, q, s, F, key, w, v)
  BY <1>1, SharedPartAround
<1>3. SharedPartsAround(rs, rs2, q, "committed", F, key, w, v) /\ SharedPartsAround(rs, rs2, q, "reserved", F, key, w, v)
  BY <1>2
<1>4. RowsOK(rs) /\ RowsOK(rs2)
  BY DEF Changes
<1>5. Shared(rs, F, key, w) =
        [committed |-> SharedPart(rs, "committed", F, key, v), reserved |-> SharedPart(rs, "reserved", F, key, v)]
  BY <1>4, SharedIs, SMT
<1>6. Shared(rs2, F, key, w) =
        [committed |-> SharedPart(rs2, "committed", F, key, v), reserved |-> SharedPart(rs2, "reserved", F, key, v)]
  BY <1>4, SharedIs, SMT
<1>. DEFINE c == SharedRest(rs, q, "committed", F, key, v)
            p == SharedRest(rs, q, "reserved", F, key, v)
<1>7. Around(Shared(rs, F, key, w), Shared(rs2, F, key, w), c, p, w[q],
             key[q] \in KeysIn(rs, "committed", F, key), key[q] \in KeysIn(rs, "reserved", F, key),
             key[q] \in KeysIn(rs2, "committed", F, key), key[q] \in KeysIn(rs2, "reserved", F, key))
  BY <1>3, <1>5, <1>6 DEF Around, SharedPartsAround
<1>. QED
  BY <1>1, <1>7

(* How each change shows in what is shared: n references before, m after. *)
SumGains(a, b, n, w) == b = reserved_add(a, If(Total(n) = 0, w))
SumMoves(a, b, n, w) == b = move_first(a, n, w)
SumLoses(a, b, m, s, w) == b = rebalance_or_remove(a, m, s, w)

(* The first reference adds the weight (reserve). *)
LEMMA AroundReserved ==
    ASSUME NEW a, NEW b, NEW c, NEW p, NEW w \in Nat, NEW ac, NEW ap, NEW bc, NEW bp, NEW n, NEW m,
           Around(a, b, c, p, w, ac, ap, bc, bp), References(n, ac, ap), References(m, bc, bp),
           m = reserved_add(n, 1)
    PROVE  SumGains(a, b, n, w)
BY SMT DEF SumGains, Around, References, Values, reserved_add, If, Total

(* The first committed reference moves it (move_first). *)
LEMMA AroundMoved ==
    ASSUME NEW a, NEW b, NEW c, NEW p, NEW w \in Nat, NEW ac, NEW ap, NEW bc, NEW bp, NEW n, NEW m,
           Around(a, b, c, p, w, ac, ap, bc, bp), References(n, ac, ap), References(m, bc, bp),
           m = move_value(n, 1)
    PROVE  SumMoves(a, b, n, w)
BY SMT DEF SumMoves, Around, References, Values, move_value, move_first, If

(* The last reference of a side moves it back or takes it off              *)
(* (rebalance_or_remove).                                                  *)
LEMMA AroundDropped ==
    ASSUME NEW a, NEW b, NEW c, NEW p, NEW w \in Nat, NEW ac, NEW ap, NEW bc, NEW bp, NEW n, NEW m,
           Around(a, b, c, p, w, ac, ap, bc, bp), References(n, ac, ap), References(m, bc, bp),
           NEW s \in {"reserved", "committed"}, m = subtract_value(n, s, 1)
    PROVE  SumLoses(a, b, m, s, w)
BY SMT DEF SumLoses, Around, References, Values, subtract_value, rebalance_or_remove, If, Total

-----------------------------------------------------------------------------
(* What a shared counter shows.                                            *)

SharedStays(rs, rs2, F, key, w) == Shared(rs2, F, key, w) = Shared(rs, F, key, w)
SharedGains(rs, rs2, F, Fk, key, w, n) ==
    Shared(rs2, F, key, w) = reserved_add(Shared(rs, F, key, w), If(Total(Split(rs, Fk, One)) = 0, n))
SharedMoves(rs, rs2, F, Fk, key, w, n) ==
    Shared(rs2, F, key, w) = move_first(Shared(rs, F, key, w), Split(rs, Fk, One), n)
SharedLoses(rs, rs2, F, Fk, key, w, s, n) ==
    Shared(rs2, F, key, w) = rebalance_or_remove(Shared(rs, F, key, w), Split(rs2, Fk, One), s, n)

Sharing(rs, rs2, F, key, w, v) == Weighs(rs, F, key, w, v) /\ Weighs(rs2, F, key, w, v)

(* A shared counter that does not count the request stays. *)
LEMMA SharedOutside ==
    ASSUME NEW rs, NEW rs2, NEW id, NEW q, Changes(rs, rs2, id, q),
           NEW F, NEW key, NEW w, NEW v, Sharing(rs, rs2, F, key, w, v), q \notin F
    PROVE  SharedStays(rs, rs2, F, key, w)
<1>1. ASSUME NEW s, NEW i
      PROVE  (i \in Holding(rs, s, F) <=> i \in Holding(rs2, s, F)) /\ (i \in Holding(rs, s, F) => rs2[i] = rs[i])
  <2>1. CASE i = id
    BY <2>1 DEF Changes, Holding
  <2>2. CASE i # id
    <3>1. i \in Holding(rs, s, F) <=> i \in Holding(rs2, s, F)
      BY <2>2, HoldingAround
    <3>2. i \in Holding(rs, s, F) => i \in DOMAIN rs
      BY DEF Holding
    <3>. QED
      BY <2>2, <3>1, <3>2 DEF Changes
  <2>. QED
    BY <2>1, <2>2
<1>2. ASSUME NEW s PROVE KeysHeld(rs, s, F, key) = KeysHeld(rs2, s, F, key)
  <2>. DEFINE A == Holding(rs, s, F)
              B == Holding(rs2, s, F)
  <2>1. \A i : (i \in A <=> i \in B) /\ (i \in A => rs2[i] = rs[i])
    BY <1>1
  <2>2. KeysHeld(rs, s, F, key) = {key[rs[i].request] : i \in A} /\ KeysHeld(rs2, s, F, key) = {key[rs2[i].request] : i \in B}
    BY DEF KeysHeld
  <2>. HIDE DEF A, B
  <2>3. {key[rs[i].request] : i \in A} = {key[rs2[i].request] : i \in B}
    BY <2>1, SMT
  <2>. QED
    BY <2>2, <2>3
<1>3. \A s \in {"committed", "reserved"} : KeysIn(rs, s, F, key) = KeysIn(rs2, s, F, key)
  BY <1>2, SMT DEF KeysIn
<1>4. \A s \in {"committed", "reserved"} : SharedPart(rs, s, F, key, v) = SharedPart(rs2, s, F, key, v)
  BY <1>3 DEF SharedPart
<1>5. RowsOK(rs) /\ RowsOK(rs2) /\ Weighs(rs, F, key, w, v) /\ Weighs(rs2, F, key, w, v)
  BY DEF Changes, Sharing
<1>6. Shared(rs, F, key, w) =
        [committed |-> SharedPart(rs, "committed", F, key, v), reserved |-> SharedPart(rs, "reserved", F, key, v)]
  BY <1>5, SharedIs, SMT
<1>7. Shared(rs2, F, key, w) =
        [committed |-> SharedPart(rs2, "committed", F, key, v), reserved |-> SharedPart(rs2, "reserved", F, key, v)]
  BY <1>5, SharedIs, SMT
<1>. QED
  BY <1>4, <1>6, <1>7 DEF SharedStays

(* A new reservation adds the weight of its key, if the key is new. *)
LEMMA SharedReserved ==
    ASSUME NEW rs, NEW rs2, NEW id, NEW q, Reserved(rs, rs2, id, q), NEW F, NEW Fk, NEW key, NEW w, NEW v,
           Sharing(rs, rs2, F, key, w, v), Keyed(F, Fk, key, q), q \in F
    PROVE  SharedGains(rs, rs2, F, Fk, key, w, w[q])
<1>1. Changes(rs, rs2, id, q) /\ id \in DOMAIN rs \cup DOMAIN rs2 /\ RowsOK(rs) /\ RowsOK(rs2) /\ q \in Requests
  BY DEF Reserved, Changes
<1>2. Weighs(rs, F, key, w, v) /\ Weighs(rs2, F, key, w, v)
  BY DEF Sharing
<1>3. PICK c, p : Around(Shared(rs, F, key, w), Shared(rs2, F, key, w), c, p, w[q],
                         key[q] \in KeysIn(rs, "committed", F, key), key[q] \in KeysIn(rs, "reserved", F, key),
                         key[q] \in KeysIn(rs2, "committed", F, key), key[q] \in KeysIn(rs2, "reserved", F, key))
  BY <1>1, <1>2, SharedAround
<1>4. w[q] \in Nat
  BY <1>1, <1>2, SharedAround
<1>5. /\ References(Split(rs, Fk, One), key[q] \in KeysIn(rs, "committed", F, key),
                    key[q] \in KeysIn(rs, "reserved", F, key))
      /\ References(Split(rs2, Fk, One), key[q] \in KeysIn(rs2, "committed", F, key),
                    key[q] \in KeysIn(rs2, "reserved", F, key))
  BY <1>1, KeyIsCounted
<1>6. Split(rs2, Fk, One) = reserved_add(Split(rs, Fk, One), 1)
  <2>1. q \in Fk /\ One[q] = 1 /\ Weight(One)
    BY <1>1, OneWeighs DEF Keyed
  <2>2. SplitGains(rs, rs2, Fk, One, One[q])
    BY <2>1, SplitReserved
  <2>. QED
    BY <2>1, <2>2 DEF SplitGains
<1>7. SumGains(Shared(rs, F, key, w), Shared(rs2, F, key, w), Split(rs, Fk, One), w[q])
  BY <1>3, <1>4, <1>5, <1>6, AroundReserved
<1>. QED
  BY <1>7 DEF SumGains, SharedGains

(* A commit moves the weight of its key, if it is the first. *)
LEMMA SharedMoved ==
    ASSUME NEW rs, NEW rs2, NEW id, NEW q, Moved(rs, rs2, id, q), NEW F, NEW Fk, NEW key, NEW w, NEW v,
           Sharing(rs, rs2, F, key, w, v), Keyed(F, Fk, key, q), q \in F
    PROVE  SharedMoves(rs, rs2, F, Fk, key, w, w[q])
<1>1. Changes(rs, rs2, id, q) /\ id \in DOMAIN rs \cup DOMAIN rs2 /\ RowsOK(rs) /\ RowsOK(rs2) /\ q \in Requests
  BY DEF Moved, Changes
<1>2. Weighs(rs, F, key, w, v) /\ Weighs(rs2, F, key, w, v)
  BY DEF Sharing
<1>3. PICK c, p : Around(Shared(rs, F, key, w), Shared(rs2, F, key, w), c, p, w[q],
                         key[q] \in KeysIn(rs, "committed", F, key), key[q] \in KeysIn(rs, "reserved", F, key),
                         key[q] \in KeysIn(rs2, "committed", F, key), key[q] \in KeysIn(rs2, "reserved", F, key))
  BY <1>1, <1>2, SharedAround
<1>4. w[q] \in Nat
  BY <1>1, <1>2, SharedAround
<1>5. /\ References(Split(rs, Fk, One), key[q] \in KeysIn(rs, "committed", F, key),
                    key[q] \in KeysIn(rs, "reserved", F, key))
      /\ References(Split(rs2, Fk, One), key[q] \in KeysIn(rs2, "committed", F, key),
                    key[q] \in KeysIn(rs2, "reserved", F, key))
  BY <1>1, KeyIsCounted
<1>6. Split(rs2, Fk, One) = move_value(Split(rs, Fk, One), 1)
  <2>1. q \in Fk /\ One[q] = 1 /\ Weight(One)
    BY <1>1, OneWeighs DEF Keyed
  <2>2. SplitMoves(rs, rs2, Fk, One, One[q])
    BY <2>1, SplitMoved
  <2>. QED
    BY <2>1, <2>2 DEF SplitMoves
<1>7. SumMoves(Shared(rs, F, key, w), Shared(rs2, F, key, w), Split(rs, Fk, One), w[q])
  BY <1>3, <1>4, <1>5, <1>6, AroundMoved
<1>. QED
  BY <1>7 DEF SumMoves, SharedMoves

(* A release rebalances or removes the weight of its key. *)
LEMMA SharedDropped ==
    ASSUME NEW rs, NEW rs2, NEW id, NEW q, NEW s, Dropped(rs, rs2, id, q, s),
           NEW F, NEW Fk, NEW key, NEW w, NEW v,
           Sharing(rs, rs2, F, key, w, v), Keyed(F, Fk, key, q), q \in F
    PROVE  SharedLoses(rs, rs2, F, Fk, key, w, s, w[q])
<1>1. /\ Changes(rs, rs2, id, q) /\ id \in DOMAIN rs \cup DOMAIN rs2 /\ RowsOK(rs) /\ RowsOK(rs2) /\ q \in Requests
      /\ s \in {"reserved", "committed"}
  BY DEF Dropped, Changes
<1>2. Weighs(rs, F, key, w, v) /\ Weighs(rs2, F, key, w, v)
  BY DEF Sharing
<1>3. PICK c, p : Around(Shared(rs, F, key, w), Shared(rs2, F, key, w), c, p, w[q],
                         key[q] \in KeysIn(rs, "committed", F, key), key[q] \in KeysIn(rs, "reserved", F, key),
                         key[q] \in KeysIn(rs2, "committed", F, key), key[q] \in KeysIn(rs2, "reserved", F, key))
  BY <1>1, <1>2, SharedAround
<1>4. w[q] \in Nat
  BY <1>1, <1>2, SharedAround
<1>5. /\ References(Split(rs, Fk, One), key[q] \in KeysIn(rs, "committed", F, key),
                    key[q] \in KeysIn(rs, "reserved", F, key))
      /\ References(Split(rs2, Fk, One), key[q] \in KeysIn(rs2, "committed", F, key),
                    key[q] \in KeysIn(rs2, "reserved", F, key))
  BY <1>1, KeyIsCounted
<1>6. Split(rs2, Fk, One) = subtract_value(Split(rs, Fk, One), s, 1)
  <2>1. q \in Fk /\ One[q] = 1 /\ Weight(One)
    BY <1>1, OneWeighs DEF Keyed
  <2>2. SplitLoses(rs, rs2, Fk, One, s, One[q])
    BY <2>1, SplitDropped
  <2>. QED
    BY <2>1, <2>2 DEF SplitLoses
<1>7. SumLoses(Shared(rs, F, key, w), Shared(rs2, F, key, w), Split(rs2, Fk, One), s, w[q])
  BY <1>1, <1>3, <1>4, <1>5, <1>6, AroundDropped
<1>. QED
  BY <1>7 DEF SumLoses, SharedLoses

-----------------------------------------------------------------------------
(* The keys and weights of the requests.                                   *)

(* What a digest weighs in a repository. *)
Sized(rs, v) == \A i \in DOMAIN rs : v[BlobKey(rs[i].request)] = rs[i].request.bytes

(* A request weighs its bytes. *)
LEMMA BytesWeigh == Weight(Bytes) /\ \A q \in Requests : Bytes[q] = q.bytes /\ q.bytes \in Nat
<1>1. \A q \in Requests : q.bytes \in Nat
  BY RequestsValid, LimitAssumption, SMT
<1>. QED
  BY <1>1 DEF Weight, Bytes

(* Reservations carry requests. *)
LEMMA RowRequests ==
    ASSUME NEW rs, RowsOK(rs) PROVE \A i \in DOMAIN rs : rs[i].request \in Requests
BY SMT DEF RowsOK, Reservation

(* A digest has one size, before the change and after. *)
LEMMA BlobSharing ==
    ASSUME NEW rs, NEW rs2, NEW id, NEW q, Changes(rs, rs2, id, q), NEW v, Sized(rs, v), Sized(rs2, v), NEW F
    PROVE  Sharing(rs, rs2, F, ByBlob, Bytes, v)
<1>1. ASSUME NEW t, RowsOK(t), Sized(t, v) PROVE Weighs(t, F, ByBlob, Bytes, v)
  <2>1. ASSUME NEW i \in DOMAIN t
        PROVE  Bytes[t[i].request] \in Nat /\ v[ByBlob[t[i].request]] = Bytes[t[i].request]
    <3>1. t[i].request \in Requests
      BY <1>1, RowRequests
    <3>2. ByBlob[t[i].request] = BlobKey(t[i].request)
      BY <3>1 DEF ByBlob
    <3>3. Bytes[t[i].request] = t[i].request.bytes /\ Bytes[t[i].request] \in Nat
      BY <3>1, BytesWeigh
    <3>. QED
      BY <1>1, <3>2, <3>3 DEF Sized
  <2>. QED
    BY <2>1 DEF Weighs
<1>. QED
  BY <1>1 DEF Sharing, Changes

(* Keys that count one have one weight. *)
LEMMA OnesShared ==
    ASSUME NEW rs, NEW rs2, NEW id, NEW q, Changes(rs, rs2, id, q), NEW F, NEW key, NEW K,
           \A p \in Requests : p \in F => key[p] \in K
    PROVE  Sharing(rs, rs2, F, key, One, [k \in K |-> 1])
<1>1. ASSUME NEW t, RowsOK(t) PROVE Weighs(t, F, key, One, [k \in K |-> 1])
  <2>1. ASSUME NEW i \in DOMAIN t, t[i].request \in F
        PROVE  One[t[i].request] \in Nat /\ [k \in K |-> 1][key[t[i].request]] = One[t[i].request]
    <3>1. t[i].request \in Requests
      BY <1>1, RowRequests
    <3>2. One[t[i].request] = 1 /\ key[t[i].request] \in K
      BY <2>1, <3>1, OneWeighs
    <3>. QED
      BY <3>2, SMT
  <2>. QED
    BY <2>1 DEF Weighs
<1>. QED
  BY <1>1 DEF Sharing, Changes

(* The keys of a request, as the rows that count it know them. *)
LEMMA Keys ==
    ASSUME NEW q \in Requests
    PROVE  /\ q \in OfRepository(q.repository) /\ q.repository \in Repositories
           /\ q \in OfBlob(BlobKey(q)) /\ BlobKey(q) \in Blobs /\ ByBlob[q] = BlobKey(q)
           /\ q \in OfResource(ResourceKey(q)) /\ q \in OfGroup(GroupKey(q))
           /\ ByResource[q] = ResourceKey(q) /\ ByGroup[q] = GroupKey(q)
           /\ Keyed(OfRepository(q.repository), OfBlob(BlobKey(q)), ByBlob, q)
           /\ q.resource # None =>
                /\ ResourceKey(q) \in Resources /\ q \in InResource(OfRepository(q.repository))
                /\ Keyed(InResource(OfRepository(q.repository)), OfResource(ResourceKey(q)), ByResource, q)
           /\ q.group # None =>
                /\ GroupKey(q) \in Groups /\ ResourceKey(q) \in Resources /\ q \in InGroup(OfResource(ResourceKey(q)))
                /\ Keyed(InGroup(OfResource(ResourceKey(q))), OfGroup(GroupKey(q)), ByGroup, q)
<1>1. /\ q \in OfRepository(q.repository) /\ q.repository \in Repositories
      /\ q \in OfBlob(BlobKey(q)) /\ BlobKey(q) \in Blobs /\ ByBlob[q] = BlobKey(q)
      /\ q \in OfResource(ResourceKey(q)) /\ q \in OfGroup(GroupKey(q))
      /\ ByResource[q] = ResourceKey(q) /\ ByGroup[q] = GroupKey(q)
  BY DEF OfRepository, Repositories, OfBlob, BlobKey, Blobs, ByBlob, OfResource, OfGroup, ByResource, ByGroup
<1>2. Keyed(OfRepository(q.repository), OfBlob(BlobKey(q)), ByBlob, q)
  <2>1. ASSUME NEW p \in Requests
        PROVE  p \in OfBlob(BlobKey(q)) <=> p \in OfRepository(q.repository) /\ ByBlob[p] = ByBlob[q]
    BY SMT DEF OfBlob, OfRepository, ByBlob, BlobKey
  <2>. QED
    BY <2>1 DEF Keyed
<1>3. ASSUME q.resource # None
      PROVE  /\ ResourceKey(q) \in Resources /\ q \in InResource(OfRepository(q.repository))
             /\ Keyed(InResource(OfRepository(q.repository)), OfResource(ResourceKey(q)), ByResource, q)
  <2>1. ASSUME NEW p \in Requests
        PROVE  p \in OfResource(ResourceKey(q)) <=>
                 p \in InResource(OfRepository(q.repository)) /\ ByResource[p] = ByResource[q]
    BY <1>3, SMT DEF OfResource, InResource, OfRepository, ByResource, ResourceKey
  <2>2. ResourceKey(q) \in Resources /\ q \in InResource(OfRepository(q.repository))
    BY <1>3 DEF ResourceKey, Resources, InResource, OfRepository
  <2>. QED
    BY <2>1, <2>2 DEF Keyed
<1>4. ASSUME q.group # None
      PROVE  /\ GroupKey(q) \in Groups /\ ResourceKey(q) \in Resources /\ q \in InGroup(OfResource(ResourceKey(q)))
             /\ Keyed(InGroup(OfResource(ResourceKey(q))), OfGroup(GroupKey(q)), ByGroup, q)
  <2>1. ASSUME NEW p \in Requests
        PROVE  p \in OfGroup(GroupKey(q)) <=>
                 p \in InGroup(OfResource(ResourceKey(q))) /\ ByGroup[p] = ByGroup[q]
    BY <1>4, SMT DEF OfGroup, InGroup, OfResource, ByGroup, GroupKey, ResourceKey
  <2>2. q.resource # None
    BY <1>4, RequestsValid
  <2>3. GroupKey(q) \in Groups /\ q \in InGroup(OfResource(ResourceKey(q)))
    BY <1>1, <1>4 DEF GroupKey, Groups, InGroup
  <2>. QED
    BY <1>3, <2>1, <2>2, <2>3 DEF Keyed
<1>. QED
  BY <1>1, <1>2, <1>3, <1>4

(* The key of a resource, a group or a digest tells what contains it. *)
LEMMA KeysSet ==
    /\ \A r : \A p \in Requests : p \in InResource(OfRepository(r)) => ByResource[p] \in Resources
    /\ \A k : \A p \in Requests : p \in InGroup(OfResource(k)) => ByGroup[p] \in Groups
BY DEF InResource, OfRepository, ByResource, Resources, InGroup, OfResource, ByGroup, Groups, ResourceKey, GroupKey

(* A request is counted under its own keys only. *)
LEMMA OtherKeys ==
    ASSUME NEW q \in Requests
    PROVE  /\ \A r : r # q.repository => q \notin OfRepository(r) /\ q \notin InResource(OfRepository(r))
           /\ \A k : k # ResourceKey(q) => q \notin OfResource(k) /\ q \notin Metered(OfResource(k)) /\ q \notin InGroup(OfResource(k))
           /\ \A k : k # GroupKey(q) => q \notin OfGroup(k)
           /\ \A k : k # BlobKey(q) => q \notin OfBlob(k)
BY DEF OfRepository, InResource, OfResource, Metered, InGroup, OfGroup, OfBlob

-----------------------------------------------------------------------------
(* The tables an operation of the ledger writes.                           *)

Tables == {"usage", "resource", "group", "blob", "reservations", "allocation"}

(* The tables of a ledger, with the keys of the requests. *)
Shape(L) ==
    /\ DOMAIN L = Tables
    /\ RowsOK(L.reservations) /\ Live(L) \subseteq Ids
    /\ DOMAIN L.usage = Repositories /\ DOMAIN L.resource = Resources
    /\ DOMAIN L.group = Groups /\ DOMAIN L.blob = Blobs
    /\ \A k \in Blobs : DOMAIN L.blob[k] = {"bytes", "references"}

(* The rows of q written, and no others. *)
Rewritten(L, R, q, u, e, g, b) ==
    /\ DOMAIN R = Tables
    /\ R.usage = [L.usage EXCEPT ![q.repository] = u]
    /\ R.resource = [L.resource EXCEPT ![ResourceKey(q)] = e]
    /\ R.group = [L.group EXCEPT ![GroupKey(q)] = g]
    /\ R.blob = [L.blob EXCEPT ![BlobKey(q)] = b]

Replaced(R, rs, al) == R.reservations = rs /\ R.allocation = al

(* The blob row after a commit. *)
BlobMoved(L, q) == [L.blob[BlobKey(q)] EXCEPT !.references = move_value(@, 1)]

(* What reserve_quota writes. *)
LEMMA ReserveTables ==
    ASSUME NEW L, Shape(L), NEW id, NEW q
    PROVE  LET R == reserve_quota(L, id, q)
           IN  /\ Rewritten(L, R, q, UsageReserved(L, q), ResourceReserved(L, q),
                            reserved_add(L.group[GroupKey(q)], 1), BlobReserved(L, q))
               /\ Replaced(R, With(L.reservations, id, [request |-> q, state |-> "reserved"]), L.allocation)
<1>1. DOMAIN L = Tables
  BY DEF Shape
<1>. DEFINE S == ReserveRows(L, q)
<1>2. /\ DOMAIN S = Tables
      /\ S.usage = [L.usage EXCEPT ![q.repository] = UsageReserved(L, q)]
      /\ S.resource = [L.resource EXCEPT ![ResourceKey(q)] = ResourceReserved(L, q)]
      /\ S.group = [L.group EXCEPT ![GroupKey(q)] = reserved_add(L.group[GroupKey(q)], 1)]
      /\ S.blob = [L.blob EXCEPT ![BlobKey(q)] = BlobReserved(L, q)]
      /\ S.reservations = L.reservations /\ S.allocation = L.allocation
  BY <1>1 DEF ReserveRows, Tables
<1>. HIDE DEF S
<1>. DEFINE R == reserve_quota(L, id, q)
<1>3. R = [S EXCEPT !.reservations = With(@, id, [request |-> q, state |-> "reserved"])]
  BY DEF reserve_quota, S
<1>4. /\ DOMAIN R = Tables /\ R.usage = S.usage /\ R.resource = S.resource /\ R.group = S.group
      /\ R.blob = S.blob /\ R.allocation = S.allocation
      /\ R.reservations = With(L.reservations, id, [request |-> q, state |-> "reserved"])
  BY <1>2, <1>3 DEF Tables
<1>. HIDE DEF R
<1>. QED
  BY <1>2, <1>4 DEF R, Rewritten, Replaced

(* What commit_reservation writes. *)
LEMMA CommitTables ==
    ASSUME NEW L, Shape(L), NEW id, id \in Pending(L), NEW q, q = L.reservations[id].request
    PROVE  LET R == commit_reservation(L, id)
           IN  /\ Rewritten(L, R, q, UsageMoved(L, q), ResourceMoved(L, q),
                            move_value(L.group[GroupKey(q)], 1), BlobMoved(L, q))
               /\ Replaced(R, [L.reservations EXCEPT ![id].state = "committed"],
                           With(L.allocation, allocation_key(q), id))
<1>1. DOMAIN L = Tables
  BY DEF Shape
<1>. DEFINE S == CommitRows(L, q)
<1>2. /\ DOMAIN S = Tables
      /\ S.usage = [L.usage EXCEPT ![q.repository] = UsageMoved(L, q)]
      /\ S.resource = [L.resource EXCEPT ![ResourceKey(q)] = ResourceMoved(L, q)]
      /\ S.group = [L.group EXCEPT ![GroupKey(q)] = move_value(L.group[GroupKey(q)], 1)]
      /\ S.blob = [L.blob EXCEPT ![BlobKey(q)] = BlobMoved(L, q)]
      /\ S.reservations = L.reservations /\ S.allocation = L.allocation
  BY <1>1 DEF CommitRows, BlobMoved, Tables
<1>. HIDE DEF S
<1>. DEFINE R == commit_reservation(L, id)
<1>3. R = [S EXCEPT !.reservations[id].state = "committed", !.allocation = With(@, allocation_key(q), id)]
  BY DEF commit_reservation, S
<1>4. /\ DOMAIN R = Tables /\ R.usage = S.usage /\ R.resource = S.resource /\ R.group = S.group
      /\ R.blob = S.blob /\ R.allocation = With(S.allocation, allocation_key(q), id)
      /\ R.reservations = [S.reservations EXCEPT ![id].state = "committed"]
  BY <1>2, <1>3 DEF Tables
<1>. HIDE DEF R
<1>. QED
  BY <1>2, <1>4 DEF R, Rewritten, Replaced

(* What release writes. *)
LEMMA ReleaseTables ==
    ASSUME NEW L, Shape(L), NEW id \in Live(L), NEW q, NEW s,
           q = L.reservations[id].request, s = L.reservations[id].state
    PROVE  LET R == release(L, id)
           IN  /\ Rewritten(L, R, q, UsageDropped(L, q, s), ResourceDropped(L, q, s),
                            GroupLeft(L, q, s), BlobDropped(L, q, s))
               /\ Replaced(R, Without(L.reservations, id), forget_allocation(L, id))
<1>1. DOMAIN L = Tables
  BY DEF Shape
<1>. DEFINE S == ReleaseRows(L, q, s)
<1>2. /\ DOMAIN S = Tables
      /\ S.usage = [L.usage EXCEPT ![q.repository] = UsageDropped(L, q, s)]
      /\ S.resource = [L.resource EXCEPT ![ResourceKey(q)] = ResourceDropped(L, q, s)]
      /\ S.group = [L.group EXCEPT ![GroupKey(q)] = GroupLeft(L, q, s)]
      /\ S.blob = [L.blob EXCEPT ![BlobKey(q)] = BlobDropped(L, q, s)]
      /\ S.reservations = L.reservations /\ S.allocation = L.allocation
  BY <1>1 DEF ReleaseRows, Tables
<1>. HIDE DEF S
<1>. DEFINE R == release(L, id)
<1>3. R = [S EXCEPT !.reservations = Without(@, id), !.allocation = forget_allocation(L, id)]
  BY DEF release, S
<1>4. /\ DOMAIN R = Tables /\ R.usage = S.usage /\ R.resource = S.resource /\ R.group = S.group
      /\ R.blob = S.blob /\ R.allocation = forget_allocation(L, id)
      /\ R.reservations = Without(L.reservations, id)
  BY <1>2, <1>3 DEF Tables
<1>. HIDE DEF R
<1>. QED
  BY <1>2, <1>4 DEF R, Rewritten, Replaced

-----------------------------------------------------------------------------
(* The deletion index.                                                     *)

(* A commit changes one reservation. *)
LEMMA CommitChanges ==
    ASSUME NEW rs, RowsOK(rs), NEW id \in DOMAIN rs, rs[id].state = "reserved"
    PROVE  LET rs2 == [rs EXCEPT ![id].state = "committed"]
           IN  Moved(rs, rs2, id, rs[id].request) /\ DOMAIN rs2 = DOMAIN rs
<1>. DEFINE rs2 == [rs EXCEPT ![id].state = "committed"]
            row == [rs[id] EXCEPT !.state = "committed"]
<1>1. \A i \in DOMAIN rs : rs[i] \in Reservation
  BY DEF RowsOK
<1>2. row \in Reservation /\ row.request = rs[id].request /\ row.state = "committed"
  BY <1>1, SMT DEF Reservation
<1>. HIDE DEF row
<1>3. /\ DOMAIN rs2 = DOMAIN rs /\ rs2[id] = row /\ rs2 = [i \in DOMAIN rs2 |-> rs2[i]]
      /\ \A i \in DOMAIN rs : i # id => rs2[i] = rs[i]
  BY DEF row
<1>. HIDE DEF rs2
<1>4. RowsOK(rs2)
  <2>1. \A i \in DOMAIN rs2 : rs2[i] \in Reservation
    BY <1>1, <1>2, <1>3
  <2>. QED
    BY <1>3, <2>1 DEF RowsOK
<1>5. rs[id].request \in Requests
  BY RowRequests
<1>6. Moved(rs, rs2, id, rs[id].request)
  BY <1>2, <1>3, <1>4, <1>5 DEF Moved, Changes
<1>. QED
  BY <1>3, <1>6 DEF rs2

(* The deletion index. *)
Allocated(L) ==
    \A key \in DOMAIN L.allocation :
      /\ L.allocation[key] \in Committed(L)
      /\ allocation_key(L.reservations[L.allocation[key]].request) = key

CommittedRow(rs, id, key) ==
    id \in DOMAIN rs /\ rs[id].state = "committed" /\ allocation_key(rs[id].request) = key

(* The deletion index, entry by entry. *)
LEMMA AllocatedRows ==
    ASSUME NEW L
    PROVE  Allocated(L) <=> \A key \in DOMAIN L.allocation : CommittedRow(L.reservations, L.allocation[key], key)
BY DEF Allocated, CommittedRow, Committed, InState, Live

(* Reserving leaves the index alone. *)
LEMMA ReserveAllocated ==
    ASSUME NEW L, Shape(L), Allocated(L), NEW id, id \notin Live(L), NEW q \in Requests
    PROVE  Allocated(reserve_quota(L, id, q))
<1>. DEFINE R == reserve_quota(L, id, q)
            rs == L.reservations
            rs2 == With(rs, id, [request |-> q, state |-> "reserved"])
<1>1. R.reservations = rs2 /\ R.allocation = L.allocation
  <2>2. Replaced(R, rs2, L.allocation)
    BY ReserveTables
  <2>. QED
    BY <2>2 DEF Replaced
<1>2. \A i \in DOMAIN rs : i \in DOMAIN rs2 /\ rs2[i] = rs[i]
  BY DEF With, Live
<1>. HIDE DEF R, rs, rs2
<1>3. \A key \in DOMAIN L.allocation : CommittedRow(rs, L.allocation[key], key)
  BY AllocatedRows DEF rs
<1>4. \A key \in DOMAIN R.allocation : CommittedRow(R.reservations, R.allocation[key], key)
  BY <1>1, <1>2, <1>3 DEF CommittedRow
<1>5. Allocated(R)
  BY <1>4, AllocatedRows
<1>. QED
  BY <1>5 DEF R

(* Committing indexes the committed reservation. *)
LEMMA CommitAllocated ==
    ASSUME NEW L, Shape(L), Allocated(L), NEW id
    PROVE  Allocated(commit_reservation(L, id))
<1>. DEFINE R == commit_reservation(L, id)
            rs == L.reservations
            rs2 == [rs EXCEPT ![id].state = "committed"]
            q == rs[id].request
            al == L.allocation
            al2 == With(al, allocation_key(q), id)
<1>1. CASE id \notin Pending(L)
  BY <1>1 DEF commit_reservation
<1>2. CASE id \in Pending(L)
  <2>1. RowsOK(rs) /\ id \in DOMAIN rs /\ rs[id].state = "reserved"
    BY <1>2 DEF Shape, Pending, InState, Live
  <2>2. Moved(rs, rs2, id, q) /\ DOMAIN rs2 = DOMAIN rs
    BY <2>1, CommitChanges
  <2>3. Replaced(R, rs2, al2)
    BY <1>2, CommitTables
  <2>4. R.reservations = rs2 /\ R.allocation = al2
    BY <2>3 DEF Replaced
  <2>5. /\ \A i \in DOMAIN rs : i # id => rs2[i] = rs[i]
        /\ id \in DOMAIN rs2 /\ rs2[id].state = "committed" /\ rs2[id].request = q
    BY <2>2 DEF Moved, Changes
  <2>6. /\ DOMAIN al2 = DOMAIN al \cup {allocation_key(q)} /\ al2[allocation_key(q)] = id
        /\ \A key \in DOMAIN al : key # allocation_key(q) => al2[key] = al[key]
    BY DEF With
  <2>7. \A key \in DOMAIN al : CommittedRow(rs, al[key], key)
    BY AllocatedRows
  <2>. HIDE DEF R, rs, rs2, al, al2, q
  <2>8. ASSUME NEW key \in DOMAIN al2 PROVE CommittedRow(rs2, al2[key], key)
    <3>1. CASE key = allocation_key(q)
      BY <2>5, <2>6, <3>1 DEF CommittedRow
    <3>2. CASE key # allocation_key(q)
      <4>1. key \in DOMAIN al /\ al2[key] = al[key] /\ CommittedRow(rs, al[key], key)
        BY <2>6, <2>7, <2>8, <3>2
      <4>2. al[key] # id
        <5>1. rs[id].state # "committed"
          BY <2>1, SMT
        <5>. QED
          BY <4>1, <5>1 DEF CommittedRow
      <4>3. CommittedRow(rs2, al[key], key)
        BY <2>2, <2>5, <4>1, <4>2 DEF CommittedRow
      <4>. QED
        BY <4>1, <4>3
    <3>. QED
      BY <3>1, <3>2
  <2>9. Allocated(R)
    BY <2>4, <2>8, AllocatedRows
  <2>. QED
    BY <2>9 DEF R
<1>. QED
  BY <1>1, <1>2

(* Releasing removes its own entry and no other. *)
LEMMA ReleaseAllocated ==
    ASSUME NEW L, Shape(L), Allocated(L), NEW id
    PROVE  Allocated(release(L, id))
<1>. DEFINE R == release(L, id)
            rs == L.reservations
            rs2 == Without(rs, id)
            al == L.allocation
            al2 == forget_allocation(L, id)
            own == allocation_key(rs[id].request)
<1>1. CASE id \notin Live(L)
  BY <1>1 DEF release
<1>2. CASE id \in Live(L)
  <2>2. Replaced(R, rs2, al2)
    BY <1>2, ReleaseTables
  <2>3. R.reservations = rs2 /\ R.allocation = al2
    BY <2>2 DEF Replaced
  <2>4. \A i \in DOMAIN rs : i # id => i \in DOMAIN rs2 /\ rs2[i] = rs[i]
    BY DEF Without
  <2>5. \A key \in DOMAIN al : CommittedRow(rs, al[key], key)
    BY AllocatedRows
  <2>6. \A key \in DOMAIN al2 : key \in DOMAIN al /\ al2[key] = al[key] /\ al[key] # id
    <3>1. \A key \in DOMAIN al : al[key] = id => key = own
      BY <2>5 DEF CommittedRow
    <3>2. CASE own \in DOMAIN al /\ al[own] = id
      <4>1. al2 = Without(al, own)
        BY <3>2 DEF forget_allocation
      <4>. HIDE DEF al, al2, own
      <4>2. DOMAIN al2 = DOMAIN al \ {own} /\ \A key \in DOMAIN al2 : al2[key] = al[key]
        BY <4>1 DEF Without
      <4>. QED
        BY <3>1, <4>2
    <3>3. CASE ~(own \in DOMAIN al /\ al[own] = id)
      <4>1. al2 = al
        BY <3>3 DEF forget_allocation
      <4>. HIDE DEF al, al2, own
      <4>. QED
        BY <3>1, <3>3, <4>1
    <3>. QED
      BY <3>2, <3>3
  <2>. HIDE DEF R, rs, rs2, al, al2
  <2>7. \A key \in DOMAIN al2 : CommittedRow(rs2, al2[key], key)
    BY <2>4, <2>5, <2>6 DEF CommittedRow
  <2>8. Allocated(R)
    BY <2>3, <2>7, AllocatedRows
  <2>. QED
    BY <2>8 DEF R
<1>. QED
  BY <1>1, <1>2

-----------------------------------------------------------------------------
(* Rows that do not count the request.                                     *)

(* The resources of a repository and the groups of a resource weigh 1 each. *)
LEMMA ResourceSharing ==
    ASSUME NEW rs, NEW rs2, NEW id, NEW q, Changes(rs, rs2, id, q), NEW r
    PROVE  Sharing(rs, rs2, InResource(OfRepository(r)), ByResource, One, [k \in Resources |-> 1])
<1>1. \A p \in Requests : p \in InResource(OfRepository(r)) => ByResource[p] \in Resources
  BY KeysSet
<1>. QED
  BY <1>1, OnesShared

(* Groups count one each. *)
LEMMA GroupSharing ==
    ASSUME NEW rs, NEW rs2, NEW id, NEW q, Changes(rs, rs2, id, q), NEW k
    PROVE  Sharing(rs, rs2, InGroup(OfResource(k)), ByGroup, One, [g \in Groups |-> 1])
<1>1. \A p \in Requests : p \in InGroup(OfResource(k)) => ByGroup[p] \in Groups
  BY KeysSet
<1>. QED
  BY <1>1, OnesShared

(* Rows that do not count q stay what they are. *)
UsagesStay(rs, rs2, q) == \A r : r # q.repository => UsageOf(rs2, r) = UsageOf(rs, r)
ResourcesStay(rs, rs2, q) == \A k : k # ResourceKey(q) => ResourceOf(rs2, k) = ResourceOf(rs, k)
GroupsStay(rs, rs2, q) == \A k : k # GroupKey(q) => Split(rs2, OfGroup(k), One) = Split(rs, OfGroup(k), One)
BlobsStay(rs, rs2, q) == \A k : k # BlobKey(q) => Split(rs2, OfBlob(k), One) = Split(rs, OfBlob(k), One)

(* Rows of other repositories stay. *)
LEMMA UsageStays ==
    ASSUME NEW rs, NEW rs2, NEW id, NEW q, Changes(rs, rs2, id, q), NEW v, Sized(rs, v), Sized(rs2, v)
    PROVE  UsagesStay(rs, rs2, q)
<1>1. q \in Requests
  BY DEF Changes
<1>. SUFFICES ASSUME NEW r, r # q.repository PROVE UsageOf(rs2, r) = UsageOf(rs, r)
  BY DEF UsagesStay
<1>2. q \notin OfRepository(r) /\ q \notin InResource(OfRepository(r))
  BY <1>1, OtherKeys
<1>3. SplitStays(rs, rs2, OfRepository(r), Bytes)
  BY <1>2, BytesWeigh, SplitOutside
<1>4. SharedStays(rs, rs2, OfRepository(r), ByBlob, Bytes)
  <2>1. Sharing(rs, rs2, OfRepository(r), ByBlob, Bytes, v)
    BY BlobSharing
  <2>. QED
    BY <1>2, <2>1, SharedOutside
<1>5. SharedStays(rs, rs2, InResource(OfRepository(r)), ByResource, One)
  <2>1. Sharing(rs, rs2, InResource(OfRepository(r)), ByResource, One, [k \in Resources |-> 1])
    BY ResourceSharing
  <2>. QED
    BY <1>2, <2>1, SharedOutside
<1>. QED
  BY <1>3, <1>4, <1>5 DEF UsageOf, SplitStays, SharedStays

(* Rows of other resources stay. *)
LEMMA ResourceStays ==
    ASSUME NEW rs, NEW rs2, NEW id, NEW q, Changes(rs, rs2, id, q)
    PROVE  ResourcesStay(rs, rs2, q)
<1>1. q \in Requests
  BY DEF Changes
<1>. SUFFICES ASSUME NEW k, k # ResourceKey(q) PROVE ResourceOf(rs2, k) = ResourceOf(rs, k)
  BY DEF ResourcesStay
<1>2. q \notin OfResource(k) /\ q \notin Metered(OfResource(k)) /\ q \notin InGroup(OfResource(k))
  BY <1>1, OtherKeys
<1>3. SplitStays(rs, rs2, OfResource(k), One) /\ SplitStays(rs, rs2, Metered(OfResource(k)), Bytes)
  BY <1>2, BytesWeigh, OneWeighs, SplitOutside
<1>4. SharedStays(rs, rs2, InGroup(OfResource(k)), ByGroup, One)
  <2>1. Sharing(rs, rs2, InGroup(OfResource(k)), ByGroup, One, [g \in Groups |-> 1])
    BY GroupSharing
  <2>. QED
    BY <1>2, <2>1, SharedOutside
<1>. QED
  BY <1>3, <1>4 DEF ResourceOf, SplitStays, SharedStays

(* References to other groups and digests stay. *)
LEMMA ReferencesStay ==
    ASSUME NEW rs, NEW rs2, NEW id, NEW q, Changes(rs, rs2, id, q)
    PROVE  GroupsStay(rs, rs2, q) /\ BlobsStay(rs, rs2, q)
<1>1. q \in Requests
  BY DEF Changes
<1>2. ASSUME NEW k, k # GroupKey(q) PROVE Split(rs2, OfGroup(k), One) = Split(rs, OfGroup(k), One)
  <2>1. q \notin OfGroup(k)
    BY <1>1, <1>2, OtherKeys
  <2>2. SplitStays(rs, rs2, OfGroup(k), One)
    BY <2>1, OneWeighs, SplitOutside
  <2>. QED
    BY <2>2 DEF SplitStays
<1>3. ASSUME NEW k, k # BlobKey(q) PROVE Split(rs2, OfBlob(k), One) = Split(rs, OfBlob(k), One)
  <2>1. q \notin OfBlob(k)
    BY <1>1, <1>3, OtherKeys
  <2>2. SplitStays(rs, rs2, OfBlob(k), One)
    BY <2>1, OneWeighs, SplitOutside
  <2>. QED
    BY <2>2 DEF SplitStays
<1>. QED
  BY <1>2, <1>3 DEF GroupsStay, BlobsStay

(* Parts of the rows of q itself that may not count it. *)
LEMMA UncountedStays ==
    ASSUME NEW rs, NEW rs2, NEW id, NEW q, Changes(rs, rs2, id, q)
    PROVE  /\ q.resource = None => SharedStays(rs, rs2, InResource(OfRepository(q.repository)), ByResource, One)
           /\ q.group = None => SharedStays(rs, rs2, InGroup(OfResource(ResourceKey(q))), ByGroup, One)
           /\ q.max_resource_artifact_bytes = None =>
                SplitStays(rs, rs2, Metered(OfResource(ResourceKey(q))), Bytes)
<1>1. ASSUME q.resource = None
      PROVE  SharedStays(rs, rs2, InResource(OfRepository(q.repository)), ByResource, One)
  <2>1. q \notin InResource(OfRepository(q.repository))
    BY <1>1 DEF InResource
  <2>2. Sharing(rs, rs2, InResource(OfRepository(q.repository)), ByResource, One, [k \in Resources |-> 1])
    BY ResourceSharing
  <2>. QED
    BY <2>1, <2>2, SharedOutside
<1>2. ASSUME q.group = None PROVE SharedStays(rs, rs2, InGroup(OfResource(ResourceKey(q))), ByGroup, One)
  <2>1. q \notin InGroup(OfResource(ResourceKey(q)))
    BY <1>2 DEF InGroup
  <2>2. Sharing(rs, rs2, InGroup(OfResource(ResourceKey(q))), ByGroup, One, [g \in Groups |-> 1])
    BY GroupSharing
  <2>. QED
    BY <2>1, <2>2, SharedOutside
<1>3. ASSUME q.max_resource_artifact_bytes = None
      PROVE  SplitStays(rs, rs2, Metered(OfResource(ResourceKey(q))), Bytes)
  <2>1. q \notin Metered(OfResource(ResourceKey(q)))
    BY <1>3 DEF Metered
  <2>. QED
    BY <2>1, BytesWeigh, SplitOutside
<1>. QED
  BY <1>1, <1>2, <1>3

-----------------------------------------------------------------------------
(* Types, and what nobody holds.                                           *)

(* A split holds naturals. *)
LEMMA SplitType ==
    ASSUME NEW rs, RowsOK(rs), NEW F, NEW w, Weight(w) PROVE Split(rs, F, w) \in Values
<1>1. ASSUME NEW s PROVE PartOf(rs, s, F, w) \in Nat
  <2>. DEFINE A == Holding(rs, s, F)
              f == [i \in DOMAIN rs |-> w[rs[i].request]]
  <2>1. IsFiniteSet(A)
    BY HoldingFinite
  <2>2. \A i \in A : f[i] \in Nat
    BY RowRequests DEF Holding, Weight
  <2>. HIDE DEF A, f
  <2>3. SumFunctionOnSet(f, A) \in Nat
    BY <2>1, <2>2, SumNat
  <2>. QED
    BY <2>3 DEF A, f, PartOf
<1>2. Split(rs, F, w) = [committed |-> PartOf(rs, "committed", F, w), reserved |-> PartOf(rs, "reserved", F, w)]
  BY DEF Split, PartOf
<1>. QED
  BY <1>1, <1>2, SMT DEF Values

(* So does a shared counter. *)
LEMMA SharedType ==
    ASSUME NEW rs, RowsOK(rs), NEW F, NEW key, NEW w, NEW v, Weighs(rs, F, key, w, v)
    PROVE  Shared(rs, F, key, w) \in Values
<1>1. ASSUME NEW s \in {"committed", "reserved"} PROVE SharedPart(rs, s, F, key, v) \in Nat
  <2>. DEFINE A == KeysIn(rs, s, F, key)
  <2>1. IsFiniteSet(A)
    BY KeysInFacts
  <2>2. \A k \in A : v[k] \in Nat
    BY KeyWeights
  <2>. HIDE DEF A
  <2>3. SumFunctionOnSet(v, A) \in Nat
    BY <2>1, <2>2, SumNat
  <2>. QED
    BY <2>3 DEF A, SharedPart
<1>2. Shared(rs, F, key, w) =
        [committed |-> SharedPart(rs, "committed", F, key, v), reserved |-> SharedPart(rs, "reserved", F, key, v)]
  BY SharedIs
<1>. QED
  BY <1>1, <1>2, SMT DEF Values

(* Nothing referenced is held by nobody, and counts nothing. *)
Unheld(rs, F) == \A i \in DOMAIN rs : rs[i].request \notin F

(* No references, no holder. *)
LEMMA ReferencesHeld ==
    ASSUME NEW rs, RowsOK(rs), NEW F PROVE Total(Split(rs, F, One)) = 0 <=> Unheld(rs, F)
<1>. DEFINE c == PartOf(rs, "committed", F, One)
            p == PartOf(rs, "reserved", F, One)
            C == Holding(rs, "committed", F)
            P == Holding(rs, "reserved", F)
<1>1. Split(rs, F, One) = [committed |-> c, reserved |-> p]
  BY DEF Split, PartOf
<1>2. Counts(c, C) /\ Counts(p, P)
  BY OnesCount
<1>3. Unheld(rs, F) <=> C = {} /\ P = {}
  <2>1. \A i \in DOMAIN rs : rs[i].state \in {"reserved", "committed"}
    BY SMT DEF RowsOK, Reservation
  <2>. QED
    BY <2>1 DEF Unheld, Holding
<1>. HIDE DEF c, p, C, P
<1>4. Total(Split(rs, F, One)) = c + p
  BY <1>1, SMT DEF Total
<1>5. c + p = 0 <=> C = {} /\ P = {}
  BY <1>2, SMT DEF Counts
<1>. QED
  BY <1>3, <1>4, <1>5

(* What nobody holds counts nothing. *)
LEMMA UnheldSplit ==
    ASSUME NEW rs, NEW F, Unheld(rs, F) PROVE \A w : Split(rs, F, w) = Zero
<1>1. Holding(rs, "committed", F) = {} /\ Holding(rs, "reserved", F) = {}
  BY DEF Unheld, Holding
<1>. QED
  BY <1>1, SumEmpty DEF Split, Zero

(* Nor does it in a shared counter. *)
LEMMA UnheldShared ==
    ASSUME NEW rs, NEW F, Unheld(rs, F) PROVE \A key, w : Shared(rs, F, key, w) = Zero
<1>1. Holding(rs, "committed", F) = {} /\ Holding(rs, "reserved", F) = {}
  BY DEF Unheld, Holding
<1>2. ASSUME NEW key, NEW w PROVE Shared(rs, F, key, w) = Zero
  <2>1. KeysHeld(rs, "committed", F, key) = {} /\ KeysHeld(rs, "reserved", F, key) = {}
    BY <1>1 DEF KeysHeld
  <2>2. KeysHeld(rs, "reserved", F, key) \ KeysHeld(rs, "committed", F, key) = {}
    BY <2>1
  <2>. QED
    BY <2>1, <2>2, SumEmpty DEF Shared, Zero
<1>. QED
  BY <1>2

(* A resource without references has an empty row. *)
LEMMA UnheldResource ==
    ASSUME NEW rs, RowsOK(rs), NEW k, Total(Split(rs, OfResource(k), One)) = 0
    PROVE  ResourceOf(rs, k) = ResourceUsage
<1>1. Unheld(rs, OfResource(k))
  BY ReferencesHeld
<1>2. Unheld(rs, Metered(OfResource(k))) /\ Unheld(rs, InGroup(OfResource(k)))
  BY <1>1 DEF Unheld, Metered, InGroup
<1>3. /\ Split(rs, OfResource(k), One) = Zero /\ Split(rs, Metered(OfResource(k)), Bytes) = Zero
  BY <1>1, <1>2, UnheldSplit
<1>4. Shared(rs, InGroup(OfResource(k)), ByGroup, One) = Zero
  BY <1>2, UnheldShared
<1>. QED
  BY <1>3, <1>4 DEF ResourceOf, ResourceUsage

-----------------------------------------------------------------------------
(* The counters are sound.                                                 *)

(* The counters of a ledger are what its reservations add up to. *)
Sound(L) == Shape(L) /\ Counted(L)

Sizes(L) == [k \in Blobs |-> L.blob[k].bytes]

(* The blob rows keep the size of every digest held. *)
LEMMA SoundSizes == ASSUME NEW L, Sound(L) PROVE Sized(L.reservations, Sizes(L))
<1>1. \A i \in Live(L) : L.reservations[i].request \in Requests
  BY RowRequests DEF Sound, Shape, Live
<1>2. \A i \in Live(L) : BlobKey(L.reservations[i].request) \in Blobs
  BY <1>1, Keys
<1>. QED
  BY <1>2 DEF Sized, Sizes, Sound, Counted, Live

(* The rows a request is counted in, as the reservations give them. *)
LEMMA RowsOfRequest ==
    ASSUME NEW L, Sound(L), NEW q \in Requests
    PROVE  /\ UsageIs(L.usage[q.repository], L.reservations, q.repository)
           /\ L.blob[BlobKey(q)].references = Split(L.reservations, OfBlob(BlobKey(q)), One)
           /\ q.resource # None => ResourceIs(L.resource[ResourceKey(q)], L.reservations, ResourceKey(q))
           /\ q.group # None => L.group[GroupKey(q)] = Split(L.reservations, OfGroup(GroupKey(q)), One)
<1>1. /\ q.repository \in Repositories /\ BlobKey(q) \in Blobs
      /\ q.resource # None => ResourceKey(q) \in Resources
      /\ q.group # None => GroupKey(q) \in Groups
  BY Keys
<1>2. /\ L.usage[q.repository] = UsageOf(L.reservations, q.repository)
      /\ q.resource # None => L.resource[ResourceKey(q)] = ResourceOf(L.reservations, ResourceKey(q))
  BY <1>1 DEF Sound, Counted
<1>3. /\ UsageIs(L.usage[q.repository], L.reservations, q.repository)
      /\ q.resource # None => ResourceIs(L.resource[ResourceKey(q)], L.reservations, ResourceKey(q))
  BY <1>2, RowFields
<1>. QED
  BY <1>1, <1>3 DEF Sound, Counted

(* Resource and group keys name a resource and a group. *)
LEMMA KeysNamed ==
    ASSUME NEW q \in Requests
    PROVE  (ResourceKey(q) \in Resources => q.resource # None) /\ (GroupKey(q) \in Groups => q.group # None)
<1>1. ASSUME ResourceKey(q) \in Resources PROVE q.resource # None
  <2>1. PICK p \in {r \in Requests : r.resource # None} : <<q.repository, q.resource>> = <<p.repository, p.resource>>
    BY <1>1 DEF ResourceKey, Resources
  <2>. QED
    BY <2>1, SMT
<1>2. ASSUME GroupKey(q) \in Groups PROVE q.group # None
  <2>1. PICK p \in {r \in Requests : r.group # None} :
          <<q.repository, q.resource, q.group>> = <<p.repository, p.resource, p.group>>
    BY <1>2 DEF GroupKey, Groups
  <2>. QED
    BY <2>1, SMT
<1>. QED
  BY <1>1, <1>2

(* A reservation shows in the tables as in the scan. *)
LEMMA ReserveChanges ==
    ASSUME NEW rs, RowsOK(rs), NEW id, id \notin DOMAIN rs, NEW q \in Requests
    PROVE  LET rs2 == With(rs, id, [request |-> q, state |-> "reserved"])
           IN  /\ Reserved(rs, rs2, id, q) /\ DOMAIN rs2 = DOMAIN rs \cup {id}
<1>. DEFINE row == [request |-> q, state |-> "reserved"]
            rs2 == With(rs, id, row)
<1>1. row \in Reservation /\ row.request = q /\ row.state = "reserved"
  BY SMT DEF Reservation
<1>. HIDE DEF row
<1>2. /\ DOMAIN rs2 = DOMAIN rs \cup {id} /\ rs2[id] = row
      /\ \A i \in DOMAIN rs : i # id => rs2[i] = rs[i]
  BY DEF With
<1>3. rs2 = [i \in DOMAIN rs2 |-> rs2[i]]
  BY DEF With
<1>. HIDE DEF rs2
<1>4. IsFiniteSet(DOMAIN rs2)
  <2>1. IsFiniteSet(DOMAIN rs)
    BY DEF RowsOK
  <2>. QED
    BY <1>2, <2>1, FS_AddElement
<1>5. \A i \in DOMAIN rs : rs[i] \in Reservation
  BY DEF RowsOK
<1>6. \A i \in DOMAIN rs2 : rs2[i] \in Reservation
  BY <1>1, <1>2, <1>5
<1>7. RowsOK(rs2)
  BY <1>3, <1>4, <1>6 DEF RowsOK
<1>8. Reserved(rs, rs2, id, q)
  BY <1>1, <1>2, <1>7 DEF Reserved, Changes
<1>. QED
  BY <1>2, <1>8 DEF rs2, row

(* A release takes one reservation away. *)
LEMMA ReleaseChanges ==
    ASSUME NEW rs, RowsOK(rs), NEW id \in DOMAIN rs
    PROVE  LET rs2 == Without(rs, id)
           IN  Dropped(rs, rs2, id, rs[id].request, rs[id].state) /\ DOMAIN rs2 = DOMAIN rs \ {id}
<1>. DEFINE rs2 == Without(rs, id)
<1>1. \A i \in DOMAIN rs : rs[i] \in Reservation
  BY DEF RowsOK
<1>2. /\ DOMAIN rs2 = DOMAIN rs \ {id} /\ rs2 = [i \in DOMAIN rs2 |-> rs2[i]]
      /\ \A i \in DOMAIN rs : i # id => rs2[i] = rs[i]
  BY DEF Without
<1>. HIDE DEF rs2
<1>3. IsFiniteSet(DOMAIN rs2)
  BY <1>2, FS_RemoveElement DEF RowsOK
<1>4. RowsOK(rs2)
  BY <1>1, <1>2, <1>3 DEF RowsOK
<1>5. rs[id].request \in Requests /\ rs[id].state \in {"reserved", "committed"}
  BY <1>1, SMT DEF Reservation
<1>6. Dropped(rs, rs2, id, rs[id].request, rs[id].state)
  BY <1>2, <1>4, <1>5 DEF Dropped, Changes
<1>. QED
  BY <1>2, <1>6 DEF rs2

(* What the scan finds for q. *)
Rescanned(rs, q, u, e, g, b) ==
    /\ u = UsageOf(rs, q.repository)
    /\ q.resource # None => e = ResourceOf(rs, ResourceKey(q))
    /\ q.group # None => g = Split(rs, OfGroup(GroupKey(q)), One)
    /\ DOMAIN b = {"bytes", "references"} /\ b.references = Split(rs, OfBlob(BlobKey(q)), One)

(* The rows of the request are what a scan finds; the others stay. *)
LEMMA SoundAfter ==
    ASSUME NEW L, Sound(L), NEW R, NEW id \in Ids, NEW q, Changes(L.reservations, R.reservations, id, q),
           NEW u, NEW e, NEW g, NEW b, Rewritten(L, R, q, u, e, g, b), Rescanned(R.reservations, q, u, e, g, b),
           NEW v, Sized(L.reservations, v), Sized(R.reservations, v), Sized(R.reservations, Sizes(R))
    PROVE  Sound(R)
<1>. DEFINE rs == L.reservations
            rs2 == R.reservations
<1>1. Shape(L) /\ q \in Requests /\ RowsOK(rs2)
  BY DEF Sound, Changes
<1>2. Live(R) \subseteq Ids
  BY DEF Sound, Shape, Live, Changes
<1>a. /\ DOMAIN R.usage = Repositories /\ DOMAIN R.resource = Resources
      /\ DOMAIN R.group = Groups /\ DOMAIN R.blob = Blobs
      /\ \A r \in Repositories : R.usage[r] = IF r = q.repository THEN u ELSE L.usage[r]
      /\ \A k \in Resources : R.resource[k] = IF k = ResourceKey(q) THEN e ELSE L.resource[k]
      /\ \A k \in Groups : R.group[k] = IF k = GroupKey(q) THEN g ELSE L.group[k]
      /\ \A k \in Blobs : R.blob[k] = IF k = BlobKey(q) THEN b ELSE L.blob[k]
  BY <1>1 DEF Rewritten, Shape
<1>b. UsagesStay(rs, rs2, q) /\ ResourcesStay(rs, rs2, q)
  BY UsageStays, ResourceStays
<1>c. GroupsStay(rs, rs2, q) /\ BlobsStay(rs, rs2, q)
  BY ReferencesStay
<1>3. Shape(R)
  <2>1. DOMAIN b = {"bytes", "references"} /\ DOMAIN R = Tables
    BY DEF Rescanned, Rewritten
  <2>2. \A k \in Blobs : DOMAIN L.blob[k] = {"bytes", "references"}
    BY <1>1 DEF Shape
  <2>3. \A k \in Blobs : DOMAIN R.blob[k] = {"bytes", "references"}
    BY <1>a, <2>1, <2>2
  <2>. QED
    BY <1>1, <1>2, <1>a, <2>1, <2>3 DEF Shape
<1>4. ASSUME NEW r \in Repositories PROVE R.usage[r] = UsageOf(rs2, r)
  <2>1. R.usage[r] = IF r = q.repository THEN u ELSE L.usage[r]
    BY <1>a
  <2>2. u = UsageOf(rs2, q.repository) /\ L.usage[r] = UsageOf(rs, r)
    BY DEF Rescanned, Sound, Counted
  <2>3. r # q.repository => UsageOf(rs2, r) = UsageOf(rs, r)
    BY <1>b DEF UsagesStay
  <2>4. r = q.repository => u = UsageOf(rs2, r)
    BY <2>2
  <2>. QED
    BY <2>1, <2>2, <2>3, <2>4
<1>5. ASSUME NEW k \in Resources PROVE R.resource[k] = ResourceOf(rs2, k)
  <2>1. R.resource[k] = IF k = ResourceKey(q) THEN e ELSE L.resource[k]
    BY <1>a
  <2>2. L.resource[k] = ResourceOf(rs, k)
    BY DEF Sound, Counted
  <2>3. k = ResourceKey(q) => e = ResourceOf(rs2, k)
    BY <1>1, KeysNamed DEF Rescanned
  <2>4. k # ResourceKey(q) => ResourceOf(rs2, k) = ResourceOf(rs, k)
    BY <1>b DEF ResourcesStay
  <2>. QED
    BY <2>1, <2>2, <2>3, <2>4
<1>6. ASSUME NEW k \in Groups PROVE R.group[k] = Split(rs2, OfGroup(k), One)
  <2>1. R.group[k] = IF k = GroupKey(q) THEN g ELSE L.group[k]
    BY <1>a
  <2>2. L.group[k] = Split(rs, OfGroup(k), One)
    BY DEF Sound, Counted
  <2>3. k = GroupKey(q) => g = Split(rs2, OfGroup(k), One)
    BY <1>1, KeysNamed DEF Rescanned
  <2>4. k # GroupKey(q) => Split(rs2, OfGroup(k), One) = Split(rs, OfGroup(k), One)
    BY <1>c DEF GroupsStay
  <2>. QED
    BY <2>1, <2>2, <2>3, <2>4
<1>7. ASSUME NEW k \in Blobs PROVE R.blob[k].references = Split(rs2, OfBlob(k), One)
  <2>1. R.blob[k] = IF k = BlobKey(q) THEN b ELSE L.blob[k]
    BY <1>a
  <2>2. L.blob[k].references = Split(rs, OfBlob(k), One)
    BY DEF Sound, Counted
  <2>3. b.references = Split(rs2, OfBlob(BlobKey(q)), One)
    BY DEF Rescanned
  <2>4. k # BlobKey(q) => Split(rs2, OfBlob(k), One) = Split(rs, OfBlob(k), One)
    BY <1>c DEF BlobsStay
  <2>. QED
    BY <2>1, <2>2, <2>3, <2>4
<1>8. ASSUME NEW i \in Live(R)
      PROVE  R.blob[BlobKey(rs2[i].request)].bytes = rs2[i].request.bytes
  <2>1. BlobKey(rs2[i].request) \in Blobs
    BY <1>1, RowRequests, Keys DEF Live
  <2>. QED
    BY <2>1 DEF Sized, Sizes, Live
<1>9. Counted(R)
  BY <1>4, <1>5, <1>6, <1>7, <1>8 DEF Counted
<1>. QED
  BY <1>3, <1>9 DEF Sound

-----------------------------------------------------------------------------
(* What an operation writes is what a scan finds.                          *)

(* What q weighs in its own rows has the type of a counter. *)
LEMMA RowTypes ==
    ASSUME NEW rs, RowsOK(rs), NEW v, Sized(rs, v), NEW r, NEW k
    PROVE  /\ Split(rs, OfRepository(r), Bytes) \in Values
           /\ Shared(rs, OfRepository(r), ByBlob, Bytes) \in Values
           /\ Shared(rs, InResource(OfRepository(r)), ByResource, One) \in Values
           /\ Split(rs, OfResource(k), One) \in Values
           /\ Split(rs, Metered(OfResource(k)), Bytes) \in Values
           /\ Shared(rs, InGroup(OfResource(k)), ByGroup, One) \in Values
<1>1. Weight(Bytes) /\ Weight(One)
  BY BytesWeigh, OneWeighs
<1>2. Weighs(rs, OfRepository(r), ByBlob, Bytes, v)
  BY RowRequests, BytesWeigh, Keys DEF Weighs, Sized
<1>3. Weighs(rs, InResource(OfRepository(r)), ByResource, One, [x \in Resources |-> 1])
  BY RowRequests, OneWeighs, KeysSet, SMTT(30) DEF Weighs
<1>4. Weighs(rs, InGroup(OfResource(k)), ByGroup, One, [x \in Groups |-> 1])
  BY RowRequests, OneWeighs, KeysSet, SMTT(30) DEF Weighs
<1>5. /\ Split(rs, OfRepository(r), Bytes) \in Values /\ Split(rs, OfResource(k), One) \in Values
      /\ Split(rs, Metered(OfResource(k)), Bytes) \in Values
  BY <1>1, SplitType
<1>6. Shared(rs, OfRepository(r), ByBlob, Bytes) \in Values
  BY <1>2, SharedType
<1>7. Shared(rs, InResource(OfRepository(r)), ByResource, One) \in Values
  BY <1>3, SharedType
<1>8. Shared(rs, InGroup(OfResource(k)), ByGroup, One) \in Values
  BY <1>4, SharedType
<1>. QED
  BY <1>5, <1>6, <1>7, <1>8

(* Whether the request's digest has the size it was accounted with. *)
SameSize(L, q) == Total(L.blob[BlobKey(q)].references) > 0 => L.blob[BlobKey(q)].bytes = q.bytes

(* The rows reserve writes are what a scan of its reservations finds. *)
LEMMA ReserveScan ==
    ASSUME NEW L, Sound(L), NEW rs2, NEW id, NEW q, Reserved(L.reservations, rs2, id, q),
           NEW v, Sized(L.reservations, v), Sized(rs2, v)
    PROVE  Rescanned(rs2, q, UsageReserved(L, q), ResourceReserved(L, q),
                     reserved_add(L.group[GroupKey(q)], 1), BlobReserved(L, q))
<1>. DEFINE rs == L.reservations
            R == OfRepository(q.repository)
            E == OfResource(ResourceKey(q))
<1>1. q \in Requests /\ RowsOK(rs) /\ Changes(rs, rs2, id, q)
  BY DEF Reserved, Changes
<1>2. /\ UsageIs(L.usage[q.repository], rs, q.repository)
      /\ L.blob[BlobKey(q)].references = Split(rs, OfBlob(BlobKey(q)), One)
      /\ q.resource # None => ResourceIs(L.resource[ResourceKey(q)], rs, ResourceKey(q))
      /\ q.group # None => L.group[GroupKey(q)] = Split(rs, OfGroup(GroupKey(q)), One)
  BY <1>1, RowsOfRequest
<1>3. /\ SplitGains(rs, rs2, R, Bytes, q.bytes)
      /\ SharedGains(rs, rs2, R, OfBlob(BlobKey(q)), ByBlob, Bytes, q.bytes)
      /\ q.resource # None => SharedGains(rs, rs2, InResource(R), E, ByResource, One, 1)
      /\ SplitGains(rs, rs2, E, One, 1)
      /\ q.max_resource_artifact_bytes # None => SplitGains(rs, rs2, Metered(E), Bytes, q.bytes)
      /\ q.group # None => SharedGains(rs, rs2, InGroup(E), OfGroup(GroupKey(q)), ByGroup, One, 1)
      /\ SplitGains(rs, rs2, OfGroup(GroupKey(q)), One, 1)
      /\ SplitGains(rs, rs2, OfBlob(BlobKey(q)), One, 1)
  <2>1. Changes(rs, rs2, id, q) /\ q \in Requests
    BY DEF Reserved, Changes
  <2>2. Weight(Bytes) /\ Bytes[q] = q.bytes /\ Weight(One) /\ One[q] = 1
    BY <2>1, BytesWeigh, OneWeighs
  <2>3. /\ q \in R /\ q \in OfBlob(BlobKey(q)) /\ q \in E /\ q \in OfGroup(GroupKey(q))
        /\ Keyed(R, OfBlob(BlobKey(q)), ByBlob, q)
    BY <2>1, Keys
  <2>4. \A F : q \in F => SplitGains(rs, rs2, F, Bytes, q.bytes) /\ SplitGains(rs, rs2, F, One, 1)
    <3>1. ASSUME NEW F, q \in F PROVE SplitGains(rs, rs2, F, Bytes, Bytes[q]) /\ SplitGains(rs, rs2, F, One, One[q])
      BY <2>2, <3>1, SplitReserved
    <3>. QED
      BY <2>2, <3>1
  <2>5. SharedGains(rs, rs2, R, OfBlob(BlobKey(q)), ByBlob, Bytes, q.bytes)
    <3>1. Sharing(rs, rs2, R, ByBlob, Bytes, v)
      BY <2>1, BlobSharing
    <3>2. SharedGains(rs, rs2, R, OfBlob(BlobKey(q)), ByBlob, Bytes, Bytes[q])
      BY <2>3, <3>1, SharedReserved
    <3>. QED
      BY <2>2, <3>2
  <2>6. ASSUME q.resource # None
        PROVE  SharedGains(rs, rs2, InResource(R), E, ByResource, One, 1)
    <3>1. /\ q \in InResource(R)
          /\ Keyed(InResource(R), E, ByResource, q)
      BY <2>1, <2>6, Keys
    <3>2. Sharing(rs, rs2, InResource(R), ByResource, One, [k \in Resources |-> 1])
      BY <2>1, ResourceSharing
    <3>3. SharedGains(rs, rs2, InResource(R), E, ByResource, One, One[q])
      BY <3>1, <3>2, SharedReserved
    <3>. QED
      BY <2>2, <3>3
  <2>7. ASSUME q.group # None
        PROVE  SharedGains(rs, rs2, InGroup(E), OfGroup(GroupKey(q)), ByGroup, One, 1)
    <3>1. /\ q \in InGroup(E)
          /\ Keyed(InGroup(E), OfGroup(GroupKey(q)), ByGroup, q)
      BY <2>1, <2>7, Keys
    <3>2. Sharing(rs, rs2, InGroup(E), ByGroup, One, [g \in Groups |-> 1])
      BY <2>1, GroupSharing
    <3>3. SharedGains(rs, rs2, InGroup(E), OfGroup(GroupKey(q)), ByGroup, One, One[q])
      BY <3>1, <3>2, SharedReserved
    <3>. QED
      BY <2>2, <3>3
  <2>8. q.max_resource_artifact_bytes # None => q \in Metered(E)
    BY <2>3 DEF Metered
  <2>. QED
    BY <2>3, <2>4, <2>5, <2>6, <2>7, <2>8
<1>4. /\ q.resource = None => SharedStays(rs, rs2, InResource(R), ByResource, One)
      /\ q.group = None => SharedStays(rs, rs2, InGroup(E), ByGroup, One)
      /\ q.max_resource_artifact_bytes = None => SplitStays(rs, rs2, Metered(E), Bytes)
  BY <1>1, UncountedStays
<1>5. /\ Shared(rs, InResource(R), ByResource, One) \in Values /\ Split(rs, Metered(E), Bytes) \in Values
      /\ Shared(rs, InGroup(E), ByGroup, One) \in Values
  BY <1>1, RowTypes
<1>. HIDE DEF R, E
<1>6. UsageReserved(L, q) = UsageOf(rs2, q.repository)
  <2>1. adds(L, q).accounted_bytes = (Total(Split(rs, OfBlob(BlobKey(q)), One)) = 0)
    BY <1>2 DEF adds
  <2>2. /\ L.usage[q.repository].artifact_bytes = Split(rs, R, Bytes)
        /\ L.usage[q.repository].accounted_bytes = Shared(rs, R, ByBlob, Bytes)
        /\ L.usage[q.repository].resources = Shared(rs, InResource(R), ByResource, One)
    BY <1>2 DEF UsageIs, R
  <2>3. reserved_add(L.usage[q.repository].artifact_bytes, q.bytes) = Split(rs2, R, Bytes)
    BY <1>3, <2>2 DEF SplitGains
  <2>4. reserved_add(L.usage[q.repository].accounted_bytes, If(adds(L, q).accounted_bytes, q.bytes)) =
          Shared(rs2, R, ByBlob, Bytes)
    BY <1>3, <2>1, <2>2 DEF SharedGains
  <2>5. reserved_add(L.usage[q.repository].resources, If(adds(L, q).resource, 1)) =
          Shared(rs2, InResource(R), ByResource, One)
    <3>1. CASE q.resource = None
      <4>1. If(adds(L, q).resource, 1) = 0
        BY <3>1 DEF adds, If
      <4>. QED
        BY <1>4, <1>5, <2>2, <3>1, <4>1, AddNothing DEF Values, SharedStays
    <3>2. CASE q.resource # None
      <4>1. L.resource[ResourceKey(q)].references = Split(rs, E, One)
        BY <1>2, <3>2 DEF ResourceIs, E
      <4>2. adds(L, q).resource <=> Total(Split(rs, E, One)) = 0
        BY <3>2, <4>1 DEF adds
      <4>3. If(adds(L, q).resource, 1) = If(Total(Split(rs, E, One)) = 0, 1)
        BY <4>2 DEF If
      <4>. QED
        BY <1>3, <2>2, <3>2, <4>3 DEF SharedGains
    <3>. QED
      BY <3>1, <3>2
  <2>. QED
    BY <2>3, <2>4, <2>5 DEF UsageReserved, UsageOf, R
<1>7. ASSUME q.resource # None PROVE ResourceReserved(L, q) = ResourceOf(rs2, ResourceKey(q))
  <2>1. /\ L.resource[ResourceKey(q)].references = Split(rs, E, One)
        /\ L.resource[ResourceKey(q)].artifact_bytes = Split(rs, Metered(E), Bytes)
        /\ L.resource[ResourceKey(q)].groups = Shared(rs, InGroup(E), ByGroup, One)
    BY <1>2, <1>7 DEF ResourceIs, E
  <2>2. reserved_add(L.resource[ResourceKey(q)].references, 1) = Split(rs2, E, One)
    BY <1>3, <2>1 DEF SplitGains
  <2>3. reserved_add(L.resource[ResourceKey(q)].artifact_bytes, If(q.max_resource_artifact_bytes # None, q.bytes)) =
          Split(rs2, Metered(E), Bytes)
    <3>1. CASE q.max_resource_artifact_bytes = None
      <4>1. If(q.max_resource_artifact_bytes # None, q.bytes) = 0
        BY <3>1 DEF If
      <4>. QED
        BY <1>4, <1>5, <2>1, <3>1, <4>1, AddNothing DEF Values, SplitStays
    <3>2. CASE q.max_resource_artifact_bytes # None
      <4>1. If(q.max_resource_artifact_bytes # None, q.bytes) = q.bytes
        BY <3>2 DEF If
      <4>. QED
        BY <1>3, <2>1, <3>2, <4>1 DEF SplitGains
    <3>. QED
      BY <3>1, <3>2
  <2>4. reserved_add(L.resource[ResourceKey(q)].groups, If(adds(L, q).group, 1)) =
          Shared(rs2, InGroup(E), ByGroup, One)
    <3>1. CASE q.group = None
      <4>1. If(adds(L, q).group, 1) = 0
        BY <3>1 DEF adds, If
      <4>. QED
        BY <1>4, <1>5, <2>1, <3>1, <4>1, AddNothing DEF Values, SharedStays
    <3>2. CASE q.group # None
      <4>1. If(adds(L, q).group, 1) = If(Total(Split(rs, OfGroup(GroupKey(q)), One)) = 0, 1)
        BY <1>2, <3>2 DEF adds, If
      <4>. QED
        BY <1>3, <2>1, <3>2, <4>1 DEF SharedGains
    <3>. QED
      BY <3>1, <3>2
  <2>. QED
    BY <2>2, <2>3, <2>4 DEF ResourceReserved, ResourceOf, E
<1>8. q.group # None => reserved_add(L.group[GroupKey(q)], 1) = Split(rs2, OfGroup(GroupKey(q)), One)
  BY <1>2, <1>3 DEF SplitGains
<1>9. /\ DOMAIN BlobReserved(L, q) = {"bytes", "references"}
      /\ BlobReserved(L, q).references = Split(rs2, OfBlob(BlobKey(q)), One)
  BY <1>2, <1>3 DEF SplitGains, BlobReserved
<1>. QED
  BY <1>6, <1>7, <1>8, <1>9 DEF Rescanned

(* So are the rows of a commit (transition). *)
LEMMA CommitScan ==
    ASSUME NEW L, Sound(L), NEW rs2, NEW id, NEW q, Moved(L.reservations, rs2, id, q),
           NEW v, Sized(L.reservations, v), Sized(rs2, v)
    PROVE  Rescanned(rs2, q, UsageMoved(L, q), ResourceMoved(L, q),
                     move_value(L.group[GroupKey(q)], 1), BlobMoved(L, q))
<1>. DEFINE rs == L.reservations
            R == OfRepository(q.repository)
            E == OfResource(ResourceKey(q))
<1>1. q \in Requests /\ RowsOK(rs) /\ Changes(rs, rs2, id, q)
  BY DEF Moved, Changes
<1>2. /\ UsageIs(L.usage[q.repository], rs, q.repository)
      /\ L.blob[BlobKey(q)].references = Split(rs, OfBlob(BlobKey(q)), One)
      /\ q.resource # None => ResourceIs(L.resource[ResourceKey(q)], rs, ResourceKey(q))
      /\ q.group # None => L.group[GroupKey(q)] = Split(rs, OfGroup(GroupKey(q)), One)
  BY <1>1, RowsOfRequest
<1>3. /\ SplitMoves(rs, rs2, R, Bytes, q.bytes)
      /\ SharedMoves(rs, rs2, R, OfBlob(BlobKey(q)), ByBlob, Bytes, q.bytes)
      /\ q.resource # None => SharedMoves(rs, rs2, InResource(R), E, ByResource, One, 1)
      /\ SplitMoves(rs, rs2, E, One, 1)
      /\ q.max_resource_artifact_bytes # None => SplitMoves(rs, rs2, Metered(E), Bytes, q.bytes)
      /\ q.group # None => SharedMoves(rs, rs2, InGroup(E), OfGroup(GroupKey(q)), ByGroup, One, 1)
      /\ SplitMoves(rs, rs2, OfGroup(GroupKey(q)), One, 1)
      /\ SplitMoves(rs, rs2, OfBlob(BlobKey(q)), One, 1)
  <2>1. Changes(rs, rs2, id, q) /\ q \in Requests
    BY DEF Moved, Changes
  <2>2. Weight(Bytes) /\ Bytes[q] = q.bytes /\ Weight(One) /\ One[q] = 1
    BY <2>1, BytesWeigh, OneWeighs
  <2>3. /\ q \in R /\ q \in OfBlob(BlobKey(q)) /\ q \in E /\ q \in OfGroup(GroupKey(q))
        /\ Keyed(R, OfBlob(BlobKey(q)), ByBlob, q)
    BY <2>1, Keys
  <2>4. \A F : q \in F => SplitMoves(rs, rs2, F, Bytes, q.bytes) /\ SplitMoves(rs, rs2, F, One, 1)
    <3>1. ASSUME NEW F, q \in F PROVE SplitMoves(rs, rs2, F, Bytes, Bytes[q]) /\ SplitMoves(rs, rs2, F, One, One[q])
      BY <2>2, <3>1, SplitMoved
    <3>. QED
      BY <2>2, <3>1
  <2>5. SharedMoves(rs, rs2, R, OfBlob(BlobKey(q)), ByBlob, Bytes, q.bytes)
    <3>1. Sharing(rs, rs2, R, ByBlob, Bytes, v)
      BY <2>1, BlobSharing
    <3>2. SharedMoves(rs, rs2, R, OfBlob(BlobKey(q)), ByBlob, Bytes, Bytes[q])
      BY <2>3, <3>1, SharedMoved
    <3>. QED
      BY <2>2, <3>2
  <2>6. ASSUME q.resource # None
        PROVE  SharedMoves(rs, rs2, InResource(R), E, ByResource, One, 1)
    <3>1. /\ q \in InResource(R)
          /\ Keyed(InResource(R), E, ByResource, q)
      BY <2>1, <2>6, Keys
    <3>2. Sharing(rs, rs2, InResource(R), ByResource, One, [k \in Resources |-> 1])
      BY <2>1, ResourceSharing
    <3>3. SharedMoves(rs, rs2, InResource(R), E, ByResource, One, One[q])
      BY <3>1, <3>2, SharedMoved
    <3>. QED
      BY <2>2, <3>3
  <2>7. ASSUME q.group # None
        PROVE  SharedMoves(rs, rs2, InGroup(E), OfGroup(GroupKey(q)), ByGroup, One, 1)
    <3>1. /\ q \in InGroup(E)
          /\ Keyed(InGroup(E), OfGroup(GroupKey(q)), ByGroup, q)
      BY <2>1, <2>7, Keys
    <3>2. Sharing(rs, rs2, InGroup(E), ByGroup, One, [g \in Groups |-> 1])
      BY <2>1, GroupSharing
    <3>3. SharedMoves(rs, rs2, InGroup(E), OfGroup(GroupKey(q)), ByGroup, One, One[q])
      BY <3>1, <3>2, SharedMoved
    <3>. QED
      BY <2>2, <3>3
  <2>8. q.max_resource_artifact_bytes # None => q \in Metered(E)
    BY <2>3 DEF Metered
  <2>. QED
    BY <2>3, <2>4, <2>5, <2>6, <2>7, <2>8
<1>4. /\ q.resource = None => SharedStays(rs, rs2, InResource(R), ByResource, One)
      /\ q.group = None => SharedStays(rs, rs2, InGroup(E), ByGroup, One)
      /\ q.max_resource_artifact_bytes = None => SplitStays(rs, rs2, Metered(E), Bytes)
  BY <1>1, UncountedStays
<1>5. DOMAIN L.blob[BlobKey(q)] = {"bytes", "references"}
  BY <1>1, Keys DEF Sound, Shape
<1>. HIDE DEF R, E
<1>6. UsageMoved(L, q) = UsageOf(rs2, q.repository)
  <2>1. /\ L.usage[q.repository].artifact_bytes = Split(rs, R, Bytes)
        /\ L.usage[q.repository].accounted_bytes = Shared(rs, R, ByBlob, Bytes)
        /\ L.usage[q.repository].resources = Shared(rs, InResource(R), ByResource, One)
    BY <1>2 DEF UsageIs, R
  <2>2. move_value(L.usage[q.repository].artifact_bytes, q.bytes) = Split(rs2, R, Bytes)
    BY <1>3, <2>1 DEF SplitMoves
  <2>3. move_first(L.usage[q.repository].accounted_bytes, L.blob[BlobKey(q)].references, q.bytes) =
          Shared(rs2, R, ByBlob, Bytes)
    BY <1>2, <1>3, <2>1 DEF SharedMoves
  <2>4. (IF q.resource = None THEN L.usage[q.repository].resources
         ELSE move_first(L.usage[q.repository].resources, L.resource[ResourceKey(q)].references, 1)) =
          Shared(rs2, InResource(R), ByResource, One)
    <3>1. CASE q.resource = None
      BY <1>4, <2>1, <3>1 DEF SharedStays
    <3>2. CASE q.resource # None
      <4>1. L.resource[ResourceKey(q)].references = Split(rs, E, One)
        BY <1>2, <3>2 DEF ResourceIs, E
      <4>. QED
        BY <1>3, <2>1, <3>2, <4>1 DEF SharedMoves
    <3>. QED
      BY <3>1, <3>2
  <2>. QED
    BY <2>2, <2>3, <2>4 DEF UsageMoved, UsageOf, R
<1>7. ASSUME q.resource # None PROVE ResourceMoved(L, q) = ResourceOf(rs2, ResourceKey(q))
  <2>1. /\ L.resource[ResourceKey(q)].references = Split(rs, E, One)
        /\ L.resource[ResourceKey(q)].artifact_bytes = Split(rs, Metered(E), Bytes)
        /\ L.resource[ResourceKey(q)].groups = Shared(rs, InGroup(E), ByGroup, One)
    BY <1>2, <1>7 DEF ResourceIs, E
  <2>2. move_value(L.resource[ResourceKey(q)].references, 1) = Split(rs2, E, One)
    BY <1>3, <2>1 DEF SplitMoves
  <2>3. (IF q.max_resource_artifact_bytes = None THEN L.resource[ResourceKey(q)].artifact_bytes
         ELSE move_value(L.resource[ResourceKey(q)].artifact_bytes, q.bytes)) =
          Split(rs2, Metered(E), Bytes)
    BY <1>3, <1>4, <2>1 DEF SplitMoves, SplitStays
  <2>4. (IF q.group = None THEN L.resource[ResourceKey(q)].groups
         ELSE move_first(L.resource[ResourceKey(q)].groups, L.group[GroupKey(q)], 1)) =
          Shared(rs2, InGroup(E), ByGroup, One)
    BY <1>2, <1>3, <1>4, <2>1 DEF SharedMoves, SharedStays
  <2>. QED
    BY <2>2, <2>3, <2>4 DEF ResourceMoved, ResourceOf, E
<1>8. q.group # None => move_value(L.group[GroupKey(q)], 1) = Split(rs2, OfGroup(GroupKey(q)), One)
  BY <1>2, <1>3 DEF SplitMoves
<1>9. /\ DOMAIN BlobMoved(L, q) = {"bytes", "references"}
      /\ BlobMoved(L, q).references = Split(rs2, OfBlob(BlobKey(q)), One)
  BY <1>2, <1>3, <1>5 DEF SplitMoves, BlobMoved
<1>. QED
  BY <1>6, <1>7, <1>8, <1>9 DEF Rescanned

(* So are the rows of a release (rebalance_or_remove). *)
LEMMA ReleaseScan ==
    ASSUME NEW L, Sound(L), NEW rs2, NEW id, NEW q, NEW s, Dropped(L.reservations, rs2, id, q, s),
           NEW v, Sized(L.reservations, v), Sized(rs2, v)
    PROVE  Rescanned(rs2, q, UsageDropped(L, q, s), ResourceDropped(L, q, s),
                     GroupLeft(L, q, s), BlobDropped(L, q, s))
<1>. DEFINE rs == L.reservations
            R == OfRepository(q.repository)
            E == OfResource(ResourceKey(q))
<1>1. q \in Requests /\ RowsOK(rs) /\ RowsOK(rs2) /\ Changes(rs, rs2, id, q)
  BY DEF Dropped, Changes
<1>2. /\ UsageIs(L.usage[q.repository], rs, q.repository)
      /\ L.blob[BlobKey(q)].references = Split(rs, OfBlob(BlobKey(q)), One)
      /\ q.resource # None => ResourceIs(L.resource[ResourceKey(q)], rs, ResourceKey(q))
      /\ q.group # None => L.group[GroupKey(q)] = Split(rs, OfGroup(GroupKey(q)), One)
  BY <1>1, RowsOfRequest
<1>3. /\ SplitLoses(rs, rs2, R, Bytes, s, q.bytes)
      /\ SharedLoses(rs, rs2, R, OfBlob(BlobKey(q)), ByBlob, Bytes, s, q.bytes)
      /\ q.resource # None => SharedLoses(rs, rs2, InResource(R), E, ByResource, One, s, 1)
      /\ SplitLoses(rs, rs2, E, One, s, 1)
      /\ q.max_resource_artifact_bytes # None => SplitLoses(rs, rs2, Metered(E), Bytes, s, q.bytes)
      /\ q.group # None => SharedLoses(rs, rs2, InGroup(E), OfGroup(GroupKey(q)), ByGroup, One, s, 1)
      /\ SplitLoses(rs, rs2, OfGroup(GroupKey(q)), One, s, 1)
      /\ SplitLoses(rs, rs2, OfBlob(BlobKey(q)), One, s, 1)
  <2>1. Changes(rs, rs2, id, q) /\ q \in Requests
    BY DEF Dropped, Changes
  <2>2. Weight(Bytes) /\ Bytes[q] = q.bytes /\ Weight(One) /\ One[q] = 1
    BY <2>1, BytesWeigh, OneWeighs
  <2>3. /\ q \in R /\ q \in OfBlob(BlobKey(q)) /\ q \in E /\ q \in OfGroup(GroupKey(q))
        /\ Keyed(R, OfBlob(BlobKey(q)), ByBlob, q)
    BY <2>1, Keys
  <2>4. \A F : q \in F => SplitLoses(rs, rs2, F, Bytes, s, q.bytes) /\ SplitLoses(rs, rs2, F, One, s, 1)
    <3>1. ASSUME NEW F, q \in F PROVE SplitLoses(rs, rs2, F, Bytes, s, Bytes[q]) /\ SplitLoses(rs, rs2, F, One, s, One[q])
      BY <2>2, <3>1, SplitDropped
    <3>. QED
      BY <2>2, <3>1
  <2>5. SharedLoses(rs, rs2, R, OfBlob(BlobKey(q)), ByBlob, Bytes, s, q.bytes)
    <3>1. Sharing(rs, rs2, R, ByBlob, Bytes, v)
      BY <2>1, BlobSharing
    <3>2. SharedLoses(rs, rs2, R, OfBlob(BlobKey(q)), ByBlob, Bytes, s, Bytes[q])
      BY <2>3, <3>1, SharedDropped
    <3>. QED
      BY <2>2, <3>2
  <2>6. ASSUME q.resource # None
        PROVE  SharedLoses(rs, rs2, InResource(R), E, ByResource, One, s, 1)
    <3>1. /\ q \in InResource(R)
          /\ Keyed(InResource(R), E, ByResource, q)
      BY <2>1, <2>6, Keys
    <3>2. Sharing(rs, rs2, InResource(R), ByResource, One, [k \in Resources |-> 1])
      BY <2>1, ResourceSharing
    <3>3. SharedLoses(rs, rs2, InResource(R), E, ByResource, One, s, One[q])
      BY <3>1, <3>2, SharedDropped
    <3>. QED
      BY <2>2, <3>3
  <2>7. ASSUME q.group # None
        PROVE  SharedLoses(rs, rs2, InGroup(E), OfGroup(GroupKey(q)), ByGroup, One, s, 1)
    <3>1. /\ q \in InGroup(E)
          /\ Keyed(InGroup(E), OfGroup(GroupKey(q)), ByGroup, q)
      BY <2>1, <2>7, Keys
    <3>2. Sharing(rs, rs2, InGroup(E), ByGroup, One, [g \in Groups |-> 1])
      BY <2>1, GroupSharing
    <3>3. SharedLoses(rs, rs2, InGroup(E), OfGroup(GroupKey(q)), ByGroup, One, s, One[q])
      BY <3>1, <3>2, SharedDropped
    <3>. QED
      BY <2>2, <3>3
  <2>8. q.max_resource_artifact_bytes # None => q \in Metered(E)
    BY <2>3 DEF Metered
  <2>. QED
    BY <2>3, <2>4, <2>5, <2>6, <2>7, <2>8
<1>4. /\ q.resource = None => SharedStays(rs, rs2, InResource(R), ByResource, One)
      /\ q.group = None => SharedStays(rs, rs2, InGroup(E), ByGroup, One)
      /\ q.max_resource_artifact_bytes = None => SplitStays(rs, rs2, Metered(E), Bytes)
  BY <1>1, UncountedStays
<1>5. DOMAIN L.blob[BlobKey(q)] = {"bytes", "references"}
  BY <1>1, Keys DEF Sound, Shape
<1>. HIDE DEF R, E
<1>6. BlobLeft(L, q, s) = Split(rs2, OfBlob(BlobKey(q)), One)
  BY <1>2, <1>3 DEF BlobLeft, SplitLoses
<1>7. q.group # None => GroupLeft(L, q, s) = Split(rs2, OfGroup(GroupKey(q)), One)
  BY <1>2, <1>3 DEF GroupLeft, SplitLoses
<1>8. q.resource # None => ResourceLeft(L, q, s) = Split(rs2, E, One)
  BY <1>2, <1>3 DEF ResourceLeft, SplitLoses, ResourceIs, E
<1>9. UsageDropped(L, q, s) = UsageOf(rs2, q.repository)
  <2>1. /\ L.usage[q.repository].artifact_bytes = Split(rs, R, Bytes)
        /\ L.usage[q.repository].accounted_bytes = Shared(rs, R, ByBlob, Bytes)
        /\ L.usage[q.repository].resources = Shared(rs, InResource(R), ByResource, One)
    BY <1>2 DEF UsageIs, R
  <2>2. subtract_value(L.usage[q.repository].artifact_bytes, s, q.bytes) = Split(rs2, R, Bytes)
    BY <1>3, <2>1 DEF SplitLoses
  <2>3. rebalance_or_remove(L.usage[q.repository].accounted_bytes, BlobLeft(L, q, s), s, q.bytes) =
          Shared(rs2, R, ByBlob, Bytes)
    BY <1>3, <1>6, <2>1 DEF SharedLoses
  <2>4. (IF q.resource = None THEN L.usage[q.repository].resources
         ELSE rebalance_or_remove(L.usage[q.repository].resources, ResourceLeft(L, q, s), s, 1)) =
          Shared(rs2, InResource(R), ByResource, One)
    BY <1>3, <1>4, <1>8, <2>1 DEF SharedLoses, SharedStays
  <2>. QED
    BY <2>2, <2>3, <2>4 DEF UsageDropped, UsageOf, R
<1>10. ASSUME q.resource # None PROVE ResourceDropped(L, q, s) = ResourceOf(rs2, ResourceKey(q))
  <2>1. /\ L.resource[ResourceKey(q)].artifact_bytes = Split(rs, Metered(E), Bytes)
        /\ L.resource[ResourceKey(q)].groups = Shared(rs, InGroup(E), ByGroup, One)
    BY <1>2, <1>10 DEF ResourceIs, E
  <2>2. (IF q.max_resource_artifact_bytes = None THEN L.resource[ResourceKey(q)].artifact_bytes
         ELSE subtract_value(L.resource[ResourceKey(q)].artifact_bytes, s, q.bytes)) =
          Split(rs2, Metered(E), Bytes)
    BY <1>3, <1>4, <2>1 DEF SplitLoses, SplitStays
  <2>3. (IF q.group = None THEN L.resource[ResourceKey(q)].groups
         ELSE rebalance_or_remove(L.resource[ResourceKey(q)].groups, GroupLeft(L, q, s), s, 1)) =
          Shared(rs2, InGroup(E), ByGroup, One)
    BY <1>3, <1>4, <1>7, <2>1 DEF SharedLoses, SharedStays
  <2>4. ResourceLeft(L, q, s) = Split(rs2, E, One)
    BY <1>8, <1>10
  <2>5. ResourceDropped(L, q, s) =
          IF Total(Split(rs2, E, One)) = 0 THEN ResourceUsage ELSE ResourceOf(rs2, ResourceKey(q))
    BY <2>2, <2>3, <2>4 DEF ResourceDropped, KeepIf, ResourceOf, E
  <2>6. Total(Split(rs2, E, One)) = 0 => ResourceOf(rs2, ResourceKey(q)) = ResourceUsage
    BY <1>1, UnheldResource DEF E
  <2>. QED
    BY <2>5, <2>6
<1>11. /\ DOMAIN BlobDropped(L, q, s) = {"bytes", "references"}
       /\ BlobDropped(L, q, s).references = Split(rs2, OfBlob(BlobKey(q)), One)
  <2>1. CASE Total(BlobLeft(L, q, s)) = 0
    <3>1. Split(rs2, OfBlob(BlobKey(q)), One) = Zero
      BY <1>1, <1>6, <2>1, ReferencesHeld, UnheldSplit
    <3>2. BlobDropped(L, q, s) = BlobUsage
      BY <2>1 DEF BlobDropped, KeepIf
    <3>3. DOMAIN BlobUsage = {"bytes", "references"} /\ BlobUsage.references = Zero
      BY DEF BlobUsage
    <3>. QED
      BY <3>1, <3>2, <3>3
  <2>2. CASE Total(BlobLeft(L, q, s)) # 0
    <3>1. BlobDropped(L, q, s) = [L.blob[BlobKey(q)] EXCEPT !.references = BlobLeft(L, q, s)]
      BY <2>2 DEF BlobDropped, KeepIf
    <3>. QED
      BY <1>5, <1>6, <3>1
  <2>. QED
    BY <2>1, <2>2
<1>. QED
  BY <1>7, <1>9, <1>10, <1>11 DEF Rescanned

-----------------------------------------------------------------------------
(* Each operation keeps the counters sound.                                *)

(* Reserving keeps the counters sound, when digests keep their size. *)
LEMMA ReserveSound ==
    ASSUME NEW L, Sound(L), NEW id \in Ids, id \notin Live(L), NEW q \in Requests, SameSize(L, q)
    PROVE  Sound(reserve_quota(L, id, q))
<1>. DEFINE R == reserve_quota(L, id, q)
            rs == L.reservations
            rs2 == With(rs, id, [request |-> q, state |-> "reserved"])
            v == Sizes(R)
<1>1. Shape(L) /\ RowsOK(rs) /\ id \notin DOMAIN rs
  BY DEF Sound, Shape, Live
<1>2. /\ Rewritten(L, R, q, UsageReserved(L, q), ResourceReserved(L, q),
                   reserved_add(L.group[GroupKey(q)], 1), BlobReserved(L, q))
      /\ Replaced(R, rs2, L.allocation)
  BY <1>1, ReserveTables
<1>3. Reserved(rs, rs2, id, q) /\ DOMAIN rs2 = DOMAIN rs \cup {id}
  BY <1>1, ReserveChanges
<1>4. Changes(rs, rs2, id, q)
  BY <1>3 DEF Reserved
<1>5. /\ \A k \in Blobs : v[k] = IF k = BlobKey(q) THEN q.bytes ELSE L.blob[k].bytes
  <2>1. R.blob = [L.blob EXCEPT ![BlobKey(q)] = BlobReserved(L, q)] /\ DOMAIN L.blob = Blobs
    BY <1>1, <1>2 DEF Rewritten, Shape
  <2>2. BlobReserved(L, q).bytes = q.bytes
    BY DEF BlobReserved
  <2>. QED
    BY <2>1, <2>2 DEF Sizes
<1>. HIDE DEF R, rs2, v
<1>6. Sized(rs, v)
  <2>. SUFFICES ASSUME NEW i \in DOMAIN rs PROVE v[BlobKey(rs[i].request)] = rs[i].request.bytes
    BY DEF Sized
  <2>. DEFINE p == rs[i].request
  <2>1. p \in Requests /\ BlobKey(p) \in Blobs /\ p \in OfBlob(BlobKey(p))
    BY <1>1, RowRequests, Keys
  <2>2. L.blob[BlobKey(p)].bytes = p.bytes
    BY DEF Sound, Counted, Live
  <2>3. CASE BlobKey(p) = BlobKey(q)
    <3>1. Total(Split(rs, OfBlob(BlobKey(q)), One)) # 0
      BY <1>1, <2>1, <2>3, ReferencesHeld DEF Unheld
    <3>2. L.blob[BlobKey(q)].references = Split(rs, OfBlob(BlobKey(q)), One)
      BY RowsOfRequest
    <3>3. Split(rs, OfBlob(BlobKey(q)), One) \in Values
      BY <1>1, OneWeighs, SplitType
    <3>4. Total(L.blob[BlobKey(q)].references) > 0
      BY <3>1, <3>2, <3>3, SMTT(30) DEF Values, Total
    <3>5. L.blob[BlobKey(q)].bytes = q.bytes
      BY <3>4 DEF SameSize
    <3>. QED
      BY <1>5, <2>1, <2>2, <2>3, <3>5
  <2>4. CASE BlobKey(p) # BlobKey(q)
    BY <1>5, <2>1, <2>2, <2>4
  <2>. QED
    BY <2>3, <2>4
<1>7. Sized(rs2, v)
  <2>1. /\ \A i \in DOMAIN rs2 : i # id => i \in DOMAIN rs /\ rs2[i] = rs[i]
        /\ id \in DOMAIN rs2 => rs2[id].request = q
    BY <1>3, <1>4 DEF Changes
  <2>2. v[BlobKey(q)] = q.bytes
    BY <1>5, Keys
  <2>. QED
    BY <1>6, <2>1, <2>2 DEF Sized
<1>8. Rescanned(rs2, q, UsageReserved(L, q), ResourceReserved(L, q),
                reserved_add(L.group[GroupKey(q)], 1), BlobReserved(L, q))
  BY <1>3, <1>6, <1>7, ReserveScan
<1>9. Sound(R)
  BY <1>2, <1>4, <1>6, <1>7, <1>8, SoundAfter DEF v, Replaced
<1>. QED
  BY <1>9 DEF R

(* Committing does, whatever the reservation. *)
LEMMA CommitSound ==
    ASSUME NEW L, Sound(L), NEW id PROVE Sound(commit_reservation(L, id))
<1>. DEFINE R == commit_reservation(L, id)
            rs == L.reservations
            rs2 == [rs EXCEPT ![id].state = "committed"]
            q == rs[id].request
            v == Sizes(L)
<1>1. CASE id \notin Pending(L)
  BY <1>1 DEF commit_reservation
<1>2. CASE id \in Pending(L)
  <2>1. Shape(L) /\ RowsOK(rs) /\ id \in DOMAIN rs /\ rs[id].state = "reserved" /\ id \in Ids
    BY <1>2 DEF Sound, Shape, Pending, InState, Live
  <2>2. Moved(rs, rs2, id, q) /\ DOMAIN rs2 = DOMAIN rs
    BY <2>1, CommitChanges
  <2>3. Changes(rs, rs2, id, q)
    BY <2>2 DEF Moved
  <2>4. /\ Rewritten(L, R, q, UsageMoved(L, q), ResourceMoved(L, q),
                     move_value(L.group[GroupKey(q)], 1), BlobMoved(L, q))
        /\ Replaced(R, rs2, With(L.allocation, allocation_key(q), id))
    BY <1>2, <2>1, CommitTables
  <2>5. R.blob = [L.blob EXCEPT ![BlobKey(q)] = BlobMoved(L, q)] /\ R.reservations = rs2
    BY <2>4 DEF Rewritten, Replaced
  <2>7. q \in Requests /\ BlobKey(q) \in Blobs /\ DOMAIN L.blob = Blobs
        /\ DOMAIN L.blob[BlobKey(q)] = {"bytes", "references"}
    BY <2>1, RowRequests, Keys DEF Shape
  <2>8. BlobMoved(L, q).bytes = L.blob[BlobKey(q)].bytes
    BY <2>7 DEF BlobMoved
  <2>. HIDE DEF R, rs2, q
  <2>9. \A k \in Blobs : R.blob[k].bytes = L.blob[k].bytes
    BY <2>5, <2>7, <2>8
  <2>10. Sizes(R) = v
    BY <2>9 DEF Sizes
  <2>. HIDE DEF v
  <2>11. Sized(rs, v)
    BY SoundSizes DEF v
  <2>12. Sized(rs2, v)
    <3>1. \A i \in DOMAIN rs2 : i \in DOMAIN rs /\ rs2[i].request = rs[i].request
      BY <2>2, <2>3 DEF Changes, q
    <3>. QED
      BY <2>11, <3>1 DEF Sized
  <2>13. Rescanned(rs2, q, UsageMoved(L, q), ResourceMoved(L, q),
                   move_value(L.group[GroupKey(q)], 1), BlobMoved(L, q))
    BY <2>2, <2>11, <2>12, CommitScan
  <2>14. Sound(R)
    BY <2>1, <2>3, <2>4, <2>5, <2>10, <2>11, <2>12, <2>13, SoundAfter
  <2>. QED
    BY <2>14 DEF R
<1>. QED
  BY <1>1, <1>2

(* Releasing does. *)
LEMMA ReleaseSound ==
    ASSUME NEW L, Sound(L), NEW id PROVE Sound(release(L, id))
<1>. DEFINE R == release(L, id)
            rs == L.reservations
            rs2 == Without(rs, id)
            q == rs[id].request
            s == rs[id].state
            v == Sizes(L)
<1>1. CASE id \notin Live(L)
  BY <1>1 DEF release
<1>2. CASE id \in Live(L)
  <2>1. Shape(L) /\ RowsOK(rs) /\ id \in DOMAIN rs /\ id \in Ids
    BY <1>2 DEF Sound, Shape, Live
  <2>2. Dropped(rs, rs2, id, q, s) /\ DOMAIN rs2 = DOMAIN rs \ {id}
    BY <2>1, ReleaseChanges
  <2>3. Changes(rs, rs2, id, q)
    BY <2>2 DEF Dropped
  <2>4. /\ Rewritten(L, R, q, UsageDropped(L, q, s), ResourceDropped(L, q, s),
                     GroupLeft(L, q, s), BlobDropped(L, q, s))
        /\ Replaced(R, rs2, forget_allocation(L, id))
    BY <1>2, <2>1, ReleaseTables
  <2>5. R.blob = [L.blob EXCEPT ![BlobKey(q)] = BlobDropped(L, q, s)] /\ R.reservations = rs2
    BY <2>4 DEF Rewritten, Replaced
  <2>6. q \in Requests /\ BlobKey(q) \in Blobs /\ DOMAIN L.blob = Blobs
        /\ DOMAIN L.blob[BlobKey(q)] = {"bytes", "references"}
    BY <2>1, RowRequests, Keys DEF Shape
  <2>7. BlobLeft(L, q, s) = Split(rs2, OfBlob(BlobKey(q)), One)
    <3>1. SplitLoses(rs, rs2, OfBlob(BlobKey(q)), One, s, One[q])
      BY <2>2, <2>6, Keys, OneWeighs, SplitDropped
    <3>2. L.blob[BlobKey(q)].references = Split(rs, OfBlob(BlobKey(q)), One)
      BY <2>6, RowsOfRequest
    <3>. QED
      BY <2>6, <3>1, <3>2, OneWeighs DEF SplitLoses, BlobLeft
  <2>. HIDE DEF R, rs2, q, s
  <2>8. RowsOK(rs2) /\ \A i \in DOMAIN rs2 : i \in DOMAIN rs /\ rs2[i].request = rs[i].request
    BY <2>2, <2>3 DEF Changes
  <2>9. Sized(rs, v)
    BY SoundSizes
  <2>10. Sized(rs2, v)
    BY <2>8, <2>9 DEF Sized
  <2>11. ASSUME NEW i \in DOMAIN rs2
         PROVE  R.blob[BlobKey(rs2[i].request)].bytes = L.blob[BlobKey(rs2[i].request)].bytes
    <3>1. rs2[i].request \in Requests /\ BlobKey(rs2[i].request) \in Blobs
      BY <2>8, RowRequests, Keys
    <3>2. CASE BlobKey(rs2[i].request) # BlobKey(q)
      BY <2>5, <2>6, <3>1, <3>2
    <3>3. CASE BlobKey(rs2[i].request) = BlobKey(q)
      <4>1. rs2[i].request \in OfBlob(BlobKey(q))
        BY <3>1, <3>3 DEF OfBlob
      <4>2. Total(BlobLeft(L, q, s)) # 0
        BY <2>7, <2>8, <4>1, ReferencesHeld DEF Unheld
      <4>3. BlobDropped(L, q, s) = [L.blob[BlobKey(q)] EXCEPT !.references = BlobLeft(L, q, s)]
        BY <4>2 DEF BlobDropped, KeepIf
      <4>4. BlobDropped(L, q, s).bytes = L.blob[BlobKey(q)].bytes
        BY <2>6, <4>3
      <4>. QED
        BY <2>5, <2>6, <3>3, <4>4
    <3>. QED
      BY <3>2, <3>3
  <2>12. Sized(rs2, Sizes(R))
    <3>1. \A i \in DOMAIN rs2 : BlobKey(rs2[i].request) \in Blobs
      BY <2>8, RowRequests, Keys
    <3>. QED
      BY <2>10, <2>11, <3>1 DEF Sized, Sizes
  <2>. HIDE DEF v
  <2>13. Rescanned(rs2, q, UsageDropped(L, q, s), ResourceDropped(L, q, s),
                   GroupLeft(L, q, s), BlobDropped(L, q, s))
    BY <2>2, <2>9, <2>10, ReleaseScan
  <2>14. Sound(R)
    BY <2>1, <2>3, <2>4, <2>5, <2>9, <2>10, <2>12, <2>13, SoundAfter
  <2>. QED
    BY <2>14 DEF R
<1>. QED
  BY <1>1, <1>2

(* An empty table counts nothing. *)
LEMMA NothingHeld ==
    ASSUME NEW rs, DOMAIN rs = {}
    PROVE  \A F, key, w : Split(rs, F, w) = Zero /\ Shared(rs, F, key, w) = Zero
<1>1. ASSUME NEW F, NEW key, NEW w PROVE Split(rs, F, w) = Zero /\ Shared(rs, F, key, w) = Zero
  <2>1. Unheld(rs, F)
    BY DEF Unheld
  <2>2. Split(rs, F, w) = Zero
    BY <2>1, UnheldSplit
  <2>3. Shared(rs, F, key, w) = Zero
    BY <2>1, UnheldShared
  <2>. QED
    BY <2>2, <2>3
<1>. QED
  BY <1>1

(* The empty ledger is sound. *)
LEMMA SoundAtFirst == Sound(NoQuota)
<1>1. /\ DOMAIN NoQuota = Tables /\ NoQuota.reservations = <<>> /\ DOMAIN <<>> = {}
      /\ NoQuota.usage = [r \in Repositories |-> QuotaUsage]
      /\ NoQuota.resource = [k \in Resources |-> ResourceUsage]
      /\ NoQuota.group = [k \in Groups |-> Zero]
      /\ NoQuota.blob = [k \in Blobs |-> BlobUsage]
  BY SMT DEF NoQuota, Tables
<1>2. DOMAIN BlobUsage = {"bytes", "references"} /\ BlobUsage.references = Zero
  BY DEF BlobUsage
<1>3. RowsOK(<<>>)
  <2>1. IsFiniteSet({})
    BY FS_EmptySet
  <2>2. <<>> \in [{} -> Reservation]
    BY SMT
  <2>. QED
    BY <1>1, <2>1, <2>2 DEF RowsOK
<1>4. Shape(NoQuota)
  BY <1>1, <1>2, <1>3 DEF Shape, Live
<1>7. \A F, key, w : Split(<<>>, F, w) = Zero /\ Shared(<<>>, F, key, w) = Zero
  BY <1>1, NothingHeld
<1>8. \A r : UsageOf(<<>>, r) = QuotaUsage
  BY <1>7 DEF UsageOf, QuotaUsage
<1>9. \A k : ResourceOf(<<>>, k) = ResourceUsage
  BY <1>7 DEF ResourceOf, ResourceUsage
<1>10. \A r \in Repositories : NoQuota.usage[r] = UsageOf(NoQuota.reservations, r)
  BY <1>1, <1>8
<1>11. \A k \in Resources : NoQuota.resource[k] = ResourceOf(NoQuota.reservations, k)
  BY <1>1, <1>9
<1>12. ASSUME NEW k \in Groups PROVE NoQuota.group[k] = Split(NoQuota.reservations, OfGroup(k), One)
  <2>1. NoQuota.group[k] = Zero
    BY <1>1
  <2>2. Split(<<>>, OfGroup(k), One) = Zero
    BY <1>7
  <2>. QED
    BY <1>1, <2>1, <2>2
<1>13. ASSUME NEW k \in Blobs PROVE NoQuota.blob[k].references = Split(NoQuota.reservations, OfBlob(k), One)
  <2>1. NoQuota.blob[k] = BlobUsage
    BY <1>1
  <2>2. Split(<<>>, OfBlob(k), One) = Zero
    BY <1>7
  <2>. QED
    BY <1>1, <1>2, <2>1, <2>2
<1>14. Live(NoQuota) = {}
  BY <1>1 DEF Live
<1>15. Counted(NoQuota)
  BY <1>10, <1>11, <1>12, <1>13, <1>14 DEF Counted
<1>. QED
  BY <1>4, <1>15 DEF Sound

-----------------------------------------------------------------------------
(* Limits: totals rise only by what was admitted.                          *)

(* What each operation on a counter does to its total. *)
LEMMA TotalsMove ==
    ASSUME NEW n \in Values, NEW w \in Nat
    PROVE  /\ Total(n) \in Nat
           /\ Total(reserved_add(n, w)) = Total(n) + w
           /\ Total(move_value(n, w)) <= Total(n)
           /\ \A m : Total(move_first(n, m, w)) <= Total(n)
           /\ \A s : Total(subtract_value(n, s, w)) <= Total(n)
           /\ \A m, s : Total(rebalance_or_remove(n, m, s, w)) <= Total(n)
<1>1. Total(n) \in Nat /\ Total(reserved_add(n, w)) = Total(n) + w /\ Total(move_value(n, w)) = Total(n)
  BY SMT DEF Values, Total, reserved_add, move_value
<1>2. ASSUME NEW s PROVE Total(subtract_value(n, s, w)) <= Total(n)
  BY SMT DEF Values, Total, subtract_value
<1>3. Total([committed |-> n.committed - w, reserved |-> n.reserved + w]) = Total(n)
  BY SMT DEF Values, Total
<1>4. Total(n) <= Total(n)
  BY <1>1, SMT
<1>5. \A m : Total(move_first(n, m, w)) <= Total(n)
  BY <1>1, <1>4 DEF move_first
<1>6. \A m, s : Total(rebalance_or_remove(n, m, s, w)) <= Total(n)
  BY <1>2, <1>3, <1>4 DEF rebalance_or_remove
<1>. QED
  BY <1>1, <1>2, <1>4, <1>5, <1>6

(* A total under a limit stays under it when it does not rise. *)
Bounded(n, limit) == limit = None \/ Total(n) <= limit
Falls(n, m) == Total(m) \in Nat /\ Total(n) \in Nat /\ Total(m) <= Total(n)

(* What falls stays within its limit. *)
LEMMA BoundedFalls ==
    ASSUME NEW n, NEW m, Falls(n, m), NEW limit \in Nat \cup {None}, Bounded(n, limit)
    PROVE  Bounded(m, limit)
<1>1. CASE limit = None
  BY <1>1 DEF Bounded
<1>2. CASE limit # None
  <2>1. limit \in Nat /\ Total(n) <= limit
    BY <1>2 DEF Bounded
  <2>2. Total(m) <= limit
    BY <2>1, SMT DEF Falls
  <2>. QED
    BY <2>2 DEF Bounded
<1>. QED
  BY <1>1, <1>2

(* A total that is no larger fell. *)
LEMMA FallsBack ==
    ASSUME NEW n \in Values, NEW m \in Values, Total(m) <= Total(n) PROVE Falls(n, m)
BY SMT DEF Values, Falls, Total

(* The limits on a repository's row, and on the row of one of its resources. *)
UsageCapped(u, r) ==
    /\ Bounded(u.artifact_bytes, MaxU64) /\ Bounded(u.accounted_bytes, MaxU64) /\ Bounded(u.resources, MaxU64)
    /\ ~Limits[r].audit => /\ Bounded(u.accounted_bytes, Limits[r].max_accounted_bytes)
                           /\ Bounded(u.resources, Limits[r].max_resources)
ResourceCapped(e, r) ==
    /\ Bounded(e.artifact_bytes, MaxU64) /\ Bounded(e.groups, MaxU64)
    /\ ~Limits[r].audit => Bounded(e.groups, Limits[r].max_groups_per_resource)

UsageFalls(u, v) ==
    /\ Falls(u.artifact_bytes, v.artifact_bytes) /\ Falls(u.accounted_bytes, v.accounted_bytes)
    /\ Falls(u.resources, v.resources)
ResourceFalls(e, f) == Falls(e.artifact_bytes, f.artifact_bytes) /\ Falls(e.groups, f.groups)

(* Rows that fall stay within the limits. *)
LEMMA CappedFalls ==
    ASSUME NEW r \in Repositories
    PROVE  /\ \A u, v : UsageCapped(u, r) /\ UsageFalls(u, v) => UsageCapped(v, r)
           /\ \A e, f : ResourceCapped(e, r) /\ ResourceFalls(e, f) => ResourceCapped(f, r)
<1>1. /\ MaxU64 \in Nat \cup {None} /\ Limits[r].max_accounted_bytes \in Nat \cup {None}
      /\ Limits[r].max_resources \in Nat \cup {None} /\ Limits[r].max_groups_per_resource \in Nat \cup {None}
  BY LimitAssumption
<1>2. ASSUME NEW u, NEW v, UsageCapped(u, r), UsageFalls(u, v) PROVE UsageCapped(v, r)
  <2>1. /\ Bounded(v.artifact_bytes, MaxU64) /\ Bounded(v.accounted_bytes, MaxU64) /\ Bounded(v.resources, MaxU64)
    BY <1>1, <1>2, BoundedFalls DEF UsageCapped, UsageFalls
  <2>2. ASSUME ~Limits[r].audit
        PROVE  /\ Bounded(v.accounted_bytes, Limits[r].max_accounted_bytes)
               /\ Bounded(v.resources, Limits[r].max_resources)
    BY <1>1, <1>2, <2>2, BoundedFalls DEF UsageCapped, UsageFalls
  <2>. QED
    BY <2>1, <2>2 DEF UsageCapped
<1>3. ASSUME NEW e, NEW f, ResourceCapped(e, r), ResourceFalls(e, f) PROVE ResourceCapped(f, r)
  <2>1. Bounded(f.artifact_bytes, MaxU64) /\ Bounded(f.groups, MaxU64)
    BY <1>1, <1>3, BoundedFalls DEF ResourceCapped, ResourceFalls
  <2>2. ASSUME ~Limits[r].audit PROVE Bounded(f.groups, Limits[r].max_groups_per_resource)
    BY <1>1, <1>3, <2>2, BoundedFalls DEF ResourceCapped, ResourceFalls
  <2>. QED
    BY <2>1, <2>2 DEF ResourceCapped
<1>. QED
  BY <1>2, <1>3

(* A reservation that is admitted leaves room. *)
Room(c, n, w, limit) == c => ~Over(limit, Total(n) + w)

(* What was admitted fits. *)
LEMMA RoomLeft ==
    ASSUME NEW n \in Values, NEW w \in Nat, NEW c \in BOOLEAN, NEW limit \in Nat \cup {None},
           Bounded(n, limit), Room(c, n, w, limit)
    PROVE  Bounded(reserved_add(n, If(c, w)), limit)
<1>1. CASE limit = None
  BY <1>1 DEF Bounded
<1>2. CASE limit # None
  <2>1. limit \in Nat /\ Total(n) <= limit /\ (c => ~(Total(n) + w > limit))
    BY <1>2 DEF Bounded, Over, Room
  <2>2. If(c, w) \in Nat /\ (~c => If(c, w) = 0) /\ (c => If(c, w) = w)
    BY SMT DEF If
  <2>3. Total(reserved_add(n, If(c, w))) = Total(n) + If(c, w) /\ Total(n) \in Nat
    BY <2>2, TotalsMove
  <2>4. Total(reserved_add(n, If(c, w))) <= limit
    BY <2>1, <2>2, <2>3, SMTT(30)
  <2>. QED
    BY <2>4 DEF Bounded
<1>. QED
  BY <1>1, <1>2

UsageTyped(u) == u.artifact_bytes \in Values /\ u.accounted_bytes \in Values /\ u.resources \in Values
ResourceTyped(e) == e.references \in Values /\ e.artifact_bytes \in Values /\ e.groups \in Values

(* The rows of a sound ledger hold naturals. *)
LEMMA SoundTypes ==
    ASSUME NEW L, Sound(L)
    PROVE  /\ \A r \in Repositories : UsageTyped(L.usage[r])
           /\ \A k \in Resources : ResourceTyped(L.resource[k])
<1>1. RowsOK(L.reservations) /\ Sized(L.reservations, Sizes(L))
  BY SoundSizes DEF Sound, Shape
<1>2. /\ \A r : UsageIs(UsageOf(L.reservations, r), L.reservations, r)
      /\ \A k : ResourceIs(ResourceOf(L.reservations, k), L.reservations, k)
  BY RowFields
<1>3. /\ \A r \in Repositories : UsageIs(L.usage[r], L.reservations, r)
      /\ \A k \in Resources : ResourceIs(L.resource[k], L.reservations, k)
  BY <1>2 DEF Sound, Counted
<1>4. ASSUME NEW r \in Repositories PROVE UsageTyped(L.usage[r])
  BY <1>1, <1>3, RowTypes DEF UsageIs, UsageTyped
<1>5. ASSUME NEW k \in Resources PROVE ResourceTyped(L.resource[k])
  BY <1>1, <1>3, RowTypes DEF ResourceIs, ResourceTyped
<1>. QED
  BY <1>4, <1>5

(* Every total is within the counter's range and the enforced limits. *)
Capped(L) ==
    /\ \A r \in Repositories : UsageCapped(L.usage[r], r)
    /\ \A k \in Resources : ResourceCapped(L.resource[k], k[1])

(* The rows of the request are within the limits; the others stay. *)
LEMMA CappedAfter ==
    ASSUME NEW L, Shape(L), Capped(L), NEW R, NEW q \in Requests, NEW u, NEW e, NEW g, NEW b,
           Rewritten(L, R, q, u, e, g, b), UsageCapped(u, q.repository),
           q.resource # None => ResourceCapped(e, q.repository)
    PROVE  Capped(R)
<1>1. /\ \A r \in Repositories : R.usage[r] = IF r = q.repository THEN u ELSE L.usage[r]
      /\ \A k \in Resources : R.resource[k] = IF k = ResourceKey(q) THEN e ELSE L.resource[k]
  BY DEF Rewritten, Shape
<1>2. ASSUME NEW r \in Repositories PROVE UsageCapped(R.usage[r], r)
  <2>1. CASE r = q.repository
    BY <1>1, <2>1
  <2>2. CASE r # q.repository
    BY <1>1, <2>2 DEF Capped
  <2>. QED
    BY <2>1, <2>2
<1>3. ASSUME NEW k \in Resources PROVE ResourceCapped(R.resource[k], k[1])
  <2>1. CASE k = ResourceKey(q)
    <3>1. k[1] = q.repository
      BY <2>1, SMT DEF ResourceKey
    <3>2. q.resource # None
      BY <2>1, KeysNamed
    <3>. QED
      BY <1>1, <2>1, <3>1, <3>2
  <2>2. CASE k # ResourceKey(q)
    BY <1>1, <2>2 DEF Capped
  <2>. QED
    BY <2>1, <2>2
<1>. QED
  BY <1>2, <1>3 DEF Capped

(* A resource belongs to the repository of its request. *)
LEMMA ResourceRepository ==
    ASSUME NEW q \in Requests
    PROVE  ResourceKey(q)[1] = q.repository
BY SMT DEF ResourceKey

(* Rows whose totals do not rise stay within their limits. *)
LEMMA CappedFallen ==
    ASSUME NEW L, Sound(L), Capped(L), NEW R, Sound(R), NEW q \in Requests, NEW u, NEW e, NEW g, NEW b,
           Rewritten(L, R, q, u, e, g, b),
           UsageTyped(L.usage[q.repository]) /\ UsageTyped(u) => UsageFalls(L.usage[q.repository], u),
           q.resource # None /\ ResourceTyped(L.resource[ResourceKey(q)]) /\ ResourceTyped(e) =>
             ResourceFalls(L.resource[ResourceKey(q)], e)
    PROVE  Capped(R)
<1>1. Shape(L) /\ q.repository \in Repositories /\ (q.resource # None => ResourceKey(q) \in Resources)
  BY Keys DEF Sound
<1>2. /\ R.usage[q.repository] = u
      /\ q.resource # None => R.resource[ResourceKey(q)] = e
  BY <1>1 DEF Rewritten, Shape
<1>3. UsageCapped(u, q.repository)
  <2>1. UsageTyped(L.usage[q.repository]) /\ UsageTyped(u)
    BY <1>1, <1>2, SoundTypes
  <2>2. UsageCapped(L.usage[q.repository], q.repository)
    BY <1>1 DEF Capped
  <2>. QED
    BY <1>1, <2>1, <2>2, CappedFalls
<1>4. ASSUME q.resource # None PROVE ResourceCapped(e, q.repository)
  <2>1. ResourceTyped(L.resource[ResourceKey(q)]) /\ ResourceTyped(e)
    BY <1>1, <1>2, <1>4, SoundTypes
  <2>2. ResourceCapped(L.resource[ResourceKey(q)], q.repository)
    BY <1>1, <1>4, ResourceRepository DEF Capped
  <2>3. ResourceFalls(L.resource[ResourceKey(q)], e)
    BY <1>4, <2>1
  <2>. QED
    BY <1>1, <2>2, <2>3, CappedFalls
<1>. QED
  BY <1>1, <1>3, <1>4, CappedAfter

(* Committing raises no total. *)
LEMMA CommitCapped ==
    ASSUME NEW L, Sound(L), Capped(L), NEW id PROVE Capped(commit_reservation(L, id))
<1>. DEFINE R == commit_reservation(L, id)
            q == L.reservations[id].request
<1>1. CASE id \notin Pending(L)
  BY <1>1 DEF commit_reservation
<1>2. CASE id \in Pending(L)
  <2>1. Sound(R)
    BY CommitSound
  <2>2. Shape(L) /\ q \in Requests
    BY <1>2, RowRequests DEF Sound, Shape, Pending, InState, Live
  <2>3. Rewritten(L, R, q, UsageMoved(L, q), ResourceMoved(L, q),
                  move_value(L.group[GroupKey(q)], 1), BlobMoved(L, q))
    BY <1>2, <2>2, CommitTables
  <2>4. q.bytes \in Nat /\ 1 \in Nat
    BY <2>2, BytesWeigh
  <2>. HIDE DEF R, q
  <2>5. ASSUME UsageTyped(L.usage[q.repository]), UsageTyped(UsageMoved(L, q))
        PROVE  UsageFalls(L.usage[q.repository], UsageMoved(L, q))
    <3>. DEFINE u == L.usage[q.repository]
                v == UsageMoved(L, q)
    <3>1. /\ v.artifact_bytes = move_value(u.artifact_bytes, q.bytes)
          /\ v.accounted_bytes = move_first(u.accounted_bytes, L.blob[BlobKey(q)].references, q.bytes)
          /\ v.resources = IF q.resource = None THEN u.resources
                           ELSE move_first(u.resources, L.resource[ResourceKey(q)].references, 1)
      BY DEF UsageMoved
    <3>2. u.resources \in Values => Total(u.resources) <= Total(u.resources)
      BY SMT DEF Values, Total
    <3>. HIDE DEF u, v
    <3>3. /\ u.artifact_bytes \in Values /\ u.accounted_bytes \in Values /\ u.resources \in Values
          /\ v.artifact_bytes \in Values /\ v.accounted_bytes \in Values /\ v.resources \in Values
      BY <2>5 DEF UsageTyped, u, v
    <3>4. Total(v.artifact_bytes) <= Total(u.artifact_bytes)
      BY <2>4, <3>1, <3>3, TotalsMove
    <3>5. Total(v.accounted_bytes) <= Total(u.accounted_bytes)
      BY <2>4, <3>1, <3>3, TotalsMove
    <3>6. Total(v.resources) <= Total(u.resources)
      BY <2>4, <3>1, <3>2, <3>3, TotalsMove
    <3>. QED
      BY <3>3, <3>4, <3>5, <3>6, FallsBack DEF UsageFalls, u, v
  <2>6. ASSUME ResourceTyped(L.resource[ResourceKey(q)]), ResourceTyped(ResourceMoved(L, q))
        PROVE  ResourceFalls(L.resource[ResourceKey(q)], ResourceMoved(L, q))
    <3>. DEFINE u == L.resource[ResourceKey(q)]
                v == ResourceMoved(L, q)
    <3>1. /\ v.artifact_bytes = IF q.max_resource_artifact_bytes = None THEN u.artifact_bytes
                                ELSE move_value(u.artifact_bytes, q.bytes)
          /\ v.groups = IF q.group = None THEN u.groups ELSE move_first(u.groups, L.group[GroupKey(q)], 1)
      BY DEF ResourceMoved
    <3>2. \A n \in Values : Total(n) <= Total(n)
      BY SMT DEF Values, Total
    <3>. HIDE DEF u, v
    <3>3. /\ u.artifact_bytes \in Values /\ u.groups \in Values
          /\ v.artifact_bytes \in Values /\ v.groups \in Values
      BY <2>6 DEF ResourceTyped, u, v
    <3>4. Total(v.artifact_bytes) <= Total(u.artifact_bytes)
      BY <2>4, <3>1, <3>2, <3>3, TotalsMove
    <3>5. Total(v.groups) <= Total(u.groups)
      BY <2>4, <3>1, <3>2, <3>3, TotalsMove
    <3>. QED
      BY <3>3, <3>4, <3>5, FallsBack DEF ResourceFalls, u, v
  <2>7. Capped(R)
    BY <2>1, <2>2, <2>3, <2>5, <2>6, CappedFallen
  <2>. QED
    BY <2>7 DEF R
<1>. QED
  BY <1>1, <1>2

(* Releasing raises no total. *)
LEMMA ReleaseCapped ==
    ASSUME NEW L, Sound(L), Capped(L), NEW id PROVE Capped(release(L, id))
<1>. DEFINE R == release(L, id)
            q == L.reservations[id].request
            s == L.reservations[id].state
<1>1. CASE id \notin Live(L)
  BY <1>1 DEF release
<1>2. CASE id \in Live(L)
  <2>1. Sound(R)
    BY ReleaseSound
  <2>2. Shape(L) /\ q \in Requests
    BY <1>2, RowRequests DEF Sound, Shape, Live
  <2>3. Rewritten(L, R, q, UsageDropped(L, q, s), ResourceDropped(L, q, s),
                  GroupLeft(L, q, s), BlobDropped(L, q, s))
    BY <1>2, <2>2, ReleaseTables
  <2>4. q.bytes \in Nat /\ 1 \in Nat
    BY <2>2, BytesWeigh
  <2>. HIDE DEF R, q, s
  <2>5. ASSUME UsageTyped(L.usage[q.repository]), UsageTyped(UsageDropped(L, q, s))
        PROVE  UsageFalls(L.usage[q.repository], UsageDropped(L, q, s))
    <3>. DEFINE u == L.usage[q.repository]
                v == UsageDropped(L, q, s)
    <3>1. /\ v.artifact_bytes = subtract_value(u.artifact_bytes, s, q.bytes)
          /\ v.accounted_bytes = rebalance_or_remove(u.accounted_bytes, BlobLeft(L, q, s), s, q.bytes)
          /\ v.resources = IF q.resource = None THEN u.resources
                           ELSE rebalance_or_remove(u.resources, ResourceLeft(L, q, s), s, 1)
      BY DEF UsageDropped
    <3>2. u.resources \in Values => Total(u.resources) <= Total(u.resources)
      BY SMT DEF Values, Total
    <3>. HIDE DEF u, v
    <3>3. /\ u.artifact_bytes \in Values /\ u.accounted_bytes \in Values /\ u.resources \in Values
          /\ v.artifact_bytes \in Values /\ v.accounted_bytes \in Values /\ v.resources \in Values
      BY <2>5 DEF UsageTyped, u, v
    <3>4. Total(v.artifact_bytes) <= Total(u.artifact_bytes)
      BY <2>4, <3>1, <3>3, TotalsMove
    <3>7. /\ Total(rebalance_or_remove(u.accounted_bytes, BlobLeft(L, q, s), s, q.bytes))
               <= Total(u.accounted_bytes)
          /\ Total(rebalance_or_remove(u.resources, ResourceLeft(L, q, s), s, 1)) <= Total(u.resources)
      BY <2>4, <3>3, TotalsMove
    <3>5. Total(v.accounted_bytes) <= Total(u.accounted_bytes)
      BY <3>1, <3>7
    <3>6. Total(v.resources) <= Total(u.resources)
      BY <3>1, <3>2, <3>3, <3>7
    <3>. QED
      BY <3>3, <3>4, <3>5, <3>6, FallsBack DEF UsageFalls, u, v
  <2>6. ASSUME ResourceTyped(L.resource[ResourceKey(q)]), ResourceTyped(ResourceDropped(L, q, s))
        PROVE  ResourceFalls(L.resource[ResourceKey(q)], ResourceDropped(L, q, s))
    <3>. DEFINE u == L.resource[ResourceKey(q)]
                v == ResourceDropped(L, q, s)
    <3>1. CASE Total(ResourceLeft(L, q, s)) = 0
      <4>. DEFINE row == [references |-> ResourceLeft(L, q, s),
                          artifact_bytes |-> IF q.max_resource_artifact_bytes = None THEN u.artifact_bytes
                                             ELSE subtract_value(u.artifact_bytes, s, q.bytes),
                          groups |-> IF q.group = None THEN u.groups
                                     ELSE rebalance_or_remove(u.groups, GroupLeft(L, q, s), s, 1)]
      <4>4. v = KeepIf(ResourceLeft(L, q, s), row, ResourceUsage)
        BY DEF ResourceDropped
      <4>. HIDE DEF row, v
      <4>1. v = ResourceUsage
        BY <3>1, <4>4 DEF KeepIf
      <4>2. v.artifact_bytes = Zero /\ v.groups = Zero
        BY <4>1 DEF ResourceUsage
      <4>3. \A n \in Values : Falls(n, Zero)
        BY SMT DEF Values, Total, Zero, Falls
      <4>. QED
        BY <2>6, <4>2, <4>3 DEF ResourceFalls, ResourceTyped, v
    <3>2. CASE Total(ResourceLeft(L, q, s)) # 0
      <4>1. /\ v.artifact_bytes = IF q.max_resource_artifact_bytes = None THEN u.artifact_bytes
                                  ELSE subtract_value(u.artifact_bytes, s, q.bytes)
            /\ v.groups = IF q.group = None THEN u.groups
                          ELSE rebalance_or_remove(u.groups, GroupLeft(L, q, s), s, 1)
        BY <3>2 DEF ResourceDropped, KeepIf
      <4>2. \A n \in Values : Total(n) <= Total(n)
        BY SMT DEF Values, Total
      <4>. HIDE DEF u, v
      <4>3. /\ u.artifact_bytes \in Values /\ u.groups \in Values
            /\ v.artifact_bytes \in Values /\ v.groups \in Values
        BY <2>6 DEF ResourceTyped, u, v
      <4>4. Total(v.artifact_bytes) <= Total(u.artifact_bytes)
        BY <2>4, <4>1, <4>2, <4>3, TotalsMove
      <4>5. Total(v.groups) <= Total(u.groups)
        BY <2>4, <4>1, <4>2, <4>3, TotalsMove, ZenonT(60)
      <4>. QED
        BY <4>3, <4>4, <4>5, FallsBack DEF ResourceFalls, u, v
    <3>. QED
      BY <3>1, <3>2
  <2>7. Capped(R)
    BY <2>1, <2>2, <2>3, <2>5, <2>6, CappedFallen
  <2>. QED
    BY <2>7 DEF R
<1>. QED
  BY <1>1, <1>2

(* A checked addition fits the counter. *)
LEMMA FittingAdds ==
    ASSUME NEW n \in Values, NEW w \in Nat, ensure_total_add(n, w)
    PROVE  ~Over(MaxU64, Total(n) + w) /\ Bounded(reserved_add(n, w), MaxU64)
<1>1. MaxU64 \in Nat
  BY LimitAssumption
<1>2. Total(reserved_add(n, w)) = Total(n) + w /\ Total(n) \in Nat
  BY TotalsMove
<1>3. Total(n) + w <= MaxU64 /\ ~(Total(n) + w > MaxU64)
  BY <1>1, <1>2, SMTT(30) DEF ensure_total_add
<1>. QED
  BY <1>2, <1>3 DEF Over, Bounded

(* reserve_quota_inner admits only what leaves every total in its bounds. *)
LEMMA ReserveCapped ==
    ASSUME NEW L, Sound(L), Capped(L), NEW id \in Ids, id \notin Live(L), NEW q \in Requests, Admits(L, q)
    PROVE  Capped(reserve_quota(L, id, q))
<1>. DEFINE R == reserve_quota(L, id, q)
            u == L.usage[q.repository]
            e == L.resource[ResourceKey(q)]
            limits == Limits[q.repository]
            a == adds(L, q)
<1>1. /\ Shape(L) /\ q.repository \in Repositories /\ q.bytes \in Nat /\ 1 \in Nat
      /\ q.resource # None => ResourceKey(q) \in Resources
  BY Keys, BytesWeigh DEF Sound
<1>2. Rewritten(L, R, q, UsageReserved(L, q), ResourceReserved(L, q),
                reserved_add(L.group[GroupKey(q)], 1), BlobReserved(L, q))
  BY <1>1, ReserveTables
<1>3. /\ MaxU64 \in Nat \cup {None} /\ limits.max_accounted_bytes \in Nat \cup {None}
      /\ limits.max_resources \in Nat \cup {None} /\ limits.max_groups_per_resource \in Nat \cup {None}
  BY <1>1, LimitAssumption
<1>4. a.accounted_bytes \in BOOLEAN /\ a.resource \in BOOLEAN /\ a.group \in BOOLEAN
  BY DEF adds
<1>5. /\ ensure_total_add(u.artifact_bytes, q.bytes)
      /\ q.max_resource_artifact_bytes # None => ensure_total_add(e.artifact_bytes, q.bytes)
      /\ a.accounted_bytes => ensure_total_add(u.accounted_bytes, q.bytes)
      /\ a.resource => ensure_total_add(u.resources, 1)
      /\ a.group => ensure_total_add(e.groups, 1)
  BY DEF Admits, Fits
<1>6. ASSUME ~limits.audit
      PROVE  /\ a.accounted_bytes => ~Over(limits.max_accounted_bytes, Total(u.accounted_bytes) + q.bytes)
             /\ a.resource => ~Over(limits.max_resources, Total(u.resources) + 1)
             /\ a.group => ~Over(limits.max_groups_per_resource, Total(e.groups) + 1)
  BY <1>6 DEF Admits, Violates
<1>7. UsageTyped(u) /\ UsageCapped(u, q.repository)
  BY <1>1, SoundTypes DEF Capped
<1>8. ASSUME q.resource # None PROVE ResourceTyped(e) /\ ResourceCapped(e, q.repository)
  BY <1>1, <1>8, SoundTypes, ResourceRepository DEF Capped
<1>9. UsageCapped(UsageReserved(L, q), q.repository)
  <2>. DEFINE v == UsageReserved(L, q)
  <2>1. /\ v.artifact_bytes = reserved_add(u.artifact_bytes, q.bytes)
        /\ v.accounted_bytes = reserved_add(u.accounted_bytes, If(a.accounted_bytes, q.bytes))
        /\ v.resources = reserved_add(u.resources, If(a.resource, 1))
    BY DEF UsageReserved
  <2>2. /\ u.artifact_bytes \in Values /\ u.accounted_bytes \in Values /\ u.resources \in Values
        /\ Bounded(u.accounted_bytes, MaxU64) /\ Bounded(u.resources, MaxU64)
        /\ ~limits.audit => /\ Bounded(u.accounted_bytes, limits.max_accounted_bytes)
                            /\ Bounded(u.resources, limits.max_resources)
    BY <1>7 DEF UsageTyped, UsageCapped
  <2>. HIDE DEF u, v, a, e, limits
  <2>3. Bounded(v.artifact_bytes, MaxU64)
    BY <1>1, <1>5, <2>1, <2>2, FittingAdds
  <2>4. /\ Room(a.accounted_bytes, u.accounted_bytes, q.bytes, MaxU64)
        /\ Room(a.resource, u.resources, 1, MaxU64)
    BY <1>1, <1>5, <2>2, FittingAdds DEF Room
  <2>9. ~limits.audit => /\ Room(a.accounted_bytes, u.accounted_bytes, q.bytes, limits.max_accounted_bytes)
                         /\ Room(a.resource, u.resources, 1, limits.max_resources)
    BY <1>6 DEF Room
  <2>5. ASSUME NEW limit \in Nat \cup {None}, Bounded(u.accounted_bytes, limit),
               Room(a.accounted_bytes, u.accounted_bytes, q.bytes, limit)
        PROVE  Bounded(v.accounted_bytes, limit)
    <3>1. u.accounted_bytes \in Values /\ a.accounted_bytes \in BOOLEAN /\ q.bytes \in Nat
      BY <1>1, <1>4, <2>2
    <3>2. Bounded(reserved_add(u.accounted_bytes, If(a.accounted_bytes, q.bytes)), limit)
      BY <2>5, <3>1, RoomLeft
    <3>. QED
      BY <2>1, <3>2
  <2>6. ASSUME NEW limit \in Nat \cup {None}, Bounded(u.resources, limit),
               Room(a.resource, u.resources, 1, limit)
        PROVE  Bounded(v.resources, limit)
    <3>1. u.resources \in Values /\ a.resource \in BOOLEAN /\ 1 \in Nat
      BY <1>1, <1>4, <2>2
    <3>2. Bounded(reserved_add(u.resources, If(a.resource, 1)), limit)
      BY <2>6, <3>1, RoomLeft
    <3>. QED
      BY <2>1, <3>2
  <2>7. Bounded(v.accounted_bytes, MaxU64) /\ Bounded(v.resources, MaxU64)
    BY <1>3, <2>2, <2>4, <2>5, <2>6
  <2>8. ASSUME ~limits.audit
        PROVE  /\ Bounded(v.accounted_bytes, limits.max_accounted_bytes)
               /\ Bounded(v.resources, limits.max_resources)
    BY <1>3, <2>2, <2>5, <2>6, <2>8, <2>9
  <2>. QED
    BY <2>3, <2>7, <2>8 DEF UsageCapped, v, limits
<1>10. ASSUME q.resource # None PROVE ResourceCapped(ResourceReserved(L, q), q.repository)
  <2>. DEFINE v == ResourceReserved(L, q)
              c == q.max_resource_artifact_bytes # None
  <2>1. /\ v.artifact_bytes = reserved_add(e.artifact_bytes, If(c, q.bytes))
        /\ v.groups = reserved_add(e.groups, If(a.group, 1))
        /\ c \in BOOLEAN
    BY DEF ResourceReserved
  <2>2. /\ e.artifact_bytes \in Values /\ e.groups \in Values
        /\ Bounded(e.artifact_bytes, MaxU64) /\ Bounded(e.groups, MaxU64)
        /\ ~limits.audit => Bounded(e.groups, limits.max_groups_per_resource)
    BY <1>8, <1>10 DEF ResourceTyped, ResourceCapped
  <2>. HIDE DEF u, v, a, e, limits
  <2>3. /\ Room(c, e.artifact_bytes, q.bytes, MaxU64) /\ Room(a.group, e.groups, 1, MaxU64)
        /\ ~limits.audit => Room(a.group, e.groups, 1, limits.max_groups_per_resource)
    BY <1>1, <1>5, <1>6, <2>2, FittingAdds DEF Room
  <2>. HIDE DEF c
  <2>4. Bounded(v.artifact_bytes, MaxU64)
    BY <1>1, <1>3, <2>1, <2>2, <2>3, RoomLeft
  <2>5. Bounded(v.groups, MaxU64)
    BY <1>1, <1>3, <1>4, <2>1, <2>2, <2>3, RoomLeft, ZenonT(60)
  <2>6. ASSUME ~limits.audit PROVE Bounded(v.groups, limits.max_groups_per_resource)
    BY <1>1, <1>3, <1>4, <2>1, <2>2, <2>3, <2>6, RoomLeft, ZenonT(60)
  <2>. QED
    BY <2>4, <2>5, <2>6 DEF ResourceCapped, v, limits
<1>11. Capped(R)
  BY <1>1, <1>2, <1>9, <1>10, CappedAfter
<1>. QED
  BY <1>11 DEF R

(* Nothing is within every limit. *)
LEMMA CappedAtFirst == Capped(NoQuota)
<1>1. /\ \A r \in Repositories : NoQuota.usage[r] = QuotaUsage
      /\ \A k \in Resources : NoQuota.resource[k] = ResourceUsage
  BY DEF NoQuota
<1>2. \A r \in Repositories :
        Bounded(Zero, MaxU64) /\ Bounded(Zero, Limits[r].max_accounted_bytes)
        /\ Bounded(Zero, Limits[r].max_resources) /\ Bounded(Zero, Limits[r].max_groups_per_resource)
  <2>1. Total(Zero) = 0 /\ \A n \in Nat : 0 <= n
    BY SMT DEF Zero, Total
  <2>2. \A n \in Nat \cup {None} : Bounded(Zero, n)
    BY <2>1 DEF Bounded
  <2>. QED
    BY <2>2, LimitAssumption
<1>3. /\ QuotaUsage.artifact_bytes = Zero /\ QuotaUsage.accounted_bytes = Zero /\ QuotaUsage.resources = Zero
      /\ ResourceUsage.artifact_bytes = Zero /\ ResourceUsage.groups = Zero
  BY DEF QuotaUsage, ResourceUsage
<1>4. ASSUME NEW r \in Repositories PROVE UsageCapped(NoQuota.usage[r], r)
  BY <1>1, <1>2, <1>3 DEF UsageCapped
<1>5. ASSUME NEW k \in Resources PROVE ResourceCapped(NoQuota.resource[k], k[1])
  <2>1. k[1] \in Repositories
    BY SMT DEF Resources, Repositories
  <2>. QED
    BY <1>1, <1>2, <1>3, <2>1 DEF ResourceCapped
<1>. QED
  BY <1>4, <1>5 DEF Capped

-----------------------------------------------------------------------------
(* The invariant and the theorems.                                         *)

(***************************************************************************)
(* The inductive invariant: the tables have their shape and the counters   *)
(* are what a scan would count, every total is within its bounds, and the  *)
(* deletion index names committed reservations.                            *)
(***************************************************************************)
Ledger(L) == Sound(L) /\ Capped(L) /\ Allocated(L)

(* The empty ledger satisfies the invariant. *)
LEMMA LedgerAtFirst == Ledger(NoQuota)
<1>1. DOMAIN NoQuota.allocation = {}
  BY SMT DEF NoQuota
<1>2. Allocated(NoQuota)
  BY <1>1 DEF Allocated
<1>. QED
  BY <1>2, SoundAtFirst, CappedAtFirst DEF Ledger

(* Reserving keeps the invariant. *)
LEMMA ReserveKeeps ==
    ASSUME NEW L, Ledger(L), NEW id \in Ids, id \notin Live(L), NEW q \in Requests, Admits(L, q)
    PROVE  Ledger(reserve_quota(L, id, q))
<1>1. SameSize(L, q)
  BY DEF Admits, SameSize
<1>. QED
  BY <1>1, ReserveSound, ReserveCapped, ReserveAllocated DEF Ledger, Sound

(* Committing keeps it. *)
LEMMA CommitKeeps ==
    ASSUME NEW L, Ledger(L), NEW id PROVE Ledger(commit_reservation(L, id))
BY CommitSound, CommitCapped, CommitAllocated DEF Ledger, Sound

(* Releasing keeps it. *)
LEMMA ReleaseKeeps ==
    ASSUME NEW L, Ledger(L), NEW id PROVE Ledger(release(L, id))
BY ReleaseSound, ReleaseCapped, ReleaseAllocated DEF Ledger, Sound

-----------------------------------------------------------------------------
(* The run of one settlement.                                              *)

(* The ledger between the settlements of one transaction. *)
Run(L, order, committed, m, g) ==
    g = [n \in 0..m |->
          IF n = 0 THEN L ELSE settle_reservation(g[n - 1], order[n], order[n] \in committed)]

(* A settlement is the last ledger of a run. *)
LEMMA SettleRuns ==
    ASSUME NEW L, NEW order, Len(order) \in Nat, NEW committed
    PROVE  \E g : /\ Run(L, order, committed, Len(order), g)
                  /\ settle_reservations(L, order, committed) = g[Len(order)]
<1>. DEFINE step(M, n) == settle_reservation(M, order[n], order[n] \in committed)
            Bad == {m \in Nat : ~ \E g : Run(L, order, committed, m, g)}
<1>1. Bad = {}
  <2>. SUFFICES ASSUME Bad # {} PROVE FALSE
    BY SMT
  <2>1. PICK m \in Bad : \A n \in Bad : m <= n
    BY LeastNumber
  <2>2. Run(L, order, committed, 0, [n \in 0..0 |-> L])
    BY SMT DEF Run
  <2>3. m \in Nat /\ m # 0
    BY <2>2
  <2>4. m - 1 \in Nat /\ ~(m <= m - 1)
    BY <2>3, SMT
  <2>5. m - 1 \notin Bad
    BY <2>1, <2>4
  <2>6. PICK g : Run(L, order, committed, m - 1, g)
    BY <2>4, <2>5
  <2>. DEFINE h == [n \in 0..m |-> IF n = m THEN step(g[m - 1], m) ELSE g[n]]
  <2>7. \A n \in 0..m : h[n] = IF n = 0 THEN L ELSE step(h[n - 1], n)
    BY <2>3, <2>6, SMT DEF Run
  <2>8. Run(L, order, committed, m, h)
    BY <2>7 DEF Run
  <2>. QED
    BY <2>8
<1>2. PICK g : Run(L, order, committed, Len(order), g)
  BY <1>1
<1>. QED
  BY <1>2 DEF settle_reservations, Run

(* What holds first and is kept from one to the next holds last. *)
LEMMA Onwards ==
    ASSUME NEW m \in Nat, NEW T, 0 \in T, \A n \in 1..m : n - 1 \in T => n \in T
    PROVE  m \in T
<1>. DEFINE Bad == {n \in 0..m : n \notin T}
<1>1. ASSUME Bad # {} PROVE FALSE
  <2>1. Bad \in SUBSET Nat
    BY SMT
  <2>2. PICK n \in Bad : \A k \in Bad : n <= k
    BY <1>1, <2>1, LeastNumber
  <2>3. n # 0
    BY <2>2
  <2>4. n \in 1..m
    BY <2>2, <2>3, SMT
  <2>5. n - 1 \in 0..m /\ ~(n <= n - 1)
    BY <2>4, SMT
  <2>6. n - 1 \in T
    BY <2>2, <2>5
  <2>. QED
    BY <2>2, <2>4, <2>6
<1>2. m \in 0..m
  BY SMT
<1>. QED
  BY <1>1, <1>2

(* The indices of a run. *)
LEMMA Indices ==
    ASSUME NEW m \in Nat PROVE 0 \in 0..m /\ \A n \in 1..m : n \in 0..m
BY SMT

StepByStep(L, order, committed, m, g) ==
    /\ g[0] = L
    /\ \A n \in 1..m : g[n] = settle_reservation(g[n - 1], order[n], order[n] \in committed)

(* Each ledger of a run is a commit or a release away from the one before. *)
LEMMA RunSteps ==
    ASSUME NEW L, NEW order, NEW committed, NEW m \in Nat, NEW g, Run(L, order, committed, m, g)
    PROVE  StepByStep(L, order, committed, m, g)
BY SMT DEF Run, StepByStep

(* The orders a settlement takes have a length. *)
LEMMA OrderLength ==
    ASSUME NEW S, IsFiniteSet(S)
    PROVE  /\ \A order \in Bijection(1..Cardinality(S), S) : Len(order) \in Nat
           /\ Len(InOrder(S)) \in Nat
<1>. DEFINE c == Cardinality(S)
<1>1. c \in Nat /\ ExistsBijection(1..c, S)
  BY FS_CardinalityType
<1>2. InOrder(S) \in Bijection(1..c, S)
  BY <1>1 DEF ExistsBijection, InOrder
<1>3. ASSUME NEW f \in Bijection(1..c, S) PROVE Len(f) \in Nat
  <2>1. f \in [1..c -> S]
    BY DEF Bijection, Injection, Surjection
  <2>. HIDE DEF c
  <2>. QED
    BY <1>1, <2>1, SMT
<1>. QED
  BY <1>2, <1>3

(* A transaction that settles any number of reservations keeps it. *)
LEMMA SettleKeeps ==
    ASSUME NEW L, Ledger(L), NEW order, Len(order) \in Nat, NEW committed
    PROVE  Ledger(settle_reservations(L, order, committed))
<1>. DEFINE m == Len(order)
<1>1. PICK g : Run(L, order, committed, m, g) /\ settle_reservations(L, order, committed) = g[m]
  BY SettleRuns
<1>2. StepByStep(L, order, committed, m, g)
  BY <1>1, RunSteps
<1>3. \A M, id, c : Ledger(M) => Ledger(settle_reservation(M, id, c))
  BY CommitKeeps, ReleaseKeeps DEF settle_reservation
<1>. DEFINE T == {n \in 0..m : Ledger(g[n])}
<1>4. 0 \in 0..m /\ \A n \in 1..m : n \in 0..m
  BY Indices
<1>5. 0 \in T /\ \A n \in 1..m : n - 1 \in T => n \in T
  BY <1>2, <1>3, <1>4 DEF StepByStep
<1>6. m \in T
  BY <1>5, Onwards
<1>. QED
  BY <1>1, <1>6

----------------------------------------------------------------------------
LedgerInv == Ledger(quota)

(* The invariant holds at first. *)
LEMMA LedgerFirst == QuotaInit => LedgerInv
BY LedgerAtFirst DEF QuotaInit, LedgerInv

(* Finitely many reservations are live. *)
LEMMA LiveFinite ==
    ASSUME NEW L, Ledger(L), NEW S \in SUBSET Live(L) PROVE IsFiniteSet(S)
<1>1. IsFiniteSet(Live(L))
  BY DEF Ledger, Sound, Shape, RowsOK, Live
<1>. QED
  BY <1>1, FS_Subset

(* Every operation keeps the invariant. *)
LEMMA LedgerNext == LedgerInv /\ [QuotaNext]_quota => LedgerInv'
<1>. SUFFICES ASSUME LedgerInv, [QuotaNext]_quota PROVE LedgerInv'
  OBVIOUS
<1>. USE DEF LedgerInv
<1>1. CASE UNCHANGED quota
  BY <1>1
<1>2. ASSUME NEW id \in Ids, NEW q \in Requests, Reserve(id, q) PROVE Ledger(quota')
  BY <1>2, ReserveKeeps DEF Reserve
<1>3. ASSUME NEW id \in Ids, commit_quota_reservation(id) PROVE Ledger(quota')
  BY <1>3, CommitKeeps DEF commit_quota_reservation
<1>4. ASSUME NEW ids \in SUBSET Pending(quota) \ {{}}, NEW order \in Bijection(1..Cardinality(ids), ids),
             NEW committed \in SUBSET ids, CommitDriverTxn(order, committed)
      PROVE  Ledger(quota')
  <2>1. ids \in SUBSET Live(quota)
    BY DEF Pending, InState
  <2>2. IsFiniteSet(ids)
    BY <2>1, LiveFinite
  <2>3. Len(order) \in Nat
    BY <2>2, OrderLength
  <2>. QED
    BY <1>4, <2>3, SettleKeeps DEF CommitDriverTxn
<1>5. ASSUME NEW id \in Ids, release_quota_reservation(id) PROVE Ledger(quota')
  BY <1>5, ReleaseKeeps DEF release_quota_reservation
<1>6. ASSUME NEW key \in DOMAIN quota.allocation, commit_driver_txn_release_allocation(key)
      PROVE  Ledger(quota')
  BY <1>6, ReleaseKeeps DEF commit_driver_txn_release_allocation, release_committed_allocation
<1>7. ASSUME NEW eligible \in SUBSET Live(quota), repair_abandoned_quota_reservations(eligible)
      PROVE  Ledger(quota')
  <2>1. IsFiniteSet(eligible)
    BY LiveFinite
  <2>2. Len(InOrder(eligible)) \in Nat
    BY <2>1, OrderLength
  <2>. QED
    BY <1>7, <2>2, SettleKeeps DEF repair_abandoned_quota_reservations
<1>8. CASE QuotaNext
  BY <1>2, <1>3, <1>4, <1>5, <1>6, <1>7, <1>8 DEF QuotaNext
<1>. QED
  BY <1>1, <1>8

(***************************************************************************)
(* After any history of reservations, commits, releases and repairs the    *)
(* ledger satisfies its inductive invariant (ReservationRows::reserve,     *)
(* transition, forget_allocation).                                         *)
(***************************************************************************)
THEOREM LedgerSafe == QuotaSpec => []LedgerInv
BY LedgerFirst, LedgerNext, PTL DEF QuotaSpec

(***************************************************************************)
(* Every running counter equals what a scan of the reservations would      *)
(* count, for any requests, limits and number of reservations (transition, *)
(* rebalance_or_remove).                                                   *)
(***************************************************************************)
THEOREM CountersExact == QuotaSpec => []CountersMatch
<1>1. LedgerInv => CountersMatch
  BY DEF LedgerInv, Ledger, Sound, CountersMatch
<1>. QED
  BY <1>1, LedgerSafe, PTL

(***************************************************************************)
(* A repository outside audit mode never holds more than its policy allows *)
(* (limit_violations).                                                     *)
(***************************************************************************)
THEOREM LimitsEnforced == QuotaSpec => []LimitsHold
<1>1. LedgerInv => LimitsHold
  <2>. SUFFICES ASSUME LedgerInv PROVE LimitsHold
    OBVIOUS
  <2>1. ASSUME NEW r \in Repositories, ~Limits[r].audit
        PROVE  /\ Within(Limits[r].max_accounted_bytes, quota.usage[r].accounted_bytes)
               /\ Within(Limits[r].max_resources, quota.usage[r].resources)
    BY <2>1 DEF LedgerInv, Ledger, Capped, UsageCapped, Bounded, Within
  <2>2. ASSUME NEW k \in Resources, ~Limits[k[1]].audit
        PROVE  Within(Limits[k[1]].max_groups_per_resource, quota.resource[k].groups)
    BY <2>2 DEF LedgerInv, Ledger, Capped, ResourceCapped, Bounded, Within
  <2>. QED
    BY <2>1, <2>2 DEF LimitsHold
<1>. QED
  BY <1>1, LedgerSafe, PTL

-----------------------------------------------------------------------------
(* Counters within a word.                                                 *)

(* Ones add up to how many there are. *)
LEMMA SumCounts ==
    ASSUME NEW f, NEW S, IsFiniteSet(S), \A x \in S : f[x] = 1
    PROVE  SumFunctionOnSet(f, S) = Cardinality(S)
<1>. DEFINE Bad == {T \in SUBSET S : SumFunctionOnSet(f, T) # Cardinality(T)}
<1>1. ASSUME Bad # {} PROVE FALSE
  <2>1. PICK T \in Bad : \A x \in T : T \ {x} \notin Bad
    BY <1>1, SmallestSubset
  <2>2. IsFiniteSet(T)
    BY FS_Subset
  <2>3. T # {}
    BY <2>1, SumEmpty, FS_EmptySet
  <2>. DEFINE c == Some(T)
  <2>4. c \in T
    BY <2>3 DEF Some
  <2>5. SumFunctionOnSet(f, T) = f[c] + SumFunctionOnSet(f, T \ {c})
    BY <2>2, <2>3, SumStep
  <2>. HIDE DEF c
  <2>6. Cardinality(T \ {c}) = Cardinality(T) - 1 /\ Cardinality(T) \in Nat
    BY <2>2, <2>4, FS_RemoveElement, FS_CardinalityType
  <2>7. f[c] = 1 /\ SumFunctionOnSet(f, T \ {c}) = Cardinality(T \ {c})
    BY <2>1, <2>4
  <2>8. SumFunctionOnSet(f, T) = Cardinality(T)
    BY <2>5, <2>6, <2>7, SMT
  <2>. QED
    BY <2>1, <2>8
<1>. QED
  BY <1>1

(* What a counter holds altogether. *)
LEMMA TotalOf ==
    ASSUME NEW c, NEW r PROVE Total([committed |-> c, reserved |-> r]) = c + r
BY DEF Total

(* Two disjoint sets within a finite one. *)
LEMMA DisjointWithin ==
    ASSUME NEW S, IsFiniteSet(S), NEW A \in SUBSET S, NEW B \in SUBSET S, A \cap B = {}
    PROVE  Cardinality(A) + Cardinality(B) <= Cardinality(S)
<1>1. IsFiniteSet(A) /\ IsFiniteSet(B) /\ A \cup B \in SUBSET S
  BY FS_Subset
<1>2. Cardinality(A \cup B) = Cardinality(A) + Cardinality(B) - Cardinality(A \cap B)
  BY <1>1, FS_Union
<1>3. Cardinality(A \cap B) = 0
  BY FS_EmptySet
<1>4. Cardinality(A \cup B) <= Cardinality(S)
  BY <1>1, FS_Subset
<1>5. Cardinality(A) \in Nat /\ Cardinality(B) \in Nat
  BY <1>1, FS_CardinalityType
<1>. QED
  BY <1>2, <1>3, <1>4, <1>5, SMT

(* The references to a resource are the live reservations that name it. *)
LEMMA ReferencesBounded ==
    ASSUME NEW rs, RowsOK(rs), IsFiniteSet(Ids), DOMAIN rs \subseteq Ids, NEW F
    PROVE  Total(Split(rs, F, One)) <= Cardinality(Ids)
<1>. DEFINE of == [id \in DOMAIN rs |-> One[rs[id].request]]
            A == Holding(rs, "committed", F)
            B == Holding(rs, "reserved", F)
<1>1. A \in SUBSET Ids /\ B \in SUBSET Ids /\ A \cap B = {} /\ IsFiniteSet(A) /\ IsFiniteSet(B)
  BY HoldingFinite, ZenonT(60) DEF Holding
<1>2. \A id \in DOMAIN rs : of[id] = 1
  BY RowRequests DEF One
<1>3. A \subseteq DOMAIN rs /\ B \subseteq DOMAIN rs
  BY DEF Holding
<1>4. Split(rs, F, One) = [committed |-> SumFunctionOnSet(of, A), reserved |-> SumFunctionOnSet(of, B)]
  BY DEF Split
<1>. HIDE DEF of, A, B
<1>5. (\A id \in A : of[id] = 1) /\ (\A id \in B : of[id] = 1)
  BY <1>2, <1>3
<1>6. SumFunctionOnSet(of, A) = Cardinality(A) /\ SumFunctionOnSet(of, B) = Cardinality(B)
  BY <1>1, <1>5, SumCounts
<1>7. Total(Split(rs, F, One)) = Cardinality(A) + Cardinality(B)
  <2>1. Total(Split(rs, F, One)) = SumFunctionOnSet(of, A) + SumFunctionOnSet(of, B)
    BY <1>4, TotalOf, ZenonT(40)
  <2>. QED
    BY <1>6, <2>1
<1>8. Cardinality(A) + Cardinality(B) <= Cardinality(Ids)
  BY <1>1, DisjointWithin
<1>. QED
  BY <1>7, <1>8

(* Transitivity, named for the provers. *)
LEMMA Between ==
    ASSUME NEW a \in Nat, NEW b \in Nat, NEW c \in Nat, a <= b, b <= c PROVE a <= c
BY SMT

(* The counters of a row. *)
LEMMA RowDomains ==
    ASSUME NEW rs
    PROVE  /\ \A r : DOMAIN UsageOf(rs, r) = {"artifact_bytes", "accounted_bytes", "resources"}
           /\ \A k : DOMAIN ResourceOf(rs, k) = {"references", "artifact_bytes", "groups"}
BY SMT DEF UsageOf, ResourceOf

(* A bounded counter fits its width. *)
LEMMA BoundedFits ==
    ASSUME NEW n, Bounded(n, MaxU64) PROVE Total(n) <= MaxU64
<1>1. MaxU64 # None
  BY LimitAssumption
<1>. QED
  BY <1>1 DEF Bounded

(***************************************************************************)
(* No counter overflows when a reservation settles, as long as no more     *)
(* reservations can be live at once than a counter counts (move_value,     *)
(* rebalance_or_remove).                                                   *)
(***************************************************************************)
THEOREM TotalsStayInRange ==
    ASSUME IsFiniteSet(Ids), Cardinality(Ids) <= MaxU64
    PROVE  QuotaSpec => []TotalsFit
<1>1. LedgerInv => TotalsFit
  <2>. SUFFICES ASSUME LedgerInv PROVE TotalsFit
    OBVIOUS
  <2>. DEFINE rs == quota.reservations
  <2>1. /\ \A r \in Repositories : quota.usage[r] = UsageOf(rs, r)
        /\ \A k \in Resources : quota.resource[k] = ResourceOf(rs, k)
        /\ RowsOK(rs) /\ DOMAIN rs \subseteq Ids
    BY DEF LedgerInv, Ledger, Sound, Shape, Counted, Live
  <2>. HIDE DEF rs
  <2>2. ASSUME NEW r \in Repositories, NEW f \in DOMAIN quota.usage[r]
        PROVE  Total(quota.usage[r][f]) <= MaxU64
    <3>1. f \in {"artifact_bytes", "accounted_bytes", "resources"}
      BY <2>1, RowDomains
    <3>2. UsageCapped(quota.usage[r], r)
      BY DEF LedgerInv, Ledger, Capped
    <3>3. /\ Total(quota.usage[r].artifact_bytes) <= MaxU64
          /\ Total(quota.usage[r].accounted_bytes) <= MaxU64 /\ Total(quota.usage[r].resources) <= MaxU64
      BY <3>2, BoundedFits DEF UsageCapped
    <3>. QED
      BY <3>1, <3>3
  <2>3. ASSUME NEW k \in Resources, NEW f \in DOMAIN quota.resource[k]
        PROVE  Total(quota.resource[k][f]) <= MaxU64
    <3>1. f \in {"references", "artifact_bytes", "groups"}
      BY <2>1, RowDomains
    <3>2. ResourceCapped(quota.resource[k], k[1])
      BY DEF LedgerInv, Ledger, Capped
    <3>3. Total(quota.resource[k].artifact_bytes) <= MaxU64 /\ Total(quota.resource[k].groups) <= MaxU64
      BY <3>2, BoundedFits DEF ResourceCapped
    <3>4. quota.resource[k].references = Split(rs, OfResource(k), One)
      <4>1. ResourceIs(ResourceOf(rs, k), rs, k)
        BY RowFields
      <4>. QED
        BY <2>1, <4>1 DEF ResourceIs
    <3>5. Total(quota.resource[k].references) <= Cardinality(Ids)
      BY <2>1, <3>4, ReferencesBounded
    <3>6. Total(quota.resource[k].references) <= MaxU64
      <4>1. Total(Split(rs, OfResource(k), One)) \in Nat
        BY <2>1, OneWeighs, SplitType, TotalsMove
      <4>2. Cardinality(Ids) \in Nat /\ MaxU64 \in Nat
        BY FS_CardinalityType, LimitAssumption
      <4>. QED
        BY <3>4, <3>5, <4>1, <4>2, Between
    <3>. QED
      BY <3>1, <3>3, <3>6
  <2>. QED
    BY <2>2, <2>3 DEF TotalsFit
<1>. QED
  BY <1>1, LedgerSafe, PTL

(***************************************************************************)
(* The deletion index names only committed reservations of its own key     *)
(* (commit_reservation, forget_allocation).                                *)
(***************************************************************************)
THEOREM AllocationsCommitted == QuotaSpec => []AllocationIsLive
<1>1. LedgerInv => AllocationIsLive
  BY DEF LedgerInv, Ledger, Allocated, AllocationIsLive
<1>. QED
  BY <1>1, LedgerSafe, PTL

=============================================================================
