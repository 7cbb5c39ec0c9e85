------------------------- MODULE OciBlobPushProofs -------------------------
(***************************************************************************)
(* Proofs about OciBlobPush, for every set of digests, requests and        *)
(* finalizers, every size of a blob and of the drain's page.               *)
(*                                                                         *)
(* The counters of the intents are sums and the finalizers list intents in *)
(* the order of their numbers, so the module first shows how a sum over a  *)
(* finite set changes when one element does, and that finitely many        *)
(* numbers can be put in order.  Then: each transaction on the intents     *)
(* keeps the three tables in step (IntentsSound), and each step of a       *)
(* request, a finalizer or the reaper keeps what a pass has in hand staged *)
(* (PushInv).                                                              *)
(***************************************************************************)
EXTENDS OciBlobPush, FiniteSetTheorems, WellFoundedInduction, NaturalsInduction, TLAPS

(* A set of numbers has a least one. *)
LEMMA LeastNumber ==
    ASSUME NEW S \in SUBSET Nat, S # {}
    PROVE  \E i \in S : \A j \in S : i <= j
<1>1. PICK i \in S : \A j \in S : ~(<<j, i>> \in OpToRel(<, Nat))
  BY NatLessThanWellFounded, WFMin, Zenon
<1>2. \A j \in S : ~(j < i)
  BY <1>1, Zenon DEF OpToRel
<1>. QED
  BY <1>2

-----------------------------------------------------------------------------
(* Sums over finite sets.                                                  *)

Some(s) == CHOOSE x \in s : TRUE

(* The sums of f over the sets D, each from that of a smaller one. *)
Summing(f, D, g) == g = [s \in D |-> IF s = {} THEN 0 ELSE f[Some(s)] + g[s \ {Some(s)}]]

(* The subsets of S that have at most n elements. *)
UpTo(S, n) == {s \in SUBSET S : Cardinality(s) <= n}

(* What choosing one element and leaving it out does to a subset. *)
LEMMA UpToFacts ==
    ASSUME NEW S, IsFiniteSet(S)
    PROVE  /\ UpTo(S, Cardinality(S)) = SUBSET S
           /\ \A s \in SUBSET S : IsFiniteSet(s) /\ Cardinality(s) \in Nat /\ (s = {} <=> Cardinality(s) = 0)
           /\ \A s \in SUBSET S : s # {} =>
                /\ Some(s) \in s /\ s \ {Some(s)} \in SUBSET S
                /\ Cardinality(s \ {Some(s)}) = Cardinality(s) - 1
<1>1. ASSUME NEW s \in SUBSET S
      PROVE  /\ IsFiniteSet(s) /\ Cardinality(s) \in Nat /\ Cardinality(s) <= Cardinality(S)
             /\ (s = {} <=> Cardinality(s) = 0)
  BY FS_Subset, FS_CardinalityType, FS_EmptySet, Zenon
<1>2. ASSUME NEW s \in SUBSET S, s # {}
      PROVE  /\ Some(s) \in s /\ s \ {Some(s)} \in SUBSET S
             /\ Cardinality(s \ {Some(s)}) = Cardinality(s) - 1
  <2>1. Some(s) \in s
    BY <1>2, Zenon DEF Some
  <2>2. Cardinality(s \ {Some(s)}) = Cardinality(s) - 1
    BY <1>1, <2>1, FS_RemoveElement, Zenon
  <2>. QED
    BY <2>1, <2>2, Zenon
<1>3. UpTo(S, Cardinality(S)) = SUBSET S
  BY <1>1, Zenon DEF UpTo
<1>. QED
  BY <1>1, <1>2, <1>3, Zenon

(* Every finite set has its table of sums. *)
LEMMA SummingExists ==
    ASSUME NEW f, NEW S, IsFiniteSet(S)
    PROVE  \E g : Summing(f, SUBSET S, g)
<1>. DEFINE Bad == {n \in Nat : ~ \E g : Summing(f, UpTo(S, n), g)}
<1>1. Bad = {}
  <2>. SUFFICES ASSUME Bad # {} PROVE FALSE
    OBVIOUS
  <2>1. PICK m \in Bad : \A n \in Bad : m <= n
    BY LeastNumber, Zenon
  <2>2. m # 0
    <3>1. \A s \in UpTo(S, 0) : s = {}
      <4>1. ASSUME NEW s \in UpTo(S, 0) PROVE s = {}
        <5>1. s \in SUBSET S /\ Cardinality(s) <= 0
          BY Zenon DEF UpTo
        <5>2. Cardinality(s) \in Nat /\ (s = {} <=> Cardinality(s) = 0)
          BY <5>1, UpToFacts, Zenon
        <5>. QED
          BY <5>1, <5>2
      <4>. QED
        BY <4>1, Zenon
    <3>2. Summing(f, UpTo(S, 0), [s \in UpTo(S, 0) |-> 0])
      BY <3>1 DEF Summing
    <3>3. 0 \notin Bad
      BY <3>2, Zenon
    <3>. QED
      BY <3>3, Zenon
  <2>3. m - 1 \in Nat /\ ~(m <= m - 1)
    BY <2>2
  <2>4. PICK g : Summing(f, UpTo(S, m - 1), g)
    BY <2>1, <2>3, Zenon
  <2>. DEFINE next(s) == f[Some(s)] + g[s \ {Some(s)}]
              h == [s \in UpTo(S, m) |-> IF s \in UpTo(S, m - 1) THEN g[s] ELSE next(s)]
  <2>5. ASSUME NEW s \in UpTo(S, m)
        PROVE  /\ s \in SUBSET S
               /\ s = {} => s \in UpTo(S, m - 1)
               /\ s # {} => s \ {Some(s)} \in UpTo(S, m - 1) /\ s \ {Some(s)} \in UpTo(S, m)
    <3>1. s \in SUBSET S /\ Cardinality(s) <= m
      BY Zenon DEF UpTo
    <3>2. Cardinality(s) \in Nat /\ (s = {} <=> Cardinality(s) = 0)
      BY <3>1, UpToFacts, Zenon
    <3>3. s = {} => Cardinality(s) <= m - 1
      BY <2>3, <3>2
    <3>4. ASSUME s # {} PROVE s \ {Some(s)} \in UpTo(S, m - 1) /\ s \ {Some(s)} \in UpTo(S, m)
      <4>1. s \ {Some(s)} \in SUBSET S /\ Cardinality(s \ {Some(s)}) = Cardinality(s) - 1
        BY <3>1, <3>4, UpToFacts, Zenon
      <4>2. Cardinality(s) - 1 <= m - 1 /\ Cardinality(s) - 1 <= m
        BY <2>3, <3>1, <3>2
      <4>. QED
        BY <4>1, <4>2, Zenon DEF UpTo
    <3>. QED
      BY <3>1, <3>3, <3>4, Zenon DEF UpTo
  <2>6. \A s \in UpTo(S, m - 1) : g[s] = IF s = {} THEN 0 ELSE next(s)
    BY <2>4, Zenon DEF Summing
  <2>7. \A s \in UpTo(S, m) : h[s] = IF s \in UpTo(S, m - 1) THEN g[s] ELSE next(s)
    BY Zenon
  <2>8. ASSUME NEW s \in UpTo(S, m)
        PROVE  h[s] = IF s = {} THEN 0 ELSE f[Some(s)] + h[s \ {Some(s)}]
    <3>1. h[s] = IF s = {} THEN 0 ELSE next(s)
      BY <2>5, <2>6, <2>7, Zenon
    <3>2. s # {} => h[s \ {Some(s)}] = g[s \ {Some(s)}]
      BY <2>5, <2>7, Zenon
    <3>. QED
      BY <3>1, <3>2, Zenon
  <2>9. h = [s \in UpTo(S, m) |-> h[s]]
    BY Zenon
  <2>10. Summing(f, UpTo(S, m), h)
    <3>. HIDE DEF h
    <3>. QED
      BY <2>8, <2>9, Zenon DEF Summing
  <2>. QED
    BY <2>1, <2>10, Zenon
<1>2. Cardinality(S) \in Nat
  BY FS_CardinalityType, Zenon
<1>3. \E g : Summing(f, UpTo(S, Cardinality(S)), g)
  BY <1>1, <1>2, Zenon
<1>4. UpTo(S, Cardinality(S)) = SUBSET S
  BY UpToFacts, Zenon
<1>. QED
  BY <1>3, <1>4, Zenon

(* SumFunctionOnSet is such a table at the set itself. *)
LEMMA SumIsSumming ==
    ASSUME NEW f, NEW S, IsFiniteSet(S)
    PROVE  \E g : Summing(f, SUBSET S, g) /\ SumFunctionOnSet(f, S) = g[S]
<1>. DEFINE g == CHOOSE g : Summing(f, SUBSET S, g)
<1>1. Summing(f, SUBSET S, g)
  BY SummingExists, Zenon
<1>2. SumFunctionOnSet(f, S) = g[S]
  BY DEF SumFunctionOnSet, FoldFunctionOnSet, MapThenFoldSet, Summing, Some
<1>. HIDE DEF g
<1>. QED
  BY <1>1, <1>2, Zenon

PartsAgree(f, S, g) == \A T \in SUBSET S : \A h : Summing(f, SUBSET T, h) => g[T] = h[T]

(* Two ways to sum agree wherever both do. *)
LEMMA SummingAgree ==
    ASSUME NEW f, NEW S, IsFiniteSet(S), NEW g, Summing(f, SUBSET S, g)
    PROVE  PartsAgree(f, S, g)
<1>. SUFFICES ASSUME NEW T \in SUBSET S, NEW h, Summing(f, SUBSET T, h)
              PROVE  \A s \in SUBSET T : g[s] = h[s]
  BY Zenon DEF PartsAgree
<1>. DEFINE Bad == {n \in Nat : \E s \in SUBSET T : Cardinality(s) = n /\ g[s] # h[s]}
<1>1. Bad = {}
  <2>. SUFFICES ASSUME Bad # {} PROVE FALSE
    OBVIOUS
  <2>1. PICK m \in Bad : \A n \in Bad : m <= n
    BY LeastNumber, Zenon
  <2>2. PICK s \in SUBSET T : Cardinality(s) = m /\ g[s] # h[s]
    BY <2>1, Zenon
  <2>3. s \in SUBSET S /\ g[{}] = 0 /\ h[{}] = 0
    BY DEF Summing
  <2>4. s # {}
    BY <2>2, <2>3, Zenon
  <2>. DEFINE rest == s \ {Some(s)}
  <2>5. Some(s) \in s /\ rest \in SUBSET S /\ Cardinality(rest) = m - 1 /\ rest \in SUBSET T
    BY <2>2, <2>3, <2>4, UpToFacts, Zenon
  <2>6. g[s] = f[Some(s)] + g[rest] /\ h[s] = f[Some(s)] + h[rest]
    BY <2>3, <2>4, <2>5, Zenon DEF Summing
  <2>7. m - 1 \in Nat /\ ~(m <= m - 1)
    <3>1. Cardinality(rest) \in Nat
      BY <2>5, UpToFacts
    <3>. QED
      BY <2>5, <3>1
  <2>8. g[rest] = h[rest]
    BY <2>1, <2>5, <2>7, Zenon
  <2>. QED
    BY <2>2, <2>6, <2>8, Zenon
<1>2. \A s \in SUBSET T : Cardinality(s) \in Nat
  BY UpToFacts, Zenon
<1>. QED
  BY <1>1, <1>2, Zenon

(* A sum takes one summand at a time. *)
LEMMA SumStep ==
    ASSUME NEW f, NEW S, IsFiniteSet(S)
    PROVE  SumFunctionOnSet(f, S) = IF S = {} THEN 0 ELSE f[Some(S)] + SumFunctionOnSet(f, S \ {Some(S)})
<1>1. PICK g : Summing(f, SUBSET S, g) /\ SumFunctionOnSet(f, S) = g[S]
  BY SumIsSumming, Zenon
<1>2. g[S] = IF S = {} THEN 0 ELSE f[Some(S)] + g[S \ {Some(S)}]
  BY <1>1, Zenon DEF Summing
<1>3. ASSUME S # {} PROVE g[S \ {Some(S)}] = SumFunctionOnSet(f, S \ {Some(S)})
  <2>. DEFINE T == S \ {Some(S)}
  <2>1. T \in SUBSET S
    BY Zenon
  <2>2. IsFiniteSet(T)
    BY <2>1, FS_Subset, Zenon
  <2>. HIDE DEF T
  <2>3. PICK h : Summing(f, SUBSET T, h) /\ SumFunctionOnSet(f, T) = h[T]
    BY <2>2, SumIsSumming, Zenon
  <2>4. PartsAgree(f, S, g)
    BY <1>1, SummingAgree, Zenon
  <2>5. g[T] = h[T]
    BY <2>1, <2>3, <2>4, Zenon DEF PartsAgree
  <2>. QED
    BY <2>3, <2>5, Zenon DEF T
<1>. QED
  BY <1>1, <1>2, <1>3, Zenon

(* Nothing sums to nothing. *)
LEMMA SumEmpty ==
    ASSUME NEW f PROVE SumFunctionOnSet(f, {}) = 0
BY SumStep, FS_EmptySet, Zenon

(* A sum of integers is one, and may start with any of its summands. *)
LEMMA SumTakes ==
    ASSUME NEW f, NEW S, IsFiniteSet(S), \A x \in S : f[x] \in Int
    PROVE  /\ SumFunctionOnSet(f, S) \in Int
           /\ \A x \in S : SumFunctionOnSet(f, S) = f[x] + SumFunctionOnSet(f, S \ {x})
<1>. DEFINE Fine(T) == SumFunctionOnSet(f, T) \in Int /\ \A x \in T : SumFunctionOnSet(f, T) = f[x] + SumFunctionOnSet(f, T \ {x})
            Bad == {n \in Nat : \E T \in SUBSET S : Cardinality(T) = n /\ ~Fine(T)}
<1>1. Bad = {}
  <2>. SUFFICES ASSUME Bad # {} PROVE FALSE
    OBVIOUS
  <2>1. PICK m \in Bad : \A n \in Bad : m <= n
    BY LeastNumber, Zenon
  <2>2. PICK T \in SUBSET S : Cardinality(T) = m /\ ~Fine(T)
    BY <2>1, Zenon
  <2>3. IsFiniteSet(T)
    BY FS_Subset, Zenon
  <2>4. \A U \in SUBSET S : Cardinality(U) \in Nat /\ Cardinality(U) < m => Fine(U)
    <3>1. ASSUME NEW U \in SUBSET S, Cardinality(U) \in Nat, Cardinality(U) < m PROVE Fine(U)
      <4>1. ~(m <= Cardinality(U))
        BY <3>1
      <4>. QED
        BY <2>1, <3>1, <4>1, Zenon
    <3>. QED
      BY <3>1, Zenon
  <2>5. ASSUME NEW U \in SUBSET T, NEW x \in U
        PROVE  /\ U \ {x} \in SUBSET S /\ Cardinality(U \ {x}) \in Nat
               /\ Cardinality(U \ {x}) = Cardinality(U) - 1 /\ Cardinality(U) \in Nat
    <3>1. IsFiniteSet(U) /\ IsFiniteSet(U \ {x})
      BY <2>3, FS_Subset, Zenon
    <3>. QED
      BY <3>1, FS_RemoveElement, FS_CardinalityType, Zenon
  <2>6. ASSUME NEW x \in T PROVE Fine(T \ {x})
    <3>1. T \ {x} \in SUBSET S /\ Cardinality(T \ {x}) \in Nat /\ Cardinality(T \ {x}) = m - 1
      BY <2>2, <2>5, Zenon
    <3>2. m - 1 < m
      BY <2>1
    <3>. QED
      BY <2>4, <3>1, <3>2, Zenon
  <2>7. T # {}
    <3>1. Fine({})
      BY SumEmpty
    <3>. QED
      BY <2>2, <3>1, Zenon
  <2>. DEFINE c == Some(T)
  <2>8. c \in T
    BY <2>7, Zenon DEF Some
  <2>9. SumFunctionOnSet(f, T) = f[c] + SumFunctionOnSet(f, T \ {c})
    BY <2>3, <2>7, SumStep, Zenon
  <2>. HIDE DEF c
  <2>10. SumFunctionOnSet(f, T) \in Int
    BY <2>6, <2>8, <2>9
  <2>11. ASSUME NEW x \in T PROVE SumFunctionOnSet(f, T) = f[x] + SumFunctionOnSet(f, T \ {x})
    <3>1. CASE x = c
      BY <2>9, <3>1, Zenon
    <3>2. CASE x # c
      <4>1. Fine(T \ {c}) /\ Fine(T \ {x}) /\ f[x] \in Int /\ f[c] \in Int
        BY <2>6, <2>8, Zenon
      <4>2. SumFunctionOnSet(f, T \ {c}) = f[x] + SumFunctionOnSet(f, (T \ {c}) \ {x}) /\ SumFunctionOnSet(f, T \ {x}) = f[c] + SumFunctionOnSet(f, (T \ {x}) \ {c})
        BY <2>8, <3>2, <4>1, Zenon
      <4>3. (T \ {c}) \ {x} = (T \ {x}) \ {c} /\ (T \ {c}) \ {x} \in SUBSET S
        BY Zenon
      <4>4. SumFunctionOnSet(f, (T \ {c}) \ {x}) \in Int
        <5>1. x \in T \ {c}
          BY <3>2, Zenon
        <5>2. Cardinality((T \ {c}) \ {x}) \in Nat /\ Cardinality((T \ {c}) \ {x}) = Cardinality(T \ {c}) - 1
              /\ Cardinality(T \ {c}) = m - 1 /\ Cardinality(T \ {c}) \in Nat
          BY <2>2, <2>5, <2>8, <5>1, Zenon
        <5>3. Cardinality((T \ {c}) \ {x}) < m
          BY <2>1, <5>2
        <5>. QED
          BY <2>4, <4>3, <5>2, <5>3, Zenon
      <4>. DEFINE a == f[x]
                  b == f[c]
                  z == SumFunctionOnSet(f, (T \ {c}) \ {x})
      <4>5. SumFunctionOnSet(f, T) = b + (a + z) /\ a + SumFunctionOnSet(f, T \ {x}) = a + (b + z) /\ a \in Int /\ b \in Int /\ z \in Int
        BY <2>9, <4>1, <4>2, <4>3, <4>4, Zenon
      <4>. HIDE DEF a, b, z
      <4>6. b + (a + z) = a + (b + z)
        BY <4>5
      <4>. QED
        BY <4>5, <4>6, Zenon DEF a
    <3>. QED
      BY <3>1, <3>2, Zenon
  <2>. QED
    BY <2>2, <2>10, <2>11, Zenon
<1>2. Cardinality(S) \in Nat /\ S \in SUBSET S
  BY FS_CardinalityType, Zenon
<1>. QED
  BY <1>1, <1>2, Zenon

(* Of the subsets in question one has none of them one element below. *)
LEMMA SmallestSubset ==
    ASSUME NEW S, IsFiniteSet(S), NEW Bad \in SUBSET (SUBSET S), Bad # {}
    PROVE  \E T \in Bad : \A x \in T : T \ {x} \notin Bad
<1>. DEFINE Sizes == {n \in Nat : \E T \in Bad : Cardinality(T) = n}
<1>1. \A T \in Bad : IsFiniteSet(T) /\ Cardinality(T) \in Nat
  BY FS_Subset, FS_CardinalityType, Zenon
<1>2. Sizes # {} /\ Sizes \in SUBSET Nat
  BY <1>1, Zenon
<1>3. PICK m \in Sizes : \A n \in Sizes : m <= n
  BY <1>2, LeastNumber, Zenon
<1>4. PICK T \in Bad : Cardinality(T) = m
  BY <1>3, Zenon
<1>5. ASSUME NEW x \in T, T \ {x} \in Bad PROVE FALSE
  <2>1. Cardinality(T \ {x}) = Cardinality(T) - 1
    BY <1>1, FS_RemoveElement, Zenon
  <2>2. Cardinality(T \ {x}) \in Sizes /\ Cardinality(T) \in Nat
    BY <1>1, <1>5, Zenon
  <2>3. m <= Cardinality(T \ {x})
    BY <1>3, <2>2, Zenon
  <2>. QED
    BY <1>4, <2>1, <2>2, <2>3
<1>. QED
  BY <1>4, <1>5, Zenon

(* A sum only looks at its summands. *)
LEMMA SumSame ==
    ASSUME NEW f, NEW g, NEW S, IsFiniteSet(S), \A x \in S : f[x] = g[x]
    PROVE  SumFunctionOnSet(f, S) = SumFunctionOnSet(g, S)
<1>. DEFINE Bad == {T \in SUBSET S : SumFunctionOnSet(f, T) # SumFunctionOnSet(g, T)}
<1>1. ASSUME Bad # {} PROVE FALSE
  <2>1. PICK T \in Bad : \A x \in T : T \ {x} \notin Bad
    BY <1>1, SmallestSubset, Zenon
  <2>2. IsFiniteSet(T)
    BY FS_Subset, Zenon
  <2>3. T # {}
    BY <2>1, SumEmpty, Zenon
  <2>. DEFINE c == Some(T)
  <2>4. c \in T
    BY <2>3, Zenon DEF Some
  <2>5. /\ SumFunctionOnSet(f, T) = f[c] + SumFunctionOnSet(f, T \ {c})
        /\ SumFunctionOnSet(g, T) = g[c] + SumFunctionOnSet(g, T \ {c})
    BY <2>2, <2>3, SumStep, Zenon
  <2>. HIDE DEF c
  <2>6. f[c] = g[c] /\ SumFunctionOnSet(f, T \ {c}) = SumFunctionOnSet(g, T \ {c})
    BY <2>1, <2>4, Zenon
  <2>. QED
    BY <2>1, <2>5, <2>6, Zenon
<1>. QED
  BY <1>1, Zenon

SumsAgree(f, g, S) == SumFunctionOnSet(f, S) = SumFunctionOnSet(g, S)

(* Summands that agree have the same sum. *)
LEMMA SumAgree ==
    ASSUME NEW f, NEW g, NEW S, IsFiniteSet(S), \A x \in S : f[x] = g[x]
    PROVE  SumsAgree(f, g, S)
BY SumSame, Zenon DEF SumsAgree

OneMore(f, g, S, x) ==
    /\ SumFunctionOnSet(f, S) \in Int /\ Cardinality(S) \in Int
    /\ SumFunctionOnSet(g, S \cup {x}) = SumFunctionOnSet(f, S) + g[x]
    /\ Cardinality(S \cup {x}) = Cardinality(S) + 1

(* One element more adds its summand. *)
LEMMA SumOneMore ==
    ASSUME NEW f, NEW g, NEW S, IsFiniteSet(S), NEW x, x \notin S, g[x] \in Nat,
           \A y \in S : g[y] = f[y] /\ f[y] \in Nat
    PROVE  OneMore(f, g, S, x)
<1>. DEFINE T == S \cup {x}
<1>1. IsFiniteSet(T) /\ Cardinality(T) = Cardinality(S) + 1 /\ T \ {x} = S /\ x \in T
  <2>1. IsFiniteSet(T) /\ Cardinality(T) = Cardinality(S) + 1
    BY FS_AddElement, Zenon
  <2>. QED
    BY <2>1, Zenon
<1>2. Cardinality(S) \in Nat
  BY FS_CardinalityType, Zenon
<1>. DEFINE a == SumFunctionOnSet(f, S)
            n == g[x]
<1>3. \A y \in T : g[y] \in Nat
  BY Zenon
<1>. HIDE DEF T, n
<1>4. \A y \in T : g[y] \in Int
  BY <1>3
<1>5. \A y \in T : SumFunctionOnSet(g, T) = g[y] + SumFunctionOnSet(g, T \ {y})
  <2>1. IsFiniteSet(T)
    BY <1>1, Zenon
  <2>. QED
    BY <1>4, <2>1, SumTakes, Zenon
<1>6. SumFunctionOnSet(g, S) = a
  BY SumSame, Zenon
<1>7. \A y \in S : f[y] \in Int
  OBVIOUS
<1>8. a \in Int
  BY <1>7, SumTakes, Zenon
<1>. HIDE DEF a
<1>9. SumFunctionOnSet(g, T) = n + a
  BY <1>1, <1>5, <1>6, Zenon DEF n
<1>10. n \in Nat
  BY Zenon DEF n
<1>11. n + a = a + n
  BY <1>8, <1>10
<1>12. Cardinality(S) \in Int
  BY <1>2
<1>. QED
  BY <1>1, <1>8, <1>9, <1>11, <1>12, Zenon DEF OneMore, T, a, n

-----------------------------------------------------------------------------
(* Putting numbers in order.                                               *)

Ascending(s) == \A i, j \in DOMAIN s : i < j => s[i] < s[j]
Orders(S) == {s \in Bijection(1..Cardinality(S), S) : Ascending(s)}

(* Finitely many numbers can be put in order. *)
LEMMA OrderExists ==
    ASSUME NEW S \in SUBSET Nat, IsFiniteSet(S)
    PROVE  Orders(S) # {}
<1>. DEFINE Bad == {T \in SUBSET S : Orders(T) = {}}
<1>1. ASSUME Bad # {} PROVE FALSE
  <2>1. PICK T \in Bad : \A x \in T : T \ {x} \notin Bad
    BY <1>1, SmallestSubset, Zenon
  <2>2. T \in SUBSET Nat /\ IsFiniteSet(T) /\ Cardinality(T) \in Nat
    BY FS_Subset, FS_CardinalityType, Zenon
  <2>3. T # {}
    <3>1. Cardinality({}) = 0
      BY FS_EmptySet, Zenon
    <3>2. <<>> \in Bijection(1..0, {}) /\ Ascending(<<>>)
      BY DEF Bijection, Injection, Surjection, IsInjective, Ascending
    <3>. QED
      BY <2>1, <3>1, <3>2, Zenon DEF Orders
  <2>4. PICK low \in T : \A n \in T : low <= n
    BY <2>2, <2>3, LeastNumber, Zenon
  <2>. DEFINE rest == T \ {low}
              c == Cardinality(rest)
  <2>5. IsFiniteSet(rest) /\ c \in Nat /\ Cardinality(T) = c + 1
    <3>1. IsFiniteSet(rest) /\ c \in Nat /\ c = Cardinality(T) - 1
      BY <2>2, FS_RemoveElement, FS_CardinalityType, Zenon
    <3>. HIDE DEF c
    <3>. QED
      BY <2>2, <3>1
  <2>6. PICK s \in Bijection(1..c, rest) : Ascending(s)
    BY <2>1, Zenon DEF Orders
  <2>. HIDE DEF c
  <2>. DEFINE t == [i \in 1..(c + 1) |-> IF i = 1 THEN low ELSE s[i - 1]]
  <2>7. /\ s \in [1..c -> rest]
        /\ \A i, j \in 1..c : s[i] = s[j] => i = j
        /\ \A n \in rest : \E i \in 1..c : s[i] = n
        /\ \A i, j \in 1..c : i < j => s[i] < s[j]
    BY <2>6 DEF Bijection, Injection, Surjection, IsInjective, Ascending
  <2>8. \A i \in 1..(c + 1) : i # 1 => i - 1 \in 1..c
    BY <2>5
  <2>9. \A i \in 1..c : s[i] \in T /\ s[i] # low
    BY <2>7, Zenon
  <2>10. \A i \in 1..c : s[i] \in Nat /\ low < s[i]
    <3>1. ASSUME NEW i \in 1..c PROVE s[i] \in Nat /\ low < s[i]
      <4>1. s[i] \in Nat /\ low \in Nat /\ low <= s[i] /\ s[i] # low
        BY <2>2, <2>4, <2>9, Zenon
      <4>. QED
        BY <4>1
    <3>. QED
      BY <3>1, Zenon
  <2>11. t \in [1..(c + 1) -> T]
    BY <2>8, <2>9
  <2>12. ASSUME NEW i \in 1..(c + 1), NEW j \in 1..(c + 1), i < j PROVE t[i] < t[j]
    <3>1. j # 1 /\ j - 1 \in 1..c /\ t[j] = s[j - 1]
      BY <2>5, <2>12
    <3>2. CASE i = 1
      BY <2>10, <3>1, <3>2
    <3>3. CASE i # 1
      <4>1. i - 1 \in 1..c /\ t[i] = s[i - 1] /\ i - 1 < j - 1
        BY <2>8, <2>12, <3>3
      <4>. QED
        BY <2>7, <3>1, <4>1, Zenon
    <3>. QED
      BY <3>2, <3>3, Zenon
  <2>13. ASSUME NEW i \in 1..(c + 1), NEW j \in 1..(c + 1), t[i] = t[j] PROVE i = j
    <3>1. t[i] \in Nat /\ t[j] \in Nat
      BY <2>2, <2>11, Zenon
    <3>2. ~(t[i] < t[j]) /\ ~(t[j] < t[i])
      <4>. HIDE DEF t
      <4>. QED
        BY <2>13, <3>1
    <3>3. ~(i < j) /\ ~(j < i)
      BY <2>12, <3>2, Zenon
    <3>. QED
      BY <2>5, <3>3
  <2>14. ASSUME NEW n \in T PROVE \E i \in 1..(c + 1) : t[i] = n
    <3>1. CASE n = low
      <4>1. 1 \in 1..(c + 1)
        BY <2>5
      <4>. QED
        BY <3>1, <4>1, Zenon
    <3>2. CASE n # low
      <4>1. PICK i \in 1..c : s[i] = n
        BY <2>7, <3>2, Zenon
      <4>2. i + 1 \in 1..(c + 1) /\ i + 1 # 1 /\ (i + 1) - 1 = i
        BY <2>5
      <4>3. t[i + 1] = n
        BY <4>1, <4>2, Zenon
      <4>. QED
        BY <4>2, <4>3, Zenon
    <3>. QED
      BY <3>1, <3>2, Zenon
  <2>15. DOMAIN t = 1..(c + 1)
    BY Zenon
  <2>. HIDE DEF t
  <2>16. t \in Bijection(1..(c + 1), T) /\ Ascending(t)
    BY <2>11, <2>12, <2>13, <2>14, <2>15, Zenon DEF Bijection, Injection, Surjection, IsInjective, Ascending
  <2>. QED
    BY <2>1, <2>5, <2>16, Zenon DEF Orders
<1>2. S \notin Bad
  BY <1>1, Zenon
<1>. QED
  BY <1>2, Zenon

-----------------------------------------------------------------------------
(* The intents' tables.                                                    *)

LedgerFields == {"records", "order", "counts", "seq"}
RowFieldNames == {"phase", "authority", "seq", "digest", "size", "payload", "refusals"}

RowKept(r) ==
    /\ DOMAIN r = RowFieldNames
    /\ r.phase \in {"pending", "admitted", "expired"}
    /\ r.authority \in Authorities
    /\ r.seq \in Nat /\ r.size \in Nat
    /\ r.payload \in Ids \cup {None}

RowsKept(I) ==
    /\ DOMAIN I = LedgerFields /\ I.seq \in Nat
    /\ Staged(I) \subseteq Digests /\ IsFiniteSet(Staged(I))
    /\ I.records = [key \in Staged(I) |-> I.records[key]]
    /\ \A key \in Staged(I) : RowKept(I.records[key]) /\ I.records[key].seq < I.seq
    /\ \A key, other \in Staged(I) : I.records[key].seq = I.records[other].seq => key = other

Waiting(I, key) == key \in Staged(I) /\ I.records[key].phase = "pending"

(* The order index names the pending intents, each under its own number. *)
Indexed(I) ==
    /\ \A n \in DOMAIN I.order : Waiting(I, I.order[n]) /\ I.records[I.order[n]].seq = n
    /\ \A key : Waiting(I, key) =>
         I.records[key].seq \in DOMAIN I.order /\ I.order[I.records[key].seq] = key

HeldBy(I, a) == {key \in Staged(I) : I.records[key].authority = a}
Sizes(I) == [key \in Staged(I) |-> I.records[key].size]

(* The counters are those of the retained intents. *)
Counts(c, n, m) == c = [records |-> n, bytes |-> m]
Charged(I) ==
    /\ DOMAIN I.counts = Authorities
    /\ \A a \in Authorities :
         Counts(I.counts[a], Cardinality(HeldBy(I, a)), SumFunctionOnSet(Sizes(I), HeldBy(I, a)))

IntentsSound(I) == RowsKept(I) /\ Indexed(I) /\ Charged(I)

(* The two counters of an authority. *)
LEMMA CountFields ==
    ASSUME NEW c, NEW n, NEW m, Counts(c, n, m) PROVE c.records = n /\ c.bytes = m
BY DEF Counts

(* A sound ledger is consistent. *)
LEMMA SoundIsConsistent ==
    ASSUME NEW I, IntentsSound(I) PROVE IntentsConsistent(I)
<1>1. \A n, key : (n \in DOMAIN I.order /\ I.order[n] = key) <=> (Waiting(I, key) /\ I.records[key].seq = n)
  BY Zenon DEF IntentsSound, Indexed
<1>2. \A key : Waiting(I, key) <=> key \in {k \in Staged(I) : PhaseOf(I, k) = "pending"}
  BY Zenon DEF Waiting, PhaseOf
<1>3. {<<n, I.order[n]>> : n \in DOMAIN I.order} = IndexOf(I)
  <2>1. ASSUME NEW n \in DOMAIN I.order PROVE <<n, I.order[n]>> \in IndexOf(I)
    <3>1. Waiting(I, I.order[n]) /\ I.records[I.order[n]].seq = n
      BY <1>1, Zenon
    <3>. QED
      BY <1>2, <3>1, Zenon DEF IndexOf
  <2>2. ASSUME NEW key, Waiting(I, key) PROVE <<I.records[key].seq, key>> \in {<<n, I.order[n]>> : n \in DOMAIN I.order}
    <3>1. I.records[key].seq \in DOMAIN I.order /\ I.order[I.records[key].seq] = key
      BY <2>2, Zenon DEF IntentsSound, Indexed
    <3>. QED
      BY <3>1, Zenon
  <2>. QED
    BY <1>2, <2>1, <2>2, Zenon DEF IndexOf
<1>. QED
  BY <1>3, Zenon DEF IntentsConsistent, IntentsSound, Charged, Counts, HeldBy, Sizes

(* What is charged looks only at who holds how much. *)
LEMMA AlikeCharged ==
    ASSUME NEW I, RowsKept(I), Charged(I), NEW J, Staged(J) = Staged(I), J.counts = I.counts,
           \A key \in Staged(I) : J.records[key].authority = I.records[key].authority /\ J.records[key].size = I.records[key].size
    PROVE  Charged(J)
<1>1. \A a : HeldBy(J, a) = HeldBy(I, a)
  BY Zenon DEF HeldBy
<1>2. Sizes(J) = Sizes(I)
  BY Zenon DEF Sizes
<1>. QED
  BY <1>1, <1>2, Zenon DEF Charged

(* J holds one intent more than I, of n bytes and the authority a. *)
Larger(I, J, key, a, n) ==
    /\ key \notin Staged(I) /\ Staged(J) = Staged(I) \cup {key}
    /\ J.records[key].authority = a /\ J.records[key].size = n
    /\ \A k \in Staged(I) : J.records[k] = I.records[k]

MoreHeld(I, J, a, n) ==
    /\ Cardinality(HeldBy(J, a)) = Cardinality(HeldBy(I, a)) + 1
    /\ SumFunctionOnSet(Sizes(J), HeldBy(J, a)) = SumFunctionOnSet(Sizes(I), HeldBy(I, a)) + n
    /\ Cardinality(HeldBy(I, a)) \in Int /\ SumFunctionOnSet(Sizes(I), HeldBy(I, a)) \in Int
SameHeld(I, J, b) ==
    /\ Cardinality(HeldBy(J, b)) = Cardinality(HeldBy(I, b))
    /\ SumFunctionOnSet(Sizes(J), HeldBy(J, b)) = SumFunctionOnSet(Sizes(I), HeldBy(I, b))

HeldGrows(I, J, a, n) == MoreHeld(I, J, a, n) /\ \A b : b # a => SameHeld(I, J, b)

(* One intent more is one record and its bytes more for its authority. *)
LEMMA LargerHeld ==
    ASSUME NEW I, NEW J, NEW key, NEW a, NEW n \in Nat, Larger(I, J, key, a, n),
           IsFiniteSet(Staged(I)), \A k \in Staged(I) : I.records[k].size \in Nat
    PROVE  HeldGrows(I, J, a, n)
<1>1. \A b : IsFiniteSet(HeldBy(I, b)) /\ HeldBy(I, b) \subseteq Staged(I)
  BY FS_Subset, Zenon DEF HeldBy
<1>2. \A b : \A k \in HeldBy(I, b) : Sizes(J)[k] = Sizes(I)[k] /\ Sizes(I)[k] \in Nat
  BY <1>1, Zenon DEF Sizes, Larger
<1>3. \A b : b # a => HeldBy(J, b) = HeldBy(I, b)
  BY Zenon DEF HeldBy, Larger
<1>4. HeldBy(J, a) = HeldBy(I, a) \cup {key} /\ key \notin HeldBy(I, a)
  BY Zenon DEF HeldBy, Larger
<1>5. Sizes(J)[key] = n
  BY Zenon DEF Sizes, Larger
<1>6. MoreHeld(I, J, a, n)
  <2>1. OneMore(Sizes(I), Sizes(J), HeldBy(I, a), key)
    BY <1>1, <1>2, <1>4, <1>5, SumOneMore, Zenon
  <2>. QED
    BY <1>4, <1>5, <2>1, Zenon DEF OneMore, MoreHeld
<1>7. ASSUME NEW b, b # a PROVE SameHeld(I, J, b)
  <2>1. SumsAgree(Sizes(J), Sizes(I), HeldBy(I, b))
    BY <1>1, <1>2, SumAgree, Zenon
  <2>. QED
    BY <1>3, <1>7, <2>1, Zenon DEF SumsAgree, SameHeld
<1>. QED
  BY <1>6, <1>7, Zenon DEF HeldGrows

-----------------------------------------------------------------------------
(* The intents' transactions.                                              *)

(* The ledger of a fresh store. *)
LEMMA NoIntentsSound == IntentsSound(NoIntents)
<1>1. /\ DOMAIN NoIntents = LedgerFields /\ NoIntents.seq = 0 /\ NoIntents.order = <<>>
      /\ NoIntents.counts = [a \in Authorities |-> [records |-> 0, bytes |-> 0]] /\ NoIntents.records = <<>>
  BY Zenon DEF NoIntents, LedgerFields
<1>2. Staged(NoIntents) = {} /\ DOMAIN NoIntents.order = {} /\ NoIntents.records = [key \in {} |-> NoIntents.records[key]]
  BY <1>1 DEF Staged
<1>3. \A a : HeldBy(NoIntents, a) = {}
  BY <1>2, Zenon DEF HeldBy
<1>4. IsFiniteSet({}) /\ Cardinality({}) = 0 /\ SumFunctionOnSet(Sizes(NoIntents), {}) = 0
  BY FS_EmptySet, SumEmpty, Zenon
<1>5. NoIntents.seq \in Nat
  BY <1>1
<1>6. RowsKept(NoIntents)
  BY <1>1, <1>2, <1>4, <1>5, Zenon DEF RowsKept
<1>7. Indexed(NoIntents)
  BY <1>2, Zenon DEF Indexed, Waiting
<1>8. Charged(NoIntents)
  BY <1>1, <1>3, <1>4, Zenon DEF Charged, Counts
<1>. QED
  BY <1>6, <1>7, <1>8, Zenon DEF IntentsSound

(* Staging puts one pending intent under the next number, or nothing. *)
LEMMA StageSound ==
    ASSUME NEW I, IntentsSound(I), NEW a, a.key \in Digests, a.authority \in Authorities,
           a.size \in Nat, a.payload \in Ids \cup {None}
    PROVE  /\ IntentsSound(stage_intent(I, a))
           /\ Staged(I) \subseteq Staged(stage_intent(I, a))
           /\ stage_outcome(I, a) = "admitted" => a.key \notin Staged(I)
<1>. DEFINE J == stage_intent(I, a)
            key == a.key
            row == [phase |-> "pending", authority |-> a.authority, seq |-> I.seq,
                    digest |-> a.digest, size |-> a.size, payload |-> a.payload, refusals |-> 0]
<1>1. CASE stage_outcome(I, a) # "admitted"
  BY <1>1, Zenon DEF stage_intent
<1>2. CASE stage_outcome(I, a) = "admitted"
  <2>1. key \notin Staged(I)
    BY <1>2, Zenon DEF stage_outcome
  <2>2. /\ DOMAIN J = LedgerFields /\ J.seq = I.seq + 1
        /\ J.records = Put(I.records, key, row) /\ J.order = Put(I.order, I.seq, key)
        /\ J.counts = [I.counts EXCEPT ![a.authority] = [records |-> @.records + 1, bytes |-> @.bytes + a.size]]
    BY <1>2, Zenon DEF stage_intent, LedgerFields
  <2>. HIDE DEF J
  <2>3. /\ RowKept(row) /\ row.seq = I.seq /\ row.phase = "pending" /\ row.authority = a.authority
        /\ row.size = a.size
    BY Zenon DEF RowKept, RowFieldNames, IntentsSound, RowsKept
  <2>. HIDE DEF row
  <2>4. /\ Staged(J) = Staged(I) \cup {key} /\ J.records[key] = row
        /\ \A k \in Staged(I) : J.records[k] = I.records[k]
        /\ J.records = [k \in Staged(J) |-> J.records[k]]
    BY <2>1, <2>2, Zenon DEF Staged, Put
  <2>5. I.seq \in Nat /\ \A k \in Staged(I) : I.records[k].seq \in Nat /\ I.records[k].seq < I.seq
    BY Zenon DEF IntentsSound, RowsKept, RowKept
  <2>6. /\ J.seq \in Nat /\ I.seq < J.seq
        /\ \A k \in Staged(I) : I.records[k].seq < J.seq /\ I.records[k].seq # I.seq
    BY <2>2, <2>5
  <2>7. IsFiniteSet(Staged(J))
    <3>1. IsFiniteSet(Staged(I))
      BY Zenon DEF IntentsSound, RowsKept
    <3>2. IsFiniteSet(Staged(I) \cup {key})
      BY <3>1, FS_AddElement, Zenon
    <3>. QED
      BY <2>4, <3>2, Zenon
  <2>8. RowsKept(J)
    <3>1. ASSUME NEW k \in Staged(J) PROVE RowKept(J.records[k]) /\ J.records[k].seq < J.seq
      <4>1. CASE k = key
        BY <2>3, <2>4, <2>6, <4>1, Zenon
      <4>2. CASE k \in Staged(I)
        BY <2>4, <2>6, <4>2, Zenon DEF IntentsSound, RowsKept
      <4>. QED
        BY <2>4, <4>1, <4>2, Zenon
    <3>2. ASSUME NEW k \in Staged(J), NEW l \in Staged(J), J.records[k].seq = J.records[l].seq PROVE k = l
      <4>1. CASE k \in Staged(I) /\ l \in Staged(I)
        BY <2>4, <3>2, <4>1, Zenon DEF IntentsSound, RowsKept
      <4>2. CASE k = key \/ l = key
        BY <2>3, <2>4, <2>6, <3>2, <4>2, Zenon
      <4>. QED
        BY <2>4, <4>1, <4>2, Zenon
    <3>. QED
      BY <2>2, <2>4, <2>6, <2>7, <3>1, <3>2, Zenon DEF RowsKept, IntentsSound
  <2>9. /\ DOMAIN J.order = DOMAIN I.order \cup {I.seq} /\ J.order[I.seq] = key
        /\ \A n \in DOMAIN I.order : n # I.seq => J.order[n] = I.order[n]
    BY <2>2, Zenon DEF Put
  <2>10. Indexed(J)
    <3>1. \A n \in DOMAIN I.order : n # I.seq /\ Waiting(I, I.order[n]) /\ I.records[I.order[n]].seq = n
      BY <2>6, Zenon DEF IntentsSound, Indexed, Waiting
    <3>2. ASSUME NEW n \in DOMAIN J.order PROVE Waiting(J, J.order[n]) /\ J.records[J.order[n]].seq = n
      <4>1. CASE n = I.seq
        BY <2>3, <2>4, <2>9, <4>1, Zenon DEF Waiting
      <4>2. CASE n \in DOMAIN I.order
        <5>1. J.order[n] = I.order[n] /\ Waiting(I, I.order[n]) /\ I.records[I.order[n]].seq = n
          BY <2>9, <3>1, <4>2, Zenon
        <5>2. I.order[n] \in Staged(I) /\ I.records[I.order[n]].phase = "pending"
          BY <5>1, Zenon DEF Waiting
        <5>3. J.records[I.order[n]] = I.records[I.order[n]] /\ I.order[n] \in Staged(J)
          BY <2>4, <5>2, Zenon
        <5>. QED
          BY <5>1, <5>2, <5>3, Zenon DEF Waiting
      <4>. QED
        BY <2>9, <4>1, <4>2, Zenon
    <3>3. ASSUME NEW k, Waiting(J, k) PROVE J.records[k].seq \in DOMAIN J.order /\ J.order[J.records[k].seq] = k
      <4>1. CASE k = key
        BY <2>3, <2>4, <2>9, <4>1, Zenon
      <4>2. CASE k \in Staged(I)
        <5>1. Waiting(I, k) /\ J.records[k] = I.records[k]
          BY <2>4, <3>3, <4>2, Zenon DEF Waiting
        <5>2. I.records[k].seq \in DOMAIN I.order /\ I.order[I.records[k].seq] = k
          BY <5>1, Zenon DEF IntentsSound, Indexed
        <5>. QED
          BY <2>9, <3>1, <5>1, <5>2, Zenon
      <4>. QED
        BY <2>4, <3>3, <4>1, <4>2, Zenon DEF Waiting
    <3>. QED
      BY <3>2, <3>3, Zenon DEF Indexed
  <2>11. Larger(I, J, key, a.authority, a.size)
    BY <2>1, <2>3, <2>4, Zenon DEF Larger
  <2>12. IsFiniteSet(Staged(I)) /\ \A k \in Staged(I) : I.records[k].size \in Nat
    BY Zenon DEF IntentsSound, RowsKept, RowKept
  <2>13. MoreHeld(I, J, a.authority, a.size) /\ \A b : b # a.authority => SameHeld(I, J, b)
    <3>1. HeldGrows(I, J, a.authority, a.size)
      BY <2>11, <2>12, LargerHeld, Zenon
    <3>. QED
      BY <3>1, Zenon DEF HeldGrows
  <2>14. Charged(J)
    <3>1. DOMAIN I.counts = Authorities /\ DOMAIN J.counts = Authorities
      BY <2>2, Zenon DEF IntentsSound, Charged
    <3>2. ASSUME NEW b \in Authorities
          PROVE  Counts(J.counts[b], Cardinality(HeldBy(J, b)), SumFunctionOnSet(Sizes(J), HeldBy(J, b)))
      <4>1. Counts(I.counts[b], Cardinality(HeldBy(I, b)), SumFunctionOnSet(Sizes(I), HeldBy(I, b)))
        BY Zenon DEF IntentsSound, Charged
      <4>2. CASE b = a.authority
        <5>1. J.counts[b] = [records |-> I.counts[b].records + 1, bytes |-> I.counts[b].bytes + a.size]
          BY <2>2, <3>1, <4>2, Zenon
        <5>2. I.counts[b].records = Cardinality(HeldBy(I, b)) /\ I.counts[b].bytes = SumFunctionOnSet(Sizes(I), HeldBy(I, b))
          BY <4>1, CountFields, Zenon
        <5>. QED
          BY <2>13, <4>2, <5>1, <5>2, Zenon DEF MoreHeld, Counts
      <4>3. CASE b # a.authority
        <5>1. J.counts[b] = I.counts[b]
          BY <2>2, <3>1, <4>3, Zenon
        <5>. QED
          BY <2>13, <4>1, <4>3, <5>1, Zenon DEF SameHeld, Counts
      <4>. QED
        BY <4>2, <4>3, Zenon
    <3>. QED
      BY <3>1, <3>2, Zenon DEF Charged
  <2>. QED
    BY <2>1, <2>4, <2>8, <2>10, <2>14, Zenon DEF IntentsSound, J
<1>. QED
  BY <1>1, <1>2, Zenon

(* J is I but for one row, which keeps its number, its authority and its   *)
(* size and either stays pending under its number or leaves the index.     *)
Revised(I, J, key, row) ==
    /\ DOMAIN J = LedgerFields /\ J.seq = I.seq /\ J.counts = I.counts
    /\ Staged(J) = Staged(I) /\ J.records = [k \in Staged(J) |-> J.records[k]]
    /\ key \in Staged(I) /\ J.records[key] = row
    /\ \A k \in Staged(I) \ {key} : J.records[k] = I.records[k]
    /\ RowKept(row) /\ row.seq = I.records[key].seq
    /\ row.authority = I.records[key].authority /\ row.size = I.records[key].size
    /\ \/ J.order = I.order /\ (row.phase = "pending" <=> I.records[key].phase = "pending")
       \/ J.order = Drop(I.order, row.seq) /\ row.phase # "pending"

(* Such a revision keeps the tables in step. *)
LEMMA RevisedSound ==
    ASSUME NEW I, IntentsSound(I), NEW J, NEW key, NEW row, Revised(I, J, key, row)
    PROVE  IntentsSound(J)
<1>1. \A k \in Staged(I) : /\ J.records[k].seq = I.records[k].seq
                           /\ J.records[k].authority = I.records[k].authority
                           /\ J.records[k].size = I.records[k].size
                           /\ RowKept(J.records[k])
  BY Zenon DEF Revised, IntentsSound, RowsKept
<1>2. RowsKept(J)
  <2>1. \A k \in Staged(J) : RowKept(J.records[k]) /\ J.records[k].seq < J.seq
    BY <1>1, Zenon DEF Revised, IntentsSound, RowsKept
  <2>2. \A k, l \in Staged(J) : J.records[k].seq = J.records[l].seq => k = l
    BY <1>1, Zenon DEF Revised, IntentsSound, RowsKept
  <2>3. /\ DOMAIN J = LedgerFields /\ J.seq \in Nat /\ Staged(J) \subseteq Digests /\ IsFiniteSet(Staged(J))
        /\ J.records = [k \in Staged(J) |-> J.records[k]]
    BY Zenon DEF Revised, IntentsSound, RowsKept
  <2>. QED
    BY <2>1, <2>2, <2>3, Zenon DEF RowsKept
<1>3. Charged(J)
  <2>1. Staged(J) = Staged(I) /\ J.counts = I.counts
    BY Zenon DEF Revised
  <2>. QED
    BY <1>1, <2>1, AlikeCharged, Zenon DEF IntentsSound
<1>4. /\ \A n \in DOMAIN I.order : Waiting(I, I.order[n]) /\ I.records[I.order[n]].seq = n
      /\ \A k : Waiting(I, k) => I.records[k].seq \in DOMAIN I.order /\ I.order[I.records[k].seq] = k
  BY Zenon DEF IntentsSound, Indexed
<1>5. \A k \in Staged(I) \ {key} : Waiting(J, k) <=> Waiting(I, k)
  BY Zenon DEF Waiting, Revised
<1>6. key \in Staged(I) /\ Staged(J) = Staged(I) /\ J.records[key] = row /\ row.seq = I.records[key].seq
  BY Zenon DEF Revised
<1>7. CASE J.order = I.order /\ (row.phase = "pending" <=> I.records[key].phase = "pending")
  <2>1. \A k : Waiting(J, k) <=> Waiting(I, k)
    BY <1>5, <1>6, <1>7, Zenon DEF Waiting
  <2>2. \A k : Waiting(I, k) => J.records[k].seq = I.records[k].seq
    BY <1>1, Zenon DEF Waiting
  <2>3. Indexed(J)
    BY <1>4, <1>7, <2>1, <2>2, Zenon DEF Indexed
  <2>. QED
    BY <1>2, <1>3, <2>3, Zenon DEF IntentsSound
<1>8. CASE J.order = Drop(I.order, row.seq) /\ row.phase # "pending"
  <2>1. DOMAIN J.order = DOMAIN I.order \ {row.seq} /\ \A n \in DOMAIN J.order : J.order[n] = I.order[n]
    BY <1>8, Zenon DEF Drop
  <2>2. ASSUME NEW n \in DOMAIN J.order PROVE Waiting(J, J.order[n]) /\ J.records[J.order[n]].seq = n
    <3>1. J.order[n] = I.order[n] /\ n # row.seq /\ Waiting(I, I.order[n]) /\ I.records[I.order[n]].seq = n
      BY <1>4, <2>1, Zenon
    <3>2. I.order[n] \in Staged(I) \ {key}
      BY <1>6, <3>1, Zenon DEF Waiting
    <3>. QED
      BY <1>1, <1>5, <3>1, <3>2, Zenon
  <2>3. ASSUME NEW k, Waiting(J, k) PROVE J.records[k].seq \in DOMAIN J.order /\ J.order[J.records[k].seq] = k
    <3>1. k # key /\ k \in Staged(I)
      BY <1>6, <1>8, <2>3, Zenon DEF Waiting
    <3>2. Waiting(I, k) /\ J.records[k].seq = I.records[k].seq
      BY <1>1, <1>5, <2>3, <3>1, Zenon
    <3>3. I.records[k].seq # row.seq
      BY <1>6, <3>1, Zenon DEF IntentsSound, RowsKept
    <3>4. I.records[k].seq \in DOMAIN I.order /\ I.order[I.records[k].seq] = k
      BY <1>4, <3>2, Zenon
    <3>. QED
      BY <2>1, <3>2, <3>3, <3>4, Zenon
  <2>4. Indexed(J)
    BY <2>2, <2>3, Zenon DEF Indexed
  <2>. QED
    BY <1>2, <1>3, <2>4, Zenon DEF IntentsSound
<1>. QED
  BY <1>7, <1>8, Zenon DEF Revised

(* Settling and expiring take an intent out of the index. *)
LEMMA AdvanceSound ==
    ASSUME NEW I, IntentsSound(I), NEW key, NEW to \in {"admitted", "expired"}
    PROVE  LET J == advance_intent(I, key, to)
           IN  /\ IntentsSound(J) /\ Staged(J) = Staged(I)
               /\ \A d : d # key => PhaseOf(J, d) = PhaseOf(I, d)
<1>. DEFINE J == advance_intent(I, key, to)
            row == [I.records[key] EXCEPT !.phase = to]
<1>1. CASE ~(key \in Staged(I) /\ Rank(to) > Rank(I.records[key].phase))
  BY <1>1, Zenon DEF advance_intent
<1>2. CASE key \in Staged(I) /\ Rank(to) > Rank(I.records[key].phase)
  <2>1. DOMAIN I = LedgerFields /\ RowKept(I.records[key]) /\ I.records = [k \in Staged(I) |-> I.records[k]]
    BY <1>2, Zenon DEF IntentsSound, RowsKept
  <2>2. /\ DOMAIN J = LedgerFields /\ J.seq = I.seq /\ J.counts = I.counts
        /\ J.records = [I.records EXCEPT ![key].phase = to] /\ J.order = Drop(I.order, I.records[key].seq)
    BY <1>2, <2>1, Zenon DEF advance_intent, LedgerFields
  <2>. HIDE DEF J
  <2>3. /\ RowKept(row) /\ row.phase = to /\ row.seq = I.records[key].seq
        /\ row.authority = I.records[key].authority /\ row.size = I.records[key].size
    BY <2>1, Zenon DEF RowKept, RowFieldNames
  <2>4. /\ Staged(J) = Staged(I) /\ J.records[key] = row
        /\ \A k \in Staged(I) \ {key} : J.records[k] = I.records[k]
        /\ J.records = [k \in Staged(J) |-> J.records[k]]
    BY <1>2, <2>1, <2>2, Zenon DEF Staged
  <2>. HIDE DEF row
  <2>5. to # "pending"
    OBVIOUS
  <2>6. Revised(I, J, key, row)
    BY <1>2, <2>2, <2>3, <2>4, <2>5, Zenon DEF Revised
  <2>7. \A d : d # key => PhaseOf(J, d) = PhaseOf(I, d)
    BY <2>4, Zenon DEF PhaseOf
  <2>. QED
    BY <2>4, <2>6, <2>7, RevisedSound, Zenon DEF J
<1>. QED
  BY <1>1, <1>2, Zenon

(* Refusing an intent leaves its phase. *)
LEMMA RefuseSound ==
    ASSUME NEW I, IntentsSound(I), NEW key
    PROVE  LET J == refuse_intent(I, key)
           IN  /\ IntentsSound(J) /\ Staged(J) = Staged(I)
               /\ \A d : PhaseOf(J, d) = PhaseOf(I, d)
<1>. DEFINE J == refuse_intent(I, key)
            old == I.records[key]
            n == IF old.refusals < MaxRefusals THEN old.refusals + 1 ELSE old.refusals
            row == [old EXCEPT !.refusals = n]
<1>1. CASE PhaseOf(I, key) # "pending"
  BY <1>1, Zenon DEF refuse_intent
<1>2. CASE PhaseOf(I, key) = "pending"
  <2>1. key \in Staged(I)
    BY <1>2, Zenon DEF PhaseOf
  <2>2. DOMAIN I = LedgerFields /\ RowKept(old) /\ I.records = [k \in Staged(I) |-> I.records[k]]
    BY <2>1, Zenon DEF IntentsSound, RowsKept
  <2>3. /\ DOMAIN J = LedgerFields /\ J.seq = I.seq /\ J.counts = I.counts /\ J.order = I.order
        /\ J.records = [I.records EXCEPT ![key] = row]
    BY <1>2, <2>1, <2>2, Zenon DEF refuse_intent, LedgerFields
  <2>. HIDE DEF J, n
  <2>4. /\ RowKept(row) /\ row.phase = old.phase /\ row.seq = old.seq
        /\ row.authority = old.authority /\ row.size = old.size
    BY <2>2, Zenon DEF RowKept, RowFieldNames
  <2>. HIDE DEF row
  <2>5. /\ Staged(J) = Staged(I) /\ J.records[key] = row
        /\ \A k \in Staged(I) \ {key} : J.records[k] = I.records[k]
        /\ J.records = [k \in Staged(J) |-> J.records[k]]
    BY <2>1, <2>2, <2>3, Zenon DEF Staged
  <2>6. Revised(I, J, key, row)
    BY <2>1, <2>3, <2>4, <2>5, Zenon DEF Revised
  <2>7. \A d : PhaseOf(J, d) = PhaseOf(I, d)
    BY <2>4, <2>5, Zenon DEF PhaseOf
  <2>. QED
    BY <2>5, <2>6, <2>7, RevisedSound, Zenon DEF J
<1>. QED
  BY <1>1, <1>2, Zenon

(* Pruning takes a settled intent and its charge out. *)
LEMMA PruneSound ==
    ASSUME NEW I, IntentsSound(I), NEW key \in Prunable(I)
    PROVE  LET J == prune_ingress_intents(I, key)
           IN  IntentsSound(J) /\ Staged(J) = Staged(I) \ {key}
<1>. DEFINE J == prune_ingress_intents(I, key)
            a == I.records[key].authority
            size == I.records[key].size
<1>1. key \in Staged(I) /\ I.records[key].phase # "pending"
  <2>1. key \in Staged(I) /\ I.records[key].phase \in {"admitted", "expired"}
    BY Zenon DEF Prunable, PhaseOf
  <2>. QED
    BY <2>1
<1>2. DOMAIN I = LedgerFields /\ RowKept(I.records[key])
  BY <1>1, Zenon DEF IntentsSound, RowsKept
<1>3. /\ DOMAIN J = LedgerFields /\ J.seq = I.seq /\ J.order = I.order
      /\ J.records = Drop(I.records, key)
      /\ J.counts = [I.counts EXCEPT ![a] = [records |-> @.records - 1, bytes |-> @.bytes - size]]
  BY <1>2, Zenon DEF prune_ingress_intents, refund_capacity, LedgerFields
<1>. HIDE DEF J
<1>4. /\ Staged(J) = Staged(I) \ {key} /\ \A k \in Staged(J) : J.records[k] = I.records[k]
      /\ J.records = [k \in Staged(J) |-> J.records[k]]
  BY <1>3, Zenon DEF Staged, Drop
<1>5. IsFiniteSet(Staged(J))
  BY <1>4, FS_Subset, Zenon DEF IntentsSound, RowsKept
<1>6. RowsKept(J)
  BY <1>3, <1>4, <1>5, Zenon DEF IntentsSound, RowsKept
<1>7. \A k : Waiting(J, k) <=> Waiting(I, k)
  BY <1>1, <1>4, Zenon DEF Waiting
<1>8. Indexed(J)
  <2>1. \A k : Waiting(I, k) => J.records[k] = I.records[k]
    BY <1>1, <1>4, Zenon DEF Waiting
  <2>. QED
    BY <1>3, <1>7, <2>1, Zenon DEF IntentsSound, Indexed
<1>9. Larger(J, I, key, a, size)
  BY <1>1, <1>4, Zenon DEF Larger
<1>10. size \in Nat /\ a \in Authorities /\ \A k \in Staged(J) : J.records[k].size \in Nat
  BY <1>2, <1>6, Zenon DEF RowKept, RowsKept
<1>. HIDE DEF a, size
<1>11. size \in Nat /\ \A k \in Staged(J) : J.records[k].size \in Nat
  BY <1>10, Zenon
<1>12. MoreHeld(J, I, a, size) /\ \A b : b # a => SameHeld(J, I, b)
  <2>1. HeldGrows(J, I, a, size)
    BY <1>5, <1>9, <1>11, LargerHeld, Zenon
  <2>. QED
    BY <2>1, Zenon DEF HeldGrows
<1>13. Charged(J)
  <2>1. DOMAIN I.counts = Authorities /\ DOMAIN J.counts = Authorities
    BY <1>3, Zenon DEF IntentsSound, Charged
  <2>2. ASSUME NEW b \in Authorities
        PROVE  Counts(J.counts[b], Cardinality(HeldBy(J, b)), SumFunctionOnSet(Sizes(J), HeldBy(J, b)))
    <3>1. Counts(I.counts[b], Cardinality(HeldBy(I, b)), SumFunctionOnSet(Sizes(I), HeldBy(I, b)))
      BY Zenon DEF IntentsSound, Charged
    <3>2. CASE b = a
      <4>. DEFINE c == Cardinality(HeldBy(J, a))
                  s == SumFunctionOnSet(Sizes(J), HeldBy(J, a))
      <4>1. J.counts[b] = [records |-> I.counts[b].records - 1, bytes |-> I.counts[b].bytes - size]
        BY <1>3, <2>1, <3>2, Zenon
      <4>2. I.counts[b].records = c + 1 /\ I.counts[b].bytes = s + size /\ c \in Int /\ s \in Int
        <5>1. I.counts[b].records = Cardinality(HeldBy(I, b)) /\ I.counts[b].bytes = SumFunctionOnSet(Sizes(I), HeldBy(I, b))
          BY <3>1, CountFields, Zenon
        <5>. QED
          BY <1>12, <3>2, <5>1, Zenon DEF MoreHeld
      <4>. HIDE DEF c, s
      <4>3. (c + 1) - 1 = c /\ (s + size) - size = s
        BY <1>10, <4>2
      <4>. QED
        BY <3>2, <4>1, <4>2, <4>3, Zenon DEF c, s, Counts
    <3>3. CASE b # a
      <4>1. J.counts[b] = I.counts[b]
        BY <1>3, <2>1, <3>3, Zenon
      <4>. QED
        BY <1>12, <3>1, <3>3, <4>1, Zenon DEF SameHeld, Counts
    <3>. QED
      BY <3>2, <3>3, Zenon
  <2>. QED
    BY <2>1, <2>2, Zenon DEF Charged
<1>. QED
  BY <1>4, <1>6, <1>8, <1>13, Zenon DEF IntentsSound, J

-----------------------------------------------------------------------------
(* What a request and a pass hold between two of their steps.              *)

Offer == [digest : Digests, id : Ids \cup {None}]
RequestFields == {"pc", "digest", "kind", "id", "elder"}
PassFields == {"pc", "kind", "queue", "resume", "digest", "id"}
Finishing == {"charging", "publishing", "settling"}

RequestOK(r) ==
    /\ DOMAIN r = RequestFields
    /\ r.id \in Ids \cup {None}
    /\ r.pc # "idle" => r.digest \in Digests

RequestsOK == DOMAIN push = Pushes /\ \A p \in Pushes : RequestOK(push[p])

(* The entries of a queue are of intents in S. *)
QueueFrom(q, S) == q \in Seq(Offer) /\ \A i \in DOMAIN q : q[i].digest \in S

(* S are the staged intents, L the digests that landed. *)
PassOK(r, S, L) ==
    /\ DOMAIN r = PassFields
    /\ r.kind = "sweep" => QueueFrom(r.queue, S)
    /\ r.pc \in Finishing => r.digest \in S
    /\ r.pc = "settling" => r.digest \in L

PassesOK == DOMAIN finalizer = Finalizers /\ \A f \in Finalizers : PassOK(finalizer[f], Staged(intents), landed)

(* What a finalizer works on stays staged, and has landed once it settles. *)
PushInv == IntentsSound(intents) /\ RequestsOK /\ PassesOK

(* The rest of a queue. *)
LEMMA QueueRest ==
    ASSUME NEW q, NEW S, QueueFrom(q, S), q # <<>>
    PROVE  Head(q) \in Offer /\ Head(q).digest \in S /\ QueueFrom(Tail(q), S)
<1>. DEFINE t == Tail(q)
<1>1. q \in Seq(Offer) /\ \A i \in DOMAIN q : q[i].digest \in S
  BY Zenon DEF QueueFrom
<1>. HIDE DEF Offer
<1>2. 1 \in DOMAIN q /\ Head(q) = q[1] /\ Head(q) \in Offer
  BY <1>1
<1>3. t \in Seq(Offer) /\ \A i \in DOMAIN t : i + 1 \in DOMAIN q /\ t[i] = q[i + 1]
  BY <1>1
<1>. HIDE DEF t
<1>4. \A i \in DOMAIN t : t[i].digest \in S
  BY <1>1, <1>3, Zenon
<1>. QED
  BY <1>1, <1>2, <1>3, <1>4, Zenon DEF QueueFrom, t

(* A pass minds neither more intents nor more landed ones. *)
LEMMA PassMono ==
    ASSUME NEW r, NEW S, NEW L, PassOK(r, S, L), NEW S2, S \subseteq S2, NEW L2, L \cap S \subseteq L2
    PROVE  PassOK(r, S2, L2)
<1>1. r.kind = "sweep" => QueueFrom(r.queue, S2)
  BY Zenon DEF PassOK, QueueFrom
<1>2. r.pc = "settling" => r.pc \in Finishing
  BY Zenon DEF Finishing
<1>. QED
  BY <1>1, <1>2, Zenon DEF PassOK

(* Steps that leave the passes and take no intent away. *)
LEMMA PassesStay ==
    ASSUME PassesOK, finalizer' = finalizer, Staged(intents) \subseteq Staged(intents'),
           landed \cap Staged(intents) \subseteq landed'
    PROVE  PassesOK'
BY PassMono, Zenon DEF PassesOK

(* A step of one pass. *)
LEMMA PassesStep ==
    ASSUME PassesOK, NEW f \in Finalizers, NEW r, Pass(f, r), PassOK(r, Staged(intents'), landed'),
           Staged(intents) \subseteq Staged(intents'), landed \cap Staged(intents) \subseteq landed'
    PROVE  PassesOK'
<1>1. DOMAIN finalizer' = Finalizers /\ finalizer'[f] = r /\ \A g \in Finalizers : g # f => finalizer'[g] = finalizer[g]
  BY Zenon DEF Pass, PassesOK
<1>2. ASSUME NEW g \in Finalizers PROVE PassOK(finalizer'[g], Staged(intents'), landed')
  <2>1. CASE g = f
    BY <1>1, <2>1, Zenon
  <2>2. CASE g # f
    <3>1. PassOK(finalizer[g], Staged(intents), landed)
      BY Zenon DEF PassesOK
    <3>2. PassOK(finalizer[g], Staged(intents'), landed')
      BY <3>1, PassMono, Zenon
    <3>. QED
      BY <1>1, <2>2, <3>2, Zenon
  <2>. QED
    BY <2>1, <2>2, Zenon
<1>. QED
  BY <1>1, <1>2, Zenon DEF PassesOK

(* A step of one request. *)
LEMMA RequestStep ==
    ASSUME RequestsOK, NEW p \in Pushes, NEW r, RequestOK(r), push' = [push EXCEPT ![p] = r]
    PROVE  RequestsOK'
BY Zenon DEF RequestsOK

(* A request slot at rest. *)
LEMMA IdleOK == RequestOK(Idle)
BY Zenon DEF Idle, RequestOK, RequestFields

(* A request that is over. *)
LEMMA DoneOK ==
    ASSUME RequestsOK, NEW p \in Pushes, Done(p) PROVE RequestsOK'
BY IdleOK, RequestStep, Zenon DEF Done

(* A request that moves on with what it holds. *)
LEMMA GotoOK ==
    ASSUME RequestsOK, NEW p \in Pushes, push[p].pc # "idle", NEW pc, Goto(p, pc) PROVE RequestsOK'
<1>. DEFINE r == [push[p] EXCEPT !.pc = pc]
<1>1. push' = [push EXCEPT ![p] = r]
  BY Zenon DEF Goto
<1>2. RequestOK(push[p])
  BY Zenon DEF RequestsOK
<1>3. DOMAIN r = RequestFields /\ r.id = push[p].id /\ r.digest = push[p].digest
  BY <1>2, Zenon DEF RequestOK, RequestFields
<1>4. RequestOK(r)
  BY <1>2, <1>3, Zenon DEF RequestOK
<1>. HIDE DEF r
<1>. QED
  BY <1>1, <1>4, RequestStep, Zenon

(* No pass at all. *)
LEMMA NoPassOK == \A S, L : PassOK(NoPass, S, L)
<1>1. /\ DOMAIN NoPass = PassFields /\ NoPass.kind = "sweep" /\ NoPass.queue = <<>> /\ NoPass.pc = "idle"
  BY Zenon DEF NoPass, PassFields
<1>2. "idle" \notin Finishing /\ "idle" # "settling"
  BY DEF Finishing
<1>3. \A S : QueueFrom(<<>>, S)
  BY DEF QueueFrom
<1>. QED
  BY <1>1, <1>2, <1>3, Zenon DEF PassOK

-----------------------------------------------------------------------------
(* Each action keeps it.                                                   *)

(* Steps of a request that only move it and, maybe, land its digest. *)
LEMMA PlainStep ==
    ASSUME PushInv, RequestsOK', intents' = intents, finalizer' = finalizer, landed \subseteq landed'
    PROVE  PushInv'
BY PassesStay, Zenon DEF PushInv

(* A request arrives. *)
LEMMA BeginKeeps ==
    ASSUME PushInv, NEW p \in Pushes, NEW d \in Digests, NEW kind, Begin(p, d, kind) PROVE PushInv'
<1>1. intents' = intents /\ finalizer' = finalizer /\ landed' = landed
  BY Zenon DEF Begin
<1>2. \A id \in Ids \cup {None} : RequestOK(Started(d, kind, id))
  BY Zenon DEF Started, RequestOK, RequestFields
<1>3. \E id \in Ids \cup {None} : push' = [push EXCEPT ![p] = Started(d, kind, id)]
  BY Zenon DEF Begin, Fresh
<1>4. RequestsOK'
  BY <1>2, <1>3, RequestStep, Zenon DEF PushInv
<1>. QED
  BY <1>1, <1>4, PlainStep, Zenon

(* A request stages its intent (or finds it staged). *)
LEMMA StageKeepsInv ==
    ASSUME PushInv, NEW p \in Pushes, Stage(p), Authority \in Authorities, \A d \in Digests : Size(d) \in Nat PROVE PushInv'
<1>. DEFINE a == Admission(p)
            d == push[p].digest
<1>1. RequestOK(push[p]) /\ push[p].pc = "staging" /\ IntentsSound(intents) /\ RequestsOK /\ PassesOK
  BY Zenon DEF Stage, PushInv, RequestsOK
<1>2. push[p].pc # "idle"
  BY <1>1
<1>3. a.key = d /\ a.authority \in Authorities /\ a.size \in Nat /\ a.payload \in Ids \cup {None} /\ d \in Digests
  BY <1>1, <1>2, Zenon DEF Admission, RequestOK
<1>4. intents' = stage_intent(intents, a) /\ finalizer' = finalizer
  BY Zenon DEF Stage
<1>. HIDE DEF a
<1>5. /\ IntentsSound(intents') /\ Staged(intents) \subseteq Staged(intents')
      /\ stage_outcome(intents, a) = "admitted" => d \notin Staged(intents)
  BY <1>1, <1>3, <1>4, StageSound, Zenon
<1>6. CASE stage_outcome(intents, a) = "admitted"
  <2>1. /\ landed' = landed \ {d}
        /\ push' = [q \in Pushes |->
                 [push[q] EXCEPT !.elder = @ \/ push[q].digest = d, !.pc = IF q = p THEN "publishing" ELSE @]]
    BY <1>6, Zenon DEF Stage, GiveBack, a
  <2>2. ASSUME NEW q \in Pushes PROVE RequestOK(push'[q])
    <3>. DEFINE e == push[q].elder \/ push[q].digest = d
                c == IF q = p THEN "publishing" ELSE push[q].pc
                r == [push[q] EXCEPT !.elder = e, !.pc = c]
    <3>1. RequestOK(push[q]) /\ push'[q] = r
      BY <1>1, <2>1, Zenon DEF RequestsOK
    <3>2. c # "idle" => push[q].digest \in Digests
      BY <1>3, <3>1, Zenon DEF RequestOK
    <3>. HIDE DEF e, c
    <3>3. DOMAIN r = RequestFields /\ r.id = push[q].id /\ r.digest = push[q].digest /\ r.pc = c
      BY <3>1, Zenon DEF RequestOK, RequestFields
    <3>. QED
      BY <3>1, <3>2, <3>3, Zenon DEF RequestOK
  <2>3. RequestsOK'
    BY <2>1, <2>2, Zenon DEF RequestsOK
  <2>4. landed \cap Staged(intents) \subseteq landed'
    BY <1>5, <1>6, <2>1, Zenon
  <2>5. PassesOK'
    BY <1>1, <1>4, <1>5, <2>4, PassesStay, Zenon
  <2>. QED
    BY <1>5, <2>3, <2>5, Zenon DEF PushInv
<1>7. CASE stage_outcome(intents, a) # "admitted"
  <2>1. landed' = landed /\ (Goto(p, "publishing") \/ Done(p))
    BY <1>7, Zenon DEF Stage, GiveBack, a
  <2>2. RequestsOK'
    BY <1>1, <1>2, <2>1, GotoOK, DoneOK, Zenon
  <2>3. PassesOK'
    BY <1>1, <1>4, <1>5, <2>1, PassesStay, Zenon
  <2>. QED
    BY <1>5, <2>2, <2>3, Zenon DEF PushInv
<1>. QED
  BY <1>6, <1>7, Zenon

(* Requests that have nothing to do with the intents. *)
LEMMA RequestKeeps ==
    ASSUME PushInv, NEW p \in Pushes,
           \/ Store(p) \/ StoreFails(p) \/ Publish(p) \/ PublishFails(p) \/ Unwind(p) \/ Fenced(p)
           \/ (\E proven \in BOOLEAN : Acknowledge(p, proven)) \/ Dropped(p)
    PROVE  PushInv'
<1>1. intents' = intents /\ finalizer' = finalizer /\ landed \subseteq landed'
  BY Zenon DEF Store, StoreFails, Publish, PublishFails, Unwind, Fenced, Acknowledge, Dropped, Join
<1>2. Done(p) \/ \E pc : Goto(p, pc) /\ push[p].pc \in {"storing", "publishing"}
  BY Zenon DEF Store, StoreFails, Publish, PublishFails, Unwind, Fenced, Acknowledge, Dropped, GiveBack
<1>3. \A pc \in {"storing", "publishing"} : pc # "idle"
  OBVIOUS
<1>4. RequestsOK'
  BY <1>2, <1>3, DoneOK, GotoOK, Zenon DEF PushInv
<1>. QED
  BY <1>1, <1>4, PlainStep, Zenon

(* A request settles its own intent. *)
LEMMA SettleKeeps ==
    ASSUME PushInv, NEW p \in Pushes, Settle(p) PROVE PushInv'
<1>1. /\ intents' = advance_intent(intents, push[p].digest, "admitted") /\ finalizer' = finalizer
      /\ landed' = landed /\ Goto(p, "acking") /\ push[p].pc = "settling"
  BY Zenon DEF Settle
<1>2. IntentsSound(intents') /\ Staged(intents') = Staged(intents)
  BY <1>1, AdvanceSound, Zenon DEF PushInv
<1>3. push[p].pc # "idle"
  BY <1>1
<1>4. RequestsOK'
  BY <1>1, <1>3, GotoOK, Zenon DEF PushInv
<1>5. PassesOK'
  BY <1>1, <1>2, PassesStay, Zenon DEF PushInv
<1>. QED
  BY <1>2, <1>4, <1>5, Zenon DEF PushInv

-----------------------------------------------------------------------------
(* The finalizers.                                                         *)

(* A listing names staged intents. *)
LEMMA KeysNamed ==
    ASSUME NEW I, IntentsSound(I), NEW seqs, seqs \subseteq DOMAIN I.order
    PROVE  \E c \in Nat : DOMAIN Keys(I, seqs) = 1..c /\ \A i \in 1..c : Keys(I, seqs)[i] \in Staged(I)
<1>1. \A n \in DOMAIN I.order : I.order[n] \in Staged(I) /\ I.records[I.order[n]].seq = n /\ n \in Nat
  <2>1. \A n \in DOMAIN I.order : I.order[n] \in Staged(I) /\ I.records[I.order[n]].seq = n
    BY Zenon DEF IntentsSound, Indexed, Waiting
  <2>2. \A key \in Staged(I) : I.records[key].seq \in Nat
    BY Zenon DEF IntentsSound, RowsKept, RowKept
  <2>. QED
    BY <2>1, <2>2, Zenon
<1>2. IsFiniteSet(Staged(I))
  BY Zenon DEF IntentsSound, RowsKept
<1>. DEFINE number == [k \in Staged(I) |-> I.records[k].seq]
            numbers == {number[k] : k \in Staged(I)}
<1>3. IsFiniteSet(numbers)
  <2>1. number \in Surjection(Staged(I), numbers)
    BY Zenon DEF Surjection
  <2>. HIDE DEF number, numbers
  <2>. QED
    BY <1>2, <2>1, FS_Surjection, Zenon
<1>4. \A n \in DOMAIN I.order : n \in numbers
  BY <1>1, Zenon
<1>5. seqs \in SUBSET Nat /\ IsFiniteSet(seqs)
  BY <1>1, <1>3, <1>4, FS_Subset, Zenon
<1>. DEFINE c == Cardinality(seqs)
            s == CHOOSE s \in Bijection(1..c, seqs) : \A i, j \in DOMAIN s : i < j => s[i] < s[j]
<1>6. c \in Nat
  BY <1>5, FS_CardinalityType, Zenon
<1>7. s \in Bijection(1..c, seqs)
  BY <1>5, OrderExists, Zenon DEF Orders, Ascending
<1>8. Keys(I, seqs) = [i \in DOMAIN s |-> I.order[s[i]]]
  BY Zenon DEF Keys
<1>. HIDE DEF s, c
<1>9. s \in [1..c -> seqs]
  BY <1>7, Zenon DEF Bijection, Injection
<1>10. DOMAIN s = 1..c /\ \A i \in 1..c : s[i] \in DOMAIN I.order
  BY <1>9, Zenon
<1>11. DOMAIN Keys(I, seqs) = 1..c /\ \A i \in 1..c : Keys(I, seqs)[i] = I.order[s[i]]
  BY <1>8, <1>10, Zenon
<1>. QED
  BY <1>1, <1>6, <1>10, <1>11, Zenon

(* What is listed is offered. *)
LEMMA SeqFrom ==
    ASSUME NEW S, NEW c \in Nat, NEW q, q \in [1..c -> S]
    PROVE  q \in Seq(S) /\ DOMAIN q = 1..c
OBVIOUS

(* The sweep lists the pending intents. *)
LEMMA SweepStartKeeps ==
    ASSUME PushInv, NEW f \in Finalizers, SweepStart(f) PROVE PushInv'
<1>. DEFINE pending == list_pending_intents(intents)
            queue == [i \in DOMAIN pending |-> Entry(pending[i])]
            r == [NoPass EXCEPT !.pc = "next", !.queue = queue]
<1>1. IntentsSound(intents) /\ RequestsOK /\ PassesOK
  BY Zenon DEF PushInv
<1>2. Pass(f, r) /\ intents' = intents /\ push' = push /\ landed' = landed
  BY Zenon DEF SweepStart
<1>3. PICK c \in Nat : DOMAIN pending = 1..c /\ \A i \in 1..c : pending[i] \in Staged(intents)
  <2>. DEFINE seqs == {n \in DOMAIN intents.order : intents.records[intents.order[n]].refusals < MaxRefusals}
  <2>1. pending = Keys(intents, seqs) /\ seqs \subseteq DOMAIN intents.order
    BY Zenon DEF list_pending_intents
  <2>. HIDE DEF seqs, pending
  <2>. QED
    BY <1>1, <2>1, KeysNamed, Zenon
<1>. HIDE DEF pending
<1>4. \A d \in Staged(intents) : Entry(d) \in Offer /\ Entry(d).digest = d
  BY <1>1, Zenon DEF Entry, Offer, IntentsSound, RowsKept, RowKept
<1>5. \A i \in 1..c : queue[i] \in Offer /\ queue[i].digest \in Staged(intents)
  BY <1>3, <1>4, Zenon
<1>6. queue \in [1..c -> Offer]
  BY <1>3, <1>5, Zenon
<1>. HIDE DEF queue
<1>7. QueueFrom(queue, Staged(intents))
  BY <1>5, <1>6, SeqFrom, Zenon DEF QueueFrom
<1>8. DOMAIN r = PassFields /\ r.pc = "next" /\ r.queue = queue
  BY Zenon DEF NoPass, PassFields
<1>. HIDE DEF r
<1>9. "next" \notin Finishing /\ "next" # "settling"
  BY DEF Finishing
<1>10. PassOK(r, Staged(intents), landed)
  BY <1>7, <1>8, <1>9, Zenon DEF PassOK
<1>11. PassesOK'
  BY <1>1, <1>2, <1>10, PassesStep, Zenon
<1>. QED
  BY <1>1, <1>2, <1>11, Zenon DEF PushInv, RequestsOK

(* The drain lists its next page. *)
LEMMA DrainPageKeeps ==
    ASSUME PushInv, NEW f \in Finalizers, DrainPage(f) PROVE PushInv'
<1>. DEFINE page == Page(finalizer[f].resume)
            queue == [i \in DOMAIN page |-> [digest |-> page[i], id |-> None]]
            last == intents.records[page[Len(page)]].seq
            r == [NoPass EXCEPT !.pc = "next", !.kind = "drain", !.queue = queue, !.resume = last]
<1>1. IntentsSound(intents) /\ RequestsOK /\ PassesOK
  BY Zenon DEF PushInv
<1>2. Pass(f, r) /\ intents' = intents /\ push' = push /\ landed' = landed
  BY Zenon DEF DrainPage
<1>. HIDE DEF queue, last
<1>3. DOMAIN r = PassFields /\ r.pc = "next" /\ r.kind = "drain"
  BY Zenon DEF NoPass, PassFields
<1>. HIDE DEF r
<1>4. "next" \notin Finishing /\ "next" # "settling" /\ "drain" # "sweep"
  BY DEF Finishing
<1>5. PassOK(r, Staged(intents), landed)
  BY <1>3, <1>4, Zenon DEF PassOK
<1>6. PassesOK'
  BY <1>1, <1>2, <1>5, PassesStep, Zenon
<1>. QED
  BY <1>1, <1>2, <1>6, Zenon DEF PushInv, RequestsOK

(* What a pass takes from its queue is staged, and the rest stays good. *)
LEMMA OfferStaged ==
    ASSUME PushInv, NEW f \in Finalizers, finalizer[f].queue # <<>>
    PROVE  /\ Offered(f).digest # None => Offered(f).digest \in Staged(intents)
           /\ DOMAIN Popped(f) = PassFields /\ Popped(f).kind = finalizer[f].kind /\ Popped(f).pc = finalizer[f].pc
           /\ Popped(f).kind = "sweep" => QueueFrom(Popped(f).queue, Staged(intents))
<1>. DEFINE w == finalizer[f]
            head == Head(w.queue)
<1>1. PassOK(w, Staged(intents), landed)
  BY Zenon DEF PushInv, PassesOK
<1>2. /\ DOMAIN Popped(f) = PassFields /\ Popped(f).kind = w.kind /\ Popped(f).pc = w.pc
      /\ Popped(f).queue = Tail(w.queue)
  BY <1>1, Zenon DEF Popped, PassOK, PassFields
<1>3. w.kind = "sweep" => head.digest \in Staged(intents) /\ QueueFrom(Tail(w.queue), Staged(intents))
  BY <1>1, QueueRest, Zenon DEF PassOK
<1>4. Offered(f).digest # None => Offered(f).digest \in Staged(intents)
  <2>1. CASE w.kind = "sweep"
    BY <1>3, <2>1, Zenon DEF Offered
  <2>2. CASE w.kind # "sweep" /\ head.digest \in Staged(intents)
    <3>1. Offered(f) = Entry(head.digest)
      BY <2>2, Zenon DEF Offered
    <3>2. Entry(head.digest).digest = head.digest
      BY Zenon DEF Entry
    <3>. QED
      BY <2>2, <3>1, <3>2, Zenon
  <2>3. CASE w.kind # "sweep" /\ head.digest \notin Staged(intents)
    BY <2>3, Zenon DEF Offered
  <2>. QED
    BY <2>1, <2>2, <2>3, Zenon
<1>. QED
  BY <1>2, <1>3, <1>4, Zenon

(* A pass that drops the head of its queue. *)
LEMMA PoppedOK ==
    ASSUME PushInv, NEW f \in Finalizers, finalizer[f].queue # <<>>, finalizer[f].pc = "next"
    PROVE  PassOK(Popped(f), Staged(intents), landed)
<1>1. "next" \notin Finishing /\ "next" # "settling"
  BY DEF Finishing
<1>. QED
  BY <1>1, OfferStaged, Zenon DEF PassOK

(* A pass passes over, or refuses, the head of its queue. *)
LEMMA QueueKeeps ==
    ASSUME PushInv, NEW f \in Finalizers, Refuse(f) \/ Skip(f) PROVE PushInv'
<1>1. /\ finalizer[f].pc = "next" /\ finalizer[f].queue # <<>>
      /\ Pass(f, Popped(f)) /\ push' = push /\ landed' = landed
      /\ intents' = intents \/ intents' = refuse_intent(intents, Offered(f).digest)
  BY Zenon DEF Refuse, Skip
<1>2. IntentsSound(intents) /\ RequestsOK /\ PassesOK
  BY Zenon DEF PushInv
<1>3. IntentsSound(intents') /\ Staged(intents') = Staged(intents)
  BY <1>1, <1>2, RefuseSound, Zenon
<1>4. PassOK(Popped(f), Staged(intents'), landed')
  BY <1>1, <1>3, PoppedOK, Zenon
<1>5. PassesOK'
  BY <1>1, <1>2, <1>3, <1>4, PassesStep, Zenon
<1>. QED
  BY <1>1, <1>2, <1>3, <1>5, Zenon DEF PushInv, RequestsOK

(* A pass takes the head of its queue in hand. *)
LEMMA TakeKeeps ==
    ASSUME PushInv, NEW f \in Finalizers, Take(f), None \notin stored PROVE PushInv'
<1>. DEFINE r == [Popped(f) EXCEPT !.pc = "charging", !.digest = Offered(f).digest, !.id = Offered(f).id]
<1>1. /\ finalizer[f].pc = "next" /\ finalizer[f].queue # <<>> /\ Offered(f).digest \in stored
      /\ Pass(f, r) /\ push' = push /\ landed' = landed /\ intents' = intents
  BY Zenon DEF Take
<1>2. Offered(f).digest \in Staged(intents)
  BY <1>1, OfferStaged, Zenon
<1>3. /\ DOMAIN Popped(f) = PassFields
      /\ Popped(f).kind = "sweep" => QueueFrom(Popped(f).queue, Staged(intents))
  BY <1>1, OfferStaged, Zenon
<1>4. /\ DOMAIN r = PassFields /\ r.pc = "charging" /\ r.digest = Offered(f).digest
      /\ r.kind = Popped(f).kind /\ r.queue = Popped(f).queue
  BY <1>3, Zenon DEF PassFields
<1>. HIDE DEF r
<1>5. "charging" # "settling"
  OBVIOUS
<1>6. PassOK(r, Staged(intents), landed)
  BY <1>2, <1>3, <1>4, <1>5, Zenon DEF PassOK
<1>7. PassesOK'
  BY <1>1, <1>6, PassesStep, Zenon DEF PushInv
<1>. QED
  BY <1>1, <1>7, Zenon DEF PushInv, RequestsOK

(* A pass that moves on with what it has in hand. *)
LEMMA MovedOK ==
    ASSUME PushInv, NEW f \in Finalizers, finalizer[f].pc \in Finishing, NEW pc, pc # "settling"
    PROVE  PassOK([finalizer[f] EXCEPT !.pc = pc], Staged(intents), landed)
<1>. DEFINE w == finalizer[f]
            r == [w EXCEPT !.pc = pc]
<1>1. PassOK(w, Staged(intents), landed)
  BY Zenon DEF PushInv, PassesOK
<1>2. DOMAIN r = PassFields /\ r.pc = pc /\ r.digest = w.digest /\ r.kind = w.kind /\ r.queue = w.queue
  BY <1>1, Zenon DEF PassOK, PassFields
<1>. HIDE DEF r
<1>3. PassOK(r, Staged(intents), landed)
  BY <1>1, <1>2, Zenon DEF PassOK
<1>. QED
  BY <1>3, Zenon DEF r

(* A pass that is done with it. *)
LEMMA ClearedOK ==
    ASSUME PushInv, NEW f \in Finalizers
    PROVE  PassOK([finalizer[f] EXCEPT !.pc = "next", !.digest = None, !.id = None], Staged(intents), landed)
<1>. DEFINE w == finalizer[f]
            r == [w EXCEPT !.pc = "next", !.digest = None, !.id = None]
<1>1. PassOK(w, Staged(intents), landed)
  BY Zenon DEF PushInv, PassesOK
<1>2. DOMAIN r = PassFields /\ r.pc = "next" /\ r.kind = w.kind /\ r.queue = w.queue
  BY <1>1, Zenon DEF PassOK, PassFields
<1>. HIDE DEF r
<1>3. "next" \notin Finishing /\ "next" # "settling"
  BY DEF Finishing
<1>4. PassOK(r, Staged(intents), landed)
  BY <1>1, <1>2, <1>3, Zenon DEF PassOK
<1>. QED
  BY <1>4, Zenon DEF r

(* A pass charges the write it retains. *)
LEMMA ChargeKeeps ==
    ASSUME PushInv, NEW f \in Finalizers, Charge(f) PROVE PushInv'
<1>. DEFINE r == [finalizer[f] EXCEPT !.pc = "publishing"]
<1>1. finalizer[f].pc = "charging" /\ Pass(f, r) /\ push' = push /\ landed' = landed /\ intents' = intents
  BY Zenon DEF Charge
<1>2. "charging" \in Finishing /\ "publishing" # "settling"
  BY DEF Finishing
<1>3. PassOK(r, Staged(intents), landed)
  BY <1>1, <1>2, MovedOK, Zenon
<1>. HIDE DEF r
<1>4. PassesOK'
  BY <1>1, <1>3, PassesStep, Zenon DEF PushInv
<1>. QED
  BY <1>1, <1>4, Zenon DEF PushInv, RequestsOK

(* A pass commits the membership, or is fenced. *)
LEMMA RepublishKeeps ==
    ASSUME PushInv, NEW f \in Finalizers, Republish(f) PROVE PushInv'
<1>. DEFINE w == finalizer[f]
            r == [w EXCEPT !.pc = "settling"]
<1>1. w.pc = "publishing" /\ Pass(f, r) /\ push' = push /\ landed' = landed \cup {w.digest} /\ intents' = intents
  BY Zenon DEF Republish, Join
<1>2. "publishing" \in Finishing
  BY Zenon DEF Finishing
<1>3. PassOK(w, Staged(intents), landed)
  BY Zenon DEF PushInv, PassesOK
<1>4. DOMAIN r = PassFields /\ r.digest = w.digest /\ r.kind = w.kind /\ r.queue = w.queue
  BY <1>3, Zenon DEF PassOK, PassFields
<1>. HIDE DEF r
<1>5. PassOK(r, Staged(intents'), landed')
  BY <1>1, <1>2, <1>3, <1>4, Zenon DEF PassOK
<1>6. PassesOK'
  BY <1>1, <1>5, PassesStep, Zenon DEF PushInv
<1>. QED
  BY <1>1, <1>6, Zenon DEF PushInv, RequestsOK

(* A pass is over. *)
LEMMA PassEndsKeeps ==
    ASSUME PushInv, NEW f \in Finalizers, PassEnds(f) \/ RepublishFenced(f) PROVE PushInv'
<1>. DEFINE r == [finalizer[f] EXCEPT !.pc = "next", !.digest = None, !.id = None]
<1>1. (Pass(f, NoPass) \/ Pass(f, r)) /\ push' = push /\ landed' = landed /\ intents' = intents
  BY Zenon DEF PassEnds, RepublishFenced
<1>2. PassOK(r, Staged(intents), landed) /\ PassOK(NoPass, Staged(intents), landed)
  BY ClearedOK, NoPassOK, Zenon
<1>. HIDE DEF r
<1>3. PassesOK'
  BY <1>1, <1>2, PassesStep, Zenon DEF PushInv
<1>. QED
  BY <1>1, <1>3, Zenon DEF PushInv, RequestsOK

(* A pass settles what it published. *)
LEMMA SettleRetainedKeeps ==
    ASSUME PushInv, NEW f \in Finalizers, SettleRetained(f) PROVE PushInv'
<1>. DEFINE r == [finalizer[f] EXCEPT !.pc = "next", !.digest = None, !.id = None]
<1>1. /\ intents' = advance_intent(intents, finalizer[f].digest, "admitted")
      /\ Pass(f, r) /\ push' = push /\ landed' = landed
  BY Zenon DEF SettleRetained
<1>2. IntentsSound(intents') /\ Staged(intents') = Staged(intents)
  BY <1>1, AdvanceSound, Zenon DEF PushInv
<1>3. PassOK(r, Staged(intents), landed)
  BY ClearedOK, Zenon
<1>. HIDE DEF r
<1>4. PassesOK'
  BY <1>1, <1>2, <1>3, PassesStep, Zenon DEF PushInv
<1>. QED
  BY <1>1, <1>2, <1>4, Zenon DEF PushInv, RequestsOK

(* The reaper expires an intent. *)
LEMMA ExpireKeeps ==
    ASSUME PushInv, NEW d, Expire(d) PROVE PushInv'
<1>1. /\ intents' = advance_intent(intents, d, "expired")
      /\ finalizer' = finalizer /\ push' = push /\ landed' = landed
  BY Zenon DEF Expire, expire_stale_intents
<1>2. IntentsSound(intents') /\ Staged(intents') = Staged(intents)
  BY <1>1, AdvanceSound, Zenon DEF PushInv
<1>3. PassesOK'
  BY <1>1, <1>2, PassesStay, Zenon DEF PushInv
<1>. QED
  BY <1>1, <1>2, <1>3, Zenon DEF PushInv, RequestsOK

(* No pass works on what is pruned. *)
LEMMA PruneKeeps ==
    ASSUME PushInv, NEW d, Prune(d) PROVE PushInv'
<1>1. /\ d \in Prunable(intents) /\ ~Finalizing(d) /\ intents' = prune_ingress_intents(intents, d)
      /\ finalizer' = finalizer /\ push' = push /\ landed' = landed
  BY Zenon DEF Prune
<1>2. IntentsSound(intents') /\ Staged(intents') = Staged(intents) \ {d}
  BY <1>1, PruneSound, Zenon DEF PushInv
<1>3. ASSUME NEW f \in Finalizers PROVE PassOK(finalizer[f], Staged(intents'), landed)
  <2>. DEFINE w == finalizer[f]
  <2>1. PassOK(w, Staged(intents), landed)
    BY Zenon DEF PushInv, PassesOK
  <2>2. w.digest # d /\ \A i \in DOMAIN w.queue : w.queue[i].digest # d
    BY <1>1, Zenon DEF Finalizing
  <2>. HIDE DEF w
  <2>3. w.kind = "sweep" => QueueFrom(w.queue, Staged(intents'))
    BY <1>2, <2>1, <2>2, Zenon DEF PassOK, QueueFrom
  <2>4. PassOK(w, Staged(intents'), landed)
    BY <1>2, <2>1, <2>2, <2>3, Zenon DEF PassOK
  <2>. QED
    BY <2>4, Zenon DEF w
<1>4. PassesOK'
  BY <1>1, <1>3, Zenon DEF PushInv, PassesOK
<1>. QED
  BY <1>1, <1>2, <1>4, Zenon DEF PushInv, RequestsOK

(* The process restarts. *)
LEMMA RestartKeepsInv ==
    ASSUME PushInv, Restart PROVE PushInv'
<1>1. /\ intents' = intents /\ landed' = landed
      /\ push' = [p \in Pushes |-> Idle] /\ finalizer' = [f \in Finalizers |-> NoPass]
  BY Zenon DEF Restart
<1>2. RequestsOK' /\ PassesOK'
  BY <1>1, IdleOK, NoPassOK, Zenon DEF RequestsOK, PassesOK
<1>. QED
  BY <1>1, <1>2, Zenon DEF PushInv

(* Steps that touch neither intents, requests nor passes. *)
LEMMA ElsewhereKeeps ==
    ASSUME PushInv, ReapQuota \/ (\E d \in Digests : Delete(d)) \/ UNCHANGED vars PROVE PushInv'
<1>1. intents' = intents /\ finalizer' = finalizer /\ push' = push /\ landed' = landed
  BY Zenon DEF ReapQuota, Delete, vars
<1>. QED
  BY <1>1, Zenon DEF PushInv, RequestsOK, PassesOK

(* The blob store holds what was pushed. *)
StoredOK == stored \subseteq Digests

(* Every step keeps to known digests. *)
LEMMA StoredKeeps ==
    ASSUME PushInv, StoredOK, [Next]_vars PROVE StoredOK'
<1>1. ASSUME NEW p \in Pushes, Store(p) PROVE StoredOK'
  <2>1. push[p].pc = "storing" /\ stored' = stored \cup {push[p].digest}
    BY <1>1, Zenon DEF Store
  <2>2. push[p].pc # "idle"
    BY <2>1
  <2>. QED
    BY <2>1, <2>2, Zenon DEF StoredOK, PushInv, RequestsOK, RequestOK
<1>2. ASSUME NEW p \in Pushes, Request(p), ~Store(p) PROVE stored' = stored
  <2>1. CASE \E d \in Digests, kind \in {"upload", "mount"} : Begin(p, d, kind)
    BY <2>1, Zenon DEF Begin
  <2>2. CASE StoreFails(p) \/ Stage(p) \/ Publish(p) \/ PublishFails(p) \/ Unwind(p)
    BY <2>2, Zenon DEF StoreFails, Stage, Publish, PublishFails, Unwind
  <2>3. CASE Fenced(p) \/ Settle(p) \/ (\E proven \in BOOLEAN : Acknowledge(p, proven)) \/ Dropped(p)
    BY <2>3, Zenon DEF Fenced, Settle, Acknowledge, Dropped
  <2>. QED
    BY <1>2, <2>1, <2>2, <2>3, Zenon DEF Request
<1>3. ASSUME NEW f \in Finalizers, Finalize(f) PROVE stored' = stored
  BY <1>3, Zenon DEF Finalize, SweepStart, DrainPage, PassEnds, Refuse, Skip, Take, Charge, Republish,
                     RepublishFenced, SettleRetained
<1>4. ASSUME \/ \E d \in Digests : Delete(d) \/ Expire(d) \/ Prune(d)
             \/ ReapQuota \/ Restart \/ UNCHANGED vars
      PROVE  stored' = stored
  BY <1>4, Zenon DEF Delete, Expire, Prune, ReapQuota, Restart, vars
<1>. QED
  BY <1>1, <1>2, <1>3, <1>4, Zenon DEF Next, StoredOK

(* Everything the proofs below rest on. *)
PushesInv == PushInv /\ StoredOK

(* A fresh store. *)
LEMMA PushesStart == Init => PushesInv
<1>. SUFFICES ASSUME Init PROVE PushesInv
  OBVIOUS
<1>1. IntentsSound(intents)
  BY NoIntentsSound, Zenon DEF Init
<1>2. RequestsOK
  BY IdleOK, Zenon DEF Init, RequestsOK
<1>3. PassesOK
  BY NoPassOK, Zenon DEF Init, PassesOK
<1>4. StoredOK
  BY Zenon DEF Init, StoredOK
<1>. QED
  BY <1>1, <1>2, <1>3, <1>4, Zenon DEF PushesInv, PushInv

(* The constants as the transactions use them. *)
LEMMA SizesAreNumbers == Authority \in Authorities /\ \A d \in Digests : Size(d) \in Nat
<1>1. Authority \in Authorities
  BY PushAssumption, Zenon DEF Authority
<1>2. ASSUME NEW d \in Digests PROVE Size(d) \in Nat
  <2>1. RequestOf(d) \in Requests
    BY Zenon DEF RequestOf, Digests
  <2>2. RequestOf(d).bytes \in 0..MaxU64
    BY <2>1, RequestsValid, Zenon
  <2>. QED
    BY <2>2, LimitAssumption DEF Size
<1>. QED
  BY <1>1, <1>2, Zenon

(* Every step. *)
LEMMA PushesNext ==
    ASSUME PushesInv, [Next]_vars PROVE PushesInv'
<1>1. PushInv /\ StoredOK /\ None \notin stored
  BY PushAssumption, Zenon DEF PushesInv, StoredOK
<1>2. Authority \in Authorities /\ \A d \in Digests : Size(d) \in Nat
  BY SizesAreNumbers, Zenon
<1>3. ASSUME NEW p \in Pushes, Request(p) PROVE PushInv'
  BY <1>1, <1>2, <1>3, BeginKeeps, StageKeepsInv, RequestKeeps, SettleKeeps, Zenon DEF Request
<1>4. ASSUME NEW f \in Finalizers, Finalize(f) PROVE PushInv'
  BY <1>1, <1>4, SweepStartKeeps, DrainPageKeeps, QueueKeeps, TakeKeeps, ChargeKeeps, RepublishKeeps,
     PassEndsKeeps, SettleRetainedKeeps, Zenon DEF Finalize
<1>5. PushInv'
  BY <1>1, <1>3, <1>4, ExpireKeeps, PruneKeeps, RestartKeepsInv, ElsewhereKeeps, Zenon DEF Next
<1>6. StoredOK'
  BY <1>1, StoredKeeps, Zenon
<1>. QED
  BY <1>5, <1>6, Zenon DEF PushesInv

(* After any history of pushes, mounts, deletes, sweeps, drains, expiries, *)
(* prunes and restarts: the three tables of ingress_intent.rs are in step, *)
(* what a finalizer has queued or in hand is still staged, and the digest  *)
(* it is about to settle has landed.                                       *)
THEOREM PushesInvariant == Spec => []PushesInv
<1>1. Init => PushesInv
  BY PushesStart, Zenon
<1>2. PushesInv /\ [Next]_vars => PushesInv'
  BY PushesNext, Zenon
<1>. QED
  BY <1>1, <1>2, PTL DEF Spec

(* The sweep's index holds the pending intents and only those, and an      *)
(* authority's counters are the number and the bytes of its retained       *)
(* intents: the capacity check of a staging transaction reads counters     *)
(* that no interleaving lets drift.                                        *)
THEOREM IntentsConsistentAlways == Spec => []IntentLedgerConsistent
<1>1. PushesInv => IntentLedgerConsistent
  BY SoundIsConsistent, Zenon DEF PushesInv, PushInv, IntentLedgerConsistent
<1>. QED
  BY <1>1, PushesInvariant, PTL

(* Only a finalizer that settles moves an intent to admitted among the     *)
(* steps that change a pass, and what it settles has landed.               *)
LEMMA SettleStep ==
    ASSUME PushesInv, [Next]_vars, NEW d, PhaseOf(intents, d) = "pending", PhaseOf(intents', d) = "admitted",
           finalizer' # finalizer
    PROVE  d \in landed
<1>1. intents' # intents
  <2>1. "pending" # "admitted"
    OBVIOUS
  <2>. QED
    BY <2>1, Zenon
<1>2. ASSUME NEW f \in Finalizers, SettleRetained(f) PROVE d \in landed
  <2>1. finalizer[f].pc = "settling" /\ intents' = advance_intent(intents, finalizer[f].digest, "admitted")
    BY <1>2, Zenon DEF SettleRetained
  <2>2. finalizer[f].digest \in landed
    BY <2>1, Zenon DEF PushesInv, PushInv, PassesOK, PassOK
  <2>3. IntentsSound(intents)
    BY Zenon DEF PushesInv, PushInv
  <2>4. d # finalizer[f].digest => PhaseOf(intents', d) = PhaseOf(intents, d)
    BY <2>1, <2>3, AdvanceSound, Zenon
  <2>5. "pending" # "admitted"
    OBVIOUS
  <2>. QED
    BY <2>2, <2>4, <2>5, Zenon
<1>3. ASSUME NEW f \in Finalizers, Refuse(f) PROVE FALSE
  <2>1. intents' = refuse_intent(intents, Offered(f).digest) /\ IntentsSound(intents)
    BY <1>3, Zenon DEF Refuse, PushesInv, PushInv
  <2>2. PhaseOf(intents', d) = PhaseOf(intents, d)
    BY <2>1, RefuseSound, Zenon
  <2>3. "pending" # "admitted"
    OBVIOUS
  <2>. QED
    BY <2>2, <2>3, Zenon
<1>4. ASSUME NEW f \in Finalizers, Finalize(f) PROVE SettleRetained(f) \/ Refuse(f) \/ intents' = intents
  BY <1>4, Zenon DEF Finalize, SweepStart, DrainPage, PassEnds, Skip, Take, Charge, Republish, RepublishFenced
<1>5. ASSUME NEW p \in Pushes, Request(p) PROVE finalizer' = finalizer
  BY <1>5, Zenon DEF Request, Begin, Store, StoreFails, Stage, Publish, PublishFails, Unwind, Fenced, Settle,
                     Acknowledge, Dropped
<1>6. ASSUME \/ \E e \in Digests : Delete(e) \/ Expire(e) \/ Prune(e)
             \/ ReapQuota \/ Restart \/ UNCHANGED vars
      PROVE  finalizer' = finalizer \/ intents' = intents
  BY <1>6, Zenon DEF Delete, Expire, Prune, ReapQuota, Restart, vars
<1>. QED
  BY <1>1, <1>2, <1>3, <1>4, <1>5, <1>6, Zenon DEF Next

(* A finalizer never advances an intent whose digest was not published     *)
(* since the intent was staged, whatever ran between its membership commit *)
(* and its settle (finalize.rs, authority_drain.rs).                       *)
THEOREM FinalizersSettlePublished == Spec => SettlesPublished
<1>1. PushesInv /\ [Next]_vars
        => [\A d \in Digests :
              /\ PhaseOf(intents, d) = "pending" /\ PhaseOf(intents', d) = "admitted"
              /\ finalizer' # finalizer
              => d \in landed]_vars
  BY SettleStep, Zenon
<1>. QED
  BY <1>1, PushesInvariant, PTL DEF Spec, SettlesPublished
=============================================================================
