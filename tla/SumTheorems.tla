---------------------------- MODULE SumTheorems ----------------------------
(***************************************************************************)
(* Facts about remainders, and about sums over finite sets, for the quota  *)
(* proofs.                                                                 *)
(*                                                                         *)
(* SumFunctionOnSet is a recursive function on the subsets of its index    *)
(* set, that is, a CHOOSE: that such a function exists is proved here      *)
(* first.  Induction is by a least counterexample among the subsets of a   *)
(* finite set.                                                             *)
(***************************************************************************)
EXTENDS Integers, Functions, FiniteSetTheorems, WellFoundedInduction, TLAPS

LEMMA ModBound ==
  ASSUME NEW i \in Int, NEW n \in Nat \ {0}
  PROVE  i % n \in 0..(n - 1)
  BY SMT

LEMMA ModSmall ==
  ASSUME NEW n \in Nat \ {0}, NEW i \in 0..(n - 1)
  PROVE  i % n = i
  BY SMT

\* Numbers less than n apart have different remainders.
LEMMA ModDiffers ==
  ASSUME NEW n \in Nat \ {0}, NEW i \in Int, NEW j \in Int, i < j, j - i < n
  PROVE  i % n # j % n
  <1>0. ASSUME NEW k \in Int PROVE k = (k \div n) * n + (k % n) /\ k \div n \in Int
    <2>1. k = (k \div n) * n + (k % n)
      BY Z3
    <2>2. k \div n \in Int
      BY Z3
    <2>3. QED
      BY <2>1, <2>2
  <1>1. PICK p \in Int, q \in Int : i = p * n + (i % n) /\ j = q * n + (j % n)
    BY <1>0
  <1>2. ASSUME i % n = j % n PROVE FALSE
    <2>1. (q - p) * n = j - i
      <3>1. i % n \in Int
        BY ModBound
      <3>2. QED
        BY <1>1, <1>2, <3>1
    <2>2. CASE q - p <= 0
      <3>1. (q - p) * n <= 0
        BY <2>2
      <3>2. QED
        BY <2>1, <3>1
    <2>3. CASE q - p >= 1
      <3>1. (q - p) * n >= n
        BY <2>3
      <3>2. QED
        BY <2>1, <3>1
    <2>4. QED
      BY <2>2, <2>3
  <1>3. QED
    BY <1>2

\* A nonempty family of subsets of a finite set has a minimal member.
LEMMA LeastSubset ==
  ASSUME NEW S, IsFiniteSet(S), NEW B, B \subseteq SUBSET S, B # {}
  PROVE  \E T \in B : \A U \in SUBSET T : U # T => U \notin B
  <1>1. IsWellFoundedOn(StrictSubsetOrdering(S), SUBSET S)
    BY FS_StrictSubsetOrderingWellFounded, FS_FiniteSubsetsOfFinite, Zenon
  <1>2. PICK T \in B : \A y \in B : ~(<<y, T>> \in StrictSubsetOrdering(S))
    BY <1>1, WFMin, Zenon
  <1>3. ASSUME NEW U \in SUBSET T, U # T, U \in B PROVE FALSE
    BY <1>2, <1>3, Zenon DEF StrictSubsetOrdering
  <1>4. QED
    BY <1>3

-----------------------------------------------------------------------------
(* The recursive function behind a sum.                                    *)

First(s) == CHOOSE x \in s : TRUE

Rec(F, T, f) ==
  f = [s \in SUBSET T |-> IF s = {} THEN 0 ELSE F[First(s)] + f[s \ {First(s)}]]

LEMMA SumIsRec ==
  ASSUME NEW F, NEW T
  PROVE  SumFunctionOnSet(F, T) = (CHOOSE f : Rec(F, T, f))[T]
  BY Zenon DEF SumFunctionOnSet, FoldFunctionOnSet, MapThenFoldSet, Rec, First

LEMMA FirstIn ==
  ASSUME NEW s, s # {}
  PROVE  First(s) \in s /\ s \ {First(s)} \in SUBSET s /\ s \ {First(s)} # s
  <1>1. First(s) \in s
    BY Zenon DEF First
  <1>2. QED
    BY <1>1

LEMMA RecValue ==
  ASSUME NEW F, NEW T, NEW f, Rec(F, T, f), NEW s \in SUBSET T
  PROVE  /\ s = {} => f[s] = 0
         /\ s # {} => f[s] = F[First(s)] + f[s \ {First(s)}]
  <1>1. f[s] = IF s = {} THEN 0 ELSE F[First(s)] + f[s \ {First(s)}]
    BY Zenon DEF Rec
  <1>2. QED
    BY <1>1, Zenon

\* Two such functions agree where both are defined.
LEMMA RecUnique ==
  ASSUME NEW F, NEW S, IsFiniteSet(S), NEW T \in SUBSET S, NEW U \in SUBSET S,
         NEW f, Rec(F, T, f), NEW g, Rec(F, U, g), NEW s \in SUBSET (T \cap U)
  PROVE  f[s] = g[s]
  <1> DEFINE B == {t \in SUBSET (T \cap U) : f[t] # g[t]}
  <1>1. SUFFICES ASSUME B # {} PROVE FALSE
    OBVIOUS
  <1>2. B \subseteq SUBSET S
    OBVIOUS
  <1>3. PICK t \in B : \A u \in SUBSET t : u # t => u \notin B
    <2> HIDE DEF B
    <2>1. QED
      BY <1>1, <1>2, LeastSubset, Zenon
  <1>4. t \in SUBSET T /\ t \in SUBSET U /\ f[t] # g[t] /\ t \in SUBSET (T \cap U)
    OBVIOUS
  <1>5. CASE t = {}
    BY <1>4, <1>5, RecValue, Zenon
  <1>6. CASE t # {}
    <2>1. f[t \ {First(t)}] = g[t \ {First(t)}]
      <3>1. t \ {First(t)} \in SUBSET t /\ t \ {First(t)} # t
        BY <1>6, FirstIn, Zenon
      <3>2. t \ {First(t)} \notin B /\ t \ {First(t)} \in SUBSET (T \cap U)
        BY <1>3, <1>4, <3>1, Zenon
      <3>3. QED
        BY <3>2, Zenon
    <2>2. f[t] = F[First(t)] + f[t \ {First(t)}]
      BY <1>4, <1>6, RecValue
    <2>3. g[t] = F[First(t)] + g[t \ {First(t)}]
      BY <1>4, <1>6, RecValue
    <2>4. QED
      BY <1>4, <2>1, <2>2, <2>3, Zenon
  <1>7. QED
    BY <1>5, <1>6

\* Such a function exists on the subsets of every finite set.
LEMMA RecExists ==
  ASSUME NEW F, NEW S, IsFiniteSet(S)
  PROVE  \E f : Rec(F, S, f)
  <1> DEFINE B == {T \in SUBSET S : ~ \E f : Rec(F, T, f)}
  <1>1. SUFFICES ASSUME B # {} PROVE FALSE
    <2>1. S \notin B => \E f : Rec(F, S, f)
      BY Zenon
    <2>2. QED
      BY <2>1
  <1>2. B \subseteq SUBSET S
    OBVIOUS
  <1>3. PICK T \in B : \A U \in SUBSET T : U # T => U \notin B
    <2> HIDE DEF B
    <2>1. QED
      BY <1>1, <1>2, LeastSubset, Zenon
  <1>4. T \in SUBSET S /\ ~ \E f : Rec(F, T, f)
    OBVIOUS
  <1> DEFINE r(U) == CHOOSE f : Rec(F, U, f)
             f == [s \in SUBSET T |->
                     IF s = {} THEN 0
                     ELSE F[First(s)] + r(s \ {First(s)})[s \ {First(s)}]]
  <1>5. ASSUME NEW U \in SUBSET T, U # T PROVE Rec(F, U, r(U))
    <2>1. U \in SUBSET S /\ U \notin B
      BY <1>3, <1>4, <1>5, Zenon
    <2>2. \E g : Rec(F, U, g)
      BY <2>1, Zenon
    <2>3. QED
      BY <2>2, Zenon
  <1>6. ASSUME NEW s \in SUBSET T, s # T PROVE f[s] = r(s)[s]
    <2>1. Rec(F, s, r(s))
      BY <1>5, <1>6, Zenon
    <2>2. s \in SUBSET s
      OBVIOUS
    <2>3. /\ s = {} => r(s)[s] = 0
          /\ s # {} => r(s)[s] = F[First(s)] + r(s)[s \ {First(s)}]
      <3> HIDE DEF r
      <3>1. QED
        BY <2>1, <2>2, RecValue
    <2>4. CASE s = {}
      BY <2>3, <2>4, Zenon
    <2>5. CASE s # {}
      <3> DEFINE u == s \ {First(s)}
      <3>1. u \in SUBSET s
        BY <2>5, FirstIn, Zenon
      <3>2. u \in SUBSET T /\ u # T
        BY <1>6, <3>1
      <3>3. Rec(F, u, r(u))
        BY <1>5, <3>2, Zenon
      <3>4. r(s)[u] = r(u)[u]
        <4>1. s \in SUBSET S /\ u \in SUBSET S /\ u \in SUBSET (s \cap u)
          BY <1>4, <3>1
        <4>2. ASSUME NEW g, Rec(F, s, g), NEW h, Rec(F, u, h) PROVE g[u] = h[u]
          <5> HIDE DEF u
          <5>1. QED
            BY <4>1, <4>2, RecUnique
        <4> HIDE DEF u, r
        <4>3. QED
          BY <2>1, <3>3, <4>2, Zenon
      <3>5. f[s] = F[First(s)] + r(u)[u]
        BY <2>5, Zenon
      <3>6. QED
        BY <2>3, <2>5, <3>4, <3>5, Zenon
    <2>6. QED
      BY <2>4, <2>5
  <1>7. Rec(F, T, f)
    <2>1. ASSUME NEW s \in SUBSET T, s # {}
          PROVE  r(s \ {First(s)})[s \ {First(s)}] = f[s \ {First(s)}]
      <3>1. s \ {First(s)} \in SUBSET T /\ s \ {First(s)} # T
        BY <2>1, FirstIn
      <3> HIDE DEF f, r
      <3>2. QED
        BY <1>6, <3>1, Zenon
    <2>2. ASSUME NEW s \in SUBSET T
          PROVE  (IF s = {} THEN 0 ELSE F[First(s)] + r(s \ {First(s)})[s \ {First(s)}])
                   = IF s = {} THEN 0 ELSE F[First(s)] + f[s \ {First(s)}]
      <3> HIDE DEF f, r
      <3>1. QED
        BY <2>1, Zenon
    <2>3. f = [s \in SUBSET T |-> IF s = {} THEN 0 ELSE F[First(s)] + f[s \ {First(s)}]]
      <3>1. f = [s \in SUBSET T |->
                  IF s = {} THEN 0 ELSE F[First(s)] + r(s \ {First(s)})[s \ {First(s)}]]
        OBVIOUS
      <3> HIDE DEF f, r
      <3>2. QED
        BY <2>2, <3>1
    <2>4. QED
      BY <2>3, Zenon DEF Rec
  <1>8. QED
    BY <1>4, <1>7, Zenon

-----------------------------------------------------------------------------
(* Sums.                                                                   *)

LEMMA SumEmpty ==
  ASSUME NEW F
  PROVE  SumFunctionOnSet(F, {}) = 0
  <1>1. IsFiniteSet({})
    BY FS_EmptySet, Zenon
  <1>2. PICK f : Rec(F, {}, f)
    BY <1>1, RecExists, Zenon
  <1>3. Rec(F, {}, CHOOSE g : Rec(F, {}, g))
    BY <1>2, Zenon
  <1>4. {} \in SUBSET {}
    OBVIOUS
  <1>5. ASSUME NEW g, Rec(F, {}, g) PROVE g[{}] = 0
    BY <1>4, <1>5, RecValue
  <1>6. QED
    BY <1>3, <1>5, SumIsRec, Zenon

LEMMA SumFirst ==
  ASSUME NEW F, NEW S, IsFiniteSet(S), S # {}
  PROVE  SumFunctionOnSet(F, S) = F[First(S)] + SumFunctionOnSet(F, S \ {First(S)})
  <1> DEFINE U == S \ {First(S)}
  <1>1. U \in SUBSET S /\ S \in SUBSET S /\ U \in SUBSET (S \cap U)
    BY FirstIn
  <1>2. IsFiniteSet(U)
    BY <1>1, FS_Subset
  <1>3. Rec(F, S, CHOOSE f : Rec(F, S, f)) /\ Rec(F, U, CHOOSE f : Rec(F, U, f))
    <2>1. (\E f : Rec(F, S, f)) /\ (\E f : Rec(F, U, f))
      BY <1>2, RecExists
    <2> HIDE DEF U
    <2>2. QED
      BY <2>1, Zenon
  <1>4. ASSUME NEW f, Rec(F, S, f), NEW g, Rec(F, U, g) PROVE f[S] = F[First(S)] + g[U]
    <2>1. f[S] = F[First(S)] + f[U]
      BY <1>1, <1>4, RecValue
    <2>2. f[U] = g[U]
      <3> HIDE DEF U
      <3>1. QED
        BY <1>1, <1>4, RecUnique
    <2>3. QED
      BY <2>1, <2>2, Zenon
  <1> HIDE DEF U
  <1>5. SumFunctionOnSet(F, S) = F[First(S)] + SumFunctionOnSet(F, U)
    BY <1>3, <1>4, SumIsRec, Zenon
  <1>6. QED
    BY <1>5 DEF U

LEMMA SumInt ==
  ASSUME NEW F, NEW S, IsFiniteSet(S), \A x \in S : F[x] \in Int
  PROVE  SumFunctionOnSet(F, S) \in Int
  <1> DEFINE B == {T \in SUBSET S : SumFunctionOnSet(F, T) \notin Int}
  <1>1. SUFFICES ASSUME B # {} PROVE FALSE
    OBVIOUS
  <1>2. PICK T \in B : \A U \in SUBSET T : U # T => U \notin B
    <2>1. B \subseteq SUBSET S
      OBVIOUS
    <2> HIDE DEF B
    <2>2. QED
      BY <1>1, <2>1, LeastSubset, Zenon
  <1>3. T \in SUBSET S /\ IsFiniteSet(T) /\ SumFunctionOnSet(F, T) \notin Int
    BY FS_Subset
  <1>4. T # {}
    BY <1>3, SumEmpty
  <1>5. First(T) \in T /\ T \ {First(T)} \in SUBSET T /\ T \ {First(T)} # T
    BY <1>4, FirstIn
  <1>6. SumFunctionOnSet(F, T \ {First(T)}) \in Int
    BY <1>2, <1>3, <1>5
  <1>7. QED
    BY <1>3, <1>4, <1>5, <1>6, SumFirst

\* Any element can be taken out of a sum.
LEMMA SumSplit ==
  ASSUME NEW F, NEW S, IsFiniteSet(S), \A x \in S : F[x] \in Int, NEW x \in S
  PROVE  SumFunctionOnSet(F, S) = F[x] + SumFunctionOnSet(F, S \ {x})
  <1> DEFINE Bad(T) == \E y \in T : SumFunctionOnSet(F, T) # F[y] + SumFunctionOnSet(F, T \ {y})
             B == {T \in SUBSET S : Bad(T)}
  <1>1. SUFFICES ASSUME B # {} PROVE FALSE
    OBVIOUS
  <1>2. PICK T \in B : \A U \in SUBSET T : U # T => U \notin B
    <2>1. B \subseteq SUBSET S
      OBVIOUS
    <2> HIDE DEF B
    <2>2. QED
      BY <1>1, <2>1, LeastSubset, Zenon
  <1>3. T \in SUBSET S /\ IsFiniteSet(T)
    BY FS_Subset
  <1>4. PICK y \in T : SumFunctionOnSet(F, T) # F[y] + SumFunctionOnSet(F, T \ {y})
    OBVIOUS
  <1> DEFINE f == First(T)
  <1>5. f \in T /\ SumFunctionOnSet(F, T) = F[f] + SumFunctionOnSet(F, T \ {f})
    BY <1>3, <1>4, FirstIn, SumFirst
  <1> HIDE DEF f
  <1>6. f # y
    BY <1>4, <1>5
  <1>7. T \ {f} \in SUBSET T /\ T \ {f} # T /\ T \ {y} \in SUBSET T /\ T \ {y} # T
    BY <1>4, <1>5
  <1>8. T \ {f} \notin B /\ T \ {y} \notin B /\ T \ {f} \in SUBSET S /\ T \ {y} \in SUBSET S
    BY <1>2, <1>3, <1>7
  <1>9. y \in T \ {f} /\ f \in T \ {y} /\ (T \ {f}) \ {y} = (T \ {y}) \ {f}
    BY <1>4, <1>5, <1>6
  <1>10. SumFunctionOnSet(F, T \ {f}) = F[y] + SumFunctionOnSet(F, (T \ {f}) \ {y})
    BY <1>8, <1>9
  <1>11. SumFunctionOnSet(F, T \ {y}) = F[f] + SumFunctionOnSet(F, (T \ {f}) \ {y})
    BY <1>8, <1>9
  <1>12. F[f] \in Int /\ F[y] \in Int /\ SumFunctionOnSet(F, (T \ {f}) \ {y}) \in Int
    <2>1. IsFiniteSet((T \ {f}) \ {y}) /\ \A z \in (T \ {f}) \ {y} : F[z] \in Int
      BY <1>3, FS_Subset
    <2>2. QED
      BY <1>3, <1>5, <2>1, SumInt
  <1>13. QED
    BY <1>4, <1>5, <1>10, <1>11, <1>12

\* Induction over the subsets of a finite set, on the set of the good ones.
LEMMA GoodSubsets ==
  ASSUME NEW S, IsFiniteSet(S), NEW G, {} \in G,
         \A T \in SUBSET S : \A x \in T : T \ {x} \in G => T \in G
  PROVE  \A T \in SUBSET S : T \in G
  <1> DEFINE B == {T \in SUBSET S : T \notin G}
  <1>1. SUFFICES ASSUME B # {} PROVE FALSE
    OBVIOUS
  <1>2. PICK T \in B : \A U \in SUBSET T : U # T => U \notin B
    <2>1. B \subseteq SUBSET S
      OBVIOUS
    <2> HIDE DEF B
    <2>2. QED
      BY <1>1, <2>1, LeastSubset, Zenon
  <1>3. T \in SUBSET S /\ T \notin G /\ T # {}
    OBVIOUS
  <1>4. PICK x \in T : TRUE
    BY <1>3
  <1>5. T \ {x} \in SUBSET T /\ T \ {x} # T /\ T \ {x} \in SUBSET S
    BY <1>3
  <1>6. T \ {x} \in G
    BY <1>2, <1>5
  <1>7. QED
    BY <1>3, <1>6

\* Sums of functions that agree on the set are equal.
LEMMA SumSame ==
  ASSUME NEW S, IsFiniteSet(S), NEW F, NEW H, \A x \in S : F[x] \in Int /\ H[x] = F[x]
  PROVE  SumFunctionOnSet(H, S) = SumFunctionOnSet(F, S)
  <1> DEFINE G == {T \in SUBSET S : SumFunctionOnSet(H, T) = SumFunctionOnSet(F, T)}
  <1>1. {} \in G
    BY SumEmpty
  <1>2. ASSUME NEW T \in SUBSET S, NEW x \in T, T \ {x} \in G PROVE T \in G
    <2>1. IsFiniteSet(T) /\ \A y \in T : F[y] \in Int /\ H[y] \in Int /\ H[y] = F[y]
      BY FS_Subset
    <2>2. /\ SumFunctionOnSet(F, T) = F[x] + SumFunctionOnSet(F, T \ {x})
          /\ SumFunctionOnSet(H, T) = H[x] + SumFunctionOnSet(H, T \ {x})
      BY <2>1, SumSplit
    <2>3. SumFunctionOnSet(H, T \ {x}) = SumFunctionOnSet(F, T \ {x}) /\ H[x] = F[x]
      BY <1>2, <2>1
    <2>4. QED
      BY <2>2, <2>3
  <1>3. S \in G
    <2> HIDE DEF G
    <2>1. QED
      BY <1>1, <1>2, GoodSubsets
  <1>4. QED
    BY <1>3

\* The sum of the sums is the sum of the two sums.
LEMMA SumAdd ==
  ASSUME NEW S, IsFiniteSet(S), NEW F, NEW H, NEW K,
         \A x \in S : F[x] \in Int /\ H[x] \in Int /\ K[x] = F[x] + H[x]
  PROVE  SumFunctionOnSet(K, S) = SumFunctionOnSet(F, S) + SumFunctionOnSet(H, S)
  <1> DEFINE G == {T \in SUBSET S :
                     SumFunctionOnSet(K, T) = SumFunctionOnSet(F, T) + SumFunctionOnSet(H, T)}
  <1>1. {} \in G
    BY SumEmpty
  <1>2. ASSUME NEW T \in SUBSET S, NEW x \in T, T \ {x} \in G PROVE T \in G
    <2>1. IsFiniteSet(T) /\ \A y \in T : F[y] \in Int /\ H[y] \in Int /\ K[y] \in Int
      BY FS_Subset
    <2>2. /\ SumFunctionOnSet(F, T) = F[x] + SumFunctionOnSet(F, T \ {x})
          /\ SumFunctionOnSet(H, T) = H[x] + SumFunctionOnSet(H, T \ {x})
          /\ SumFunctionOnSet(K, T) = K[x] + SumFunctionOnSet(K, T \ {x})
      BY <2>1, SumSplit
    <2>3. IsFiniteSet(T \ {x}) /\ \A y \in T \ {x} : F[y] \in Int /\ H[y] \in Int
      BY <2>1, FS_Subset
    <2>4. SumFunctionOnSet(F, T \ {x}) \in Int /\ SumFunctionOnSet(H, T \ {x}) \in Int
      BY <2>3, SumInt
    <2>5. /\ SumFunctionOnSet(K, T \ {x})
               = SumFunctionOnSet(F, T \ {x}) + SumFunctionOnSet(H, T \ {x})
          /\ K[x] = F[x] + H[x] /\ F[x] \in Int /\ H[x] \in Int
      BY <1>2, <2>1
    <2>6. QED
      BY <2>2, <2>4, <2>5
  <1>3. S \in G
    <2> HIDE DEF G
    <2>1. QED
      BY <1>1, <1>2, GoodSubsets
  <1>4. QED
    BY <1>3

\* Summands that are not negative only add to a sum.
LEMMA SumMonotone ==
  ASSUME NEW S, IsFiniteSet(S), NEW F, \A x \in S : F[x] \in Int,
         NEW P \in SUBSET S, \A x \in S \ P : F[x] >= 0
  PROVE  SumFunctionOnSet(F, P) <= SumFunctionOnSet(F, S)
  <1> DEFINE Q == S \ P
             G == {T \in SUBSET Q : SumFunctionOnSet(F, P) <= SumFunctionOnSet(F, P \cup T)}
  <1>0. IsFiniteSet(Q) /\ IsFiniteSet(P) /\ SumFunctionOnSet(F, P) \in Int
    <2>1. IsFiniteSet(Q) /\ IsFiniteSet(P) /\ \A x \in P : F[x] \in Int
      BY FS_Subset
    <2>2. QED
      BY <2>1, SumInt
  <1>1. {} \in G
    <2>1. P \cup {} = P
      OBVIOUS
    <2>2. QED
      BY <1>0, <2>1
  <1>2. ASSUME NEW T \in SUBSET Q, NEW x \in T, T \ {x} \in G PROVE T \in G
    <2> DEFINE U == P \cup T
    <2>1. U \in SUBSET S /\ x \in U /\ U \ {x} = P \cup (T \ {x}) /\ F[x] >= 0
      OBVIOUS
    <2>2. IsFiniteSet(U) /\ IsFiniteSet(U \ {x}) /\ \A y \in U : F[y] \in Int
      BY <2>1, FS_Subset
    <2>3. SumFunctionOnSet(F, U) = F[x] + SumFunctionOnSet(F, U \ {x})
      <3> HIDE DEF U
      <3>1. QED
        BY <2>1, <2>2, SumSplit
    <2>4. SumFunctionOnSet(F, U \ {x}) \in Int
      <3>1. \A y \in U \ {x} : F[y] \in Int
        BY <2>2
      <3> HIDE DEF U
      <3>2. QED
        BY <2>2, <3>1, SumInt
    <2>5. SumFunctionOnSet(F, P) <= SumFunctionOnSet(F, U \ {x})
      <3>1. SumFunctionOnSet(F, P) <= SumFunctionOnSet(F, P \cup (T \ {x}))
        BY <1>2
      <3> HIDE DEF U
      <3>2. QED
        BY <2>1, <3>1
    <2>6. F[x] \in Int /\ F[x] >= 0
      BY <2>1, <2>2
    <2>7. SumFunctionOnSet(F, P) <= SumFunctionOnSet(F, U)
      <3> HIDE DEF U
      <3>1. QED
        BY <1>0, <2>3, <2>4, <2>5, <2>6
    <2>8. QED
      BY <2>7
  <1>3. Q \in G
    <2> HIDE DEF G, Q
    <2>1. QED
      BY <1>0, <1>1, <1>2, GoodSubsets
  <1>4. P \cup Q = S
    OBVIOUS
  <1>5. QED
    BY <1>3, <1>4

\* A sum of summands between -m and m is between -m and m per element.
LEMMA SumBound ==
  ASSUME NEW S, IsFiniteSet(S), NEW F, NEW m \in Int,
         \A x \in S : F[x] \in Int /\ -m <= F[x] /\ F[x] <= m
  PROVE  /\ -(m * Cardinality(S)) <= SumFunctionOnSet(F, S)
         /\ SumFunctionOnSet(F, S) <= m * Cardinality(S)
  <1> DEFINE G == {T \in SUBSET S : /\ -(m * Cardinality(T)) <= SumFunctionOnSet(F, T)
                                    /\ SumFunctionOnSet(F, T) <= m * Cardinality(T)}
  <1>1. {} \in G
    BY SumEmpty, FS_EmptySet
  <1>2. ASSUME NEW T \in SUBSET S, NEW x \in T, T \ {x} \in G PROVE T \in G
    <2>1. IsFiniteSet(T) /\ IsFiniteSet(T \ {x}) /\ \A y \in T : F[y] \in Int
      BY FS_Subset
    <2>2. SumFunctionOnSet(F, T) = F[x] + SumFunctionOnSet(F, T \ {x})
      BY <2>1, SumSplit
    <2>3. SumFunctionOnSet(F, T \ {x}) \in Int
      BY <2>1, SumInt
    <2>4. Cardinality(T \ {x}) = Cardinality(T) - 1 /\ Cardinality(T) \in Nat
      BY <2>1, FS_RemoveElement, FS_CardinalityType
    <2>5. m * Cardinality(T) = m * (Cardinality(T) - 1) + m /\ m * (Cardinality(T) - 1) \in Int
      <3>1. ASSUME NEW c \in Nat PROVE m * c = m * (c - 1) + m /\ m * (c - 1) \in Int
        OBVIOUS
      <3>2. QED
        BY <2>4, <3>1
    <2>6. /\ -(m * (Cardinality(T) - 1)) <= SumFunctionOnSet(F, T \ {x})
          /\ SumFunctionOnSet(F, T \ {x}) <= m * (Cardinality(T) - 1)
          /\ F[x] \in Int /\ -m <= F[x] /\ F[x] <= m
      BY <1>2, <2>1, <2>4
    <2>7. /\ -(m * Cardinality(T)) <= SumFunctionOnSet(F, T)
          /\ SumFunctionOnSet(F, T) <= m * Cardinality(T)
      <3>1. ASSUME NEW k \in Int, NEW v \in Int, NEW z \in Int, -k <= v, v <= k, -m <= z, z <= m
            PROVE  -(k + m) <= z + v /\ z + v <= k + m
        BY <3>1
      <3>2. QED
        BY <2>2, <2>3, <2>5, <2>6, <3>1
    <2>8. QED
      BY <2>7
  <1>3. S \in G
    <2> HIDE DEF G
    <2>1. QED
      BY <1>1, <1>2, GoodSubsets
  <1>4. QED
    BY <1>3

\* Leaving out some of the positive summands gives a smaller sum.  N holds the
\* negative ones, and H is what they contribute.
LEMMA SumNegatives ==
  ASSUME NEW S, IsFiniteSet(S), NEW F, \A x \in S : F[x] \in Int,
         NEW N \in SUBSET S, \A x \in S \ N : F[x] >= 0,
         NEW H, \A x \in N : H[x] = IF F[x] < 0 THEN F[x] ELSE 0,
         NEW P \in SUBSET S, \A x \in P : F[x] >= 0
  PROVE  SumFunctionOnSet(H, N) + SumFunctionOnSet(F, P) <= SumFunctionOnSet(F, S)
  <1> DEFINE neg == [x \in S |-> IF F[x] < 0 THEN F[x] ELSE 0]
             pos == [x \in S |-> IF F[x] < 0 THEN 0 ELSE F[x]]
  <1>1. \A x \in S : neg[x] \in Int /\ pos[x] \in Int /\ pos[x] >= 0 /\ F[x] = neg[x] + pos[x]
    OBVIOUS
  <1>2. \A x \in N : neg[x] \in Int /\ H[x] = neg[x]
    OBVIOUS
  <1>3. \A x \in P : pos[x] \in Int /\ F[x] = pos[x]
    OBVIOUS
  <1>4. \A x \in S \ N : neg[x] = 0
    OBVIOUS
  <1>5. IsFiniteSet(N) /\ IsFiniteSet(P)
    BY FS_Subset
  <1> HIDE DEF neg, pos
  <1>6. SumFunctionOnSet(F, S) = SumFunctionOnSet(neg, S) + SumFunctionOnSet(pos, S)
    BY <1>1, SumAdd
  <1>7. SumFunctionOnSet(H, N) = SumFunctionOnSet(neg, N)
    BY <1>2, <1>5, SumSame
  <1>8. SumFunctionOnSet(F, P) = SumFunctionOnSet(pos, P)
    BY <1>3, <1>5, SumSame
  <1>9. SumFunctionOnSet(neg, N) <= SumFunctionOnSet(neg, S)
    <2>1. (\A x \in S : neg[x] \in Int) /\ \A x \in S \ N : neg[x] >= 0
      BY <1>1, <1>4
    <2>2. QED
      BY <2>1, SumMonotone
  <1>10. SumFunctionOnSet(pos, P) <= SumFunctionOnSet(pos, S)
    <2>1. (\A x \in S : pos[x] \in Int) /\ \A x \in S \ P : pos[x] >= 0
      BY <1>1
    <2>2. QED
      BY <2>1, SumMonotone
  <1>11. /\ SumFunctionOnSet(neg, N) \in Int /\ SumFunctionOnSet(neg, S) \in Int
         /\ SumFunctionOnSet(pos, P) \in Int /\ SumFunctionOnSet(pos, S) \in Int
    <2>1. /\ \A x \in S : neg[x] \in Int /\ pos[x] \in Int
          /\ \A x \in N : neg[x] \in Int
          /\ \A x \in P : pos[x] \in Int
      BY <1>1
    <2>2. QED
      BY <1>5, <2>1, SumInt
  <1>12. QED
    BY <1>6, <1>7, <1>8, <1>9, <1>10, <1>11

=============================================================================
