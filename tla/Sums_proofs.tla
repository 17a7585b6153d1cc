------------------------------ MODULE Sums_proofs ------------------------------
(***************************************************************************)
(* Facts about the sums in which the components keep their accounts.        *)
(*                                                                         *)
(* Every one is a MapThenSumSet, which the community modules define by      *)
(* recursion over the subsets of its set; SumOf is the same sum with the    *)
(* summands given as a function.  The induction behind each fact is stated  *)
(* with sets: among the subsets of a finite set that violate it there would *)
(* be a smallest one (FS_StrictSubsetOrderingWellFounded).                  *)
(***************************************************************************)
EXTENDS Integers, FiniteSetsExt, FiniteSetTheorems, WellFoundedInduction, TLAPS

SumOf(f, S) == MapThenSumSet(LAMBDA x : f[x], S)

Chosen(s) == CHOOSE x \in s : TRUE

(* g computes the sums of f over the subsets of S.                          *)
Summing(g, f, S) ==
    g = [s \in SUBSET S |-> IF s = {} THEN 0 ELSE f[Chosen(s)] + g[s \ {Chosen(s)}]]

-----------------------------------------------------------------------------
LEMMA SmallestSubset ==
    ASSUME NEW S, IsFiniteSet(S), NEW C, C \subseteq SUBSET S, C # {}
    PROVE  \E T \in C : \A U \in C : U \subseteq T => U = T
  <1>1. IsWellFoundedOn(StrictSubsetOrdering(S), SUBSET S)
    BY FS_StrictSubsetOrderingWellFounded, FS_FiniteSubsetsOfFinite
  <1>2. PICK T \in C : \A U \in C : ~ (<<U, T>> \in StrictSubsetOrdering(S))
    BY <1>1, WFMin
  <1>3. ASSUME NEW U \in C, U \subseteq T
        PROVE  U = T
    <2>1. U # T => <<U, T>> \in StrictSubsetOrdering(S)
      BY <1>3 DEF StrictSubsetOrdering
    <2> QED
      BY <1>2, <2>1
  <1> QED
    BY <1>3

LEMMA SumDefinition ==
    ASSUME NEW f, NEW S
    PROVE  SumOf(f, S) = (CHOOSE g : Summing(g, f, S))[S]
  BY DEF SumOf, MapThenSumSet, MapThenFoldSet, Summing, Chosen

(* Two such functions agree where both are defined.                         *)
LEMMA SummingAgree ==
    ASSUME NEW f, NEW S, IsFiniteSet(S), NEW T, NEW g, NEW h,
           Summing(g, f, S), Summing(h, f, T)
    PROVE  \A s \in SUBSET S : s \subseteq T => g[s] = h[s]
  <1> DEFINE C == {s \in SUBSET S : s \subseteq T /\ g[s] # h[s]}
  <1>1. ASSUME C # {} PROVE FALSE
    <2> C \subseteq SUBSET S
      OBVIOUS
    <2> HIDE DEF C
    <2>1. PICK s \in C : \A u \in C : u \subseteq s => u = s
      BY <1>1, SmallestSubset
    <2> USE DEF C
    <2>2. s \subseteq S /\ s \subseteq T /\ g[s] # h[s]
      BY <2>1
    <2>3. s # {}
      BY <2>2 DEF Summing
    <2> DEFINE rest == s \ {Chosen(s)}
    <2>4. Chosen(s) \in s
      BY <2>3 DEF Chosen
    <2>5. rest \subseteq s /\ rest # s
      BY <2>4
    <2>6. g[rest] = h[rest]
      BY <2>1, <2>2, <2>5
    <2>7. g[s] = f[Chosen(s)] + g[rest] /\ h[s] = f[Chosen(s)] + h[rest]
      BY <2>2, <2>3 DEF Summing
    <2> QED
      BY <2>2, <2>6, <2>7
  <1> QED
    BY <1>1

(* The recursion has a solution on every finite set.                        *)
LEMMA SummingExists ==
    ASSUME NEW S, IsFiniteSet(S), NEW f, \A x \in S : f[x] \in Int
    PROVE  \A T \in SUBSET S : \E g \in [SUBSET T -> Int] : Summing(g, f, T)
  <1> DEFINE Solves(g, T) == g \in [SUBSET T -> Int] /\ Summing(g, f, T)
  <1> DEFINE C == {T \in SUBSET S : ~\E g : Solves(g, T)}
  <1>1. ASSUME C # {} PROVE FALSE
    <2> C \subseteq SUBSET S
      OBVIOUS
    <2> HIDE DEF C
    <2>1. PICK T \in C : \A U \in C : U \subseteq T => U = T
      BY <1>1, SmallestSubset
    <2> USE DEF C
    <2> DEFINE sum(U) == CHOOSE g : Solves(g, U)
    <2> HIDE DEF Solves
    <2>2. \A U \in SUBSET T : U # T => Solves(sum(U), U)
      BY <2>1
    <2>3. \A s \in SUBSET T : s # {} => /\ Chosen(s) \in s /\ Chosen(s) \in S
                                       /\ s \ {Chosen(s)} \in SUBSET T
                                       /\ s \ {Chosen(s)} # T
      BY DEF Chosen
    <2> DEFINE below(s) == sum(s \ {Chosen(s)})[s \ {Chosen(s)}]
    <2> DEFINE g == [s \in SUBSET T |-> IF s = {} THEN 0 ELSE f[Chosen(s)] + below(s)]
    <2> HIDE DEF sum
    <2>4. ASSUME NEW s \in SUBSET T, s # {}
          PROVE  below(s) \in Int
      <3> DEFINE r == s \ {Chosen(s)}
      <3>1. sum(r) \in [SUBSET r -> Int]
        BY <2>2, <2>3, <2>4 DEF Solves
      <3>2. r \in SUBSET r
        OBVIOUS
      <3> QED
        BY <3>1, <3>2
    <2>5. g \in [SUBSET T -> Int]
      BY <2>3, <2>4
    <2>6. ASSUME NEW s \in SUBSET T, s # {}
          PROVE  g[s \ {Chosen(s)}] = below(s)
      <3> DEFINE r == s \ {Chosen(s)}
      <3>1. r \in SUBSET T /\ r # T /\ Solves(sum(r), r)
        BY <2>2, <2>3, <2>6
      <3>2. Summing(sum(r), f, r)
        BY <3>1 DEF Solves
      <3>3. CASE r = {}
        BY <3>1, <3>2, <3>3 DEF Summing
      <3>4. CASE r # {}
        <4> DEFINE q == r \ {Chosen(r)}
        <4>1. q \in SUBSET T /\ q # T /\ q \in SUBSET r /\ Solves(sum(q), q)
          BY <2>2, <2>3, <3>1, <3>4
        <4>2. IsFiniteSet(r)
          BY <3>1, FS_Subset
        <4>3. sum(r)[q] = sum(q)[q]
          <5>1. Summing(sum(q), f, q)
            BY <4>1 DEF Solves
          <5> HIDE DEF r, q
          <5>2. \A u \in SUBSET r : u \subseteq q => sum(r)[u] = sum(q)[u]
            BY <3>2, <4>2, <5>1, SummingAgree
          <5> QED
            BY <4>1, <5>2
        <4>4. sum(r)[r] = f[Chosen(r)] + sum(r)[q]
          BY <3>2, <3>4 DEF Summing
        <4>5. g[r] = f[Chosen(r)] + sum(q)[q]
          BY <3>1, <3>4
        <4> QED
          BY <4>3, <4>4, <4>5
      <3> QED
        BY <3>3, <3>4
    <2>7. Summing(g, f, T)
      <3>1. \A s \in SUBSET T : s # {} => g[s] = f[Chosen(s)] + g[s \ {Chosen(s)}]
        BY <2>6
      <3>2. g[{}] = 0 /\ g = [s \in SUBSET T |-> g[s]]
        OBVIOUS
      <3> HIDE DEF g
      <3> QED
        BY <3>1, <3>2 DEF Summing
    <2> QED
      BY <2>1, <2>5, <2>7 DEF Solves
  <1> QED
    BY <1>1

(* What the recursion computes.                                             *)
LEMMA SumOfParts ==
    ASSUME NEW S, IsFiniteSet(S), NEW f, \A x \in S : f[x] \in Int
    PROVE  /\ SumOf(f, S) \in Int
           /\ SumOf(f, {}) = 0
           /\ S # {} => /\ Chosen(S) \in S
                        /\ SumOf(f, S) = f[Chosen(S)] + SumOf(f, S \ {Chosen(S)})
  <1> DEFINE sum(T) == CHOOSE g : Summing(g, f, T)
  <1>1. ASSUME NEW T \in SUBSET S
        PROVE  /\ IsFiniteSet(T) /\ Summing(sum(T), f, T)
               /\ SumOf(f, T) = sum(T)[T] /\ SumOf(f, T) \in Int
    <2>1. IsFiniteSet(T)
      BY FS_Subset
    <2>2. PICK g \in [SUBSET T -> Int] : Summing(g, f, T)
      BY SummingExists
    <2>3. Summing(sum(T), f, T)
      BY <2>2
    <2>4. SumOf(f, T) = sum(T)[T]
      BY SumDefinition
    <2> HIDE DEF sum
    <2>5. T \in SUBSET T
      OBVIOUS
    <2>6. \A s \in SUBSET T : s \subseteq T => sum(T)[s] = g[s]
      BY <2>1, <2>2, <2>3, SummingAgree
    <2> QED
      BY <2>1, <2>2, <2>3, <2>4, <2>5, <2>6
  <1> HIDE DEF sum
  <1>2. SumOf(f, {}) = 0
    BY <1>1 DEF Summing
  <1>3. ASSUME S # {}
        PROVE  Chosen(S) \in S /\ SumOf(f, S) = f[Chosen(S)] + SumOf(f, S \ {Chosen(S)})
    <2> DEFINE rest == S \ {Chosen(S)}
    <2>1. Chosen(S) \in S
      BY <1>3 DEF Chosen
    <2>2. rest \in SUBSET S /\ rest \subseteq rest /\ S \in SUBSET S
      OBVIOUS
    <2>3. sum(S)[S] = f[Chosen(S)] + sum(S)[rest]
      BY <1>1, <1>3, <2>2 DEF Summing
    <2> HIDE DEF rest
    <2>4. \A s \in SUBSET S : s \subseteq rest => sum(S)[s] = sum(rest)[s]
      BY <1>1, <2>2, SummingAgree
    <2>5. SumOf(f, S) = sum(S)[S] /\ SumOf(f, rest) = sum(rest)[rest]
      BY <1>1, <2>2
    <2>6. SumOf(f, S) = f[Chosen(S)] + SumOf(f, rest)
      BY <2>2, <2>3, <2>4, <2>5
    <2> QED
      BY <2>1, <2>6 DEF rest
  <1> QED
    BY <1>1, <1>2, <1>3

(* The order in which the elements are added does not matter.               *)
LEMMA SumWithout ==
    ASSUME NEW S, IsFiniteSet(S), NEW f, \A x \in S : f[x] \in Int, NEW e \in S
    PROVE  SumOf(f, S) = f[e] + SumOf(f, S \ {e})
  <1> DEFINE C == {T \in SUBSET S : \E x \in T : SumOf(f, T) # f[x] + SumOf(f, T \ {x})}
  <1>1. ASSUME C # {} PROVE FALSE
    <2> C \subseteq SUBSET S
      OBVIOUS
    <2> HIDE DEF C
    <2>1. PICK T \in C : \A U \in C : U \subseteq T => U = T
      BY <1>1, SmallestSubset
    <2> USE DEF C
    <2>2. PICK x \in T : SumOf(f, T) # f[x] + SumOf(f, T \ {x})
      BY <2>1
    <2>3. ASSUME NEW U \in SUBSET T
          PROVE  /\ IsFiniteSet(U) /\ \A y \in U : f[y] \in Int
                 /\ SumOf(f, U) \in Int
      BY FS_Subset, SumOfParts
    <2> DEFINE c == Chosen(T)
    <2>4. c \in T /\ SumOf(f, T) = f[c] + SumOf(f, T \ {c})
      BY <2>2, <2>3, SumOfParts
    <2> HIDE DEF c
    <2>5. c # x
      BY <2>2, <2>4
    <2>6. \A U \in SUBSET T : U # T => \A y \in U : SumOf(f, U) = f[y] + SumOf(f, U \ {y})
      BY <2>1
    <2>7. T \ {c} \in SUBSET T /\ T \ {c} # T /\ x \in T \ {c}
      BY <2>4, <2>5
    <2>8. T \ {x} \in SUBSET T /\ T \ {x} # T /\ c \in T \ {x}
      BY <2>4, <2>5
    <2>9. (T \ {c}) \ {x} = (T \ {x}) \ {c} /\ (T \ {c}) \ {x} \in SUBSET T
      OBVIOUS
    <2>10. SumOf(f, T \ {c}) = f[x] + SumOf(f, (T \ {c}) \ {x})
      BY <2>6, <2>7
    <2>11. SumOf(f, T \ {x}) = f[c] + SumOf(f, (T \ {c}) \ {x})
      BY <2>6, <2>8, <2>9
    <2>12. /\ f[x] \in Int /\ f[c] \in Int /\ SumOf(f, (T \ {c}) \ {x}) \in Int
      BY <2>3, <2>4, <2>9
    <2> QED
      BY <2>2, <2>4, <2>10, <2>11, <2>12
  <1> QED
    BY <1>1

LEMMA SumWith ==
    ASSUME NEW S, IsFiniteSet(S), NEW e, e \notin S,
           NEW f, \A x \in S \union {e} : f[x] \in Int
    PROVE  SumOf(f, S \union {e}) = SumOf(f, S) + f[e]
  <1>1. IsFiniteSet(S \union {e}) /\ (S \union {e}) \ {e} = S
    BY FS_AddElement
  <1>2. SumOf(f, S \union {e}) = f[e] + SumOf(f, S)
    BY <1>1, SumWithout
  <1>3. SumOf(f, S) \in Int /\ f[e] \in Int
    BY SumOfParts
  <1> QED
    BY <1>2, <1>3

(* Larger summands make a larger sum, equal ones the same.                  *)
LEMMA SumGrows ==
    ASSUME NEW S, IsFiniteSet(S), NEW f, NEW g,
           \A x \in S : f[x] \in Int /\ g[x] \in Int /\ f[x] <= g[x]
    PROVE  SumOf(f, S) <= SumOf(g, S)
  <1> DEFINE C == {T \in SUBSET S : ~(SumOf(f, T) <= SumOf(g, T))}
  <1>1. ASSUME C # {} PROVE FALSE
    <2> C \subseteq SUBSET S
      OBVIOUS
    <2> HIDE DEF C
    <2>1. PICK T \in C : \A U \in C : U \subseteq T => U = T
      BY <1>1, SmallestSubset
    <2> USE DEF C
    <2>2. T \in SUBSET S /\ ~(SumOf(f, T) <= SumOf(g, T)) /\ IsFiniteSet(T)
      BY <2>1, FS_Subset
    <2>3. T # {}
      <3>1. SumOf(f, {}) = 0 /\ SumOf(g, {}) = 0
        BY SumOfParts
      <3> QED
        BY <2>2, <3>1
    <2>4. PICK e \in T : TRUE
      BY <2>3
    <2>5. T \ {e} \in SUBSET S /\ IsFiniteSet(T \ {e}) /\ SumOf(f, T \ {e}) <= SumOf(g, T \ {e})
      BY <2>1, <2>2, <2>4, FS_Subset
    <2>6. SumOf(f, T) = f[e] + SumOf(f, T \ {e}) /\ SumOf(g, T) = g[e] + SumOf(g, T \ {e})
      BY <2>2, <2>4, SumWithout
    <2>7. SumOf(f, T \ {e}) \in Int /\ SumOf(g, T \ {e}) \in Int
      BY <2>5, SumOfParts
    <2> QED
      BY <2>2, <2>4, <2>5, <2>6, <2>7
  <1> QED
    BY <1>1

LEMMA SumSame ==
    ASSUME NEW S, IsFiniteSet(S), NEW f, NEW g, \A x \in S : f[x] \in Int /\ f[x] = g[x]
    PROVE  SumOf(f, S) = SumOf(g, S)
  <1>1. SumOf(f, S) <= SumOf(g, S) /\ SumOf(g, S) <= SumOf(f, S)
    BY SumGrows
  <1>2. SumOf(f, S) \in Int /\ SumOf(g, S) \in Int
    BY SumOfParts
  <1> QED
    BY <1>1, <1>2

(* One summand changes.                                                     *)
LEMMA SumChange ==
    ASSUME NEW S, IsFiniteSet(S), NEW f, NEW g, NEW e \in S,
           \A x \in S : f[x] \in Int /\ g[x] \in Int /\ (x # e => f[x] = g[x])
    PROVE  SumOf(g, S) = SumOf(f, S) - f[e] + g[e]
  <1>1. IsFiniteSet(S \ {e})
    BY FS_RemoveElement
  <1>2. SumOf(f, S \ {e}) = SumOf(g, S \ {e}) /\ SumOf(f, S \ {e}) \in Int
    BY <1>1, SumSame, SumOfParts
  <1>3. SumOf(f, S) = f[e] + SumOf(f, S \ {e}) /\ SumOf(g, S) = g[e] + SumOf(g, S \ {e})
    BY SumWithout
  <1> QED
    BY <1>2, <1>3

LEMMA SumOfNaturals ==
    ASSUME NEW S, IsFiniteSet(S), NEW f, \A x \in S : f[x] \in Nat
    PROVE  SumOf(f, S) \in Nat
  <1> DEFINE C == {T \in SUBSET S : SumOf(f, T) \notin Nat}
  <1>1. ASSUME C # {} PROVE FALSE
    <2> C \subseteq SUBSET S
      OBVIOUS
    <2> HIDE DEF C
    <2>1. PICK T \in C : \A U \in C : U \subseteq T => U = T
      BY <1>1, SmallestSubset
    <2> USE DEF C
    <2>2. T \in SUBSET S /\ SumOf(f, T) \notin Nat /\ IsFiniteSet(T)
      BY <2>1, FS_Subset
    <2>3. /\ T # {} => /\ Chosen(T) \in T
                      /\ SumOf(f, T) = f[Chosen(T)] + SumOf(f, T \ {Chosen(T)})
          /\ SumOf(f, {}) = 0
      <3>1. \A x \in T : f[x] \in Int
        BY <2>2
      <3> HIDE DEF C
      <3> QED
        BY <2>2, <3>1, SumOfParts
    <2>4. T # {}
      BY <2>2, <2>3
    <2>5. SumOf(f, T \ {Chosen(T)}) \in Nat
      BY <2>1, <2>2, <2>3, <2>4
    <2>6. f[Chosen(T)] \in Nat
      BY <2>2, <2>3, <2>4
    <2> QED
      BY <2>2, <2>3, <2>4, <2>5, <2>6
  <1> QED
    BY <1>1

(* Part of a sum of natural numbers.                                        *)
LEMMA SumOfSome ==
    ASSUME NEW S, IsFiniteSet(S), NEW f, \A x \in S : f[x] \in Nat, NEW T \in SUBSET S
    PROVE  SumOf(f, T) <= SumOf(f, S) /\ 0 <= SumOf(f, T)
  <1> DEFINE C == {U \in SUBSET S : T \subseteq U /\ ~(SumOf(f, T) <= SumOf(f, U))}
  <1>1. ASSUME C # {} PROVE FALSE
    <2> C \subseteq SUBSET S
      OBVIOUS
    <2> HIDE DEF C
    <2>1. PICK U \in C : \A V \in C : V \subseteq U => V = U
      BY <1>1, SmallestSubset
    <2> USE DEF C
    <2>2. U \in SUBSET S /\ T \subseteq U /\ ~(SumOf(f, T) <= SumOf(f, U)) /\ IsFiniteSet(U)
      BY <2>1, FS_Subset
    <2>3. SumOf(f, T) \in Int /\ SumOf(f, U) \in Int
      <3>1. IsFiniteSet(T) /\ \A x \in T : f[x] \in Int
        BY FS_Subset
      <3>2. \A x \in U : f[x] \in Int
        BY <2>2
      <3> HIDE DEF C
      <3> QED
        BY <2>2, <3>1, <3>2, SumOfParts
    <2>4. PICK e \in U \ T : TRUE
      BY <2>2, <2>3
    <2>5. /\ U \ {e} \in SUBSET S /\ SumOf(f, T) <= SumOf(f, U \ {e})
      BY <2>1, <2>2, <2>4
    <2>6. SumOf(f, U) = f[e] + SumOf(f, U \ {e})
      BY <2>2, <2>4, SumWithout
    <2>7. SumOf(f, U \ {e}) \in Int
      <3>1. IsFiniteSet(U \ {e}) /\ \A x \in U \ {e} : f[x] \in Int
        BY <2>2, FS_RemoveElement
      <3> HIDE DEF C
      <3> QED
        BY <3>1, SumOfParts
    <2>8. f[e] \in Nat
      BY <2>2, <2>4
    <2> QED
      BY <2>2, <2>3, <2>5, <2>6, <2>7, <2>8
  <1>2. 0 <= SumOf(f, T)
    BY FS_Subset, SumOfNaturals
  <1> QED
    BY <1>1, <1>2

(* h adds up f and, over T, g.                                              *)
Adds(h, f, g, T, S) ==
    \A x \in S : /\ f[x] \in Int /\ g[x] \in Int
                 /\ h[x] = IF x \in T THEN f[x] + g[x] ELSE f[x]

(* A sum over a set and one over a part of it make one sum.                 *)
LEMMA SumPlus ==
    ASSUME NEW S, IsFiniteSet(S), NEW T, NEW f, NEW g, NEW h,
           Adds(h, f, g, T, S)
    PROVE  SumOf(h, S) = SumOf(f, S) + SumOf(g, T \intersect S)
  <1> USE DEF Adds
  <1> DEFINE C == {U \in SUBSET S : SumOf(h, U) # SumOf(f, U) + SumOf(g, T \intersect U)}
  <1>1. ASSUME C # {} PROVE FALSE
    <2> C \subseteq SUBSET S
      OBVIOUS
    <2> HIDE DEF C
    <2>1. PICK U \in C : \A V \in C : V \subseteq U => V = U
      BY <1>1, SmallestSubset
    <2>2. /\ U \in SUBSET S /\ SumOf(h, U) # SumOf(f, U) + SumOf(g, T \intersect U)
          /\ IsFiniteSet(U)
      BY <2>1, FS_Subset DEF C
    <2>3. U # {}
      <3>1. IsFiniteSet({}) /\ \A x \in {} : f[x] \in Int /\ g[x] \in Int /\ h[x] \in Int
        BY FS_EmptySet
      <3>3. SumOf(f, {}) = 0 /\ SumOf(g, {}) = 0 /\ SumOf(h, {}) = 0
        BY <3>1, SumOfParts
      <3>2. U = {} => T \intersect U = {}
        OBVIOUS
      <3>4. U = {} => SumOf(h, U) = 0 /\ SumOf(f, U) = 0 /\ SumOf(g, T \intersect U) = 0
        BY <3>2, <3>3
      <3> QED
        BY <2>2, <3>4
    <2>4. PICK e \in U : TRUE
      BY <2>3
    <2> DEFINE V == U \ {e}
    <2>5. V \in SUBSET S /\ IsFiniteSet(V) /\ V # U /\ V \subseteq U
      BY <2>2, <2>4, FS_Subset
    <2>6. SumOf(h, V) = SumOf(f, V) + SumOf(g, T \intersect V)
      <3>1. V \notin C
        BY <2>1, <2>5
      <3> QED
        BY <2>5, <3>1 DEF C
    <2>7. SumOf(h, U) = h[e] + SumOf(h, V) /\ SumOf(f, U) = f[e] + SumOf(f, V)
      BY <2>2, <2>4, SumWithout
    <2>8. IsFiniteSet(T \intersect U) /\ \A x \in T \intersect U : g[x] \in Int
      BY <2>2, FS_Subset
    <2>9. SumOf(g, T \intersect U)
            = IF e \in T THEN g[e] + SumOf(g, T \intersect V) ELSE SumOf(g, T \intersect V)
      <3>1. (T \intersect U) \ {e} = T \intersect V
        OBVIOUS
      <3>2. e \notin T => T \intersect U = T \intersect V
        OBVIOUS
      <3>3. e \in T => e \in T \intersect U
        BY <2>4
      <3>4. e \in T => SumOf(g, T \intersect U) = g[e] + SumOf(g, (T \intersect U) \ {e})
        BY <2>8, <3>3, SumWithout
      <3> HIDE DEF V
      <3> QED
        BY <3>1, <3>2, <3>4
    <2>10. SumOf(f, V) \in Int /\ SumOf(g, T \intersect V) \in Int
      <3>1. IsFiniteSet(T \intersect V)
        BY <2>5, FS_Subset
      <3> QED
        BY <2>5, <3>1, SumOfParts
    <2> QED
      BY <2>2, <2>4, <2>6, <2>7, <2>9, <2>10
  <1> HIDE DEF C
  <1>2. SumOf(h, S) = SumOf(f, S) + SumOf(g, T \intersect S)
    BY <1>1 DEF C
  <1> QED
    BY <1>2

LEMMA SumOfZeros ==
    ASSUME NEW S, IsFiniteSet(S), NEW f, \A x \in S : f[x] = 0
    PROVE  SumOf(f, S) = 0
  <1> DEFINE C == {T \in SUBSET S : SumOf(f, T) # 0}
  <1>1. ASSUME C # {} PROVE FALSE
    <2> C \subseteq SUBSET S
      OBVIOUS
    <2> HIDE DEF C
    <2>1. PICK T \in C : \A U \in C : U \subseteq T => U = T
      BY <1>1, SmallestSubset
    <2>2. T \in SUBSET S /\ SumOf(f, T) # 0 /\ IsFiniteSet(T) /\ \A x \in T : f[x] \in Int
      BY <2>1, FS_Subset DEF C
    <2>3. T # {} /\ Chosen(T) \in T /\ SumOf(f, T) = f[Chosen(T)] + SumOf(f, T \ {Chosen(T)})
      BY <2>2, SumOfParts
    <2>4. SumOf(f, T \ {Chosen(T)}) = 0
      BY <2>1, <2>2, <2>3 DEF C
    <2> QED
      BY <2>2, <2>3, <2>4
  <1> HIDE DEF C
  <1> QED
    BY <1>1 DEF C

(* The same facts, of premises that are named.                              *)
DiffersAt(e, f, g, S) ==
    \A x \in S : f[x] \in Int /\ g[x] \in Int /\ (x # e => f[x] = g[x])
IsBelow(f, g, S) == \A x \in S : f[x] \in Int /\ g[x] \in Int /\ f[x] <= g[x]

LEMMA SumDiffers ==
    ASSUME NEW S, IsFiniteSet(S), NEW e \in S, NEW f, NEW g, DiffersAt(e, f, g, S)
    PROVE  SumOf(g, S) = SumOf(f, S) - f[e] + g[e]
  BY SumChange DEF DiffersAt

LEMMA SumBelow ==
    ASSUME NEW S, IsFiniteSet(S), NEW f, NEW g, IsBelow(f, g, S)
    PROVE  SumOf(f, S) <= SumOf(g, S)
  BY SumGrows DEF IsBelow

LEMMA Distributes ==
    \A k, a, b \in Int : k * (a + b) = k * a + k * b /\ k * a \in Int
  OBVIOUS

(* A multiple of every summand is one of the sum.                           *)
LEMMA SumScales ==
    ASSUME NEW S, IsFiniteSet(S), NEW f, NEW g, NEW k \in Int,
           \A x \in S : f[x] \in Int /\ g[x] = k * f[x]
    PROVE  SumOf(g, S) = k * SumOf(f, S)
  <1> DEFINE C == {T \in SUBSET S : SumOf(g, T) # k * SumOf(f, T)}
  <1>1. ASSUME C # {} PROVE FALSE
    <2> C \subseteq SUBSET S
      OBVIOUS
    <2> HIDE DEF C
    <2>1. PICK T \in C : \A U \in C : U \subseteq T => U = T
      BY <1>1, SmallestSubset
    <2> USE DEF C
    <2>2. T \in SUBSET S /\ SumOf(g, T) # k * SumOf(f, T) /\ IsFiniteSet(T)
      BY <2>1, FS_Subset
    <2>3. \A x \in T : f[x] \in Int /\ g[x] \in Int
      BY <2>2, Distributes
    <2>4. T # {}
      <3>1. SumOf(g, {}) = 0 /\ SumOf(f, {}) = 0
        BY <2>2, <2>3, SumOfParts
      <3> QED BY <2>2, <3>1
    <2> DEFINE x == Chosen(T)
    <2>5. /\ x \in T /\ SumOf(f, T) = f[x] + SumOf(f, T \ {x})
          /\ SumOf(g, T) = g[x] + SumOf(g, T \ {x})
      BY <2>2, <2>3, <2>4, SumOfParts
    <2> HIDE DEF x
    <2>6. IsFiniteSet(T \ {x})
      BY <2>2, FS_RemoveElement
    <2>7. SumOf(f, T \ {x}) \in Int
      <3>1. \A y \in T \ {x} : f[y] \in Int
        BY <2>3
      <3> QED BY <2>6, <3>1, SumOfParts
    <2>8. SumOf(g, T \ {x}) = k * SumOf(f, T \ {x})
      <3>1. T \ {x} \notin C
        BY <2>1, <2>5
      <3> QED BY <2>2, <3>1
    <2>9. k * SumOf(f, T) = k * f[x] + k * SumOf(f, T \ {x})
      BY <2>3, <2>5, <2>7, Distributes
    <2> QED BY <2>2, <2>5, <2>8, <2>9
  <1> QED BY <1>1
=============================================================================
