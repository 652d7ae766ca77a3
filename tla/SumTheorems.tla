------------------------------ MODULE SumTheorems ------------------------------
(***************************************************************************)
(* Facts the proofs share: the least number of a set, and the sum of a     *)
(* function over its finite domain, which does not depend on the order it  *)
(* is taken in.                                                            *)
(***************************************************************************)
EXTENDS Integers, FiniteSets, Functions, FiniteSetTheorems, WellFoundedInduction, TLAPS

(* Every set of numbers that is not empty has a least one.                 *)
LEMMA NatMin ==
  ASSUME NEW T, T \subseteq Nat, T # {}
  PROVE  \E x \in T : \A y \in T : x <= y
<1> DEFINE R == OpToRel(<, Nat)
<1>1. IsWellFoundedOn(R, Nat)
  BY NatLessThanWellFounded
<1>2. \A m, n \in Nat : <<m, n>> \in R <=> m < n
  BY DEF OpToRel
<1> HIDE DEF R
<1>3. \A S, U : IsWellFoundedOn(S, Nat) /\ U \subseteq Nat /\ U # {}
                  => \E x \in U : \A y \in U : ~ (<<y, x>> \in S)
  BY WFMin
<1>4. PICK x \in T : \A y \in T : ~ (<<y, x>> \in R)
  BY ONLY <1>1, <1>3, T \subseteq Nat, T # {}
<1>5. ASSUME NEW y \in T PROVE x <= y
  <2>1. x \in Nat /\ y \in Nat
    OBVIOUS
  <2>2. ~ (y < x)
    BY <1>2, <1>4, <2>1
  <2> QED
    BY <2>1, <2>2
<1> QED
  BY <1>5

-----------------------------------------------------------------------------
(* Sums over finite sets *)

(* The member a sum over a set takes next, and what it then says of every  *)
(* subset.                                                                 *)
Chosen(s) == CHOOSE x \in s : TRUE
Share(v, s, f) == IF s = {} THEN 0 ELSE f[Chosen(s)] + v[s \ {Chosen(s)}]
Sums(v, S, f) == v = [s \in SUBSET S |-> Share(v, s, f)]
Takes(v, s, x, f) == v[s] = f[x] + v[s \ {x}]
SumsTo(n, v, S, f) == \A s \in SUBSET S : Cardinality(s) <= n => v[s] = Share(v, s, f)

(* Of some subsets of a finite set, one has no other of them by one        *)
(* member smaller.                                                         *)
LEMMA Smallest ==
  ASSUME NEW S, IsFiniteSet(S), NEW B, B \subseteq SUBSET S, B # {}
  PROVE  \E s \in B : \A x \in s : s \ {x} \notin B
<1> DEFINE T == {Cardinality(s) : s \in B}
<1>1. \A s \in B : IsFiniteSet(s) /\ Cardinality(s) \in Nat
  BY FS_Subset, FS_CardinalityType
<1>2. PICK n \in T : \A k \in T : n <= k
  <2>1. T \subseteq Nat /\ T # {}
    BY <1>1
  <2> HIDE DEF T
  <2> QED
    BY <2>1, NatMin
<1>3. PICK s \in B : n = Cardinality(s)
  OBVIOUS
<1>4. \A r \in B : Cardinality(s) <= Cardinality(r)
  BY <1>2, <1>3
<1> HIDE DEF T
<1>5. ASSUME NEW x \in s, s \ {x} \in B PROVE FALSE
  <2>1. Cardinality(s \ {x}) = Cardinality(s) - 1
    BY <1>1, FS_RemoveElement
  <2> QED
    BY <1>1, <1>4, <1>5, <2>1
<1> QED
  BY <1>5

(* Every finite set has its sums. *)
LEMMA SumsExist ==
  ASSUME NEW S, IsFiniteSet(S), NEW f
  PROVE  \E v : Sums(v, S, f)
<1> DEFINE T == {n \in Nat : ~ \E v : SumsTo(n, v, S, f)}
<1>1. \A s \in SUBSET S : /\ IsFiniteSet(s) /\ Cardinality(s) \in Nat /\ (Cardinality(s) = 0 <=> s = {})
                          /\ Cardinality(s) <= Cardinality(S)
  BY FS_Subset, FS_CardinalityType, FS_EmptySet
<1>2. \A s \in SUBSET S : s # {} => /\ Chosen(s) \in s /\ s \ {Chosen(s)} \in SUBSET S
                                    /\ Cardinality(s \ {Chosen(s)}) = Cardinality(s) - 1
  <2> SUFFICES ASSUME NEW s \in SUBSET S, s # {}
               PROVE  /\ Chosen(s) \in s /\ s \ {Chosen(s)} \in SUBSET S
                      /\ Cardinality(s \ {Chosen(s)}) = Cardinality(s) - 1
    OBVIOUS
  <2>1. Chosen(s) \in s
    BY DEF Chosen
  <2> QED
    BY <1>1, <2>1, FS_RemoveElement
<1>3. T = {}
  <2> SUFFICES ASSUME T # {} PROVE FALSE
    OBVIOUS
  <2>1. PICK n \in T : \A k \in T : n <= k
    <3>1. T \subseteq Nat
      OBVIOUS
    <3> HIDE DEF T
    <3> QED
      BY <3>1, NatMin
  <2>2. n \in Nat /\ ~ \E v : SumsTo(n, v, S, f)
    OBVIOUS
  <2>3. CASE n = 0
    <3> DEFINE v == [s \in SUBSET S |-> 0]
    <3>1. SumsTo(0, v, S, f)
      <4> SUFFICES ASSUME NEW s \in SUBSET S, Cardinality(s) <= 0 PROVE v[s] = Share(v, s, f)
        BY DEF SumsTo
      <4>1. s = {}
        BY <1>1
      <4> QED
        BY <4>1 DEF Share
    <3> QED
      BY <2>2, <2>3, <3>1
  <2>4. CASE n # 0
    <3>1. n - 1 \in Nat /\ n - 1 \notin T
      BY <2>1, <2>2, <2>4
    <3>2. PICK u : SumsTo(n - 1, u, S, f)
      BY <3>1
    <3> DEFINE v == [s \in SUBSET S |-> IF Cardinality(s) <= n - 1 THEN u[s] ELSE Share(u, s, f)]
    <3>3. \A s \in SUBSET S : v[s] = IF Cardinality(s) <= n - 1 THEN u[s] ELSE Share(u, s, f)
      OBVIOUS
    <3> HIDE DEF v, T
    <3>4. ASSUME NEW s \in SUBSET S, Cardinality(s) <= n PROVE v[s] = Share(v, s, f)
      <4>1. v[s] = Share(u, s, f)
        BY <3>2, <3>3 DEF SumsTo
      <4>2. CASE s = {}
        BY <4>1, <4>2 DEF Share
      <4>3. CASE s # {}
        <5>1. v[s \ {Chosen(s)}] = u[s \ {Chosen(s)}]
          <6>1. Cardinality(s \ {Chosen(s)}) <= n - 1 /\ s \ {Chosen(s)} \in SUBSET S
            BY <1>1, <1>2, <2>2, <3>4, <4>3
          <6> QED
            BY <3>3, <6>1
        <5> QED
          BY <4>1, <4>3, <5>1 DEF Share
      <4> QED
        BY <4>2, <4>3
    <3>5. SumsTo(n, v, S, f)
      BY <3>4 DEF SumsTo
    <3> QED
      BY <2>2, <3>5
  <2> QED
    BY <2>3, <2>4
<1>4. Cardinality(S) \in Nat
  BY FS_CardinalityType
<1>5. PICK u : SumsTo(Cardinality(S), u, S, f)
  BY <1>3, <1>4
<1> DEFINE v == [s \in SUBSET S |-> u[s]]
<1>6. \A s \in SUBSET S : v[s] = u[s]
  OBVIOUS
<1>7. \A s \in SUBSET S : u[s] = Share(v, s, f)
  <2> HIDE DEF v
  <2> SUFFICES ASSUME NEW s \in SUBSET S PROVE u[s] = Share(v, s, f)
    OBVIOUS
  <2>1. u[s] = Share(u, s, f)
    BY <1>1, <1>5 DEF SumsTo
  <2>2. CASE s = {}
    BY <2>1, <2>2 DEF Share
  <2>3. CASE s # {}
    BY <1>2, <1>6, <2>1, <2>3 DEF Share
  <2> QED
    BY <2>2, <2>3
<1>8. Sums(v, S, f)
  BY <1>7 DEF Sums
<1> QED
  BY <1>8

(* The sum of integers is one, *)
LEMMA SumsAreIntegers ==
  ASSUME NEW S, IsFiniteSet(S), NEW f, \A x \in S : f[x] \in Int, NEW v, Sums(v, S, f)
  PROVE  \A s \in SUBSET S : v[s] \in Int
<1> DEFINE B == {s \in SUBSET S : v[s] \notin Int}
<1> SUFFICES ASSUME B # {} PROVE FALSE
  OBVIOUS
<1>1. PICK s \in B : \A x \in s : s \ {x} \notin B
  <2>1. B \subseteq SUBSET S
    OBVIOUS
  <2> HIDE DEF B
  <2> QED
    BY <2>1, Smallest
<1>2. s \in SUBSET S /\ v[s] \notin Int /\ v[s] = Share(v, s, f)
  BY DEF Sums
<1>3. s # {} /\ Chosen(s) \in s
  BY <1>2 DEF Share, Chosen
<1>4. v[s \ {Chosen(s)}] \in Int
  BY <1>1, <1>2, <1>3
<1> QED
  BY <1>2, <1>3, <1>4 DEF Share

(* and of natural numbers a natural one,                                  *)
LEMMA SumsAreNatural ==
  ASSUME NEW S, IsFiniteSet(S), NEW f, \A x \in S : f[x] \in Nat, NEW v, Sums(v, S, f)
  PROVE  \A s \in SUBSET S : v[s] \in Nat
<1> DEFINE B == {s \in SUBSET S : v[s] \notin Nat}
<1> SUFFICES ASSUME B # {} PROVE FALSE
  OBVIOUS
<1>1. PICK s \in B : \A x \in s : s \ {x} \notin B
  <2>1. B \subseteq SUBSET S
    OBVIOUS
  <2> HIDE DEF B
  <2> QED
    BY <2>1, Smallest
<1>2. s \in SUBSET S /\ v[s] \notin Nat /\ v[s] = Share(v, s, f)
  BY DEF Sums
<1>3. s # {} /\ Chosen(s) \in s
  BY <1>2 DEF Share, Chosen
<1>4. v[s \ {Chosen(s)}] \in Nat
  BY <1>1, <1>2, <1>3
<1> QED
  BY <1>2, <1>3, <1>4 DEF Share

(* and any member may be taken from it first. *)
LEMMA AnyMemberFirst ==
  ASSUME NEW S, IsFiniteSet(S), NEW f, \A x \in S : f[x] \in Int, NEW v, Sums(v, S, f),
         NEW r \in SUBSET S, NEW y \in r
  PROVE  Takes(v, r, y, f)
<1> DEFINE B == {s \in SUBSET S : \E x \in s : v[s] # f[x] + v[s \ {x}]}
<1> SUFFICES ASSUME B # {} PROVE FALSE
  BY DEF Takes
<1>1. PICK s \in B : \A x \in s : s \ {x} \notin B
  <2>1. B \subseteq SUBSET S
    OBVIOUS
  <2> HIDE DEF B
  <2> QED
    BY <2>1, Smallest
<1>2. s \in SUBSET S /\ \E x \in s : v[s] # f[x] + v[s \ {x}]
  OBVIOUS
<1>3. PICK x \in s : v[s] # f[x] + v[s \ {x}]
  BY <1>2
<1> DEFINE c == Chosen(s)
<1>4. c \in s /\ v[s] = f[c] + v[s \ {c}]
  <2>1. v[s] = Share(v, s, f)
    BY <1>2 DEF Sums
  <2>2. c \in s
    BY <1>3 DEF Chosen
  <2> QED
    BY <2>1, <2>2 DEF Share
<1> HIDE DEF c
<1>5. c # x
  BY <1>3, <1>4
<1>6. \A z \in s : \A w \in s \ {z} : v[s \ {z}] = f[w] + v[(s \ {z}) \ {w}]
  BY <1>1, <1>2
<1> HIDE DEF B
<1>7. v[s \ {c}] = f[x] + v[(s \ {c}) \ {x}] /\ v[s \ {x}] = f[c] + v[(s \ {x}) \ {c}]
  BY <1>4, <1>5, <1>6
<1>8. (s \ {c}) \ {x} = (s \ {x}) \ {c} /\ (s \ {c}) \ {x} \in SUBSET S
  BY <1>2
<1>9. v[(s \ {c}) \ {x}] \in Int /\ f[x] \in Int /\ f[c] \in Int
  BY <1>2, <1>4, <1>8, SumsAreIntegers
<1>10. PICK a \in Int, b \in Int, d \in Int :
         a = f[x] /\ b = f[c] /\ d = v[(s \ {c}) \ {x}] /\ d = v[(s \ {x}) \ {c}]
  BY <1>8, <1>9
<1>11. v[s] = b + (a + d) /\ f[x] + v[s \ {x}] = a + (b + d)
  BY <1>4, <1>7, <1>10
<1> QED
  BY <1>3, <1>10, <1>11

-----------------------------------------------------------------------------
(* The sum of a function *)

SumOf(f) == FoldFunction(+, 0, f)

Summable(f, S) == /\ IsFiniteSet(S) /\ f = [x \in S |-> f[x]]
                  /\ \A x \in S : f[x] \in Int

(* It is what its sums say of the whole domain.                            *)
LEMMA SumOfIs ==
  ASSUME NEW S, NEW f, Summable(f, S)
  PROVE  \E v : Sums(v, S, f) /\ SumOf(f) = v[S]
<1> DEFINE P(v) == Sums(v, S, f)
           u == CHOOSE v : P(v)
<1>1. DOMAIN f = S
  BY DEF Summable
<1>2. SumOf(f) = (CHOOSE v : Sums(v, DOMAIN f, f))[DOMAIN f]
  BY DEF SumOf, FoldFunction, FoldFunctionOnSet, MapThenFoldSet, Sums, Share, Chosen
<1>3. SumOf(f) = u[S]
  BY <1>1, <1>2
<1>4. \E v : P(v)
  BY SumsExist DEF Summable
<1>5. P(u)
  <2> HIDE DEF P
  <2> QED
    BY <1>4
<1> QED
  BY <1>3, <1>5

(* Functions that agree on a set have the same sums there,                 *)
LEMMA SameSums ==
  ASSUME NEW S, NEW f, NEW g, \A x \in S : f[x] = g[x], NEW v, Sums(v, S, f)
  PROVE  Sums(v, S, g)
<1>1. \A s \in SUBSET S : Share(v, s, f) = Share(v, s, g)
  BY DEF Share, Chosen
<1> QED
  BY <1>1 DEF Sums

(* and the sums of a set are those of its subsets.                         *)
LEMMA SumsOfSubset ==
  ASSUME NEW S, IsFiniteSet(S), NEW T \in SUBSET S, NEW f, NEW v, Sums(v, S, f), NEW u, Sums(u, T, f)
  PROVE  u[T] = v[T]
<1> DEFINE B == {s \in SUBSET T : u[s] # v[s]}
<1> SUFFICES ASSUME B # {} PROVE FALSE
  OBVIOUS
<1>1. IsFiniteSet(T)
  BY FS_Subset
<1>2. PICK s \in B : \A x \in s : s \ {x} \notin B
  <2>1. B \subseteq SUBSET T
    OBVIOUS
  <2> HIDE DEF B
  <2> QED
    BY <1>1, <2>1, Smallest
<1>3. s \in SUBSET T /\ s \in SUBSET S /\ u[s] # v[s] /\ u[s] = Share(u, s, f) /\ v[s] = Share(v, s, f)
  BY DEF Sums
<1>4. s # {} /\ Chosen(s) \in s
  BY <1>3 DEF Share, Chosen
<1>5. u[s \ {Chosen(s)}] = v[s \ {Chosen(s)}]
  BY <1>2, <1>3, <1>4
<1> QED
  BY <1>3, <1>4, <1>5 DEF Share

(* The sum of nothing is 0, and that of integers an integer;               *)
LEMMA SumOfIsInt ==
  ASSUME NEW S, NEW f, Summable(f, S)
  PROVE  SumOf(f) \in Int /\ (S = {} => SumOf(f) = 0)
<1>1. PICK v : Sums(v, S, f) /\ SumOf(f) = v[S]
  BY SumOfIs
<1>2. v[S] \in Int
  BY <1>1, SumsAreIntegers DEF Summable
<1>3. S = {} => v[S] = 0
  BY <1>1 DEF Sums, Share
<1> QED
  BY <1>1, <1>2, <1>3

(* one more member adds what it has.                                       *)
Widens(g, f, S, x) == x \notin S /\ Summable(g, S \cup {x}) /\ \A y \in S : g[y] = f[y]
AddsUp(g, f, x) == SumOf(g) = SumOf(f) + g[x]

LEMMA OneMore ==
  ASSUME NEW S, NEW f, Summable(f, S), NEW x, NEW g, Widens(g, f, S, x)
  PROVE  AddsUp(g, f, x)
<1> SUFFICES ASSUME x \notin S, Summable(g, S \cup {x}), \A y \in S : g[y] = f[y]
             PROVE  SumOf(g) = SumOf(f) + g[x]
  BY DEF Widens, AddsUp
<1> DEFINE T == S \cup {x}
<1>1. PICK u : Sums(u, S, f) /\ SumOf(f) = u[S]
  BY SumOfIs
<1>2. PICK v : Sums(v, T, g) /\ SumOf(g) = v[T]
  BY SumOfIs
<1>3. Takes(v, T, x, g)
  BY <1>2, AnyMemberFirst DEF Summable
<1>4. T \ {x} = S
  OBVIOUS
<1>5. Sums(u, S, g)
  BY <1>1, SameSums
<1>6. u[S] = v[S]
  BY <1>2, <1>5, SumsOfSubset DEF Summable
<1>7. v[S] \in Int /\ g[x] \in Int
  BY <1>1, <1>6, SumOfIsInt DEF Summable
<1>8. v[T] = g[x] + v[S]
  BY <1>3, <1>4 DEF Takes
<1> HIDE DEF T
<1> QED
  BY <1>1, <1>2, <1>6, <1>7, <1>8
================================================================================
