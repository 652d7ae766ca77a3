-------------------------- MODULE PositionClaimsProofs --------------------------
(***************************************************************************)
(* What holds of the position claims for every window and any number of    *)
(* episodes, and of their boundaries for every history of the chain.       *)
(***************************************************************************)
EXTENDS PositionClaims, SequenceTheorems, SumTheorems

(* Which check may follow which, and which may be the last. *)
Successors(check) ==
  CASE check \in {"pin", "same"} -> {"same", "match", "subjects"}
    [] check = "match" -> {"again"}
    [] check \in {"full"} -> {"pin"}
    [] check = "rebuilt" -> {"full"}
    [] OTHER -> {"full", "rebuilt"}
Endings == {"again", "subjects"}
Checks == {"full", "pin", "same", "subjects", "match", "again", "rebuilt"}

Chained(s) == \A i \in DOMAIN s : i + 1 \in DOMAIN s => s[i + 1] \in Successors(s[i])
EndsWell(s) == s # <<>> => s[Len(s)] \in Endings
Plain(s) == \A i \in DOMAIN s : s[i] # "subjects"
SubjectsAhead(s) ==
  \E j \in DOMAIN s : /\ s[j] = "subjects"
                      /\ \A i \in DOMAIN s : (i < j => s[i] = "same") /\ (i > j => s[i] # "subjects")
RebuildsAhead(s) == \E i \in DOMAIN s : s[i] = "rebuilt"

(* Before the first capture of an operation nothing was relied on; while   *)
(* its episodes are enumerated it is the pinned evidence; and from then on *)
(* the subject, with the evidence of a pinned enumeration until the two    *)
(* are compared.                                                           *)
Operations == {"population", "selection", "issuance"}
Compared == {"full", "pin", "again", "rebuilt"}

Fresh == captures # <<>> /\ captures[1] = "pin" /\ SubjectsAhead(Tail(captures)) /\ rests = {}
Pinned == SubjectsAhead(captures) /\ rests = {pinned}
Evaluates ==
  /\ Plain(captures) /\ subject \in rests /\ rests \subseteq {subject, pinned}
  /\ captures = <<>> \/ captures[1] \in Compared => rests = {subject}

(* The supplied population is still to be compared with the rebuilt one,   *)
(* or it rests on the same evidence.                                       *)
Rebuilt == RebuildsAhead(captures) \/ (Plain(captures) /\ subject = population)

ProgramInv ==
  /\ captures \in Seq(Checks) /\ Chained(captures) /\ EndsWell(captures)
  /\ Fresh \/ Pinned \/ Evaluates
  /\ stage # "population" => Rebuilt

EvidenceInv ==
  /\ rows \in Seq(Range(rows)) /\ Len(outcomes) \in Nat
  /\ stage \in Operations => ProgramInv
  /\ stage = "populated" => rests = {} \/ \E x \in rests : rests = {x}
  /\ stage \in {"selected", "issued"} => rests = {population}

(* Where the i-th check of a repetition stands in what is repeated.        *)
Place(i, L) == ((i - 1) % L) + 1

(* The places go round. *)
LEMMA Rounds ==
  ASSUME NEW L \in Nat \ {0}
  PROVE  /\ \A i \in Nat \ {0} : Place(i, L) \in 1..L
         /\ \A i \in Nat \ {0} : Place(i, L) = L => Place(i + 1, L) = 1
         /\ \A i \in Nat \ {0} : Place(i, L) # L => Place(i + 1, L) = Place(i, L) + 1
         /\ Place(1, L) = 1
         /\ \A n \in Nat \ {0} : n * L \in Nat \ {0} /\ Place(n * L, L) = L
<1>1. ASSUME NEW i \in Nat \ {0}
      PROVE  /\ Place(i, L) \in 1..L
             /\ Place(i, L) = L => Place(i + 1, L) = 1
             /\ Place(i, L) # L => Place(i + 1, L) = Place(i, L) + 1
  <2> DEFINE x == i - 1
             q == x \div L
             r == x % L
  <2>1. x \in Nat /\ r \in 0..(L - 1) /\ q \in Nat
    OBVIOUS
  <2>2. x = q * L + r
    BY <2>1, Z3T(30)
  <2>3. \A k \in Nat, d \in 0..(L - 1) : (L * k + d) % L = d
    OBVIOUS
  <2>4. Place(i, L) = r + 1 /\ Place(i + 1, L) = ((x + 1) % L) + 1
    BY DEF Place
  <2> HIDE DEF q, r, x
  <2>5. ASSUME r < L - 1 PROVE (x + 1) % L = r + 1
    <3>1. x + 1 = L * q + (r + 1) /\ r + 1 \in 0..(L - 1)
      BY <2>1, <2>2, <2>5
    <3> QED
      BY <2>1, <2>3, <3>1
  <2>6. ASSUME r = L - 1 PROVE (x + 1) % L = 0
    <3>1. x + 1 = L * (q + 1) + 0 /\ 0 \in 0..(L - 1) /\ q + 1 \in Nat
      BY <2>1, <2>2, <2>6
    <3> QED
      BY <2>3, <3>1
  <2> DEFINE y == (x + 1) % L
  <2>7. (r < L - 1 => y = r + 1) /\ (r = L - 1 => y = 0) /\ Place(i + 1, L) = y + 1
    BY <2>4, <2>5, <2>6
  <2> HIDE DEF y
  <2> QED
    BY <2>1, <2>4, <2>7
<1>2. Place(1, L) = 1
  BY DEF Place
<1>3. ASSUME NEW n \in Nat \ {0} PROVE n * L \in Nat \ {0} /\ Place(n * L, L) = L
  <2>1. n * L \in Nat \ {0} /\ (n * L - 1) % L = L - 1
    OBVIOUS
  <2> QED
    BY <2>1 DEF Place
<1> QED
  BY <1>1, <1>2, <1>3

(* What is repeated begins and ends as what it repeats, and in between     *)
(* one copy follows the other.                                             *)
LEMMA Repeated ==
  ASSUME NEW S, NEW s \in Seq(S), s # <<>>, NEW n \in Nat,
         Chained(s), EndsWell(s), s[1] = "full", Plain(s)
  PROVE  /\ Repeat(s, n) \in Seq(S) /\ Chained(Repeat(s, n)) /\ EndsWell(Repeat(s, n)) /\ Plain(Repeat(s, n))
         /\ Repeat(s, n) # <<>> => Repeat(s, n)[1] = "full"
<1> DEFINE L == Len(s)
           N == n * L
           t == Repeat(s, n)
<1>1. L \in Nat \ {0} /\ DOMAIN s = 1..L
  OBVIOUS
<1>2. N \in Nat /\ t = [i \in 1..N |-> s[Place(i, L)]]
  BY <1>1 DEF Repeat, Place
<1>3. /\ \A i \in Nat \ {0} : Place(i, L) \in 1..L
      /\ \A i \in Nat \ {0} : Place(i, L) = L => Place(i + 1, L) = 1
      /\ \A i \in Nat \ {0} : Place(i, L) # L => Place(i + 1, L) = Place(i, L) + 1
      /\ Place(1, L) = 1
  BY <1>1, Rounds
<1>4. N # 0 => Place(N, L) = L
  <2>1. CASE n = 0
    BY <1>1, <2>1
  <2>2. CASE n # 0
    BY <1>1, <2>2, Rounds
  <2> QED
    BY <2>1, <2>2
<1> HIDE DEF N, t
<1>5. t \in Seq(S) /\ Len(t) = N /\ DOMAIN t = 1..N
  <2>1. \A i \in 1..N : s[Place(i, L)] \in S
    BY <1>1, <1>2, <1>3
  <2> QED
    BY <1>2, <2>1
<1>6. Chained(t)
  <2> SUFFICES ASSUME NEW i \in 1..N, i + 1 \in 1..N
               PROVE  t[i + 1] \in Successors(t[i])
    BY <1>5 DEF Chained
  <2> HIDE DEF L
  <2>1. /\ Place(i, L) \in 1..L /\ t[i] = s[Place(i, L)] /\ t[i + 1] = s[Place(i + 1, L)]
        /\ Place(i, L) = L => Place(i + 1, L) = 1
        /\ Place(i, L) # L => Place(i + 1, L) = Place(i, L) + 1
    BY <1>2, <1>3
  <2>2. CASE Place(i, L) = L
    <3>1. s[L] \in Endings
      BY <1>1 DEF EndsWell, L
    <3> QED
      BY <2>1, <2>2, <3>1 DEF Endings, Successors
  <2>3. CASE Place(i, L) # L
    <3>1. Place(i, L) \in DOMAIN s /\ Place(i, L) + 1 \in DOMAIN s
      BY <1>1, <2>1, <2>3
    <3> QED
      BY <2>1, <2>3, <3>1 DEF Chained
  <2> QED
    BY <2>2, <2>3
<1>7. EndsWell(t)
  <2> SUFFICES ASSUME t # <<>> PROVE t[N] \in Endings
    BY <1>5 DEF EndsWell
  <2>1. N # 0
    BY <1>5
  <2>2. t[N] = s[L]
    BY <1>2, <1>4, <2>1
  <2> QED
    BY <2>2 DEF EndsWell
<1>8. Plain(t)
  <2> SUFFICES ASSUME NEW i \in 1..N PROVE t[i] # "subjects"
    BY <1>5 DEF Plain
  <2> HIDE DEF L
  <2> QED
    BY <1>1, <1>2, <1>3 DEF Plain
<1>9. ASSUME t # <<>> PROVE t[1] = "full"
  <2>1. 1 \in 1..N
    BY <1>2, <1>5, <1>9
  <2> QED
    BY <1>2, <1>3, <2>1
<1> QED
  BY <1>5, <1>6, <1>7, <1>8, <1>9 DEF t

(* What may follow an enumeration whose subjects are known.                *)
Segment(s) ==
  /\ s \in Seq(Checks) /\ Chained(s) /\ EndsWell(s) /\ Plain(s)
  /\ s # <<>> => s[1] \in {"full", "rebuilt"}

(* One segment may follow another. *)
LEMMA SegmentsJoin ==
  ASSUME NEW s, NEW t, Segment(s), Segment(t)
  PROVE  Segment(s \o t)
<1> DEFINE u == s \o t
           m == Len(s)
           n == Len(t)
<1>1. s \in Seq(Checks) /\ t \in Seq(Checks)
  BY DEF Segment
<1>2. m \in Nat /\ DOMAIN s = 1..m /\ n \in Nat /\ DOMAIN t = 1..n
  BY <1>1
<1>3. u \in Seq(Checks) /\ Len(u) = m + n /\ DOMAIN u = 1..(m + n)
  BY <1>1, <1>2, ConcatProperties
<1>4. \A i \in 1..(m + n) : (i <= m => u[i] = s[i]) /\ (i > m => u[i] = t[i - m])
  BY <1>1, <1>2, ConcatProperties
<1> HIDE DEF u, m, n
<1>5. m # 0 => s[m] \in Endings
  BY <1>2 DEF Segment, EndsWell, m
<1>6. n # 0 => t[1] \in {"full", "rebuilt"} /\ t[n] \in Endings
  BY <1>2 DEF Segment, EndsWell, n
<1>7. Chained(u)
  <2> SUFFICES ASSUME NEW i \in 1..(m + n), i + 1 \in 1..(m + n)
               PROVE  u[i + 1] \in Successors(u[i])
    BY <1>3 DEF Chained
  <2>1. CASE i < m
    BY <1>2, <1>4, <2>1 DEF Segment, Chained
  <2>2. CASE i = m
    <3>1. u[i] = s[m] /\ u[i + 1] = t[1] /\ m # 0 /\ n # 0
      BY <1>2, <1>4, <2>2
    <3> QED
      BY <1>5, <1>6, <3>1 DEF Endings, Successors
  <2>3. CASE i > m
    <3>1. i - m \in DOMAIN t /\ (i - m) + 1 \in DOMAIN t /\ u[i] = t[i - m] /\ u[i + 1] = t[(i - m) + 1]
      BY <1>2, <1>4, <2>3
    <3> QED
      BY <3>1 DEF Segment, Chained
  <2> QED
    BY <1>2, <2>1, <2>2, <2>3
<1>8. EndsWell(u)
  <2>1. CASE n # 0
    BY <1>2, <1>3, <1>4, <1>6, <2>1 DEF EndsWell
  <2>2. CASE n = 0 /\ m # 0
    BY <1>2, <1>3, <1>4, <1>5, <2>2 DEF EndsWell
  <2>3. CASE n = 0 /\ m = 0
    BY <1>3, <2>3 DEF EndsWell
  <2> QED
    BY <2>1, <2>2, <2>3
<1>9. Plain(u)
  BY <1>2, <1>3, <1>4 DEF Segment, Plain
<1>10. u # <<>> => u[1] \in {"full", "rebuilt"}
  <2>1. CASE m # 0
    BY <1>2, <1>3, <1>4, <2>1 DEF Segment
  <2>2. CASE m = 0
    BY <1>2, <1>3, <1>4, <1>6, <2>2
  <2> QED
    BY <2>1, <2>2
<1> QED
  BY <1>3, <1>7, <1>8, <1>9, <1>10 DEF Segment, u

(* The checks of an enumeration, one after the other.                      *)
LEMMA Enumerating ==
  ASSUME NEW n \in Nat
  PROVE  /\ Enumerate(n) \in Seq(Checks) /\ Len(Enumerate(n)) = n + 1
         /\ Enumerate(n)[1] = "pin" /\ \A i \in 2..(n + 1) : Enumerate(n)[i] = "same"
<1> DEFINE r == Repeat(<<"same">>, n)
<1>1. r = [i \in 1..n |-> "same"]
  <2>1. n * Len(<<"same">>) = n
    OBVIOUS
  <2>2. \A i \in 1..n : <<"same">>[((i - 1) % Len(<<"same">>)) + 1] = "same"
    OBVIOUS
  <2> QED
    BY <2>1, <2>2 DEF Repeat
<1>2. r \in Seq(Checks) /\ Len(r) = n /\ \A i \in 1..n : r[i] = "same"
  BY <1>1 DEF Checks
<1>3. <<"pin">> \in Seq(Checks) /\ Len(<<"pin">>) = 1 /\ <<"pin">>[1] = "pin"
  BY DEF Checks
<1> HIDE DEF r
<1> DEFINE p == <<"pin">>
           e == p \o r
<1> HIDE DEF p
<1>4. /\ e \in Seq(Checks) /\ Len(e) = 1 + n
      /\ \A i \in 1..(1 + n) : e[i] = IF i <= 1 THEN p[i] ELSE r[i - 1]
  BY <1>2, <1>3, ConcatProperties DEF p
<1> HIDE DEF e
<1>5. e[1] = "pin" /\ \A i \in 2..(n + 1) : e[i] = "same"
  BY <1>2, <1>3, <1>4 DEF p
<1> QED
  BY <1>4, <1>5 DEF e, p, r, Enumerate

(* What stands where in two sequences, one after the other.                *)
Follows(u, s, t, m, n) ==
  /\ Len(u) = m + n /\ DOMAIN u = 1..(m + n)
  /\ \A i \in 1..m : u[i] = s[i]
  /\ \A i \in (m + 1)..(m + n) : u[i] = t[i - m]

LEMMA Joined ==
  ASSUME NEW S, NEW s \in Seq(S), NEW t \in Seq(S)
  PROVE  s \o t \in Seq(S) /\ Follows(s \o t, s, t, Len(s), Len(t))
<1>1. /\ s \o t \in Seq(S) /\ Len(s \o t) = Len(s) + Len(t)
      /\ \A i \in 1 .. Len(s) + Len(t) : (s \o t)[i] = IF i <= Len(s) THEN s[i] ELSE t[i - Len(s)]
  BY ConcatProperties
<1> QED
  BY <1>1 DEF Follows

(* The evaluation of an episode may follow a segment, and a rebuilt        *)
(* population too.                                                         *)
LEMMA Evaluating ==
  ASSUME NEW n \in Nat
  PROVE  /\ Segment(Evaluate(n)) /\ Evaluate(n) # <<>> /\ Evaluate(n)[1] = "full"
         /\ Segment(<<"rebuilt">> \o Evaluate(n)) /\ (<<"rebuilt">> \o Evaluate(n))[1] = "rebuilt"
<1> DEFINE e == Enumerate(n)
           a == <<"full">>
           z == <<"match", "again">>
           f == a \o e
           v == f \o z
           b == <<"rebuilt">>
           w == b \o v
<1>1. e \in Seq(Checks) /\ Len(e) = n + 1 /\ e[1] = "pin" /\ \A i \in 2..(n + 1) : e[i] = "same"
  BY Enumerating
<1>2. /\ a \in Seq(Checks) /\ Len(a) = 1 /\ a[1] = "full"
      /\ z \in Seq(Checks) /\ Len(z) = 2 /\ z[1] = "match" /\ z[2] = "again"
      /\ b \in Seq(Checks) /\ Len(b) = 1 /\ b[1] = "rebuilt"
  BY DEF Checks
<1>3. v = Evaluate(n)
  BY DEF Evaluate
<1> HIDE DEF e, a, z, b
<1>4. /\ f \in Seq(Checks) /\ Len(f) = 1 + (n + 1)
      /\ \A i \in 1..1 : f[i] = a[i]
      /\ \A i \in (1 + 1)..(1 + (n + 1)) : f[i] = e[i - 1]
  <2>1. f \in Seq(Checks) /\ Follows(f, a, e, Len(a), Len(e))
    BY <1>1, <1>2, Joined DEF f
  <2>2. Follows(f, a, e, 1, n + 1)
    BY ONLY <1>1, <1>2, <2>1
  <2> QED
    BY <2>1, <2>2 DEF Follows
<1> HIDE DEF f
<1>5. /\ v \in Seq(Checks) /\ Len(v) = n + 4
      /\ \A i \in 1..(n + 2) : v[i] = f[i]
      /\ \A i \in (n + 3)..(n + 4) : v[i] = z[i - (n + 2)]
  <2>1. v \in Seq(Checks) /\ Follows(v, f, z, Len(f), Len(z))
    BY <1>2, <1>4, Joined DEF v
  <2>2. Follows(v, f, z, n + 2, 2)
    <3>1. Len(f) = n + 2 /\ Len(z) = 2
      BY <1>2, <1>4
    <3> QED
      BY ONLY <2>1, <3>1
  <2> QED
    BY <2>1, <2>2 DEF Follows
<1> HIDE DEF v
<1>6. /\ v[1] = "full" /\ v[2] = "pin" /\ \A i \in 3..(n + 2) : v[i] = "same"
      /\ v[n + 3] = "match" /\ v[n + 4] = "again"
  BY <1>1, <1>2, <1>4, <1>5
<1>7. DOMAIN v = 1..(n + 4)
  BY <1>5
<1>8. Chained(v)
  <2> SUFFICES ASSUME NEW i \in 1..(n + 3) PROVE v[i + 1] \in Successors(v[i])
    BY <1>7 DEF Chained
  <2>1. i = 1 \/ i = 2 \/ i \in 3..(n + 2) \/ i = n + 3
    OBVIOUS
  <2>2. CASE i = 1
    BY <1>6, <2>2 DEF Successors
  <2>3. CASE i \in 2..(n + 2)
    <3>1. v[i] \in {"pin", "same"} /\ v[i + 1] \in {"same", "match"}
      <4>1. v[i] \in {"pin", "same"}
        BY <1>6, <2>3
      <4>2. CASE i = n + 2
        BY <1>6, <4>1, <4>2
      <4>3. CASE i # n + 2
        BY <1>6, <2>3, <4>1, <4>3
      <4> QED
        BY <4>2, <4>3
    <3> QED
      BY <3>1 DEF Successors
  <2>4. CASE i = n + 3
    <3>1. v[i] = "match" /\ v[i + 1] = "again"
      BY <1>6, <2>4
    <3> QED
      BY <3>1 DEF Successors
  <2> QED
    BY <2>1, <2>2, <2>3, <2>4
<1>9. EndsWell(v) /\ v # <<>> /\ v[1] \in {"full", "rebuilt"}
  BY <1>5, <1>6 DEF EndsWell, Endings
<1>10. Plain(v)
  <2> SUFFICES ASSUME NEW i \in 1..(n + 4) PROVE v[i] # "subjects"
    BY <1>7 DEF Plain
  <2>1. i = 1 \/ i = 2 \/ i \in 3..(n + 2) \/ i = n + 3 \/ i = n + 4
    OBVIOUS
  <2> QED
    BY <1>6, <2>1
<1>11. Segment(v)
  BY <1>5, <1>8, <1>9, <1>10 DEF Segment
<1>12. /\ w \in Seq(Checks) /\ Len(w) = n + 5 /\ DOMAIN w = 1..(n + 5)
       /\ \A i \in 1..1 : w[i] = b[i]
       /\ \A i \in 2..(n + 5) : w[i] = v[i - 1]
  <2>1. w \in Seq(Checks) /\ Follows(w, b, v, Len(b), Len(v))
    BY <1>2, <1>5, Joined DEF w
  <2>2. Follows(w, b, v, 1, n + 4)
    BY ONLY <1>2, <1>5, <2>1
  <2> QED
    BY <2>1, <2>2 DEF Follows
<1> HIDE DEF w
<1>13. w[1] = "rebuilt" /\ \A i \in 2..(n + 5) : w[i] = v[i - 1]
  BY <1>2, <1>12
<1>14. Segment(w)
  <2>1. Chained(w)
    <3> SUFFICES ASSUME NEW i \in 1..(n + 4) PROVE w[i + 1] \in Successors(w[i])
      BY <1>12 DEF Chained
    <3>1. CASE i = 1
      BY <1>6, <1>13, <3>1 DEF Successors
    <3>2. CASE i # 1
      <4>1. w[i] = v[i - 1] /\ w[i + 1] = v[(i - 1) + 1] /\ i - 1 \in 1..(n + 4) /\ (i - 1) + 1 \in 1..(n + 4)
        BY <1>13, <3>2
      <4> QED
        BY <1>7, <1>8, <4>1 DEF Chained
    <3> QED
      BY <3>1, <3>2
  <2>2. EndsWell(w) /\ w # <<>>
    BY <1>6, <1>12, <1>13 DEF EndsWell, Endings
  <2>3. Plain(w)
    <3> SUFFICES ASSUME NEW i \in 1..(n + 5) PROVE w[i] # "subjects"
      BY <1>12 DEF Plain
    <3>1. CASE i = 1
      BY <1>13, <3>1
    <3>2. CASE i # 1
      <4>1. w[i] = v[i - 1] /\ i - 1 \in 1..(n + 4)
        BY <1>13, <3>2
      <4> QED
        BY <1>7, <1>10, <4>1 DEF Plain
    <3> QED
      BY <3>1, <3>2
  <2> QED
    BY <1>12, <1>13, <2>1, <2>2, <2>3 DEF Segment
<1> QED
  BY <1>3, <1>5, <1>6, <1>9, <1>11, <1>13, <1>14 DEF w, b

(* What the sequence without its first check holds.                        *)
LEMMA TailFacts ==
  ASSUME NEW s \in Seq(Checks), s # <<>>
  PROVE  /\ Len(s) \in Nat \ {0} /\ DOMAIN s = 1..Len(s) /\ Head(s) = s[1]
         /\ Tail(s) \in Seq(Checks) /\ Len(Tail(s)) = Len(s) - 1 /\ DOMAIN Tail(s) = 1..(Len(s) - 1)
         /\ \A i \in 1..(Len(s) - 1) : Tail(s)[i] = s[i + 1]
OBVIOUS

(* A check that is dealt with leaves a sequence of the same kind.          *)
LEMMA TailKeeps ==
  ASSUME NEW s \in Seq(Checks), s # <<>>, Chained(s), EndsWell(s)
  PROVE  /\ Tail(s) \in Seq(Checks) /\ Chained(Tail(s)) /\ EndsWell(Tail(s))
         /\ Tail(s) # <<>> => Tail(s)[1] \in Successors(s[1])
         /\ Tail(s) = <<>> => s[1] \in Endings
         /\ Plain(s) => Plain(Tail(s)) /\ s[1] # "subjects"
         /\ RebuildsAhead(s) => s[1] = "rebuilt" \/ RebuildsAhead(Tail(s))
         /\ SubjectsAhead(s) => \/ s[1] = "same" /\ SubjectsAhead(Tail(s))
                                \/ s[1] = "subjects" /\ Plain(Tail(s))
<1> DEFINE t == Tail(s)
           n == Len(s)
<1>1. /\ n \in Nat \ {0} /\ DOMAIN s = 1..n
      /\ t \in Seq(Checks) /\ Len(t) = n - 1 /\ DOMAIN t = 1..(n - 1)
      /\ \A i \in 1..(n - 1) : t[i] = s[i + 1]
  BY TailFacts
<1>2. n = 1 <=> t = <<>>
  <2>1. \A x \in Seq(Checks) : x = <<>> <=> Len(x) = 0
    OBVIOUS
  <2> HIDE DEF t, n
  <2> QED
    BY <1>1, <2>1
<1>3. s[n] \in Endings
  BY DEF EndsWell
<1> HIDE DEF t, n
<1>4. Chained(t)
  <2> SUFFICES ASSUME NEW i \in 1..(n - 1), i + 1 \in 1..(n - 1)
               PROVE  t[i + 1] \in Successors(t[i])
    BY <1>1 DEF Chained
  <2>1. i + 1 \in DOMAIN s /\ (i + 1) + 1 \in DOMAIN s /\ t[i] = s[i + 1] /\ t[i + 1] = s[(i + 1) + 1]
    BY <1>1
  <2> QED
    BY <2>1 DEF Chained
<1>5. EndsWell(t)
  <2> SUFFICES ASSUME t # <<>> PROVE t[n - 1] \in Endings
    BY <1>1 DEF EndsWell
  <2>1. n - 1 \in 1..(n - 1) /\ t[n - 1] = s[n]
    BY <1>1, <1>2
  <2> QED
    BY <1>3, <2>1
<1>6. ASSUME t # <<>> PROVE t[1] \in Successors(s[1])
  <2>1. 1 \in DOMAIN s /\ 1 + 1 \in DOMAIN s /\ t[1] = s[1 + 1]
    BY <1>1, <1>2, <1>6
  <2> QED
    BY <2>1 DEF Chained
<1>7. t = <<>> => s[1] \in Endings
  BY <1>2, <1>3
<1>8. Plain(s) => Plain(t) /\ s[1] # "subjects"
  BY <1>1 DEF Plain
<1>9. ASSUME RebuildsAhead(s) PROVE s[1] = "rebuilt" \/ RebuildsAhead(t)
  <2>1. PICK i \in 1..n : s[i] = "rebuilt"
    BY <1>1, <1>9 DEF RebuildsAhead
  <2>2. CASE i = 1
    BY <2>1, <2>2
  <2>3. CASE i # 1
    <3>1. i - 1 \in DOMAIN t /\ t[i - 1] = "rebuilt"
      BY <1>1, <2>1, <2>3
    <3> QED
      BY <3>1 DEF RebuildsAhead
  <2> QED
    BY <2>2, <2>3
<1>10. ASSUME SubjectsAhead(s)
       PROVE  \/ s[1] = "same" /\ SubjectsAhead(t)
              \/ s[1] = "subjects" /\ Plain(t)
  <2>1. PICK j \in 1..n : /\ s[j] = "subjects"
                          /\ \A i \in 1..n : (i < j => s[i] = "same") /\ (i > j => s[i] # "subjects")
    BY <1>1, <1>10 DEF SubjectsAhead
  <2>2. CASE j = 1
    BY <1>1, <2>1, <2>2 DEF Plain
  <2>3. CASE j # 1
    <3>1. s[1] = "same" /\ j - 1 \in 1..(n - 1) /\ t[j - 1] = "subjects"
      BY <1>1, <2>1, <2>3
    <3>2. ASSUME NEW i \in 1..(n - 1)
          PROVE  (i < j - 1 => t[i] = "same") /\ (i > j - 1 => t[i] # "subjects")
      <4>1. i + 1 \in 1..n /\ t[i] = s[i + 1] /\ (i < j - 1 => i + 1 < j) /\ (i > j - 1 => i + 1 > j)
        BY <1>1
      <4> QED
        BY <2>1, <4>1
    <3> QED
      BY <1>1, <3>1, <3>2 DEF SubjectsAhead
  <2> QED
    BY <2>2, <2>3
<1> QED
  BY <1>1, <1>4, <1>5, <1>6, <1>7, <1>8, <1>9, <1>10 DEF t

(* What an operation starts with.                                          *)
Program(u) ==
  /\ u \in Seq(Checks) /\ Chained(u) /\ EndsWell(u)
  /\ u # <<>> /\ u[1] = "pin" /\ SubjectsAhead(Tail(u))

(* The enumeration that every operation starts with.                       *)
LEMMA Leading ==
  ASSUME NEW n \in Nat
  PROVE  Program(Enumerate(n) \o <<"subjects">>)
<1> DEFINE e == Enumerate(n)
           z == <<"subjects">>
           u == e \o z
           t == Tail(u)
<1>1. e \in Seq(Checks) /\ Len(e) = n + 1 /\ e[1] = "pin" /\ \A i \in 2..(n + 1) : e[i] = "same"
  BY Enumerating
<1>2. z \in Seq(Checks) /\ Len(z) = 1 /\ z[1] = "subjects"
  BY DEF Checks
<1> HIDE DEF e, z
<1>3. /\ u \in Seq(Checks) /\ Len(u) = n + 2 /\ DOMAIN u = 1..(n + 2)
      /\ \A i \in 1..(n + 1) : u[i] = e[i]
      /\ \A i \in (n + 2)..(n + 2) : u[i] = z[i - (n + 1)]
  <2>1. u \in Seq(Checks) /\ Follows(u, e, z, Len(e), Len(z))
    BY <1>1, <1>2, Joined DEF u
  <2>2. Follows(u, e, z, n + 1, 1)
    BY ONLY <1>1, <1>2, <2>1
  <2> QED
    BY <2>1, <2>2 DEF Follows
<1> HIDE DEF u
<1>4. u[1] = "pin" /\ u[n + 2] = "subjects" /\ \A i \in 2..(n + 1) : u[i] = "same"
  BY <1>1, <1>2, <1>3
<1>5. Chained(u)
  <2> SUFFICES ASSUME NEW i \in 1..(n + 1) PROVE u[i + 1] \in Successors(u[i])
    BY <1>3 DEF Chained
  <2>1. u[i] \in {"pin", "same"} /\ u[i + 1] \in {"same", "subjects"}
    <3>1. u[i] \in {"pin", "same"}
      BY <1>4
    <3>2. CASE i = n + 1
      BY <1>4, <3>1, <3>2
    <3>3. CASE i # n + 1
      BY <1>4, <3>1, <3>3
    <3> QED
      BY <3>2, <3>3
  <2> QED
    BY <2>1 DEF Successors
<1>6. EndsWell(u) /\ u # <<>>
  BY <1>3, <1>4 DEF EndsWell, Endings
<1>7. DOMAIN t = 1..(n + 1) /\ \A i \in 1..(n + 1) : t[i] = u[i + 1]
  BY <1>3, <1>6, TailFacts
<1> HIDE DEF t
<1>8. SubjectsAhead(t)
  <2>1. n + 1 \in DOMAIN t /\ t[n + 1] = "subjects"
    BY <1>4, <1>7
  <2>2. \A i \in DOMAIN t : (i < n + 1 => t[i] = "same") /\ (i > n + 1 => t[i] # "subjects")
    BY <1>4, <1>7
  <2> QED
    BY <2>1, <2>2 DEF SubjectsAhead
<1> QED
  BY <1>3, <1>4, <1>5, <1>6, <1>8 DEF Program, t, u, e, z

(* An operation may go on with a segment.                                  *)
LEMMA ProgramGrows ==
  ASSUME NEW u, NEW w, Program(u), Segment(w)
  PROVE  /\ Program(u \o w)
         /\ RebuildsAhead(u) \/ RebuildsAhead(w) => RebuildsAhead(u \o w)
<1> DEFINE v == u \o w
           m == Len(u)
           n == Len(w)
           t == Tail(u)
           x == Tail(v)
<1>1. /\ u \in Seq(Checks) /\ w \in Seq(Checks) /\ m \in Nat \ {0} /\ DOMAIN u = 1..m
      /\ n \in Nat /\ DOMAIN w = 1..n
  BY DEF Program, Segment
<1>2. v \in Seq(Checks) /\ Follows(v, u, w, m, n)
  BY <1>1, Joined
<1> HIDE DEF v, m, n
<1>3. /\ Len(v) = m + n /\ DOMAIN v = 1..(m + n)
      /\ \A i \in 1..m : v[i] = u[i]
      /\ \A i \in (m + 1)..(m + n) : v[i] = w[i - m]
  BY <1>2 DEF Follows
<1>4. u[m] \in Endings /\ u[1] = "pin" /\ v[1] = "pin" /\ v # <<>>
  BY <1>1, <1>3 DEF Program, EndsWell, m
<1>5. n # 0 => w[1] \in {"full", "rebuilt"} /\ w[n] \in Endings
  BY <1>1 DEF Segment, EndsWell, n
<1>6. Chained(v)
  <2> SUFFICES ASSUME NEW i \in 1..(m + n), i + 1 \in 1..(m + n)
               PROVE  v[i + 1] \in Successors(v[i])
    BY <1>3 DEF Chained
  <2>1. CASE i < m
    BY <1>1, <1>3, <2>1 DEF Program, Chained
  <2>2. CASE i = m
    <3>1. v[i] = u[m] /\ v[i + 1] = w[1] /\ n # 0
      BY <1>1, <1>3, <2>2
    <3> QED
      BY <1>4, <1>5, <3>1 DEF Endings, Successors
  <2>3. CASE i > m
    <3>1. i - m \in DOMAIN w /\ (i - m) + 1 \in DOMAIN w /\ v[i] = w[i - m] /\ v[i + 1] = w[(i - m) + 1]
      BY <1>1, <1>3, <2>3
    <3> QED
      BY <3>1 DEF Segment, Chained
  <2> QED
    BY <1>1, <2>1, <2>2, <2>3
<1>7. EndsWell(v)
  <2>1. CASE n # 0
    BY <1>1, <1>3, <1>5, <2>1 DEF EndsWell
  <2>2. CASE n = 0
    BY <1>1, <1>3, <1>4, <2>2 DEF EndsWell
  <2> QED
    BY <2>1, <2>2
<1>8. /\ DOMAIN t = 1..(m - 1) /\ \A i \in 1..(m - 1) : t[i] = u[i + 1]
      /\ DOMAIN x = 1..(m + n - 1) /\ \A i \in 1..(m + n - 1) : x[i] = v[i + 1]
  <2>1. u # <<>> /\ Len(u) = m
    BY DEF Program, m
  <2> QED
    BY <1>1, <1>2, <1>3, <1>4, <2>1, TailFacts
<1> HIDE DEF t, x
<1>9. SubjectsAhead(x)
  <2>1. PICK j \in 1..(m - 1) :
          /\ t[j] = "subjects"
          /\ \A i \in 1..(m - 1) : (i < j => t[i] = "same") /\ (i > j => t[i] # "subjects")
    BY <1>8 DEF Program, SubjectsAhead, t
  <2>2. \A i \in 1..(m - 1) : i \in DOMAIN x /\ x[i] = t[i]
    BY <1>1, <1>3, <1>8
  <2>3. ASSUME NEW i \in DOMAIN x
        PROVE  (i < j => x[i] = "same") /\ (i > j => x[i] # "subjects")
    <3>1. CASE i \in 1..(m - 1)
      BY <2>1, <2>2, <3>1
    <3>2. CASE i \notin 1..(m - 1)
      <4>1. i + 1 \in (m + 1)..(m + n) /\ x[i] = v[i + 1] /\ ~ (i < j) /\ (i + 1) - m \in DOMAIN w
        BY <1>1, <1>8, <3>2
      <4>2. x[i] = w[(i + 1) - m]
        BY <1>3, <4>1
      <4> QED
        BY <4>1, <4>2 DEF Segment, Plain
    <3> QED
      BY <3>1, <3>2
  <2> QED
    BY <2>1, <2>2, <2>3 DEF SubjectsAhead
<1>10. RebuildsAhead(u) => RebuildsAhead(v)
  BY <1>1, <1>3 DEF RebuildsAhead
<1>11. ASSUME RebuildsAhead(w) PROVE RebuildsAhead(v)
  <2>1. PICK i \in 1..n : w[i] = "rebuilt"
    BY <1>1, <1>11 DEF RebuildsAhead
  <2>2. m + i \in (m + 1)..(m + n) /\ (m + i) - m = i /\ m + i \in 1..(m + n)
    BY <1>1
  <2>3. v[m + i] = "rebuilt"
    BY <1>3, <2>1, <2>2
  <2> QED
    BY <1>3, <2>2, <2>3 DEF RebuildsAhead
<1> QED
  BY <1>2, <1>4, <1>6, <1>7, <1>9, <1>10, <1>11 DEF Program, v, x

(* The three operations are programs, and a selection and an issuance      *)
(* compare the rebuilt population with the supplied one.                   *)
LEMMA OperationPrograms ==
  ASSUME NEW n \in Nat
  PROVE  /\ Program(BuildPopulation(n))
         /\ Program(SelectExplicit(n)) /\ RebuildsAhead(SelectExplicit(n))
         /\ Program(IssueClaim(n)) /\ RebuildsAhead(IssueClaim(n))
<1>1. /\ Segment(Evaluate(n)) /\ Evaluate(n) # <<>> /\ Evaluate(n)[1] = "full"
      /\ Segment(<<"rebuilt">> \o Evaluate(n))
      /\ (<<"rebuilt">> \o Evaluate(n))[1] = "rebuilt" /\ <<"rebuilt">> \in Seq(Checks)
  BY Evaluating DEF Checks
<1>2. Segment(Repeat(Evaluate(n), n))
  BY <1>1, Repeated DEF Segment
<1>3. Program(BuildPopulation(n))
  BY <1>2, Leading, ProgramGrows DEF BuildPopulation
<1>4. RebuildsAhead(<<"rebuilt">> \o Evaluate(n))
  <2>1. Evaluate(n) \in Seq(Checks)
    BY <1>1 DEF Segment
  <2>2. 1 \in DOMAIN (<<"rebuilt">> \o Evaluate(n))
    BY <2>1, <1>1
  <2> QED
    BY <1>1, <2>2 DEF RebuildsAhead
<1>5. BuildPopulation(n) \o (<<"rebuilt">> \o Evaluate(n)) = SelectExplicit(n)
  BY <1>1, <1>3, ConcatAssociative DEF Program, Segment, SelectExplicit
<1>6. Program(SelectExplicit(n)) /\ RebuildsAhead(SelectExplicit(n))
  BY <1>1, <1>3, <1>4, <1>5, ProgramGrows
<1>7. Program(IssueClaim(n)) /\ RebuildsAhead(IssueClaim(n))
  BY <1>1, <1>6, ProgramGrows DEF IssueClaim
<1> QED
  BY <1>3, <1>6, <1>7

-----------------------------------------------------------------------------
(* The enumerated episodes *)

(* An append leaves a sequence a sequence.                                 *)
LEMMA Appended ==
  ASSUME NEW s, s \in Seq(Range(s)), NEW x
  PROVE  Append(s, x) \in Seq(Range(Append(s, x)))
<1> DEFINE S == Range(s) \cup {x}
           z == Append(s, x)
<1>1. s \in Seq(S) /\ x \in S
  OBVIOUS
<1> HIDE DEF S
<1>2. z \in Seq(S) /\ Len(z) \in Nat /\ DOMAIN z = 1..Len(z)
  BY <1>1, AppendProperties
<1> HIDE DEF z
<1>3. \A i \in DOMAIN z : z[i] \in Range(z)
  BY DEF Range
<1>4. z \in Seq(Range(z))
  BY <1>2, <1>3, SeqDef
<1> QED
  BY <1>4 DEF z

(* The scan of the first n transactions from a first span.                 *)
Steps(v, n, first, rs, full) ==
  v = [t \in 0..n |-> IF t = 0 THEN [open |-> first, spans |-> <<>>, lastZero |-> 0]
                      ELSE Reach(v[t - 1], t, rs[t], full)]

(* It exists, whatever the window is.                                      *)
LEMMA ScanExists ==
  ASSUME NEW n \in Nat, NEW first, NEW rs, NEW full
  PROVE  \E v : Steps(v, n, first, rs, full)
<1> DEFINE T == {m \in Nat : ~ \E v : Steps(v, m, first, rs, full)}
           base == [open |-> first, spans |-> <<>>, lastZero |-> 0]
<1> SUFFICES ASSUME T # {} PROVE FALSE
  OBVIOUS
<1>1. PICK m \in T : \A k \in T : m <= k
  BY NatMin
<1>2. m \in Nat /\ ~ \E v : Steps(v, m, first, rs, full)
  OBVIOUS
<1> HIDE DEF base
<1>3. CASE m = 0
  <2> DEFINE v == [t \in 0..0 |-> base]
  <2>1. Steps(v, 0, first, rs, full)
    BY DEF Steps, base
  <2> QED
    BY <1>2, <1>3, <2>1
<1>4. CASE m # 0
  <2>1. m - 1 \in Nat /\ m - 1 \notin T
    BY <1>1, <1>2, <1>4
  <2>2. PICK v : Steps(v, m - 1, first, rs, full)
    BY <2>1
  <2>3. /\ DOMAIN v = 0..(m - 1)
        /\ \A t \in 0..(m - 1) : v[t] = IF t = 0 THEN base ELSE Reach(v[t - 1], t, rs[t], full)
    BY <2>2 DEF Steps, base
  <2> DEFINE w == [t \in 0..m |-> IF t = m THEN Reach(v[m - 1], m, rs[m], full) ELSE v[t]]
             r(f) == [t \in 0..m |-> IF t = 0 THEN base ELSE Reach(f[t - 1], t, rs[t], full)]
  <2>4. ASSUME NEW t \in 0..m
        PROVE  w[t] = IF t = 0 THEN base ELSE Reach(w[t - 1], t, rs[t], full)
    <3>1. CASE t = m
      <4>1. w[t - 1] = v[m - 1] /\ w[t] = Reach(v[m - 1], m, rs[m], full)
        BY <1>2, <1>4, <3>1
      <4> QED
        BY <1>4, <3>1, <4>1
    <3>2. CASE t # m /\ t # 0
      <4>1. t - 1 \in 0..m /\ t - 1 # m /\ t \in 0..(m - 1)
        BY <1>2, <3>2
      <4>2. w[t - 1] = v[t - 1] /\ w[t] = v[t]
        BY <3>2, <4>1
      <4>3. v[t] = Reach(v[t - 1], t, rs[t], full)
        BY <2>3, <3>2, <4>1
      <4> QED
        BY ONLY <3>2, <4>2, <4>3
    <3>3. CASE t # m /\ t = 0
      BY <1>2, <2>1, <2>3, <3>3
    <3> QED
      BY <3>1, <3>2, <3>3
  <2>5. w = r(w)
    <3> HIDE DEF w
    <3>1. w = [t \in 0..m |-> w[t]]
      BY DEF w
    <3> QED
      BY <2>4, <3>1
  <2>6. Steps(w, m, first, rs, full)
    BY ONLY <2>5 DEF Steps, base, r
  <2> QED
    BY <1>2, <2>6
<1> QED
  BY <1>3, <1>4

(* What the scan keeps is a record with a sequence of spans.               *)
Scanned(s) == DOMAIN s = {"open", "spans", "lastZero"} /\ s.spans \in Seq(Range(s.spans))

(* One more transaction leaves it so.                                      *)
LEMMA ReachKeeps ==
  ASSUME NEW s, Scanned(s), NEW t, NEW row, NEW full
  PROVE  Scanned(Reach(s, t, row, full))
<1> DEFINE o == SpanAt(s, t, row, full)
<1>1. SUFFICES Scanned(Visit(s, o, t, full))
  BY DEF Reach
<1> HIDE DEF o
<1>2. CASE o.start = 0
  BY <1>2 DEF Visit
<1>3. CASE o.start # 0 /\ t \in Zeros(full)
  <2> DEFINE x == Ended(o, t, TRUE)
             z == Append(s.spans, x)
  <2>1. z \in Seq(Range(z))
    BY Appended DEF Scanned
  <2> HIDE DEF x
  <2>2. Visit(s, o, t, full) = [open |-> Dormant, spans |-> z, lastZero |-> IF o.unresolved THEN 0 ELSE t]
    BY <1>3 DEF Visit, x
  <2> HIDE DEF z
  <2> QED
    BY <2>1, <2>2 DEF Scanned
<1>4. CASE o.start # 0 /\ t \notin Zeros(full)
  <2>1. Visit(s, o, t, full) = [s EXCEPT !.open = o]
    BY <1>4 DEF Visit
  <2> QED
    BY <2>1 DEF Scanned
<1> QED
  BY <1>2, <1>3, <1>4

(* The enumeration of a window is a sequence of episodes.                  *)
LEMMA EpisodesCounted ==
  ASSUME NEW rs, rs \in Seq(Range(rs)), NEW op
  PROVE  /\ Len(Enumerated(rs, op)) \in Nat
         /\ DOMAIN Enumerated(rs, op) = 1..Len(Enumerated(rs, op))
<1> DEFINE full == WholeLedger(rs, op)
           n == Len(rs)
           first == IF op.units > 0 THEN [Dormant EXCEPT !.start = 1, !.scope = TRUE] ELSE Dormant
           v == CHOOSE f : Steps(f, n, first, rs, full)
<1>1. n \in Nat
  OBVIOUS
<1> HIDE DEF full
<1>2. Scan(rs, op, full) = v[n]
  BY DEF Scan, Steps
<1> HIDE DEF n, first
<1>3. Steps(v, n, first, rs, full)
  BY <1>1, ScanExists
<1> HIDE DEF v
<1>4. \A t \in 0..n : v[t] = IF t = 0 THEN [open |-> first, spans |-> <<>>, lastZero |-> 0]
                              ELSE Reach(v[t - 1], t, rs[t], full)
  BY <1>3 DEF Steps
<1>5. Scanned(v[n])
  <2> DEFINE T == {t \in 0..n : ~ Scanned(v[t])}
  <2> SUFFICES ASSUME T # {} PROVE FALSE
    BY <1>1
  <2>1. PICK m \in T : \A k \in T : m <= k
    <3>1. T \subseteq Nat
      BY <1>1
    <3> HIDE DEF T
    <3> QED
      BY <3>1, NatMin
  <2>2. m \in 0..n /\ ~ Scanned(v[m])
    OBVIOUS
  <2>3. CASE m = 0
    <3>1. v[0] = [open |-> first, spans |-> <<>>, lastZero |-> 0]
      <4>1. 0 \in 0..n
        BY <1>1
      <4> QED
        BY ONLY <1>4, <4>1
    <3>2. Scanned(v[0])
      BY <3>1 DEF Scanned
    <3> QED
      BY <2>2, <2>3, <3>2
  <2>4. CASE m # 0
    <3>1. m - 1 \in 0..n /\ m - 1 \notin T
      BY <1>1, <2>1, <2>2, <2>4
    <3>2. Scanned(v[m - 1]) /\ v[m] = Reach(v[m - 1], m, rs[m], full)
      BY <1>4, <2>2, <2>4, <3>1
    <3> QED
      BY <2>2, <3>2, ReachKeeps
  <2> QED
    BY <2>3, <2>4
<1> DEFINE sp == Spans(Scan(rs, op, full), n)
<1>6. sp \in Seq(Range(sp))
  <2>1. v[n].spans \in Seq(Range(v[n].spans))
    BY <1>5 DEF Scanned
  <2>2. sp = IF v[n].open.start = 0 THEN v[n].spans
             ELSE Append(v[n].spans, Ended(v[n].open, n, FALSE))
    BY <1>2 DEF Spans
  <2>3. \A x : Append(v[n].spans, x) \in Seq(Range(Append(v[n].spans, x)))
    BY <2>1, Appended
  <2> HIDE DEF sp
  <2> QED
    BY <2>1, <2>2, <2>3
<1>7. Enumerated(rs, op) = [k \in DOMAIN sp |-> SpanEpisode(op, full, sp[k])]
  BY DEF Enumerated, EnumeratedOf, Episodes, full, n
<1> HIDE DEF sp
<1>8. Len(sp) \in Nat /\ DOMAIN sp = 1..Len(sp)
  BY <1>6
<1> DEFINE en == [k \in 1..Len(sp) |-> SpanEpisode(op, full, sp[k])]
<1>9. en = Enumerated(rs, op)
  BY <1>7, <1>8
<1>10. DOMAIN en = 1..Len(sp) /\ Len(en) = Len(sp)
  BY <1>8
<1> QED
  BY <1>8, <1>9, <1>10

-----------------------------------------------------------------------------
(* The steps *)

(* A function on 1..n is a sequence of its values.                         *)
LEMMA Listed ==
  ASSUME NEW n \in Nat, NEW s, s = [i \in 1..n |-> s[i]]
  PROVE  s \in Seq(Range(s)) /\ Len(s) = n
<1>1. DOMAIN s = 1..n /\ \A i \in 1..n : s[i] \in Range(s)
  BY DEF Range
<1> QED
  BY <1>1, SeqDef

(* Before the window is full nothing relies on any evidence.               *)
LEMMA InitHolds == Init => EvidenceInv
<1> SUFFICES ASSUME Init PROVE EvidenceInv
  OBVIOUS
<1>1. rows = <<>> /\ outcomes = <<>> /\ stage = "accounts"
  BY DEF Init
<1>2. rows \in Seq(Range(rows)) /\ Len(outcomes) \in Nat
  BY <1>1
<1> QED
  BY <1>1, <1>2 DEF EvidenceInv, Operations

(* An operation starts from nothing.                                       *)
LEMMA Starting ==
  ASSUME NEW operation \in Operations, NEW u, Program(u), Start(operation, u),
         operation # "population" => RebuildsAhead(u),
         rows' \in Seq(Range(rows')), Len(outcomes') \in Nat
  PROVE  EvidenceInv'
<1>1. stage' = operation /\ captures' = u /\ rests' = {}
  BY DEF Start
<1>2. Fresh'
  BY <1>1 DEF Fresh, Program
<1>3. stage' # "population" => Rebuilt'
  BY <1>1 DEF Rebuilt
<1>4. ProgramInv'
  BY <1>1, <1>2, <1>3 DEF ProgramInv, Program
<1> QED
  BY <1>1, <1>4 DEF EvidenceInv, Operations

(* The population is built from the episodes of the window.                *)
LEMMA PopulateKeeps ==
  ASSUME EvidenceInv, Populate
  PROVE  EvidenceInv'
<1> DEFINE en == Enumerated(rows, opening)
           n == Len(en)
<1>1. n \in Nat /\ DOMAIN en = 1..n
  BY EpisodesCounted DEF EvidenceInv
<1>2. outcomes' = [k \in DOMAIN en |-> Outcome(rows, en[k])]
  BY DEF Populate, Outcomes
<1> HIDE DEF n
<1>3. outcomes' = [k \in 1..n |-> outcomes'[k]]
  BY <1>1, <1>2
<1>4. Len(outcomes') = n
  BY <1>1, <1>3, Listed
<1>5. Start("population", BuildPopulation(Len(outcomes'))) /\ rows' = <<>>
  BY DEF Populate
<1>6. Program(BuildPopulation(Len(outcomes'))) /\ Len(outcomes') \in Nat
  BY <1>1, <1>4, OperationPrograms
<1>7. rows' \in Seq(Range(rows'))
  BY <1>5
<1> QED
  BY <1>5, <1>6, <1>7, Starting DEF Operations

(* A selection or an issuance is asked for.                                *)
LEMMA RequestKeeps ==
  ASSUME EvidenceInv, NEW operation \in {"selection", "issuance"}, NEW k, Request(operation, k)
  PROVE  EvidenceInv'
<1> DEFINE u == IF operation = "issuance" /\ outcomes[k] = "VERIFIED"
                THEN IssueClaim(Len(outcomes)) ELSE SelectExplicit(Len(outcomes))
<1>1. Program(u) /\ RebuildsAhead(u)
  BY OperationPrograms DEF EvidenceInv
<1>2. Start(operation, u) /\ rows' = rows /\ outcomes' = outcomes
  BY DEF Request, source
<1> HIDE DEF u
<1>3. rows' \in Seq(Range(rows')) /\ Len(outcomes') \in Nat
  BY <1>2 DEF EvidenceInv
<1> QED
  BY <1>1, <1>2, <1>3, Starting DEF Operations

(* A capture or a comparison that holds.                                   *)
LEMMA HoldingKeeps ==
  ASSUME ProgramInv, captures # <<>>, Holds(Head(captures)), Capture
  PROVE  ProgramInv'
<1> DEFINE c == captures[1]
           t == Tail(captures)
<1>1. captures \in Seq(Checks) /\ Head(captures) = c
  BY TailFacts DEF ProgramInv
<1>2. /\ captures' = t
      /\ pinned' = IF c = "pin" THEN evidence ELSE pinned
      /\ subject' = IF c = "subjects" THEN pinned ELSE subject
      /\ rests' = IF c \in {"pin", "same", "again"} THEN rests \cup {evidence} ELSE rests
      /\ stage' = stage /\ evidence' = evidence /\ population' = population
  BY <1>1 DEF Capture, Holds, source
<1>3. /\ c = "same" => evidence = pinned
      /\ c = "match" => pinned = subject
      /\ c = "again" => evidence = subject
      /\ c = "rebuilt" => subject = population
  BY <1>1 DEF Holds
<1>4. /\ t \in Seq(Checks) /\ Chained(t) /\ EndsWell(t)
      /\ t # <<>> => t[1] \in Successors(c)
      /\ t = <<>> => c \in Endings
      /\ Plain(captures) => Plain(t) /\ c # "subjects"
      /\ RebuildsAhead(captures) => c = "rebuilt" \/ RebuildsAhead(t)
      /\ SubjectsAhead(captures) => \/ c = "same" /\ SubjectsAhead(t)
                                    \/ c = "subjects" /\ Plain(t)
  BY TailKeeps DEF ProgramInv
<1>5. c \in Checks
  BY <1>1, TailFacts
<1> HIDE DEF t, c
<1>6. /\ c \in {"pin", "same"} => t # <<>> /\ t[1] \notin Compared
      /\ c = "match" => t # <<>> /\ t[1] = "again"
  BY <1>4 DEF Successors, Endings, Compared
<1>7. Pinned' \/ Evaluates'
  <2>1. CASE Fresh
    <3>1. c = "pin" /\ SubjectsAhead(t) /\ rests = {}
      BY <2>1 DEF Fresh, c, t
    <3> QED
      BY <1>2, <3>1 DEF Pinned
  <2>2. CASE Pinned
    <3>1. rests = {pinned} /\ SubjectsAhead(captures)
      BY <2>2 DEF Pinned
    <3>2. CASE c = "same" /\ SubjectsAhead(t)
      BY <1>2, <1>3, <3>1, <3>2 DEF Pinned
    <3>3. CASE c = "subjects" /\ Plain(t)
      BY <1>2, <3>1, <3>3 DEF Evaluates
    <3> QED
      BY <1>4, <3>1, <3>2, <3>3
  <2>3. CASE Evaluates
    <3>1. /\ Plain(t) /\ c # "subjects" /\ subject \in rests /\ rests \subseteq {subject, pinned}
          /\ c \in Compared => rests = {subject}
      BY <1>4, <2>3 DEF Evaluates, c
    <3>2. subject' = subject
      BY <1>2, <3>1
    <3>3. CASE c = "pin"
      BY <1>2, <1>6, <3>1, <3>2, <3>3 DEF Evaluates, Compared
    <3>4. CASE c = "same"
      BY <1>2, <1>3, <1>6, <3>1, <3>2, <3>4 DEF Evaluates
    <3>5. CASE c = "match"
      BY <1>2, <1>3, <3>1, <3>2, <3>5 DEF Evaluates
    <3>6. CASE c = "again"
      BY <1>2, <1>3, <3>1, <3>2, <3>6 DEF Evaluates, Compared
    <3>7. CASE c \in {"full", "rebuilt"}
      BY <1>2, <3>1, <3>2, <3>7 DEF Evaluates, Compared
    <3> QED
      BY <1>5, <3>1, <3>3, <3>4, <3>5, <3>6, <3>7 DEF Checks
  <2> QED
    BY <2>1, <2>2, <2>3 DEF ProgramInv
<1>8. ASSUME stage # "population" PROVE Rebuilt'
  <2>1. Rebuilt
    BY <1>8 DEF ProgramInv
  <2>2. CASE RebuildsAhead(t)
    BY <1>2, <2>2 DEF Rebuilt
  <2>3. CASE RebuildsAhead(captures) /\ c = "rebuilt"
    <3>1. ~ Fresh /\ ~ Pinned
      BY <1>4, <2>3 DEF Fresh, Pinned, c
    <3>2. Plain(t) /\ subject = population
      BY <1>3, <1>4, <2>3, <3>1 DEF ProgramInv, Evaluates
    <3> QED
      BY <1>2, <2>3, <3>2 DEF Rebuilt
  <2>4. CASE Plain(captures) /\ subject = population
    BY <1>2, <1>4, <2>4 DEF Rebuilt
  <2> QED
    BY <1>4, <2>1, <2>2, <2>3, <2>4 DEF Rebuilt
<1> QED
  BY <1>2, <1>4, <1>7, <1>8 DEF ProgramInv

(* One that does not hold leaves nothing relied upon.                      *)
LEMMA CaptureKeeps ==
  ASSUME EvidenceInv, Capture
  PROVE  EvidenceInv'
<1>1. /\ rows' = rows /\ outcomes' = outcomes
      /\ stage \in Operations /\ captures # <<>>
  BY DEF Capture, source, Working, Operations
<1>2. ProgramInv
  BY <1>1 DEF EvidenceInv
<1>3. CASE Holds(Head(captures))
  <2>1. ProgramInv' /\ stage' = stage
    BY <1>1, <1>2, <1>3, HoldingKeeps DEF Capture
  <2> QED
    BY <1>1, <2>1 DEF EvidenceInv, Operations
<1>4. CASE ~ Holds(Head(captures))
  <2>1. stage' \in {"refused", "populated"} /\ rests' = {}
    BY <1>4 DEF Capture, Refuse
  <2> QED
    BY <1>1, <2>1 DEF EvidenceInv, Operations
<1> QED
  BY <1>3, <1>4

(* What is finished rests on the evidence of its subject.                  *)
LEMMA FinishKeeps ==
  ASSUME EvidenceInv, Finish
  PROVE  EvidenceInv'
<1>1. /\ rows' = rows /\ outcomes' = outcomes /\ rests' = rests /\ subject' = subject
      /\ stage \in Operations /\ captures = <<>>
      /\ population' = IF stage = "population" THEN subject ELSE population
  BY DEF Finish, source, Operations
<1>2. rests = {subject} /\ (stage # "population" => subject = population)
  <2>1. DOMAIN captures = {}
    BY <1>1
  <2>2. ~ SubjectsAhead(captures) /\ ~ RebuildsAhead(captures)
    BY <2>1 DEF SubjectsAhead, RebuildsAhead
  <2>3. ProgramInv
    BY <1>1 DEF EvidenceInv
  <2>4. Evaluates
    BY <1>1, <2>2, <2>3 DEF ProgramInv, Fresh, Pinned
  <2> QED
    BY <1>1, <2>2, <2>3, <2>4 DEF ProgramInv, Evaluates, Rebuilt
<1>3. /\ stage' \in {"refused", "populated", "selected", "refusal", "issued"}
      /\ stage' \in {"selected", "issued"} => stage # "population"
  BY DEF Finish
<1>4. stage' = "populated" => \E x \in rests' : rests' = {x}
  BY <1>1, <1>2
<1>5. stage' \in {"selected", "issued"} => rests' = {population'}
  BY <1>1, <1>2, <1>3
<1> QED
  BY <1>1, <1>3, <1>4, <1>5 DEF EvidenceInv, Operations

(* The window is filled, and the port changes its answers.                 *)
LEMMA OthersKeep ==
  ASSUME EvidenceInv,
         \/ Bound \/ OpenLedger \/ PortChanges \/ UNCHANGED vars
         \/ \E residual \in Residuals : Commit(residual)
         \/ \E shape \in Shapes : Admit(shape)
  PROVE  EvidenceInv'
<1>1. CASE Bound \/ UNCHANGED vars
  <2>1. UNCHANGED <<rows, stage, outcomes, captures, pinned, subject, population, rests>>
    BY <1>1 DEF Bound, vars, claimVars
  <2> QED
    BY <2>1 DEF EvidenceInv, ProgramInv, Fresh, Pinned, Evaluates, Rebuilt
<1>2. CASE OpenLedger
  <2>1. stage' = "ledger" /\ rows' = rows /\ outcomes' = outcomes
    BY <1>2 DEF OpenLedger
  <2> QED
    BY <2>1 DEF EvidenceInv, Operations
<1>3. CASE PortChanges
  <2>1. UNCHANGED <<rows, stage, outcomes, captures, pinned, subject, population, rests>>
    BY <1>3 DEF PortChanges, source
  <2> QED
    BY <2>1 DEF EvidenceInv, ProgramInv, Fresh, Pinned, Evaluates, Rebuilt
<1>4. ASSUME NEW residual \in Residuals, Commit(residual) PROVE EvidenceInv'
  <2>1. /\ stage' = "ledger" /\ outcomes' = outcomes
        /\ rows' = Append(rows, [events |-> <<>>, residual |-> residual])
    BY <1>4 DEF Commit
  <2>2. rows' \in Seq(Range(rows'))
    BY <2>1, Appended DEF EvidenceInv
  <2> QED
    BY <2>1, <2>2 DEF EvidenceInv, Operations
<1>5. ASSUME NEW shape \in Shapes, Admit(shape) PROVE EvidenceInv'
  <2> DEFINE t == Len(rows)
             z == [rows EXCEPT ![t].events = Append(@, shape)]
  <2>1. stage' = "ledger" /\ outcomes' = outcomes /\ rows' = z
    BY <1>5 DEF Admit
  <2>2. t \in Nat /\ DOMAIN rows = 1..t
    BY DEF EvidenceInv
  <2> HIDE DEF t
  <2>3. z = [i \in 1..t |-> z[i]]
    BY <2>2
  <2> HIDE DEF z
  <2>4. z \in Seq(Range(z))
    BY <2>2, <2>3, Listed
  <2> QED
    BY <2>1, <2>4 DEF EvidenceInv, Operations
<1> QED
  BY <1>1, <1>2, <1>3, <1>4, <1>5

(* At every position of every operation it is known what was relied upon,  *)
(* for every window and however often the port changes its answers.        *)
THEOREM EvidenceInvariance == Spec => []EvidenceInv
<1>1. EvidenceInv /\ [Next]_vars => EvidenceInv'
  BY CaptureKeeps, FinishKeeps, PopulateKeeps, RequestKeeps, OthersKeep DEF Next
<1> QED
  BY InitHolds, <1>1, PTL DEF Spec

(* A population, a selection and an issued claim rest on one evidence, the *)
(* population's, although each of them reads the port again for every      *)
(* span and every episode and the port may answer from another evidence    *)
(* each time (registered-ledger-query-port-v1.mjs, issuance-engine.mjs).   *)
THEOREM OneEvidence == Spec => []ClaimsRestOnOneEvidence
<1>1. EvidenceInv => ClaimsRestOnOneEvidence
  <2> SUFFICES ASSUME EvidenceInv PROVE ClaimsRestOnOneEvidence
    OBVIOUS
  <2>1. ASSUME stage = "populated" PROVE Cardinality(rests) <= 1
    <3>1. rests = {} \/ \E x \in rests : rests = {x}
      BY <2>1 DEF EvidenceInv
    <3>2. Cardinality({}) = 0
      BY FS_EmptySet
    <3>3. \A x : Cardinality({x}) = 1
      BY FS_Singleton
    <3> QED
      BY <3>1, <3>2, <3>3
  <2>2. stage \in {"selected", "issued"} => rests = {population}
    BY DEF EvidenceInv
  <2> QED
    BY <2>1, <2>2 DEF ClaimsRestOnOneEvidence
<1> QED
  BY EvidenceInvariance, <1>1, PTL

-----------------------------------------------------------------------------
(* What moves add up to *)

(* How a quantity moved between two slots, at those of A only.             *)
Moves(f, A, H, lo, hi) ==
  /\ A \subseteq (lo + 1)..hi /\ \A k \in lo..hi : H[k] \in Int
  /\ \A s \in A : f[s] = H[s] - H[s - 1]
  /\ \A s \in ((lo + 1)..hi) \ A : H[s] = H[s - 1]
Difference(H, lo, hi) == H[hi] - H[lo]

(* What a quantity moved by at every slot where it moved is what it moved  *)
(* by from the first slot to the last.                                     *)
LEMMA MovesAddUp ==
  ASSUME NEW lo \in Nat, NEW hi \in Nat, lo <= hi,
         NEW H, NEW A, NEW f, Moves(f, A, H, lo, hi), NEW v, Sums(v, A, f)
  PROVE  v[A] = Difference(H, lo, hi)
<1> SUFFICES ASSUME A \subseteq (lo + 1)..hi, \A k \in lo..hi : H[k] \in Int,
                    \A s \in A : f[s] = H[s] - H[s - 1],
                    \A s \in ((lo + 1)..hi) \ A : H[s] = H[s - 1]
             PROVE  v[A] = H[hi] - H[lo]
  BY DEF Moves, Difference
<1> DEFINE P(k) == A \cap (lo + 1)..k
           T == {k \in lo..hi : v[P(k)] # H[k] - H[lo]}
<1>1. IsFiniteSet(A)
  <2>1. IsFiniteSet((lo + 1)..hi)
    BY FS_Interval
  <2> QED
    BY <2>1, FS_Subset
<1>2. \A s \in A : f[s] \in Int
  <2> SUFFICES ASSUME NEW s \in A PROVE f[s] \in Int
    OBVIOUS
  <2>1. s \in lo..hi /\ s - 1 \in lo..hi
    OBVIOUS
  <2> QED
    BY <2>1
<1>3. T = {}
  <2> SUFFICES ASSUME T # {} PROVE FALSE
    OBVIOUS
  <2>1. PICK k \in T : \A j \in T : k <= j
    <3>1. T \subseteq Nat
      OBVIOUS
    <3> HIDE DEF T
    <3> QED
      BY <3>1, NatMin
  <2>2. k \in lo..hi /\ v[P(k)] # H[k] - H[lo]
    OBVIOUS
  <2>3. CASE k = lo
    <3>1. P(k) = {}
      BY <2>3
    <3>2. v[{}] = 0
      BY DEF Sums, Share
    <3>3. H[lo] \in Int
      OBVIOUS
    <3> HIDE DEF P, T
    <3>4. v[P(k)] = 0 /\ H[k] - H[lo] = 0
      BY <2>3, <3>1, <3>2, <3>3
    <3> QED
      BY <2>2, <3>4
  <2>4. CASE k # lo
    <3>1. k - 1 \in lo..hi /\ k \in (lo + 1)..hi
      BY <2>2, <2>4
    <3>2. v[P(k - 1)] = H[k - 1] - H[lo]
      BY <2>1, <2>2, <3>1
    <3>3. H[k] \in Int /\ H[k - 1] \in Int /\ H[lo] \in Int
      BY <2>2, <3>1
    <3>4. CASE k \in A
      <4>1. k \in P(k) /\ P(k) \ {k} = P(k - 1) /\ P(k) \in SUBSET A
        BY <3>1, <3>4
      <4> HIDE DEF P, T
      <4>2. Takes(v, P(k), k, f)
        BY <1>1, <1>2, <4>1, AnyMemberFirst
      <4>3. v[P(k)] = f[k] + v[P(k - 1)]
        BY <4>1, <4>2 DEF Takes
      <4>4. f[k] = H[k] - H[k - 1]
        BY <3>4
      <4>5. v[P(k)] = (H[k] - H[k - 1]) + (H[k - 1] - H[lo])
        BY <3>2, <4>3, <4>4
      <4>6. (H[k] - H[k - 1]) + (H[k - 1] - H[lo]) = H[k] - H[lo]
        BY <3>3
      <4> QED
        BY <2>2, <4>5, <4>6
    <3>5. CASE k \notin A
      <4>1. P(k) = P(k - 1)
        BY <3>1, <3>5
      <4>2. H[k] = H[k - 1]
        BY <3>1, <3>5
      <4> HIDE DEF P, T
      <4> QED
        BY <2>2, <3>2, <3>3, <4>1, <4>2
    <3> QED
      BY <3>4, <3>5
  <2> QED
    BY <2>3, <2>4
<1>4. P(hi) = A /\ hi \in lo..hi
  <2>1. hi \in lo..hi
    OBVIOUS
  <2>2. P(hi) = A
    OBVIOUS
  <2> QED
    BY <2>1, <2>2
<1>5. v[P(hi)] = H[hi] - H[lo]
  BY <1>3, <1>4
<1> QED
  BY <1>4, <1>5
-----------------------------------------------------------------------------
(* The boundaries *)

(* The target's accounts among the accounts of a slot, and their units.    *)
TargetAccountsOf(held) == {a \in DOMAIN held : held[a].kind = "target"}
UnitsOf(held, accounts) == FoldSet(LAMBDA a, sum : held[a].units + sum, 0, accounts)
HeldIn(held) == UnitsOf(held, TargetAccountsOf(held))

(* A slot has finitely many accounts, with whole units.                    *)
Populated(held) == IsFiniteSet(DOMAIN held) /\ \A a \in DOMAIN held : held[a].units \in Nat

(* An accepted enumeration holds what its slot held.                       *)
Faithful(history, s) == s.slot \in 1..Len(history) /\ s.units = HeldIn(history[s.slot])

Captured == {"OPENING", "ENDING_AS_OF"}

BoundaryInv ==
  /\ holdings \in Seq(Range(holdings)) /\ Tip # 0
  /\ \A slot \in 1..Tip : Populated(holdings[slot])
  /\ own \subseteq 1..Tip /\ program \in Programs
  /\ answers # <<>> =>
       /\ capture \in Captured /\ Programs \subseteq DOMAIN answers
       /\ \A l \in DOMAIN answers : answers[l] \in 1..Tip \cup {Pending, Transient, Broken}
  /\ \A b \in DOMAIN snapshots : Faithful(holdings, snapshots[b])
  /\ capture = "ENDING_AS_OF" => "OPENING" \in DOMAIN snapshots
  /\ capture \in {"CONTEXT", "ADMITTED"} => Captured \subseteq DOMAIN snapshots
  /\ capture = "ADMITTED" => Brackets(acquired) /\ acquired \subseteq own

(* The enumerated units are a sum over the target's accounts, *)
LEMMA UnitsAreSums ==
  ASSUME NEW held, NEW A, IsFiniteSet(A), \A a \in A : held[a].units \in Nat
  PROVE  UnitsOf(held, A) \in Nat /\ (A = {} => UnitsOf(held, A) = 0)
<1> DEFINE f == [a \in A |-> held[a].units]
           g(it) == [s \in SUBSET A |-> IF s = {} THEN 0 ELSE held[Chosen(s)].units + it[s \ {Chosen(s)}]]
           v == CHOOSE it : it = g(it)
<1>1. UnitsOf(held, A) = v[A]
  BY DEF UnitsOf, FoldSet, MapThenFoldSet, Chosen
<1>2. \A it : Sums(it, A, f) <=> it = g(it)
  <2> SUFFICES ASSUME NEW it PROVE Sums(it, A, f) <=> it = g(it)
    OBVIOUS
  <2>1. ASSUME NEW s \in SUBSET A
        PROVE  Share(it, s, f) = IF s = {} THEN 0 ELSE held[Chosen(s)].units + it[s \ {Chosen(s)}]
    <3>1. s # {} => Chosen(s) \in A
      BY DEF Chosen
    <3>2. s # {} => f[Chosen(s)] = held[Chosen(s)].units
      BY <3>1
    <3> QED
      BY <3>2 DEF Share
  <2> QED
    BY <2>1 DEF Sums
<1>3. Sums(v, A, f)
  <2>1. PICK it : Sums(it, A, f)
    BY SumsExist
  <2>2. it = g(it)
    BY <1>2, <2>1
  <2> HIDE DEF g
  <2>3. v = g(v)
    BY <2>2
  <2> QED
    BY <1>2, <2>3
<1> HIDE DEF v
<1>4. \A a \in A : f[a] \in Nat
  OBVIOUS
<1> HIDE DEF f
<1>5. v[A] \in Nat
  BY <1>3, <1>4, SumsAreNatural
<1>6. A = {} => v[A] = 0
  BY <1>3 DEF Sums, Share
<1> QED
  BY <1>1, <1>5, <1>6

(* and what a slot held is that of its accounts, whatever the program. *)
LEMMA HeldIsOfTheSlot ==
  ASSUME NEW slot
  PROVE  /\ Targets(slot, program) = TargetAccountsOf(holdings[slot])
         /\ \A p : p # program => Targets(slot, p) = {}
         /\ \A A : Units(slot, A) = UnitsOf(holdings[slot], A)
         /\ Held(slot) = HeldIn(holdings[slot])
<1>1. Targets(slot, program) = TargetAccountsOf(holdings[slot])
  BY DEF Targets, Rows, ProgramOf, TargetAccountsOf
<1>2. \A p : p # program => Targets(slot, p) = {}
  BY DEF Targets, Rows, ProgramOf
<1>3. ASSUME NEW A PROVE Units(slot, A) = UnitsOf(holdings[slot], A)
  BY DEF Units, UnitsOf
<1> QED
  BY <1>1, <1>2, <1>3 DEF Held, HeldIn

(* It is a whole number of units.                                          *)
LEMMA HeldIsWhole ==
  ASSUME NEW held, Populated(held)
  PROVE  HeldIn(held) \in Nat
<1>1. IsFiniteSet(TargetAccountsOf(held)) /\ TargetAccountsOf(held) \subseteq DOMAIN held
  BY FS_Subset DEF TargetAccountsOf, Populated
<1> QED
  BY <1>1, UnitsAreSums DEF HeldIn, Populated

(* A slot the chain has stays what it was when another one is produced.    *)
LEMMA FaithfulStays ==
  ASSUME NEW h, h \in Seq(Range(h)), NEW x, NEW s, Faithful(h, s)
  PROVE  Faithful(Append(h, x), s)
<1>1. Len(Append(h, x)) = Len(h) + 1 /\ \A i \in 1..Len(h) : Append(h, x)[i] = h[i]
  OBVIOUS
<1>2. Len(h) \in Nat
  OBVIOUS
<1>3. s.slot \in 1..Len(h) /\ s.units = HeldIn(h[s.slot])
  BY DEF Faithful
<1>4. s.slot \in 1..(Len(h) + 1)
  BY <1>2, <1>3
<1>5. Append(h, x)[s.slot] = h[s.slot]
  BY <1>1, <1>3
<1> QED
  BY <1>1, <1>3, <1>4, <1>5 DEF Faithful

(* What changes one account leaves finitely many, with whole units.        *)
LEMMA ChangesKeepPopulated ==
  ASSUME NEW held, Populated(held), NEW change \in Changes
  PROVE  Populated(After(held, change))
<1>1. change.units \in Nat
  BY BoundaryBounds
<1> DEFINE a == change.account
           k == change.kind
           u == change.units
<1>2. CASE k = "closed"
  <2> DEFINE r == [b \in DOMAIN held \ {a} |-> held[b]]
  <2>1. After(held, change) = r
    BY <1>2 DEF After
  <2>2. IsFiniteSet(DOMAIN held \ {a})
    BY FS_RemoveElement DEF Populated
  <2>3. DOMAIN r = DOMAIN held \ {a} /\ \A b \in DOMAIN r : r[b].units \in Nat
    BY DEF Populated
  <2> HIDE DEF r
  <2> QED
    BY <2>1, <2>2, <2>3 DEF Populated
<1>3. CASE k # "closed"
  <2> DEFINE row == [kind |-> k, units |-> u]
             r == [b \in DOMAIN held \cup {a} |-> IF b = a THEN row ELSE held[b]]
  <2>1. After(held, change) = r
    BY <1>3 DEF After
  <2>2. IsFiniteSet(DOMAIN held \cup {a})
    BY FS_AddElement DEF Populated
  <2>3. row.units \in Nat
    BY <1>1
  <2> HIDE DEF row
  <2>4. DOMAIN r = DOMAIN held \cup {a} /\ \A b \in DOMAIN r : r[b].units \in Nat
    BY <2>3 DEF Populated
  <2> HIDE DEF r
  <2> QED
    BY <2>1, <2>2, <2>4 DEF Populated
<1> QED
  BY <1>2, <1>3

(* Before the first request nothing was accepted.                          *)
LEMMA InitBoundariesHold == Init => BoundaryInv
<1> SUFFICES ASSUME Init PROVE BoundaryInv
  OBVIOUS
<1>1. /\ holdings = <<<<>>>> /\ own = {} /\ program \in Programs
      /\ capture = "OPENING" /\ answers = <<>> /\ snapshots = <<>>
  BY DEF Init, InitBoundaries
<1>2. holdings \in Seq(Range(holdings)) /\ Len(holdings) = 1 /\ holdings[1] = <<>>
  BY <1>1 DEF Range
<1>3. Populated(<<>>)
  BY FS_EmptySet DEF Populated
<1>4. DOMAIN snapshots = {}
  BY <1>1
<1> QED
  BY <1>1, <1>2, <1>3, <1>4 DEF BoundaryInv, Tip

(* The chain produces a slot. *)
LEMMA ProduceKeeps ==
  ASSUME BoundaryInv, NEW change \in Changes, Produce(change)
  PROVE  BoundaryInv'
<1> DEFINE x == After(holdings[Tip], change)
           h == Append(holdings, x)
<1>1. /\ holdings' = h /\ own' = own \cup (IF change.own THEN {Tip + 1} ELSE {})
      /\ program' = program /\ capture' = capture /\ answers' = answers /\ snapshots' = snapshots
      /\ capture # "ADMITTED"
  <2>1. Range(Boundaries) = Captured
    BY DEF Range, Boundaries, Captured
  <2> QED
    BY <2>1 DEF Produce, enumerating, Captured
<1>2. /\ holdings \in Seq(Range(holdings)) /\ Tip # 0 /\ Tip \in Nat
      /\ \A slot \in 1..Tip : Populated(holdings[slot])
  BY DEF BoundaryInv, Tip
<1>3. Populated(x)
  BY <1>2, ChangesKeepPopulated
<1> HIDE DEF x
<1>4. h \in Seq(Range(h))
  BY <1>2, Appended
<1>5. Len(h) = Tip + 1 /\ h[Tip + 1] = x /\ \A i \in 1..Tip : h[i] = holdings[i]
  BY <1>2 DEF Tip
<1>6. \A s : Faithful(holdings, s) => Faithful(h, s)
  BY <1>2, FaithfulStays
<1> HIDE DEF h
<1>7. Tip' = Tip + 1
  BY <1>1, <1>5 DEF Tip
<1>8. \A slot \in 1..(Tip + 1) : Populated(h[slot])
  BY <1>2, <1>3, <1>5
<1>9. own' \subseteq 1..(Tip + 1)
  <2>1. own \subseteq 1..Tip
    BY DEF BoundaryInv
  <2> QED
    BY <1>1, <1>2, <2>1
<1>10. answers # <<>> => /\ capture \in Captured /\ Programs \subseteq DOMAIN answers
                         /\ \A l \in DOMAIN answers : answers[l] \in 1..(Tip + 1) \cup {Pending, Transient, Broken}
  <2>1. 1..Tip \subseteq 1..(Tip + 1)
    BY <1>2
  <2> QED
    BY <2>1 DEF BoundaryInv
<1>11. \A b \in DOMAIN snapshots : Faithful(h, snapshots[b])
  BY <1>6 DEF BoundaryInv
<1>12. /\ holdings' \in Seq(Range(holdings')) /\ Tip' # 0
       /\ \A slot \in 1..Tip' : Populated(holdings'[slot])
       /\ own' \subseteq 1..Tip' /\ program' \in Programs
  BY <1>1, <1>2, <1>4, <1>7, <1>8, <1>9 DEF BoundaryInv
<1>13. answers' # <<>> => /\ capture' \in Captured /\ Programs \subseteq DOMAIN answers'
                          /\ \A l \in DOMAIN answers' : answers'[l] \in 1..Tip' \cup {Pending, Transient, Broken}
  BY <1>1, <1>7, <1>10
<1>14. /\ \A b \in DOMAIN snapshots' : Faithful(holdings', snapshots'[b])
       /\ capture' = "ENDING_AS_OF" => "OPENING" \in DOMAIN snapshots'
       /\ capture' \in {"CONTEXT", "ADMITTED"} => Captured \subseteq DOMAIN snapshots'
       /\ capture' # "ADMITTED"
  BY <1>1, <1>11 DEF BoundaryInv
<1> QED
  BY <1>12, <1>13, <1>14 DEF BoundaryInv, Pending, Transient, Broken

(* The chain and what was accepted stay; the rest is on its own.           *)
Keeps == /\ UNCHANGED <<holdings, own, program, snapshots, acquired>>
         /\ capture' = capture

(* What an attempt does to its answers only.                               *)
LEMMA SameBoundaries ==
  ASSUME BoundaryInv, Keeps,
         answers' # <<>> =>
           /\ capture \in Captured /\ Programs \subseteq DOMAIN answers'
           /\ \A l \in DOMAIN answers' : answers'[l] \in 1..Tip \cup {Pending, Transient, Broken}
  PROVE  BoundaryInv'
BY DEF BoundaryInv, Keeps, Tip, Brackets, Opening, Ending, Pending, Transient, Broken

(* The requests of an attempt are sent, and settle. *)
LEMMA AttemptKeeps ==
  ASSUME BoundaryInv,
         Dispatch \/ \E lane \in Programs \cup {"mint"}, answer \in Broken..MaxSlots : Settle(lane, answer)
  PROVE  BoundaryInv'
<1>1. CASE Dispatch
  <2>1. answers' = [l \in Lanes |-> Pending] /\ Keeps /\ capture \in Range(Boundaries)
    BY <1>1 DEF Dispatch, chain, Keeps
  <2>2. Range(Boundaries) = Captured
    BY DEF Range, Boundaries, Captured
  <2>3. Programs \subseteq Lanes
    BY DEF Lanes
  <2>4. DOMAIN answers' = Lanes /\ \A l \in DOMAIN answers' : answers'[l] \in 1..Tip \cup {Pending, Transient, Broken}
    BY <2>1
  <2> QED
    BY <2>1, <2>2, <2>3, <2>4, SameBoundaries
<1>2. ASSUME NEW lane, NEW answer, Settle(lane, answer) PROVE BoundaryInv'
  <2>1. /\ lane \in DOMAIN answers /\ Keeps /\ answers' = [answers EXCEPT ![lane] = answer]
        /\ answer \in ((Tip - MaxLag)..Tip \cap 1..Tip) \cup {Transient, Broken}
    BY <1>2 DEF Settle, chain, Keeps
  <2>2. answers # <<>>
    BY <2>1
  <2>3. /\ capture \in Captured /\ Programs \subseteq DOMAIN answers
        /\ \A l \in DOMAIN answers : answers[l] \in 1..Tip \cup {Pending, Transient, Broken}
    BY <2>2 DEF BoundaryInv
  <2>4. answer \in 1..Tip \cup {Pending, Transient, Broken}
    BY <2>1
  <2>5. DOMAIN answers' = DOMAIN answers /\ \A l \in DOMAIN answers' : answers'[l] \in 1..Tip \cup {Pending, Transient, Broken}
    BY <2>1, <2>3, <2>4
  <2> QED
    BY <2>1, <2>3, <2>5, SameBoundaries
<1> QED
  BY <1>1, <1>2

(* An enumeration is accepted as its slot was. *)
LEMMA AcceptedIsFaithful ==
  ASSUME BoundaryInv, answers # <<>>, Accepted
  PROVE  Faithful(holdings, Enumeration)
<1>1. /\ answers["classic"] \in 1..Tip /\ answers["token_2022"] = answers["classic"]
      /\ PairSlot = answers["classic"]
  <2>1. {"classic", "token_2022"} \subseteq DOMAIN answers
    BY DEF BoundaryInv, Programs
  <2>2. \A l \in DOMAIN answers : answers[l] > 0
    BY DEF Accepted, Succeeded
  <2>3. answers["classic"] \in 1..Tip \cup {0, -1, -2} /\ answers["classic"] > 0
    BY <2>1, <2>2 DEF BoundaryInv, Pending, Transient, Broken
  <2>4. PairSlot # 0
    BY DEF Accepted
  <2> QED
    BY <2>3, <2>4 DEF PairSlot
<1> DEFINE k == answers["classic"]
           A == Units(k, Targets(k, "classic"))
           B == Units(k, Targets(k, "token_2022"))
<1>2. Enumeration.slot = k /\ Enumeration.units = A + B
  BY <1>1 DEF Enumeration, Token2022Targets
<1>3. k \in 1..Tip /\ Populated(holdings[k]) /\ program \in {"classic", "token_2022"}
  BY <1>1 DEF BoundaryInv, Programs
<1> HIDE DEF k
<1>4. HeldIn(holdings[k]) \in Int
  BY <1>3, HeldIsWhole
<1>5. /\ Targets(k, program) = TargetAccountsOf(holdings[k])
      /\ \A p : p # program => Targets(k, p) = {}
      /\ \A S : Units(k, S) = UnitsOf(holdings[k], S)
  BY HeldIsOfTheSlot
<1>6. Units(k, {}) = 0
  <2>1. IsFiniteSet({})
    BY FS_EmptySet
  <2>2. UnitsOf(holdings[k], {}) = 0
    BY <2>1, UnitsAreSums
  <2> QED
    BY <1>5, <2>2
<1>7. Units(k, Targets(k, program)) = HeldIn(holdings[k])
  BY <1>5 DEF HeldIn
<1>8. A + B = HeldIn(holdings[k])
  <2>1. CASE program = "classic"
    <3>1. A = HeldIn(holdings[k]) /\ B = 0
      BY <1>5, <1>6, <1>7, <2>1
    <3> QED
      BY <1>4, <3>1
  <2>2. CASE program = "token_2022"
    <3>1. B = HeldIn(holdings[k]) /\ A = 0
      BY <1>5, <1>6, <1>7, <2>2
    <3> QED
      BY <1>4, <3>1
  <2> QED
    BY <1>3, <2>1, <2>2
<1> QED
  BY <1>2, <1>3, <1>8 DEF Faithful, Tip

(* The chain stays, no request is outstanding any more, and no context is  *)
(* admitted.                                                               *)
Ends == /\ UNCHANGED <<holdings, own, program>>
        /\ answers' = <<>> /\ capture' # "ADMITTED"

(* What ends an attempt.                                                   *)
LEMMA EndingBoundaries ==
  ASSUME BoundaryInv, Ends,
         \A b \in DOMAIN snapshots' : Faithful(holdings, snapshots'[b]),
         capture' = "ENDING_AS_OF" => "OPENING" \in DOMAIN snapshots',
         capture' = "CONTEXT" => Captured \subseteq DOMAIN snapshots'
  PROVE  BoundaryInv'
BY DEF BoundaryInv, Ends, Tip

(* The requests of an attempt have settled, or the capture's time is over. *)
LEMMA JoinKeeps ==
  ASSUME BoundaryInv, Join \/ CaptureDeadline
  PROVE  BoundaryInv'
<1>1. CASE Join /\ Accepted
  <2> DEFINE e == Enumeration
  <2>1. answers # <<>> /\ Accept /\ UNCHANGED <<holdings, own, program>>
    BY <1>1 DEF Join, chain
  <2>2. Faithful(holdings, e) /\ capture \in Captured
    BY <1>1, <2>1, AcceptedIsFaithful DEF BoundaryInv
  <2>3. /\ snapshots' = [b \in DOMAIN snapshots \cup {capture} |-> IF b = capture THEN e ELSE snapshots[b]]
        /\ capture' = IF capture = "OPENING" THEN "ENDING_AS_OF" ELSE "CONTEXT"
        /\ answers' = <<>>
    BY <2>1 DEF Accept, Idle
  <2> HIDE DEF e
  <2>4. DOMAIN snapshots' = DOMAIN snapshots \cup {capture}
    BY <2>3
  <2>5. \A b \in DOMAIN snapshots' : Faithful(holdings, snapshots'[b])
    BY <2>2, <2>3 DEF BoundaryInv
  <2>6. capture' = "ENDING_AS_OF" => "OPENING" \in DOMAIN snapshots'
    BY <2>3, <2>4
  <2>7. capture' = "CONTEXT" => Captured \subseteq DOMAIN snapshots'
    BY <2>2, <2>3, <2>4 DEF BoundaryInv, Captured
  <2> QED
    BY <2>1, <2>3, <2>5, <2>6, <2>7, EndingBoundaries DEF Ends
<1>2. CASE Refused /\ UNCHANGED <<holdings, own, program>>
  BY <1>2, EndingBoundaries DEF Refused, Idle, Ends, BoundaryInv
<1>3. CASE Join /\ answers' = <<>> /\ UNCHANGED <<holdings, own, program, capture, snapshots>>
  <2>1. capture # "ADMITTED"
    BY <1>3 DEF Join, BoundaryInv, Captured
  <2> QED
    BY <1>3, <2>1, EndingBoundaries DEF Ends, BoundaryInv
<1>4. CaptureDeadline => Refused /\ UNCHANGED <<holdings, own, program>>
  BY DEF CaptureDeadline, chain
<1>5. Join => \/ Accepted
              \/ Refused /\ UNCHANGED <<holdings, own, program>>
              \/ answers' = <<>> /\ UNCHANGED <<holdings, own, program, capture, snapshots>>
  BY DEF Join, chain
<1> QED
  BY <1>1, <1>2, <1>3, <1>4, <1>5

(* The context is admitted between its boundaries, or refused. *)
LEMMA ContextKeeps ==
  ASSUME BoundaryInv, NEW from, NEW anchor, NEW transcript, NEW basis,
         Context(from, anchor, transcript, basis)
  PROVE  BoundaryInv'
<1> DEFINE A == Window(from, anchor)
<1>1. /\ capture = "CONTEXT" /\ UNCHANGED <<holdings, own, program, answers, snapshots>>
      /\ \/ capture' = "ADMITTED" /\ acquired' = A /\ Brackets(A)
         \/ capture' = "REFUSED"
  BY DEF Context, chain, Admits
<1>2. A \subseteq own
  BY DEF Window
<1>3. answers = <<>>
  BY <1>1 DEF BoundaryInv, Captured
<1> HIDE DEF A
<1>4. capture' = "ADMITTED" => Brackets(acquired)' /\ acquired' \subseteq own'
  BY <1>1, <1>2 DEF Brackets, Opening, Ending
<1>5. /\ holdings' \in Seq(Range(holdings')) /\ Tip' # 0
      /\ \A slot \in 1..Tip' : Populated(holdings'[slot])
      /\ own' \subseteq 1..Tip' /\ program' \in Programs
      /\ answers' = <<>>
      /\ \A b \in DOMAIN snapshots' : Faithful(holdings', snapshots'[b])
      /\ Captured \subseteq DOMAIN snapshots'
  BY <1>1, <1>3 DEF BoundaryInv, Tip
<1>6. capture' \in {"ADMITTED", "REFUSED"}
  BY <1>1
<1> QED
  BY <1>4, <1>5, <1>6 DEF BoundaryInv

(* The ledger is opened, and nothing but its opening is looked at again.   *)
LEMMA OpenLedgerKeeps ==
  ASSUME BoundaryInv, OpenLedger
  PROVE  BoundaryInv'
<1>1. /\ holdings' = <<<<>>>> /\ own' = {} /\ program' = "classic" /\ snapshots' = <<>>
      /\ capture = "ADMITTED" /\ capture' = "OPENED" /\ answers' = answers
  BY DEF OpenLedger
<1>2. holdings' \in Seq(Range(holdings')) /\ Len(holdings') = 1 /\ holdings'[1] = <<>>
  BY <1>1 DEF Range
<1>3. Populated(<<>>)
  BY FS_EmptySet DEF Populated
<1>4. DOMAIN snapshots' = {} /\ answers' = <<>> /\ program' \in Programs
  BY <1>1 DEF BoundaryInv, Captured, Programs
<1> QED
  BY <1>1, <1>2, <1>3, <1>4 DEF BoundaryInv, Tip

(* Every other step leaves the boundaries alone. *)
LEMMA SameChain ==
  ASSUME BoundaryInv, UNCHANGED boundaryVars
  PROVE  BoundaryInv'
BY DEF BoundaryInv, boundaryVars, chain, enumerating, Tip, Brackets, Opening, Ending

(* The accepted boundaries are what their slots held, and an admitted      *)
(* context's transactions are the wallet's, between them.                  *)
THEOREM BoundaryInvariance == Spec => []BoundaryInv
<1>1. ASSUME BoundaryInv, Bound PROVE BoundaryInv'
  <2>1. NextBoundaries
    BY <1>1 DEF Bound
  <2>2. ASSUME NEW change \in Changes, Produce(change) PROVE BoundaryInv'
    BY <1>1, <2>2, ProduceKeeps
  <2>3. CASE \E lane \in Programs \cup {"mint"}, answer \in Broken..MaxSlots : Settle(lane, answer)
    BY <1>1, <2>3, AttemptKeeps
  <2>4. CASE \E from, anchor \in 1..Tip, transcript \in {own} \cup {own \ {s} : s \in own}, basis \in BOOLEAN :
               Context(from, anchor, transcript \cap from..anchor, basis)
    BY <1>1, <2>4, ContextKeeps
  <2> QED
    BY <1>1, <2>1, <2>2, <2>3, <2>4, AttemptKeeps, JoinKeeps DEF NextBoundaries
<1>2. BoundaryInv /\ [Next]_vars => BoundaryInv'
  <2> SUFFICES ASSUME BoundaryInv, [Next]_vars PROVE BoundaryInv'
    OBVIOUS
  <2>1. CASE OpenLedger
    BY <2>1, OpenLedgerKeeps
  <2>2. CASE UNCHANGED boundaryVars
    BY <2>2, SameChain
  <2>3. Bound \/ OpenLedger \/ UNCHANGED boundaryVars
    <3>1. CASE \E residual \in Residuals : Commit(residual)
      BY <3>1 DEF Commit
    <3>2. CASE \E shape \in Shapes : Admit(shape)
      BY <3>2 DEF Admit
    <3>3. CASE \E operation \in {"selection", "issuance"}, k \in DOMAIN outcomes : Request(operation, k)
      BY <3>3 DEF Request, source
    <3>4. CASE Populate \/ PortChanges \/ Capture \/ Finish \/ UNCHANGED vars
      BY <3>4 DEF Populate, PortChanges, Capture, Finish, source, vars
    <3> QED
      BY <3>1, <3>2, <3>3, <3>4 DEF Next
  <2> QED
    BY <1>1, <2>1, <2>2, <2>3
<1> QED
  BY InitBoundariesHold, <1>2, PTL DEF Spec

(* What the wallet's transactions did between the boundaries is what lies  *)
(* between their quantities, whatever the chain did and however the nodes  *)
(* answered (authoritative-evidence-context.mjs,                           *)
(* helius-target-account-snapshot-adapter-v1.mjs).                         *)
THEOREM BoundariesAccount == Spec => []BoundariesAccountForTheHistory
<1>1. BoundaryInv => BoundariesAccountForTheHistory
  <2> SUFFICES ASSUME BoundaryInv, capture = "ADMITTED", \A s \in Between : Moved(s) # 0 => s \in acquired
               PROVE  Opening.units + Sum(acquired) = Ending.units
    BY DEF BoundariesAccountForTheHistory
  <2> DEFINE lo == Opening.slot
             hi == Ending.slot
             n == Tip
             H == [k \in lo..hi |-> HeldIn(holdings[k])]
             A == acquired
             f == [s \in A |-> Moved(s)]
             g(it) == [s \in SUBSET A |-> IF s = {} THEN 0 ELSE Moved(Chosen(s)) + it[s \ {Chosen(s)}]]
             v == CHOOSE it : it = g(it)
  <2>1. /\ n \in Nat /\ lo \in 1..n /\ hi \in 1..n /\ lo <= hi
        /\ Opening.units = HeldIn(holdings[lo]) /\ Ending.units = HeldIn(holdings[hi])
        /\ \A s \in A : s \in 1..n /\ lo < s /\ s < hi
    <3>1. {"OPENING", "ENDING_AS_OF"} \subseteq DOMAIN snapshots
      BY DEF BoundaryInv, Captured
    <3>2. Faithful(holdings, Opening) /\ Faithful(holdings, Ending)
      BY <3>1 DEF BoundaryInv, Opening, Ending
    <3>3. n \in Nat
      BY DEF BoundaryInv, Tip
    <3> QED
      BY <3>2, <3>3 DEF BoundaryInv, Faithful, Brackets, Tip
  <2>2. \A s \in 2..n : lo < s /\ s <= hi => (Moved(s) # 0 => s \in A)
    BY DEF Between
  <2>3. \A k \in 1..n : HeldIn(holdings[k]) \in Int
    BY HeldIsWhole DEF BoundaryInv
  <2>4. \A s : Moved(s) = HeldIn(holdings[s]) - HeldIn(holdings[s - 1])
    BY HeldIsOfTheSlot DEF Moved
  <2>5. Sum(A) = v[A]
    BY DEF Sum, FoldSet, MapThenFoldSet, Chosen
  <2>6. \A it : Sums(it, A, f) <=> it = g(it)
    <3> SUFFICES ASSUME NEW it PROVE Sums(it, A, f) <=> it = g(it)
      OBVIOUS
    <3>1. ASSUME NEW s \in SUBSET A
          PROVE  Share(it, s, f) = IF s = {} THEN 0 ELSE Moved(Chosen(s)) + it[s \ {Chosen(s)}]
      <4>1. s # {} => Chosen(s) \in A
        BY DEF Chosen
      <4>2. s # {} => f[Chosen(s)] = Moved(Chosen(s))
        BY <4>1
      <4> QED
        BY <4>2 DEF Share
    <3> QED
      BY <3>1 DEF Sums
  <2> HIDE DEF lo, hi, n
  <2>7. IsFiniteSet(A)
    <3>1. IsFiniteSet(1..n) /\ A \subseteq 1..n
      BY <2>1, FS_Interval
    <3> QED
      BY <3>1, FS_Subset
  <2>8. Sums(v, A, f)
    <3>1. PICK it : Sums(it, A, f)
      BY <2>7, SumsExist
    <3>2. it = g(it)
      BY <2>6, <3>1
    <3> HIDE DEF g
    <3>3. v = g(v)
      BY <3>2
    <3> QED
      BY <2>6, <3>3
  <2> HIDE DEF v, g
  <2>9. \A s \in A : f[s] = Moved(s)
    OBVIOUS
  <2> HIDE DEF f
  <2>10. \A k \in lo..hi : H[k] = HeldIn(holdings[k]) /\ k \in 1..n
    BY <2>1
  <2> HIDE DEF H, A
  <2>11. \A s \in (lo + 1)..hi : s \in lo..hi /\ s - 1 \in lo..hi /\ s \in 2..n /\ lo < s /\ s <= hi
    BY <2>1
  <2>12. \A k \in lo..hi : H[k] \in Int
    BY <2>3, <2>10
  <2>13. A \subseteq (lo + 1)..hi
    BY <2>1
  <2>14. \A s \in A : f[s] = H[s] - H[s - 1]
    <3> SUFFICES ASSUME NEW s \in A PROVE f[s] = H[s] - H[s - 1]
      OBVIOUS
    <3>1. s \in lo..hi /\ s - 1 \in lo..hi
      BY <2>11, <2>13
    <3> QED
      BY <2>4, <2>9, <2>10, <3>1
  <2>15. \A s \in ((lo + 1)..hi) \ A : H[s] = H[s - 1]
    <3> SUFFICES ASSUME NEW s \in (lo + 1)..hi, s \notin A PROVE H[s] = H[s - 1]
      OBVIOUS
    <3>1. s \in lo..hi /\ s - 1 \in lo..hi /\ Moved(s) = 0
      BY <2>2, <2>11
    <3>2. H[s] - H[s - 1] = 0 /\ H[s] \in Int /\ H[s - 1] \in Int
      BY <2>4, <2>10, <2>12, <3>1
    <3> QED
      BY <3>2
  <2>16. v[A] = H[hi] - H[lo]
    <3>1. lo \in Nat /\ hi \in Nat /\ lo <= hi
      BY <2>1
    <3>2. Moves(f, A, H, lo, hi)
      BY <2>12, <2>13, <2>14, <2>15 DEF Moves
    <3>3. v[A] = Difference(H, lo, hi)
      BY <2>8, <3>1, <3>2, MovesAddUp
    <3> QED
      BY <3>3 DEF Difference
  <2>17. H[lo] = Opening.units /\ H[hi] = Ending.units /\ H[lo] \in Int /\ H[hi] \in Int
    <3>1. lo \in lo..hi /\ hi \in lo..hi
      BY <2>1
    <3> QED
      BY <2>1, <2>10, <2>12, <3>1
  <2>18. Sum(acquired) = H[hi] - H[lo]
    BY <2>5, <2>16 DEF A
  <2> QED
    BY <2>17, <2>18
<1> QED
  BY BoundaryInvariance, <1>1, PTL

-----------------------------------------------------------------------------
(* Exact rationals: a value over whatever denominator suits *)

(* Division with a remainder.                                              *)
LEMMA DivMod ==
  ASSUME NEW n \in Int, NEW k \in Nat \ {0}
  PROVE  /\ n \div k \in Int /\ (n % k) \in 0..(k - 1) /\ n = k * (n \div k) + (n % k)
OBVIOUS

(* A multiple leaves nothing.                                              *)
LEMMA MultipleDivides ==
  ASSUME NEW k \in Nat \ {0}, NEW m \in Int
  PROVE  (k * m) % k = 0 /\ (k * m) \div k = m
OBVIOUS

(* What a product allows.                                                  *)
LEMMA Cancels ==
  ASSUME NEW a \in Int, NEW b \in Int, NEW k \in Int, k # 0, a * k = b * k
  PROVE  a = b
OBVIOUS

(* Products commute, associate and distribute.                             *)
LEMMA Products ==
  ASSUME NEW a \in Int, NEW b \in Int, NEW k \in Int
  PROVE  /\ a * b = b * a /\ (a * b) * k = a * (b * k) /\ (a * b) * k = (a * k) * b
         /\ (a + b) * k = a * k + b * k /\ (a - b) * k = a * k - b * k
         /\ a * b \in Int
OBVIOUS

(* The common divisors of two numbers, and two that have none but 1.       *)
CommonDivisor(k, n, d) == n % k = 0 /\ d % k = 0
Coprime(n, d) == \A k \in Nat \ {0} : CommonDivisor(k, n, d) => k = 1

(* Two coprime numbers combine to 1.                                       *)
LEMMA Bezout ==
  ASSUME NEW n \in Int, NEW d \in Nat \ {0}, Coprime(n, d)
  PROVE  \E x \in Int, y \in Int : x * n + y * d = 1
<1> DEFINE Made(k) == \E x \in Int, y \in Int : k = x * n + y * d
           T == {k \in Nat \ {0} : Made(k)}
<1>1. Made(d) /\ Made(n)
  <2>1. d = 0 * n + 1 * d /\ n = 1 * n + 0 * d
    OBVIOUS
  <2> QED
    BY <2>1
<1>2. PICK g \in T : \A k \in T : g <= k
  <2>1. d \in T
    BY <1>1
  <2> QED
    BY <2>1, NatMin
<1>3. PICK x \in Int, y \in Int : g = x * n + y * d
  OBVIOUS
<1>4. g \in Nat \ {0}
  OBVIOUS
<1>5. ASSUME NEW m \in Int, Made(m)
      PROVE  m % g = 0
  <2> DEFINE q == m \div g
             r == m % g
  <2>1. q \in Int /\ r \in 0..(g - 1) /\ m = g * q + r
    BY <1>4, DivMod
  <2> HIDE DEF q, r
  <2>2. PICK u \in Int, v \in Int : m = u * n + v * d
    BY <1>5
  <2>3. r = (u - q * x) * n + (v - q * y) * d
    <3>1. g * q = (q * x) * n + (q * y) * d
      BY <1>3, <1>4, <2>1
    <3>2. (u - q * x) * n = u * n - (q * x) * n /\ (v - q * y) * d = v * d - (q * y) * d
      BY <2>1
    <3>3. u * n \in Int /\ v * d \in Int /\ (q * x) * n \in Int /\ (q * y) * d \in Int /\ g * q \in Int
      BY <1>4, <2>1
    <3> QED
      BY <2>2, <2>1, <3>1, <3>2, <3>3
  <2>4. Made(r)
    <3>1. u - q * x \in Int /\ v - q * y \in Int
      BY <2>1
    <3> QED
      BY <2>3, <3>1
  <2>5. r < g /\ r \in Nat
    BY <1>4, <2>1
  <2> HIDE DEF Made
  <2>6. r # 0 => r \in T
    BY <2>4, <2>5
  <2>7. r = 0
    BY <1>2, <1>4, <2>5, <2>6
  <2> QED
    BY <2>7 DEF r
<1> HIDE DEF Made
<1>6. n % g = 0 /\ d % g = 0
  BY <1>1, <1>5
<1> QED
  BY <1>3, <1>4, <1>6 DEF Coprime, CommonDivisor

(* A rational is a reduced pair with a positive denominator.               *)
IsRational(r) == /\ r = <<r[1], r[2]>> /\ r[1] \in Int /\ r[2] \in Nat \ {0}
                 /\ Coprime(r[1], r[2])

(* The rational r is n / d.                                                *)
Equals(r, n, d) == IsRational(r) /\ n \in Int /\ d \in Nat \ {0} /\ r[1] * d = n * r[2]

(* Of two coprime fractions of one value, each denominator divides the     *)
(* other.                                                                  *)
LEMMA DenominatorDivides ==
  ASSUME NEW a \in Int, NEW b \in Nat \ {0}, NEW c \in Int, NEW d \in Nat \ {0},
         Coprime(a, b), a * d = c * b
  PROVE  \E m \in Int : d = b * m
<1>1. PICK x \in Int, y \in Int : x * a + y * b = 1
  BY Bezout
<1>2. d = (x * a + y * b) * d
  BY <1>1
<1>3. (x * a + y * b) * d = x * (a * d) + b * (y * d)
  OBVIOUS
<1>4. x * (c * b) = b * (x * c)
  OBVIOUS
<1>5. d = b * (x * c) + b * (y * d)
  BY <1>2, <1>3, <1>4
<1>6. b * (x * c) + b * (y * d) = b * (x * c + y * d)
  OBVIOUS
<1>7. x * c + y * d \in Int
  OBVIOUS
<1> QED
  BY <1>5, <1>6, <1>7

(* A value has one rational.                                               *)
LEMMA RationalsAreUnique ==
  ASSUME NEW r, NEW s, NEW n, NEW d, Equals(r, n, d), Equals(s, n, d)
  PROVE  r = s
<1> DEFINE a == r[1]
           b == r[2]
           c == s[1]
           e == s[2]
<1>1. /\ a \in Int /\ b \in Nat \ {0} /\ c \in Int /\ e \in Nat \ {0} /\ n \in Int /\ d \in Nat \ {0}
      /\ Coprime(a, b) /\ Coprime(c, e) /\ a * d = n * b /\ c * d = n * e
      /\ r = <<a, b>> /\ s = <<c, e>>
  BY DEF Equals, IsRational
<1> HIDE DEF a, b, c, e
<1>2. a * e = c * b
  <2>1. (a * e) * d = (a * d) * e
    BY <1>1
  <2>2. (c * b) * d = (c * d) * b
    BY <1>1
  <2>3. (n * b) * e = (n * e) * b
    BY <1>1
  <2>4. (a * e) * d = (c * b) * d
    BY <1>1, <2>1, <2>2, <2>3
  <2>5. a * e \in Int /\ c * b \in Int /\ d \in Int /\ d # 0
    BY <1>1
  <2> QED
    BY <2>4, <2>5, Cancels
<1>3. PICK m \in Int : e = b * m
  BY <1>1, <1>2, DenominatorDivides
<1>4. PICK k \in Int : b = e * k
  <2>1. Coprime(c, e) /\ c * b = a * e /\ a \in Int /\ b \in Nat \ {0} /\ c \in Int /\ e \in Nat \ {0}
    BY <1>1, <1>2
  <2> QED
    BY ONLY <2>1, DenominatorDivides
<1>5. b = e
  <2>1. m > 0 /\ k > 0
    BY <1>1, <1>3, <1>4
  <2>2. e >= b /\ b >= e
    BY <1>1, <1>3, <1>4, <2>1
  <2> QED
    BY <1>1, <2>2
<1>6. a = c
  BY <1>1, <1>2, <1>5, Cancels
<1> QED
  BY <1>1, <1>5, <1>6

(* The reduced form of a fraction is its rational.                         *)
LEMMA RationalEquals ==
  ASSUME NEW n \in Int, NEW d \in Nat \ {0}
  PROVE  Equals(Rational(n, d), n, d)
<1> DEFINE S == {k \in 1..d : n % k = 0 /\ d % k = 0}
           g == Max(S)
<1>1. 1 \in S
  OBVIOUS
<1>2. g \in S /\ \A k \in S : k <= g
  <2>1. \E k \in S : \A l \in S : k >= l
    <3> DEFINE T == {d - k : k \in S}
    <3>1. T \subseteq Nat /\ T # {}
      BY <1>1
    <3>2. PICK t \in T : \A u \in T : t <= u
      BY <3>1, NatMin
    <3>3. PICK k \in S : t = d - k
      OBVIOUS
    <3>4. \A l \in S : d - k <= d - l
      BY <3>2, <3>3
    <3>5. k \in Int /\ S \subseteq Int
      OBVIOUS
    <3> HIDE DEF S
    <3>6. \A l \in S : k >= l
      BY <3>4, <3>5
    <3> QED
      BY <3>6
  <2>2. g \in S /\ \A k \in S : g >= k
    BY <2>1 DEF Max
  <2> QED
    BY <2>2
<1>3. g \in Nat \ {0} /\ n % g = 0 /\ d % g = 0
  BY <1>2
<1> HIDE DEF g
<1> DEFINE a == n \div g
           b == d \div g
<1>4. a \in Int /\ b \in Int /\ n = g * a /\ d = g * b
  BY <1>3, DivMod
<1>5. Rational(n, d) = <<a, b>>
  BY DEF Rational, g
<1> HIDE DEF a, b
<1>6. b \in Nat \ {0}
  BY <1>3, <1>4
<1>7. Coprime(a, b)
  <2> SUFFICES ASSUME NEW k \in Nat \ {0}, a % k = 0, b % k = 0 PROVE k = 1
    BY DEF Coprime, CommonDivisor
  <2>1. PICK x \in Int, y \in Int : a = k * x /\ b = k * y
    <3>1. a = k * (a \div k) + (a % k) /\ a \div k \in Int
      BY <1>4, DivMod
    <3>2. b = k * (b \div k) + (b % k) /\ b \div k \in Int
      BY <1>4, DivMod
    <3>3. a = k * (a \div k) /\ b = k * (b \div k)
      BY <3>1, <3>2
    <3> QED
      BY <3>1, <3>2, <3>3
  <2> DEFINE h == g * k
  <2>2. h \in Nat \ {0}
    BY <1>3
  <2>3. n = h * x /\ d = h * y
    BY <1>3, <1>4, <2>1
  <2>4. n % h = 0 /\ d % h = 0
    BY <2>2, <2>3, MultipleDivides
  <2>5. h <= d
    <3>1. y > 0
      BY <2>2, <2>3
    <3> HIDE DEF h
    <3> QED
      BY <2>2, <2>3, <3>1
  <2>6. h <= g
    <3> HIDE DEF h
    <3>1. h \in S
      BY <2>2, <2>4, <2>5
    <3> QED
      BY <1>2, <3>1
  <2> QED
    BY <1>3, <2>6
<1>8. a * d = n * b
  BY <1>3, <1>4
<1> QED
  BY <1>4, <1>5, <1>6, <1>7, <1>8 DEF Equals, IsRational

(* A value may be written over any multiple of its denominator.            *)
LEMMA Scaled ==
  ASSUME NEW r, NEW n, NEW d, Equals(r, n, d), NEW k \in Nat \ {0}
  PROVE  Equals(r, n * k, d * k)
<1> DEFINE a == r[1]
           b == r[2]
<1>1. a \in Int /\ b \in Nat \ {0} /\ n \in Int /\ d \in Nat \ {0} /\ a * d = n * b
  BY DEF Equals, IsRational
<1> HIDE DEF a, b
<1>2. a * (d * k) = (a * d) * k /\ (n * k) * b = (n * b) * k
  BY <1>1
<1>3. n * k \in Int /\ d * k \in Nat \ {0} /\ a * (d * k) = (n * k) * b
  BY <1>1, <1>2
<1> QED
  BY <1>3 DEF Equals, a, b

(* A rational is its own value.                                            *)
LEMMA ItsOwnValue ==
  ASSUME NEW r, IsRational(r)
  PROVE  Equals(r, r[1], r[2])
BY DEF Equals, IsRational

(* Two and three rationals over one denominator.                           *)
LEMMA CommonDenominator ==
  ASSUME NEW r, IsRational(r), NEW s, IsRational(s)
  PROVE  \E n, m, d : Equals(r, n, d) /\ Equals(s, m, d)
<1>1. r[2] \in Nat \ {0} /\ s[2] \in Nat \ {0} /\ r[2] * s[2] = s[2] * r[2]
  BY DEF IsRational
<1>2. Equals(r, r[1] * s[2], r[2] * s[2]) /\ Equals(s, s[1] * r[2], s[2] * r[2])
  BY <1>1, ItsOwnValue, Scaled
<1> QED
  BY <1>1, <1>2

LEMMA CommonDenominatorOfThree ==
  ASSUME NEW r, IsRational(r), NEW s, IsRational(s), NEW t, IsRational(t)
  PROVE  \E n, m, k, d : Equals(r, n, d) /\ Equals(s, m, d) /\ Equals(t, k, d)
<1>1. PICK n, m, d : Equals(r, n, d) /\ Equals(s, m, d)
  BY CommonDenominator
<1>2. d \in Nat \ {0} /\ t[2] \in Nat \ {0} /\ d * t[2] = t[2] * d
  BY <1>1 DEF Equals, IsRational
<1>3. Equals(r, n * t[2], d * t[2]) /\ Equals(s, m * t[2], d * t[2]) /\ Equals(t, t[1] * d, t[2] * d)
  BY <1>1, <1>2, ItsOwnValue, Scaled
<1> QED
  BY <1>2, <1>3

(* Two fractions of one value.                                             *)
LEMMA SameValue ==
  ASSUME NEW r, NEW n, NEW d, Equals(r, n, d), NEW m \in Int, NEW e \in Nat \ {0}, n * e = m * d
  PROVE  Equals(r, m, e)
<1> DEFINE a == r[1]
           b == r[2]
<1>1. a \in Int /\ b \in Nat \ {0} /\ n \in Int /\ d \in Nat \ {0} /\ a * d = n * b
  BY DEF Equals, IsRational
<1> HIDE DEF a, b
<1>2. a * e = m * b
  <2>1. (a * e) * d = (a * d) * e /\ (m * b) * d = (m * d) * b
    BY <1>1
  <2>2. (n * b) * e = (n * e) * b
    BY <1>1
  <2>3. (a * e) * d = (m * b) * d
    BY <1>1, <2>1, <2>2
  <2>4. a * e \in Int /\ m * b \in Int /\ d \in Int /\ d # 0
    BY <1>1
  <2> QED
    BY <2>3, <2>4, Cancels
<1> QED
  BY <1>2 DEF Equals, a, b

(* Sums and differences over a common denominator.                         *)
LEMMA SumsOverOne ==
  ASSUME NEW r, NEW s, NEW n, NEW m, NEW d, Equals(r, n, d), Equals(s, m, d)
  PROVE  Equals(Plus(r, s), n + m, d) /\ Equals(Minus(r, s), n - m, d)
<1> DEFINE a == r[1]
           b == r[2]
           c == s[1]
           e == s[2]
<1>1. /\ a \in Int /\ b \in Nat \ {0} /\ c \in Int /\ e \in Nat \ {0} /\ n \in Int /\ m \in Int /\ d \in Nat \ {0}
      /\ a * d = n * b /\ c * d = m * e
  BY DEF Equals, IsRational
<1> DEFINE p == Plus(r, s)
           q == Minus(r, s)
<1>2. p = Rational(a * e + c * b, b * e) /\ q = Rational(a * e - c * b, b * e)
  BY DEF Plus, Minus
<1> HIDE DEF a, b, c, e, p, q
<1>3. b * e \in Nat \ {0} /\ a * e + c * b \in Int /\ a * e - c * b \in Int
  BY <1>1
<1>4. Equals(p, a * e + c * b, b * e) /\ Equals(q, a * e - c * b, b * e)
  BY <1>2, <1>3, RationalEquals
<1>5. (a * e) * d = n * (b * e) /\ (c * b) * d = m * (b * e)
  <2>1. (a * e) * d = (a * d) * e /\ (c * b) * d = (c * d) * b
    BY <1>1
  <2>2. (n * b) * e = n * (b * e) /\ (m * e) * b = m * (b * e)
    BY <1>1
  <2> QED
    BY <1>1, <2>1, <2>2
<1>6. /\ (a * e + c * b) * d = (n + m) * (b * e)
      /\ (a * e - c * b) * d = (n - m) * (b * e)
  <2> DEFINE x == a * e
             y == c * b
             z == b * e
  <2>1. x \in Int /\ y \in Int /\ z \in Int /\ x * d = n * z /\ y * d = m * z
    BY <1>1, <1>5
  <2> HIDE DEF x, y, z
  <2>2. (x + y) * d = (n + m) * z /\ (x - y) * d = (n - m) * z
    BY <1>1, <2>1
  <2> QED
    BY <2>2 DEF x, y, z
<1>7. n + m \in Int /\ n - m \in Int
  BY <1>1
<1>8. Equals(p, n + m, d)
  BY ONLY <1>1, <1>3, <1>4, <1>6, <1>7, SameValue
<1>9. Equals(q, n - m, d)
  BY ONLY <1>1, <1>3, <1>4, <1>6, <1>7, SameValue
<1> QED
  BY <1>8, <1>9 DEF p, q

(* What holds at first and passes on from each place to the next.          *)
LEMMA UpTo ==
  ASSUME NEW n \in Nat, NEW S, 0 \in S, \A k \in 0..(n - 1) : k \in S => k + 1 \in S
  PROVE  \A k \in 0..n : k \in S
<1> DEFINE T == {k \in 0..n : k \notin S}
<1> SUFFICES ASSUME T # {} PROVE FALSE
  OBVIOUS
<1>1. PICK m \in T : \A k \in T : m <= k
  <2>1. T \subseteq Nat
    OBVIOUS
  <2> HIDE DEF T
  <2> QED
    BY <2>1, NatMin
<1>2. m # 0 /\ m - 1 \in 0..(n - 1) /\ m - 1 \notin T
  BY <1>1
<1> QED
  BY <1>1, <1>2

-----------------------------------------------------------------------------
(* A step of the accounting *)

(* The fields of an account.                                               *)
AccountFields == {"inventory", "unknown", "custody", "basis", "acquired", "proceeds", "consumed",
                  "disposed", "mixed", "basisLost", "proceedsLost", "zero", "failure"}
IsAccount(s) == DOMAIN s = AccountFields

(* What is known of an event.                                              *)
IsEvent(e) ==
  /\ e.kind \in InventoryKinds \cup {"FEE"} /\ e.q \in Nat \ {0}
  /\ e.kind \in Trades => e.how \in {"EXACT", "OTHER_MINT", "UNRESOLVED"}
  /\ e.kind = "TRANSFER_IN" => e.how \in {"KNOWN", "UNKNOWN"}

(* What an event does to inventory and custody; z tells whether it is the  *)
(* last inventory event of its transaction.                                *)
Enters(s, r, e) ==
  /\ e.kind \in {"ACQUISITION", "TRANSFER_IN"}
  /\ r.inventory = s.inventory + e.q /\ r.custody = s.custody + e.q
  /\ r.unknown = s.unknown /\ r.zero = FALSE
Disposes(s, r, e, z) ==
  /\ e.kind = "DISPOSAL" /\ (~s.unknown => ~(s.inventory < e.q)) /\ ~(s.custody < e.q)
  /\ r.inventory = (IF s.unknown THEN s.inventory ELSE s.inventory - e.q)
  /\ r.custody = s.custody - e.q /\ r.unknown = s.unknown
  /\ r.zero = (~s.unknown /\ s.inventory = e.q /\ z)
Leaves(s, r, e) ==
  /\ e.kind = "TRANSFER_OUT" /\ ~(s.custody < e.q)
  /\ r.inventory = s.inventory /\ r.custody = s.custody - e.q
  /\ r.unknown = (s.unknown \/ e.how = "UNRESOLVED") /\ r.zero = FALSE
Rests(s, r, e) ==
  /\ e.kind = "FEE" /\ r.inventory = s.inventory /\ r.custody = s.custody
  /\ r.unknown = s.unknown /\ r.zero = FALSE
Flows(s, r, e, z) == Enters(s, r, e) \/ Disposes(s, r, e, z) \/ Leaves(s, r, e) \/ Rests(s, r, e)

(* What it does to the basis.                                              *)
Pays(s, r, cost) ==
  /\ r.basis = PlusNullable(s.basis, cost) /\ r.acquired = PlusNullable(s.acquired, cost)
  /\ r.consumed = s.consumed /\ r.basisLost = s.basisLost
Receives(s, r, e) ==
  /\ r.basis = (IF e.how = "KNOWN" THEN PlusNullable(s.basis, Whole(1)) ELSE Null)
  /\ r.acquired = s.acquired /\ r.consumed = s.consumed /\ r.basisLost = s.basisLost
Consumes(s, r, q) ==
  /\ r.consumed = PlusNullable(s.consumed, Consumed(s, q))
  /\ r.basis = (IF r.zero THEN Zero ELSE MinusNullable(s.basis, Consumed(s, q)))
  /\ r.basisLost = (s.basisLost \/ Consumed(s, q) = Null) /\ r.acquired = s.acquired
Forgets(s, r, e) ==
  /\ r.basis = (IF e.how = "UNRESOLVED" THEN Null ELSE s.basis)
  /\ r.acquired = s.acquired /\ r.consumed = s.consumed /\ r.basisLost = s.basisLost
Worths(s, r, evs, i) ==
  /\ evs[i].kind = "ACQUISITION" => Pays(s, r, Cost(evs, i))
  /\ evs[i].kind = "TRANSFER_IN" => Receives(s, r, evs[i])
  /\ evs[i].kind = "DISPOSAL" => Consumes(s, r, evs[i].q)
  /\ evs[i].kind = "TRANSFER_OUT" => Forgets(s, r, evs[i])
  /\ evs[i].kind = "FEE" => r.basis = s.basis /\ r.acquired = s.acquired
                            /\ r.consumed = s.consumed /\ r.basisLost = s.basisLost

(* What it tells of quotes and proceeds.                                   *)
Quotes(s, r, evs, i) ==
  /\ evs[i].kind \in Trades => r.mixed = (s.mixed \/ MixesQuotes(evs, i))
  /\ evs[i].kind \notin Trades => r.mixed = s.mixed
  /\ evs[i].kind = "DISPOSAL" =>
        /\ r.proceeds = PlusNullable(s.proceeds, Proceeds(evs, i))
        /\ r.proceedsLost = (s.proceedsLost \/ Proceeds(evs, i) = Null)
  /\ evs[i].kind # "DISPOSAL" => r.proceeds = s.proceeds /\ r.proceedsLost = s.proceedsLost

(* All that one event does.                                                *)
Goes(s, r, evs, i) ==
  /\ IsAccount(r) /\ r.failure = "none"
  /\ Flows(s, r, evs[i], LastInventoryEvent(evs, i)) /\ Worths(s, r, evs, i) /\ Quotes(s, r, evs, i)

(* An event that does not fail is applied: every kind of event in turn.    *)
LEMMA ApplyGoes ==
  ASSUME NEW u, IsAccount(u), u.failure = "none", u.zero = FALSE, NEW evs, NEW i, IsEvent(evs[i]),
         Failure(u, evs[i]) = "none"
  PROVE  Goes(u, Apply(u, evs, i), evs, i)
<1> DEFINE e == evs[i]
           z == LastInventoryEvent(evs, i)
           r == Apply(u, evs, i)
<1>1. e.kind \in {"ACQUISITION", "TRANSFER_IN", "DISPOSAL", "TRANSFER_OUT", "FEE"}
  BY DEF IsEvent, InventoryKinds, Trades
<1>2. CASE e.kind = "ACQUISITION"
  <2>1. r = Acquire(u, evs, i)
    BY <1>2 DEF Apply
  <2>2. IsAccount(r) /\ r.failure = "none" /\ Enters(u, r, e) /\ Pays(u, r, Cost(evs, i))
    BY <1>2, <2>1 DEF Acquire, Enter, IsAccount, AccountFields, Enters, Pays
  <2>3. Quotes(u, r, evs, i)
    BY <1>2, <2>1 DEF Acquire, Enter, IsAccount, AccountFields, Quotes, Trades
  <2> QED
    BY <1>2, <2>2, <2>3 DEF Goes, Flows, Worths
<1>3. CASE e.kind = "TRANSFER_IN"
  <2>1. r = TransferIn(u, evs, i)
    BY <1>3 DEF Apply
  <2>2. IsAccount(r) /\ r.failure = "none" /\ Enters(u, r, e) /\ Receives(u, r, e)
    BY <1>3, <2>1 DEF TransferIn, IsAccount, AccountFields, Enters, Receives
  <2>3. Quotes(u, r, evs, i)
    BY <1>3, <2>1 DEF TransferIn, IsAccount, AccountFields, Quotes, Trades
  <2> QED
    BY <1>3, <2>2, <2>3 DEF Goes, Flows, Worths
<1>4. CASE e.kind = "DISPOSAL"
  <2>1. r = Dispose(u, evs, i)
    BY <1>4 DEF Apply
  <2>2. (~u.unknown => ~(u.inventory < e.q)) /\ ~(u.custody < e.q)
    BY <1>4 DEF Failure
  <2> DEFINE y == Realize(u, e.q, Proceeds(evs, i), Consumed(u, e.q), GenuineZero(u, evs, i))
  <2>3. r = [y EXCEPT !.mixed = @ \/ MixesQuotes(evs, i)]
    BY <2>1 DEF Dispose
  <2>4. /\ IsAccount(y) /\ y.failure = "none"
        /\ y.inventory = (IF u.unknown THEN u.inventory ELSE u.inventory - e.q)
        /\ y.custody = u.custody - e.q /\ y.unknown = u.unknown
        /\ y.zero = GenuineZero(u, evs, i)
        /\ y.consumed = PlusNullable(u.consumed, Consumed(u, e.q))
        /\ y.basis = (IF GenuineZero(u, evs, i) THEN Zero ELSE MinusNullable(u.basis, Consumed(u, e.q)))
        /\ y.basisLost = (u.basisLost \/ Consumed(u, e.q) = Null) /\ y.acquired = u.acquired
        /\ y.proceeds = PlusNullable(u.proceeds, Proceeds(evs, i)) /\ y.mixed = u.mixed
        /\ y.proceedsLost = (u.proceedsLost \/ Proceeds(evs, i) = Null)
    BY DEF Realize, IsAccount, AccountFields
  <2> HIDE DEF y
  <2>5. /\ IsAccount(r) /\ \A f \in AccountFields : f # "mixed" => r[f] = y[f]
        /\ r.mixed = (y.mixed \/ MixesQuotes(evs, i))
    BY <2>3, <2>4 DEF IsAccount, AccountFields
  <2>6. Disposes(u, r, e, z)
    BY <1>4, <2>2, <2>4, <2>5 DEF Disposes, GenuineZero, AccountFields
  <2>7. Consumes(u, r, e.q) /\ r.failure = "none"
    BY <2>4, <2>5 DEF Consumes, AccountFields
  <2>8. Quotes(u, r, evs, i)
    BY <1>4, <2>4, <2>5 DEF Quotes, AccountFields, Trades
  <2> QED
    BY <1>4, <2>5, <2>6, <2>7, <2>8 DEF Goes, Flows, Worths
<1>5. CASE e.kind = "TRANSFER_OUT"
  <2>1. r = TransferOut(u, evs, i)
    BY <1>5 DEF Apply
  <2>2. ~(u.custody < e.q)
    BY <1>5 DEF Failure
  <2>3. IsAccount(r) /\ r.failure = "none" /\ Leaves(u, r, e) /\ Forgets(u, r, e)
    BY <1>5, <2>1, <2>2 DEF TransferOut, IsAccount, AccountFields, Leaves, Forgets
  <2>4. Quotes(u, r, evs, i)
    BY <1>5, <2>1 DEF TransferOut, IsAccount, AccountFields, Quotes, Trades
  <2> QED
    BY <1>5, <2>3, <2>4 DEF Goes, Flows, Worths
<1>6. CASE e.kind = "FEE"
  <2>1. r = u
    BY <1>6 DEF Apply
  <2> QED
    BY <1>6, <2>1 DEF Goes, Flows, Worths, Rests, Quotes, Trades
<1> QED
  BY <1>1, <1>2, <1>3, <1>4, <1>5, <1>6

(* A step that does not fail.                                              *)
LEMMA StepIs ==
  ASSUME NEW s, IsAccount(s), NEW evs, NEW i, IsEvent(evs[i]), Step(s, evs, i).failure = "none"
  PROVE  s.failure = "none" /\ Goes(s, Step(s, evs, i), evs, i)
<1> DEFINE u == [s EXCEPT !.zero = FALSE]
           r == Step(s, evs, i)
<1>1. /\ IsAccount(u) /\ u.zero = FALSE
      /\ \A f \in AccountFields : f # "zero" => u[f] = s[f]
  BY DEF IsAccount, AccountFields
<1>2. ASSUME s.failure # "none" PROVE FALSE
  <2>1. r = u
    BY <1>2 DEF Step
  <2> QED
    BY <1>1, <1>2, <2>1 DEF AccountFields
<1>3. ASSUME Failure(s, evs[i]) # "none" PROVE FALSE
  <2>1. r = [s EXCEPT !.zero = FALSE, !.failure = Failure(s, evs[i])]
    BY <1>2, <1>3 DEF Step
  <2>2. r.failure = Failure(s, evs[i])
    BY <2>1 DEF IsAccount, AccountFields
  <2> QED
    BY <1>3, <2>2
<1>4. r = Apply(u, evs, i)
  BY <1>2, <1>3 DEF Step
<1> HIDE DEF u
<1>5. /\ u.inventory = s.inventory /\ u.custody = s.custody /\ u.unknown = s.unknown /\ u.failure = "none"
      /\ u.basis = s.basis /\ u.acquired = s.acquired /\ u.consumed = s.consumed /\ u.basisLost = s.basisLost
      /\ u.mixed = s.mixed /\ u.proceeds = s.proceeds /\ u.proceedsLost = s.proceedsLost
  BY <1>1, <1>2 DEF AccountFields
<1>6. Failure(u, evs[i]) = "none"
  BY <1>3, <1>5 DEF Failure
<1>7. Goes(u, r, evs, i)
  BY <1>1, <1>4, <1>5, <1>6, ApplyGoes
<1>8. \A q : Consumed(u, q) = Consumed(s, q)
  BY <1>5 DEF Consumed
<1> HIDE DEF r
<1>9. Flows(s, r, evs[i], LastInventoryEvent(evs, i))
  BY <1>5, <1>7 DEF Goes, Flows, Enters, Disposes, Leaves, Rests
<1>10. Worths(s, r, evs, i)
  BY <1>5, <1>7, <1>8 DEF Goes, Worths, Pays, Receives, Consumes, Forgets
<1>11. Quotes(s, r, evs, i)
  BY <1>5, <1>7 DEF Goes, Quotes
<1> QED
  BY <1>2, <1>7, <1>9, <1>10, <1>11 DEF Goes, r

(* Failed or not, a step leaves an account.                                *)
LEMMA StepAccount ==
  ASSUME NEW s, IsAccount(s), NEW evs, NEW i, IsEvent(evs[i])
  PROVE  IsAccount(Step(s, evs, i))
<1> DEFINE u == [s EXCEPT !.zero = FALSE]
<1>1. /\ IsAccount(u) /\ u.zero = FALSE
      /\ \A f \in AccountFields : f # "zero" => u[f] = s[f]
  BY DEF IsAccount, AccountFields
<1>2. CASE s.failure # "none"
  BY <1>1, <1>2 DEF Step
<1>3. CASE s.failure = "none" /\ Failure(s, evs[i]) # "none"
  BY <1>3 DEF Step, IsAccount
<1>4. CASE s.failure = "none" /\ Failure(s, evs[i]) = "none"
  <2>1. Step(s, evs, i) = Apply(u, evs, i)
    BY <1>4 DEF Step
  <2> HIDE DEF u
  <2>2. u.inventory = s.inventory /\ u.custody = s.custody /\ u.unknown = s.unknown /\ u.failure = "none"
    BY <1>1, <1>4 DEF AccountFields
  <2>3. Failure(u, evs[i]) = "none"
    BY <1>4, <2>2 DEF Failure
  <2> QED
    BY <1>1, <2>1, <2>2, <2>3, ApplyGoes DEF Goes
<1> QED
  BY <1>2, <1>3, <1>4

(* The account a projection starts from.                                   *)
LEMMA OpenedIs ==
  ASSUME NEW op
  PROVE  /\ IsAccount(Opened(op)) /\ Opened(op).failure = "none" /\ Opened(op).zero = FALSE
         /\ Opened(op).inventory = op.units /\ Opened(op).custody = op.units
         /\ Opened(op).unknown = FALSE /\ Opened(op).basis = op.basis
         /\ Opened(op).acquired = Zero /\ Opened(op).consumed = Zero /\ Opened(op).basisLost = FALSE
         /\ Opened(op).proceeds = Zero /\ Opened(op).proceedsLost = FALSE /\ Opened(op).mixed = FALSE
BY DEF Opened, IsAccount, AccountFields

-----------------------------------------------------------------------------
(* The projection *)

(* The states of a projection, one sequence of them for every number of    *)
(* events.                                                                 *)
Folded(v, n, evs, op) ==
  v = [i \in 0..n |-> IF i = 0 THEN <<Opened(op)>> ELSE Append(v[i - 1], Step(v[i - 1][i], evs, i))]

(* There are such states for any number of events.                         *)
LEMMA FoldExists ==
  ASSUME NEW n \in Nat, NEW evs, NEW op
  PROVE  \E v : Folded(v, n, evs, op)
<1> DEFINE base == <<Opened(op)>>
           next(s, i) == Append(s, Step(s[i], evs, i))
           Made(m) == \E v : Folded(v, m, evs, op)
           S == {m \in 0..n : Made(m)}
<1> HIDE DEF base, next
<1>1. Made(0)
  <2> DEFINE v == [i \in 0..0 |-> base]
  <2>1. v = [i \in 0..0 |-> IF i = 0 THEN base ELSE next(v[i - 1], i)]
    OBVIOUS
  <2>2. Folded(v, 0, evs, op)
    BY <2>1 DEF Folded, base, next
  <2> QED
    BY <2>2
<1>2. ASSUME NEW k \in 0..(n - 1), Made(k)
      PROVE  Made(k + 1)
  <2>1. PICK v : Folded(v, k, evs, op)
    BY <1>2
  <2>2. v = [i \in 0..k |-> IF i = 0 THEN base ELSE next(v[i - 1], i)]
    BY <2>1 DEF Folded, base, next
  <2>3. DOMAIN v = 0..k /\ \A i \in 0..k : v[i] = IF i = 0 THEN base ELSE next(v[i - 1], i)
    BY <2>2
  <2> DEFINE w == [i \in 0..(k + 1) |-> IF i = k + 1 THEN next(v[k], k + 1) ELSE v[i]]
             r == [i \in 0..(k + 1) |-> IF i = 0 THEN base ELSE next(w[i - 1], i)]
  <2>4. ASSUME NEW i \in 0..(k + 1)
        PROVE  w[i] = r[i]
    <3>1. CASE i = k + 1
      <4>1. i # 0 /\ i - 1 = k /\ k \in 0..(k + 1) /\ k # k + 1
        BY <3>1
      <4>2. w[i - 1] = v[k] /\ w[i] = next(v[k], i)
        BY <3>1, <4>1
      <4>3. r[i] = next(w[i - 1], i)
        BY <4>1
      <4> QED
        BY ONLY <4>2, <4>3
    <3>2. CASE i # k + 1 /\ i # 0
      <4>1. i - 1 \in 0..(k + 1) /\ i - 1 # k + 1 /\ i \in 0..k
        BY <3>2
      <4>2. w[i - 1] = v[i - 1] /\ w[i] = v[i]
        BY <3>2, <4>1
      <4>3. v[i] = next(v[i - 1], i)
        BY <2>3, <3>2, <4>1
      <4>4. r[i] = next(w[i - 1], i)
        BY <3>2
      <4> QED
        BY ONLY <4>2, <4>3, <4>4
    <3>3. CASE i = 0
      <4>1. 0 \in 0..k /\ 0 # k + 1 /\ 0 \in 0..(k + 1)
        OBVIOUS
      <4>2. w[0] = v[0] /\ v[0] = base /\ r[0] = base
        BY <2>3, <4>1
      <4> QED
        BY ONLY <3>3, <4>2
    <3> QED
      BY <3>1, <3>2, <3>3
  <2>5. w = r
    <3>1. w = [i \in 0..(k + 1) |-> w[i]] /\ r = [i \in 0..(k + 1) |-> r[i]]
      OBVIOUS
    <3> HIDE DEF w, r
    <3> QED
      BY <2>4, <3>1
  <2>6. Folded(w, k + 1, evs, op)
    BY ONLY <2>5 DEF Folded, base, next, r
  <2> QED
    BY <2>6
<1> HIDE DEF Made
<1>3. 0 \in S /\ \A k \in 0..(n - 1) : k \in S => k + 1 \in S
  BY <1>1, <1>2
<1>4. \A k \in 0..n : k \in S
  BY <1>3, UpTo
<1> QED
  BY <1>4 DEF Made

(* States of an account, one more than the events they follow.             *)
Prefix(states, n, evs, op) ==
  /\ states \in Seq(Range(states)) /\ Len(states) = n + 1
  /\ states[1] = Opened(op)
  /\ \A i \in 1..n : states[i + 1] = Step(states[i], evs, i)
ProjectionOf(states, evs, op) == Prefix(states, Len(evs), evs, op)

(* One event more, one state more.                                         *)
LEMMA PrefixGrows ==
  ASSUME NEW n \in Nat, NEW evs, NEW op, NEW s, Prefix(s, n, evs, op), NEW x, x = Step(s[n + 1], evs, n + 1)
  PROVE  Prefix(Append(s, x), n + 1, evs, op)
<1> DEFINE r == Append(s, x)
           S == Range(s) \cup {x}
<1>1. s \in Seq(S) /\ x \in S /\ Len(s) = n + 1
  BY DEF Prefix
<1> HIDE DEF S
<1>2. /\ r \in Seq(S) /\ Len(r) = n + 2 /\ r[n + 2] = x
      /\ \A i \in 1..(n + 1) : r[i] = s[i]
  BY <1>1, AppendProperties
<1>3. r \in Seq(Range(r))
  <2>1. DOMAIN r = 1..Len(r) /\ Len(r) \in Nat
    BY <1>2
  <2> HIDE DEF r
  <2>2. \A i \in DOMAIN r : r[i] \in Range(r)
    BY DEF Range
  <2> QED
    BY <1>2, <2>1, <2>2, SeqDef
<1> HIDE DEF r
<1>4. r[1] = Opened(op)
  BY <1>2 DEF Prefix
<1>5. ASSUME NEW i \in 1..(n + 1) PROVE r[i + 1] = Step(r[i], evs, i)
  <2>1. CASE i = n + 1
    BY <1>2, <2>1
  <2>2. CASE i # n + 1
    <3>1. i \in 1..n /\ i + 1 \in 1..(n + 1)
      BY <2>2
    <3> QED
      BY <1>2, <3>1 DEF Prefix
  <2> QED
    BY <2>1, <2>2
<1>6. Len(r) = (n + 1) + 1
  BY <1>2
<1> QED
  BY <1>3, <1>4, <1>5, <1>6 DEF Prefix, r

(* The projection is what its recursion says.                              *)
LEMMA ProjectionIs ==
  ASSUME NEW evs, Len(evs) \in Nat, NEW op
  PROVE  ProjectionOf(Projection(evs, op), evs, op)
<1> DEFINE n == Len(evs)
           v == CHOOSE f : Folded(f, n, evs, op)
           S == {k \in 0..n : Prefix(v[k], k, evs, op)}
<1>1. Projection(evs, op) = v[n]
  BY DEF Projection, Folded
<1> HIDE DEF n
<1>2. n \in Nat
  BY DEF n
<1>3. Folded(v, n, evs, op)
  BY <1>2, FoldExists
<1> HIDE DEF v
<1>4. \A i \in 0..n : v[i] = IF i = 0 THEN <<Opened(op)>> ELSE Append(v[i - 1], Step(v[i - 1][i], evs, i))
  BY <1>3 DEF Folded
<1>5. Prefix(v[0], 0, evs, op)
  <2> DEFINE x == Opened(op)
             s == <<x>>
  <2> HIDE DEF x
  <2>1. v[0] = s
    BY <1>2, <1>4 DEF x
  <2>2. Len(s) = 1 /\ s[1] = x /\ s \in Seq({x}) /\ Range(s) = {x}
    BY DEF Range
  <2> HIDE DEF s
  <2> QED
    BY <2>1, <2>2 DEF Prefix, x
<1>6. ASSUME NEW k \in 0..(n - 1), Prefix(v[k], k, evs, op)
      PROVE  Prefix(v[k + 1], k + 1, evs, op)
  <2>1. k + 1 \in 0..n /\ k + 1 # 0 /\ (k + 1) - 1 = k
    BY <1>2
  <2>2. v[k + 1] = Append(v[k], Step(v[k][k + 1], evs, k + 1))
    BY <1>4, <2>1
  <2> QED
    BY <1>2, <1>6, <2>2, PrefixGrows
<1>7. \A k \in 0..n : k \in S
  <2>1. 0 \in S
    BY <1>2, <1>5
  <2>2. \A k \in 0..(n - 1) : k \in S => k + 1 \in S
    BY <1>2, <1>6
  <2> HIDE DEF S
  <2> QED
    BY <1>2, <2>1, <2>2, UpTo
<1> QED
  BY <1>1, <1>2, <1>7 DEF ProjectionOf, n

(* Events, and the states of a projection of them that did not fail.       *)
AreEvents(evs) == Len(evs) \in Nat /\ \A i \in 1..Len(evs) : IsEvent(evs[i])

Course(states, evs, op) ==
  /\ states \in Seq(Range(states)) /\ Len(states) = Len(evs) + 1
  /\ states[1] = Opened(op)
  /\ \A i \in 1..(Len(evs) + 1) : IsAccount(states[i]) /\ states[i].failure = "none"
  /\ \A i \in 1..Len(evs) : Goes(states[i], states[i + 1], evs, i)

(* When the last state did not fail, none did.                             *)
LEMMA CourseIs ==
  ASSUME NEW evs, AreEvents(evs), NEW op, NEW s, ProjectionOf(s, evs, op), s[Len(evs) + 1].failure = "none"
  PROVE  Course(s, evs, op)
<1> DEFINE n == Len(evs)
           S == {k \in 0..n : IsAccount(s[k + 1])}
           T == {k \in 0..n : s[(n - k) + 1].failure = "none"}
<1>1. /\ n \in Nat /\ \A i \in 1..n : IsEvent(evs[i])
      /\ s[1] = Opened(op) /\ \A i \in 1..n : s[i + 1] = Step(s[i], evs, i)
  BY DEF AreEvents, ProjectionOf, Prefix
<1>2. \A k \in 0..n : IsAccount(s[k + 1])
  <2>1. 0 \in S
    <3>1. IsAccount(s[1])
      BY <1>1, OpenedIs
    <3> QED
      BY <1>1, <3>1
  <2>2. ASSUME NEW k \in 0..(n - 1), IsAccount(s[k + 1]) PROVE IsAccount(s[(k + 1) + 1])
    <3>1. k + 1 \in 1..n
      BY <1>1
    <3> QED
      BY <1>1, <2>2, <3>1, StepAccount
  <2>3. \A k \in 0..(n - 1) : k \in S => k + 1 \in S
    BY <1>1, <2>2
  <2>4. \A k \in 0..n : k \in S
    <3> HIDE DEF S, n
    <3> QED
      BY <1>1, <2>1, <2>3, UpTo
  <2> QED
    BY <2>4
<1>3. ASSUME NEW i \in 1..n, s[i + 1].failure = "none"
      PROVE  s[i].failure = "none" /\ Goes(s[i], s[i + 1], evs, i)
  <2>1. i - 1 \in 0..n /\ (i - 1) + 1 = i
    BY <1>1
  <2>2. IsAccount(s[i])
    BY <1>2, <2>1
  <2> QED
    BY <1>1, <1>3, <2>2, StepIs
<1>4. \A k \in 0..n : s[(n - k) + 1].failure = "none"
  <2>1. 0 \in T
    BY <1>1
  <2>2. ASSUME NEW k \in 0..(n - 1), s[(n - k) + 1].failure = "none"
        PROVE  s[(n - (k + 1)) + 1].failure = "none"
    <3>1. n - k \in 1..n /\ (n - (k + 1)) + 1 = n - k
      BY <1>1
    <3> QED
      BY <1>3, <2>2, <3>1
  <2>3. \A k \in 0..(n - 1) : k \in T => k + 1 \in T
    BY <1>1, <2>2
  <2>4. \A k \in 0..n : k \in T
    <3> HIDE DEF T, n
    <3> QED
      BY <1>1, <2>1, <2>3, UpTo
  <2> QED
    BY <2>4
<1>5. ASSUME NEW i \in 1..(n + 1) PROVE IsAccount(s[i]) /\ s[i].failure = "none"
  <2>1. i - 1 \in 0..n /\ (i - 1) + 1 = i /\ (n + 1) - i \in 0..n /\ (n - ((n + 1) - i)) + 1 = i
    BY <1>1
  <2>2. IsAccount(s[(i - 1) + 1])
    BY <1>2, <2>1
  <2>3. s[(n - ((n + 1) - i)) + 1].failure = "none"
    BY <1>4, <2>1
  <2> QED
    BY <2>1, <2>2, <2>3
<1>6. ASSUME NEW i \in 1..n PROVE Goes(s[i], s[i + 1], evs, i)
  <2>1. i + 1 \in 1..(n + 1)
    BY <1>1
  <2> QED
    BY <1>3, <1>5, <2>1
<1> QED
  BY <1>1, <1>5, <1>6 DEF Course, ProjectionOf, Prefix

-----------------------------------------------------------------------------
(* The canonical events, and the part of them a span has *)

(* Transactions whose events are of the shapes.                            *)
AreRows(rs) == rs \in Seq(Range(rs)) /\ \A t \in DOMAIN rs : rs[t].events \in Seq(Shapes)

(* A shape is an event,                                                    *)
LEMMA ShapesAre ==
  ASSUME NEW x \in Shapes
  PROVE  IsEvent(x)
<1>1. x \in EventShapes
  BY ShapesAreEvents
<1>2. \A q \in Quantities : q \in Nat \ {0}
  BY LedgerBounds
<1>3. /\ x.kind \in InventoryKinds \cup {"FEE"} /\ (x.q \in Quantities \/ x.q = 1)
      /\ x.kind \in Trades => x.how \in {"EXACT", "OTHER_MINT", "UNRESOLVED"}
      /\ x.kind = "TRANSFER_IN" => x.how \in {"KNOWN", "UNKNOWN"}
  BY <1>1 DEF EventShapes, InventoryKinds, Trades
<1> QED
  BY <1>2, <1>3 DEF IsEvent

(* and placed in its transaction it keeps its kind and quantity.           *)
LEMMA PlacedIs ==
  ASSUME NEW shapes, shapes \in Seq(Shapes), NEW t
  PROVE  /\ Placed(shapes, t) \in Seq(Range(Placed(shapes, t)))
         /\ Len(Placed(shapes, t)) = Len(shapes) /\ Len(shapes) \in Nat
         /\ \A i \in 1..Len(shapes) : /\ IsEvent(Placed(shapes, t)[i])
                                      /\ Placed(shapes, t)[i].tx = t /\ Placed(shapes, t)[i].at = i
<1> DEFINE p == Placed(shapes, t)
           n == Len(shapes)
<1>1. n \in Nat /\ DOMAIN shapes = 1..n /\ \A i \in 1..n : shapes[i] \in Shapes
  OBVIOUS
<1> HIDE DEF n
<1>2. p = [i \in 1..n |-> [kind |-> shapes[i].kind, q |-> shapes[i].q, how |-> shapes[i].how,
                           of |-> shapes[i].of, tx |-> t, at |-> i]]
  BY <1>1 DEF Placed
<1> HIDE DEF p
<1>3. p = [i \in 1..n |-> p[i]]
  BY <1>2
<1>4. p \in Seq(Range(p)) /\ Len(p) = n
  BY <1>1, <1>3, Listed
<1>5. ASSUME NEW i \in 1..n
      PROVE  IsEvent(p[i]) /\ p[i].tx = t /\ p[i].at = i
  <2>1. p[i].kind = shapes[i].kind /\ p[i].q = shapes[i].q /\ p[i].how = shapes[i].how /\ p[i].tx = t /\ p[i].at = i
    BY <1>2
  <2>2. IsEvent(shapes[i])
    BY <1>1, ShapesAre
  <2> QED
    BY <2>1, <2>2 DEF IsEvent
<1> QED
  BY <1>1, <1>4, <1>5 DEF p, n

(* Events of m transactions in canonical order: the first c[t] are those   *)
(* of the first t transactions, and each tells its place in its own.       *)
Canonical(evs, c, m) ==
  /\ evs \in Seq(Range(evs))
  /\ \A t \in 0..m : c[t] \in 0..Len(evs)
  /\ c[m] = Len(evs)
  /\ \A i \in 1..Len(evs) : /\ IsEvent(evs[i]) /\ evs[i].tx \in 1..m
                            /\ evs[i].at = i - c[evs[i].tx - 1]
                            /\ \A t \in 0..m : i <= c[t] <=> evs[i].tx <= t

(* The next transaction comes after all that came before.                  *)
LEMMA CanonicalGrows ==
  ASSUME NEW m \in Nat, NEW s, NEW c, Canonical(s, c, m), NEW shapes \in Seq(Shapes), NEW r,
         r = s \o Placed(shapes, m + 1), c[m + 1] = Len(r)
  PROVE  Canonical(r, c, m + 1)
<1> DEFINE p == Placed(shapes, m + 1)
           n == Len(s)
           k == Len(shapes)
           S == Range(s) \cup Range(p)
<1>1. /\ n \in Nat /\ s \in Seq(S) /\ \A t \in 0..m : c[t] \in 0..n
      /\ c[m] = n
      /\ \A i \in 1..n : /\ IsEvent(s[i]) /\ s[i].tx \in 1..m /\ s[i].at = i - c[s[i].tx - 1]
                         /\ \A t \in 0..m : i <= c[t] <=> s[i].tx <= t
  BY DEF Canonical
<1>2. /\ k \in Nat /\ p \in Seq(S) /\ Len(p) = k
      /\ \A i \in 1..k : IsEvent(p[i]) /\ p[i].tx = m + 1 /\ p[i].at = i
  BY PlacedIs
<1> HIDE DEF p, n, k, S
<1>3. r = s \o p
  BY DEF p
<1>4. /\ r \in Seq(S) /\ Len(r) = n + k
      /\ \A i \in 1..n : r[i] = s[i]
      /\ \A i \in 1..k : r[n + i] = p[i]
  <2>1. /\ s \o p \in Seq(S) /\ Len(s \o p) = Len(s) + Len(p)
        /\ \A i \in 1..(Len(s) + Len(p)) : (s \o p)[i] = IF i <= Len(s) THEN s[i] ELSE p[i - Len(s)]
    <3>1. s \in Seq(S) /\ p \in Seq(S)
      BY <1>1, <1>2
    <3> QED
      BY ONLY <3>1, ConcatProperties, Zenon
  <2>2. \A i \in 1..(n + k) : r[i] = IF i <= n THEN s[i] ELSE p[i - n]
    BY <1>2, <1>3, <2>1 DEF n
  <2>3. \A i \in 1..n : i \in 1..(n + k) /\ i <= n
    BY <1>1, <1>2
  <2>4. \A i \in 1..k : n + i \in 1..(n + k) /\ ~(n + i <= n) /\ (n + i) - n = i
    BY <1>1, <1>2
  <2>5. \A i \in 1..k : r[n + i] = p[i]
    BY <2>2, <2>4
  <2> QED
    BY <1>2, <1>3, <2>1, <2>2, <2>3, <2>5 DEF n
<1>5. r \in Seq(Range(r))
  <2>1. Len(r) \in Nat /\ DOMAIN r = 1..Len(r)
    BY <1>4
  <2>2. \A i \in DOMAIN r : r[i] \in Range(r)
    BY DEF Range
  <2>3. r = [i \in 1..Len(r) |-> r[i]]
    BY <1>4, <2>1
  <2> QED
    BY <2>1, <2>3, Listed
<1>6. c[m + 1] = n + k
  BY <1>4
<1>7. \A t \in 0..(m + 1) : c[t] \in 0..(n + k)
  <2> TAKE t \in 0..(m + 1)
  <2>1. CASE t = m + 1
    BY <1>1, <1>2, <1>6, <2>1
  <2>2. CASE t # m + 1
    <3>1. t \in 0..m
      BY <2>2
    <3> QED
      BY <1>1, <1>2, <3>1
  <2> QED
    BY <2>1, <2>2
<1>8. ASSUME NEW i \in 1..(n + k)
      PROVE  /\ IsEvent(r[i]) /\ r[i].tx \in 1..(m + 1)
             /\ r[i].at = i - c[r[i].tx - 1]
             /\ \A t \in 0..(m + 1) : i <= c[t] <=> r[i].tx <= t
  <2>1. CASE i <= n
    <3>1. i \in 1..n /\ r[i] = s[i]
      BY <1>1, <1>2, <1>4, <2>1
    <3>2. IsEvent(r[i]) /\ r[i].tx \in 1..m /\ r[i].at = i - c[r[i].tx - 1]
          /\ \A t \in 0..m : i <= c[t] <=> r[i].tx <= t
      BY <1>1, <3>1
    <3>3. i <= c[m + 1] /\ r[i].tx <= m + 1
      BY <1>1, <1>2, <1>6, <3>1, <3>2
    <3>4. \A t \in 0..(m + 1) : t \in 0..m \/ t = m + 1
      OBVIOUS
    <3>5. \A t \in 0..(m + 1) : i <= c[t] <=> r[i].tx <= t
      BY <3>2, <3>3, <3>4
    <3>6. \A x \in 1..m : x \in 1..(m + 1)
      OBVIOUS
    <3> QED
      BY <3>2, <3>5, <3>6, Zenon
  <2>2. CASE ~(i <= n)
    <3>1. i - n \in 1..k /\ n + (i - n) = i
      BY <1>1, <1>2, <2>2
    <3>2. r[i] = p[i - n]
      BY <1>4, <3>1
    <3>3. IsEvent(r[i]) /\ r[i].tx = m + 1 /\ r[i].at = i - n
      BY <1>2, <3>1, <3>2
    <3>4. ASSUME NEW t \in 0..(m + 1) PROVE i <= c[t] <=> r[i].tx <= t
      <4>1. CASE t = m + 1
        BY <1>6, <3>3, <4>1
      <4>2. CASE t # m + 1
        <5>1. t \in 0..m /\ c[t] \in 0..n
          BY <1>1, <4>2
        <5>2. ~(i <= c[t]) /\ ~(m + 1 <= t)
          BY <1>1, <2>2, <5>1
        <5> QED
          BY <3>3, <5>2
      <4> QED
        BY <4>1, <4>2
    <3>5. m + 1 \in 1..(m + 1) /\ (m + 1) - 1 = m
      OBVIOUS
    <3>6. r[i].tx \in 1..(m + 1) /\ r[i].tx - 1 = m
      BY <3>3, <3>5, Zenon
    <3>7. r[i].at = i - c[r[i].tx - 1]
      BY <1>1, <3>3, <3>6, Zenon
    <3> QED
      BY <3>3, <3>4, <3>6, <3>7, Zenon
  <2> QED
    BY <2>1, <2>2
<1> QED
  BY <1>4, <1>5, <1>6, <1>7, <1>8 DEF Canonical

(* The canonical events of every number of transactions.                   *)
Collected(v, n, rs) ==
  v = [t \in 0..n |-> IF t = 0 THEN <<>> ELSE v[t - 1] \o Placed(rs[t].events, t)]

(* They exist for any number.                                              *)
LEMMA CollectionExists ==
  ASSUME NEW n \in Nat, NEW rs
  PROVE  \E v : Collected(v, n, rs)
<1> DEFINE base == <<>>
           next(s, t) == s \o Placed(rs[t].events, t)
           Made(m) == \E v : Collected(v, m, rs)
           S == {m \in 0..n : Made(m)}
<1> HIDE DEF base, next
<1>1. Made(0)
  <2> DEFINE v == [t \in 0..0 |-> base]
  <2>1. v = [t \in 0..0 |-> IF t = 0 THEN base ELSE next(v[t - 1], t)]
    OBVIOUS
  <2>2. Collected(v, 0, rs)
    BY <2>1 DEF Collected, base, next
  <2> QED
    BY <2>2
<1>2. ASSUME NEW k \in 0..(n - 1), Made(k)
      PROVE  Made(k + 1)
  <2>1. PICK v : Collected(v, k, rs)
    BY <1>2
  <2>2. v = [t \in 0..k |-> IF t = 0 THEN base ELSE next(v[t - 1], t)]
    BY <2>1 DEF Collected, base, next
  <2>3. DOMAIN v = 0..k /\ \A t \in 0..k : v[t] = IF t = 0 THEN base ELSE next(v[t - 1], t)
    BY <2>2
  <2> DEFINE w == [t \in 0..(k + 1) |-> IF t = k + 1 THEN next(v[k], k + 1) ELSE v[t]]
             r == [t \in 0..(k + 1) |-> IF t = 0 THEN base ELSE next(w[t - 1], t)]
  <2>4. ASSUME NEW t \in 0..(k + 1)
        PROVE  w[t] = r[t]
    <3>1. CASE t = k + 1
      <4>1. t # 0 /\ t - 1 = k /\ k \in 0..(k + 1) /\ k # k + 1
        BY <3>1
      <4>2. w[t - 1] = v[k] /\ w[t] = next(v[k], t)
        BY <3>1, <4>1
      <4>3. r[t] = next(w[t - 1], t)
        BY <4>1
      <4> QED
        BY ONLY <4>2, <4>3
    <3>2. CASE t # k + 1 /\ t # 0
      <4>1. t - 1 \in 0..(k + 1) /\ t - 1 # k + 1 /\ t \in 0..k
        BY <3>2
      <4>2. w[t - 1] = v[t - 1] /\ w[t] = v[t]
        BY <3>2, <4>1
      <4>3. v[t] = next(v[t - 1], t)
        BY <2>3, <3>2, <4>1
      <4>4. r[t] = next(w[t - 1], t)
        BY <3>2
      <4> QED
        BY ONLY <4>2, <4>3, <4>4
    <3>3. CASE t = 0
      <4>1. 0 \in 0..k /\ 0 # k + 1 /\ 0 \in 0..(k + 1)
        OBVIOUS
      <4>2. w[0] = v[0] /\ v[0] = base /\ r[0] = base
        BY <2>3, <4>1
      <4> QED
        BY ONLY <3>3, <4>2
    <3> QED
      BY <3>1, <3>2, <3>3
  <2>5. w = r
    <3>1. w = [t \in 0..(k + 1) |-> w[t]] /\ r = [t \in 0..(k + 1) |-> r[t]]
      OBVIOUS
    <3> HIDE DEF w, r
    <3> QED
      BY <2>4, <3>1
  <2>6. Collected(w, k + 1, rs)
    BY ONLY <2>5 DEF Collected, base, next, r
  <2> QED
    BY <2>6
<1> HIDE DEF Made
<1>3. 0 \in S /\ \A k \in 0..(n - 1) : k \in S => k + 1 \in S
  BY <1>1, <1>2
<1>4. \A k \in 0..n : k \in S
  BY <1>3, UpTo
<1> QED
  BY <1>4 DEF Made

(* The canonical events of a window are those of all its transactions.     *)
Gathered(v, c, rs) ==
  /\ Collected(v, Len(rs), rs) /\ CanonicalEvents(rs) = v[Len(rs)]
  /\ \A t \in 0..Len(rs) : c[t] = Len(v[t])
  /\ \A t \in 0..Len(rs) : Canonical(v[t], c, t)
LEMMA CanonicalGathers ==
  ASSUME NEW rs, AreRows(rs)
  PROVE  \E v, c : Gathered(v, c, rs)
<1> DEFINE n == Len(rs)
           v == CHOOSE f : Collected(f, n, rs)
           c == [t \in 0..n |-> Len(v[t])]
           S == {k \in 0..n : Canonical(v[k], c, k)}
<1>1. n \in Nat /\ \A t \in 1..n : rs[t].events \in Seq(Shapes)
  BY DEF AreRows
<1>2. CanonicalEvents(rs) = v[n]
  BY DEF CanonicalEvents, Collected
<1> HIDE DEF n
<1>3. Collected(v, n, rs)
  BY <1>1, CollectionExists
<1> HIDE DEF v
<1>4. \A t \in 0..n : v[t] = IF t = 0 THEN <<>> ELSE v[t - 1] \o Placed(rs[t].events, t)
  BY <1>3 DEF Collected
<1>5. \A t \in 0..n : c[t] = Len(v[t])
  OBVIOUS
<1> HIDE DEF c
<1>6. Canonical(v[0], c, 0)
  <2>1. v[0] = <<>> /\ c[0] = 0
    <3>1. 0 \in 0..n /\ Len(<<>>) = 0
      BY <1>1
    <3> QED
      BY <1>4, <1>5, <3>1
  <2>2. <<>> \in Seq(Range(<<>>)) /\ Len(<<>>) = 0
    OBVIOUS
  <2>3. \A t \in 0..0 : c[t] \in 0..0
    BY <2>1
  <2> QED
    BY <2>1, <2>2, <2>3 DEF Canonical
<1>7. ASSUME NEW k \in 0..(n - 1), Canonical(v[k], c, k)
      PROVE  Canonical(v[k + 1], c, k + 1)
  <2>1. k + 1 \in 1..n /\ k + 1 \in 0..n /\ k + 1 # 0 /\ (k + 1) - 1 = k /\ k \in Nat
    BY <1>1
  <2>2. v[k + 1] = v[k] \o Placed(rs[k + 1].events, k + 1)
    BY <1>4, <2>1
  <2>3. rs[k + 1].events \in Seq(Shapes) /\ c[k + 1] = Len(v[k + 1])
    BY <1>1, <1>5, <2>1
  <2> QED
    BY ONLY <1>7, <2>1, <2>2, <2>3, CanonicalGrows
<1>8. \A t \in 0..n : t \in S
  <2>1. 0 \in S
    BY <1>1, <1>6
  <2>2. \A k \in 0..(n - 1) : k \in S => k + 1 \in S
    BY <1>1, <1>7
  <2> HIDE DEF S
  <2> QED
    BY <1>1, <2>1, <2>2, UpTo
<1> QED
  BY <1>2, <1>3, <1>5, <1>8 DEF n, Gathered

(* They are in canonical order.                                            *)
LEMMA CanonicalIs ==
  ASSUME NEW rs, AreRows(rs)
  PROVE  \E c : Canonical(CanonicalEvents(rs), c, Len(rs))
<1>1. PICK v, c : Gathered(v, c, rs)
  BY CanonicalGathers
<1>2. Len(rs) \in Nat /\ Len(rs) \in 0..Len(rs)
  BY DEF AreRows
<1> QED
  BY <1>1, <1>2 DEF Gathered

(* The events of a span stand together.                                    *)
Part(part, evs, lo, hi) ==
  /\ part \in Seq(Range(part)) /\ Len(part) = hi - lo /\ lo \in 0..hi /\ hi \in 0..Len(evs)
  /\ \A i \in 1..(hi - lo) : part[i] = evs[lo + i]

(* Later transactions end later.                                           *)
LEMMA CutsGrow ==
  ASSUME NEW evs, NEW c, NEW m \in Nat, Canonical(evs, c, m), NEW s \in 0..m, NEW t \in 0..m, s <= t
  PROVE  c[s] <= c[t]
<1> DEFINE i == c[s]
           n == Len(evs)
<1>1. n \in Nat /\ i \in 0..n /\ c[t] \in 0..n
  BY DEF Canonical
<1>2. CASE i = 0
  BY <1>1, <1>2
<1>3. CASE i # 0
  <2>1. i \in 1..n
    BY <1>1, <1>3
  <2>2. /\ evs[i].tx \in 1..m /\ (i <= c[s] <=> evs[i].tx <= s) /\ (i <= c[t] <=> evs[i].tx <= t)
    BY <2>1 DEF Canonical
  <2> QED
    BY <1>1, <2>2
<1> QED
  BY <1>2, <1>3

(* Before the first transaction there is no event.                         *)
LEMMA CutsStart ==
  ASSUME NEW evs, NEW c, NEW m \in Nat, Canonical(evs, c, m)
  PROVE  c[0] = 0
<1>1. 0 \in 0..m
  OBVIOUS
<1>2. c[0] \in 0..Len(evs)
  BY <1>1, Zenon DEF Canonical
<1>3. ASSUME c[0] # 0 PROVE FALSE
  <2>1. Len(evs) \in Nat
    BY DEF Canonical
  <2>2. c[0] \in 1..Len(evs)
    BY <1>2, <1>3, <2>1
  <2>3. evs[c[0]].tx \in 1..m /\ (c[0] <= c[0] <=> evs[c[0]].tx <= 0)
    BY <1>1, <2>2, Zenon DEF Canonical
  <2> QED
    BY <1>2, <2>1, <2>2, <2>3
<1> QED
  BY <1>3

(* The events of a span are those between the end of the transaction       *)
(* before it and the end of its last one.                                  *)
LEMMA SpanEventsAre ==
  ASSUME NEW evs, NEW c, NEW m \in Nat, Canonical(evs, c, m), NEW span,
         span.start \in 1..(m + 1), span.end \in 0..m, span.start <= span.end + 1
  PROVE  Part(SpanEvents(evs, span), evs, c[span.start - 1], c[span.end])
<1> DEFINE a == span.start
           b == span.end
           lo == c[a - 1]
           hi == c[b]
           n == Len(evs)
           W == Within(evs, span)
<1>1. /\ evs \in Seq(Range(evs)) /\ n \in Nat /\ DOMAIN evs = 1..n
      /\ a - 1 \in 0..m /\ b \in 0..m /\ a \in Int /\ b \in Int /\ lo \in 0..n /\ hi \in 0..n
  BY DEF Canonical
<1>2. lo <= hi
  BY <1>1, CutsGrow
<1>3. \A i \in 1..n : /\ evs[i].tx \in Int
                      /\ (i <= lo <=> evs[i].tx <= a - 1) /\ (i <= hi <=> evs[i].tx <= b)
  <2> TAKE i \in 1..n
  <2>1. evs[i].tx \in 1..m /\ \A t \in 0..m : i <= c[t] <=> evs[i].tx <= t
    BY DEF Canonical
  <2>2. evs[i].tx \in Int
    BY <2>1
  <2> HIDE DEF n
  <2>3. (i <= lo <=> evs[i].tx <= a - 1) /\ (i <= hi <=> evs[i].tx <= b)
    BY <1>1, <2>1, Zenon
  <2> QED
    BY <2>2, <2>3, Zenon
<1>4. W = {i \in 1..n : evs[i].tx \in a..b}
  BY <1>1 DEF Within
<1> HIDE DEF a, b, lo, hi, n, W
<1>5. W = (lo + 1)..hi
  <2>1. \A i \in 1..n : evs[i].tx \in a..b <=> i \in (lo + 1)..hi
    BY <1>1, <1>3
  <2>2. (lo + 1)..hi \subseteq 1..n
    BY <1>1
  <2> QED
    BY <1>4, <2>1, <2>2
<1>6. CASE lo = hi
  <2>1. W = {}
    BY <1>1, <1>5, <1>6
  <2>2. SpanEvents(evs, span) = <<>>
    BY <2>1 DEF SpanEvents, W
  <2>3. <<>> \in Seq(Range(<<>>)) /\ Len(<<>>) = 0
    OBVIOUS
  <2>4. hi - lo = 0 /\ lo \in 0..hi
    BY <1>1, <1>6
  <2>5. hi \in 0..Len(evs)
    BY <1>1 DEF n
  <2>6. Part(SpanEvents(evs, span), evs, lo, hi)
    BY <2>2, <2>3, <2>4, <2>5 DEF Part
  <2> QED
    BY <2>6 DEF lo, hi, a, b
<1>7. CASE lo # hi
  <2> DEFINE p == SubSeq(evs, lo + 1, hi)
  <2>1. lo + 1 \in W /\ hi \in W /\ \A i \in W : lo + 1 <= i /\ i <= hi /\ i \in Int
    BY <1>1, <1>2, <1>5, <1>7
  <2>2. Min(W) = lo + 1 /\ Max(W) = hi
    <3>1. lo + 1 \in Int /\ hi \in Int
      BY <1>1
    <3>2. \A x \in W : lo + 1 <= x
      BY <2>1
    <3>3. \A x \in W : x >= lo + 1 /\ hi >= x
      BY <1>1, <2>1, <3>1
    <3>4. Min(W) = lo + 1
      <4>1. \E x \in W : \A y \in W : x <= y
        BY <2>1, <3>2, Zenon
      <4>2. Min(W) \in W /\ \A y \in W : Min(W) <= y
        BY <4>1 DEF Min
      <4> DEFINE x == Min(W)
      <4> HIDE DEF x
      <4>3. x \in Int /\ x <= lo + 1 /\ lo + 1 <= x
        BY <2>1, <4>2 DEF x
      <4> QED
        BY <3>1, <4>3 DEF x
    <3>5. Max(W) = hi
      <4>1. \E x \in W : \A y \in W : x >= y
        BY <2>1, <3>3, Zenon
      <4>2. Max(W) \in W /\ \A y \in W : Max(W) >= y
        BY <4>1 DEF Max
      <4> DEFINE x == Max(W)
      <4> HIDE DEF x
      <4>3. x \in Int /\ x >= hi /\ x <= hi
        BY <2>1, <4>2 DEF x
      <4> QED
        BY <3>1, <4>3 DEF x
    <3> QED
      BY <3>4, <3>5
  <2>3. SpanEvents(evs, span) = p
    BY <2>1, <2>2 DEF SpanEvents, W
  <2>4. /\ Len(p) = hi - lo
        /\ \A i \in 1..(hi - lo) : p[i] = evs[lo + i]
        /\ p \in Seq(Range(evs))
    <3>1. lo + 1 \in 1..n /\ hi \in 0..n /\ lo + 1 <= hi /\ (hi - (lo + 1)) + 1 = hi - lo /\ hi - lo \in Nat
      BY <1>1, <1>2, <1>7
    <3>2. p = [i \in 1..(hi - lo) |-> evs[i + (lo + 1) - 1]]
      BY <1>1, <3>1
    <3> HIDE DEF p
    <3>3. \A i \in 1..(hi - lo) : i + (lo + 1) - 1 = lo + i /\ lo + i \in 1..n
      BY <1>1
    <3>4. \A i \in 1..(hi - lo) : evs[lo + i] \in Range(evs)
      BY <1>1, <3>3 DEF Range
    <3>5. p = [i \in 1..(hi - lo) |-> evs[lo + i]]
      BY <3>2, <3>3
    <3>6. p \in Seq(Range(evs)) /\ Len(p) = hi - lo
      BY <3>1, <3>4, <3>5
    <3> QED
      BY <3>5, <3>6
  <2>5. hi - lo \in Nat /\ lo \in 0..hi /\ hi \in 0..Len(evs)
    BY <1>1, <1>2 DEF n
  <2> HIDE DEF p
  <2>6. p \in Seq(Range(p))
    <3>1. p = [i \in 1..(hi - lo) |-> p[i]]
      BY <2>4
    <3> QED
      BY <2>5, <3>1, Listed
  <2>7. Part(p, evs, lo, hi)
    BY <2>4, <2>5, <2>6 DEF Part
  <2> QED
    BY <2>3, <2>7 DEF lo, hi, a, b
<1> QED
  BY <1>6, <1>7

-----------------------------------------------------------------------------
(* Inventory and custody *)

(* Custody and known inventory are never less than nothing, inventory      *)
(* covers custody, and a genuine zero leaves nothing of either.            *)
Sound(s) ==
  /\ s.inventory \in Nat /\ s.custody \in Nat
  /\ ~s.unknown => s.custody <= s.inventory
  /\ s.zero => ~s.unknown /\ s.inventory = 0 /\ s.custody = 0

(* An event that does not fail keeps an account sound,                     *)
LEMMA FlowSound ==
  ASSUME NEW s, Sound(s), NEW e, IsEvent(e), NEW r, NEW z, Flows(s, r, e, z)
  PROVE  Sound(r)
<1>1. e.q \in Nat \ {0} /\ s.inventory \in Nat /\ s.custody \in Nat /\ (~s.unknown => s.custody <= s.inventory)
  BY DEF IsEvent, Sound
<1>2. CASE Enters(s, r, e)
  BY <1>1, <1>2 DEF Enters, Sound
<1>3. CASE Leaves(s, r, e)
  <2>1. /\ ~(s.custody < e.q) /\ r.inventory = s.inventory /\ r.custody = s.custody - e.q
        /\ ~r.zero
    BY <1>3 DEF Leaves
  <2>2. ~r.unknown => ~s.unknown
    BY <1>3, Zenon DEF Leaves
  <2>3. r.inventory \in Nat /\ r.custody \in Nat /\ r.custody <= s.custody
    BY <1>1, <2>1
  <2>4. ~r.unknown => r.custody <= r.inventory
    BY <1>1, <2>1, <2>2, <2>3
  <2> QED
    BY <2>1, <2>3, <2>4 DEF Sound
<1>4. CASE Rests(s, r, e)
  BY <1>1, <1>4 DEF Rests, Sound
<1>5. CASE Disposes(s, r, e, z)
  <2>1. /\ ~s.unknown => s.inventory >= e.q
        /\ s.custody >= e.q /\ r.custody = s.custody - e.q
    BY <1>1, <1>5 DEF Disposes
  <2>2. /\ s.unknown => r.inventory = s.inventory
        /\ ~s.unknown => r.inventory = s.inventory - e.q
        /\ r.unknown <=> s.unknown
        /\ r.zero => ~s.unknown /\ s.inventory = e.q
    BY <1>5 DEF Disposes
  <2>3. r.inventory \in Nat /\ r.custody \in Nat /\ (~r.unknown => r.custody <= r.inventory)
    BY <1>1, <2>1, <2>2
  <2>4. ASSUME r.zero PROVE ~r.unknown /\ r.inventory = 0 /\ r.custody = 0
    BY <1>1, <2>1, <2>2, <2>4
  <2> QED
    BY <2>3, <2>4 DEF Sound
<1> QED
  BY <1>2, <1>3, <1>4, <1>5 DEF Flows

(* and so is every state of a projection that does not fail.               *)
LEMMA CourseSound ==
  ASSUME NEW evs, AreEvents(evs), NEW op, op.units \in Nat, NEW s, Course(s, evs, op)
  PROVE  \A i \in 1..(Len(evs) + 1) : Sound(s[i])
<1> DEFINE n == Len(evs)
           S == {k \in 0..n : Sound(s[k + 1])}
<1>1. n \in Nat /\ \A i \in 1..n : IsEvent(evs[i]) /\ Flows(s[i], s[i + 1], evs[i], LastInventoryEvent(evs, i))
  BY DEF AreEvents, Course, Goes
<1>2. Sound(s[1])
  <2> DEFINE x == Opened(op)
  <2>1. s[1] = x /\ x.inventory = op.units /\ x.custody = op.units /\ ~x.unknown /\ ~x.zero
    BY OpenedIs DEF Course
  <2> HIDE DEF x
  <2> QED
    BY <2>1 DEF Sound
<1> HIDE DEF n
<1>3. 0 \in S
  BY <1>1, <1>2
<1>4. ASSUME NEW k \in 0..(n - 1), Sound(s[k + 1]) PROVE Sound(s[(k + 1) + 1])
  <2>1. k + 1 \in 1..n
    BY <1>1
  <2> QED
    BY <1>1, <1>4, <2>1, FlowSound
<1>5. \A k \in 0..n : k \in S
  <2>1. \A k \in 0..(n - 1) : k \in S => k + 1 \in S
    BY <1>1, <1>4
  <2> HIDE DEF S
  <2> QED
    BY <1>1, <1>3, <2>1, UpTo
<1>6. ASSUME NEW i \in 1..(n + 1) PROVE Sound(s[i])
  <2>1. i - 1 \in 0..n /\ (i - 1) + 1 = i
    BY <1>1
  <2>2. Sound(s[(i - 1) + 1])
    BY <1>5, <2>1
  <2> QED
    BY <2>1, <2>2
<1> QED
  BY <1>6 DEF n

(* Two accounts of the same inventory and custody.                         *)
Alike(p, s) == p.inventory = s.inventory /\ p.custody = s.custody /\ p.unknown = s.unknown

(* An event that does not fail does what its kind does.                    *)
LEMMA StepGoes ==
  ASSUME NEW s, IsAccount(s), s.failure = "none", NEW evs, NEW i, IsEvent(evs[i]), Failure(s, evs[i]) = "none"
  PROVE  Goes(s, Step(s, evs, i), evs, i)
<1> DEFINE u == [s EXCEPT !.zero = FALSE]
<1>1. /\ IsAccount(u) /\ u.zero = FALSE
      /\ \A f \in AccountFields : f # "zero" => u[f] = s[f]
  BY DEF IsAccount, AccountFields
<1>2. Step(s, evs, i) = Apply(u, evs, i)
  BY DEF Step
<1> HIDE DEF u
<1>3. u.inventory = s.inventory /\ u.custody = s.custody /\ u.unknown = s.unknown /\ u.failure = "none"
  BY <1>1 DEF AccountFields
<1>4. Failure(u, evs[i]) = "none"
  BY <1>3 DEF Failure
<1>5. Step(s, evs, i).failure = "none"
  BY <1>1, <1>2, <1>3, <1>4, ApplyGoes DEF Goes
<1> QED
  BY <1>5, StepIs

(* What one account survives the other survives, and they remain alike.    *)
LEMMA FlowsAlike ==
  ASSUME NEW p, NEW s, Alike(p, s), NEW e, NEW r, NEW z, Flows(s, r, e, z)
  PROVE  /\ Failure(p, e) = "none"
         /\ \A x : Flows(p, x, e, z) => Alike(x, r) /\ x.zero = r.zero
<1>1. Failure(s, e) = "none"
  BY DEF Flows, Failure, Enters, Disposes, Leaves, Rests
<1>2. Failure(p, e) = "none"
  BY <1>1 DEF Alike, Failure
<1>3. ASSUME NEW x, Flows(p, x, e, z)
      PROVE  Alike(x, r) /\ x.zero = r.zero
  <2>1. CASE e.kind \in {"ACQUISITION", "TRANSFER_IN"}
    <3>1. Enters(s, r, e) /\ Enters(p, x, e)
      BY <1>3, <2>1 DEF Flows, Disposes, Leaves, Rests
    <3> QED
      BY <3>1, Zenon DEF Enters, Alike
  <2>2. CASE e.kind = "DISPOSAL"
    <3>1. Disposes(s, r, e, z) /\ Disposes(p, x, e, z)
      BY <1>3, <2>2 DEF Flows, Enters, Leaves, Rests
    <3> QED
      BY <3>1, Zenon DEF Disposes, Alike
  <2>3. CASE e.kind = "TRANSFER_OUT"
    <3>1. Leaves(s, r, e) /\ Leaves(p, x, e)
      BY <1>3, <2>3 DEF Flows, Disposes, Enters, Rests
    <3> QED
      BY <3>1, Zenon DEF Leaves, Alike
  <2>4. CASE e.kind = "FEE"
    <3>1. Rests(s, r, e) /\ Rests(p, x, e)
      BY <1>3, <2>4 DEF Flows, Disposes, Leaves, Enters
    <3> QED
      BY <3>1, Zenon DEF Rests, Alike
  <2> QED
    BY <1>3, <2>1, <2>2, <2>3, <2>4 DEF Flows, Enters, Disposes, Leaves, Rests
<1> QED
  BY <1>2, <1>3

(* The last inventory event of a transaction is the last one of it in a    *)
(* part that ends with a transaction.                                      *)
LEMMA LastEventsAgree ==
  ASSUME NEW evs, NEW c, NEW m \in Nat, Canonical(evs, c, m), NEW b \in 0..m,
         NEW lo, NEW part, Part(part, evs, lo, c[b]), NEW k \in 1..(c[b] - lo)
  PROVE  LastInventoryEvent(part, k) <=> LastInventoryEvent(evs, lo + k)
<1> DEFINE hi == c[b]
           n == Len(evs)
           i == lo + k
<1>1. /\ n \in Nat /\ hi \in 0..n /\ lo \in 0..hi /\ DOMAIN evs = 1..n
      /\ DOMAIN part = 1..(hi - lo)
      /\ \A j \in 1..(hi - lo) : part[j] = evs[lo + j]
  BY DEF Canonical, Part
<1>2. \A j \in 1..n : evs[j].tx \in Int /\ (j <= hi <=> evs[j].tx <= b)
  <2> TAKE j \in 1..n
  <2>1. evs[j].tx \in 1..m /\ \A t \in 0..m : j <= c[t] <=> evs[j].tx <= t
    BY DEF Canonical
  <2>2. evs[j].tx \in Int
    BY <2>1
  <2> QED
    BY <2>1, <2>2, Zenon
<1> HIDE DEF hi, n, i
<1>3. k \in 1..(hi - lo) /\ i = lo + k /\ i \in 1..n /\ i <= hi /\ part[k] = evs[i]
  BY <1>1 DEF hi, i
<1>4. ASSUME LastInventoryEvent(evs, i), NEW j \in DOMAIN part, j > k, part[j].tx = part[k].tx
      PROVE  part[j].kind \notin InventoryKinds
  <2>1. j \in 1..(hi - lo) /\ part[j] = evs[lo + j] /\ lo + j \in 1..n /\ lo + j > i
    BY <1>1, <1>3, <1>4
  <2>2. evs[lo + j].tx = evs[i].tx
    BY <1>3, <1>4, <2>1
  <2> QED
    BY <1>1, <1>4, <2>1, <2>2 DEF LastInventoryEvent
<1>5. ASSUME LastInventoryEvent(part, k), NEW j \in DOMAIN evs, j > i, evs[j].tx = evs[i].tx
      PROVE  evs[j].kind \notin InventoryKinds
  <2>1. j \in 1..n /\ j <= hi
    BY <1>1, <1>2, <1>3, <1>5
  <2>2. j - lo \in 1..(hi - lo) /\ lo + (j - lo) = j /\ j - lo > k
    BY <1>1, <1>3, <1>5, <2>1
  <2>3. part[j - lo] = evs[j]
    BY <1>1, <2>2
  <2> QED
    BY <1>1, <1>3, <1>5, <2>2, <2>3 DEF LastInventoryEvent
<1>6. LastInventoryEvent(evs, i) => LastInventoryEvent(part, k)
  BY <1>4 DEF LastInventoryEvent
<1>7. LastInventoryEvent(part, k) => LastInventoryEvent(evs, i)
  BY <1>5 DEF LastInventoryEvent
<1> QED
  BY <1>6, <1>7 DEF i

(* It is said, yes or no.                                                  *)
LEMMA LastIsBoolean == \A evs, i : LastInventoryEvent(evs, i) \in BOOLEAN
BY DEF LastInventoryEvent

(* A part of the events that ends with a transaction, projected from an    *)
(* account like the one the whole projection has there, goes as it goes.   *)
Mirrors(p, s, lo, k) == Alike(p[k + 1], s[lo + k + 1]) /\ (k # 0 => p[k + 1].zero = s[lo + k + 1].zero)

LEMMA PartMirrors ==
  ASSUME NEW evs, NEW c, NEW m \in Nat, Canonical(evs, c, m), NEW b \in 0..m,
         NEW lo, NEW part, Part(part, evs, lo, c[b]),
         NEW op, NEW s, Course(s, evs, op),
         NEW start, NEW p, ProjectionOf(p, part, start), Alike(Opened(start), s[lo + 1])
  PROVE  /\ AreEvents(part) /\ Course(p, part, start)
         /\ \A k \in 0..(c[b] - lo) : Mirrors(p, s, lo, k)
<1> DEFINE hi == c[b]
           n == Len(evs)
           d == hi - lo
           Fine(k) == /\ IsAccount(p[k + 1]) /\ p[k + 1].failure = "none"
                      /\ Mirrors(p, s, lo, k)
           S == {k \in 0..d : Fine(k)}
<1>1. /\ n \in Nat /\ hi \in 0..n /\ lo \in 0..hi
      /\ Len(part) = d /\ d \in Nat
      /\ \A j \in 1..d : part[j] = evs[lo + j]
      /\ \A j \in 1..n : IsEvent(evs[j])
  BY DEF Canonical, Part
<1>2. \A j \in 1..n : Flows(s[j], s[j + 1], evs[j], LastInventoryEvent(evs, j))
  BY DEF Course, Goes
<1>3. p[1] = Opened(start) /\ \A j \in 1..d : p[j + 1] = Step(p[j], part, j)
  BY <1>1 DEF ProjectionOf, Prefix
<1>4. \A k \in 1..d : LastInventoryEvent(part, k) <=> LastInventoryEvent(evs, lo + k)
  BY LastEventsAgree
<1>5. ASSUME NEW j \in 1..d PROVE IsEvent(part[j]) /\ lo + j \in 1..n /\ part[j] = evs[lo + j]
  BY <1>1
<1> HIDE DEF d, hi, n
<1>6. Fine(0)
  <2>1. Mirrors(p, s, lo, 0)
    <3>1. 0 + 1 = 1 /\ lo + 0 + 1 = lo + 1
      BY <1>1
    <3>2. Alike(p[0 + 1], s[lo + 0 + 1])
      BY <1>3, <3>1
    <3> QED
      BY <3>2 DEF Mirrors
  <2>2. IsAccount(p[1]) /\ p[1].failure = "none"
    BY <1>3, OpenedIs, Zenon
  <2> QED
    BY <2>1, <2>2
<1>7. ASSUME NEW k \in 0..(d - 1), Fine(k)
      PROVE  Fine(k + 1) /\ Goes(p[k + 1], p[(k + 1) + 1], part, k + 1)
  <2> DEFINE j == k + 1
             i == lo + k + 1
             x == p[j]
             y == s[i]
             e == part[j]
             z == LastInventoryEvent(evs, i)
  <2>1. j \in 1..d /\ i \in 1..n /\ lo + j = i /\ lo + (k + 1) + 1 = i + 1 /\ k + 1 # 0
    <3>1. j \in 1..d /\ k + 1 # 0
      BY <1>1
    <3>2. lo + j = i /\ lo + (k + 1) + 1 = i + 1
      BY <1>1
    <3>3. lo + j \in 1..n
      BY <1>5, <3>1
    <3> HIDE DEF i, j
    <3> QED
      BY <3>1, <3>2, <3>3
  <2>2. IsEvent(e) /\ e = evs[i]
    BY <1>5, <2>1
  <2>3. IsAccount(x) /\ x.failure = "none" /\ Alike(x, y)
    BY <1>7 DEF Mirrors
  <2>4. Flows(y, s[i + 1], e, z)
    BY <1>2, <2>1, <2>2
  <2> DEFINE r == p[j + 1]
             w == s[i + 1]
             last == LastInventoryEvent(part, j)
  <2>5. r = Step(x, part, j)
    BY <1>3, <2>1
  <2>6. last = z
    BY <1>4, <2>1, LastIsBoolean
  <2> HIDE DEF x, y, e, z, i, j, r, w, last
  <2>7. Failure(x, part[j]) = "none"
    BY <2>3, <2>4, FlowsAlike DEF e, w
  <2>8. Goes(x, r, part, j)
    BY <2>2, <2>3, <2>5, <2>7, StepGoes DEF e
  <2>9. Flows(x, r, e, z)
    BY <2>6, <2>8 DEF Goes, e, last
  <2>10. Alike(r, w) /\ r.zero = w.zero
    BY <2>3, <2>4, <2>9, FlowsAlike DEF w
  <2>11. Mirrors(p, s, lo, k + 1)
    BY <2>1, <2>10 DEF Mirrors, r, w, j
  <2> QED
    BY <2>8, <2>11 DEF Goes, r, j, x
<1>8. ASSUME NEW k \in 0..d PROVE Fine(k)
  <2>1. 0 \in S
    BY <1>1, <1>6
  <2>2. \A l \in 0..(d - 1) : l \in S => l + 1 \in S
    BY <1>1, <1>7
  <2> HIDE DEF S
  <2>3. \A l \in 0..d : l \in S
    BY <1>1, <2>1, <2>2, UpTo
  <2>4. k \in S
    BY <2>3
  <2> QED
    BY <2>4 DEF S
<1>9. AreEvents(part)
  BY <1>1, <1>5 DEF AreEvents
<1>10. ASSUME NEW i \in 1..(d + 1) PROVE IsAccount(p[i]) /\ p[i].failure = "none"
  <2>1. i - 1 \in 0..d /\ (i - 1) + 1 = i
    BY <1>1
  <2>2. Fine(i - 1)
    BY <1>8, <2>1
  <2> QED
    BY <2>1, <2>2
<1>11. ASSUME NEW i \in 1..d PROVE Goes(p[i], p[i + 1], part, i)
  <2>1. i - 1 \in 0..(d - 1) /\ (i - 1) + 1 = i /\ i - 1 \in 0..d
    BY <1>1
  <2>2. Fine(i - 1)
    BY <1>8, <2>1
  <2>3. Goes(p[(i - 1) + 1], p[((i - 1) + 1) + 1], part, (i - 1) + 1)
    BY <1>7, <2>1, <2>2
  <2> QED
    BY <2>1, <2>3
<1>12. Course(p, part, start)
  BY <1>1, <1>10, <1>11 DEF Course, ProjectionOf, Prefix
<1> QED
  BY <1>8, <1>9, <1>12 DEF d, hi

-----------------------------------------------------------------------------
(* The spans *)

(* The projection of a whole ledger, as the scan reads it.                 *)
Ledgered(full, evs, s) ==
  /\ full.events = evs /\ full.custody = s[Len(evs) + 1].custody
  /\ \A i \in 1..Len(evs) : full.after[i] = s[i + 1]

(* Nothing is held, and that is known.                                     *)
Flat(s) == ~s.unknown /\ s.inventory = 0 /\ s.custody = 0

(* From nothing, an event leads to nothing or to an established inventory. *)
LEMMA FlowFlat ==
  ASSUME NEW s, Flat(s), NEW e, IsEvent(e), NEW r, NEW z, Flows(s, r, e, z)
  PROVE  ~Flat(r) => ~r.unknown /\ r.inventory > 0
<1>1. e.q \in Nat \ {0} /\ s.inventory = 0 /\ s.custody = 0 /\ ~s.unknown
  BY DEF IsEvent, Flat
<1>2. CASE Enters(s, r, e)
  <2>1. r.inventory > 0
    BY <1>1, <1>2 DEF Enters
  <2>2. ~r.unknown
    BY <1>1, <1>2, Zenon DEF Enters
  <2> QED
    BY <2>1, <2>2
<1>3. CASE Leaves(s, r, e)
  BY <1>1, <1>3 DEF Leaves
<1>4. CASE Rests(s, r, e)
  BY <1>1, <1>4, Zenon DEF Rests, Flat
<1>5. CASE Disposes(s, r, e, z)
  BY <1>1, <1>5 DEF Disposes
<1> QED
  BY <1>2, <1>3, <1>4, <1>5 DEF Flows

(* A transaction that establishes nothing leaves nothing.                  *)
LEMMA QuietFlat ==
  ASSUME NEW evs, NEW c, NEW m \in Nat, Canonical(evs, c, m), NEW op, NEW s, Course(s, evs, op),
         NEW full, Ledgered(full, evs, s), NEW t \in 1..m, Flat(s[c[t - 1] + 1]),
         ~EstablishesInventory(full, t)
  PROVE  Flat(s[c[t] + 1])
<1> DEFINE n == Len(evs)
           lo == c[t - 1]
           hi == c[t]
           d == hi - lo
           S == {k \in 0..d : Flat(s[lo + k + 1])}
<1>1. /\ n \in Nat /\ lo \in 0..n /\ hi \in 0..n /\ lo <= hi /\ DOMAIN full.events = 1..n
      /\ \A j \in 1..n : /\ IsEvent(evs[j]) /\ Flows(s[j], s[j + 1], evs[j], LastInventoryEvent(evs, j))
                         /\ full.events[j] = evs[j] /\ full.after[j] = s[j + 1]
  <2>1. t - 1 \in 0..m /\ t \in 0..m /\ t - 1 <= t
    OBVIOUS
  <2>2. lo <= hi
    BY <2>1, CutsGrow
  <2>3. n \in Nat /\ lo \in 0..n /\ hi \in 0..n /\ DOMAIN full.events = 1..n
    BY <2>1 DEF Canonical, Ledgered
  <2>4. \A j \in 1..n : IsEvent(evs[j])
    BY DEF Canonical
  <2>5. \A j \in 1..n : Flows(s[j], s[j + 1], evs[j], LastInventoryEvent(evs, j))
    BY DEF Course, Goes
  <2>6. \A j \in 1..n : full.events[j] = evs[j] /\ full.after[j] = s[j + 1]
    BY DEF Ledgered
  <2> QED
    BY <2>2, <2>3, <2>4, <2>5, <2>6
<1>2. \A j \in 1..n : lo < j /\ j <= hi => evs[j].tx = t
  <2> TAKE j \in 1..n
  <2>1. evs[j].tx \in 1..m /\ \A u \in 0..m : j <= c[u] <=> evs[j].tx <= u
    BY DEF Canonical
  <2>2. t - 1 \in 0..m /\ t \in 0..m
    OBVIOUS
  <2> HIDE DEF n
  <2>3. (j <= lo <=> evs[j].tx <= t - 1) /\ (j <= hi <=> evs[j].tx <= t)
    BY <2>1, <2>2, Zenon
  <2> QED
    BY <1>1, <2>1, <2>3
<1> HIDE DEF n, lo, hi
<1>3. 0 \in S
  <2>1. Flat(s[lo + 0 + 1]) /\ d \in Nat
    BY <1>1 DEF lo
  <2> QED
    BY <2>1
<1>4. ASSUME NEW k \in 0..(d - 1), Flat(s[lo + k + 1]) PROVE Flat(s[lo + (k + 1) + 1])
  <2> DEFINE j == lo + k + 1
  <2>1. j \in 1..n /\ lo < j /\ j <= hi /\ lo + (k + 1) + 1 = j + 1
    BY <1>1
  <2>2. evs[j].tx = t
    BY <1>2, <2>1
  <2> HIDE DEF j
  <2>3. ~(~s[j + 1].unknown /\ s[j + 1].inventory > 0)
    BY <1>1, <2>1, <2>2 DEF EstablishesInventory
  <2>4. Flat(s[j])
    BY <1>4 DEF j
  <2>5. Flat(s[j + 1])
    BY <1>1, <2>1, <2>3, <2>4, FlowFlat
  <2> QED
    BY <2>1, <2>5
<1>5. d \in S
  <2>1. d \in Nat /\ d \in 0..d
    BY <1>1
  <2>2. \A k \in 0..(d - 1) : k \in S => k + 1 \in S
    BY <1>4, <2>1
  <2> HIDE DEF S, d
  <2> QED
    BY <1>3, <2>1, <2>2, UpTo
<1>6. lo + d + 1 = hi + 1
  BY <1>1
<1> QED
  BY <1>5, <1>6 DEF hi

(* A transaction with a genuine zero leaves nothing.                       *)
LEMMA ZeroFlat ==
  ASSUME NEW evs, NEW c, NEW m \in Nat, Canonical(evs, c, m), NEW op, op.units \in Nat, NEW s, Course(s, evs, op),
         NEW full, Ledgered(full, evs, s), NEW t \in 1..m, t \in Zeros(full)
  PROVE  Flat(s[c[t] + 1])
<1> DEFINE n == Len(evs)
           hi == c[t]
<1>1. /\ n \in Nat /\ hi \in 0..n /\ DOMAIN full.events = 1..n
      /\ \A j \in 1..n : /\ IsEvent(evs[j]) /\ Flows(s[j], s[j + 1], evs[j], LastInventoryEvent(evs, j))
                         /\ full.events[j] = evs[j] /\ full.after[j] = s[j + 1]
  <2>1. t \in 0..m
    OBVIOUS
  <2> QED
    BY <2>1 DEF Canonical, Course, Goes, Ledgered
<1>2. \A j \in 1..n : evs[j].tx \in Int /\ (j <= hi <=> evs[j].tx <= t)
                      /\ \A l \in 1..n : l <= j => evs[l].tx <= evs[j].tx
  <2> TAKE j \in 1..n
  <2>1. evs[j].tx \in 1..m /\ \A u \in 0..m : j <= c[u] <=> evs[j].tx <= u
    BY DEF Canonical
  <2>2. t \in 0..m /\ evs[j].tx \in 0..m /\ evs[j].tx \in Int
    BY <2>1
  <2>3. \A l \in 1..n : \A u \in 0..m : l <= c[u] <=> evs[l].tx <= u
    BY DEF Canonical
  <2>4. c[evs[j].tx] \in 0..n
    BY <2>2 DEF Canonical
  <2> HIDE DEF n
  <2>5. j <= hi <=> evs[j].tx <= t
    BY <2>1, <2>2, Zenon
  <2>6. j <= c[evs[j].tx]
    <3>1. evs[j].tx <= evs[j].tx
      BY <2>2
    <3> QED
      BY <2>1, <2>2, <3>1, Zenon
  <2>7. ASSUME NEW l \in 1..n, l <= j PROVE evs[l].tx <= evs[j].tx
    <3>1. l <= c[evs[j].tx]
      BY <1>1, <2>4, <2>6, <2>7
    <3> QED
      BY <2>2, <2>3, <3>1, Zenon
  <2> QED
    BY <2>2, <2>5, <2>7
<1>3. PICK i \in 1..n : evs[i].tx = t /\ s[i + 1].zero
  BY <1>1 DEF Zeros
<1> HIDE DEF n, hi
<1> DEFINE d == hi - i
           S == {k \in 0..d : Flat(s[i + k + 1])}
<1>4. i <= hi /\ d \in Nat
  BY <1>1, <1>2, <1>3
<1>5. Flat(s[i + 1]) /\ LastInventoryEvent(evs, i)
  <2>1. Sound(s[i + 1])
    <3>1. AreEvents(evs)
      BY DEF Canonical, AreEvents
    <3>2. i + 1 \in 1..(Len(evs) + 1)
      BY <1>1 DEF n
    <3> QED
      BY <3>1, <3>2, CourseSound
  <2>2. Flows(s[i], s[i + 1], evs[i], LastInventoryEvent(evs, i))
    BY <1>1
  <2>3. LastInventoryEvent(evs, i)
    BY <1>3, <2>2, Zenon DEF Flows, Enters, Leaves, Rests, Disposes
  <2> QED
    BY <1>3, <2>1, <2>3 DEF Sound, Flat
<1>6. 0 \in S
  BY <1>4, <1>5
<1>7. ASSUME NEW k \in 0..(d - 1), Flat(s[i + k + 1]) PROVE Flat(s[i + (k + 1) + 1])
  <2> DEFINE j == i + k + 1
  <2>1. j \in 1..n /\ i < j /\ j <= hi /\ i + (k + 1) + 1 = j + 1
    BY <1>1, <1>4
  <2> HIDE DEF j
  <2>2. evs[j].tx = evs[i].tx
    BY <1>2, <1>3, <2>1
  <2>3. evs[j].kind \notin InventoryKinds
    <3>1. j \in DOMAIN evs /\ j > i
      BY <1>1, <2>1 DEF Ledgered
    <3> QED
      BY <1>5, <2>2, <3>1 DEF LastInventoryEvent
  <2>4. Flows(s[j], s[j + 1], evs[j], LastInventoryEvent(evs, j))
    BY <1>1, <2>1
  <2>5. Rests(s[j], s[j + 1], evs[j])
    BY <2>3, <2>4 DEF Flows, Enters, Leaves, Disposes, InventoryKinds, Trades
  <2>6. Flat(s[j])
    BY <1>7 DEF j
  <2>7. Flat(s[j + 1])
    BY <2>5, <2>6, Zenon DEF Rests, Flat
  <2> QED
    BY <2>1, <2>7
<1>8. d \in S
  <2>1. d \in 0..d
    BY <1>4
  <2>2. \A k \in 0..(d - 1) : k \in S => k + 1 \in S
    BY <1>4, <1>7
  <2> HIDE DEF S, d
  <2> QED
    BY <1>4, <1>6, <2>1, <2>2, UpTo
<1>9. i + d + 1 = hi + 1
  BY <1>1, <1>4
<1> QED
  BY <1>8, <1>9 DEF hi

(* An append leaves a sequence a sequence, with one more place.            *)
LEMMA OneMorePlace ==
  ASSUME NEW s, s \in Seq(Range(s)), NEW x
  PROVE  /\ Append(s, x) \in Seq(Range(Append(s, x)))
         /\ \A k \in DOMAIN Append(s, x) : Append(s, x)[k] = x \/ (k \in DOMAIN s /\ Append(s, x)[k] = s[k])
<1> DEFINE S == Range(s) \cup {x}
           z == Append(s, x)
<1>1. s \in Seq(S) /\ x \in S
  OBVIOUS
<1> HIDE DEF S
<1>2. /\ z \in Seq(S) /\ Len(z) \in Nat /\ DOMAIN z = 1..Len(z)
      /\ Len(s) \in Nat /\ DOMAIN s = 1..Len(s) /\ Len(z) = Len(s) + 1
      /\ z[Len(s) + 1] = x /\ \A k \in 1..Len(s) : z[k] = s[k]
  BY <1>1, AppendProperties
<1> HIDE DEF z
<1>3. z = [k \in 1..Len(z) |-> z[k]]
  BY <1>2
<1>4. z \in Seq(Range(z))
  BY <1>2, <1>3, Listed
<1>5. \A k \in DOMAIN z : z[k] = x \/ (k \in DOMAIN s /\ z[k] = s[k])
  BY <1>2
<1> QED
  BY <1>4, <1>5 DEF z

(* Where a span starts that does not open the scope, and where one closed, *)
(* nothing was held.                                                       *)
StartsFlat(x, c, s) == x.scope = (x.start = 1) /\ (x.start # 1 => Flat(s[c[x.start - 1] + 1]))
(* A span the scan may report of a window of m transactions,               *)
SpanOk(x, c, s, m) ==
  /\ x.end \in 0..m /\ x.start \in 1..(x.end + 1) /\ StartsFlat(x, c, s)
  /\ IF x.closed THEN Flat(s[c[x.end] + 1]) ELSE x.end = m
(* and the scan after t of them.                                           *)
OpenSpan == {"start", "scope", "exact", "unresolved"}
ScanOk(w, t, c, s, m) ==
  /\ DOMAIN w = {"open", "spans", "lastZero"} /\ DOMAIN w.open = OpenSpan
  /\ w.spans \in Seq(Range(w.spans)) /\ \A k \in DOMAIN w.spans : SpanOk(w.spans[k], c, s, m)
  /\ IF w.open.start = 0 THEN Flat(s[c[t] + 1])
     ELSE w.open.start \in 1..(t + 1) /\ StartsFlat(w.open, c, s)

(* A span opens at the first transaction that establishes an inventory.    *)
LEMMA SpanAtIs ==
  ASSUME NEW w, DOMAIN w.open = OpenSpan, NEW t, NEW row, NEW full
  PROVE  LET o == SpanAt(w, t, row, full) IN
         /\ DOMAIN o = OpenSpan
         /\ w.open.start = 0 /\ EstablishesInventory(full, t) => o.start = t /\ o.scope = (t = 1)
         /\ ~(w.open.start = 0 /\ EstablishesInventory(full, t)) => o.start = w.open.start /\ o.scope = w.open.scope
<1> DEFINE o == SpanAt(w, t, row, full)
           x == OpenAt(t, w.lastZero)
<1>1. DOMAIN x = OpenSpan /\ x.start = t /\ x.scope = (t = 1)
  BY DEF OpenAt, OpenSpan
<1> HIDE DEF x
<1>2. CASE w.open.start = 0 /\ EstablishesInventory(full, t)
  <2>1. o = [x EXCEPT !.unresolved = @ \/ Unresolved(row)]
    BY <1>2 DEF SpanAt, x
  <2>2. DOMAIN o = OpenSpan /\ o.start = x.start /\ o.scope = x.scope
    BY <1>1, <2>1 DEF OpenSpan
  <2> QED
    BY <1>1, <1>2, <2>2, Zenon
<1>3. CASE ~(w.open.start = 0 /\ EstablishesInventory(full, t))
  <2>1. o = [w.open EXCEPT !.unresolved = @ \/ Unresolved(row)]
    BY <1>3 DEF SpanAt
  <2>2. DOMAIN o = OpenSpan /\ o.start = w.open.start /\ o.scope = w.open.scope
    BY <2>1 DEF OpenSpan
  <2> QED
    BY <1>3, <2>2, Zenon
<1> QED
  BY <1>2, <1>3

(* One transaction more.                                                   *)
LEMMA ReachOk ==
  ASSUME NEW evs, NEW c, NEW m \in Nat, Canonical(evs, c, m), NEW op, op.units \in Nat, NEW s, Course(s, evs, op),
         NEW full, Ledgered(full, evs, s), NEW t \in 1..m, NEW row, NEW w, ScanOk(w, t - 1, c, s, m)
  PROVE  ScanOk(Reach(w, t, row, full), t, c, s, m)
<1> DEFINE o == SpanAt(w, t, row, full)
           r == Reach(w, t, row, full)
<1>1. /\ DOMAIN o = OpenSpan
      /\ w.open.start = 0 /\ EstablishesInventory(full, t) => o.start = t /\ o.scope = (t = 1)
      /\ ~(w.open.start = 0 /\ EstablishesInventory(full, t)) => o.start = w.open.start /\ o.scope = w.open.scope
  BY SpanAtIs DEF ScanOk
<1>2. r = Visit(w, o, t, full)
  BY DEF Reach
<1> SUFFICES ScanOk(r, t, c, s, m)
  OBVIOUS
<1> HIDE DEF o, r
<1>3. o.start # 0 => o.start \in 1..t /\ StartsFlat(o, c, s)
  <2>1. CASE w.open.start = 0 /\ EstablishesInventory(full, t)
    <3>1. Flat(s[c[t - 1] + 1]) /\ o.start = t /\ o.scope = (t = 1)
      BY <1>1, <2>1, Zenon DEF ScanOk
    <3>2. o.start \in 1..t
      BY <3>1
    <3> QED
      BY <3>1, <3>2, Zenon DEF StartsFlat
  <2>2. CASE ~(w.open.start = 0 /\ EstablishesInventory(full, t))
    <3>1. o.start = w.open.start /\ o.scope = w.open.scope
      BY <1>1, <2>2, Zenon
    <3>2. ASSUME o.start # 0 PROVE o.start \in 1..((t - 1) + 1) /\ StartsFlat(w.open, c, s)
      BY <3>1, <3>2, Zenon DEF ScanOk
    <3>3. (t - 1) + 1 = t
      OBVIOUS
    <3> QED
      BY <3>1, <3>2, <3>3, Zenon DEF StartsFlat
  <2> QED
    BY <2>1, <2>2
<1>4. CASE o.start = 0
  <2>1. r = w
    BY <1>2, <1>4 DEF Visit
  <2>2. w.open.start = 0 /\ ~EstablishesInventory(full, t)
    <3>1. t # 0
      OBVIOUS
    <3> QED
      BY <1>1, <1>4, <3>1, Zenon
  <2>3. Flat(s[c[t] + 1])
    <3>1. Flat(s[c[t - 1] + 1])
      BY <2>2 DEF ScanOk
    <3> QED
      BY <2>2, <3>1, QuietFlat
  <2> QED
    BY <2>1, <2>2, <2>3, Zenon DEF ScanOk
<1>5. CASE o.start # 0 /\ t \in Zeros(full)
  <2> DEFINE x == Ended(o, t, TRUE)
             z == Append(w.spans, x)
  <2>1. x.start = o.start /\ x.scope = o.scope /\ x.end = t /\ x.closed
    BY DEF Ended
  <2> HIDE DEF x
  <2>2. Flat(s[c[t] + 1])
    BY <1>5, ZeroFlat
  <2>3. SpanOk(x, c, s, m)
    <3>1. t \in 0..m /\ o.start \in 1..(t + 1)
      BY <1>3, <1>5
    <3>2. StartsFlat(x, c, s)
      BY <1>3, <1>5, <2>1, Zenon DEF StartsFlat
    <3> QED
      BY <2>1, <2>2, <3>1, <3>2, Zenon DEF SpanOk
  <2>4. z \in Seq(Range(z)) /\ \A k \in DOMAIN z : z[k] = x \/ (k \in DOMAIN w.spans /\ z[k] = w.spans[k])
    BY OneMorePlace DEF ScanOk
  <2>5. r = [open |-> Dormant, spans |-> z, lastZero |-> IF o.unresolved THEN 0 ELSE t]
    BY <1>2, <1>5 DEF Visit, x
  <2> HIDE DEF z
  <2>6. DOMAIN r = {"open", "spans", "lastZero"} /\ r.spans = z /\ r.open = Dormant
    BY <2>5
  <2>7. DOMAIN r.open = OpenSpan /\ r.open.start = 0
    BY <2>6 DEF Dormant, OpenSpan
  <2>8. \A k \in DOMAIN z : SpanOk(z[k], c, s, m)
    BY <2>3, <2>4, Zenon DEF ScanOk
  <2> QED
    BY <2>2, <2>4, <2>6, <2>7, <2>8, Zenon DEF ScanOk
<1>6. CASE o.start # 0 /\ t \notin Zeros(full)
  <2>1. r = [w EXCEPT !.open = o]
    BY <1>2, <1>6 DEF Visit
  <2>2. DOMAIN w = {"open", "spans", "lastZero"}
    BY DEF ScanOk
  <2>3. DOMAIN r = {"open", "spans", "lastZero"} /\ r.spans = w.spans /\ r.open = o
    BY <2>1, <2>2
  <2>4. o.start \in 1..(t + 1)
    BY <1>3, <1>6
  <2> QED
    BY <1>1, <1>3, <1>6, <2>3, <2>4, Zenon DEF ScanOk
<1> QED
  BY <1>4, <1>5, <1>6

(* Every span the scan reports starts from nothing, unless it opens the    *)
(* scope, and ends with nothing, unless it is still open.                  *)
LEMMA SpansOk ==
  ASSUME NEW rs, Len(rs) \in Nat, NEW op, op.units \in Nat, NEW evs, NEW c, Canonical(evs, c, Len(rs)),
         NEW s, Course(s, evs, op), NEW full, Ledgered(full, evs, s)
  PROVE  \A k \in DOMAIN Spans(Scan(rs, op, full), Len(rs)) :
            SpanOk(Spans(Scan(rs, op, full), Len(rs))[k], c, s, Len(rs))
<1> DEFINE n == Len(rs)
           first == IF op.units > 0 THEN [Dormant EXCEPT !.start = 1, !.scope = TRUE] ELSE Dormant
           base == [open |-> first, spans |-> <<>>, lastZero |-> 0]
           v == CHOOSE f : Steps(f, n, first, rs, full)
           S == {k \in 0..n : ScanOk(v[k], k, c, s, n)}
<1>1. n \in Nat
  OBVIOUS
<1>2. Scan(rs, op, full) = v[n]
  BY DEF Scan, Steps
<1>3. ScanOk(base, 0, c, s, n)
  <2>1. /\ DOMAIN base = {"open", "spans", "lastZero"} /\ base.open = first /\ base.spans = <<>>
        /\ base.spans \in Seq(Range(base.spans)) /\ DOMAIN base.spans = {}
    BY DEF Range
  <2>2. CASE op.units > 0
    <3>1. DOMAIN first = OpenSpan /\ first.start = 1 /\ first.scope = TRUE
      BY <2>2 DEF Dormant, OpenSpan
    <3>2. first.start \in 1..(0 + 1) /\ first.start # 0
      BY <3>1
    <3>3. StartsFlat(first, c, s)
      BY <3>1, Zenon DEF StartsFlat
    <3> HIDE DEF first, base
    <3> QED
      BY <2>1, <3>1, <3>2, <3>3, Zenon DEF ScanOk
  <2>3. CASE ~(op.units > 0)
    <3>1. DOMAIN first = OpenSpan /\ first.start = 0
      BY <2>3 DEF Dormant, OpenSpan
    <3>2. op.units = 0
      BY <2>3
    <3>3. c[0] = 0
      BY <1>1, CutsStart DEF n
    <3>4. Flat(s[c[0] + 1])
      <4> DEFINE x == Opened(op)
      <4>1. x.inventory = op.units /\ x.custody = op.units /\ ~x.unknown
        BY OpenedIs, Zenon
      <4>2. s[1] = x
        BY DEF Course
      <4> HIDE DEF x
      <4>3. Flat(x)
        BY <3>2, <4>1 DEF Flat
      <4> QED
        BY <3>3, <4>2, <4>3
    <3> HIDE DEF first, base
    <3> QED
      BY <2>1, <3>1, <3>4, Zenon DEF ScanOk
  <2> QED
    BY <2>2, <2>3
<1> HIDE DEF n, first
<1>4. Steps(v, n, first, rs, full)
  BY <1>1, ScanExists
<1> HIDE DEF v
<1>5. \A t \in 0..n : v[t] = IF t = 0 THEN base ELSE Reach(v[t - 1], t, rs[t], full)
  BY <1>4 DEF Steps
<1> HIDE DEF base
<1>6. 0 \in S
  <2>1. 0 \in 0..n
    BY <1>1
  <2>2. v[0] = base
    BY <1>5, <2>1
  <2> QED
    BY <1>3, <2>1, <2>2
<1>7. ASSUME NEW k \in 0..(n - 1), ScanOk(v[k], k, c, s, n)
      PROVE  ScanOk(v[k + 1], k + 1, c, s, n)
  <2>1. k + 1 \in 0..n /\ k + 1 \in 1..n /\ k + 1 # 0 /\ (k + 1) - 1 = k
    BY <1>1
  <2>2. v[k + 1] = Reach(v[k], k + 1, rs[k + 1], full)
    BY <1>5, <2>1
  <2>3. Canonical(evs, c, n)
    BY DEF n
  <2>4. ScanOk(v[k], (k + 1) - 1, c, s, n)
    BY <1>7, <2>1
  <2>5. ScanOk(Reach(v[k], k + 1, rs[k + 1], full), k + 1, c, s, n)
    BY <1>1, <2>1, <2>3, <2>4, ReachOk
  <2> QED
    BY <2>2, <2>5
<1>8. ScanOk(v[n], n, c, s, n)
  <2>1. n \in 0..n
    BY <1>1
  <2>2. \A k \in 0..(n - 1) : k \in S => k + 1 \in S
    BY <1>1, <1>7
  <2> HIDE DEF S
  <2>3. n \in S
    BY <1>1, <1>6, <2>1, <2>2, UpTo
  <2> QED
    BY <2>3 DEF S
<1> DEFINE w == v[n]
           sp == Spans(w, n)
<1> HIDE DEF w
<1>9. \A k \in DOMAIN sp : SpanOk(sp[k], c, s, n)
  <2>1. CASE w.open.start = 0
    BY <1>8, <2>1 DEF Spans, ScanOk, w
  <2>2. CASE w.open.start # 0
    <3> DEFINE x == Ended(w.open, n, FALSE)
               z == Append(w.spans, x)
    <3>1. sp = z
      BY <2>2 DEF Spans
    <3>2. x.start = w.open.start /\ x.scope = w.open.scope /\ x.end = n /\ x.closed = FALSE
      BY DEF Ended
    <3> HIDE DEF x
    <3>3. n \in 0..n
      BY <1>1
    <3>4. SpanOk(x, c, s, n)
      BY <1>8, <2>2, <3>2, <3>3, Zenon DEF SpanOk, ScanOk, StartsFlat, w
    <3>5. \A k \in DOMAIN z : z[k] = x \/ (k \in DOMAIN w.spans /\ z[k] = w.spans[k])
      BY <1>8, OneMorePlace DEF ScanOk, w
    <3> HIDE DEF z
    <3> QED
      BY <1>8, <3>1, <3>4, <3>5, Zenon DEF ScanOk, w
  <2> QED
    BY <2>1, <2>2
<1> QED
  BY <1>2, <1>9 DEF n, w

-----------------------------------------------------------------------------
(* The episodes *)

(* The last state, and the states after the first.                         *)
LEMMA LastOf ==
  ASSUME NEW s, s \in Seq(Range(s)), NEW n \in Nat, Len(s) = n + 1
  PROVE  /\ Last(s) = s[n + 1]
         /\ \A i \in 1..n : Tail(s)[i] = s[i + 1]
<1>1. Last(s) = s[n + 1]
  BY DEF Last
<1>2. s # <<>>
  OBVIOUS
<1>3. \A i \in 1..(Len(s) - 1) : Tail(s)[i] = s[i + 1]
  BY <1>2, HeadTailProperties
<1>4. Len(s) - 1 = n
  OBVIOUS
<1> QED
  BY <1>1, <1>3, <1>4

(* What is built of the states of a projection.                            *)
LEMMA BuiltIs ==
  ASSUME NEW evs, NEW n \in Nat, Len(evs) = n, NEW op, NEW boundary, NEW ending,
         NEW s, ProjectionOf(s, evs, op)
  PROVE  LET ep == BuiltFrom(evs, op, boundary, ending, s)
             last == s[n + 1] IN
         /\ ep.events = evs /\ \A i \in 1..n : ep.after[i] = s[i + 1]
         /\ ep.custody = last.custody
         /\ ep.failure = IF last.failure # "none" THEN last.failure
                         ELSE IF last.custody # ending THEN "ending_inventory_mismatch" ELSE "none"
         /\ ep.values = Values(last, op, SharedQuoteFee(evs))
         /\ ep.dependencies = Dependencies(evs, op, last)
         /\ ep.state = "CLOSED" => ~last.unknown /\ last.inventory = 0
<1> DEFINE ep == BuiltFrom(evs, op, boundary, ending, s)
           last == s[n + 1]
<1>1. /\ Last(s) = last /\ \A i \in 1..n : Tail(s)[i] = s[i + 1]
  BY LastOf DEF ProjectionOf, Prefix
<1>2. ep = Built(evs, op, boundary, ending, Tail(s), last)
  BY <1>1 DEF BuiltFrom
<1> HIDE DEF ep, last
<1>3. /\ ep.events = evs /\ ep.after = Tail(s) /\ ep.custody = last.custody
      /\ ep.failure = IF last.failure # "none" THEN last.failure
                         ELSE IF last.custody # ending THEN "ending_inventory_mismatch" ELSE "none"
      /\ ep.values = Values(last, op, SharedQuoteFee(evs)) /\ ep.dependencies = Dependencies(evs, op, last)
  BY <1>2 DEF Built
<1>4. ep.state = CASE last.unknown -> "NONE"
                 [] Closed(last) -> "CLOSED"
                 [] OTHER -> IF last.disposed THEN "OPEN_REALIZED_PARTIAL" ELSE "OPEN"
  BY <1>2 DEF Built
<1>5. ep.state = "CLOSED" => Closed(last)
  <2>1. CASE last.unknown /\ ~Closed(last)
    BY <1>4, <2>1
  <2>2. CASE ~last.unknown /\ ~Closed(last)
    BY <1>4, <2>2
  <2> QED
    BY <2>1, <2>2
<1> QED
  BY <1>1, <1>3, <1>5 DEF ep, last, Closed

(* The projection of a whole ledger that did not fail.                     *)
LEMMA WholeIs ==
  ASSUME NEW rs, AreRows(rs), NEW op, Last(Projection(CanonicalEvents(rs), op)).failure = "none"
  PROVE  /\ Len(rs) \in Nat
         /\ \E c, s : /\ Canonical(CanonicalEvents(rs), c, Len(rs))
                      /\ Course(s, CanonicalEvents(rs), op)
                      /\ Ledgered(WholeLedger(rs, op), CanonicalEvents(rs), s)
<1> DEFINE evs == CanonicalEvents(rs)
           n == Len(evs)
           s == Projection(evs, op)
           full == WholeLedger(rs, op)
<1>1. Len(rs) \in Nat
  BY DEF AreRows
<1>2. PICK c : Canonical(evs, c, Len(rs))
  BY CanonicalIs
<1>3. full = Snapshot(evs, op, s)
  BY DEF WholeLedger, Projected
<1>4. Last(s).failure = "none"
  OBVIOUS
<1> HIDE DEF evs, s, full
<1>5. n \in Nat /\ AreEvents(evs)
  BY <1>2 DEF Canonical, AreEvents
<1>6. ProjectionOf(s, evs, op)
  BY <1>5, ProjectionIs DEF s
<1>7. Last(s) = s[n + 1]
  BY <1>5, <1>6, LastOf DEF ProjectionOf, Prefix
<1>8. Course(s, evs, op)
  BY <1>4, <1>5, <1>6, <1>7, CourseIs
<1>9. Ledgered(full, evs, s)
  <2> DEFINE boundary == [scope |-> TRUE, start |-> 0, exact |-> op.units = 0]
  <2>1. full = BuiltFrom(evs, op, boundary, Last(s).custody, s)
    BY <1>3 DEF Snapshot
  <2> HIDE DEF boundary, n
  <2>2. n = Len(evs)
    BY DEF n
  <2>3. full.events = evs /\ full.custody = s[n + 1].custody /\ \A i \in 1..n : full.after[i] = s[i + 1]
    BY <1>5, <1>6, <2>1, <2>2, BuiltIs
  <2> QED
    BY <2>2, <2>3 DEF Ledgered
<1> QED
  BY <1>1, <1>2, <1>8, <1>9 DEF evs, full

(* An episode, of the course of its events from its opening.               *)
EpisodeOf(ep, p, op) ==
  /\ ep.events \in Seq(Range(ep.events)) /\ AreEvents(ep.events)
  /\ Course(p, ep.events, op) /\ ep.failure = "none"
  /\ \A i \in 1..Len(ep.events) : ep.after[i] = p[i + 1]
  /\ ep.values = Values(p[Len(ep.events) + 1], op, SharedQuoteFee(ep.events))
  /\ ep.dependencies = Dependencies(ep.events, op, p[Len(ep.events) + 1])
  /\ ep.state = "CLOSED" => ~p[Len(ep.events) + 1].unknown /\ p[Len(ep.events) + 1].inventory = 0

(* An event of a part is that event of the whole.                          *)
LEMMA PartsMeet ==
  ASSUME NEW evs, NEW c, NEW m \in Nat, Canonical(evs, c, m), NEW lo, NEW hi, NEW part, Part(part, evs, lo, hi),
         NEW i \in 1..(hi - lo), NEW j \in 1..Len(evs), part[i] = evs[j]
  PROVE  j = lo + i
<1> DEFINE n == Len(evs)
<1>1. n \in Nat /\ hi \in 0..n /\ lo \in 0..hi /\ part[i] = evs[lo + i]
  BY DEF Part, Canonical
<1> HIDE DEF n
<1>2. lo + i \in 1..n
  BY <1>1
<1>3. \A k \in 1..n : evs[k].at = k - c[evs[k].tx - 1] /\ c[evs[k].tx - 1] \in Int
  <2> TAKE k \in 1..n
  <2>1. evs[k].tx \in 1..m /\ evs[k].at = k - c[evs[k].tx - 1]
    BY DEF n, Canonical
  <2>2. evs[k].tx - 1 \in 0..m
    BY <2>1
  <2>3. c[evs[k].tx - 1] \in 0..n
    BY <2>2 DEF n, Canonical
  <2> QED
    BY <1>1, <2>1, <2>3
<1>4. j \in 1..n
  BY DEF n
<1> DEFINE x == c[evs[j].tx - 1]
<1>5. evs[j].at = j - x /\ evs[j].at = (lo + i) - x /\ x \in Int
  BY <1>1, <1>2, <1>3, <1>4
<1> HIDE DEF x
<1> QED
  BY <1>1, <1>2, <1>4, <1>5

(* It is always said whether the inventory is known.                       *)
LEMMA CourseTells ==
  ASSUME NEW evs, AreEvents(evs), NEW op, NEW s, Course(s, evs, op)
  PROVE  \A i \in 1..(Len(evs) + 1) : s[i].unknown \in BOOLEAN
<1> DEFINE n == Len(evs)
           S == {k \in 0..n : s[k + 1].unknown \in BOOLEAN}
<1>1. n \in Nat /\ \A i \in 1..n : Flows(s[i], s[i + 1], evs[i], LastInventoryEvent(evs, i))
  BY DEF AreEvents, Course, Goes
<1>2. s[1].unknown \in BOOLEAN
  BY OpenedIs DEF Course
<1> HIDE DEF n
<1>3. 0 \in S
  BY <1>1, <1>2
<1>4. ASSUME NEW k \in 0..(n - 1), s[k + 1].unknown \in BOOLEAN PROVE s[(k + 1) + 1].unknown \in BOOLEAN
  <2> DEFINE i == k + 1
  <2>1. i \in 1..n
    BY <1>1
  <2> HIDE DEF i
  <2>2. s[i].unknown \in BOOLEAN
    BY <1>4 DEF i
  <2>3. Flows(s[i], s[i + 1], evs[i], LastInventoryEvent(evs, i))
    BY <1>1, <2>1
  <2>4. s[i + 1].unknown = s[i].unknown \/ s[i + 1].unknown = (s[i].unknown \/ evs[i].how = "UNRESOLVED")
    BY <2>3, Zenon DEF Flows, Enters, Leaves, Disposes, Rests
  <2>5. s[i + 1].unknown \in BOOLEAN
    BY <2>2, <2>4
  <2> QED
    BY <2>5 DEF i
<1>5. \A k \in 0..n : k \in S
  <2>1. \A k \in 0..(n - 1) : k \in S => k + 1 \in S
    BY <1>1, <1>4
  <2> HIDE DEF S
  <2> QED
    BY <1>1, <1>3, <2>1, UpTo
<1>6. ASSUME NEW i \in 1..(n + 1) PROVE s[i].unknown \in BOOLEAN
  <2>1. i - 1 \in 0..n /\ (i - 1) + 1 = i
    BY <1>1
  <2>2. s[(i - 1) + 1].unknown \in BOOLEAN
    BY <1>5, <2>1
  <2> QED
    BY <2>1, <2>2
<1> QED
  BY <1>6 DEF n

(* A span is projected to an episode that met its events as the whole      *)
(* projection did.                                                         *)
SpanOpening(op, span) == IF span.scope THEN op ELSE [units |-> 0, basis |-> Zero]

LEMMA SpanEpisodeIs ==
  ASSUME NEW evs, NEW c, NEW m \in Nat, Canonical(evs, c, m), NEW op, op.units \in Nat,
         NEW s, Course(s, evs, op), NEW full, Ledgered(full, evs, s), NEW span, SpanOk(span, c, s, m)
  PROVE  /\ \E p : EpisodeOf(SpanEpisode(op, full, span), p, SpanOpening(op, span))
         /\ Meets(SpanEpisode(op, full, span), full)
<1> DEFINE a == span.start
           b == span.end
           lo == c[a - 1]
           hi == c[b]
           n == Len(evs)
           d == hi - lo
           part == SpanEvents(evs, span)
           start == SpanOpening(op, span)
           p == Projection(part, start)
           ep == SpanEpisode(op, full, span)
           boundary == [scope |-> span.scope, start |-> span.start, exact |-> span.exact]
           ending == IF span.closed THEN 0 ELSE full.custody
<1>1. /\ b \in 0..m /\ a \in 1..(b + 1) /\ a \in 1..(m + 1) /\ a <= b + 1
      /\ n \in Nat /\ full.events = evs
  <2>1. b \in 0..m /\ a \in 1..(b + 1)
    BY DEF SpanOk
  <2> QED
    BY <2>1 DEF Canonical, Ledgered
<1>2. Part(part, evs, lo, hi)
  BY <1>1, SpanEventsAre
<1>3. ep = BuiltFrom(part, start, boundary, ending, p)
  BY <1>1 DEF SpanEpisode, Episode, SpanOpening
<1> HIDE DEF part, ep, boundary, start
<1>4. Len(part) = d /\ d \in Nat /\ hi \in 0..n /\ lo \in 0..hi
  BY <1>1, <1>2 DEF Part
<1>5. ProjectionOf(p, part, start)
  BY <1>4, ProjectionIs
<1> HIDE DEF p, ending
<1>6. Alike(Opened(start), s[lo + 1])
  <2> DEFINE x == Opened(start)
  <2>1. x.inventory = start.units /\ x.custody = start.units /\ ~x.unknown /\ x.unknown = FALSE
    BY OpenedIs, Zenon
  <2>2. CASE a = 1
    <3>1. span.scope
      BY <2>2, Zenon DEF SpanOk, StartsFlat
    <3>2. start = op
      BY <3>1 DEF start, SpanOpening
    <3>3. lo = 0
      <4>1. a - 1 = 0
        BY <2>2
      <4> QED
        BY <4>1, CutsStart
    <3>4. s[lo + 1] = x
      BY <3>2, <3>3 DEF Course
    <3> HIDE DEF x, lo
    <3> QED
      BY <3>4 DEF Alike, x
  <2>3. CASE a # 1
    <3>1. ~span.scope /\ Flat(s[lo + 1])
      BY <2>3, Zenon DEF SpanOk, StartsFlat
    <3>2. start.units = 0
      BY <3>1 DEF start, SpanOpening
    <3>3. s[lo + 1].unknown \in BOOLEAN
      <4>1. lo + 1 \in 1..(n + 1)
        BY <1>4
      <4>2. AreEvents(evs)
        BY DEF Canonical, AreEvents
      <4> QED
        BY <4>1, <4>2, CourseTells
    <3> HIDE DEF x, lo
    <3> QED
      BY <2>1, <3>1, <3>2, <3>3 DEF Alike, Flat, x
  <2> QED
    BY <2>2, <2>3
<1>7. /\ AreEvents(part) /\ Course(p, part, start)
      /\ \A k \in 0..d : Mirrors(p, s, lo, k)
  <2>1. Canonical(evs, c, m) /\ m \in Nat /\ b \in 0..m /\ Course(s, evs, op)
    BY <1>1
  <2> HIDE DEF lo, b, n
  <2>2. d = c[b] - lo /\ Part(part, evs, lo, c[b])
    BY <1>2
  <2> HIDE DEF d
  <2>3. AreEvents(part) /\ Course(p, part, start) /\ \A k \in 0..(c[b] - lo) : Mirrors(p, s, lo, k)
    BY ONLY <1>5, <1>6, <2>1, <2>2, PartMirrors
  <2> QED
    BY <2>2, <2>3
<1> DEFINE last == p[d + 1]
<1>8. /\ ep.events = part /\ \A i \in 1..d : ep.after[i] = p[i + 1]
      /\ ep.failure = IF last.failure # "none" THEN last.failure
                      ELSE IF last.custody # ending THEN "ending_inventory_mismatch" ELSE "none"
      /\ ep.values = Values(last, start, SharedQuoteFee(part))
      /\ ep.dependencies = Dependencies(part, start, last)
      /\ ep.state = "CLOSED" => ~last.unknown /\ last.inventory = 0
  <2> HIDE DEF d, lo, hi
  <2> QED
    BY ONLY <1>3, <1>4, <1>5, BuiltIs
<1>9. last.failure = "none" /\ Mirrors(p, s, lo, d) /\ lo + d = hi
  <2>1. d + 1 \in 1..(Len(part) + 1) /\ d \in 0..d /\ lo + d = hi
    BY <1>4
  <2> QED
    BY <1>7, <2>1 DEF Course
<1> HIDE DEF last
<1>10. last.custody = ending
  <2>1. last.custody = s[hi + 1].custody
    BY <1>9 DEF Mirrors, Alike, last
  <2>2. CASE span.closed
    BY <2>1, <2>2 DEF SpanOk, Flat, ending
  <2>3. CASE ~span.closed
    <3>1. b = m
      BY <2>3, Zenon DEF SpanOk
    <3>2. hi = n
      BY <3>1 DEF Canonical
    <3>3. ending = s[n + 1].custody
      BY <2>3 DEF ending, Ledgered
    <3> QED
      BY <2>1, <3>2, <3>3
  <2> QED
    BY <2>2, <2>3
<1>11. ep.failure = "none"
  BY <1>8, <1>9, <1>10
<1>12. EpisodeOf(ep, p, start)
  <2>1. part \in Seq(Range(part))
    BY <1>2 DEF Part
  <2> QED
    BY <1>4, <1>7, <1>8, <1>11, <2>1 DEF EpisodeOf, last
<1>13. Meets(ep, full)
  <2> SUFFICES ASSUME NEW i \in DOMAIN ep.events, NEW j \in DOMAIN full.events,
                      ep.events[i] = full.events[j]
               PROVE  /\ ep.after[i].inventory = full.after[j].inventory
                      /\ ep.after[i].zero = full.after[j].zero
    BY <1>11 DEF Meets
  <2>1. i \in 1..d /\ j \in 1..n /\ part[i] = evs[j]
    BY <1>1, <1>2, <1>4, <1>8 DEF Part, Canonical
  <2>2. j = lo + i
    BY <1>2, <2>1, PartsMeet
  <2>3. ep.after[i] = p[i + 1] /\ full.after[j] = s[j + 1]
    BY <1>8, <2>1 DEF Ledgered
  <2>4. Mirrors(p, s, lo, i) /\ i # 0
    BY <1>7, <2>1
  <2> QED
    BY <2>2, <2>3, <2>4 DEF Mirrors, Alike
<1> QED
  BY <1>12, <1>13 DEF ep, start

(* Custody that left by a transfer keeps inventory above custody.          *)
TransfersOut(evs, k) == \E i \in 1..k : evs[i].kind = "TRANSFER_OUT"
Away(s) == ~s.unknown => s.custody < s.inventory

(* Once custody is below inventory it stays below,                         *)
LEMMA FlowAway ==
  ASSUME NEW s, Sound(s), NEW e, IsEvent(e), NEW r, NEW z, Flows(s, r, e, z),
         e.kind # "TRANSFER_OUT" => Away(s)
  PROVE  Away(r)
<1>1. e.q \in Nat \ {0} /\ s.inventory \in Nat /\ s.custody \in Nat /\ (~s.unknown => s.custody <= s.inventory)
  BY DEF IsEvent, Sound
<1>2. CASE Enters(s, r, e)
  <2>1. Away(s) /\ r.inventory = s.inventory + e.q /\ r.custody = s.custody + e.q
    BY <1>2 DEF Enters
  <2>2. ~r.unknown => ~s.unknown
    BY <1>2, Zenon DEF Enters
  <2> QED
    BY <1>1, <2>1, <2>2 DEF Away
<1>3. CASE Leaves(s, r, e)
  <2>1. r.inventory = s.inventory /\ r.custody = s.custody - e.q
    BY <1>3 DEF Leaves
  <2>2. ~r.unknown => ~s.unknown
    BY <1>3, Zenon DEF Leaves
  <2> QED
    BY <1>1, <2>1, <2>2 DEF Away
<1>4. CASE Rests(s, r, e)
  <2>1. Away(s) /\ r.inventory = s.inventory /\ r.custody = s.custody
    BY <1>4 DEF Rests
  <2>2. ~r.unknown => ~s.unknown
    BY <1>4, Zenon DEF Rests
  <2> QED
    BY <2>1, <2>2 DEF Away
<1>5. CASE Disposes(s, r, e, z)
  <2>1. Away(s) /\ r.custody = s.custody - e.q /\ (~s.unknown => r.inventory = s.inventory - e.q)
    BY <1>5 DEF Disposes
  <2>2. ~r.unknown => ~s.unknown
    BY <1>5, Zenon DEF Disposes
  <2> QED
    BY <1>1, <2>1, <2>2 DEF Away
<1> QED
  BY <1>2, <1>3, <1>4, <1>5 DEF Flows

(* so a transfer out, wherever it was, shows in the last state.            *)
LEMMA CourseAway ==
  ASSUME NEW evs, AreEvents(evs), NEW op, op.units \in Nat, NEW s, Course(s, evs, op),
         TransfersOut(evs, Len(evs))
  PROVE  Away(s[Len(evs) + 1])
<1> DEFINE n == Len(evs)
           S == {k \in 0..n : TransfersOut(evs, k) => Away(s[k + 1])}
<1>1. n \in Nat /\ \A i \in 1..n : IsEvent(evs[i]) /\ Flows(s[i], s[i + 1], evs[i], LastInventoryEvent(evs, i))
  BY DEF AreEvents, Course, Goes
<1>2. \A i \in 1..(n + 1) : Sound(s[i])
  BY CourseSound
<1> HIDE DEF n
<1>3. 0 \in S
  BY <1>1 DEF TransfersOut
<1>4. ASSUME NEW k \in 0..(n - 1), TransfersOut(evs, k) => Away(s[k + 1]), TransfersOut(evs, k + 1)
      PROVE  Away(s[(k + 1) + 1])
  <2> DEFINE i == k + 1
  <2>1. i \in 1..n /\ i \in 1..(n + 1)
    BY <1>1
  <2>2. evs[i].kind # "TRANSFER_OUT" => TransfersOut(evs, k)
    <3>1. PICK j \in 1..(k + 1) : evs[j].kind = "TRANSFER_OUT"
      BY <1>4 DEF TransfersOut
    <3>2. j = i \/ j \in 1..k
      OBVIOUS
    <3> QED
      BY <3>1, <3>2 DEF TransfersOut
  <2> HIDE DEF i
  <2>3. evs[i].kind # "TRANSFER_OUT" => Away(s[i])
    BY <1>4, <2>2 DEF i
  <2>4. Away(s[i + 1])
    BY <1>1, <1>2, <2>1, <2>3, FlowAway
  <2> QED
    BY <2>4 DEF i
<1>5. n \in S
  <2>1. \A k \in 0..(n - 1) : k \in S => k + 1 \in S
    BY <1>1, <1>4
  <2>2. n \in 0..n
    BY <1>1
  <2> HIDE DEF S
  <2> QED
    BY <1>1, <1>3, <2>1, <2>2, UpTo
<1> QED
  BY <1>5 DEF n

-----------------------------------------------------------------------------
(* Basis is neither made nor lost.                                         *)
LEMMA WholeEquals ==
  ASSUME NEW n \in Int, NEW d \in Nat \ {0}
  PROVE  Equals(Whole(n), n * d, d)
<1>1. Coprime(n, 1)
  <2> SUFFICES ASSUME NEW k \in Nat \ {0}, 1 % k = 0 PROVE k = 1
    BY DEF Coprime, CommonDivisor
  <2>1. 1 = k * (1 \div k) + (1 % k) /\ 1 \div k \in Int
    BY DivMod
  <2> DEFINE m == 1 \div k
  <2>2. m \in Int /\ 1 = k * m
    BY <2>1
  <2> HIDE DEF m
  <2> QED
    BY <2>2
<1>2. n * d \in Int /\ n * d = (n * d) * 1
  OBVIOUS
<1> QED
  BY <1>1, <1>2 DEF Equals, IsRational, Whole

(* The basis a disposal consumes is a rational, and the whole basis when   *)
(* it disposes of the whole inventory.                                     *)
LEMMA ConsumedIs ==
  ASSUME NEW b, IsRational(b), NEW i \in Nat \ {0}, NEW q \in Nat \ {0}
  PROVE  /\ IsRational(Times(Over(b, Whole(i)), Whole(q)))
         /\ i = q => \A n, d : Equals(b, n, d) => Equals(Times(Over(b, Whole(i)), Whole(q)), n, d)
<1> DEFINE y == Over(b, Whole(i))
           x == Times(y, Whole(q))
           b1 == b[1]
           b2 == b[2]
           y1 == y[1]
           y2 == y[2]
<1>1. b1 \in Int /\ b2 \in Nat \ {0}
  BY DEF IsRational
<1>2. Equals(y, b1 * 1, b2 * i)
  <2>1. y = Rational(b1 * 1, b2 * i)
    BY DEF Over, Whole
  <2>2. b1 * 1 \in Int /\ b2 * i \in Nat \ {0}
    BY <1>1
  <2> HIDE DEF b1, b2, y
  <2> QED
    BY <2>1, <2>2, RationalEquals
<1> HIDE DEF y
<1>3. y1 \in Int /\ y2 \in Nat \ {0} /\ y1 * (b2 * i) = (b1 * 1) * y2
  BY <1>2 DEF Equals, IsRational
<1>4. Equals(x, y1 * q, y2 * 1)
  <2>1. x = Rational(y1 * q, y2 * 1)
    BY DEF Times, Whole
  <2>2. y1 * q \in Int /\ y2 * 1 \in Nat \ {0}
    BY <1>3
  <2> HIDE DEF y1, y2, x
  <2> QED
    BY <2>1, <2>2, RationalEquals
<1> HIDE DEF x
<1>5. IsRational(x)
  BY <1>4 DEF Equals
<1>6. ASSUME i = q, NEW n, NEW d, Equals(b, n, d)
      PROVE  Equals(x, n, d)
  <2> HIDE DEF y1, y2, b1, b2
  <2>1. Equals(x, b1, b2)
    <3>1. (y1 * q) * b2 = b1 * (y2 * 1)
      <4>1. (y1 * q) * b2 = y1 * (b2 * i)
        BY <1>1, <1>3, <1>6
      <4>2. (b1 * 1) * y2 = b1 * (y2 * 1)
        BY <1>1, <1>3
      <4> QED
        BY <1>3, <4>1, <4>2
    <3> QED
      BY <1>1, <1>4, <3>1, SameValue
  <2>2. n \in Int /\ d \in Nat \ {0} /\ b1 * d = n * b2
    BY <1>6 DEF Equals, b1, b2
  <2> QED
    BY <2>1, <2>2, SameValue
<1> QED
  BY <1>5, <1>6 DEF x, y

(* What was opened with and acquired, and k units more, are what was       *)
(* consumed and what remains, all over one denominator.                    *)
Balanced(o, a, c, b, k) ==
  \E d, i, j, l, m : /\ Equals(o, i, d) /\ Equals(a, j, d) /\ Equals(c, l, d) /\ Equals(b, m, d)
                     /\ i + j + k * d = l + m

(* The sums of the four are equal then.                                    *)
LEMMA BalancedParts ==
  ASSUME NEW o, NEW a, NEW c, NEW b, NEW k \in Int, Balanced(o, a, c, b, k)
  PROVE  Plus(Plus(o, a), Whole(k)) = Plus(c, b)
<1>1. PICK d, i, j, l, m : /\ Equals(o, i, d) /\ Equals(a, j, d) /\ Equals(c, l, d) /\ Equals(b, m, d)
                           /\ i + j + k * d = l + m
  BY DEF Balanced
<1>2. d \in Nat \ {0}
  BY <1>1 DEF Equals
<1>3. Equals(Whole(k), k * d, d)
  BY <1>2, WholeEquals
<1>4. Equals(Plus(o, a), i + j, d)
  BY <1>1, SumsOverOne
<1>5. Equals(Plus(Plus(o, a), Whole(k)), (i + j) + k * d, d)
  BY <1>3, <1>4, SumsOverOne
<1>6. Equals(Plus(c, b), l + m, d)
  BY <1>1, SumsOverOne
<1> QED
  BY <1>1, <1>5, <1>6, RationalsAreUnique

(* An acquisition adds its cost to what was acquired and to what remains,  *)
LEMMA BalancePays ==
  ASSUME NEW o, NEW a, NEW c, NEW b, NEW k \in Int, Balanced(o, a, c, b, k), NEW x, IsRational(x)
  PROVE  Balanced(o, Plus(a, x), c, Plus(b, x), k)
<1>1. PICK d, i, j, l, m : /\ Equals(o, i, d) /\ Equals(a, j, d) /\ Equals(c, l, d) /\ Equals(b, m, d)
                           /\ i + j + k * d = l + m
  BY DEF Balanced
<1> DEFINE e == x[2]
           u == x[1]
<1>2. /\ d \in Nat \ {0} /\ i \in Int /\ j \in Int /\ l \in Int /\ m \in Int
      /\ e \in Nat \ {0} /\ u \in Int /\ Equals(x, u, e)
  BY <1>1, ItsOwnValue DEF Equals, IsRational
<1> HIDE DEF e, u
<1>3. d * e \in Nat \ {0} /\ e * d = d * e
  BY <1>2
<1>4. Equals(o, i * e, d * e) /\ Equals(a, j * e, d * e) /\ Equals(c, l * e, d * e) /\ Equals(b, m * e, d * e)
  BY <1>1, <1>2, Scaled
<1>5. Equals(x, u * d, d * e)
  BY <1>2, <1>3, Scaled
<1>6. Equals(Plus(a, x), j * e + u * d, d * e) /\ Equals(Plus(b, x), m * e + u * d, d * e)
  BY <1>4, <1>5, SumsOverOne
<1>7. i * e + (j * e + u * d) + k * (d * e) = l * e + (m * e + u * d)
  <2>1. (i + j + k * d) * e = (l + m) * e
    BY <1>1
  <2>2. (l + m) * e = l * e + m * e
    BY <1>2
  <2>3. (i + j + k * d) * e = i * e + j * e + k * (d * e)
    BY <1>2
  <2>4. /\ i * e \in Int /\ j * e \in Int /\ k * (d * e) \in Int /\ l * e \in Int /\ m * e \in Int /\ u * d \in Int
    BY <1>2
  <2> QED
    BY <2>1, <2>2, <2>3, <2>4
<1> QED
  BY <1>4, <1>6, <1>7 DEF Balanced

(* a transfer in its unit of basis,                                        *)
LEMMA BalanceReceives ==
  ASSUME NEW o, NEW a, NEW c, NEW b, NEW k \in Int, Balanced(o, a, c, b, k)
  PROVE  Balanced(o, a, c, Plus(b, Whole(1)), k + 1)
<1>1. PICK d, i, j, l, m : /\ Equals(o, i, d) /\ Equals(a, j, d) /\ Equals(c, l, d) /\ Equals(b, m, d)
                           /\ i + j + k * d = l + m
  BY DEF Balanced
<1>2. d \in Nat \ {0} /\ i \in Int /\ j \in Int /\ l \in Int /\ m \in Int /\ 1 * d = d
  BY <1>1 DEF Equals
<1>3. Equals(Whole(1), d, d)
  <2>1. Equals(Whole(1), 1 * d, d)
    BY <1>2, WholeEquals
  <2> QED
    BY <1>2, <2>1
<1>4. Equals(Plus(b, Whole(1)), m + d, d)
  BY <1>1, <1>3, SumsOverOne
<1>5. i + j + (k + 1) * d = l + (m + d)
  <2>1. (k + 1) * d = k * d + d /\ k * d \in Int
    BY <1>2
  <2> QED
    BY <1>1, <1>2, <2>1
<1> QED
  BY <1>1, <1>4, <1>5 DEF Balanced

(* a disposal moves what it consumes,                                      *)
LEMMA BalanceConsumes ==
  ASSUME NEW o, NEW a, NEW c, NEW b, NEW k \in Int, Balanced(o, a, c, b, k), NEW x, IsRational(x)
  PROVE  Balanced(o, a, Plus(c, x), Minus(b, x), k)
<1>1. PICK d, i, j, l, m : /\ Equals(o, i, d) /\ Equals(a, j, d) /\ Equals(c, l, d) /\ Equals(b, m, d)
                           /\ i + j + k * d = l + m
  BY DEF Balanced
<1> DEFINE e == x[2]
           u == x[1]
<1>2. /\ d \in Nat \ {0} /\ i \in Int /\ j \in Int /\ l \in Int /\ m \in Int
      /\ e \in Nat \ {0} /\ u \in Int /\ Equals(x, u, e)
  BY <1>1, ItsOwnValue DEF Equals, IsRational
<1> HIDE DEF e, u
<1>3. d * e \in Nat \ {0} /\ e * d = d * e
  BY <1>2
<1>4. Equals(o, i * e, d * e) /\ Equals(a, j * e, d * e) /\ Equals(c, l * e, d * e) /\ Equals(b, m * e, d * e)
  BY <1>1, <1>2, Scaled
<1>5. Equals(x, u * d, d * e)
  BY <1>2, <1>3, Scaled
<1>6. Equals(Plus(c, x), l * e + u * d, d * e) /\ Equals(Minus(b, x), m * e - u * d, d * e)
  BY <1>4, <1>5, SumsOverOne
<1>7. i * e + j * e + k * (d * e) = (l * e + u * d) + (m * e - u * d)
  <2>1. (i + j + k * d) * e = (l + m) * e
    BY <1>1
  <2>2. (l + m) * e = l * e + m * e
    BY <1>2
  <2>3. (i + j + k * d) * e = i * e + j * e + k * (d * e)
    BY <1>2
  <2>4. /\ i * e \in Int /\ j * e \in Int /\ k * (d * e) \in Int /\ l * e \in Int /\ m * e \in Int /\ u * d \in Int
    BY <1>2
  <2> QED
    BY <2>1, <2>2, <2>3, <2>4
<1> QED
  BY <1>4, <1>6, <1>7 DEF Balanced

(* and the one that ends the position moves all of it.                     *)
LEMMA BalanceEnds ==
  ASSUME NEW o, NEW a, NEW c, NEW b, NEW k \in Int, Balanced(o, a, c, b, k),
         NEW x, \A n, d : Equals(b, n, d) => Equals(x, n, d)
  PROVE  Balanced(o, a, Plus(c, x), Zero, k)
<1>1. PICK d, i, j, l, m : /\ Equals(o, i, d) /\ Equals(a, j, d) /\ Equals(c, l, d) /\ Equals(b, m, d)
                           /\ i + j + k * d = l + m
  BY DEF Balanced
<1>2. d \in Nat \ {0} /\ l \in Int /\ m \in Int /\ 0 * d = 0
  BY <1>1 DEF Equals
<1>3. Equals(x, m, d)
  BY <1>1
<1>4. Equals(Zero, 0, d)
  <2>1. Equals(Whole(0), 0 * d, d)
    BY <1>2, WholeEquals
  <2> QED
    BY <1>2, <2>1 DEF Zero, Whole
<1>5. Equals(Plus(c, x), l + m, d)
  BY <1>1, <1>3, SumsOverOne
<1>6. i + j + k * d = (l + m) + 0
  BY <1>1, <1>2
<1> QED
  BY <1>1, <1>4, <1>5, <1>6 DEF Balanced

(* The transfers among the first k events.                                 *)
TransfersIn(evs, k) == Cardinality({i \in 1..k : evs[i].kind = "TRANSFER_IN"})

(* One event more, at most one transfer more.                              *)
LEMMA TransfersCount ==
  ASSUME NEW evs, NEW k \in Nat
  PROVE  /\ TransfersIn(evs, k) \in Nat /\ TransfersIn(evs, 0) = 0
         /\ TransfersIn(evs, k + 1) = TransfersIn(evs, k) + (IF evs[k + 1].kind = "TRANSFER_IN" THEN 1 ELSE 0)
<1> DEFINE T(n) == {i \in 1..n : evs[i].kind = "TRANSFER_IN"}
<1>1. IsFiniteSet(T(k))
  <2>1. IsFiniteSet(1..k)
    BY FS_Interval
  <2>2. T(k) \subseteq 1..k
    OBVIOUS
  <2> QED
    BY <2>1, <2>2, FS_Subset
<1>2. T(0) = {}
  OBVIOUS
<1>3. CASE evs[k + 1].kind = "TRANSFER_IN"
  <2>1. T(k + 1) = T(k) \cup {k + 1} /\ k + 1 \notin T(k)
    BY <1>3
  <2> HIDE DEF T
  <2>2. Cardinality(T(k + 1)) = Cardinality(T(k)) + 1
    BY <1>1, <2>1, FS_AddElement
  <2> QED
    BY <1>1, <1>2, <1>3, <2>2, FS_CardinalityType, FS_EmptySet DEF TransfersIn, T
<1>4. CASE evs[k + 1].kind # "TRANSFER_IN"
  <2>1. T(k + 1) = T(k)
    BY <1>4
  <2> HIDE DEF T
  <2>2. Cardinality(T(k)) \in Nat /\ Cardinality(T(0)) = 0
    BY <1>1, <1>2, FS_CardinalityType, FS_EmptySet
  <2>3. Cardinality(T(k + 1)) = Cardinality(T(k))
    BY <2>1
  <2> QED
    BY <1>4, <2>2, <2>3 DEF TransfersIn, T
<1> QED
  BY <1>3, <1>4

(* A rational is a known value.                                            *)
LEMMA RationalKnown ==
  ASSUME NEW r, IsRational(r)
  PROVE  r # Null
BY DEF IsRational, Null

(* The cost of an acquisition, where it is known, is a rational.           *)
LEMMA CostIs ==
  ASSUME NEW evs, evs \in Seq(Range(evs)), NEW i, Cost(evs, i) # Null
  PROVE  IsRational(Cost(evs, i))
<1> DEFINE F == {j \in DOMAIN evs : evs[j].kind = "FEE" /\ evs[j].tx = evs[i].tx /\ evs[j].of = evs[i].at}
<1>1. IsFiniteSet(F)
  <2>1. DOMAIN evs = 1..Len(evs) /\ Len(evs) \in Nat
    OBVIOUS
  <2>2. IsFiniteSet(1..Len(evs))
    BY <2>1, FS_Interval
  <2>3. F \subseteq 1..Len(evs)
    BY <2>1
  <2> QED
    BY <2>2, <2>3, FS_Subset
<1> DEFINE n == Cardinality(F)
<1>2. n \in Int
  BY <1>1, FS_CardinalityType
<1>3. FeesOf(evs, i) = Whole(n)
  BY DEF FeesOf
<1> HIDE DEF n
<1>4. Cost(evs, i) = Plus(Whole(EntryPrice), Whole(n))
  BY <1>3 DEF Cost
<1>5. Equals(Whole(EntryPrice), EntryPrice * 1, 1) /\ Equals(Whole(n), n * 1, 1)
  <2>1. EntryPrice \in Int
    BY DEF EntryPrice
  <2> QED
    BY <1>2, <2>1, WholeEquals
<1>6. Equals(Plus(Whole(EntryPrice), Whole(n)), EntryPrice * 1 + n * 1, 1)
  BY <1>5, SumsOverOne
<1> QED
  BY <1>4, <1>6 DEF Equals

(* Where all is known, nothing of the basis is lost.                       *)
BasisKept(s, o, k) ==
  s.basis # Null /\ s.acquired # Null /\ ~s.basisLost => Balanced(o, s.acquired, s.consumed, s.basis, k)

(* Every kind of event in turn keeps the balance,                          *)
LEMMA WorthKept ==
  ASSUME NEW evs, evs \in Seq(Range(evs)), NEW i, IsEvent(evs[i]), NEW s, Sound(s), NEW r, NEW z,
         Flows(s, r, evs[i], z), Worths(s, r, evs, i), NEW o, NEW k \in Nat, BasisKept(s, o, k)
  PROVE  BasisKept(r, o, k + (IF evs[i].kind = "TRANSFER_IN" THEN 1 ELSE 0))
<1> DEFINE e == evs[i]
<1> SUFFICES ASSUME r.basis # Null, r.acquired # Null, ~r.basisLost
             PROVE  Balanced(o, r.acquired, r.consumed, r.basis,
                             k + (IF e.kind = "TRANSFER_IN" THEN 1 ELSE 0))
  BY DEF BasisKept
<1>1. e.kind \in {"ACQUISITION", "TRANSFER_IN", "DISPOSAL", "TRANSFER_OUT", "FEE"}
  BY DEF IsEvent, InventoryKinds, Trades
<1>2. e.kind # "TRANSFER_IN" => k + (IF e.kind = "TRANSFER_IN" THEN 1 ELSE 0) = k
  OBVIOUS
<1>3. CASE e.kind = "ACQUISITION"
  <2> DEFINE x == Cost(evs, i)
  <2>1. Pays(s, r, x)
    BY <1>3 DEF Worths
  <2> HIDE DEF x
  <2>2. r.basis = PlusNullable(s.basis, x) /\ r.acquired = PlusNullable(s.acquired, x)
        /\ r.consumed = s.consumed /\ ~s.basisLost
    BY <2>1, Zenon DEF Pays
  <2>3. s.basis # Null /\ s.acquired # Null /\ x # Null
        /\ r.basis = Plus(s.basis, x) /\ r.acquired = Plus(s.acquired, x)
    BY <2>2 DEF PlusNullable, Known
  <2>4. IsRational(x)
    BY <2>3, CostIs DEF x
  <2>5. Balanced(o, s.acquired, s.consumed, s.basis, k)
    BY <2>2, <2>3 DEF BasisKept
  <2>6. Balanced(o, Plus(s.acquired, x), s.consumed, Plus(s.basis, x), k)
    BY <2>4, <2>5, BalancePays
  <2> QED
    BY <1>2, <1>3, <2>2, <2>3, <2>6
<1>4. CASE e.kind = "TRANSFER_IN"
  <2>1. Receives(s, r, e)
    BY <1>4 DEF Worths
  <2>2. r.basis = (IF e.how = "KNOWN" THEN PlusNullable(s.basis, Whole(1)) ELSE Null)
        /\ r.acquired = s.acquired /\ r.consumed = s.consumed /\ ~s.basisLost
    BY <2>1, Zenon DEF Receives
  <2>3. s.basis # Null /\ r.basis = Plus(s.basis, Whole(1))
    BY <2>2 DEF PlusNullable, Known
  <2>4. Balanced(o, s.acquired, s.consumed, s.basis, k)
    BY <2>2, <2>3 DEF BasisKept
  <2>5. Balanced(o, s.acquired, s.consumed, Plus(s.basis, Whole(1)), k + 1)
    BY <2>4, BalanceReceives
  <2> QED
    BY <1>4, <2>2, <2>3, <2>5
<1>5. CASE e.kind = "DISPOSAL"
  <2> DEFINE x == Consumed(s, e.q)
  <2>1. Consumes(s, r, e.q)
    BY <1>5 DEF Worths
  <2>2. r.consumed = PlusNullable(s.consumed, x)
        /\ r.basis = (IF r.zero THEN Zero ELSE MinusNullable(s.basis, x))
        /\ ~s.basisLost /\ x # Null /\ r.acquired = s.acquired
    BY <2>1, Zenon DEF Consumes
  <2>3. ~s.unknown /\ s.basis # Null /\ x = Times(Over(s.basis, Whole(s.inventory)), Whole(e.q))
    BY <2>2 DEF Consumed
  <2>4. Disposes(s, r, e, z)
    BY <1>5 DEF Flows, Enters, Leaves, Rests
  <2>5. e.q \in Nat \ {0} /\ s.inventory \in Nat \ {0} /\ (r.zero => s.inventory = e.q)
    <3>1. e.q \in Nat \ {0} /\ s.inventory \in Nat
      BY DEF IsEvent, Sound
    <3>2. ~(s.inventory < e.q) /\ (r.zero => s.inventory = e.q)
      BY <2>3, <2>4 DEF Disposes
    <3> QED
      BY <3>1, <3>2
  <2>6. Balanced(o, s.acquired, s.consumed, s.basis, k)
    BY <2>2, <2>3 DEF BasisKept
  <2> HIDE DEF x
  <2>7. IsRational(s.basis) /\ IsRational(s.consumed)
    BY <2>6 DEF Balanced, Equals
  <2>8. IsRational(x) /\ (s.inventory = e.q => \A n, d : Equals(s.basis, n, d) => Equals(x, n, d))
    BY <2>3, <2>5, <2>7, ConsumedIs
  <2>9. r.consumed = Plus(s.consumed, x)
    <3>1. s.consumed # Null
      BY <2>7, RationalKnown
    <3> QED
      BY <2>2, <3>1 DEF PlusNullable, Known
  <2>10. CASE r.zero
    <3>1. Balanced(o, s.acquired, Plus(s.consumed, x), Zero, k)
      BY <2>5, <2>6, <2>8, <2>10, BalanceEnds
    <3> QED
      BY <1>2, <1>5, <2>2, <2>9, <2>10, <3>1
  <2>11. CASE ~r.zero
    <3>1. r.basis = Minus(s.basis, x)
      BY <2>2, <2>3, <2>11 DEF MinusNullable, Known
    <3>2. Balanced(o, s.acquired, Plus(s.consumed, x), Minus(s.basis, x), k)
      BY <2>6, <2>8, BalanceConsumes
    <3> QED
      BY <1>2, <1>5, <2>2, <2>9, <3>1, <3>2
  <2> QED
    BY <2>10, <2>11
<1>6. CASE e.kind = "TRANSFER_OUT"
  <2>1. Forgets(s, r, e)
    BY <1>6 DEF Worths
  <2>2. r.basis = s.basis /\ r.acquired = s.acquired /\ r.consumed = s.consumed /\ ~s.basisLost
    BY <2>1, Zenon DEF Forgets
  <2>3. Balanced(o, s.acquired, s.consumed, s.basis, k)
    BY <2>2 DEF BasisKept
  <2> QED
    BY <1>2, <1>6, <2>2, <2>3
<1>7. CASE e.kind = "FEE"
  <2>1. r.basis = s.basis /\ r.acquired = s.acquired /\ r.consumed = s.consumed /\ ~s.basisLost
    BY <1>7, Zenon DEF Worths
  <2>2. Balanced(o, s.acquired, s.consumed, s.basis, k)
    BY <2>1 DEF BasisKept
  <2> QED
    BY <1>2, <1>7, <2>1, <2>2
<1> QED
  BY <1>1, <1>3, <1>4, <1>5, <1>6, <1>7

(* and so does a whole projection.                                         *)
LEMMA CourseKeepsBasis ==
  ASSUME NEW evs, evs \in Seq(Range(evs)), AreEvents(evs), NEW op, op.units \in Nat, IsRational(op.basis),
         NEW s, Course(s, evs, op)
  PROVE  BasisKept(s[Len(evs) + 1], op.basis, TransfersIn(evs, Len(evs)))
<1> DEFINE n == Len(evs)
           Kept(k) == BasisKept(s[k + 1], op.basis, TransfersIn(evs, k))
           S == {k \in 0..n : Kept(k)}
<1>1. /\ n \in Nat
      /\ \A i \in 1..n : /\ IsEvent(evs[i]) /\ Worths(s[i], s[i + 1], evs, i)
                         /\ Flows(s[i], s[i + 1], evs[i], LastInventoryEvent(evs, i))
  BY DEF AreEvents, Course, Goes
<1>2. \A i \in 1..(n + 1) : Sound(s[i])
  BY CourseSound
<1> HIDE DEF n
<1>3. Kept(0)
  <2> DEFINE o == op.basis
             a == o[1]
             b == o[2]
  <2>1. s[1].basis = o /\ s[1].acquired = Zero /\ s[1].consumed = Zero
    BY OpenedIs DEF Course
  <2>2. Equals(o, a, b) /\ a \in Int /\ b \in Nat \ {0}
    BY ItsOwnValue DEF IsRational
  <2> HIDE DEF a, b
  <2>3. Equals(Zero, 0, b)
    <3>1. Equals(Whole(0), 0 * b, b)
      BY <2>2, WholeEquals
    <3>2. 0 * b = 0
      BY <2>2
    <3> QED
      BY <3>1, <3>2 DEF Zero, Whole
  <2>4. a + 0 + 0 * b = 0 + a
    BY <2>2
  <2> HIDE DEF o
  <2>5. Balanced(o, Zero, Zero, o, 0)
    BY <2>2, <2>3, <2>4 DEF Balanced
  <2>6. TransfersIn(evs, 0) = 0
    BY TransfersCount
  <2> QED
    BY <2>1, <2>5, <2>6 DEF BasisKept, o
<1>4. ASSUME NEW k \in 0..(n - 1), Kept(k)
      PROVE  Kept(k + 1)
  <2> DEFINE i == k + 1
             t == TransfersIn(evs, k)
             j == t + (IF evs[i].kind = "TRANSFER_IN" THEN 1 ELSE 0)
  <2>1. i \in 1..n /\ i \in 1..(n + 1) /\ k \in Nat
    BY <1>1
  <2>2. t \in Nat /\ TransfersIn(evs, i) = j
    BY <2>1, TransfersCount
  <2>3. BasisKept(s[i], op.basis, t)
    BY <1>4
  <2> HIDE DEF i, t, j
  <2>4. BasisKept(s[i + 1], op.basis, t + (IF evs[i].kind = "TRANSFER_IN" THEN 1 ELSE 0))
    BY <1>1, <1>2, <2>1, <2>2, <2>3, WorthKept
  <2>5. BasisKept(s[i + 1], op.basis, TransfersIn(evs, i))
    BY <2>2, <2>4 DEF j
  <2> QED
    BY <2>5 DEF i
<1>5. n \in S
  <2> HIDE DEF Kept
  <2>1. 0 \in S
    BY <1>1, <1>3
  <2>2. \A k \in 0..(n - 1) : k \in S => k + 1 \in S
    BY <1>1, <1>4
  <2>3. n \in 0..n
    BY <1>1
  <2> HIDE DEF S
  <2> QED
    BY <1>1, <2>1, <2>2, <2>3, UpTo
<1> QED
  BY <1>5 DEF n

-----------------------------------------------------------------------------
(* An episode balances, and one that is closed was never transferred from. *)
EpisodeBalances(ep) ==
  LET v == ep.values IN
  /\ Known({v.opening_attributable_basis, v.aggregate_acquisition_basis,
            v.realized_basis_consumed, v.remaining_attributable_basis})
     => Plus(Plus(v.opening_attributable_basis, v.aggregate_acquisition_basis), Received(ep))
          = Plus(v.realized_basis_consumed, v.remaining_attributable_basis)
  /\ ep.state = "CLOSED" => \A i \in DOMAIN ep.events : ep.events[i].kind # "TRANSFER_OUT"

(* What an episode tells of its last state.                                *)
LEMMA ValuesAre ==
  ASSUME NEW last, NEW op, NEW shared
  PROVE  LET v == Values(last, op, shared) IN
         /\ v.opening_attributable_basis = op.basis
         /\ v.aggregate_acquisition_basis = IF last.mixed \/ shared THEN Null ELSE last.acquired
         /\ v.realized_basis_consumed = IF last.basisLost THEN Null ELSE last.consumed
         /\ v.remaining_attributable_basis =
              IF shared THEN IF Closed(last) THEN Zero ELSE Null ELSE last.basis
BY DEF Values, Realized, Aggregates

(* An episode of a projection that did not fail balances.                  *)
LEMMA EpisodesBalance ==
  ASSUME NEW ep, NEW p, NEW op, EpisodeOf(ep, p, op), op.units \in Nat, op.basis = Null \/ IsRational(op.basis)
  PROVE  EpisodeBalances(ep)
<1> DEFINE evs == ep.events
           n == Len(evs)
           last == p[n + 1]
           shared == SharedQuoteFee(evs)
           v == ep.values
<1>1. /\ evs \in Seq(Range(evs)) /\ DOMAIN evs = 1..n /\ n \in Nat /\ AreEvents(evs) /\ Course(p, evs, op)
      /\ v = Values(last, op, shared)
      /\ ep.state = "CLOSED" => ~last.unknown /\ last.inventory = 0
  BY DEF EpisodeOf, AreEvents
<1>2. Sound(last)
  <2>1. n + 1 \in 1..(n + 1)
    BY <1>1
  <2> QED
    BY <1>1, <2>1, CourseSound
<1> HIDE DEF evs, n, last, shared, v
<1>3. ASSUME Known({v.opening_attributable_basis, v.aggregate_acquisition_basis,
                    v.realized_basis_consumed, v.remaining_attributable_basis})
      PROVE  Plus(Plus(v.opening_attributable_basis, v.aggregate_acquisition_basis), Received(ep))
               = Plus(v.realized_basis_consumed, v.remaining_attributable_basis)
  <2>1. /\ v.opening_attributable_basis # Null /\ v.aggregate_acquisition_basis # Null
        /\ v.realized_basis_consumed # Null /\ v.remaining_attributable_basis # Null
    BY <1>3 DEF Known
  <2>2. /\ v.opening_attributable_basis = op.basis
        /\ v.aggregate_acquisition_basis = IF last.mixed \/ shared THEN Null ELSE last.acquired
        /\ v.realized_basis_consumed = IF last.basisLost THEN Null ELSE last.consumed
        /\ v.remaining_attributable_basis =
              IF shared THEN IF Closed(last) THEN Zero ELSE Null ELSE last.basis
    BY <1>1, ValuesAre
  <2>3. /\ v.aggregate_acquisition_basis = last.acquired /\ v.realized_basis_consumed = last.consumed
        /\ v.remaining_attributable_basis = last.basis /\ ~last.basisLost
    BY <2>1, <2>2
  <2>4. IsRational(op.basis)
    BY <2>1, <2>2
  <2> DEFINE k == TransfersIn(evs, n)
  <2>5. BasisKept(last, op.basis, k)
    BY <1>1, <2>4, CourseKeepsBasis DEF n, last
  <2>6. k \in Int /\ Received(ep) = Whole(k)
    <3>1. k \in Nat
      BY <1>1, TransfersCount
    <3>2. DOMAIN evs = 1..n
      BY <1>1
    <3>3. Received(ep) = Whole(Cardinality({i \in DOMAIN evs : evs[i].kind = "TRANSFER_IN"}))
      BY DEF Received, evs
    <3>4. k = Cardinality({i \in DOMAIN evs : evs[i].kind = "TRANSFER_IN"})
      BY <3>2 DEF TransfersIn
    <3> QED
      BY <3>1, <3>3, <3>4
  <2> HIDE DEF k
  <2>7. Balanced(op.basis, last.acquired, last.consumed, last.basis, k)
    BY <2>1, <2>3, <2>5 DEF BasisKept
  <2>8. Plus(Plus(op.basis, last.acquired), Whole(k)) = Plus(last.consumed, last.basis)
    BY <2>6, <2>7, BalancedParts
  <2> QED
    BY <2>2, <2>3, <2>6, <2>8
<1>4. ASSUME ep.state = "CLOSED", NEW i \in DOMAIN ep.events, ep.events[i].kind = "TRANSFER_OUT"
      PROVE  FALSE
  <2>1. TransfersOut(evs, n)
    BY <1>1, <1>4 DEF TransfersOut, evs
  <2>2. Away(last)
    BY <1>1, <2>1, CourseAway DEF n, last
  <2>3. ~last.unknown /\ last.inventory = 0 /\ last.custody \in Nat
    BY <1>1, <1>2, <1>4 DEF Sound
  <2> QED
    BY <2>2, <2>3 DEF Away
<1> QED
  BY <1>3, <1>4 DEF EpisodeBalances, v

-----------------------------------------------------------------------------
(* What is withheld, and why *)

(* Whatever is computed of known values is known.                          *)
LEMMA ComputedIsKnown ==
  \A a, b : /\ Plus(a, b) # Null /\ Minus(a, b) # Null /\ Times(a, b) # Null /\ Over(a, b) # Null
            /\ Whole(a) # Null /\ Zero # Null
            /\ (a # Null /\ b # Null => PlusNullable(a, b) # Null /\ MinusNullable(a, b) # Null)
<1>1. \A n, d : Rational(n, d) # Null
  BY DEF Rational, Null
<1> TAKE a, b
<1>2. Plus(a, b) # Null /\ Minus(a, b) # Null /\ Times(a, b) # Null /\ Over(a, b) # Null
  BY <1>1 DEF Plus, Minus, Times, Over
<1>3. Whole(a) # Null /\ Zero # Null
  BY DEF Whole, Zero, Null
<1>4. ASSUME a # Null, b # Null PROVE PlusNullable(a, b) # Null /\ MinusNullable(a, b) # Null
  BY <1>2, <1>4 DEF PlusNullable, MinusNullable, Known
<1> QED
  BY <1>2, <1>3, <1>4

(* All an account tells is known.                                          *)
AllKnown(s) ==
  /\ ~s.mixed /\ ~s.unknown /\ ~s.basisLost /\ ~s.proceedsLost
  /\ s.basis # Null /\ s.acquired # Null /\ s.consumed # Null /\ s.proceeds # Null

(* An event without a dependency is of a known quote, basis and             *)
(* continuation.                                                           *)
LEMMA Independent ==
  ASSUME NEW e, IsEvent(e), DependencyCode(e) = "NONE"
  PROVE  /\ e.kind \in Trades => e.how \in {"EXACT", "OTHER_MINT"}
         /\ e.kind = "TRANSFER_IN" => e.how = "KNOWN"
         /\ e.kind = "TRANSFER_OUT" => e.how # "UNRESOLVED"
         /\ e.how # "UNALLOCATED_SHARED"
<1>1. ASSUME e.kind \in Trades, e.how = "UNRESOLVED" PROVE FALSE
  <2>1. DependencyCode(e) = "QUOTE_CONTEXT_UNRESOLVED"
    BY <1>1 DEF DependencyCode, Trades
  <2> QED
    BY <2>1
<1>2. ASSUME e.kind = "TRANSFER_IN", e.how = "UNKNOWN" PROVE FALSE
  <2>1. DependencyCode(e) = "TRANSFER_IN_BASIS_UNRESOLVED"
    BY <1>2 DEF DependencyCode, Trades
  <2> QED
    BY <2>1
<1>3. ASSUME e.kind = "TRANSFER_OUT", e.how = "UNRESOLVED" PROVE FALSE
  <2>1. DependencyCode(e) = "TARGET_TRANSFER_EXTERNAL_CONTINUATION"
    BY <1>3 DEF DependencyCode, Trades
  <2> QED
    BY <2>1
<1>4. ASSUME e.how = "UNALLOCATED_SHARED" PROVE FALSE
  <2>1. DependencyCode(e) = "SHARED_EFFECT_ALLOCATION_UNRESOLVED"
    BY <1>4 DEF DependencyCode, Trades
  <2> QED
    BY <2>1
<1> QED
  BY <1>1, <1>2, <1>3, <1>4 DEF IsEvent

(* It keeps all known, unless it mixes quotes.                             *)
LEMMA GoesKnown ==
  ASSUME NEW evs, ~SharedQuoteFee(evs), NEW i, IsEvent(evs[i]), DependencyCode(evs[i]) = "NONE",
         NEW s, AllKnown(s), NEW r, Goes(s, r, evs, i)
  PROVE  AllKnown(r) \/ r.mixed
<1> DEFINE e == evs[i]
           z == LastInventoryEvent(evs, i)
<1> SUFFICES ASSUME ~r.mixed PROVE AllKnown(r)
  OBVIOUS
<1>1. /\ e.kind \in Trades => e.how \in {"EXACT", "OTHER_MINT"}
      /\ e.kind = "TRANSFER_IN" => e.how = "KNOWN"
      /\ e.kind = "TRANSFER_OUT" => e.how # "UNRESOLVED"
  BY Independent
<1>2. e.kind \in Trades => PricedExactly(evs, i)
  <2> SUFFICES ASSUME e.kind \in Trades, ~PricedExactly(evs, i) PROVE FALSE
    OBVIOUS
  <2>1. MixesQuotes(evs, i)
    BY <1>1 DEF MixesQuotes
  <2>2. r.mixed = (s.mixed \/ MixesQuotes(evs, i))
    BY Zenon DEF Goes, Quotes
  <2> QED
    BY <2>1, <2>2, Zenon
<1>3. ~r.unknown
  <2>1. r.unknown = s.unknown \/ (e.kind = "TRANSFER_OUT" /\ r.unknown = (s.unknown \/ e.how = "UNRESOLVED"))
    BY Zenon DEF Goes, Flows, Enters, Disposes, Leaves, Rests
  <2> QED
    BY <1>1, <2>1, Zenon DEF AllKnown
<1>4. e.kind \in {"ACQUISITION", "TRANSFER_IN", "DISPOSAL", "TRANSFER_OUT", "FEE"}
  BY DEF IsEvent, InventoryKinds, Trades
<1>5. CASE e.kind = "ACQUISITION"
  <2>1. Cost(evs, i) # Null
    BY <1>2, <1>5, ComputedIsKnown DEF Cost, Trades
  <2>2. Pays(s, r, Cost(evs, i))
    BY <1>5 DEF Goes, Worths
  <2>3. r.basis # Null /\ r.acquired # Null /\ r.consumed # Null
    BY <2>1, <2>2, ComputedIsKnown DEF Pays, AllKnown
  <2>4. ~r.basisLost
    BY <2>2, Zenon DEF Pays, AllKnown
  <2>5. e.kind # "DISPOSAL"
    BY <1>5
  <2>6. r.proceeds # Null /\ ~r.proceedsLost
    BY <2>5, Zenon DEF Goes, Quotes, AllKnown
  <2> QED
    BY <1>3, <2>3, <2>4, <2>6, Zenon DEF AllKnown
<1>6. CASE e.kind = "TRANSFER_IN"
  <2>1. Receives(s, r, e) /\ e.how = "KNOWN"
    BY <1>1, <1>6 DEF Goes, Worths
  <2>2. r.basis # Null /\ r.acquired # Null /\ r.consumed # Null
    BY <2>1, ComputedIsKnown DEF Receives, AllKnown
  <2>3. ~r.basisLost
    BY <2>1, Zenon DEF Receives, AllKnown
  <2>4. e.kind # "DISPOSAL"
    BY <1>6
  <2>5. r.proceeds # Null /\ ~r.proceedsLost
    BY <2>4, Zenon DEF Goes, Quotes, AllKnown
  <2> QED
    BY <1>3, <2>2, <2>3, <2>5, Zenon DEF AllKnown
<1>7. CASE e.kind = "DISPOSAL"
  <2>1. Proceeds(evs, i) # Null
    BY <1>2, <1>7, ComputedIsKnown DEF Proceeds, Trades
  <2>2. Consumes(s, r, e.q)
    BY <1>7 DEF Goes, Worths
  <2>3. Consumed(s, e.q) # Null
    <3>1. ~s.unknown /\ s.basis # Null
      BY DEF AllKnown
    <3> QED
      BY <3>1, ComputedIsKnown DEF Consumed
  <2>4. r.basis # Null /\ r.acquired # Null /\ r.consumed # Null
    BY <2>2, <2>3, ComputedIsKnown DEF Consumes, AllKnown
  <2>5. ~r.basisLost
    BY <2>2, <2>3, Zenon DEF Consumes, AllKnown
  <2>6. r.proceeds = PlusNullable(s.proceeds, Proceeds(evs, i)) /\ r.proceedsLost = (s.proceedsLost \/ Proceeds(evs, i) = Null)
    BY <1>7, Zenon DEF Goes, Quotes
  <2>7. r.proceeds # Null
    BY <2>1, <2>6, ComputedIsKnown DEF AllKnown
  <2>8. ~r.proceedsLost
    BY <2>1, <2>6, Zenon DEF AllKnown
  <2> QED
    BY <1>3, <2>4, <2>5, <2>7, <2>8, Zenon DEF AllKnown
<1>8. CASE e.kind = "TRANSFER_OUT"
  <2>1. Forgets(s, r, e) /\ e.how # "UNRESOLVED"
    BY <1>1, <1>8 DEF Goes, Worths
  <2>2. r.basis # Null /\ r.acquired # Null /\ r.consumed # Null
    BY <2>1 DEF Forgets, AllKnown
  <2>3. ~r.basisLost
    BY <2>1, Zenon DEF Forgets, AllKnown
  <2>4. e.kind # "DISPOSAL"
    BY <1>8
  <2>5. r.proceeds # Null /\ ~r.proceedsLost
    BY <2>4, Zenon DEF Goes, Quotes, AllKnown
  <2> QED
    BY <1>3, <2>2, <2>3, <2>5, Zenon DEF AllKnown
<1>9. CASE e.kind = "FEE"
  <2>1. e.kind # "DISPOSAL"
    BY <1>9
  <2>2. r.proceeds # Null /\ ~r.proceedsLost
    BY <2>1, Zenon DEF Goes, Quotes, AllKnown
  <2>3. r.basis # Null /\ r.acquired # Null /\ r.consumed # Null /\ ~r.basisLost
    BY <1>9, Zenon DEF Goes, Worths, AllKnown
  <2> QED
    BY <1>3, <2>2, <2>3, Zenon DEF AllKnown
<1> QED
  BY <1>4, <1>5, <1>6, <1>7, <1>8, <1>9

(* Quotes that were mixed remain mixed.                                    *)
LEMMA MixedStays ==
  ASSUME NEW evs, NEW i, NEW s, s.mixed, NEW r, Goes(s, r, evs, i)
  PROVE  r.mixed
BY Zenon DEF Goes, Quotes

(* So a projection of such events, from a known basis, tells all.          *)
LEMMA CourseKnown ==
  ASSUME NEW evs, AreEvents(evs), ~SharedQuoteFee(evs), \A i \in 1..Len(evs) : DependencyCode(evs[i]) = "NONE",
         NEW op, op.basis # Null, NEW s, Course(s, evs, op), ~s[Len(evs) + 1].mixed
  PROVE  AllKnown(s[Len(evs) + 1])
<1> DEFINE n == Len(evs)
           S == {k \in 0..n : AllKnown(s[k + 1]) \/ s[k + 1].mixed}
<1>1. n \in Nat
  BY DEF AreEvents
<1>2. \A i \in 1..n : IsEvent(evs[i]) /\ Goes(s[i], s[i + 1], evs, i) /\ DependencyCode(evs[i]) = "NONE"
  BY DEF AreEvents, Course
<1> HIDE DEF n
<1>3. AllKnown(s[1])
  <2> DEFINE x == Opened(op)
  <2>1. s[1] = x
    BY DEF Course
  <2>2. /\ ~x.mixed /\ ~x.unknown /\ ~x.basisLost /\ ~x.proceedsLost
        /\ x.basis = op.basis /\ x.acquired = Zero /\ x.consumed = Zero /\ x.proceeds = Zero
    BY OpenedIs, Zenon
  <2> HIDE DEF x
  <2>3. AllKnown(x)
    BY <2>2, ComputedIsKnown, Zenon DEF AllKnown
  <2> QED
    BY <2>1, <2>3
<1>4. 0 \in S
  BY <1>1, <1>3
<1>5. ASSUME NEW k \in 0..(n - 1), AllKnown(s[k + 1]) \/ s[k + 1].mixed
      PROVE  AllKnown(s[(k + 1) + 1]) \/ s[(k + 1) + 1].mixed
  <2>1. k + 1 \in 1..n
    BY <1>1
  <2> DEFINE i == k + 1
  <2>2. IsEvent(evs[i]) /\ Goes(s[i], s[i + 1], evs, i) /\ DependencyCode(evs[i]) = "NONE"
    BY <1>2, <2>1
  <2> HIDE DEF i
  <2>3. CASE AllKnown(s[i])
    BY <2>2, <2>3, GoesKnown DEF i
  <2>4. CASE s[i].mixed
    BY <2>2, <2>4, MixedStays, Zenon DEF i
  <2> QED
    BY <1>5, <2>3, <2>4 DEF i
<1>6. n \in S
  <2>1. n \in 0..n /\ \A k \in 0..(n - 1) : k \in S => k + 1 \in S
    BY <1>1, <1>5
  <2> HIDE DEF S
  <2> QED
    BY <1>1, <1>4, <2>1, UpTo
<1> QED
  BY <1>6 DEF n

(* Of an account that tells all, every value is known.                     *)
LEMMA ValuesKnown ==
  ASSUME NEW last, AllKnown(last), NEW op, op.basis # Null, NEW shared, ~shared
  PROVE  \A f \in EconomicFields : Values(last, op, shared)[f] # Null
<1> DEFINE v == Values(last, op, shared)
           pnl == MinusNullable(last.proceeds, last.consumed)
<1>1. /\ ~last.mixed /\ ~last.unknown /\ ~last.basisLost /\ ~last.proceedsLost
      /\ last.basis # Null /\ last.acquired # Null /\ last.consumed # Null /\ last.proceeds # Null
  BY DEF AllKnown
<1>2. v = Realized(last, op, shared, last.proceeds, last.consumed)
  BY <1>1 DEF Values
<1>3. v = Aggregates(last, op, shared, last.proceeds, last.consumed, pnl)
  BY <1>2 DEF Realized
<1>4. pnl # Null
  BY <1>1, ComputedIsKnown
<1>5. Return(pnl, last.consumed) # Null
  <2>1. Known({pnl, last.consumed})
    BY <1>1, <1>4 DEF Known
  <2>2. <<0, 0>> # Null
    BY DEF Null
  <2> QED
    BY <2>1, <2>2, ComputedIsKnown DEF Return
<1> HIDE DEF v, pnl
<1>6. /\ v.opening_attributable_basis = op.basis /\ v.aggregate_acquisition_basis = last.acquired
      /\ v.disposal_proceeds = last.proceeds /\ v.realized_basis_consumed = last.consumed
      /\ v.realized_pnl = pnl /\ v.realized_return = Return(pnl, last.consumed)
      /\ v.ending_target_inventory = Whole(last.inventory) /\ v.remaining_attributable_basis = last.basis
  BY <1>1, <1>3 DEF Aggregates
<1>7. \A f \in EconomicFields : v[f] # Null
  BY <1>1, <1>4, <1>5, <1>6, ComputedIsKnown DEF EconomicFields
<1> QED
  BY <1>7 DEF v

(* Without a dependency there is none of an event, none of the opening and *)
(* none of mixed quotes.                                                   *)
LEMMA NoDependencies ==
  ASSUME NEW evs, AreEvents(evs), DOMAIN evs = 1..Len(evs), NEW op, NEW last, Dependencies(evs, op, last) = {}
  PROVE  /\ op.basis # Null /\ ~last.mixed /\ ~SharedQuoteFee(evs)
         /\ \A i \in 1..Len(evs) : DependencyCode(evs[i]) = "NONE"
<1> DEFINE A == {[code |-> DependencyCode(evs[i]), events |-> {i}] :
                    i \in {j \in DOMAIN evs : DependencyCode(evs[j]) # "NONE"}}
           B == {[code |-> "OPENING_BASIS_UNRESOLVED", events |-> {}] : x \in {op.basis} \cap {Null}}
           C == {[code |-> "MIXED_QUOTE_UNSUPPORTED", events |-> Mixed(evs)] : x \in {last.mixed} \cap {TRUE}}
<1>1. A = {} /\ B = {} /\ C = {}
  BY DEF Dependencies
<1>2. op.basis # Null
  BY <1>1
<1>3. last.mixed # TRUE
  BY <1>1
<1>4. \A i \in 1..Len(evs) : DependencyCode(evs[i]) = "NONE"
  BY <1>1
<1>5. ~SharedQuoteFee(evs)
  <2> SUFFICES ASSUME NEW i \in DOMAIN evs, evs[i].how = "UNALLOCATED_SHARED" PROVE FALSE
    BY DEF SharedQuoteFee
  <2>1. IsEvent(evs[i]) /\ DependencyCode(evs[i]) = "NONE"
    BY <1>4 DEF AreEvents
  <2> QED
    BY <2>1, Independent
<1>6. ~last.mixed
  BY <1>3
<1> QED
  BY <1>2, <1>4, <1>5, <1>6

(* A dependency is of the transactions of the episode's events, or of none. *)
LEMMA DependencyPlaces ==
  ASSUME NEW ep, NEW op, NEW last, ep.dependencies = Dependencies(ep.events, op, last),
         NEW a \in Nat, NEW b \in Nat, \A i \in DOMAIN ep.events : ep.events[i].tx \in a..b,
         NEW item \in DependencyItems(ep)
  PROVE  /\ item.tx = 0 \/ item.tx \in a..b
         /\ item.source \notin {"FOREIGN", "FAILED", "UNCLASSIFIED"}
<1> DEFINE evs == ep.events
<1>1. PICK d \in ep.dependencies :
          item = [source |-> d.code, events |-> d.events,
                  tx |-> IF d.events = {} THEN 0 ELSE Min({ep.events[i].tx : i \in d.events})]
  BY DEF DependencyItems
<1>2. d \in Dependencies(evs, op, last)
  OBVIOUS
<1> HIDE DEF evs
<1>3. \A e : DependencyCode(e) \notin {"FOREIGN", "FAILED", "UNCLASSIFIED"}
  <2> TAKE e
  <2>1. CASE e.kind \in Trades /\ e.how = "UNRESOLVED"
    BY <2>1 DEF DependencyCode, Trades
  <2>2. CASE e.kind = "TRANSFER_IN" /\ e.how = "UNKNOWN"
    BY <2>2 DEF DependencyCode, Trades
  <2>3. CASE e.kind = "TRANSFER_OUT" /\ e.how = "UNRESOLVED"
    BY <2>3 DEF DependencyCode, Trades
  <2>4. CASE e.how = "UNALLOCATED_SHARED"
    BY <2>4 DEF DependencyCode, Trades
  <2>5. CASE /\ ~(e.kind \in Trades /\ e.how = "UNRESOLVED") /\ ~(e.kind = "TRANSFER_IN" /\ e.how = "UNKNOWN")
             /\ ~(e.kind = "TRANSFER_OUT" /\ e.how = "UNRESOLVED") /\ e.how # "UNALLOCATED_SHARED"
    BY <2>5 DEF DependencyCode
  <2> QED
    BY <2>1, <2>2, <2>3, <2>4, <2>5
<1>4. d.events \subseteq DOMAIN evs /\ d.code \notin {"FOREIGN", "FAILED", "UNCLASSIFIED"}
  <2>1. CASE d \in {[code |-> DependencyCode(evs[i]), events |-> {i}] :
                        i \in {j \in DOMAIN evs : DependencyCode(evs[j]) # "NONE"}}
    <3>1. PICK i \in DOMAIN evs : d = [code |-> DependencyCode(evs[i]), events |-> {i}]
      BY <2>1
    <3> QED
      BY <1>3, <3>1
  <2>2. CASE d \in {[code |-> "OPENING_BASIS_UNRESOLVED", events |-> {}] : x \in {op.basis} \cap {Null}}
    BY <2>2
  <2>3. CASE d \in {[code |-> "MIXED_QUOTE_UNSUPPORTED", events |-> Mixed(evs)] : x \in {last.mixed} \cap {TRUE}}
    BY <2>3 DEF Mixed
  <2> QED
    BY <1>2, <2>1, <2>2, <2>3 DEF Dependencies
<1>5. item.tx = (IF d.events = {} THEN 0 ELSE Min({ep.events[i].tx : i \in d.events})) /\ item.source = d.code
  BY <1>1
<1>6. ASSUME d.events # {} PROVE item.tx \in a..b
  <2> DEFINE T == {ep.events[i].tx : i \in d.events}
  <2>1. T # {} /\ T \subseteq a..b
    BY <1>4, <1>6 DEF evs
  <2> HIDE DEF T
  <2>2. T \subseteq Nat
    BY <2>1
  <2>3. \E x \in T : \A y \in T : x <= y
    BY <2>1, <2>2, NatMin
  <2>4. Min(T) \in T
    BY <2>3 DEF Min
  <2> QED
    BY <1>5, <1>6, <2>1, <2>4 DEF T
<1> QED
  BY <1>4, <1>5, <1>6

(* What no rule excludes affects the claim.                                *)
LEMMA NoRule ==
  ASSUME NEW rs, NEW ep, NEW item, ~(ClosedAt(ep) # 0 /\ item.tx > ClosedAt(ep)),
         ~(item.tx # 0 /\ item.tx < ZeroOpenAt(rs, ep)), item.source \notin {"FOREIGN", "FAILED", "UNCLASSIFIED"}
  PROVE  Rule(rs, ep, item) = "NONE"
BY DEF Rule

(* An episode without anything that affects its claim tells every value.   *)
LEMMA WithheldForAReason ==
  ASSUME NEW ep, NEW p, NEW op, EpisodeOf(ep, p, op), NEW a \in Nat, NEW b \in Nat,
         \A i \in DOMAIN ep.events : ep.events[i].tx \in a..b,
         NEW rs, ClosedAt(ep) \in {0, b}, ZeroOpenAt(rs, ep) \in {0, a}, Affecting(rs, ep) = {}
  PROVE  \A f \in EconomicFields : ep.values[f] # Null
<1> DEFINE evs == ep.events
           n == Len(evs)
           last == p[n + 1]
<1>1. /\ evs \in Seq(Range(evs)) /\ AreEvents(evs) /\ Course(p, evs, op) /\ DOMAIN evs = 1..n
      /\ ep.values = Values(last, op, SharedQuoteFee(evs)) /\ ep.dependencies = Dependencies(evs, op, last)
  BY DEF EpisodeOf
<1>2. DependencyItems(ep) = {}
  <2> SUFFICES ASSUME NEW item \in DependencyItems(ep) PROVE FALSE
    OBVIOUS
  <2>1. /\ item.tx = 0 \/ item.tx \in a..b
        /\ item.source \notin {"FOREIGN", "FAILED", "UNCLASSIFIED"}
    BY <1>1, DependencyPlaces
  <2>2. ~(ClosedAt(ep) # 0 /\ item.tx > ClosedAt(ep))
    BY <2>1
  <2>3. ~(item.tx # 0 /\ item.tx < ZeroOpenAt(rs, ep))
    BY <2>1
  <2>4. Rule(rs, ep, item) = "NONE"
    BY <2>1, <2>2, <2>3, NoRule
  <2> QED
    BY <2>4 DEF Affecting, Items
<1>3. Dependencies(evs, op, last) = {}
  BY <1>1, <1>2 DEF DependencyItems
<1> HIDE DEF evs, last
<1>4. /\ op.basis # Null /\ ~last.mixed /\ ~SharedQuoteFee(evs)
      /\ \A i \in 1..Len(evs) : DependencyCode(evs[i]) = "NONE"
  BY <1>1, <1>3, NoDependencies
<1>5. AllKnown(last)
  BY <1>1, <1>4, CourseKnown DEF last
<1> QED
  BY <1>1, <1>4, <1>5, ValuesKnown

-----------------------------------------------------------------------------
(* Where the scan cuts *)

(* After t transactions the closed spans end at genuine zeros, and the     *)
(* open one has met none.                                                  *)
CutAtZeros(w, t, full) ==
  /\ Scanned(w) /\ DOMAIN w.open = OpenSpan
  /\ \A x \in Range(w.spans) : x.closed = TRUE /\ x.end \in 1..t /\ x.end \in Zeros(full)
  /\ w.open.start \in 0..(t + 1)
  /\ w.open.start # 0 => \A j \in 1..t : j >= w.open.start => j \notin Zeros(full)

(* One place more holds one thing more.                                    *)
LEMMA AppendedRange ==
  ASSUME NEW s, s \in Seq(Range(s)), NEW x
  PROVE  Range(Append(s, x)) = Range(s) \cup {x}
<1> DEFINE z == Append(s, x)
           n == Len(s)
<1>1. n \in Nat /\ DOMAIN s = 1..n
  OBVIOUS
<1>2. DOMAIN z = 1..(n + 1) /\ \A i \in 1..(n + 1) : z[i] = IF i = n + 1 THEN x ELSE s[i]
  BY <1>1
<1> HIDE DEF z, n
<1>3. \A i \in 1..n : i \in 1..(n + 1) /\ i # n + 1
  BY <1>1
<1>4. n + 1 \in 1..(n + 1) /\ \A i \in 1..(n + 1) : i = n + 1 \/ i \in 1..n
  BY <1>1
<1>5. \A y : (\E i \in DOMAIN z : y = z[i]) <=> (\E i \in DOMAIN s : y = s[i]) \/ y = x
  BY <1>1, <1>2, <1>3, <1>4
<1> QED
  BY <1>5 DEF Range, z

(* A transaction adds at most one span, that ends with it.                 *)
Visited(w, o, t, full, r) ==
  /\ Scanned(r)
  /\ o.start = 0 => r = w
  /\ o.start # 0 /\ t \in Zeros(full) => r.open = Dormant /\ Range(r.spans) = Range(w.spans) \cup {Ended(o, t, TRUE)}
  /\ o.start # 0 /\ t \notin Zeros(full) => r.open = o /\ r.spans = w.spans
LEMMA ReachSpans ==
  ASSUME NEW w, Scanned(w), NEW t, NEW row, NEW full
  PROVE  Visited(w, SpanAt(w, t, row, full), t, full, Reach(w, t, row, full))
<1> DEFINE o == SpanAt(w, t, row, full)
           r == Reach(w, t, row, full)
           x == Ended(o, t, TRUE)
           z == Append(w.spans, x)
<1>1. r = Visit(w, o, t, full)
  BY DEF Reach
<1>2. Scanned(r)
  BY ReachKeeps
<1> HIDE DEF o, r, x
<1>3. o.start = 0 => r = w
  BY <1>1 DEF Visit
<1>4. ASSUME o.start # 0, t \in Zeros(full)
      PROVE  r.open = Dormant /\ Range(r.spans) = Range(w.spans) \cup {x}
  <2>1. r.open = Dormant /\ r.spans = z
    BY ONLY <1>1, <1>4 DEF Visit, x
  <2>2. Range(z) = Range(w.spans) \cup {x}
    BY AppendedRange DEF Scanned, z
  <2> QED
    BY <2>1, <2>2
<1>5. ASSUME o.start # 0, t \notin Zeros(full)
      PROVE  r.open = o /\ r.spans = w.spans
  <2>1. r = [w EXCEPT !.open = o]
    BY <1>1, <1>5 DEF Visit
  <2> QED
    BY <2>1 DEF Scanned
<1> QED
  BY <1>2, <1>3, <1>4, <1>5 DEF Visited, o, r, x

(* One transaction more.                                                   *)
LEMMA ReachCuts ==
  ASSUME NEW t \in Nat \ {0}, NEW full, NEW w, CutAtZeros(w, t - 1, full), NEW row
  PROVE  CutAtZeros(Reach(w, t, row, full), t, full)
<1> DEFINE o == SpanAt(w, t, row, full)
           r == Reach(w, t, row, full)
           x == Ended(o, t, TRUE)
<1>1. /\ DOMAIN o = OpenSpan
      /\ o.start = t \/ o.start = w.open.start
      /\ w.open.start # 0 => o.start = w.open.start
  <2>1. DOMAIN w.open = OpenSpan
    BY DEF CutAtZeros
  <2> QED
    BY <2>1, SpanAtIs
<1>2. /\ Scanned(r)
      /\ o.start = 0 => r = w
      /\ o.start # 0 /\ t \in Zeros(full) => r.open = Dormant /\ Range(r.spans) = Range(w.spans) \cup {x}
      /\ o.start # 0 /\ t \notin Zeros(full) => r.open = o /\ r.spans = w.spans
  <2>1. Scanned(w)
    BY DEF CutAtZeros
  <2>2. Visited(w, o, t, full, r)
    BY <2>1, ReachSpans
  <2> HIDE DEF o, r
  <2> QED
    BY <2>2 DEF Visited
<1>3. x.end = t /\ x.closed = TRUE
  BY DEF Ended
<1> SUFFICES CutAtZeros(r, t, full)
  OBVIOUS
<1> HIDE DEF o, r, x
<1>4. \A y \in Range(w.spans) : y.closed = TRUE /\ y.end \in 1..t /\ y.end \in Zeros(full)
  BY DEF CutAtZeros
<1>5. CASE o.start = 0
  <2>1. r = w /\ w.open.start = 0
    BY <1>1, <1>2, <1>5
  <2>2. DOMAIN w.open = OpenSpan /\ w.open.start \in 0..(t + 1)
    BY <2>1 DEF CutAtZeros
  <2> QED
    BY <1>2, <1>4, <2>1, <2>2 DEF CutAtZeros
<1>6. CASE o.start # 0 /\ t \in Zeros(full)
  <2>1. r.open.start = 0 /\ DOMAIN r.open = OpenSpan
    BY <1>2, <1>6 DEF Dormant, OpenSpan
  <2>2. \A y \in Range(r.spans) : y.closed = TRUE /\ y.end \in 1..t /\ y.end \in Zeros(full)
    BY <1>2, <1>3, <1>4, <1>6
  <2>3. 0 \in 0..(t + 1)
    OBVIOUS
  <2> QED
    BY <1>2, <2>1, <2>2, <2>3 DEF CutAtZeros
<1>7. CASE o.start # 0 /\ t \notin Zeros(full)
  <2>1. r.open = o /\ r.spans = w.spans
    BY <1>2, <1>7
  <2>2. w.open.start \in 0..((t - 1) + 1) /\ (t - 1) + 1 = t
    BY DEF CutAtZeros
  <2>3. o.start \in 0..(t + 1)
    BY <1>1, <2>2
  <2>4. ASSUME NEW j \in 1..t, j >= o.start PROVE j \notin Zeros(full)
    <3>1. CASE j = t
      BY <1>7, <3>1
    <3>2. CASE j # t
      <4>1. j \in 1..(t - 1) /\ o.start # t
        BY <2>3, <2>4, <3>2
      <4>2. w.open.start = o.start /\ w.open.start # 0
        BY <1>1, <1>7, <4>1
      <4> QED
        BY <2>4, <4>1, <4>2 DEF CutAtZeros
    <3> QED
      BY <3>1, <3>2
  <2> QED
    BY <1>1, <1>2, <1>4, <2>1, <2>3, <2>4 DEF CutAtZeros
<1> QED
  BY <1>5, <1>6, <1>7

(* The scan of a window, transaction by transaction.                       *)
FirstSpan(op) == IF op.units > 0 THEN [Dormant EXCEPT !.start = 1, !.scope = TRUE] ELSE Dormant
ScanOf(v, rs, op, full) ==
  /\ Scan(rs, op, full) = v[Len(rs)]
  /\ v[0] = [open |-> FirstSpan(op), spans |-> <<>>, lastZero |-> 0]
  /\ \A t \in 1..Len(rs) : v[t] = Reach(v[t - 1], t, rs[t], full)
  /\ \A t \in 0..Len(rs) : CutAtZeros(v[t], t, full)
LEMMA ScanIs ==
  ASSUME NEW rs, Len(rs) \in Nat, NEW op, op.units \in Nat, NEW full
  PROVE  \E v : ScanOf(v, rs, op, full)
<1> DEFINE n == Len(rs)
           first == FirstSpan(op)
           base == [open |-> first, spans |-> <<>>, lastZero |-> 0]
           v == CHOOSE f : Steps(f, n, first, rs, full)
           S == {k \in 0..n : CutAtZeros(v[k], k, full)}
<1>1. n \in Nat
  OBVIOUS
<1>2. Scan(rs, op, full) = v[n]
  BY DEF Scan, Steps, FirstSpan
<1>3. DOMAIN first = OpenSpan /\ first.start \in 0..1
  BY DEF FirstSpan, Dormant, OpenSpan
<1> HIDE DEF n, first
<1>4. Steps(v, n, first, rs, full)
  BY <1>1, ScanExists
<1> HIDE DEF v
<1>5. \A t \in 0..n : v[t] = IF t = 0 THEN base ELSE Reach(v[t - 1], t, rs[t], full)
  BY <1>4 DEF Steps
<1>6. CutAtZeros(base, 0, full)
  <2>1. /\ DOMAIN base = {"open", "spans", "lastZero"} /\ base.open = first /\ base.spans = <<>>
        /\ base.spans \in Seq(Range(base.spans)) /\ Range(base.spans) = {}
    BY DEF Range
  <2> HIDE DEF base
  <2>2. \A j \in 1..0 : FALSE
    OBVIOUS
  <2> QED
    BY <1>3, <2>1, <2>2 DEF CutAtZeros, Scanned
<1> HIDE DEF base
<1>7. v[0] = base /\ \A t \in 1..n : v[t] = Reach(v[t - 1], t, rs[t], full)
  <2>1. 0 \in 0..n /\ \A t \in 1..n : t \in 0..n /\ t # 0
    BY <1>1
  <2> QED
    BY <1>5, <2>1
<1>8. \A k \in 0..n : k \in S
  <2>1. 0 \in S
    BY <1>1, <1>6, <1>7
  <2>2. ASSUME NEW k \in 0..(n - 1), CutAtZeros(v[k], k, full)
        PROVE  CutAtZeros(v[k + 1], k + 1, full)
    <3>1. k + 1 \in 1..n /\ (k + 1) - 1 = k /\ k + 1 \in Nat \ {0}
      BY <1>1
    <3>2. v[k + 1] = Reach(v[k], k + 1, rs[k + 1], full)
      BY <1>7, <3>1
    <3>3. CutAtZeros(v[k], (k + 1) - 1, full)
      BY <2>2, <3>1
    <3>4. CutAtZeros(Reach(v[k], k + 1, rs[k + 1], full), k + 1, full)
      BY ONLY <3>1, <3>3, ReachCuts
    <3> QED
      BY <3>2, <3>4
  <2>3. \A k \in 0..(n - 1) : k \in S => k + 1 \in S
    BY <1>1, <2>2
  <2> HIDE DEF S
  <2> QED
    BY <1>1, <2>1, <2>3, UpTo
<1> QED
  BY <1>2, <1>7, <1>8 DEF ScanOf, n, base, first

(* What is cut stays cut, and what is cut later ends later.                *)
LEMMA SpansStay ==
  ASSUME NEW rs, Len(rs) \in Nat, NEW op, NEW full, NEW v, ScanOf(v, rs, op, full), NEW b \in 0..Len(rs)
  PROVE  /\ Range(v[b].spans) \subseteq Range(v[Len(rs)].spans)
         /\ \A x \in Range(v[Len(rs)].spans) : x.end <= b => x \in Range(v[b].spans)
<1> DEFINE n == Len(rs)
           d == n - b
           Kept(k) == /\ Range(v[b].spans) \subseteq Range(v[k].spans)
                      /\ \A x \in Range(v[k].spans) : x.end <= b => x \in Range(v[b].spans)
           S == {k \in 0..d : Kept(b + k)}
<1>1. /\ n \in Nat /\ b \in 0..n /\ d \in Nat /\ b + d = n
      /\ \A t \in 1..n : v[t] = Reach(v[t - 1], t, rs[t], full)
      /\ \A t \in 0..n : Scanned(v[t])
  BY DEF ScanOf, CutAtZeros
<1> HIDE DEF n, d
<1>2. ASSUME NEW k \in 0..(d - 1), Kept(b + k)
      PROVE  Kept(b + (k + 1))
  <2> DEFINE t == b + (k + 1)
             w == v[b + k]
             r == v[t]
             o == SpanAt(w, t, rs[t], full)
             x == Ended(o, t, TRUE)
  <2>1. t \in 1..n /\ t - 1 = b + k /\ b + k \in 0..n /\ t \in Int /\ ~(t <= b)
    BY <1>1
  <2>2. r = Reach(w, t, rs[t], full) /\ Scanned(w)
    BY <1>1, <2>1
  <2>3. x.end = t
    BY DEF Ended
  <2>4. Kept(b + k)
    BY <1>2
  <2> HIDE DEF t, Kept
  <2>5. Range(r.spans) = Range(w.spans) \/ Range(r.spans) = Range(w.spans) \cup {x}
    <3>1. Visited(w, o, t, full, Reach(w, t, rs[t], full))
      BY <2>2, ReachSpans
    <3> HIDE DEF w, r, o
    <3> QED
      BY <2>2, <3>1 DEF Visited
  <2> HIDE DEF r, w, x
  <2>6. \A y \in Range(r.spans) : y.end <= b => y \in Range(w.spans)
    BY <2>1, <2>3, <2>5
  <2>7. Kept(t)
    BY <2>4, <2>5, <2>6 DEF Kept, r, w
  <2> QED
    BY <2>7 DEF t
<1>3. Kept(b + 0)
  BY <1>1
<1>4. d \in S
  <2> HIDE DEF Kept
  <2>1. 0 \in S /\ d \in 0..d
    BY <1>1, <1>3
  <2>2. \A k \in 0..(d - 1) : k \in S => k + 1 \in S
    BY <1>1, <1>2
  <2> HIDE DEF S
  <2> QED
    BY <1>1, <2>1, <2>2, UpTo
<1>5. Kept(n)
  BY <1>1, <1>4
<1> QED
  BY <1>5 DEF n

-----------------------------------------------------------------------------
(* Two windows of the same first transactions *)

(* The events of the first b transactions come first.                      *)
LEMMA GatheredPart ==
  ASSUME NEW rs, AreRows(rs), NEW v, NEW c, Gathered(v, c, rs), NEW b \in 0..Len(rs)
  PROVE  Part(v[b], CanonicalEvents(rs), 0, c[b])
<1> DEFINE n == Len(rs)
           d == n - b
           x == v[b]
           First(y) == Len(x) <= Len(y) /\ \A i \in 1..Len(x) : y[i] = x[i]
           S == {k \in 0..d : First(v[b + k])}
<1>1. /\ n \in Nat /\ b \in 0..n /\ d \in Nat /\ b + d = n
      /\ \A t \in 1..n : rs[t].events \in Seq(Shapes)
  BY DEF AreRows
<1>2. /\ \A t \in 0..n : v[t] = IF t = 0 THEN <<>> ELSE v[t - 1] \o Placed(rs[t].events, t)
      /\ CanonicalEvents(rs) = v[n]
      /\ \A t \in 0..n : c[t] = Len(v[t]) /\ v[t] \in Seq(Range(v[t]))
  BY DEF Gathered, Collected, Canonical
<1> HIDE DEF n, d
<1>3. x \in Seq(Range(x)) /\ Len(x) \in Nat /\ c[b] = Len(x)
  BY <1>1, <1>2
<1> HIDE DEF x
<1>4. First(v[b + 0])
  BY <1>1, <1>3 DEF x
<1>5. ASSUME NEW k \in 0..(d - 1), First(v[b + k])
      PROVE  First(v[b + (k + 1)])
  <2> DEFINE t == b + (k + 1)
             y == v[b + k]
             p == Placed(rs[t].events, t)
             U == Range(y) \cup Range(p)
             z == y \o p
  <2>1. t \in 1..n /\ t # 0 /\ t \in 0..n /\ t - 1 = b + k /\ b + k \in 0..n
    BY <1>1
  <2>2. v[t] = z /\ y \in Seq(Range(y))
    BY <1>2, <2>1
  <2>3. p \in Seq(Range(p))
    BY <1>1, <2>1, PlacedIs
  <2>4. First(y)
    BY <1>5
  <2> HIDE DEF t, y, p, First
  <2>5. y \in Seq(U) /\ p \in Seq(U)
    BY <2>2, <2>3
  <2> HIDE DEF U
  <2>6. /\ Len(z) = Len(y) + Len(p) /\ Len(y) \in Nat /\ Len(p) \in Nat
        /\ \A i \in 1..(Len(y) + Len(p)) : z[i] = IF i <= Len(y) THEN y[i] ELSE p[i - Len(y)]
    BY <2>5, ConcatProperties
  <2> HIDE DEF z
  <2>7. Len(x) <= Len(y) /\ \A i \in 1..Len(x) : y[i] = x[i]
    BY <2>4 DEF First
  <2>8. ASSUME NEW i \in 1..Len(x) PROVE z[i] = x[i]
    <3>1. i \in 1..(Len(y) + Len(p)) /\ i <= Len(y)
      BY <1>3, <2>6, <2>7
    <3> QED
      BY <2>6, <2>7, <3>1
  <2>9. Len(x) <= Len(z)
    BY <1>3, <2>6, <2>7
  <2>10. First(z)
    BY <2>8, <2>9 DEF First
  <2> QED
    BY <2>2, <2>10 DEF t
<1>6. d \in S
  <2> HIDE DEF First
  <2>1. 0 \in S /\ d \in 0..d
    BY <1>1, <1>4
  <2>2. \A k \in 0..(d - 1) : k \in S => k + 1 \in S
    BY <1>1, <1>5
  <2> HIDE DEF S
  <2> QED
    BY <1>1, <2>1, <2>2, UpTo
<1>7. First(v[n])
  <2> HIDE DEF First
  <2> QED
    BY <1>1, <1>6
<1>8. Len(v[n]) \in Nat
  <2>1. n \in 0..n
    BY <1>1
  <2> QED
    BY <1>2, <2>1
<1>9. c[b] - 0 = Len(x) /\ 0 \in 0..c[b] /\ c[b] \in 0..Len(v[n]) /\ \A i : 0 + i = i \/ i \notin Int
  BY <1>3, <1>7, <1>8
<1>10. \A i \in 1..(c[b] - 0) : x[i] = v[n][0 + i]
  BY <1>3, <1>7, <1>9
<1> HIDE DEF First
<1> QED
  BY <1>2, <1>3, <1>9, <1>10 DEF Part, x

(* Of the same first transactions the same events are gathered.            *)
LEMMA GatheredAgree ==
  ASSUME NEW rs, Len(rs) \in Nat, NEW v, NEW c, Gathered(v, c, rs),
         NEW rs2, Len(rs2) \in Nat, NEW v2, NEW c2, Gathered(v2, c2, rs2),
         NEW b \in Nat, b <= Len(rs), b <= Len(rs2), \A t \in 1..b : rs[t] = rs2[t]
  PROVE  \A t \in 0..b : v[t] = v2[t] /\ c[t] = c2[t]
<1> DEFINE S == {t \in 0..b : v[t] = v2[t]}
<1>1. /\ \A t \in 0..b : v[t] = IF t = 0 THEN <<>> ELSE v[t - 1] \o Placed(rs[t].events, t)
      /\ \A t \in 0..b : v2[t] = IF t = 0 THEN <<>> ELSE v2[t - 1] \o Placed(rs2[t].events, t)
      /\ \A t \in 0..b : c[t] = Len(v[t]) /\ c2[t] = Len(v2[t])
  <2>1. \A t \in 0..b : t \in 0..Len(rs) /\ t \in 0..Len(rs2)
    OBVIOUS
  <2> QED
    BY <2>1 DEF Gathered, Collected
<1>2. 0 \in S
  BY <1>1
<1>3. ASSUME NEW k \in 0..(b - 1), v[k] = v2[k]
      PROVE  v[k + 1] = v2[k + 1]
  <2>1. k + 1 \in 0..b /\ k + 1 # 0 /\ (k + 1) - 1 = k /\ k + 1 \in 1..b
    OBVIOUS
  <2>2. v[k + 1] = v[k] \o Placed(rs[k + 1].events, k + 1) /\ v2[k + 1] = v2[k] \o Placed(rs2[k + 1].events, k + 1)
    BY <1>1, <2>1
  <2>3. rs[k + 1] = rs2[k + 1]
    BY <2>1
  <2> QED
    BY <1>3, <2>2, <2>3
<1>4. \A k \in 0..b : k \in S
  <2>1. \A k \in 0..(b - 1) : k \in S => k + 1 \in S
    BY <1>3
  <2> HIDE DEF S
  <2> QED
    BY <1>2, <2>1, UpTo
<1> QED
  BY <1>1, <1>4

(* The first k events are the same in both ledgers, and met the same.      *)
Alongside(f, g, k) ==
  \A i \in 1..k : /\ i \in DOMAIN f.events /\ i \in DOMAIN g.events /\ f.events[i] = g.events[i]
                  /\ f.after[i].inventory = g.after[i].inventory /\ f.after[i].unknown = g.after[i].unknown
                  /\ f.after[i].zero = g.after[i].zero
(* A part that ends with a transaction goes alike in both.                 *)
LEMMA FirstEventsAgree ==
  ASSUME NEW evs, NEW c, NEW m \in Nat, Canonical(evs, c, m), NEW b \in 0..m, NEW part, Part(part, evs, 0, c[b]),
         NEW evs2, NEW c2, NEW m2 \in Nat, Canonical(evs2, c2, m2), b \in 0..m2, Part(part, evs2, 0, c2[b]),
         c[b] = c2[b], NEW op, NEW s, Course(s, evs, op), NEW s2, Course(s2, evs2, op),
         NEW full, Ledgered(full, evs, s), NEW full2, Ledgered(full2, evs2, s2)
  PROVE  Alongside(full, full2, c[b])
<1> DEFINE k == c[b]
           p == Projection(part, op)
<1>1. k \in Nat /\ k \in 0..Len(evs) /\ k \in 0..Len(evs2) /\ k - 0 = k /\ Len(part) = k
  BY DEF Part, Canonical
<1>2. ProjectionOf(p, part, op)
  BY <1>1, ProjectionIs
<1> HIDE DEF p
<1>3. Alike(Opened(op), s[0 + 1]) /\ Alike(Opened(op), s2[0 + 1])
  <2>1. s[0 + 1] = Opened(op) /\ s2[0 + 1] = Opened(op)
    BY DEF Course
  <2> QED
    BY <2>1 DEF Alike
<1>4. \A i \in 0..(c[b] - 0) : Mirrors(p, s, 0, i)
  BY ONLY <1>2, <1>3, m \in Nat, b \in 0..m, Canonical(evs, c, m), Part(part, evs, 0, c[b]), Course(s, evs, op), PartMirrors
<1>5. \A i \in 0..(c2[b] - 0) : Mirrors(p, s2, 0, i)
  BY ONLY <1>2, <1>3, m2 \in Nat, b \in 0..m2, Canonical(evs2, c2, m2), Part(part, evs2, 0, c2[b]),
          Course(s2, evs2, op), PartMirrors
<1>6. ASSUME NEW i \in 1..k
      PROVE  /\ i \in DOMAIN full.events /\ i \in DOMAIN full2.events /\ full.events[i] = full2.events[i]
             /\ full.after[i].inventory = full2.after[i].inventory
             /\ full.after[i].unknown = full2.after[i].unknown /\ full.after[i].zero = full2.after[i].zero
  <2>1. i \in 1..Len(evs) /\ i \in 1..Len(evs2) /\ i \in 0..k /\ 0 + i = i /\ i # 0
    BY <1>1
  <2>2. i \in DOMAIN evs /\ i \in DOMAIN evs2
    BY <2>1 DEF Canonical
  <2>3. evs[i] = part[i] /\ evs2[i] = part[i]
    BY <1>1, <2>1 DEF Part
  <2>4. full.after[i] = s[i + 1] /\ full2.after[i] = s2[i + 1] /\ full.events = evs /\ full2.events = evs2
    BY <2>1 DEF Ledgered
  <2>5. Mirrors(p, s, 0, i) /\ Mirrors(p, s2, 0, i)
    BY <1>1, <1>4, <1>5, <2>1
  <2>6. /\ p[i + 1].zero = s[i + 1].zero /\ p[i + 1].zero = s2[i + 1].zero
        /\ Alike(p[i + 1], s[i + 1]) /\ Alike(p[i + 1], s2[i + 1])
    BY <2>1, <2>5, Zenon DEF Mirrors
  <2> QED
    BY <2>2, <2>3, <2>4, <2>6, Zenon DEF Alike
<1> QED
  BY <1>6 DEF Alongside

(* So the first transactions establish the same and end at the same zeros. *)
LEMMA FirstTransactionsAgree ==
  ASSUME NEW full, NEW c, NEW m \in Nat, Canonical(full.events, c, m), NEW b \in 0..m,
         NEW full2, Alongside(full, full2, c[b]), NEW t \in 1..b
  PROVE  /\ EstablishesInventory(full, t) => EstablishesInventory(full2, t)
         /\ t \in Zeros(full) => t \in Zeros(full2)
<1> DEFINE evs == full.events
<1>1. ASSUME NEW i \in DOMAIN evs, evs[i].tx = t PROVE i \in 1..c[b]
  <2>1. i \in 1..Len(evs) /\ c[b] \in 0..Len(evs) /\ (i <= c[b] <=> evs[i].tx <= b)
    BY DEF Canonical
  <2> QED
    BY <1>1, <2>1
<1>2. ASSUME EstablishesInventory(full, t) PROVE EstablishesInventory(full2, t)
  <2>1. PICK i \in DOMAIN evs : evs[i].tx = t /\ ~full.after[i].unknown /\ full.after[i].inventory > 0
    BY <1>2 DEF EstablishesInventory
  <2>2. /\ i \in DOMAIN full2.events /\ evs[i] = full2.events[i]
        /\ full.after[i].inventory = full2.after[i].inventory /\ full.after[i].unknown = full2.after[i].unknown
    BY <1>1, <2>1, Zenon DEF Alongside
  <2>3. ~full2.after[i].unknown
    BY <2>1, <2>2, Zenon
  <2>4. full2.events[i].tx = t /\ full2.after[i].inventory > 0
    BY <2>1, <2>2
  <2> QED
    BY <2>2, <2>3, <2>4, Zenon DEF EstablishesInventory
<1>3. ASSUME t \in Zeros(full) PROVE t \in Zeros(full2)
  <2>1. PICK i \in DOMAIN evs : evs[i].tx = t /\ full.after[i].zero
    BY <1>3 DEF Zeros
  <2>2. i \in DOMAIN full2.events /\ evs[i] = full2.events[i] /\ full.after[i].zero = full2.after[i].zero
    BY <1>1, <2>1, Zenon DEF Alongside
  <2>3. full2.after[i].zero /\ full2.events[i].tx = t
    BY <2>1, <2>2, Zenon
  <2> QED
    BY <2>2, <2>3, Zenon DEF Zeros
<1> QED
  BY <1>2, <1>3

-----------------------------------------------------------------------------
(* The same spans of the same first transactions *)

(* Scans of the same first transactions, with the same zeros, are the      *)
(* same so far.                                                            *)
LEMMA ScansAgree ==
  ASSUME NEW rs, NEW rs2, NEW op, NEW full, NEW full2, NEW v, ScanOf(v, rs, op, full), NEW v2, ScanOf(v2, rs2, op, full2),
         Len(rs) \in Nat, Len(rs2) \in Nat, NEW b \in Nat, b <= Len(rs), b <= Len(rs2),
         \A t \in 1..b : /\ rs[t] = rs2[t]
                         /\ t \in Zeros(full) <=> t \in Zeros(full2)
                         /\ EstablishesInventory(full, t) <=> EstablishesInventory(full2, t)
  PROVE  v[b] = v2[b]
<1> DEFINE S == {k \in 0..b : v[k] = v2[k]}
<1>1. /\ v[0] = v2[0]
      /\ \A t \in 1..b : v[t] = Reach(v[t - 1], t, rs[t], full) /\ v2[t] = Reach(v2[t - 1], t, rs2[t], full2)
  <2>1. \A t \in 1..b : t \in 1..Len(rs) /\ t \in 1..Len(rs2)
    OBVIOUS
  <2> QED
    BY <2>1 DEF ScanOf
<1>2. ASSUME NEW k \in 0..(b - 1), v[k] = v2[k]
      PROVE  v[k + 1] = v2[k + 1]
  <2> DEFINE t == k + 1
             w == v[k]
             row == rs[t]
             o == SpanAt(w, t, row, full)
  <2>1. t \in 1..b /\ t - 1 = k
    OBVIOUS
  <2>2. v[t] = Reach(w, t, row, full) /\ v2[t] = Reach(w, t, row, full2)
    BY <1>1, <1>2, <2>1
  <2>3. SpanAt(w, t, row, full2) = o
    BY <2>1 DEF SpanAt
  <2> HIDE DEF o, w, row, t
  <2>4. Visit(w, o, t, full) = Visit(w, o, t, full2)
    <3>1. CASE t \in Zeros(full)
      BY <2>1, <3>1 DEF Visit
    <3>2. CASE t \notin Zeros(full)
      BY <2>1, <3>2 DEF Visit
    <3> QED
      BY <3>1, <3>2
  <2>5. v[t] = v2[t]
    BY <2>2, <2>3, <2>4 DEF Reach, o
  <2> QED
    BY <2>5 DEF t
<1>3. b \in S
  <2>1. 0 \in S /\ b \in 0..b
    BY <1>1
  <2>2. \A k \in 0..(b - 1) : k \in S => k + 1 \in S
    BY <1>2
  <2> HIDE DEF S
  <2> QED
    BY <2>1, <2>2, UpTo
<1> QED
  BY <1>3

(* A closed span ends at a genuine zero, and an open one has met none.     *)
SpanCut(x, m, full) ==
  /\ x.closed => x.end \in Zeros(full)
  /\ ~x.closed => \A j \in 1..m : j >= x.start => j \notin Zeros(full)
(* The spans reported are those cut, and the open one.                     *)
LEMMA SpansReported ==
  ASSUME NEW rs, Len(rs) \in Nat, NEW op, NEW full, NEW v, ScanOf(v, rs, op, full)
  PROVE  /\ Range(v[Len(rs)].spans) \subseteq Range(Spans(Scan(rs, op, full), Len(rs)))
         /\ \A x \in Range(Spans(Scan(rs, op, full), Len(rs))) :
               SpanCut(x, Len(rs), full) /\ (x.closed => x \in Range(v[Len(rs)].spans))
<1> DEFINE n == Len(rs)
           w == v[n]
           sp == Spans(w, n)
<1>1. Scan(rs, op, full) = w /\ CutAtZeros(w, n, full)
  <2>1. n \in 0..n
    OBVIOUS
  <2> QED
    BY <2>1 DEF ScanOf
<1> HIDE DEF w, n
<1>2. /\ w.spans \in Seq(Range(w.spans))
      /\ \A x \in Range(w.spans) : x.closed = TRUE /\ x.end \in Zeros(full)
  BY <1>1 DEF CutAtZeros, Scanned
<1>3. \A x \in Range(w.spans) : SpanCut(x, n, full)
  BY <1>2 DEF SpanCut
<1>4. CASE w.open.start = 0
  <2>1. sp = w.spans
    BY <1>4 DEF Spans
  <2> QED
    BY <1>1, <1>3, <2>1 DEF w, n
<1>5. CASE w.open.start # 0
  <2> DEFINE x == Ended(w.open, n, FALSE)
  <2>1. sp = Append(w.spans, x)
    BY <1>5 DEF Spans
  <2>2. x.closed = FALSE /\ x.start = w.open.start
    BY DEF Ended
  <2> HIDE DEF x, sp
  <2>3. Range(sp) = Range(w.spans) \cup {x}
    BY <1>2, <2>1, AppendedRange
  <2>4. \A j \in 1..n : j >= w.open.start => j \notin Zeros(full)
    BY <1>1, <1>5 DEF CutAtZeros
  <2>5. SpanCut(x, n, full)
    BY <2>2, <2>4 DEF SpanCut
  <2> QED
    BY <1>1, <1>3, <2>2, <2>3, <2>5 DEF w, n, sp
<1> QED
  BY <1>4, <1>5

(* A span that closed within the same first transactions is reported of    *)
(* both windows.                                                           *)
LEMMA SpanSurvives ==
  ASSUME NEW rs, Len(rs) \in Nat, NEW op, NEW full, NEW v, ScanOf(v, rs, op, full),
         NEW rs2, Len(rs2) \in Nat, NEW full2, NEW v2, ScanOf(v2, rs2, op, full2),
         NEW b \in Nat, b <= Len(rs), b <= Len(rs2), v[b] = v2[b],
         NEW x \in Range(Spans(Scan(rs, op, full), Len(rs))), x.closed, x.end <= b
  PROVE  x \in Range(Spans(Scan(rs2, op, full2), Len(rs2)))
<1>1. b \in 0..Len(rs) /\ b \in 0..Len(rs2)
  OBVIOUS
<1>2. x \in Range(v[Len(rs)].spans)
  BY SpansReported
<1>3. x \in Range(v[b].spans)
  BY <1>1, <1>2, SpansStay
<1>4. x \in Range(v2[Len(rs2)].spans)
  BY <1>1, <1>3, SpansStay
<1> QED
  BY <1>4, SpansReported

-----------------------------------------------------------------------------
(* The same episodes of the same first transactions *)

(* A span within the same first transactions has the same events.          *)
LEMMA SpanEventsAgree ==
  ASSUME NEW evs, NEW c, NEW m \in Nat, Canonical(evs, c, m), NEW evs2, NEW c2, NEW m2 \in Nat, Canonical(evs2, c2, m2),
         NEW b \in Nat, b <= m, b <= m2, \A t \in 0..b : c[t] = c2[t],
         NEW part, Part(part, evs, 0, c[b]), Part(part, evs2, 0, c2[b]),
         NEW span, span.end \in 0..b, span.start \in 1..(span.end + 1)
  PROVE  SpanEvents(evs, span) = SpanEvents(evs2, span)
<1> DEFINE x == SpanEvents(evs, span)
           y == SpanEvents(evs2, span)
           lo == c[span.start - 1]
           hi == c[span.end]
<1>1. /\ span.start \in 1..(m + 1) /\ span.start \in 1..(m2 + 1) /\ span.end \in 0..m /\ span.end \in 0..m2
      /\ span.start <= span.end + 1 /\ span.start - 1 \in 0..b /\ b \in 0..m /\ b \in 0..b /\ span.end <= b
  OBVIOUS
<1>2. Part(x, evs, lo, hi)
  BY <1>1, SpanEventsAre
<1>3. Part(y, evs2, lo, hi)
  <2>1. Part(y, evs2, c2[span.start - 1], c2[span.end])
    BY <1>1, SpanEventsAre
  <2> QED
    BY <1>1, <2>1
<1>4. hi <= c[b]
  BY <1>1, CutsGrow
<1>5. c[b] \in Nat /\ c[b] - 0 = c[b] /\ (\A i \in 1..c[b] : 0 + i = i) /\ c[b] = c2[b]
  BY <1>1 DEF Canonical
<1>6. \A i \in 1..c[b] : evs[i] = part[i] /\ evs2[i] = part[i]
  BY <1>5 DEF Part
<1> HIDE DEF x, y, lo, hi
<1>7. hi - lo \in Nat /\ lo \in Nat /\ hi \in Int
  BY <1>2 DEF Part
<1>8. \A i \in 1..(hi - lo) : x[i] = y[i]
  <2> TAKE i \in 1..(hi - lo)
  <2>1. lo + i \in 1..c[b]
    BY <1>4, <1>5, <1>7
  <2> QED
    BY <1>2, <1>3, <1>6, <2>1 DEF Part
<1>9. x \in Seq(Range(x)) /\ y \in Seq(Range(y)) /\ Len(x) = hi - lo /\ Len(y) = hi - lo
  BY <1>2, <1>3 DEF Part
<1>10. x = [i \in 1..(hi - lo) |-> x[i]] /\ y = [i \in 1..(hi - lo) |-> y[i]]
  BY <1>9
<1>11. x = y
  BY <1>8, <1>10
<1> QED
  BY <1>11 DEF x, y

(* The events of a span are of its transactions.                           *)
LEMMA SpanEventsWithin ==
  ASSUME NEW evs, NEW c, NEW m \in Nat, Canonical(evs, c, m), NEW span,
         span.end \in 0..m, span.start \in 1..(span.end + 1), NEW i \in DOMAIN SpanEvents(evs, span)
  PROVE  /\ SpanEvents(evs, span)[i] = evs[c[span.start - 1] + i]
         /\ c[span.start - 1] + i \in 1..Len(evs) /\ SpanEvents(evs, span)[i].tx \in span.start..span.end
<1> DEFINE x == SpanEvents(evs, span)
           lo == c[span.start - 1]
           hi == c[span.end]
           n == Len(evs)
           j == lo + i
<1>1. span.start \in 1..(m + 1) /\ span.start <= span.end + 1 /\ span.start - 1 \in 0..m /\ span.start - 1 \in Int
  OBVIOUS
<1>2. Part(x, evs, lo, hi)
  BY <1>1, SpanEventsAre
<1>3. i \in DOMAIN x
  OBVIOUS
<1> HIDE DEF x
<1>4. i \in 1..(hi - lo) /\ lo \in 0..hi /\ hi \in 0..n /\ n \in Nat
  BY <1>2, <1>3 DEF Part, Canonical
<1>5. x[i] = evs[j]
  BY <1>2, <1>4 DEF Part
<1>6. evs[j].tx \in 1..m /\ (j <= lo <=> evs[j].tx <= span.start - 1) /\ (j <= hi <=> evs[j].tx <= span.end)
  <2>1. j \in 1..n
    <3> HIDE DEF lo, hi, n
    <3> QED
      BY <1>4
  <2> HIDE DEF j
  <2> QED
    BY <1>1, <2>1, Zenon DEF Canonical
<1> HIDE DEF n
<1>7. j \in 1..n /\ ~(j <= lo) /\ j <= hi
  BY <1>4
<1> HIDE DEF j, lo, hi
<1>8. evs[j].tx \in span.start..span.end
  BY <1>1, <1>6, <1>7
<1> QED
  BY <1>5, <1>7, <1>8 DEF x, lo, j, n

(* The episode of a span has its events, and starts where it starts.       *)
LEMMA SpanEpisodeTells ==
  ASSUME NEW op, NEW full, NEW span
  PROVE  /\ SpanEpisode(op, full, span).events = SpanEvents(full.events, span)
         /\ SpanEpisode(op, full, span).boundary.start = span.start
BY DEF SpanEpisode, Episode, BuiltFrom, Built

(* Where an episode is closed by a genuine zero its span ends.             *)
LEMMA SpanCloses ==
  ASSUME NEW evs, NEW c, NEW m \in Nat, Canonical(evs, c, m), NEW full, full.events = evs,
         NEW span, span.end \in 0..m, span.start \in 1..(span.end + 1), SpanCut(span, m, full),
         NEW ep, ep.events = SpanEvents(evs, span), Meets(ep, full), ClosedAt(ep) # 0
  PROVE  span.closed /\ ClosedAt(ep) = span.end
<1> DEFINE a == span.start
           b == span.end
           lo == c[a - 1]
           n == Len(evs)
<1>1. Zeros(ep) # {} /\ ClosedAt(ep) = Max(Zeros(ep))
  BY DEF ClosedAt
<1>2. \A i \in DOMAIN ep.events : ep.events[i] = evs[lo + i] /\ lo + i \in 1..n /\ ep.events[i].tx \in a..b
  BY SpanEventsWithin
<1>3. n \in Nat /\ DOMAIN full.events = 1..n /\ \A j \in 1..n : evs[j].tx \in 1..m
  BY DEF Canonical
<1>4. a - 1 \in 0..m /\ b \in 0..m /\ a \in Nat /\ b \in Nat /\ a \in 1..(m + 1) /\ a <= b + 1
  OBVIOUS
<1> HIDE DEF lo, n
<1>5. ASSUME NEW z \in Zeros(ep) PROVE z \in a..b /\ z \in Zeros(full) /\ z \in 1..m
  <2>1. PICK i \in DOMAIN ep.events : ep.events[i].tx = z /\ ep.after[i].zero
    BY DEF Zeros
  <2>2. lo + i \in DOMAIN full.events /\ ep.events[i] = full.events[lo + i]
    BY <1>2, <1>3
  <2>3. ep.after[i].zero = full.after[lo + i].zero
    BY <2>2 DEF Meets
  <2>4. full.after[lo + i].zero /\ full.events[lo + i].tx = z
    BY <2>1, <2>2, <2>3, Zenon
  <2>5. z \in Zeros(full)
    BY <2>2, <2>4, Zenon DEF Zeros
  <2> QED
    BY <1>2, <1>3, <2>1, <2>2, <2>5
<1>6. span.closed /\ a <= b
  <2>1. PICK z \in Zeros(ep) : TRUE
    BY <1>1
  <2>2. z \in a..b /\ z \in Zeros(full) /\ z \in 1..m
    BY <1>5
  <2>3. z >= a /\ a <= b
    BY <1>4, <2>2
  <2> QED
    BY <2>2, <2>3 DEF SpanCut
<1>7. b \in Zeros(ep)
  <2>1. b \in Zeros(full)
    BY <1>6 DEF SpanCut
  <2>2. PICK j \in DOMAIN full.events : full.events[j].tx = b /\ full.after[j].zero
    BY <2>1 DEF Zeros
  <2> DEFINE x == SpanEvents(evs, span)
             hi == c[b]
             i == j - lo
  <2>3. Part(x, evs, lo, hi)
    BY <1>4, SpanEventsAre DEF lo
  <2>4. j \in 1..n /\ (j <= lo <=> evs[j].tx <= a - 1) /\ (j <= hi <=> evs[j].tx <= b)
    <3>1. j \in 1..Len(evs)
      BY <1>3, <2>2 DEF n
    <3> HIDE DEF hi, a, b
    <3> QED
      BY <1>4, <3>1, Zenon DEF Canonical, lo, hi, n
  <2>5. evs[j].tx = b
    BY <2>2
  <2> HIDE DEF x
  <2>6. lo \in 0..hi /\ hi \in Nat /\ DOMAIN x = 1..(hi - lo)
    BY <2>3 DEF Part
  <2> HIDE DEF hi
  <2>7. i \in 1..(hi - lo) /\ lo + i = j
    <3> HIDE DEF a, b
    <3> QED
      BY <1>4, <1>6, <2>4, <2>5, <2>6
  <2> HIDE DEF i
  <2>8. i \in DOMAIN ep.events
    BY <2>6, <2>7 DEF x
  <2>9. ep.events[i] = full.events[j]
    BY <1>2, <2>7, <2>8
  <2>10. ep.after[i].zero = full.after[j].zero
    BY <2>2, <2>8, <2>9 DEF Meets
  <2>11. ep.after[i].zero /\ ep.events[i].tx = b
    BY <2>2, <2>9, <2>10, Zenon
  <2> QED
    BY <2>8, <2>11, Zenon DEF Zeros
<1>8. Max(Zeros(ep)) = b
  <2> DEFINE S == Zeros(ep)
  <2>1. \A z \in S : z \in Int /\ z <= b
    BY <1>4, <1>5
  <2> HIDE DEF S, a, b
  <2>2. b \in S /\ b \in Nat
    BY <1>4, <1>7 DEF S
  <2>3. \A z \in S : b >= z
    BY <2>1, <2>2
  <2>4. \E x \in S : \A z \in S : x >= z
    BY <2>2, <2>3
  <2>5. Max(S) \in S /\ Max(S) >= b
    <3> DEFINE x == CHOOSE y \in S : \A z \in S : y >= z
    <3>1. x \in S /\ \A z \in S : x >= z
      BY <2>4
    <3> HIDE DEF x
    <3>2. Max(S) = x
      BY DEF Max, x
    <3> QED
      BY <2>2, <3>1, <3>2
  <2>6. Max(S) = b
    <3> DEFINE y == Max(S)
    <3>1. y \in Int /\ y <= b /\ y >= b
      BY <2>1, <2>5
    <3> HIDE DEF y
    <3>2. y = b
      BY <2>2, <3>1
    <3> QED
      BY <3>2 DEF y
  <2> QED
    BY <2>6 DEF S
<1> QED
  BY <1>1, <1>6, <1>8

-----------------------------------------------------------------------------
(* The outcomes of the episodes *)

(* The episode of a span the scan of a window reports.                     *)
Reported(ep, span, rs, op, full) ==
  /\ span \in Range(Spans(Scan(rs, op, full), Len(rs))) /\ ep = SpanEpisode(op, full, span)
  /\ span.end \in 0..Len(rs) /\ span.start \in 1..(span.end + 1) /\ ep.boundary.start = span.start
  /\ \E p : EpisodeOf(ep, p, SpanOpening(op, span))
  /\ \A i \in DOMAIN ep.events : ep.events[i].tx \in span.start..span.end
  /\ ClosedAt(ep) # 0 => span.closed /\ ClosedAt(ep) = span.end
Projectable(rs, op) == AreRows(rs) /\ op.units \in Nat /\ Last(Projection(CanonicalEvents(rs), op)).failure = "none"

(* Every enumerated episode is one.                                        *)
LEMMA EpisodeIsReported ==
  ASSUME NEW rs, NEW op, Projectable(rs, op), NEW full, full = WholeLedger(rs, op),
         NEW ep \in Range(EnumeratedOf(rs, op, full))
  PROVE  \E span : Reported(ep, span, rs, op, full)
<1> DEFINE m == Len(rs)
           evs == CanonicalEvents(rs)
           spans == Spans(Scan(rs, op, full), m)
<1>1. m \in Nat /\ op.units \in Nat
  BY WholeIs DEF Projectable
<1>2. PICK c, s : Canonical(evs, c, m) /\ Course(s, evs, op) /\ Ledgered(full, evs, s)
  BY WholeIs DEF Projectable
<1>3. \A k \in DOMAIN spans : SpanOk(spans[k], c, s, m)
  BY <1>1, <1>2, SpansOk
<1>4. PICK v : ScanOf(v, rs, op, full)
  BY <1>1, ScanIs
<1>5. \A x \in Range(spans) : SpanCut(x, m, full)
  BY <1>1, <1>4, SpansReported
<1> HIDE DEF evs, spans, m
<1>6. PICK k \in DOMAIN spans : ep = SpanEpisode(op, full, spans[k])
  BY DEF EnumeratedOf, Episodes, Range, spans, m
<1> DEFINE span == spans[k]
<1>7. SpanOk(span, c, s, m) /\ span \in Range(spans)
  BY <1>3 DEF Range
<1> HIDE DEF span
<1>8. SpanCut(span, m, full)
  BY <1>5, <1>7
<1>9. /\ \E p : EpisodeOf(SpanEpisode(op, full, span), p, SpanOpening(op, span))
      /\ Meets(SpanEpisode(op, full, span), full)
  BY <1>1, <1>2, <1>7, SpanEpisodeIs
<1>10. ep = SpanEpisode(op, full, span)
  BY <1>6 DEF span
<1>11. span.end \in 0..m /\ span.start \in 1..(span.end + 1)
  BY <1>7 DEF SpanOk
<1>12. full.events = evs
  BY <1>2 DEF Ledgered
<1>13. ep.events = SpanEvents(evs, span) /\ ep.boundary.start = span.start
  BY <1>10, <1>12, SpanEpisodeTells
<1>14. \A i \in DOMAIN ep.events : ep.events[i].tx \in span.start..span.end
  BY <1>1, <1>2, <1>11, <1>13, SpanEventsWithin
<1>15. ClosedAt(ep) # 0 => span.closed /\ ClosedAt(ep) = span.end
  <2>1. Meets(ep, full)
    BY <1>9, <1>10
  <2> QED
    BY <1>1, <1>2, <1>8, <1>11, <1>12, <1>13, <2>1, SpanCloses
<1>16. \E p : EpisodeOf(ep, p, SpanOpening(op, span))
  BY <1>9, <1>10
<1>17. span \in Range(Spans(Scan(rs, op, full), Len(rs))) /\ m = Len(rs)
  BY <1>7 DEF spans, m
<1> QED
  BY <1>10, <1>11, <1>13, <1>14, <1>15, <1>16, <1>17 DEF Reported

(* One that closed within the first transactions two windows share is      *)
(* enumerated of both.                                                     *)
LEMMA EpisodeSurvives ==
  ASSUME NEW rs, NEW rs2, NEW op, Projectable(rs, op), Projectable(rs2, op),
         NEW full, full = WholeLedger(rs, op), NEW full2, full2 = WholeLedger(rs2, op),
         NEW b \in Nat, b <= Len(rs), b <= Len(rs2), \A t \in 1..b : rs[t] = rs2[t],
         NEW ep, NEW span, Reported(ep, span, rs, op, full), span.closed, span.end <= b
  PROVE  ep \in Range(EnumeratedOf(rs2, op, full2))
<1> DEFINE n == Len(rs)
           n2 == Len(rs2)
           evs == CanonicalEvents(rs)
           evs2 == CanonicalEvents(rs2)
<1>1. n \in Nat /\ n2 \in Nat /\ op.units \in Nat /\ AreRows(rs) /\ AreRows(rs2)
  BY DEF Projectable, AreRows
<1>2. PICK s : Course(s, evs, op) /\ Ledgered(full, evs, s)
  BY WholeIs DEF Projectable
<1>3. PICK s2 : Course(s2, evs2, op) /\ Ledgered(full2, evs2, s2)
  BY WholeIs DEF Projectable
<1>4. PICK v, c : Gathered(v, c, rs)
  BY <1>1, CanonicalGathers
<1>5. PICK v2, c2 : Gathered(v2, c2, rs2)
  BY <1>1, CanonicalGathers
<1>6. Canonical(evs, c, n) /\ Canonical(evs2, c2, n2)
  <2>1. n \in 0..n /\ n2 \in 0..n2
    BY <1>1
  <2> QED
    BY <1>4, <1>5, <2>1 DEF Gathered
<1>7. b \in 0..n /\ b \in 0..n2 /\ b \in 0..b
  BY <1>1
<1>8. \A t \in 0..b : v[t] = v2[t] /\ c[t] = c2[t]
  BY <1>1, <1>4, <1>5, GatheredAgree
<1> DEFINE part == v[b]
<1>9. Part(part, evs, 0, c[b]) /\ Part(part, evs2, 0, c2[b]) /\ c[b] = c2[b]
  <2>1. part = v2[b] /\ c[b] = c2[b]
    BY <1>7, <1>8
  <2>2. Part(v[b], evs, 0, c[b])
    BY <1>1, <1>4, <1>7, GatheredPart
  <2>3. Part(v2[b], evs2, 0, c2[b])
    BY <1>1, <1>5, <1>7, GatheredPart
  <2> QED
    BY <2>1, <2>2, <2>3
<1> HIDE DEF part, n, n2, evs, evs2
<1>10. Alongside(full, full2, c[b])
  BY ONLY <1>1, <1>2, <1>3, <1>6, <1>7, <1>9, FirstEventsAgree
<1>11. Alongside(full2, full, c2[b])
  BY ONLY <1>1, <1>2, <1>3, <1>6, <1>7, <1>9, FirstEventsAgree
<1>12. full.events = evs /\ full2.events = evs2
  BY <1>2, <1>3 DEF Ledgered
<1>13. Canonical(full.events, c, n) /\ Canonical(full2.events, c2, n2)
  BY <1>6, <1>12
<1>14. \A t \in 1..b : /\ t \in Zeros(full) <=> t \in Zeros(full2)
                       /\ EstablishesInventory(full, t) <=> EstablishesInventory(full2, t)
  <2> TAKE t \in 1..b
  <2>1. (EstablishesInventory(full, t) => EstablishesInventory(full2, t)) /\ (t \in Zeros(full) => t \in Zeros(full2))
    BY ONLY t \in 1..b, <1>1, <1>7, <1>10, <1>13, FirstTransactionsAgree
  <2>2. (EstablishesInventory(full2, t) => EstablishesInventory(full, t)) /\ (t \in Zeros(full2) => t \in Zeros(full))
    BY ONLY t \in 1..b, <1>1, <1>7, <1>11, <1>13, FirstTransactionsAgree
  <2> QED
    BY <2>1, <2>2
<1>15. PICK w : ScanOf(w, rs, op, full)
  BY <1>1, ScanIs DEF n
<1>16. PICK w2 : ScanOf(w2, rs2, op, full2)
  BY <1>1, ScanIs DEF n2
<1>17. n = Len(rs) /\ n2 = Len(rs2) /\ Len(rs) \in Nat /\ Len(rs2) \in Nat
  BY <1>1 DEF n, n2
<1>18. w[b] = w2[b]
  <2>1. \A t \in 1..b : /\ rs[t] = rs2[t]
                        /\ t \in Zeros(full) <=> t \in Zeros(full2)
                        /\ EstablishesInventory(full, t) <=> EstablishesInventory(full2, t)
    BY <1>14
  <2> QED
    BY ONLY b \in Nat, b <= Len(rs), b <= Len(rs2), <1>15, <1>16, <1>17, <2>1, ScansAgree
<1>19. span \in Range(Spans(Scan(rs2, op, full2), Len(rs2)))
  <2>1. span \in Range(Spans(Scan(rs, op, full), Len(rs)))
    BY DEF Reported
  <2> QED
    BY <1>15, <1>16, <1>17, <1>18, <2>1, SpanSurvives
<1>20. SpanEvents(evs, span) = SpanEvents(evs2, span)
  <2>1. span.end \in 0..Len(rs) /\ span.start \in 1..(span.end + 1)
    BY DEF Reported
  <2>2. span.end \in 0..b
    BY <1>17, <2>1
  <2>3. \A t \in 0..b : c[t] = c2[t]
    BY <1>8
  <2>4. b <= n /\ b <= n2
    BY <1>17
  <2> QED
    BY ONLY b \in Nat, <1>1, <1>6, <1>9, <2>1, <2>2, <2>3, <2>4, SpanEventsAgree
<1>21. SpanEpisode(op, full2, span) = ep
  <2>1. ep = SpanEpisode(op, full, span)
    BY DEF Reported
  <2> QED
    BY <1>12, <1>20, <2>1 DEF SpanEpisode
<1> QED
  <2> DEFINE spans == Spans(Scan(rs2, op, full2), Len(rs2))
  <2>1. EnumeratedOf(rs2, op, full2) = [k \in DOMAIN spans |-> SpanEpisode(op, full2, spans[k])]
    BY DEF EnumeratedOf, Episodes
  <2>2. PICK k \in DOMAIN spans : spans[k] = span
    BY <1>19 DEF Range
  <2> HIDE DEF spans
  <2> QED
    BY <1>21, <2>1, <2>2 DEF Range

(* A value is withheld only by a decision that affects the claim.          *)
LEMMA ReasonIsGiven ==
  ASSUME NEW rs, NEW op, NEW full, NEW ep, NEW span, Reported(ep, span, rs, op, full), Affecting(rs, ep) = {},
         NEW f \in EconomicFields
  PROVE  ep.values[f] # Null
<1> DEFINE a == span.start
           b == span.end
<1>1. PICK p : EpisodeOf(ep, p, SpanOpening(op, span))
  BY DEF Reported
<1>2. a \in Nat /\ b \in Nat
  BY DEF Reported
<1>3. \A i \in DOMAIN ep.events : ep.events[i].tx \in a..b
  BY DEF Reported
<1>4. ClosedAt(ep) \in {0, b}
  BY DEF Reported
<1>5. ZeroOpenAt(rs, ep) \in {0, a}
  BY DEF Reported, ZeroOpenAt
<1> DEFINE start == SpanOpening(op, span)
<1> HIDE DEF a, b, start
<1>6. EpisodeOf(ep, p, start)
  BY <1>1 DEF start
<1> QED
  BY <1>2, <1>3, <1>4, <1>5, <1>6, WithheldForAReason

(* What a claim excludes of unresolved evidence lies behind the genuine    *)
(* zero that closed its episode.                                           *)
LEMMA ExcludedBehindTheZero ==
  ASSUME NEW rs, NEW op, NEW full, NEW ep, NEW span, Reported(ep, span, rs, op, full), Affecting(rs, ep) = {},
         NEW t \in DOMAIN rs, DOMAIN rs = 1..Len(rs), Len(rs) \in Nat, rs[t].residual \in {"TARGET", "UNKNOWN"}
  PROVE  span.closed /\ span.end < t
<1> DEFINE item == [source |-> rs[t].residual, tx |-> t, events |-> {}]
<1>1. Unresolved(rs[t])
  BY DEF Unresolved
<1>2. item \in Items(rs, ep)
  BY <1>1 DEF Items, ResidualItems
<1>3. item.source \notin {"FOREIGN", "FAILED", "UNCLASSIFIED"} /\ item.tx = t
  OBVIOUS
<1> HIDE DEF item
<1>4. Rule(rs, ep, item) # "NONE"
  BY <1>2 DEF Affecting
<1>5. \/ ClosedAt(ep) # 0 /\ t > ClosedAt(ep)
      \/ t < ZeroOpenAt(rs, ep)
  BY <1>3, <1>4, NoRule
<1>6. span.start \in Nat /\ span.end \in Nat /\ t \in 1..Len(rs)
  BY DEF Reported
<1>7. ~(t < ZeroOpenAt(rs, ep))
  <2>1. ep.boundary.start = span.start
    BY DEF Reported
  <2>2. ZeroOpenAt(rs, ep) = 0 \/ (ZeroOpenAt(rs, ep) = span.start /\ \A u \in 1..(span.start - 1) : ~Unresolved(rs[u]))
    BY <2>1, Zenon DEF ZeroOpenAt
  <2>3. CASE ZeroOpenAt(rs, ep) = 0
    BY <1>6, <2>3
  <2>4. CASE ZeroOpenAt(rs, ep) = span.start /\ \A u \in 1..(span.start - 1) : ~Unresolved(rs[u])
    <3>1. t < span.start => t \in 1..(span.start - 1)
      BY <1>6
    <3> QED
      BY <1>1, <2>4, <3>1
  <2> QED
    BY <2>2, <2>3, <2>4
<1>8. ClosedAt(ep) # 0 /\ t > ClosedAt(ep)
  BY <1>5, <1>7
<1>9. span.closed /\ ClosedAt(ep) = span.end
  BY <1>8 DEF Reported
<1> QED
  BY <1>6, <1>8, <1>9

(* A verified claim has nothing that affects it.                           *)
LEMMA VerifiedIsUnaffected ==
  ASSUME NEW rs, NEW ep, Outcome(rs, ep) = "VERIFIED"
  PROVE  Affecting(rs, ep) = {}
<1> DEFINE thrown == ep.failure # "none" \/ \E item \in Items(rs, ep) : ~WellFormed(item)
           rest == IF ~EveryEffectEstablished(rs, ep) THEN "BLOCKED"
                   ELSE IF Unavailable(rs, ep) = {} /\ Affecting(rs, ep) = {} THEN "VERIFIED"
                   ELSE IF Affecting(rs, ep) = {} THEN "THROWN" ELSE "LIMITED"
<1>1. Outcome(rs, ep) = CASE thrown -> "THROWN" [] OTHER -> rest
  BY DEF Outcome
<1> HIDE DEF thrown
<1>2. CASE thrown
  <2> HIDE DEF rest
  <2> QED
    BY <1>1, <1>2
<1>3. CASE ~thrown
  <2>1. Outcome(rs, ep) = rest
    <3> HIDE DEF rest
    <3> QED
      BY <1>1, <1>3
  <2> QED
    BY <2>1
<1> QED
  BY <1>2, <1>3

-----------------------------------------------------------------------------
(* The window *)

(* Every transaction holds events of the shapes, and the ledger opens with *)
(* what its opening boundary held and a basis that is known or is not.     *)
LedgerInv ==
  /\ AreRows(rows) /\ opening.units \in Nat /\ opening.basis \in {Zero, Whole(1), Null}

(* The opening quantity of an admitted context is a number of units.       *)
LEMMA OpeningIsNatural ==
  ASSUME BoundaryInv, capture = "ADMITTED"
  PROVE  Opening.units \in Nat
<1>1. "OPENING" \in DOMAIN snapshots
  BY DEF BoundaryInv, Captured
<1>2. Faithful(holdings, Opening)
  BY <1>1 DEF BoundaryInv, Opening
<1>3. Opening.units = HeldIn(holdings[Opening.slot]) /\ Populated(holdings[Opening.slot])
  BY <1>2 DEF Faithful, BoundaryInv, Tip
<1> QED
  BY <1>3, HeldIsWhole

(* Nothing has happened yet. *)
LEMMA NoRows ==
  ASSUME rows' = <<>>, opening' = [units |-> 0, basis |-> Zero]
  PROVE  LedgerInv'
<1>1. AreRows(<<>>)
  BY DEF AreRows
<1> QED
  BY <1>1 DEF LedgerInv

(* A transaction is committed without events,                              *)
LEMMA CommitKeepsRows ==
  ASSUME LedgerInv, NEW residual, Commit(residual)
  PROVE  LedgerInv'
<1> DEFINE x == [events |-> <<>>, residual |-> residual]
           r == Append(rows, x)
<1>1. rows' = r /\ opening' = opening
  BY DEF Commit
<1>2. x.events = <<>>
  OBVIOUS
<1> HIDE DEF x
<1>3. r \in Seq(Range(r)) /\ \A k \in DOMAIN r : r[k] = x \/ (k \in DOMAIN rows /\ r[k] = rows[k])
  BY OneMorePlace DEF LedgerInv, AreRows
<1>4. <<>> \in Seq(Shapes)
  OBVIOUS
<1> HIDE DEF r
<1>5. \A k \in DOMAIN r : r[k].events \in Seq(Shapes)
  BY <1>2, <1>3, <1>4 DEF LedgerInv, AreRows
<1> QED
  BY <1>1, <1>3, <1>5 DEF LedgerInv, AreRows

(* and filled with events of the shapes.                                   *)
LEMMA AdmitKeepsRows ==
  ASSUME LedgerInv, NEW shape \in Shapes, Admit(shape)
  PROVE  LedgerInv'
<1> DEFINE t == Len(rows)
           r == [rows EXCEPT ![t].events = Append(@, shape)]
<1>1. rows' = r /\ opening' = opening
  BY DEF Admit
<1>2. t \in Nat /\ DOMAIN rows = 1..t /\ \A k \in 1..t : rows[k].events \in Seq(Shapes)
  BY DEF LedgerInv, AreRows
<1> HIDE DEF t
<1>3. r = [k \in 1..t |-> r[k]]
  BY <1>2
<1>4. ASSUME NEW k \in 1..t PROVE r[k].events \in Seq(Shapes)
  <2> DEFINE e == rows[k].events
  <2>1. e \in Seq(Shapes)
    BY <1>2
  <2>2. CASE k # t
    BY <1>2, <2>1, <2>2
  <2>3. CASE k = t
    <3> DEFINE x == rows[t]
    <3>1. r[t] = [x EXCEPT !.events = Append(@, shape)]
      BY <1>2, <2>3
    <3>2. "events" \in DOMAIN x => r[t].events = Append(x.events, shape)
      BY <3>1
    <3> QED
      BY <2>1, <2>3, <3>1, <3>2
  <2> QED
    BY <2>2, <2>3
<1> HIDE DEF r
<1>5. r \in Seq(Range(r)) /\ DOMAIN r = 1..t
  BY <1>2, <1>3, Listed
<1> QED
  BY <1>1, <1>4, <1>5 DEF LedgerInv, AreRows

(* Whatever is committed and admitted, the window holds transactions of    *)
(* events of the shapes, and the ledger opens with a natural quantity      *)
(* (position-episode.mjs 144-308, position-economic-event.mjs 196-337).    *)
THEOREM LedgerInvariance == Spec => []LedgerInv
<1>1. Init => LedgerInv
  <2> SUFFICES ASSUME Init PROVE LedgerInv
    OBVIOUS
  <2>1. rows = <<>> /\ opening = [units |-> 0, basis |-> Zero]
    BY DEF Init
  <2>2. AreRows(<<>>)
    BY DEF AreRows
  <2> QED
    BY <2>1, <2>2 DEF LedgerInv
<1>2. LedgerInv /\ BoundaryInv /\ [Next]_vars => LedgerInv'
  <2> SUFFICES ASSUME LedgerInv, BoundaryInv, [Next]_vars PROVE LedgerInv'
    OBVIOUS
  <2>1. CASE OpenLedger
    <3>1. capture = "ADMITTED" /\ rows' = rows
      BY <2>1 DEF OpenLedger
    <3>2. PICK basis \in IF Opening.units = 0 THEN {Zero} ELSE {Whole(1), Null} :
            opening' = [units |-> Opening.units, basis |-> basis]
      BY <2>1 DEF OpenLedger
    <3>3. Opening.units \in Nat
      BY <3>1, OpeningIsNatural
    <3>4. opening'.units = Opening.units /\ opening'.basis = basis /\ basis \in {Zero, Whole(1), Null}
      BY <3>2
    <3> QED
      BY <3>1, <3>3, <3>4 DEF LedgerInv
  <2>2. CASE \E residual \in Residuals : Commit(residual)
    BY <2>2, CommitKeepsRows
  <2>3. CASE \E shape \in Shapes : Admit(shape)
    BY <2>3, AdmitKeepsRows
  <2>4. CASE Populate
    BY <2>4, NoRows DEF Populate
  <2>5. CASE UNCHANGED <<rows, opening>>
    BY <2>5 DEF LedgerInv
  <2>6. CASE \E operation \in {"selection", "issuance"}, k \in DOMAIN outcomes : Request(operation, k)
    BY <2>5, <2>6 DEF Request, source
  <2>7. CASE Bound \/ PortChanges \/ Capture \/ Finish \/ UNCHANGED vars
    BY <2>5, <2>7 DEF Bound, PortChanges, Capture, Finish, source, vars, claimVars
  <2> QED
    BY <2>1, <2>2, <2>3, <2>4, <2>6, <2>7 DEF Next
<1> QED
  BY <1>1, <1>2, BoundaryInvariance, PTL DEF Spec

(* Every enumerated episode meets its ledger and balances.                 *)
LEMMA EpisodesReproduceTheirLedger ==
  ASSUME LedgerInv, Projects(rows), NEW full, full = WholeLedger(rows, opening),
         NEW ep \in Range(EnumeratedOf(rows, opening, full))
  PROVE  Meets(ep, full) /\ EpisodeBalances(ep)
<1> DEFINE m == Len(rows)
           evs == CanonicalEvents(rows)
           spans == Spans(Scan(rows, opening, full), m)
<1>1. /\ m \in Nat
      /\ \E c, s : /\ Canonical(evs, c, m) /\ Course(s, evs, opening)
                   /\ Ledgered(WholeLedger(rows, opening), evs, s)
  <2>1. AreRows(rows) /\ Last(Projection(CanonicalEvents(rows), opening)).failure = "none"
    BY DEF LedgerInv, Projects
  <2> QED
    BY <2>1, WholeIs
<1>2. PICK c, s : Canonical(evs, c, m) /\ Course(s, evs, opening) /\ Ledgered(full, evs, s)
  BY <1>1
<1>3. opening.units \in Nat
  BY DEF LedgerInv
<1>4. \A k \in DOMAIN spans : SpanOk(spans[k], c, s, m)
  BY <1>1, <1>2, <1>3, SpansOk
<1> HIDE DEF evs, spans, m
<1>5. PICK k \in DOMAIN spans : ep = SpanEpisode(opening, full, spans[k])
  BY DEF EnumeratedOf, Episodes, Range, spans, m
<1> DEFINE span == spans[k]
<1>6. SpanOk(span, c, s, m)
  BY <1>4
<1> HIDE DEF span
<1>7. /\ \E p : EpisodeOf(SpanEpisode(opening, full, span), p, SpanOpening(opening, span))
      /\ Meets(SpanEpisode(opening, full, span), full)
  BY <1>1, <1>2, <1>3, <1>6, SpanEpisodeIs
<1>8. ep = SpanEpisode(opening, full, span)
  BY <1>5 DEF span
<1> DEFINE op == SpanOpening(opening, span)
<1>9. PICK p : EpisodeOf(ep, p, op)
  BY <1>7, <1>8
<1>10. op.units \in Nat /\ (op.basis = Null \/ IsRational(op.basis))
  <2>1. IsRational(Zero) /\ IsRational(Whole(1))
    <3>1. Equals(Whole(0), 0 * 1, 1) /\ Equals(Whole(1), 1 * 1, 1)
      BY WholeEquals
    <3> QED
      BY <3>1 DEF Equals, Zero, Whole
  <2>2. CASE span.scope
    <3>1. op = opening
      BY <2>2 DEF SpanOpening
    <3> QED
      BY <2>1, <3>1 DEF LedgerInv
  <2>3. CASE ~span.scope
    <3>1. op = [units |-> 0, basis |-> Zero]
      BY <2>3 DEF SpanOpening
    <3>2. op.units = 0 /\ op.basis = Zero
      BY <3>1
    <3> QED
      BY <2>1, <3>2
  <2> QED
    BY <2>2, <2>3
<1> HIDE DEF op
<1>11. EpisodeBalances(ep)
  BY <1>9, <1>10, EpisodesBalance
<1> QED
  BY <1>7, <1>8, <1>11

(* The episodes are the ledger, cut at its genuine zeros, for every window *)
(* of any length: each span, projected again by itself, succeeds and meets *)
(* every event with the inventory and the genuine zero the whole           *)
(* projection met it with; where all is known, what was opened with,       *)
(* bought and received is what was consumed and what remains; and a closed *)
(* position was sold to the last unit by this wallet (position-episode.mjs *)
(* 248-560, rational.mjs).                                                 *)
THEOREM EpisodesReproduceTheLedger == Spec => []EpisodesAreTheLedger
<1>1. LedgerInv => EpisodesAreTheLedger
  <2> SUFFICES ASSUME LedgerInv PROVE EpisodesAreTheLedger
    OBVIOUS
  <2>1. ASSUME Filled PROVE EachMeets(WholeLedger(rows, opening))
    <3> DEFINE full == WholeLedger(rows, opening)
    <3>1. Projects(rows)
      BY <2>1 DEF Filled
    <3> HIDE DEF full
    <3>2. full = WholeLedger(rows, opening)
      BY DEF full
    <3>3. EachMeets(full)
      BY <3>1, <3>2, EpisodesReproduceTheirLedger DEF EachMeets
    <3> QED
      BY <3>3 DEF full
  <2>2. ASSUME Filled, NEW ep \in Range(Enumerated(rows, opening)) PROVE EpisodeBalances(ep)
    <3> DEFINE full == WholeLedger(rows, opening)
    <3>1. Projects(rows) /\ ep \in Range(EnumeratedOf(rows, opening, full))
      BY <2>2 DEF Filled, Enumerated
    <3> HIDE DEF full
    <3>2. full = WholeLedger(rows, opening)
      BY DEF full
    <3> QED
      BY <3>1, <3>2, EpisodesReproduceTheirLedger
  <2>3. SpansReproduceTheLedger
    BY <2>1 DEF SpansReproduceTheLedger
  <2>4. PositionsBalance
    BY <2>2 DEF PositionsBalance, EpisodeBalances
  <2> QED
    BY <2>3, <2>4 DEF EpisodesAreTheLedger
<1> QED
  BY LedgerInvariance, <1>1, PTL

(* Resolved into an economic event, a transaction is still one of events   *)
(* of the shapes, and the others are as they were.                         *)
LEMMA ResolvedIs ==
  ASSUME AreRows(rows), NEW t \in DOMAIN rows, NEW shape \in Shapes
  PROVE  /\ AreRows(Resolved(t, shape)) /\ Len(Resolved(t, shape)) = Len(rows)
         /\ \A u \in DOMAIN rows : u # t => Resolved(t, shape)[u] = rows[u]
<1> DEFINE n == Len(rows)
           r == Resolved(t, shape)
           x == rows[t]
<1>1. n \in Nat /\ DOMAIN rows = 1..n /\ \A k \in 1..n : rows[k].events \in Seq(Shapes)
  BY DEF AreRows
<1>2. DOMAIN r = DOMAIN rows /\ r = [k \in DOMAIN rows |-> r[k]] /\ \A k \in DOMAIN rows : k # t => r[k] = rows[k]
  BY DEF Resolved
<1>3. r[t] = [[x EXCEPT !.events = Append(@, shape)] EXCEPT !.residual = "NONE"]
  BY DEF Resolved
<1> HIDE DEF n, r
<1>4. r[t].events \in Seq(Shapes)
  <2>1. x.events \in Seq(Shapes)
    BY <1>1
  <2>2. r[t].events = [x EXCEPT !.events = Append(@, shape)].events
    BY <1>3
  <2>3. r[t].events = x.events \/ r[t].events = Append(x.events, shape)
    BY <2>2
  <2> QED
    BY <2>1, <2>3
<1>5. \A k \in 1..n : r[k].events \in Seq(Shapes)
  BY <1>1, <1>2, <1>4
<1>6. r \in Seq(Range(r)) /\ DOMAIN r = 1..n /\ Len(r) = n
  BY <1>1, <1>2, Listed
<1> QED
  BY <1>2, <1>5, <1>6 DEF AreRows, n, r

(* However it is resolved, the episode is enumerated as it was.            *)
LEMMA ItCannotMatter ==
  ASSUME LedgerInv, Projects(rows), NEW full, full = WholeLedger(rows, opening),
         NEW ep, NEW span, Reported(ep, span, rows, opening, full),
         NEW t \in DOMAIN rows, span.closed, span.end < t
  PROVE  CannotMatter(ep, t)
<1> SUFFICES ASSUME NEW shape \in Shapes, Projects(Resolved(t, shape))
             PROVE  ep \in Range(Enumerated(Resolved(t, shape), opening))
  BY DEF CannotMatter
<1> DEFINE rs2 == Resolved(t, shape)
           full2 == WholeLedger(rs2, opening)
           b == t - 1
<1>1. AreRows(rows) /\ AreRows(rs2) /\ Len(rs2) = Len(rows) /\ \A u \in DOMAIN rows : u # t => rs2[u] = rows[u]
  BY ResolvedIs DEF LedgerInv
<1>2. Projects(rs2)
  OBVIOUS
<1> HIDE DEF rs2
<1>3. Projectable(rows, opening) /\ Projectable(rs2, opening)
  BY <1>1, <1>2 DEF Projectable, Projects, LedgerInv
<1>4. DOMAIN rows = 1..Len(rows) /\ Len(rows) \in Nat
  BY <1>1 DEF AreRows
<1>5. b \in Nat /\ b <= Len(rows) /\ b <= Len(rs2) /\ \A u \in 1..b : u \in DOMAIN rows /\ u # t
  BY <1>1, <1>4
<1>6. span.end <= b
  <2>1. span.end \in Int
    BY <1>4 DEF Reported
  <2> QED
    BY <1>4, <2>1
<1>7. \A u \in 1..b : rows[u] = rs2[u]
  BY <1>1, <1>5
<1>8. full2 = WholeLedger(rs2, opening)
  OBVIOUS
<1> HIDE DEF b, full2
<1>9. ep \in Range(EnumeratedOf(rs2, opening, full2))
  BY <1>3, <1>5, <1>6, <1>7, <1>8, EpisodeSurvives
<1> QED
  BY <1>8, <1>9 DEF Enumerated, rs2

(* A value an episode withholds is withheld by a decision that affects its *)
(* claim, so that no claim is limited without a reason; and whatever       *)
(* unresolved evidence a verified claim excludes, the transaction's own    *)
(* claim and the window's stay limited, and however that evidence is       *)
(* resolved the episode is enumerated with the same events and the same    *)
(* values, for every window (claim-outcome-         *)
(* evaluator.mjs 308-666, non-interference.mjs, position-episode.mjs).     *)
THEOREM EveryOutcomeIsJustified == Spec => []OutcomesAreJustified
<1>1. LedgerInv => OutcomesAreJustified
  <2> SUFFICES ASSUME LedgerInv, Filled, NEW ep \in Range(Enumerated(rows, opening))
               PROVE  /\ (\E f \in EconomicFields \ NotApplicable(ep) : ep.values[f] = Null) => Affecting(rows, ep) # {}
                      /\ Outcome(rows, ep) = "VERIFIED" =>
                            \A t \in DOMAIN rows : rows[t].residual \in {"TARGET", "UNKNOWN"} =>
                                /\ "LIMITED" = TransactionOutcome(rows, t) /\ "LIMITED" = WindowOutcome(rows)
                                /\ CannotMatter(ep, t)
    BY DEF OutcomesAreJustified
  <2> DEFINE full == WholeLedger(rows, opening)
  <2>1. Projects(rows) /\ ep \in Range(EnumeratedOf(rows, opening, full))
    BY DEF Filled, Enumerated
  <2>2. full = WholeLedger(rows, opening)
    OBVIOUS
  <2> HIDE DEF full
  <2>3. Projectable(rows, opening)
    BY <2>1 DEF Projectable, LedgerInv, Projects
  <2>4. PICK span : Reported(ep, span, rows, opening, full)
    BY <2>1, <2>2, <2>3, EpisodeIsReported
  <2>5. ASSUME NEW f \in EconomicFields \ NotApplicable(ep), ep.values[f] = Null
        PROVE  Affecting(rows, ep) # {}
    BY <2>4, <2>5, ReasonIsGiven
  <2>6. ASSUME Outcome(rows, ep) = "VERIFIED", NEW t \in DOMAIN rows, rows[t].residual \in {"TARGET", "UNKNOWN"}
        PROVE  /\ "LIMITED" = TransactionOutcome(rows, t) /\ "LIMITED" = WindowOutcome(rows)
               /\ CannotMatter(ep, t)
    <3>1. Unresolved(rows[t])
      BY <2>6 DEF Unresolved
    <3>2. "LIMITED" = TransactionOutcome(rows, t)
      BY <3>1 DEF TransactionOutcome
    <3>3. "LIMITED" = WindowOutcome(rows)
      <4>1. ResidualItems(rows) # {}
        BY <3>1 DEF ResidualItems
      <4> QED
        BY <4>1 DEF WindowOutcome
    <3>4. Affecting(rows, ep) = {}
      BY <2>6, VerifiedIsUnaffected
    <3>5. DOMAIN rows = 1..Len(rows) /\ Len(rows) \in Nat
      BY DEF LedgerInv, AreRows
    <3>6. span.closed /\ span.end < t
      BY <2>4, <2>6, <3>4, <3>5, ExcludedBehindTheZero
    <3>7. CannotMatter(ep, t)
      BY <2>1, <2>2, <2>4, <3>6, ItCannotMatter
    <3> QED
      BY <3>2, <3>3, <3>7
  <2> QED
    BY <2>5, <2>6
<1> QED
  BY LedgerInvariance, <1>1, PTL
============================================================================
