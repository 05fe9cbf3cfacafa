------------------------ MODULE ProcessRunnerProofs ------------------------
(***************************************************************************)
(* Proofs about the process runner for every set of processes, every       *)
(* memory they need, and every size of the machine.                        *)
(*                                                                         *)
(* A poll cuts `running' in two, puts the younger part at the other end of *)
(* `pending', cuts that again and drops what has ended.  PollShape says    *)
(* what these cuts do to the sets of processes; PollStep concludes that    *)
(* none is lost, doubled or left alive without a Process object.  NoneLost *)
(* itself is not inductive: a process must not be submitted again while    *)
(* it is queued (Submitted), and a cancelled one must still be marked when *)
(* the next poll looks at it (CancelKept).                                 *)
(***************************************************************************)
EXTENDS ProcessRunner, NaturalsInduction, WellFoundedInduction, TLAPS

(* Every set of naturals has a least element.                              *)
LEMMA LeastElement ==
  ASSUME NEW S \in SUBSET Nat, S # {}
  PROVE  \E n \in S : \A m \in S : n <= m
<1>1. PICK n \in S : \A m \in S : ~(<<m, n>> \in OpToRel(<, Nat))
  BY NatLessThanWellFounded, WFMin, Zenon
<1>2. \A m \in S : <<m, n>> \in OpToRel(<, Nat) <=> m < n
  BY DEF OpToRel
<1>3. \A m \in S : ~(m < n)
  BY <1>1, <1>2, Zenon
<1>4. QED
  BY <1>3

(* Induction over the naturals, for a set instead of a predicate.          *)
LEMMA SetInduction ==
  ASSUME NEW P, 0 \in P, \A n \in Nat : n \in P => n + 1 \in P
  PROVE  Nat \subseteq P
<1>1. SUFFICES ASSUME Nat \ P # {} PROVE FALSE
  OBVIOUS
<1>2. PICK n \in Nat \ P : \A m \in Nat \ P : n <= m
  <2>1. Nat \ P \in SUBSET Nat
    OBVIOUS
  <2>2. QED
    BY <1>1, <2>1, LeastElement
<1>3. n # 0 /\ n - 1 \in Nat /\ n - 1 \in P
  BY <1>2
<1>4. (n - 1) + 1 = n
  BY <1>2
<1>5. QED
  BY <1>2, <1>3, <1>4

(* Min of a set of naturals.                                               *)
LEMMA MinBounds ==
  ASSUME NEW S \in SUBSET Nat, NEW x \in S
  PROVE  Min(S) \in S /\ Min(S) <= x
<1>1. \E n \in S : \A m \in S : n =< m
  BY LeastElement
<1>2. QED
  BY <1>1 DEF Min

(* Max of a bounded set of naturals is one of them.                        *)
LEMMA MaxMember ==
  ASSUME NEW n \in Nat, NEW S \in SUBSET (0 .. n), S # {}
  PROVE  Max(S) \in S
<1> DEFINE T == {n - x : x \in S}
<1>1. T \in SUBSET Nat /\ T # {}
  <2>1. \A x \in S : x \in 0 .. n /\ n - x \in Nat
    OBVIOUS
  <2>2. QED
    BY <2>1
<1>2. PICK t \in T : \A u \in T : t <= u
  BY <1>1, LeastElement
<1>3. PICK x \in S : t = n - x
  BY <1>2
<1>4. \A y \in S : x >= y
  BY <1>2, <1>3
<1>5. QED
  BY <1>3, <1>4 DEF Max

(* Max of two numbers.                                                     *)
LEMMA MaxPair ==
  ASSUME NEW a \in Nat, NEW b \in Nat
  PROVE  Max({a, b}) \in {a, b} /\ Max({a, b}) >= a
<1>1. \E x \in {a, b} : \A y \in {a, b} : x >= y
  OBVIOUS
<1>2. Max({a, b}) \in {a, b} /\ \A y \in {a, b} : Max({a, b}) >= y
  BY <1>1 DEF Max
<1>3. QED
  BY <1>2

(* Max of three numbers.                                                   *)
LEMMA MaxThree ==
  ASSUME NEW a \in Nat, NEW b \in Nat, NEW c \in Nat
  PROVE  Max({a, b, c}) \in Nat
<1>1. \E x \in {a, b, c} : \A y \in {a, b, c} : x >= y
  OBVIOUS
<1>2. Max({a, b, c}) \in {a, b, c}
  BY <1>1 DEF Max
<1>3. QED
  BY <1>2

(* Members and repetitions of two sequences put together.                  *)
LEMMA ConcatFacts ==
  ASSUME NEW S, NEW s \in Seq(S), NEW t \in Seq(S)
  PROVE  /\ s \o t \in Seq(S)
         /\ ToSet(s \o t) = ToSet(s) \cup ToSet(t)
         /\ IsInjective(s \o t) <=>
              IsInjective(s) /\ IsInjective(t) /\ ToSet(s) \cap ToSet(t) = {}
<1> DEFINE u == s \o t
<1>1. /\ u \in Seq(S) /\ Len(u) = Len(s) + Len(t) /\ Len(s) \in Nat /\ Len(t) \in Nat
      /\ DOMAIN u = 1 .. Len(u) /\ DOMAIN s = 1 .. Len(s) /\ DOMAIN t = 1 .. Len(t)
  OBVIOUS
<1>2. /\ \A k \in 1 .. Len(s) : u[k] = s[k]
      /\ \A k \in 1 .. Len(u) : u[k] = IF k <= Len(s) THEN s[k] ELSE t[k - Len(s)]
  OBVIOUS
<1> HIDE DEF u
<1>3. \A k \in 1 .. Len(t) : u[Len(s) + k] = t[k]
  <2>1. SUFFICES ASSUME NEW k \in 1 .. Len(t) PROVE u[Len(s) + k] = t[k]
    OBVIOUS
  <2>2. Len(s) + k \in 1 .. Len(u) /\ ~(Len(s) + k <= Len(s)) /\ (Len(s) + k) - Len(s) = k
    BY <1>1
  <2>3. QED
    BY <1>2, <2>2
<1>4. ToSet(u) = ToSet(s) \cup ToSet(t)
  <2>1. ASSUME NEW x \in ToSet(u) PROVE x \in ToSet(s) \cup ToSet(t)
    <3>1. PICK k \in 1 .. Len(u) : x = u[k]
      BY <1>1, <2>1 DEF ToSet
    <3>2. CASE k <= Len(s)
      BY <1>1, <1>2, <3>1, <3>2 DEF ToSet
    <3>3. CASE ~(k <= Len(s))
      <4>1. k - Len(s) \in 1 .. Len(t)
        BY <1>1, <3>3
      <4>2. QED
        BY <1>1, <1>2, <3>1, <3>3, <4>1 DEF ToSet
    <3>4. QED
      BY <3>2, <3>3
  <2>2. ASSUME NEW x \in ToSet(s) PROVE x \in ToSet(u)
    <3>1. PICK k \in 1 .. Len(s) : x = s[k]
      BY <1>1 DEF ToSet
    <3>2. k \in 1 .. Len(u) /\ u[k] = x
      BY <1>1, <1>2, <3>1
    <3>3. QED
      BY <1>1, <3>2 DEF ToSet
  <2>3. ASSUME NEW x \in ToSet(t) PROVE x \in ToSet(u)
    <3>1. PICK k \in 1 .. Len(t) : x = t[k]
      BY <1>1 DEF ToSet
    <3>2. Len(s) + k \in 1 .. Len(u) /\ u[Len(s) + k] = x
      BY <1>1, <1>3, <3>1
    <3>3. QED
      BY <1>1, <3>2 DEF ToSet
  <2>4. QED
    BY <2>1, <2>2, <2>3
<1>5. ASSUME IsInjective(u)
      PROVE  IsInjective(s) /\ IsInjective(t) /\ ToSet(s) \cap ToSet(t) = {}
  <2>0. \A a, b \in 1 .. Len(u) : u[a] = u[b] => a = b
    BY <1>1, <1>5 DEF IsInjective
  <2>1. ASSUME NEW a \in 1 .. Len(s), NEW b \in 1 .. Len(s), s[a] = s[b] PROVE a = b
    <3>1. a \in 1 .. Len(u) /\ b \in 1 .. Len(u) /\ u[a] = u[b]
      BY <1>1, <1>2, <2>1
    <3>2. QED
      BY <2>0, <3>1
  <2>2. ASSUME NEW a \in 1 .. Len(t), NEW b \in 1 .. Len(t), t[a] = t[b] PROVE a = b
    <3>1. Len(s) + a \in 1 .. Len(u) /\ Len(s) + b \in 1 .. Len(u) /\ u[Len(s) + a] = u[Len(s) + b]
      BY <1>1, <1>3, <2>2
    <3>2. Len(s) + a = Len(s) + b
      BY <2>0, <3>1
    <3>3. QED
      BY <1>1, <3>2
  <2>3. ASSUME NEW a \in 1 .. Len(s), NEW b \in 1 .. Len(t), s[a] = t[b] PROVE FALSE
    <3>1. a \in 1 .. Len(u) /\ Len(s) + b \in 1 .. Len(u) /\ u[a] = u[Len(s) + b]
      BY <1>1, <1>2, <1>3, <2>3
    <3>2. a = Len(s) + b
      BY <2>0, <3>1
    <3>3. QED
      BY <1>1, <3>2
  <2>4. QED
    BY <1>1, <2>1, <2>2, <2>3 DEF IsInjective, ToSet
<1>6. ASSUME IsInjective(s), IsInjective(t), ToSet(s) \cap ToSet(t) = {}
      PROVE  IsInjective(u)
  <2>1. /\ \A a, b \in 1 .. Len(s) : s[a] = s[b] => a = b
        /\ \A a, b \in 1 .. Len(t) : t[a] = t[b] => a = b
    BY <1>1, <1>6 DEF IsInjective
  <2>2. ASSUME NEW a \in 1 .. Len(s), NEW b \in 1 .. Len(t) PROVE s[a] # t[b]
    <3>1. s[a] \in ToSet(s) /\ t[b] \in ToSet(t)
      BY <1>1 DEF ToSet
    <3>2. QED
      BY <1>6, <3>1
  <2>3. ASSUME NEW a \in 1 .. Len(u), NEW b \in 1 .. Len(u), u[a] = u[b] PROVE a = b
    <3>1. CASE a <= Len(s) /\ b <= Len(s)
      BY <1>1, <1>2, <2>1, <2>3, <3>1
    <3>2. CASE ~(a <= Len(s)) /\ ~(b <= Len(s))
      <4>1. a - Len(s) \in 1 .. Len(t) /\ b - Len(s) \in 1 .. Len(t)
        BY <1>1, <3>2
      <4>2. t[a - Len(s)] = t[b - Len(s)]
        BY <1>2, <2>3, <3>2
      <4>3. a - Len(s) = b - Len(s)
        BY <2>1, <2>2, <4>1, <4>2
      <4>4. QED
        BY <1>1, <4>3
    <3>3. CASE a <= Len(s) /\ ~(b <= Len(s))
      <4>1. a \in 1 .. Len(s) /\ b - Len(s) \in 1 .. Len(t)
        BY <1>1, <3>3
      <4>2. s[a] = t[b - Len(s)]
        BY <1>2, <2>3, <3>3
      <4>3. QED
        BY <2>1, <2>2, <4>1, <4>2
    <3>4. CASE ~(a <= Len(s)) /\ b <= Len(s)
      <4>1. b \in 1 .. Len(s) /\ a - Len(s) \in 1 .. Len(t)
        BY <1>1, <3>4
      <4>2. s[b] = t[a - Len(s)]
        BY <1>2, <2>3, <3>4
      <4>3. QED
        BY <2>1, <2>2, <4>1, <4>2
    <3>5. QED
      BY <3>1, <3>2, <3>3, <3>4
  <2>4. QED
    BY <1>1, <2>3 DEF IsInjective
<1>7. QED
  BY <1>1, <1>4, <1>5, <1>6 DEF u

(* Members and repetitions of a sequence turned around.                    *)
LEMMA ReverseFacts ==
  ASSUME NEW S, NEW s \in Seq(S)
  PROVE  /\ Reverse(s) \in Seq(S) /\ Len(Reverse(s)) = Len(s)
         /\ ToSet(Reverse(s)) = ToSet(s)
         /\ IsInjective(Reverse(s)) <=> IsInjective(s)
<1> DEFINE r == Reverse(s)
<1>1. /\ r \in Seq(S) /\ Len(r) = Len(s) /\ Len(s) \in Nat
      /\ DOMAIN r = 1 .. Len(s) /\ DOMAIN s = 1 .. Len(s)
      /\ \A k \in 1 .. Len(s) : r[k] = s[(Len(s) - k) + 1]
  BY DEF Reverse
<1>2. \A k \in 1 .. Len(s) :
        /\ (Len(s) - k) + 1 \in 1 .. Len(s)
        /\ (Len(s) - ((Len(s) - k) + 1)) + 1 = k
  BY <1>1
<1> HIDE DEF r
<1>3. \A k \in 1 .. Len(s) : s[k] = r[(Len(s) - k) + 1]
  BY <1>1, <1>2
<1>4. ToSet(r) = ToSet(s)
  <2>1. ASSUME NEW x \in ToSet(r) PROVE x \in ToSet(s)
    <3>1. PICK k \in 1 .. Len(s) : x = r[k]
      BY <1>1 DEF ToSet
    <3>2. QED
      BY <1>1, <1>2, <3>1 DEF ToSet
  <2>2. ASSUME NEW x \in ToSet(s) PROVE x \in ToSet(r)
    <3>1. PICK k \in 1 .. Len(s) : x = s[k]
      BY <1>1 DEF ToSet
    <3>2. QED
      BY <1>1, <1>2, <1>3, <3>1 DEF ToSet
  <2>3. QED
    BY <2>1, <2>2
<1>5. ASSUME IsInjective(s), NEW a \in 1 .. Len(s), NEW b \in 1 .. Len(s), r[a] = r[b]
      PROVE  a = b
  <2>0. \A m, n \in 1 .. Len(s) : s[m] = s[n] => m = n
    BY <1>1, <1>5 DEF IsInjective
  <2>1. (Len(s) - a) + 1 = (Len(s) - b) + 1
    BY <1>1, <1>2, <1>5, <2>0
  <2>2. QED
    BY <1>1, <2>1
<1>6. ASSUME IsInjective(r), NEW a \in 1 .. Len(s), NEW b \in 1 .. Len(s), s[a] = s[b]
      PROVE  a = b
  <2>0. \A m, n \in 1 .. Len(s) : r[m] = r[n] => m = n
    BY <1>1, <1>6 DEF IsInjective
  <2>1. (Len(s) - a) + 1 = (Len(s) - b) + 1
    BY <1>2, <1>3, <1>6, <2>0
  <2>2. QED
    BY <1>1, <2>1
<1>7. IsInjective(r) <=> IsInjective(s)
  BY <1>1, <1>5, <1>6 DEF IsInjective
<1>8. QED
  BY <1>1, <1>4, <1>7 DEF r

(* A sequence is its first part followed by its last k members.            *)
LEMMA SplitFacts ==
  ASSUME NEW S, NEW s \in Seq(S), NEW k \in 0 .. Len(s)
  PROVE  /\ SubSeq(s, 1, Len(s) - k) \in Seq(S)
         /\ SubSeq(s, Len(s) - k + 1, Len(s)) \in Seq(S)
         /\ Len(SubSeq(s, 1, Len(s) - k)) = Len(s) - k
         /\ Len(SubSeq(s, Len(s) - k + 1, Len(s))) = k
         /\ s = SubSeq(s, 1, Len(s) - k) \o SubSeq(s, Len(s) - k + 1, Len(s))
<1> DEFINE a == SubSeq(s, 1, Len(s) - k)
           b == SubSeq(s, Len(s) - k + 1, Len(s))
<1>1. /\ a \in Seq(S) /\ Len(a) = Len(s) - k
      /\ \A j \in 1 .. Len(s) - k : a[j] = s[j]
  OBVIOUS
<1>2. /\ b \in Seq(S) /\ Len(b) = k
      /\ \A j \in 1 .. k : b[j] = s[Len(s) - k + j]
  OBVIOUS
<1> HIDE DEF a, b
<1>3. /\ a \o b \in Seq(S) /\ Len(a \o b) = Len(s) /\ Len(s) \in Nat
      /\ \A j \in 1 .. Len(s) : (a \o b)[j] = IF j <= Len(a) THEN a[j] ELSE b[j - Len(a)]
  <2>1. a \in Seq(S) /\ b \in Seq(S)
    BY <1>1, <1>2
  <2>2. /\ a \o b \in Seq(S) /\ Len(a \o b) = Len(a) + Len(b)
        /\ \A j \in 1 .. Len(a) + Len(b) :
             (a \o b)[j] = IF j <= Len(a) THEN a[j] ELSE b[j - Len(a)]
    BY <2>1
  <2>3. Len(a) + Len(b) = Len(s) /\ Len(s) \in Nat
    BY <1>1, <1>2
  <2>4. QED
    BY <2>2, <2>3
<1>4. \A j \in 1 .. Len(s) : (a \o b)[j] = s[j]
  <2>1. SUFFICES ASSUME NEW j \in 1 .. Len(s) PROVE (a \o b)[j] = s[j]
    OBVIOUS
  <2>2. CASE j <= Len(a)
    BY <1>1, <1>3, <2>2
  <2>3. CASE ~(j <= Len(a))
    <3>1. j - Len(a) \in 1 .. k /\ Len(s) - k + (j - Len(a)) = j
      BY <1>1, <1>3, <2>3
    <3>2. QED
      BY <1>2, <1>3, <2>3, <3>1
  <2>4. QED
    BY <2>2, <2>3
<1>5. a \o b = s
  <2> DEFINE c == a \o b
  <2>1. c \in Seq(S) /\ Len(c) = Len(s) /\ \A j \in 1 .. Len(s) : c[j] = s[j]
    BY <1>3, <1>4
  <2> HIDE DEF c
  <2>2. c = s
    BY <2>1
  <2>3. QED
    BY <2>2 DEF c
<1>6. QED
  BY <1>1, <1>2, <1>5 DEF a, b

(* The recursive definition in StillRunning has a solution, step by step.  *)
LEMMA StillRunningSteps ==
  ASSUME NEW S, NEW s \in Seq(S), NEW D
  PROVE  \E F : /\ F[0] = <<>>
                /\ \A n \in 1 .. Len(s) :
                     F[n] = IF s[n] \in D THEN F[n - 1] ELSE Append(F[n - 1], s[n])
                /\ StillRunning(s, D) = F[Len(s)]
<1> DEFINE At(F, i) == IF i = 0 THEN <<>>
                       ELSE IF s[i] \in D THEN F[i - 1] ELSE Append(F[i - 1], s[i])
           Solves(F, n) == F = [i \in 0 .. n |-> At(F, i)]
           P == {n \in Nat : n <= Len(s) => \E F : Solves(F, n)}
<1>1. 0 \in P
  <2>1. Solves([i \in 0 .. 0 |-> <<>>], 0)
    OBVIOUS
  <2>2. QED
    BY <2>1
<1>2. ASSUME NEW n \in Nat, n \in P PROVE n + 1 \in P
  <2> HIDE DEF Solves
  <2>1. SUFFICES ASSUME n + 1 <= Len(s) PROVE \E G : Solves(G, n + 1)
    OBVIOUS
  <2>2. PICK F : Solves(F, n)
    <3>1. n <= Len(s)
      BY <2>1
    <3>2. QED
      BY <1>2, <3>1
  <2> USE DEF Solves
  <2> DEFINE G == [i \in 0 .. n + 1 |-> IF i = n + 1 THEN At(F, n + 1) ELSE F[i]]
  <2>3. \A i \in 0 .. n : F[i] = At(F, i)
    BY <2>2
  <2>4. \A i \in 0 .. n : G[i] = F[i]
    OBVIOUS
  <2>5. G[n + 1] = At(F, n + 1)
    OBVIOUS
  <2>6. G = [i \in 0 .. n + 1 |-> G[i]]
    OBVIOUS
  <2> HIDE DEF G
  <2>7. ASSUME NEW i \in 0 .. n + 1 PROVE G[i] = At(G, i)
    <3>1. CASE i = 0
      BY <2>3, <2>4, <3>1
    <3>2. CASE i \in 1 .. n
      <4>1. i - 1 \in 0 .. n /\ i \in 0 .. n
        BY <3>2
      <4>2. QED
        BY <2>3, <2>4, <4>1
    <3>3. CASE i = n + 1
      <4>1. (n + 1) - 1 = n /\ n \in 0 .. n
        OBVIOUS
      <4>2. QED
        BY <2>4, <2>5, <3>3, <4>1
    <3>4. QED
      BY <3>1, <3>2, <3>3
  <2>8. Solves(G, n + 1)
    BY <2>6, <2>7
  <2>9. QED
    BY <2>8
<1>3. Nat \subseteq P
  <2> HIDE DEF P
  <2>1. QED
    BY <1>1, <1>2, SetInduction
<1>4. Len(s) \in Nat
  OBVIOUS
<1>5. \E F : Solves(F, Len(s))
  BY <1>3, <1>4
<1> DEFINE left == CHOOSE F : Solves(F, Len(s))
<1>6. Solves(left, Len(s))
  BY <1>5
<1>7. StillRunning(s, D) = left[Len(s)]
  BY DEF StillRunning
<1> HIDE DEF left
<1>8. left[0] = <<>>
  BY <1>4, <1>6
<1>9. \A n \in 1 .. Len(s) : left[n] = IF s[n] \in D THEN left[n - 1] ELSE Append(left[n - 1], s[n])
  <2>1. \A i \in 0 .. Len(s) : left[i] = At(left, i)
    BY <1>6
  <2>2. \A n \in 1 .. Len(s) : n \in 0 .. Len(s) /\ n # 0
    BY <1>4
  <2>3. QED
    BY <2>1, <2>2
<1>10. QED
  BY <1>7, <1>8, <1>9

(* The loop that drops ended processes keeps exactly the others, each      *)
(* once.                                                                   *)
LEMMA StillRunningFacts ==
  ASSUME NEW S, NEW s \in Seq(S), NEW D
  PROVE  /\ StillRunning(s, D) \in Seq(S)
         /\ ToSet(StillRunning(s, D)) = ToSet(s) \ D
         /\ IsInjective(s) => IsInjective(StillRunning(s, D))
<1>1. PICK F : /\ F[0] = <<>>
               /\ \A n \in 1 .. Len(s) :
                    F[n] = IF s[n] \in D THEN F[n - 1] ELSE Append(F[n - 1], s[n])
               /\ StillRunning(s, D) = F[Len(s)]
  BY StillRunningSteps
<1> DEFINE First(n) == {s[j] : j \in 1 .. n}
           Good(n) == /\ F[n] \in Seq(S)
                      /\ ToSet(F[n]) = First(n) \ D
                      /\ IsInjective(s) => IsInjective(F[n])
           P == {n \in Nat : n <= Len(s) => Good(n)}
<1>2. 0 \in P
  <2>1. F[0] = <<>> /\ First(0) = {}
    BY <1>1
  <2>2. <<>> \in Seq(S) /\ ToSet(<<>>) = {} /\ IsInjective(<<>>)
    BY DEF ToSet, IsInjective
  <2>3. QED
    BY <2>1, <2>2
<1>3. ASSUME NEW n \in Nat, n \in P PROVE n + 1 \in P
  <2>1. SUFFICES ASSUME n + 1 <= Len(s) PROVE Good(n + 1)
    OBVIOUS
  <2>2. n <= Len(s) /\ n + 1 \in 1 .. Len(s) /\ (n + 1) - 1 = n
    BY <2>1
  <2>3. Good(n)
    BY <1>3, <2>2
  <2>4. F[n + 1] = IF s[n + 1] \in D THEN F[n] ELSE Append(F[n], s[n + 1])
    BY <1>1, <2>2
  <2>5. First(n + 1) = First(n) \cup {s[n + 1]}
    <3>1. 1 .. n + 1 = (1 .. n) \cup {n + 1}
      OBVIOUS
    <3>2. QED
      BY <3>1
  <2>6. s[n + 1] \in S
    BY <2>2
  <2> HIDE DEF First
  <2>7. CASE s[n + 1] \in D
    BY <2>3, <2>4, <2>5, <2>7
  <2>8. CASE s[n + 1] \notin D
    <3> DEFINE e == <<s[n + 1]>>
    <3>1. Append(F[n], s[n + 1]) = F[n] \o e
      BY <2>3, <2>6
    <3>2. e \in Seq(S) /\ ToSet(e) = {s[n + 1]} /\ IsInjective(e)
      BY <2>6 DEF ToSet, IsInjective
    <3> HIDE DEF e
    <3>3. /\ F[n] \o e \in Seq(S)
          /\ ToSet(F[n] \o e) = ToSet(F[n]) \cup ToSet(e)
          /\ IsInjective(F[n] \o e) <=>
               IsInjective(F[n]) /\ IsInjective(e) /\ ToSet(F[n]) \cap ToSet(e) = {}
      BY <2>3, <3>2, ConcatFacts
    <3>4. IsInjective(s) => s[n + 1] \notin First(n)
      <4>1. SUFFICES ASSUME IsInjective(s), NEW j \in 1 .. n, s[j] = s[n + 1] PROVE FALSE
        BY DEF First
      <4>2. j \in DOMAIN s /\ n + 1 \in DOMAIN s /\ j # n + 1
        BY <2>2
      <4>3. QED
        BY <4>1, <4>2 DEF IsInjective
    <3>5. F[n + 1] = F[n] \o e
      BY <2>4, <2>8, <3>1
    <3>6. ToSet(F[n + 1]) = First(n + 1) \ D
      BY <2>3, <2>5, <2>8, <3>2, <3>3, <3>5
    <3>7. IsInjective(s) => IsInjective(F[n + 1])
      BY <2>3, <3>2, <3>3, <3>4, <3>5
    <3>8. QED
      BY <3>3, <3>5, <3>6, <3>7
  <2>9. QED
    BY <2>7, <2>8
<1>4. Nat \subseteq P
  <2> HIDE DEF P
  <2>1. QED
    BY <1>2, <1>3, SetInduction
<1>5. Len(s) \in Nat /\ First(Len(s)) = ToSet(s)
  BY DEF ToSet
<1> HIDE DEF First
<1>6. Good(Len(s))
  BY <1>4, <1>5
<1>7. QED
  BY <1>1, <1>5, <1>6

(* The first loop of ProcessRunner.poll preempts no more than there are,   *)
(* never the oldest, and none with --no-kill.                              *)
LEMMA KillsBound ==
  ASSUME TypeOK
  PROVE  /\ Kills \in 0 .. Len(running)
         /\ running # <<>> => Kills <= Len(running) - 1
         /\ args.no_kill => Kills = 0
<1> DEFINE enough(k) == FreeAfter(k) >= GLOBAL_MEMORY_BUFFER
           S == {k \in 0 .. Len(running) : enough(k) \/ Len(running) - k <= 1}
<1>1. running \in Seq(Procs) /\ Len(running) \in Nat
  BY DEF TypeOK
<1>2. CASE args.no_kill
  BY <1>1, <1>2 DEF Kills
<1>3. CASE ~args.no_kill
  <2>1. Kills = Min(S)
    BY <1>3 DEF Kills
  <2> HIDE DEF enough
  <2>2. S \in SUBSET Nat /\ Len(running) \in S
    BY <1>1
  <2>3. running # <<>> => Len(running) - 1 \in S
    BY <1>1
  <2>4. S \subseteq 0 .. Len(running)
    OBVIOUS
  <2> HIDE DEF S
  <2>5. Min(S) \in S
    BY <2>2, MinBounds
  <2>6. running # <<>> => Min(S) <= Len(running) - 1
    BY <2>2, <2>3, MinBounds
  <2>7. QED
    BY <1>3, <2>1, <2>4, <2>5, <2>6
<1>4. QED
  BY <1>2, <1>3

(* The second loop of ProcessRunner.poll starts no more than wait.         *)
LEMMA StartsBound ==
  ASSUME NEW queue \in Seq(Procs), NEW free, NEW exp, NEW active
  PROVE  Starts(queue, free, exp, active) \in 0 .. Len(queue)
<1> DEFINE fromEnd(j) == exp[queue[Len(queue) - j]]
           freeFor(j) == free - MapThenSumSet(LAMBDA i : Charge(fromEnd(i)), 0..(j - 1))
           goes(j) == /\ active + j < MAX_RUNNING
                      /\ freeFor(j) > fromEnd(j) + GLOBAL_MEMORY_BUFFER
           S == {m \in 0..Len(queue) : \A j \in 0..(m - 1) : goes(j)}
<1>1. Starts(queue, free, exp, active) = Max(S)
  BY DEF Starts
<1> HIDE DEF goes
<1>2. Len(queue) \in Nat /\ S \in SUBSET (0 .. Len(queue)) /\ 0 \in S
  OBVIOUS
<1> HIDE DEF S
<1>3. Max(S) \in S
  BY <1>2, MaxMember
<1>4. QED
  BY <1>1, <1>2, <1>3

(* What the first two loops of ProcessRunner.poll make of the two lists:   *)
(* what runs is kept or preempted, what waited or was preempted waits or   *)
(* is started, and nothing is in two places if it was not before.          *)
Split(kept, victims, started) ==
  /\ kept \in Seq(Procs) /\ victims \in Seq(Procs) /\ started \in Seq(Procs)
  /\ pending' \in Seq(Procs)
  /\ ToSet(running) = ToSet(kept) \cup ToSet(victims)
  /\ ToSet(pending) \cup ToSet(victims) = ToSet(pending') \cup ToSet(started)
  /\ running # <<>> => Head(running) \in ToSet(kept)
  /\ args.no_kill => victims = <<>>
  /\ IsInjective(pending \o running) =>
       /\ IsInjective(pending') /\ IsInjective(kept \o started)
       /\ ToSet(pending') \cap ToSet(kept \o started) = {}
       /\ ToSet(kept) \cap ToSet(victims) = {}
       /\ ToSet(kept) \cap ToSet(started) = {}

(* Every poll splits the lists that way.                                   *)
LEMMA PollShape ==
  ASSUME TypeOK, Poll
  PROVE  \E kept, victims, started :
           /\ Split(kept, victims, started)
           /\ expected_memory' = ExpectedAfter(victims)
           /\ kill' = KillAfter(victims)
           /\ PollRunning(kept, victims, started,
                   [p \in Procs |-> Reason(p, ToSet(started), KillAfter(victims))])
           /\ UNCHANGED args
<1> DEFINE victims == Youngest(Kills)
           exp == ExpectedAfter(victims)
           kills == Len(victims)
           kept == SubSeq(running, 1, Len(running) - kills)
           queue == Queue(victims)
           m == Starts(queue, FreeAfter(kills), exp, Len(kept))
           tail == SubSeq(queue, Len(queue) - m + 1, Len(queue))
           started == Reverse(tail)
           rest == SubSeq(queue, 1, Len(queue) - m)
           back == SubSeq(running, Len(running) - Kills + 1, Len(running))
<1>1. /\ pending' = rest
      /\ expected_memory' = exp
      /\ kill' = KillAfter(victims)
      /\ PollRunning(kept, victims, started,
              [p \in Procs |-> Reason(p, ToSet(started), KillAfter(victims))])
      /\ UNCHANGED args
  BY DEF Poll
<1>2. /\ running \in Seq(Procs) /\ pending \in Seq(Procs) /\ Kills \in 0 .. Len(running)
      /\ running # <<>> => Kills <= Len(running) - 1
      /\ args.no_kill => Kills = 0
      /\ Len(running) \in Nat
  BY KillsBound DEF TypeOK
<1>3. victims = Reverse(back)
  BY DEF Youngest
<1>4. /\ back \in Seq(Procs) /\ Len(back) = Kills
      /\ SubSeq(running, 1, Len(running) - Kills) \in Seq(Procs)
      /\ Len(SubSeq(running, 1, Len(running) - Kills)) = Len(running) - Kills
      /\ running = SubSeq(running, 1, Len(running) - Kills) \o back
  BY <1>2, SplitFacts
<1> HIDE DEF victims, back
<1>5. /\ victims \in Seq(Procs) /\ kills = Kills /\ ToSet(victims) = ToSet(back)
      /\ IsInjective(victims) <=> IsInjective(back)
  BY <1>3, <1>4, ReverseFacts
<1> HIDE DEF kills
<1>6. kept \in Seq(Procs) /\ Len(kept) = Len(running) - Kills /\ running = kept \o back
  BY <1>4, <1>5
<1>7. running # <<>> => Head(running) \in ToSet(kept)
  <2>1. SUFFICES ASSUME running # <<>> PROVE Head(running) \in ToSet(kept)
    OBVIOUS
  <2>2. Len(kept) >= 1
    BY <1>2, <1>6, <2>1
  <2> HIDE DEF kept
  <2>3. Head(running) = kept[1]
    BY <1>4, <1>6, <2>2
  <2>4. QED
    BY <1>6, <2>2, <2>3 DEF ToSet
<1> HIDE DEF kept
<1>8. /\ ToSet(running) = ToSet(kept) \cup ToSet(back)
      /\ IsInjective(running) <=>
           IsInjective(kept) /\ IsInjective(back) /\ ToSet(kept) \cap ToSet(back) = {}
  BY <1>4, <1>6, ConcatFacts
<1>9. /\ queue \in Seq(Procs) /\ ToSet(queue) = ToSet(pending) \cup ToSet(victims)
      /\ IsInjective(queue) <=>
           IsInjective(pending) /\ IsInjective(victims) /\ ToSet(pending) \cap ToSet(victims) = {}
  BY <1>2, <1>5, ConcatFacts DEF Queue
<1> HIDE DEF queue
<1>10. m \in 0 .. Len(queue)
  BY <1>9, StartsBound
<1> HIDE DEF m
<1>11. rest \in Seq(Procs) /\ tail \in Seq(Procs) /\ queue = rest \o tail
  BY <1>9, <1>10, SplitFacts
<1> HIDE DEF rest, tail
<1>12. /\ ToSet(queue) = ToSet(rest) \cup ToSet(tail)
       /\ IsInjective(queue) <=>
           IsInjective(rest) /\ IsInjective(tail) /\ ToSet(rest) \cap ToSet(tail) = {}
  BY <1>11, ConcatFacts
<1>13. /\ started \in Seq(Procs) /\ ToSet(started) = ToSet(tail)
       /\ IsInjective(started) <=> IsInjective(tail)
  BY <1>11, ReverseFacts
<1> HIDE DEF started
<1>14. /\ ToSet(kept \o started) = ToSet(kept) \cup ToSet(started)
       /\ IsInjective(kept \o started) <=>
           IsInjective(kept) /\ IsInjective(started) /\ ToSet(kept) \cap ToSet(started) = {}
  BY <1>6, <1>13, ConcatFacts
<1>15. args.no_kill => victims = <<>>
  BY <1>2, <1>5 DEF kills
<1>16. ASSUME IsInjective(pending \o running)
       PROVE  /\ IsInjective(rest) /\ IsInjective(kept \o started)
              /\ ToSet(rest) \cap ToSet(kept \o started) = {}
              /\ ToSet(kept) \cap ToSet(victims) = {}
              /\ ToSet(kept) \cap ToSet(started) = {}
  <2>1. /\ IsInjective(pending) /\ IsInjective(running)
        /\ ToSet(pending) \cap ToSet(running) = {}
    BY <1>2, <1>16, ConcatFacts
  <2>2. /\ IsInjective(kept) /\ IsInjective(victims) /\ ToSet(kept) \cap ToSet(victims) = {}
    BY <1>5, <1>8, <2>1
  <2>3. ToSet(pending) \cap ToSet(victims) = {} /\ ToSet(pending) \cap ToSet(kept) = {}
    BY <1>5, <1>8, <2>1
  <2>4. ToSet(queue) \cap ToSet(kept) = {} /\ IsInjective(queue)
    BY <1>9, <2>1, <2>2, <2>3
  <2>5. /\ IsInjective(rest) /\ IsInjective(started) /\ ToSet(rest) \cap ToSet(started) = {}
        /\ ToSet(kept) \cap ToSet(started) = {} /\ ToSet(kept) \cap ToSet(rest) = {}
    BY <1>12, <1>13, <2>4
  <2>6. QED
    BY <1>14, <2>2, <2>5
<1>17. Split(kept, victims, started)
  <2>1. ToSet(pending) \cup ToSet(victims) = ToSet(rest) \cup ToSet(started)
    BY <1>9, <1>12, <1>13
  <2>2. ToSet(running) = ToSet(kept) \cup ToSet(victims)
    BY <1>5, <1>8
  <2>3. QED
    BY <1>1, <1>5, <1>6, <1>7, <1>11, <1>13, <1>15, <1>16, <2>1, <2>2 DEF Split
<1>18. QED
  BY <1>1, <1>17 DEF exp

(* What is queued or runs has a caller that got its future.                *)
Submitted == \A p \in ToSet(pending \o running) : future[p] # "none"

(* With --no-kill the mark a cancellation leaves is not overwritten.       *)
CancelKept ==
  \A p \in Procs : args.no_kill /\ future[p] = "cancelled" => kill[p] = "kill"

(* The inductive invariant.                                                *)
Inv == NoneLost /\ Submitted /\ CancelKept

(* The steps OldestKeepsRunning allows.                                    *)
OldestStep ==
  running # <<>> =>
    LET p == Head(running)
    IN  \/ p \in ToSet(running') /\ max_memory'[p] >= max_memory[p]
        \/ os'[p] = "killed" /\ p \notin ToSet(pending')

(* The steps CancelRespected allows.                                       *)
CancelStep ==
  \A p \in Procs :
    /\ future[p] \in Results \cup {"cancelled"} => future'[p] = future[p]
    /\ (Poll /\ args.no_kill /\ future[p] = "cancelled") =>
          os'[p] # "alive" /\ p \notin ToSet(running')

(* The memory a process is charged with is a number of GB.                 *)
LEMMA MemoryType ==
  ASSUME TypeOK
  PROVE  \A p \in Procs : /\ max_memory[p] \in Nat /\ rss[p] \in Nat
                          /\ expected_memory[p] \in Nat
                          /\ Max({max_memory[p], rss[p]}) \in MemLevels
                          /\ Max({max_memory[p], rss[p]}) >= max_memory[p]
                          /\ Max({expected_memory[p], max_memory[p], rss[p]}) \in Nat
<1>1. SUFFICES ASSUME NEW p \in Procs
               PROVE  /\ max_memory[p] \in Nat /\ rss[p] \in Nat
                      /\ expected_memory[p] \in Nat
                      /\ Max({max_memory[p], rss[p]}) \in MemLevels
                      /\ Max({max_memory[p], rss[p]}) >= max_memory[p]
                      /\ Max({expected_memory[p], max_memory[p], rss[p]}) \in Nat
  OBVIOUS
<1>2. /\ max_memory[p] \in MemLevels /\ rss[p] \in MemLevels /\ expected_memory[p] \in Nat
      /\ max_memory[p] \in Nat /\ rss[p] \in Nat
  BY ProcessRunnerAssumption DEF TypeOK
<1>3. /\ Max({max_memory[p], rss[p]}) \in {max_memory[p], rss[p]}
      /\ Max({max_memory[p], rss[p]}) >= max_memory[p]
  BY <1>2, MaxPair
<1>4. QED
  BY <1>2, <1>3, MaxThree

(* A poll loses no process, goes on with the oldest one and gives up what  *)
(* was cancelled.                                                          *)
LEMMA PollStep ==
  ASSUME Inv, Poll
  PROVE  Inv' /\ OldestStep /\ CancelStep
<1>0. TypeOK /\ NoWaiterForgotten /\ NoOrphan /\ Submitted /\ CancelKept
  BY DEF Inv, NoneLost
<1>1. PICK kept, victims, started :
           /\ Split(kept, victims, started)
           /\ expected_memory' = ExpectedAfter(victims)
           /\ kill' = KillAfter(victims)
           /\ PollRunning(kept, victims, started,
                   [p \in Procs |-> Reason(p, ToSet(started), KillAfter(victims))])
           /\ UNCHANGED args
  BY <1>0, PollShape
<1> DEFINE fresh == ToSet(started)
           reason == [p \in Procs |-> Reason(p, fresh, KillAfter(victims))]
           live == kept \o started
           done == {p \in ToSet(live) : reason[p] # "running"}
<1>2. /\ running' = StillRunning(live, done)
      /\ future' = Deliver(done, reason)
      /\ os' = OsAfter(done, victims, fresh)
      /\ rss' = [p \in Procs |-> IF p \in done \cup ToSet(victims) \cup fresh
                                 THEN 0 ELSE rss[p]]
      /\ max_memory' = [p \in Procs |-> IF p \in fresh THEN 0
                                        ELSE Max({max_memory[p], rss[p]})]
      /\ overdue' = (overdue \cap ToSet(kept)) \ done
  BY <1>1 DEF PollRunning
<1>3. /\ kept \in Seq(Procs) /\ victims \in Seq(Procs) /\ started \in Seq(Procs)
      /\ pending' \in Seq(Procs) /\ running \in Seq(Procs) /\ pending \in Seq(Procs)
      /\ ToSet(running) = ToSet(kept) \cup ToSet(victims)
      /\ ToSet(pending) \cup ToSet(victims) = ToSet(pending') \cup fresh
      /\ running # <<>> => Head(running) \in ToSet(kept)
      /\ args.no_kill => victims = <<>>
  BY <1>0, <1>1 DEF Split, TypeOK
<1>4. /\ IsInjective(pending') /\ IsInjective(live)
      /\ ToSet(pending') \cap ToSet(live) = {}
      /\ ToSet(kept) \cap ToSet(victims) = {}
      /\ ToSet(kept) \cap fresh = {}
  BY <1>0, <1>1 DEF Split, NoWaiterForgotten
<1>5. live \in Seq(Procs) /\ ToSet(live) = ToSet(kept) \cup fresh
  BY <1>3, ConcatFacts
<1>6. \A p \in Procs : reason[p] \in Results \cup {"running"}
  <2>1. \A p \in Procs : Reason(p, fresh, KillAfter(victims)) \in Results \cup {"running"}
    BY DEF Reason, Results
  <2>2. QED
    BY <2>1
<1>7. ToSet(kept) \subseteq Procs /\ fresh \subseteq Procs
  BY <1>3 DEF ToSet
<1>8. \A p \in Procs : p \in done => reason[p] \in Results
  BY <1>6
<1>9. done \subseteq ToSet(live) /\ done \subseteq Procs
  BY <1>5, <1>7
<1> HIDE DEF live
<1>10. /\ running' \in Seq(Procs) /\ ToSet(running') = ToSet(live) \ done
       /\ IsInjective(running')
  BY <1>2, <1>4, <1>5, StillRunningFacts
<1>11. /\ ToSet(pending' \o running') = ToSet(pending') \cup ToSet(running')
       /\ IsInjective(pending' \o running')
  <2>1. ToSet(pending') \cap ToSet(running') = {}
    BY <1>4, <1>10
  <2>2. QED
    BY <1>3, <1>4, <1>10, <2>1, ConcatFacts, ZenonT(60)
<1>12. ToSet(pending \o running) = ToSet(pending) \cup ToSet(running)
  BY <1>3, ConcatFacts
<1>13. ToSet(pending) \cup ToSet(running) = ToSet(pending') \cup ToSet(live)
  BY <1>3, <1>5
<1>14. KillAfter(victims) = [p \in Procs |-> IF p \in ToSet(victims) THEN "none" ELSE kill[p]]
  BY DEF KillAfter
<1>15. ASSUME args.no_kill, NEW p \in Procs, kill[p] = "kill", p \in ToSet(live)
       PROVE  p \in done
  <2>1. KillAfter(victims)[p] = "kill"
    <3>1. ToSet(victims) = {}
      BY <1>3, <1>15 DEF ToSet
    <3>2. QED
      BY <1>14, <1>15, <3>1
  <2>2. Reason(p, fresh, KillAfter(victims)) \in {"TIMEOUT", "UNINTERESTED"}
    BY <2>1 DEF Reason
  <2>3. QED
    BY <1>15, <2>2
<1> HIDE DEF done, reason
<1>16. \A p \in Procs : future'[p] = IF p \in done /\ future[p] = "waiting"
                                     THEN reason[p] ELSE future[p]
  BY <1>2 DEF Deliver
<1>17. \A p \in Procs : os'[p] = IF p \in done \cup (ToSet(victims) \ fresh) THEN "killed"
                                 ELSE IF p \in fresh THEN "alive" ELSE os[p]
  BY <1>2 DEF OsAfter
<1> HIDE DEF fresh
<1>18. TypeOK'
  <2>1. /\ args' \in [no_kill : BOOLEAN, max_mem : MaxMems]
        /\ kill' \in [Procs -> {"none", "kill"}]
        /\ overdue' \subseteq Timed
    BY <1>0, <1>1, <1>2, <1>14 DEF TypeOK
  <2>2. future' \in [Procs -> Results \cup {"none", "waiting", "cancelled"}]
    <3>1. future' = [p \in Procs |-> IF p \in done /\ future[p] = "waiting"
                                     THEN reason[p] ELSE future[p]]
      BY <1>2 DEF Deliver
    <3>2. QED
      BY <1>0, <1>8, <3>1 DEF TypeOK
  <2>3. os' \in [Procs -> {"none", "alive", "exited", "killed"}]
    <3>1. os' = [p \in Procs |-> IF p \in done \cup (ToSet(victims) \ fresh) THEN "killed"
                                 ELSE IF p \in fresh THEN "alive" ELSE os[p]]
      BY <1>2 DEF OsAfter
    <3>2. QED
      BY <1>0, <3>1 DEF TypeOK
  <2>4. rss' \in [Procs -> MemLevels]
    BY <1>0, <1>2, ProcessRunnerAssumption DEF TypeOK
  <2>5. max_memory' \in [Procs -> MemLevels]
    BY <1>0, <1>2, MemoryType, ProcessRunnerAssumption
  <2>6. expected_memory' \in [Procs -> Nat]
    <3>1. expected_memory' =
            [p \in Procs |-> IF p \in ToSet(victims)
                             THEN Max({expected_memory[p], max_memory[p], rss[p]})
                             ELSE expected_memory[p]]
      BY <1>1 DEF ExpectedAfter
    <3>2. QED
      BY <1>0, <3>1, MemoryType
  <2>7. QED
    BY <1>3, <1>10, <2>1, <2>2, <2>3, <2>4, <2>5, <2>6 DEF TypeOK
<1>19. NoWaiterForgotten'
  <2>1. ASSUME NEW p \in Procs, future'[p] = "waiting"
        PROVE  p \in ToSet(pending' \o running')
    <3>1. future[p] = "waiting" /\ p \notin done
      BY <1>8, <1>16, <2>1 DEF Results
    <3>2. p \in ToSet(pending) \cup ToSet(running)
      BY <1>0, <1>12, <3>1 DEF NoWaiterForgotten
    <3>3. QED
      BY <1>10, <1>11, <1>13, <3>1, <3>2
  <2>2. QED
    BY <1>11, <2>1 DEF NoWaiterForgotten
<1>20. NoOrphan'
  <2>1. ASSUME NEW p \in Procs, os'[p] = "alive"
        PROVE  p \in ToSet(running')
    <3>1. p \notin done /\ (p \in fresh \/ (p \notin ToSet(victims) /\ os[p] = "alive"))
      BY <1>17, <2>1
    <3>2. p \in ToSet(live)
      BY <1>0, <1>3, <1>5, <3>1 DEF NoOrphan, fresh
    <3>3. QED
      BY <1>10, <3>1, <3>2
  <2>2. QED
    BY <2>1 DEF NoOrphan
<1>21. Submitted'
  <2>1. ASSUME NEW p \in ToSet(pending' \o running') PROVE future'[p] # "none"
    <3>1. p \in ToSet(pending) \cup ToSet(running)
      BY <1>10, <1>11, <1>13
    <3>2. p \in Procs /\ future[p] # "none"
      <4>1. ToSet(pending) \subseteq Procs /\ ToSet(running) \subseteq Procs
        BY <1>3 DEF ToSet
      <4>2. QED
        BY <1>0, <1>12, <3>1, <4>1 DEF Submitted
    <3>3. QED
      BY <1>8, <1>16, <3>2 DEF Results
  <2>2. QED
    BY <2>1 DEF Submitted
<1>22. CancelKept'
  <2>1. ASSUME NEW p \in Procs, args'.no_kill, future'[p] = "cancelled"
        PROVE  kill'[p] = "kill"
    <3>1. args.no_kill /\ future[p] = "cancelled"
      BY <1>1, <1>8, <1>16, <2>1 DEF Results
    <3>2. kill[p] = "kill" /\ ToSet(victims) = {}
      BY <1>0, <1>3, <3>1 DEF CancelKept, ToSet
    <3>3. QED
      BY <1>1, <1>14, <3>2
  <2>2. QED
    BY <2>1 DEF CancelKept
<1>23. OldestStep
  <2>1. SUFFICES ASSUME running # <<>>, NEW p, p = Head(running)
                 PROVE  \/ p \in ToSet(running') /\ max_memory'[p] >= max_memory[p]
                        \/ os'[p] = "killed" /\ p \notin ToSet(pending')
    BY DEF OldestStep
  <2>2. /\ p \in ToSet(kept) /\ p \in Procs /\ p \in ToSet(live)
        /\ p \notin ToSet(pending') /\ p \notin fresh
    BY <1>3, <1>4, <1>5, <1>7, <2>1
  <2>3. CASE p \in done
    BY <1>17, <2>2, <2>3
  <2>4. CASE p \notin done
    <3>1. max_memory'[p] = Max({max_memory[p], rss[p]})
      BY <1>2, <2>2
    <3>2. max_memory'[p] >= max_memory[p]
      BY <1>0, <2>2, <3>1, MemoryType
    <3>3. QED
      BY <1>10, <2>2, <2>4, <3>2
  <2>5. QED
    BY <2>3, <2>4
<1>24. CancelStep
  <2>1. ASSUME NEW p \in Procs, future[p] \in Results \cup {"cancelled"}
        PROVE  future'[p] = future[p]
    BY <1>16, <2>1 DEF Results
  <2>2. ASSUME NEW p \in Procs, args.no_kill, future[p] = "cancelled"
        PROVE  os'[p] # "alive" /\ p \notin ToSet(running')
    <3>1. kill[p] = "kill"
      BY <1>0, <2>2 DEF CancelKept
    <3>2. p \in ToSet(live) => p \in done
      BY <1>15, <2>2, <3>1
    <3>3. p \notin ToSet(running')
      BY <1>10, <3>2
    <3>4. QED
      BY <1>20, <3>3 DEF NoOrphan
  <2>3. QED
    BY <2>1, <2>2 DEF CancelStep
<1>25. QED
  BY <1>18, <1>19, <1>20, <1>21, <1>22, <1>23, <1>24 DEF Inv, NoneLost

(* A new process is queued once.                                           *)
LEMMA ShellStep ==
  ASSUME Inv, NEW p \in Procs, shell(p)
  PROVE  Inv'
<1>1. TypeOK /\ NoWaiterForgotten /\ NoOrphan /\ Submitted /\ CancelKept
  BY DEF Inv, NoneLost
<1>2. /\ future[p] = "none" /\ future' = [future EXCEPT ![p] = "waiting"]
      /\ pending' = <<p>> \o pending
      /\ UNCHANGED <<args, running, kill, os, rss, max_memory, expected_memory, overdue>>
  BY DEF shell
<1>3. pending \in Seq(Procs) /\ running \in Seq(Procs) /\ <<p>> \in Seq(Procs)
  BY <1>1 DEF TypeOK
<1>4. ToSet(<<p>>) = {p} /\ IsInjective(<<p>>)
  BY DEF ToSet, IsInjective
<1>5. /\ pending \o running \in Seq(Procs)
      /\ ToSet(pending \o running) = ToSet(pending) \cup ToSet(running)
      /\ IsInjective(pending \o running) <=>
           /\ IsInjective(pending) /\ IsInjective(running)
           /\ ToSet(pending) \cap ToSet(running) = {}
  BY <1>3, ConcatFacts
<1>6. p \notin ToSet(pending) /\ p \notin ToSet(running)
  BY <1>1, <1>2, <1>5 DEF Submitted
<1>7. /\ pending' \in Seq(Procs) /\ ToSet(pending') = {p} \cup ToSet(pending)
      /\ IsInjective(pending') <=> IsInjective(pending)
  <2>1. /\ <<p>> \o pending \in Seq(Procs)
        /\ ToSet(<<p>> \o pending) = ToSet(<<p>>) \cup ToSet(pending)
        /\ IsInjective(<<p>> \o pending) <=>
             IsInjective(<<p>>) /\ IsInjective(pending) /\ ToSet(<<p>>) \cap ToSet(pending) = {}
    BY <1>3, ConcatFacts, Zenon
  <2>2. {p} \cap ToSet(pending) = {}
    BY <1>6
  <2>3. QED
    BY <1>2, <1>4, <2>1, <2>2, Zenon
<1>8. /\ ToSet(pending' \o running) = ToSet(pending') \cup ToSet(running)
      /\ IsInjective(pending' \o running) <=>
           /\ IsInjective(pending') /\ IsInjective(running)
           /\ ToSet(pending') \cap ToSet(running) = {}
  BY <1>3, <1>7, ConcatFacts
<1>9. IsInjective(pending' \o running')
  BY <1>1, <1>2, <1>5, <1>6, <1>7, <1>8 DEF NoWaiterForgotten
<1>10. ToSet(pending' \o running') = ToSet(pending \o running) \cup {p}
  BY <1>2, <1>5, <1>7, <1>8
<1>11. \A q \in Procs : future'[q] = IF q = p THEN "waiting" ELSE future[q]
  BY <1>1, <1>2 DEF TypeOK
<1>12. TypeOK'
  BY <1>1, <1>2, <1>7 DEF TypeOK
<1>13. NoWaiterForgotten'
  BY <1>1, <1>9, <1>10, <1>11 DEF NoWaiterForgotten
<1>14. NoOrphan'
  BY <1>1, <1>2 DEF NoOrphan
<1>15. Submitted'
  <2>1. ToSet(pending \o running) \subseteq Procs
    BY <1>5 DEF ToSet
  <2>2. QED
    BY <1>1, <1>10, <1>11, <2>1 DEF Submitted
<1>16. CancelKept'
  BY <1>1, <1>2, <1>11 DEF CancelKept
<1>17. QED
  BY <1>12, <1>13, <1>14, <1>15, <1>16 DEF Inv, NoneLost

(* A cancellation leaves the lists alone and marks the process.            *)
LEMMA CancelKeepsInv ==
  ASSUME Inv, NEW p \in Procs, Cancel(p)
  PROVE  Inv'
<1>1. TypeOK /\ NoWaiterForgotten /\ NoOrphan /\ Submitted /\ CancelKept
  BY DEF Inv, NoneLost
<1>2. /\ future[p] = "waiting" /\ future' = [future EXCEPT ![p] = "cancelled"]
      /\ kill' = [kill EXCEPT ![p] = "kill"]
      /\ UNCHANGED <<args, pending, running, os, rss, max_memory, expected_memory, overdue>>
  BY DEF Cancel
<1>3. \A q \in Procs : /\ future'[q] = IF q = p THEN "cancelled" ELSE future[q]
                       /\ kill'[q] = IF q = p THEN "kill" ELSE kill[q]
  BY <1>1, <1>2 DEF TypeOK
<1>4. TypeOK'
  BY <1>1, <1>2 DEF TypeOK
<1>5. NoWaiterForgotten' /\ NoOrphan' /\ CancelKept'
  BY <1>1, <1>2, <1>3 DEF NoWaiterForgotten, NoOrphan, CancelKept
<1>6. Submitted'
  <2>1. pending \o running \in Seq(Procs)
    BY <1>1 DEF TypeOK
  <2>2. ToSet(pending \o running) \subseteq Procs
    BY <2>1 DEF ToSet
  <2>3. QED
    BY <1>1, <1>2, <1>3, <2>2 DEF Submitted
<1>7. QED
  BY <1>4, <1>5, <1>6 DEF Inv, NoneLost

(* What a prover does by itself touches neither list nor future.           *)
LEMMA ProcessKeepsInv ==
  ASSUME Inv, NEW p \in Procs, Grow(p) \/ Exit(p) \/ OomKill(p) \/ TimeUp(p)
  PROVE  Inv'
<1>1. TypeOK /\ NoWaiterForgotten /\ NoOrphan /\ Submitted /\ CancelKept
  BY DEF Inv, NoneLost
<1>2. UNCHANGED <<args, pending, running, future, kill, max_memory, expected_memory>>
  BY DEF Grow, Exit, OomKill, TimeUp
<1>3. \A q \in Procs : os'[q] = "alive" => os[q] = "alive"
  BY <1>1 DEF Grow, Exit, OomKill, TimeUp, TypeOK
<1>4. TypeOK'
  <2>1. os' \in [Procs -> {"none", "alive", "exited", "killed"}]
    BY <1>1 DEF Grow, Exit, OomKill, TimeUp, TypeOK
  <2>2. rss' \in [Procs -> MemLevels]
    BY <1>1, ProcessRunnerAssumption, ZenonT(60) DEF Grow, Exit, OomKill, TimeUp, TypeOK
  <2>3. overdue' \subseteq Timed
    BY <1>1 DEF Grow, Exit, OomKill, TimeUp, TypeOK
  <2>4. QED
    BY <1>1, <1>2, <2>1, <2>2, <2>3 DEF TypeOK
<1>5. NoWaiterForgotten' /\ NoOrphan' /\ CancelKept' /\ Submitted'
  BY <1>1, <1>2, <1>3 DEF NoWaiterForgotten, NoOrphan, CancelKept, Submitted
<1>6. QED
  BY <1>4, <1>5 DEF Inv, NoneLost

(* Between two polls nothing that runs is dropped and no answer is taken   *)
(* back.                                                                   *)
LEMMA QuietStep ==
  ASSUME Inv, ~Poll, NEW p \in Procs,
         shell(p) \/ Cancel(p) \/ Grow(p) \/ Exit(p) \/ OomKill(p) \/ TimeUp(p)
  PROVE  OldestStep /\ CancelStep
<1>1. TypeOK
  BY DEF Inv, NoneLost
<1>2. UNCHANGED <<running, max_memory>>
  BY DEF shell, Cancel, Grow, Exit, OomKill, TimeUp
<1>3. OldestStep
  <2>1. SUFFICES ASSUME running # <<>>, NEW q, q = Head(running)
                 PROVE  q \in ToSet(running') /\ max_memory'[q] >= max_memory[q]
    BY DEF OldestStep
  <2>2. q \in ToSet(running) /\ q \in Procs
    BY <1>1, <2>1 DEF TypeOK, ToSet
  <2>3. max_memory[q] \in Nat
    BY <1>1, <2>2, MemoryType
  <2>4. QED
    BY <1>2, <2>2, <2>3
<1>4. \A q \in Procs : future[q] \in Results \cup {"cancelled"} => future'[q] = future[q]
  BY <1>1 DEF shell, Cancel, Grow, Exit, OomKill, TimeUp, TypeOK, Results
<1>5. QED
  BY <1>3, <1>4 DEF CancelStep

(* The invariant holds when the program starts.                            *)
LEMMA InvInit ==
  ASSUME Init
  PROVE  Inv
<1>1. TypeOK
  BY ProcessRunnerAssumption DEF Init, TypeOK
<1>2. pending \o running = <<>>
  BY DEF Init
<1>3. ToSet(<<>>) = {} /\ IsInjective(<<>>)
  BY DEF ToSet, IsInjective
<1>4. QED
  BY <1>1, <1>2, <1>3
     DEF Init, Inv, NoneLost, NoWaiterForgotten, NoOrphan, Submitted, CancelKept

(* Every step keeps the invariant and is one the action properties allow.  *)
LEMMA InvStep ==
  ASSUME Inv, [Next]_vars
  PROVE  /\ Inv'
         /\ [OldestStep]_vars
         /\ [CancelStep]_vars
<1>1. CASE Poll
  BY <1>1, PollStep
<1>2. CASE ~Poll /\ Next
  <2>1. PICK p \in Procs :
          shell(p) \/ Cancel(p) \/ Grow(p) \/ Exit(p) \/ OomKill(p) \/ TimeUp(p)
    BY <1>2 DEF Next
  <2>2. Inv'
    BY <2>1, ShellStep, CancelKeepsInv, ProcessKeepsInv
  <2>3. QED
    BY <1>2, <2>1, <2>2, QuietStep
<1>3. CASE UNCHANGED vars
  BY <1>3 DEF vars, procVars, Inv, NoneLost, TypeOK, NoWaiterForgotten, NoOrphan, Submitted, CancelKept
<1>4. QED
  BY <1>1, <1>2, <1>3

(* Whatever is submitted, preempted, cancelled, times out, is killed by    *)
(* the kernel or blocks: each process is in at most one place of the two   *)
(* lists, every caller that waits has its process there, and no prover is  *)
(* left alive that no list knows of.                                       *)
THEOREM SpecNoneLost == Spec => []NoneLost
<1>1. Inv => NoneLost
  BY DEF Inv
<1>2. QED
  BY <1>1, InvInit, InvStep, PTL DEF Spec

(* The oldest running process is never preempted: a step keeps it running  *)
(* with the memory it is known to need, or ends it for good.  This is what *)
(* lets the queue make progress when memory is short.                      *)
THEOREM SpecOldestKeepsRunning == Spec => OldestKeepsRunning
<1>1. Inv /\ [Next]_vars =>
        [running # <<>> =>
           LET p == Head(running)
           IN  \/ p \in ToSet(running') /\ max_memory'[p] >= max_memory[p]
               \/ os'[p] = "killed" /\ p \notin ToSet(pending')]_vars
  BY InvStep DEF OldestStep
<1>2. QED
  BY <1>1, InvInit, InvStep, PTL DEF Spec, OldestKeepsRunning

(* An answer that was given stays, and with --no-kill the poll after a     *)
(* cancellation kills the process and forgets it.                          *)
THEOREM SpecCancelRespected == Spec => CancelRespected
<1>1. Inv /\ [Next]_vars =>
        [\A p \in Procs :
           /\ future[p] \in Results \cup {"cancelled"} => future'[p] = future[p]
           /\ (Poll /\ args.no_kill /\ future[p] = "cancelled") =>
                 os'[p] # "alive" /\ p \notin ToSet(running')]_vars
  BY InvStep DEF CancelStep
<1>2. QED
  BY <1>1, InvInit, InvStep, PTL DEF Spec, CancelRespected

=============================================================================
