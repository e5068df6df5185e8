------------------------------ MODULE Recursion ------------------------------
(***************************************************************************)
(* Induction over data, in the first order: a set of natural numbers that  *)
(* has 0 and every successor has them all, and a function defined from     *)
(* one value to the next exists.  The library's induction theorems take an *)
(* operator for the induction hypothesis; these take a set.  With them,    *)
(* what the library's FlattenSeq() and SumFunctionOnSet() come to.         *)
(***************************************************************************)
EXTENDS Integers, SequencesExt, FiniteSetsExt, WellFoundedInduction, FiniteSetTheorems,
        SequenceTheorems, TLAPS

\* A set of natural numbers has a least member,
LEMMA LeastOf ==
    ASSUME NEW T, T \subseteq Nat, T # {}
    PROVE  \E least \in T : \A n \in T : least <= n
  <1>1. IsWellFoundedOn(OpToRel(<, Nat), Nat)
    BY NatLessThanWellFounded
  <1>2. PICK least \in T : \A n \in T : <<n, least>> \notin OpToRel(<, Nat)
    BY <1>1, WFMin
  <1>3. \A n \in T : ~(n < least)
    BY <1>2 DEF OpToRel
  <1> QED
    BY <1>3

\* and, if it is bounded, a greatest.
LEMMA GreatestOf ==
    ASSUME NEW bound \in Nat, NEW T, T \subseteq 0 .. bound, T # {}
    PROVE  \E greatest \in T : \A n \in T : n <= greatest
  <1> DEFINE below == {m \in 0 .. bound : bound - m \in T}
  <1>1. below \subseteq Nat /\ below # {}
    <2>1. PICK n \in T : TRUE
      OBVIOUS
    <2>2. bound - n \in 0 .. bound /\ bound - (bound - n) = n
      OBVIOUS
    <2>3. bound - n \in below
      BY <2>2
    <2>4. below \subseteq Nat
      OBVIOUS
    <2> HIDE DEF below
    <2> QED
      BY <2>3, <2>4
  <1>2. PICK least \in below : \A m \in below : least <= m
    BY <1>1, LeastOf
  <1>3. PICK greatest \in T : least = bound - greatest
    <2>1. bound - least \in T /\ least = bound - (bound - least)
      OBVIOUS
    <2> QED
      BY <2>1
  <1>4. ASSUME NEW n \in T PROVE n <= greatest
    <2>1. bound - n \in 0 .. bound /\ bound - (bound - n) = n
      OBVIOUS
    <2>2. least <= bound - n
      BY <1>2, <2>1
    <2> QED
      BY <1>3, <2>2
  <1> QED
    BY <1>4

\* What Min() and Max() of such sets are.
LEMMA MinOf ==
    ASSUME NEW T, T \subseteq Nat, T # {}
    PROVE  Min(T) \in T /\ \A n \in T : Min(T) <= n
  <1>1. \E least \in T : \A n \in T : least <= n
    BY LeastOf
  <1> QED
    BY <1>1 DEF Min

\* And the largest.
LEMMA MaxOf ==
    ASSUME NEW bound \in Nat, NEW T, T \subseteq 0 .. bound, T # {}
    PROVE  Max(T) \in T /\ \A n \in T : n <= Max(T)
  <1>1. \E greatest \in T : \A n \in T : greatest >= n
    BY GreatestOf
  <1> QED
    BY <1>1 DEF Max

\* Induction.
LEMMA Induction ==
    ASSUME NEW S, S \subseteq Nat, 0 \in S, \A n \in S : n + 1 \in S
    PROVE  S = Nat
  <1> SUFFICES ASSUME Nat \ S # {} PROVE FALSE
    OBVIOUS
  <1>1. PICK least \in Nat \ S : \A n \in Nat \ S : least <= n
    BY LeastOf
  <1>2. least - 1 \in Nat /\ least - 1 \notin Nat \ S
    BY <1>1
  <1> QED
    BY <1>1, <1>2

\* Induction up to a number.
LEMMA InductionUpTo ==
    ASSUME NEW n \in Nat, NEW S, 0 \in S, \A i \in 0 .. n - 1 : i \in S => i + 1 \in S
    PROVE  \A i \in 0 .. n : i \in S
  <1> DEFINE T == {i \in Nat : i <= n => i \in S}
  <1>1. T \subseteq Nat /\ 0 \in T
    OBVIOUS
  <1>2. \A i \in T : i + 1 \in T
    OBVIOUS
  <1>3. T = Nat
    <2> HIDE DEF T
    <2> QED
      BY <1>1, <1>2, Induction
  <1> QED
    BY <1>3

\* A function whose values follow, each from the one before,
Follows(f, n, base, next) == f[0] = base /\ \A i \in 1 .. n : f[i] = next[<<i, f[i - 1]>>]

\* exists.
LEMMA Iterated ==
    ASSUME NEW D, NEW n \in Nat, NEW base \in D, NEW next \in [(1 .. n) \X D -> D]
    PROVE  \E f \in [0 .. n -> D] : Follows(f, n, base, next)
  <1> DEFINE Good(f, m) == f[0] = base /\ \A i \in 1 .. m : f[i] = next[<<i, f[i - 1]>>]
             S == {m \in 0 .. n : \E f \in [0 .. m -> D] : Good(f, m)}
  <1>1. 0 \in S
    <2> DEFINE f == [i \in 0 .. 0 |-> base]
    <2>1. f \in [0 .. 0 -> D] /\ f[0] = base
      OBVIOUS
    <2> HIDE DEF f
    <2>2. Good(f, 0)
      BY <2>1
    <2> QED
      BY <2>1, <2>2
  <1>2. ASSUME NEW m \in 0 .. n - 1, m \in S PROVE m + 1 \in S
    <2>1. PICK f \in [0 .. m -> D] : Good(f, m)
      BY <1>2
    <2> DEFINE value == next[<<m + 1, f[m]>>]
               g == [i \in 0 .. m + 1 |-> IF i = m + 1 THEN value ELSE f[i]]
    <2>2. value \in D
      OBVIOUS
    <2> HIDE DEF S
    <2>3. g \in [0 .. m + 1 -> D] /\ g[m + 1] = value /\ \A i \in 0 .. m : g[i] = f[i]
      BY <2>2
    <2> HIDE DEF g
    <2>4. ASSUME NEW i \in 1 .. m + 1 PROVE g[i] = next[<<i, g[i - 1]>>]
      <3>1. CASE i = m + 1
        BY <2>3, <3>1
      <3>2. CASE i # m + 1
        BY <2>1, <2>3, <3>2
      <3> QED
        BY <3>1, <3>2
    <2>5. Good(g, m + 1)
      BY <2>1, <2>3, <2>4
    <2> QED
      BY <2>3, <2>5 DEF S
  <1>3. \A m \in 0 .. n : m \in S
    <2> HIDE DEF S
    <2> QED
      BY <1>1, <1>2, InductionUpTo
  <1>4. PICK f \in [0 .. n -> D] : Good(f, n)
    BY <1>3
  <1> QED
    BY <1>4 DEF Follows

----------------------------------------------------------------------------
(* Sequences of sequences, made one.                                       *)

\* The parts of what FlattenSeq() makes of a sequence of sequences.
Gathers(f, seqs) ==
    /\ f[0] = <<>> /\ \A i \in 1 .. Len(seqs) : f[i] = f[i - 1] \o seqs[i]
    /\ FlattenSeq(seqs) = f[Len(seqs)]

\* There are such parts.
LEMMA Gathered ==
    ASSUME NEW A, NEW seqs \in Seq(Seq(A))
    PROVE  \E f \in [0 .. Len(seqs) -> Seq(A)] : Gathers(f, seqs)
  <1>1. PICK n \in Nat : n = Len(seqs)
    OBVIOUS
  <1>2. \A i \in 1 .. n : seqs[i] \in Seq(A)
    BY <1>1
  <1>4. n = 0 => FlattenSeq(seqs) = <<>>
    <2>1. n = 0 => FlattenSeq(seqs) = seqs
      BY <1>1 DEF FlattenSeq
    <2>2. n = 0 => seqs = <<>>
      BY <1>1, EmptySeq
    <2> QED
      BY <2>1, <2>2
  <1> DEFINE next == [p \in (1 .. n) \X Seq(A) |-> p[2] \o seqs[p[1]]]
  <1>5. next \in [(1 .. n) \X Seq(A) -> Seq(A)] /\ <<>> \in Seq(A)
    BY <1>2
  <1>3. \A i \in 1 .. n, s \in Seq(A) : next[<<i, s>>] = s \o seqs[i]
    OBVIOUS
  <1> HIDE DEF next
  <1>6. PICK g \in [0 .. n -> Seq(A)] : Follows(g, n, <<>>, next)
    BY <1>5, Iterated
  <1>7. g[0] = <<>> /\ \A i \in 1 .. n : g[i] = next[<<i, g[i - 1]>>]
    BY <1>6 DEF Follows
  <1>8. ASSUME NEW i \in 1 .. n PROVE g[i] = g[i - 1] \o seqs[i]
    <2>1. i - 1 \in 0 .. n
      OBVIOUS
    <2>2. g[i - 1] \in Seq(A)
      BY <2>1
    <2> QED
      BY <1>7, <1>3, <2>2
  <1>9. ASSUME NEW i \in 0 .. n - 1 PROVE g[i + 1] = g[i] \o seqs[i + 1]
    <2>1. PICK j \in 1 .. n : j = i + 1
      OBVIOUS
    <2>2. g[j] = g[j - 1] \o seqs[j]
      BY <1>8
    <2>3. j - 1 = i
      BY <2>1
    <2> QED
      BY <2>1, <2>2, <2>3
  <1>10. \A i \in 0 .. n : g[i] \in Seq(A)
    OBVIOUS
  <1>13. n # 0 => FlattenSeq(seqs) = g[n]
    <2> DEFINE flatten[i \in 1 .. Len(seqs)] == IF i = 1 THEN seqs[i] ELSE flatten[i - 1] \o seqs[i]
    <2>3. n # 0 => FlattenSeq(seqs) = flatten[n]
      BY <1>1 DEF FlattenSeq
    <2> DEFINE h == [i \in 1 .. Len(seqs) |-> g[i]]
    <2>9. h = [i \in 1 .. Len(seqs) |-> IF i = 1 THEN seqs[i] ELSE h[i - 1] \o seqs[i]]
      <3> HIDE DEF flatten
      <3>1. ASSUME NEW i \in 1 .. n PROVE g[i] = IF i = 1 THEN seqs[i] ELSE h[i - 1] \o seqs[i]
        <4>1. CASE i = 1
          <5> HIDE DEF h
          <5>0. 0 \in 0 .. n - 1 /\ 0 + 1 = 1 /\ 1 \in 1 .. n
            BY <4>1
          <5>1. g[1] = g[0] \o seqs[1] /\ seqs[1] \in Seq(A)
            BY <1>2, <1>9, <5>0
          <5>2. g[1] = <<>> \o seqs[1]
            BY <1>7, <5>1
          <5>3. g[1] = seqs[1]
            BY <5>1, <5>2
          <5> QED
            BY <4>1, <5>3
        <4>2. CASE i # 1
          <5>1. i - 1 \in 1 .. Len(seqs)
            BY <1>1, <4>2
          <5>2. h[i - 1] = g[i - 1]
            BY <5>1
          <5> HIDE DEF h
          <5> QED
            BY <1>8, <4>2, <5>2
        <4> QED
          BY <4>1, <4>2
      <3>2. \A i \in 1 .. Len(seqs) : g[i] = IF i = 1 THEN seqs[i] ELSE h[i - 1] \o seqs[i]
        <4> HIDE DEF h
        <4> QED
          BY <1>1, <3>1
      <3> QED
        BY <3>2
    <2>10. flatten = [i \in 1 .. Len(seqs) |-> IF i = 1 THEN seqs[i] ELSE flatten[i - 1] \o seqs[i]]
      <3> HIDE DEF h
      <3> QED
        BY <2>9 DEF flatten
    <2> HIDE DEF h, flatten
    <2>15. \A i \in 1 .. n : flatten[i] = IF i = 1 THEN seqs[i] ELSE flatten[i - 1] \o seqs[i]
      BY <1>1, <2>10
    <2> DEFINE S == {i \in 0 .. n : i = 0 \/ flatten[i] = g[i]}
    <2>11. 0 \in S
      OBVIOUS
    <2>12. ASSUME NEW i \in 0 .. n - 1, i \in S PROVE i + 1 \in S
      <3>1. i + 1 \in 1 .. n /\ i + 1 - 1 = i /\ i \in 0 .. n
        OBVIOUS
      <3>2. i = 0 \/ flatten[i] = g[i]
        BY <2>12
      <3> HIDE DEF S
      <3>3. flatten[i + 1] = IF i + 1 = 1 THEN seqs[i + 1] ELSE flatten[i] \o seqs[i + 1]
        BY <2>15, <3>1
      <3>4. g[i + 1] = g[i] \o seqs[i + 1] /\ g[i] \in Seq(A) /\ seqs[i + 1] \in Seq(A)
        <4>1. g[i + 1] = g[i] \o seqs[i + 1]
          BY <1>9
        <4> QED
          BY <1>2, <1>10, <3>1, <4>1
      <3>5. flatten[i + 1] = g[i + 1]
        <4>1. CASE i = 0
          <5>1. g[i + 1] = <<>> \o seqs[i + 1]
            BY <1>7, <3>4, <4>1
          <5>2. g[i + 1] = seqs[i + 1]
            BY <3>4, <5>1
          <5> QED
            BY <3>3, <4>1, <5>2
        <4>2. CASE i # 0
          <5>1. flatten[i] = g[i] /\ i + 1 # 1
            BY <3>2, <4>2
          <5> QED
            BY <3>3, <3>4, <5>1
        <4> QED
          BY <4>1, <4>2
      <3> QED
        BY <3>1, <3>5 DEF S
    <2>13. \A i \in 0 .. n : i \in S
      <3> HIDE DEF S
      <3> QED
        BY <2>11, <2>12, InductionUpTo
    <2>14. n # 0 => flatten[n] = g[n]
      BY <2>13
    <2> QED
      BY <2>3, <2>14
  <1>15. FlattenSeq(seqs) = g[n]
    BY <1>4, <1>7, <1>13
  <1>16. Gathers(g, seqs)
    BY <1>1, <1>7, <1>8, <1>15 DEF Gathers
  <1> QED
    BY <1>1, <1>16

\* A sequence and another have the members of both.
LEMMA ToSetOfConcat ==
    ASSUME NEW A, NEW s \in Seq(A), NEW t \in Seq(A)
    PROVE  ToSet(s \o t) = ToSet(s) \cup ToSet(t)
  <1>1. ToSet(s) = {s[i] : i \in 1 .. Len(s)} /\ ToSet(t) = {t[i] : i \in 1 .. Len(t)}
    BY DEF ToSet
  <1>2. PICK both \in Seq(A) : both = s \o t
    BY ConcatProperties
  <1>3. /\ Len(both) = Len(s) + Len(t)
        /\ \A i \in 1 .. Len(both) : both[i] = IF i <= Len(s) THEN s[i] ELSE t[i - Len(s)]
    BY <1>2
  <1>4. ToSet(both) = {both[i] : i \in 1 .. Len(both)}
    BY DEF ToSet
  <1>5. ASSUME NEW i \in 1 .. Len(both) PROVE both[i] \in ToSet(s) \cup ToSet(t)
    <2>1. CASE i <= Len(s)
      BY <1>1, <1>3, <2>1
    <2>2. CASE i > Len(s)
      <3>1. i - Len(s) \in 1 .. Len(t) /\ both[i] = t[i - Len(s)]
        BY <1>3, <2>2
      <3> QED
        BY <1>1, <3>1
    <2> QED
      BY <2>1, <2>2
  <1>6. ASSUME NEW i \in 1 .. Len(s) PROVE s[i] \in ToSet(both)
    <2>1. i \in 1 .. Len(both) /\ both[i] = s[i]
      BY <1>3
    <2> QED
      BY <1>4, <2>1
  <1>7. ASSUME NEW i \in 1 .. Len(t) PROVE t[i] \in ToSet(both)
    <2>1. PICK k \in 1 .. Len(both) : k = Len(s) + i
      BY <1>3
    <2>2. k - Len(s) = i /\ ~(k <= Len(s))
      BY <2>1
    <2>3. both[k] = t[i]
      BY <1>3, <2>2
    <2> QED
      BY <1>4, <2>3
  <1>8. ToSet(both) \subseteq ToSet(s) \cup ToSet(t)
    BY <1>4, <1>5
  <1>9. ToSet(s) \subseteq ToSet(both) /\ ToSet(t) \subseteq ToSet(both)
    BY <1>1, <1>6, <1>7
  <1> QED
    BY <1>2, <1>8, <1>9

\* What FlattenSeq() makes is of the sequences' members, and has all of them.
LEMMA FlattenSeqOf ==
    ASSUME NEW A, NEW seqs \in Seq(Seq(A))
    PROVE  /\ FlattenSeq(seqs) \in Seq(A)
           /\ ToSet(FlattenSeq(seqs)) = UNION {ToSet(seqs[i]) : i \in 1 .. Len(seqs)}
  <1>1. PICK n \in Nat : n = Len(seqs)
    OBVIOUS
  <1>2. PICK f \in [0 .. n -> Seq(A)] : Gathers(f, seqs)
    BY <1>1, Gathered
  <1>3. /\ f[0] = <<>> /\ \A i \in 1 .. n : f[i] = f[i - 1] \o seqs[i]
        /\ FlattenSeq(seqs) = f[n]
    BY <1>1, <1>2 DEF Gathers
  <1>4. \A i \in 1 .. n : seqs[i] \in Seq(A)
    BY <1>1
  <1> DEFINE S == {i \in 0 .. n : ToSet(f[i]) = UNION {ToSet(seqs[j]) : j \in 1 .. i}}
  <1>5. 0 \in S
    BY <1>3 DEF ToSet
  <1>6. ASSUME NEW i \in 0 .. n - 1, i \in S PROVE i + 1 \in S
    <2>1. PICK next \in 1 .. n : next = i + 1
      OBVIOUS
    <2>2. f[next] = f[next - 1] \o seqs[next]
      BY <1>3
    <2>3. next - 1 = i /\ i \in 0 .. n
      BY <2>1
    <2>4. f[next] = f[i] \o seqs[next] /\ f[i] \in Seq(A) /\ seqs[next] \in Seq(A)
      BY <1>4, <2>2, <2>3
    <2>5. ToSet(f[next]) = ToSet(f[i]) \cup ToSet(seqs[next])
      BY <2>4, ToSetOfConcat
    <2>6. ToSet(f[i]) = UNION {ToSet(seqs[j]) : j \in 1 .. i}
      BY <1>6
    <2>7. 1 .. next = (1 .. i) \cup {next}
      BY <2>1
    <2> HIDE DEF S
    <2>8. ToSet(f[next]) = UNION {ToSet(seqs[j]) : j \in 1 .. next}
      BY <2>5, <2>6, <2>7
    <2> QED
      BY <2>1, <2>8 DEF S
  <1>7. \A i \in 0 .. n : i \in S
    <2> HIDE DEF S
    <2> QED
      BY <1>5, <1>6, InductionUpTo
  <1> QED
    BY <1>1, <1>3, <1>7

----------------------------------------------------------------------------
(* Sums over finite sets, of the library's SumFunctionOnSet().             *)

\* Induction over a finite set: the empty set, and one member more.
LEMMA InductionOverSet ==
    ASSUME NEW S, IsFiniteSet(S), NEW P, {} \in P,
           \A T \in SUBSET S : \A x \in S \ T : T \in P => T \cup {x} \in P
    PROVE  S \in P
  <1> DEFINE N == {n \in 0 .. Cardinality(S) : \A T \in SUBSET S : Cardinality(T) = n => T \in P}
  <1>1. Cardinality(S) \in Nat /\ \A T \in SUBSET S : IsFiniteSet(T) /\ Cardinality(T) \in Nat
    BY FS_CardinalityType, FS_Subset
  <1>2. 0 \in N
    BY <1>1, FS_EmptySet
  <1>3. ASSUME NEW n \in 0 .. Cardinality(S) - 1, n \in N PROVE n + 1 \in N
    <2>1. n + 1 \in 0 .. Cardinality(S)
      BY <1>1
    <2>2. \A T \in SUBSET S : Cardinality(T) = n => T \in P
      BY <1>3
    <2> HIDE DEF N
    <2>3. ASSUME NEW T \in SUBSET S, Cardinality(T) = n + 1 PROVE T \in P
      <3>1. T # {} /\ IsFiniteSet(T)
        BY <1>1, <2>3, FS_EmptySet
      <3>2. PICK x \in T : TRUE
        BY <3>1
      <3>3. Cardinality(T \ {x}) = n
        <4>1. Cardinality(T \ {x}) = Cardinality(T) - 1
          BY <3>1, <3>2, FS_RemoveElement
        <4> QED
          BY <2>3, <4>1
      <3>4. T \ {x} \in P /\ (T \ {x}) \cup {x} = T /\ x \in S \ (T \ {x})
        BY <2>2, <3>2, <3>3
      <3> QED
        BY <3>4
    <2> QED
      BY <2>1, <2>3 DEF N
  <1>4. \A n \in 0 .. Cardinality(S) : n \in N
    <2> HIDE DEF N
    <2> QED
      BY <1>1, <1>2, <1>3, InductionUpTo
  <1> QED
    BY <1>1, <1>4

\* The sums over the subsets of a set: a member more adds what it has.
Adds(g, f, S) ==
    /\ g \in [SUBSET S -> Int] /\ g[{}] = 0
    /\ \A T \in SUBSET S : \A x \in T : g[T] = f[x] + g[T \ {x}]

AnyOf(T) == CHOOSE x \in T : TRUE

\* By the first member alone,
AddsFirst(g, f, P) ==
    /\ g \in [P -> Int] /\ g[{}] = 0
    /\ \A T \in P : T # {} => g[T] = f[AnyOf(T)] + g[T \ {AnyOf(T)}]

\* which there is a function for,
LEMMA FirstAdded ==
    ASSUME NEW S, IsFiniteSet(S), NEW f, \A x \in S : f[x] \in Int
    PROVE  \E g : AddsFirst(g, f, SUBSET S)
  <1> DEFINE Small(n) == {T \in SUBSET S : Cardinality(T) <= n}
             N == {n \in 0 .. Cardinality(S) : \E g : AddsFirst(g, f, Small(n))}
  <1>1. Cardinality(S) \in Nat /\ \A T \in SUBSET S : IsFiniteSet(T) /\ Cardinality(T) \in 0 .. Cardinality(S)
    BY FS_CardinalityType, FS_Subset
  <1>2. \A T \in SUBSET S : T # {} => /\ AnyOf(T) \in T /\ f[AnyOf(T)] \in Int
                                      /\ T \ {AnyOf(T)} \in SUBSET S
                                      /\ Cardinality(T \ {AnyOf(T)}) = Cardinality(T) - 1
    BY <1>1, FS_RemoveElement DEF AnyOf
  <1>3. \A T \in SUBSET S : Cardinality(T) = 0 <=> T = {}
    BY <1>1, FS_EmptySet
  <1>4. 0 \in N
    <2>1. Small(0) = {{}}
      BY <1>1, <1>3
    <2> DEFINE g == [T \in {{}} |-> 0]
    <2>2. AddsFirst(g, f, {{}})
      BY DEF AddsFirst
    <2>3. \E h : AddsFirst(h, f, Small(0))
      BY <2>1, <2>2
    <2> HIDE DEF Small
    <2> QED
      BY <1>1, <2>3
  <1>5. ASSUME NEW n \in 0 .. Cardinality(S) - 1, n \in N PROVE n + 1 \in N
    <2>1. PICK g : AddsFirst(g, f, Small(n))
      BY <1>5
    <2> DEFINE h == [T \in Small(n + 1) |-> IF T = {} THEN 0 ELSE f[AnyOf(T)] + g[T \ {AnyOf(T)}]]
    <2>2. ASSUME NEW T \in Small(n + 1), T # {} PROVE T \ {AnyOf(T)} \in Small(n)
      BY <1>1, <1>2, <2>2
    <2>3. {} \in Small(n) /\ Small(n) \subseteq Small(n + 1) /\ Small(n + 1) \subseteq SUBSET S
      BY <1>1, <1>3
    <2> DEFINE more == Small(n + 1)  less == Small(n)
    <2>4. /\ \A T \in more : T # {} => T \ {AnyOf(T)} \in less
          /\ {} \in less /\ less \subseteq more /\ more \subseteq SUBSET S
      BY <2>2, <2>3
    <2>5. h = [T \in more |-> IF T = {} THEN 0 ELSE f[AnyOf(T)] + g[T \ {AnyOf(T)}]]
      OBVIOUS
    <2> HIDE DEF Small, more, less, h
    <2>6. g \in [less -> Int] /\ g[{}] = 0 /\ \A T \in less : T # {} => g[T] = f[AnyOf(T)] + g[T \ {AnyOf(T)}]
      BY <2>1 DEF AddsFirst, less
    <2>7. \A T \in more : h[T] = IF T = {} THEN 0 ELSE f[AnyOf(T)] + g[T \ {AnyOf(T)}]
      BY <2>5
    <2>8. \A T \in more : T # {} => g[T \ {AnyOf(T)}] \in Int
      BY <2>4, <2>6
    <2>9. h \in [more -> Int]
      <3>1. \A T \in more : (IF T = {} THEN 0 ELSE f[AnyOf(T)] + g[T \ {AnyOf(T)}]) \in Int
        BY <1>2, <2>4, <2>8
      <3> QED
        BY <2>5, <3>1
    <2>10. \A T \in less : h[T] = g[T]
      BY <2>4, <2>6, <2>7
    <2>11. \A T \in more : T # {} => h[T] = f[AnyOf(T)] + h[T \ {AnyOf(T)}]
      BY <2>4, <2>7, <2>10
    <2>12. AddsFirst(h, f, more)
      BY <2>4, <2>7, <2>9, <2>11 DEF AddsFirst
    <2>13. AddsFirst(h, f, Small(n + 1))
      BY <2>12 DEF more
    <2> QED
      BY <1>1, <2>13
  <1>6. \A n \in 0 .. Cardinality(S) : n \in N
    <2> HIDE DEF N
    <2> QED
      BY <1>1, <1>4, <1>5, InductionUpTo
  <1>7. Small(Cardinality(S)) = SUBSET S
    BY <1>1
  <1>8. \E g : AddsFirst(g, f, Small(Cardinality(S)))
    BY <1>1, <1>6
  <1> HIDE DEF Small
  <1> QED
    BY <1>7, <1>8

\* and of which any other member could have been the first.
LEMMA FirstIsAny ==
    ASSUME NEW S, IsFiniteSet(S), NEW f, \A x \in S : f[x] \in Int,
           NEW g, AddsFirst(g, f, SUBSET S)
    PROVE  Adds(g, f, S)
  <1> DEFINE N == {n \in 0 .. Cardinality(S) :
                      \A T \in SUBSET S : Cardinality(T) = n => \A x \in T : g[T] = f[x] + g[T \ {x}]}
  <1>1. Cardinality(S) \in Nat /\ \A T \in SUBSET S : IsFiniteSet(T) /\ Cardinality(T) \in 0 .. Cardinality(S)
    BY FS_CardinalityType, FS_Subset
  <1>2. /\ g \in [SUBSET S -> Int] /\ g[{}] = 0
        /\ \A T \in SUBSET S : T # {} => g[T] = f[AnyOf(T)] + g[T \ {AnyOf(T)}]
    BY DEF AddsFirst
  <1>3. \A T \in SUBSET S : T # {} => AnyOf(T) \in T
    BY DEF AnyOf
  <1>4. \A T \in SUBSET S : \A x \in T : Cardinality(T \ {x}) = Cardinality(T) - 1
    BY <1>1, FS_RemoveElement
  <1>5. 0 \in N
    BY <1>1, FS_EmptySet
  <1>6. ASSUME NEW n \in 0 .. Cardinality(S) - 1, n \in N PROVE n + 1 \in N
    <2>1. n + 1 \in 0 .. Cardinality(S)
      BY <1>1
    <2>2. \A T \in SUBSET S : Cardinality(T) = n => \A x \in T : g[T] = f[x] + g[T \ {x}]
      BY <1>6
    <2> HIDE DEF N
    <2>3. ASSUME NEW T \in SUBSET S, Cardinality(T) = n + 1, NEW x \in T PROVE g[T] = f[x] + g[T \ {x}]
      <3>1. PICK c \in T : c = AnyOf(T)
        BY <1>3
      <3>2. g[T] = f[c] + g[T \ {c}]
        BY <1>2, <3>1
      <3>3. CASE c = x
        BY <3>2, <3>3
      <3>4. CASE c # x
        <4>1. Cardinality(T \ {c}) = n /\ Cardinality(T \ {x}) = n
          BY <1>1, <1>4, <2>3
        <4>2. PICK both \in SUBSET S : both = (T \ {c}) \ {x}
          OBVIOUS
        <4>3. both = (T \ {x}) \ {c}
          BY <4>2
        <4>4. g[T \ {c}] = f[x] + g[both]
          <5>1. T \ {c} \in SUBSET S /\ x \in T \ {c}
            BY <3>4
          <5> QED
            BY <2>2, <4>1, <4>2, <5>1
        <4>5. g[T \ {x}] = f[c] + g[both]
          <5>1. T \ {x} \in SUBSET S /\ c \in T \ {x}
            BY <3>4
          <5> QED
            BY <2>2, <4>1, <4>3, <5>1
        <4>6. f[x] \in Int /\ f[c] \in Int /\ g[both] \in Int
          BY <1>2
        <4> QED
          BY <3>2, <4>4, <4>5, <4>6
      <3> QED
        BY <3>3, <3>4
    <2> QED
      BY <2>1, <2>3 DEF N
  <1>7. \A n \in 0 .. Cardinality(S) : n \in N
    <2> HIDE DEF N
    <2> QED
      BY <1>1, <1>5, <1>6, InductionUpTo
  <1>8. \A T \in SUBSET S : \A x \in T : g[T] = f[x] + g[T \ {x}]
    BY <1>1, <1>7
  <1> QED
    BY <1>2, <1>8 DEF Adds

\* Such sums are what the library's operator computes.
LEMMA Summed ==
    ASSUME NEW S, IsFiniteSet(S), NEW f, \A x \in S : f[x] \in Int
    PROVE  \E g : Adds(g, f, S) /\ SumFunctionOnSet(f, S) = g[S]
  <1>1. PICK g : AddsFirst(g, f, SUBSET S)
    BY FirstAdded
  <1>2. Adds(g, f, S)
    BY <1>1, FirstIsAny
  <1>4. Cardinality(S) \in Nat /\ \A T \in SUBSET S : IsFiniteSet(T) /\ Cardinality(T) \in 0 .. Cardinality(S)
    BY FS_CardinalityType, FS_Subset
  <1>5. \A T \in SUBSET S : Cardinality(T) = 0 <=> T = {}
    BY <1>4, FS_EmptySet
  <1>3. SumFunctionOnSet(f, S) = g[S]
    <2> DEFINE iter[T \in SUBSET S] == IF T = {} THEN 0 ELSE f[AnyOf(T)] + iter[T \ {AnyOf(T)}]
    <2>1. SumFunctionOnSet(f, S) = iter[S]
      BY DEF SumFunctionOnSet, FoldFunctionOnSet, MapThenFoldSet, AnyOf
    <2>2. \A T \in SUBSET S : g[T] = IF T = {} THEN 0 ELSE f[AnyOf(T)] + g[T \ {AnyOf(T)}]
      BY <1>1 DEF AddsFirst
    <2>3. g \in [SUBSET S -> Int]
      BY <1>1 DEF AddsFirst
    <2>4. g = [T \in SUBSET S |-> IF T = {} THEN 0 ELSE f[AnyOf(T)] + g[T \ {AnyOf(T)}]]
      <3> HIDE DEF iter
      <3> QED
        BY <2>2, <2>3
    <2>5. iter = [T \in SUBSET S |-> IF T = {} THEN 0 ELSE f[AnyOf(T)] + iter[T \ {AnyOf(T)}]]
      BY <2>4 DEF iter
    <2> HIDE DEF iter
    <2>6. \A T \in SUBSET S : iter[T] = IF T = {} THEN 0 ELSE f[AnyOf(T)] + iter[T \ {AnyOf(T)}]
      BY <2>5
    <2> DEFINE N == {n \in 0 .. Cardinality(S) : \A T \in SUBSET S : Cardinality(T) = n => iter[T] = g[T]}
    <2>7. 0 \in N
      BY <1>4, <1>5, <2>2, <2>6
    <2>8. ASSUME NEW n \in 0 .. Cardinality(S) - 1, n \in N PROVE n + 1 \in N
      <3>1. n + 1 \in 0 .. Cardinality(S)
        BY <1>4
      <3>2. \A T \in SUBSET S : Cardinality(T) = n => iter[T] = g[T]
        BY <2>8
      <3> HIDE DEF N
      <3>3. ASSUME NEW T \in SUBSET S, Cardinality(T) = n + 1 PROVE iter[T] = g[T]
        <4>1. T # {} /\ IsFiniteSet(T)
          BY <1>4, <3>3, FS_EmptySet
        <4>2. AnyOf(T) \in T
          BY <4>1 DEF AnyOf
        <4>3. Cardinality(T \ {AnyOf(T)}) = Cardinality(T) - 1
          BY <4>1, <4>2, FS_RemoveElement
        <4>4. iter[T \ {AnyOf(T)}] = g[T \ {AnyOf(T)}]
          BY <3>2, <3>3, <4>3
        <4> QED
          BY <2>2, <2>6, <4>4
      <3> QED
        BY <3>1, <3>3 DEF N
    <2>9. \A n \in 0 .. Cardinality(S) : n \in N
      <3> HIDE DEF N
      <3> QED
        BY <1>4, <2>7, <2>8, InductionUpTo
    <2> QED
      BY <1>4, <2>1, <2>9
  <1> QED
    BY <1>2, <1>3

\* The sums over a set and those over a part of it are the same.
LEMMA AddsAlike ==
    ASSUME NEW S, NEW T, T \subseteq S, IsFiniteSet(T), NEW f, NEW g, NEW h, Adds(g, f, S), Adds(h, f, T)
    PROVE  g[T] = h[T]
  <1> DEFINE P == {U \in SUBSET T : g[U] = h[U]}
  <1>1. {} \in P
    BY DEF Adds
  <1>2. ASSUME NEW U \in SUBSET T, NEW x \in T \ U, U \in P PROVE U \cup {x} \in P
    <2>1. PICK more \in SUBSET T : more = U \cup {x}
      OBVIOUS
    <2>2. x \in more /\ more \ {x} = U /\ more \in SUBSET S
      BY <2>1
    <2>3. g[more] = f[x] + g[more \ {x}]
      BY <2>2 DEF Adds
    <2>4. h[more] = f[x] + h[more \ {x}]
      BY <2>2 DEF Adds
    <2>5. g[more] = h[more]
      BY <1>2, <2>2, <2>3, <2>4
    <2> QED
      BY <2>1, <2>5
  <1>3. T \in P
    <2> HIDE DEF P
    <2> QED
      BY <1>1, <1>2, InductionOverSet
  <1> QED
    BY <1>3

\* The sum over no members is 0.
LEMMA SumOfNone ==
    ASSUME NEW f
    PROVE  SumFunctionOnSet(f, {}) = 0
  <1>1. IsFiniteSet({})
    BY FS_EmptySet
  <1>2. \E g : Adds(g, f, {}) /\ SumFunctionOnSet(f, {}) = g[{}]
    BY <1>1, Summed
  <1> QED
    BY <1>2 DEF Adds

\* A sum is a number, and one member's and the sum over the others.
LEMMA SumOf ==
    ASSUME NEW S, IsFiniteSet(S), NEW f, \A x \in S : f[x] \in Int
    PROVE  /\ SumFunctionOnSet(f, S) \in Int
           /\ \A x \in S : SumFunctionOnSet(f, S) = f[x] + SumFunctionOnSet(f, S \ {x})
  <1>1. PICK g : Adds(g, f, S) /\ SumFunctionOnSet(f, S) = g[S]
    BY Summed
  <1>2. ASSUME NEW x \in S PROVE SumFunctionOnSet(f, S) = f[x] + SumFunctionOnSet(f, S \ {x})
    <2>1. IsFiniteSet(S \ {x}) /\ \A y \in S \ {x} : f[y] \in Int
      BY FS_RemoveElement
    <2>2. PICK h : Adds(h, f, S \ {x}) /\ SumFunctionOnSet(f, S \ {x}) = h[S \ {x}]
      BY <2>1, Summed
    <2>3. g[S \ {x}] = h[S \ {x}]
      BY <1>1, <2>1, <2>2, AddsAlike
    <2>4. g[S] = f[x] + g[S \ {x}]
      BY <1>1 DEF Adds
    <2> QED
      BY <1>1, <2>2, <2>3, <2>4
  <1>3. g[S] \in Int
    BY <1>1 DEF Adds
  <1> QED
    BY <1>1, <1>2, <1>3

\* A member more.
LEMMA SumWith ==
    ASSUME NEW S, IsFiniteSet(S), NEW x, x \notin S, NEW f, \A y \in S \cup {x} : f[y] \in Int
    PROVE  SumFunctionOnSet(f, S \cup {x}) = f[x] + SumFunctionOnSet(f, S)
  <1>1. PICK more : more = S \cup {x}
    OBVIOUS
  <1>2. IsFiniteSet(more) /\ x \in more /\ more \ {x} = S /\ \A y \in more : f[y] \in Int
    BY <1>1, FS_AddElement
  <1>3. SumFunctionOnSet(f, more) = f[x] + SumFunctionOnSet(f, more \ {x})
    BY <1>2, SumOf
  <1> QED
    BY <1>1, <1>2, <1>3

\* Equal values have equal sums.
LEMMA SumOfEqual ==
    ASSUME NEW S, IsFiniteSet(S), NEW f, NEW h, \A x \in S : f[x] \in Int /\ h[x] = f[x]
    PROVE  SumFunctionOnSet(f, S) = SumFunctionOnSet(h, S)
  <1> DEFINE P == {T \in SUBSET S : SumFunctionOnSet(f, T) = SumFunctionOnSet(h, T)}
  <1>1. {} \in P
    BY SumOfNone
  <1>2. ASSUME NEW T \in SUBSET S, NEW x \in S \ T, T \in P PROVE T \cup {x} \in P
    <2>1. IsFiniteSet(T) /\ \A y \in T \cup {x} : f[y] \in Int /\ h[y] \in Int
      BY FS_Subset
    <2>2. SumFunctionOnSet(f, T \cup {x}) = f[x] + SumFunctionOnSet(f, T)
      BY <2>1, SumWith
    <2>3. SumFunctionOnSet(h, T \cup {x}) = h[x] + SumFunctionOnSet(h, T)
      BY <2>1, SumWith
    <2> QED
      BY <1>2, <2>2, <2>3
  <1>3. S \in P
    <2> HIDE DEF P
    <2> QED
      BY <1>1, <1>2, InductionOverSet
  <1> QED
    BY <1>3

\* The sum over two sets with no common member.
LEMMA SumOfBoth ==
    ASSUME NEW S, IsFiniteSet(S), NEW T, IsFiniteSet(T), S \cap T = {},
           NEW f, \A x \in S \cup T : f[x] \in Int
    PROVE  SumFunctionOnSet(f, S \cup T) = SumFunctionOnSet(f, S) + SumFunctionOnSet(f, T)
  <1> DEFINE P == {U \in SUBSET T : SumFunctionOnSet(f, S \cup U)
                                        = SumFunctionOnSet(f, S) + SumFunctionOnSet(f, U)}
  <1>0. SumFunctionOnSet(f, S) \in Int
    BY SumOf
  <1>1. {} \in P
    BY <1>0, SumOfNone
  <1>2. ASSUME NEW U \in SUBSET T, NEW x \in T \ U, U \in P PROVE U \cup {x} \in P
    <2>1. IsFiniteSet(U) /\ \A y \in U \cup {x} : f[y] \in Int
      BY FS_Subset
    <2>2. PICK both : both = S \cup U
      OBVIOUS
    <2>3. /\ IsFiniteSet(both) /\ x \notin both /\ \A y \in both \cup {x} : f[y] \in Int
          /\ S \cup (U \cup {x}) = both \cup {x}
      BY <2>1, <2>2, FS_Union
    <2>4. SumFunctionOnSet(f, both \cup {x}) = f[x] + SumFunctionOnSet(f, both)
      BY <2>3, SumWith
    <2>5. SumFunctionOnSet(f, U \cup {x}) = f[x] + SumFunctionOnSet(f, U)
      BY <2>1, SumWith
    <2>6. SumFunctionOnSet(f, U) \in Int /\ f[x] \in Int
      BY <2>1, SumOf
    <2>7. SumFunctionOnSet(f, both) = SumFunctionOnSet(f, S) + SumFunctionOnSet(f, U)
      BY <1>2, <2>2
    <2>8. SumFunctionOnSet(f, S \cup (U \cup {x})) = SumFunctionOnSet(f, S) + SumFunctionOnSet(f, U \cup {x})
      <3>1. PICK sumS \in Int, sumU \in Int : sumS = SumFunctionOnSet(f, S) /\ sumU = SumFunctionOnSet(f, U)
        BY <1>0, <2>6
      <3>2. SumFunctionOnSet(f, both \cup {x}) = f[x] + (sumS + sumU)
        BY <2>4, <2>7, <3>1
      <3>3. SumFunctionOnSet(f, U \cup {x}) = f[x] + sumU
        BY <2>5, <3>1
      <3>4. SumFunctionOnSet(f, both \cup {x}) = sumS + SumFunctionOnSet(f, U \cup {x})
        BY <2>6, <3>2, <3>3
      <3> QED
        BY <2>3, <3>1, <3>4
    <2> QED
      BY <2>8
  <1>3. T \in P
    <2> HIDE DEF P
    <2> QED
      BY <1>1, <1>2, InductionOverSet
  <1> QED
    BY <1>3

\* Differences between neighbours add up to the one between the ends.
LEMMA SumOfDifferences ==
    ASSUME NEW n \in Nat, NEW c, \A i \in 0 .. n : c[i] \in Int,
           NEW f, \A i \in 0 .. n - 1 : f[i] = c[i + 1] - c[i]
    PROVE  SumFunctionOnSet(f, 0 .. n - 1) = c[n] - c[0]
  <1> DEFINE N == {m \in 0 .. n : SumFunctionOnSet(f, 0 .. m - 1) = c[m] - c[0]}
  <1>1. 0 \in N
    <2>1. 0 .. 0 - 1 = {}
      OBVIOUS
    <2> QED
      BY <2>1, SumOfNone
  <1>2. ASSUME NEW m \in 0 .. n - 1, m \in N PROVE m + 1 \in N
    <2>1. PICK next \in 0 .. n : next = m + 1
      OBVIOUS
    <2>2. /\ 0 .. next - 1 = (0 .. m - 1) \cup {m} /\ m \notin 0 .. m - 1
          /\ \A i \in (0 .. m - 1) \cup {m} : i \in 0 .. n - 1 /\ i \in 0 .. n /\ i + 1 \in 0 .. n
      BY <2>1
    <2>3. IsFiniteSet(0 .. m - 1)
      BY FS_Interval
    <2>4. \A i \in (0 .. m - 1) \cup {m} : f[i] \in Int
      BY <2>2
    <2>5. SumFunctionOnSet(f, (0 .. m - 1) \cup {m}) = f[m] + SumFunctionOnSet(f, 0 .. m - 1)
      BY <2>2, <2>3, <2>4, SumWith
    <2>6. SumFunctionOnSet(f, 0 .. m - 1) = c[m] - c[0]
      BY <1>2
    <2>7. f[m] = c[next] - c[m] /\ c[next] \in Int /\ c[m] \in Int /\ c[0] \in Int
      BY <2>1, <2>2
    <2>8. SumFunctionOnSet(f, 0 .. next - 1) = c[next] - c[0]
      <3>1. SumFunctionOnSet(f, (0 .. m - 1) \cup {m}) = (c[next] - c[m]) + (c[m] - c[0])
        BY <2>5, <2>6, <2>7
      <3>2. SumFunctionOnSet(f, (0 .. m - 1) \cup {m}) = c[next] - c[0]
        BY <2>7, <3>1
      <3> QED
        BY <2>2, <3>2
    <2> QED
      BY <2>1, <2>8
  <1>3. \A m \in 0 .. n : m \in N
    <2> HIDE DEF N
    <2> QED
      BY <1>1, <1>2, InductionUpTo
  <1> QED
    BY <1>3

\* Members that have nothing don't count.
LEMMA SumOfZeros ==
    ASSUME NEW S, IsFiniteSet(S), NEW f, \A x \in S : f[x] = 0
    PROVE  SumFunctionOnSet(f, S) = 0
  <1> DEFINE P == {T \in SUBSET S : SumFunctionOnSet(f, T) = 0}
  <1>1. {} \in P
    BY SumOfNone
  <1>2. ASSUME NEW T \in SUBSET S, NEW x \in S \ T, T \in P PROVE T \cup {x} \in P
    <2>1. IsFiniteSet(T) /\ \A y \in T \cup {x} : f[y] \in Int
      BY FS_Subset
    <2>2. SumFunctionOnSet(f, T \cup {x}) = f[x] + SumFunctionOnSet(f, T)
      BY <2>1, SumWith
    <2> QED
      BY <1>2, <2>2
  <1>3. S \in P
    <2> HIDE DEF P
    <2> QED
      BY <1>1, <1>2, InductionOverSet
  <1> QED
    BY <1>3

\* Larger values have a larger sum.
LEMMA SumOrdered ==
    ASSUME NEW S, IsFiniteSet(S), NEW f, NEW h, \A x \in S : f[x] \in Int /\ h[x] \in Int /\ f[x] <= h[x]
    PROVE  SumFunctionOnSet(f, S) <= SumFunctionOnSet(h, S)
  <1> DEFINE P == {T \in SUBSET S : SumFunctionOnSet(f, T) <= SumFunctionOnSet(h, T)}
  <1>1. {} \in P
    BY SumOfNone
  <1>2. ASSUME NEW T \in SUBSET S, NEW x \in S \ T, T \in P PROVE T \cup {x} \in P
    <2>1. IsFiniteSet(T) /\ \A y \in T \cup {x} : f[y] \in Int /\ h[y] \in Int
      BY FS_Subset
    <2>2. SumFunctionOnSet(f, T \cup {x}) = f[x] + SumFunctionOnSet(f, T)
      BY <2>1, SumWith
    <2>3. SumFunctionOnSet(h, T \cup {x}) = h[x] + SumFunctionOnSet(h, T)
      BY <2>1, SumWith
    <2>4. SumFunctionOnSet(f, T) \in Int /\ SumFunctionOnSet(h, T) \in Int
      BY <2>1, SumOf
    <2>5. SumFunctionOnSet(f, T) <= SumFunctionOnSet(h, T) /\ f[x] <= h[x] /\ f[x] \in Int /\ h[x] \in Int
      BY <1>2
    <2>6. SumFunctionOnSet(f, T \cup {x}) <= SumFunctionOnSet(h, T \cup {x})
      BY <2>2, <2>3, <2>4, <2>5
    <2> QED
      BY <2>6
  <1>3. S \in P
    <2> HIDE DEF P
    <2> QED
      BY <1>1, <1>2, InductionOverSet
  <1> QED
    BY <1>3

\* Sums times a number.
LEMMA Distributes == \A a, b, c \in Int : a * (b + c) = a * b + a * c /\ (b + c) * a = b * a + c * a /\ a * b \in Int
  BY Z3

\* Values that are multiples of others.
LEMMA SumOfMultiples ==
    ASSUME NEW S, IsFiniteSet(S), NEW a \in Int, NEW f, \A x \in S : f[x] \in Int,
           NEW h, \A x \in S : h[x] = a * f[x]
    PROVE  SumFunctionOnSet(h, S) = a * SumFunctionOnSet(f, S)
  <1> DEFINE P == {T \in SUBSET S : SumFunctionOnSet(h, T) = a * SumFunctionOnSet(f, T)}
  <1>0. \A x \in S : h[x] \in Int
    BY Distributes
  <1>1. {} \in P
    <2>1. a * 0 = 0
      OBVIOUS
    <2> QED
      BY <2>1, SumOfNone
  <1>2. ASSUME NEW T \in SUBSET S, NEW x \in S \ T, T \in P PROVE T \cup {x} \in P
    <2>1. IsFiniteSet(T) /\ \A y \in T \cup {x} : f[y] \in Int /\ h[y] \in Int
      BY <1>0, FS_Subset
    <2>2. SumFunctionOnSet(f, T \cup {x}) = f[x] + SumFunctionOnSet(f, T)
      BY <2>1, SumWith
    <2>3. SumFunctionOnSet(h, T \cup {x}) = h[x] + SumFunctionOnSet(h, T)
      BY <2>1, SumWith
    <2>4. PICK sum \in Int, value \in Int : sum = SumFunctionOnSet(f, T) /\ value = f[x]
      BY <2>1, SumOf
    <2>5. SumFunctionOnSet(h, T) = a * sum /\ h[x] = a * value
      BY <1>2, <2>4
    <2>6. a * (value + sum) = a * value + a * sum
      BY Distributes
    <2>7. SumFunctionOnSet(h, T \cup {x}) = a * SumFunctionOnSet(f, T \cup {x})
      BY <2>2, <2>3, <2>4, <2>5, <2>6
    <2> QED
      BY <2>7
  <1>3. S \in P
    <2> HIDE DEF P
    <2> QED
      BY <1>1, <1>2, InductionOverSet
  <1> QED
    BY <1>3

\* Values that are products, over the pairs of two sets,
Products(products, f, h, S, T) ==
    /\ (\A x \in S : f[x] \in Int) /\ (\A y \in T : h[y] \in Int)
    /\ \A x \in S, y \in T : products[<<x, y>>] = f[x] * h[y]

\* have the product of the sums.
LEMMA SumOfProducts ==
    ASSUME NEW S, IsFiniteSet(S), NEW T, IsFiniteSet(T),
           NEW f, NEW h, NEW products, Products(products, f, h, S, T)
    PROVE  SumFunctionOnSet(products, S \X T) = SumFunctionOnSet(f, S) * SumFunctionOnSet(h, T)
  <1> DEFINE sumT == SumFunctionOnSet(h, T)
  <1>0. /\ (\A x \in S : f[x] \in Int) /\ (\A y \in T : h[y] \in Int)
        /\ \A x \in S, y \in T : products[<<x, y>>] = f[x] * h[y]
    BY DEF Products
  <1>1. sumT \in Int
    BY <1>0, SumOf
  <1>2. ASSUME NEW x \in S, NEW y \in T
        PROVE  products[<<x, y>>] = f[x] * h[y] /\ products[<<x, y>>] \in Int
    <2>1. f[x] \in Int /\ h[y] \in Int /\ products[<<x, y>>] = f[x] * h[y]
      BY <1>0
    <2> QED
      BY <2>1, Distributes
  <1>3. ASSUME NEW x \in S
        PROVE  IsFiniteSet({x} \X T) /\ SumFunctionOnSet(products, {x} \X T) = f[x] * sumT
    <2> DEFINE Q == {U \in SUBSET T : SumFunctionOnSet(products, {x} \X U) = f[x] * SumFunctionOnSet(h, U)}
    <2>1. {} \in Q
      <3>1. {x} \X {} = {} /\ f[x] * 0 = 0
        BY <1>0
      <3> QED
        BY <3>1, SumOfNone
    <2>2. ASSUME NEW U \in SUBSET T, NEW y \in T \ U, U \in Q PROVE U \cup {y} \in Q
      <3>1. IsFiniteSet(U) /\ \A z \in U \cup {y} : h[z] \in Int
        BY <1>0, FS_Subset
      <3>2. PICK pairs : pairs = {x} \X U
        OBVIOUS
      <3>3. {x} \X (U \cup {y}) = pairs \cup {<<x, y>>} /\ <<x, y>> \notin pairs
        BY <3>2
      <3>4. IsFiniteSet(pairs)
        BY <3>1, <3>2, FS_Product, FS_Singleton
      <3>5. \A p \in pairs \cup {<<x, y>>} : products[p] \in Int
        BY <1>2, <3>2
      <3>6. SumFunctionOnSet(products, pairs \cup {<<x, y>>})
                = products[<<x, y>>] + SumFunctionOnSet(products, pairs)
        BY <3>3, <3>4, <3>5, SumWith
      <3>7. SumFunctionOnSet(h, U \cup {y}) = h[y] + SumFunctionOnSet(h, U)
        BY <3>1, SumWith
      <3>8. PICK a \in Int, b \in Int, c \in Int : a = f[x] /\ b = h[y] /\ c = SumFunctionOnSet(h, U)
        BY <1>0, <3>1, SumOf
      <3>9. products[<<x, y>>] = a * b /\ SumFunctionOnSet(products, pairs) = a * c
        BY <1>2, <2>2, <3>2, <3>8
      <3>10. a * (b + c) = a * b + a * c
        BY Distributes
      <3>11. SumFunctionOnSet(products, {x} \X (U \cup {y})) = f[x] * SumFunctionOnSet(h, U \cup {y})
        BY <3>3, <3>6, <3>7, <3>8, <3>9, <3>10
      <3> QED
        BY <3>11
    <2>3. T \in Q
      <3> HIDE DEF Q
      <3> QED
        BY <2>1, <2>2, InductionOverSet
    <2>4. IsFiniteSet({x} \X T)
      BY FS_Product, FS_Singleton
    <2> QED
      BY <2>3, <2>4
  <1> DEFINE P == {U \in SUBSET S : SumFunctionOnSet(products, U \X T) = SumFunctionOnSet(f, U) * sumT}
  <1>4. {} \in P
    <2>1. {} \X T = {} /\ 0 * sumT = 0
      BY <1>1
    <2> QED
      BY <2>1, SumOfNone
  <1>5. ASSUME NEW U \in SUBSET S, NEW x \in S \ U, U \in P PROVE U \cup {x} \in P
    <2>1. IsFiniteSet(U) /\ \A z \in U \cup {x} : f[z] \in Int
      BY <1>0, FS_Subset
    <2>2. PICK old, new : old = U \X T /\ new = {x} \X T
      OBVIOUS
    <2>3. (U \cup {x}) \X T = old \cup new /\ old \cap new = {}
      BY <2>2
    <2>4. IsFiniteSet(old) /\ IsFiniteSet(new)
      BY <1>3, <2>1, <2>2, FS_Product
    <2>5. \A p \in old \cup new : products[p] \in Int
      BY <1>2, <2>2
    <2>6. SumFunctionOnSet(products, old \cup new)
              = SumFunctionOnSet(products, old) + SumFunctionOnSet(products, new)
      BY <2>3, <2>4, <2>5, SumOfBoth
    <2>7. SumFunctionOnSet(f, U \cup {x}) = f[x] + SumFunctionOnSet(f, U)
      BY <2>1, SumWith
    <2>8. PICK a \in Int, b \in Int, c \in Int : a = sumT /\ b = f[x] /\ c = SumFunctionOnSet(f, U)
      BY <1>0, <1>1, <2>1, SumOf
    <2>9. SumFunctionOnSet(products, old) = c * a /\ SumFunctionOnSet(products, new) = b * a
      BY <1>3, <1>5, <2>2, <2>8
    <2>10. (b + c) * a = b * a + c * a /\ b * a \in Int /\ c * a \in Int
      BY Distributes
    <2>11. SumFunctionOnSet(products, (U \cup {x}) \X T) = SumFunctionOnSet(f, U \cup {x}) * sumT
      <3>1. SumFunctionOnSet(products, old \cup new) = (b + c) * a
        BY <2>6, <2>9, <2>10
      <3>2. SumFunctionOnSet(f, U \cup {x}) = b + c
        BY <2>7, <2>8
      <3>3. SumFunctionOnSet(products, (U \cup {x}) \X T) = (b + c) * a
        BY <2>3, <3>1
      <3> HIDE DEF sumT
      <3> QED
        BY <2>8, <3>2, <3>3
    <2> QED
      BY <2>11
  <1>6. S \in P
    <2> HIDE DEF P
    <2> QED
      BY <1>4, <1>5, InductionOverSet
  <1> QED
    BY <1>6
=============================================================================
