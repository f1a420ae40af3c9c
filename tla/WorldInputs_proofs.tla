-------------------------- MODULE WorldInputs_proofs --------------------------
(***************************************************************************)
(* Proofs about WorldInputs, for any finite sets of workspaces and         *)
(* sessions and any number of file ids: that ids are handed out once, that *)
(* no crate depends on another session's copy, that every file is in the   *)
(* source root the database gives for it, and that a search stays in what  *)
(* its session has in view.                                                *)
(***************************************************************************)
EXTENDS WorldInputs, FiniteSetTheorems, FunctionTheorems, SequenceTheorems,
        WellFoundedInduction, TLAPS

-----------------------------------------------------------------------------
(* Sequences. *)

(* Induction: a set of numbers that is not empty has a least one.          *)
LEMMA LeastNumber ==
    ASSUME NEW S, S \subseteq Nat, S # {}
    PROVE  \E n \in S : \A m \in S : n <= m
  <1> DEFINE R == OpToRel(<, Nat)
  <1>1. IsWellFoundedOn(R, Nat)
    BY NatLessThanWellFounded
  <1>2. \A m, n \in S : <<m, n>> \in R <=> m < n
    BY DEF OpToRel
  <1> HIDE DEF R
  <1>3. PICK n \in S : \A m \in S : <<m, n>> \notin R
    BY <1>1, WFMin
  <1>4. \A m \in S : ~(m < n)
    BY <1>2, <1>3
  <1>5. \A m \in S : n <= m
    <2> SUFFICES ASSUME NEW m \in S PROVE n <= m
      OBVIOUS
    <2>1. n \in Nat /\ m \in Nat /\ ~(m < n)
      BY <1>4
    <2> QED
      BY <2>1
  <1> QED
    BY <1>5

(* What FlattenSeq computes, step by step.                                 *)
Flattens(s, f) ==
    f = [i \in 1..Len(s) |-> IF i = 1 THEN s[i] ELSE f[i - 1] \o s[i]]

(* An entry of that function, from the one before it.                      *)
LEMMA FlattensAt ==
    ASSUME NEW s, NEW f, Flattens(s, f), NEW i \in 1..Len(s)
    PROVE  f[i] = IF i = 1 THEN s[i] ELSE f[i - 1] \o s[i]
  BY Zenon DEF Flattens

(* There is such a function for every sequence of sequences: else there    *)
(* would be a shortest sequence without one, and the function of the       *)
(* sequence less its last element can be extended.                         *)
LEMMA FlattenExists ==
    ASSUME NEW S, NEW s \in Seq(Seq(S))
    PROVE  \E f : Flattens(s, f) /\ \A i \in 1..Len(s) : f[i] \in Seq(S)
  <1> DEFINE Good(t) == \E f : Flattens(t, f) /\ \A i \in 1..Len(t) : f[i] \in Seq(S)
             Bad == {Len(t) : t \in {u \in Seq(Seq(S)) : ~Good(u)}}
  <1>1. ASSUME Bad # {} PROVE FALSE
    <2>1. PICK n \in Bad : \A m \in Bad : n <= m
      <3>1. Bad \subseteq Nat
        OBVIOUS
      <3> QED
        BY <1>1, <3>1, LeastNumber
    <2>2. PICK t \in Seq(Seq(S)) : n = Len(t) /\ ~Good(t)
      OBVIOUS
    <2>3. t # <<>>
      <3> SUFFICES ASSUME t = <<>> PROVE Good(t)
        BY <2>2
      <3>1. Flattens(t, [i \in 1..0 |-> <<>>])
        BY DEF Flattens
      <3> QED
        BY <3>1
    <2>4. PICK u \in Seq(Seq(S)), e \in Seq(S) : t = Append(u, e)
      BY <2>3, SequenceEmptyOrAppend
    <2>5. Len(t) = Len(u) + 1 /\ Len(u) \in Nat /\ \A i \in 1..Len(u) : t[i] = u[i]
      BY <2>4
    <2>6. t[Len(t)] = e
      BY <2>4
    <2>7. Good(u)
      <3>1. ASSUME Len(u) \in Bad PROVE FALSE
        <4>1. n <= Len(u)
          BY <2>1, <3>1
        <4> QED
          BY <4>1, <2>2, <2>5
      <3> QED
        BY <3>1
    <2>8. PICK g : Flattens(u, g) /\ \A i \in 1..Len(u) : g[i] \in Seq(S)
      BY <2>7
    <2> DEFINE f == [i \in 1..Len(t) |-> IF i < Len(t) THEN g[i]
                                        ELSE IF i = 1 THEN t[i] ELSE g[i - 1] \o t[i]]
    <2>9. \A i \in 1..Len(t) : f[i] \in Seq(S)
      <3> SUFFICES ASSUME NEW i \in 1..Len(t) PROVE f[i] \in Seq(S)
        OBVIOUS
      <3>1. CASE i < Len(t)
        BY <2>5, <2>8
      <3>2. CASE i = Len(t)
        <4>1. i # 1 => i - 1 \in 1..Len(u)
          BY <2>5
        <4>2. i # 1 => g[i - 1] \o t[i] \in Seq(S)
          BY <4>1, <2>8, ConcatProperties
        <4> QED
          BY <3>2, <4>2
      <3> QED
        BY <3>1, <3>2
    <2>10. Flattens(t, f)
      <3>1. ASSUME NEW i \in 1..Len(t)
            PROVE  f[i] = IF i = 1 THEN t[i] ELSE f[i - 1] \o t[i]
        <4>1. CASE i < Len(t)
          <5>1. i \in 1..Len(u) /\ f[i] = g[i]
            BY <4>1, <2>5
          <5>2. g[i] = IF i = 1 THEN u[i] ELSE g[i - 1] \o u[i]
            BY <5>1, <2>8 DEF Flattens
          <5>3. i # 1 => f[i - 1] = g[i - 1]
            BY <5>1, <2>5
          <5> QED
            BY <5>1, <5>2, <5>3, <2>5
        <4>2. CASE i = Len(t)
          <5>1. i # 1 => f[i - 1] = g[i - 1]
            OBVIOUS
          <5> QED
            BY <5>1, <4>2
        <4> QED
          BY <4>1
      <3> HIDE DEF f
      <3>2. DOMAIN f = 1..Len(t) /\ f = [i \in DOMAIN f |-> f[i]]
        BY DEF f
      <3> QED
        BY <3>1, <3>2 DEF Flattens
    <2> HIDE DEF f
    <2> QED
      BY <2>2, <2>9, <2>10
  <1> QED
    BY <1>1

(* There is one only: two would differ at some least index.                *)
LEMMA FlattenUnique ==
    ASSUME NEW s, NEW f, NEW g, Len(s) \in Nat, Flattens(s, f), Flattens(s, g)
    PROVE  f = g
  <1> DEFINE Bad == {i \in 1..Len(s) : f[i] # g[i]}
  <1>1. ASSUME Bad # {} PROVE FALSE
    <2>1. PICK n \in Bad : \A m \in Bad : n <= m
      <3>1. Bad \subseteq Nat
        OBVIOUS
      <3> QED
        BY <1>1, <3>1, LeastNumber
    <2>2. f[n] = IF n = 1 THEN s[n] ELSE f[n - 1] \o s[n]
      BY DEF Flattens
    <2>3. g[n] = IF n = 1 THEN s[n] ELSE g[n - 1] \o s[n]
      BY DEF Flattens
    <2>4. n # 1 => f[n - 1] = g[n - 1]
      BY <2>1
    <2> QED
      BY <2>2, <2>3, <2>4
  <1>2. \A i \in 1..Len(s) : f[i] = g[i]
    BY <1>1
  <1> QED
    BY <1>2 DEF Flattens

(* FlattenSeq is its last entry.                                           *)
LEMMA FlattenIs ==
    ASSUME NEW S, NEW s \in Seq(Seq(S)), s # <<>>, NEW f, Flattens(s, f)
    PROVE  FlattenSeq(s) = f[Len(s)]
  <1> DEFINE h == CHOOSE g : Flattens(s, g)
  <1>1. FlattenSeq(s) = h[Len(s)]
    <2>1. Len(s) # 0
      OBVIOUS
    <2> QED
      BY DEF FlattenSeq, Flattens
  <1>2. Flattens(s, h)
    OBVIOUS
  <1>3. Len(s) \in Nat
    OBVIOUS
  <1> HIDE DEF h
  <1>4. h = f
    BY <1>2, FlattenUnique
  <1> QED
    BY <1>1, <1>4

(* Nothing flattens to nothing.                                            *)
LEMMA FlattenEmpty == FlattenSeq(<<>>) = <<>>
  BY DEF FlattenSeq

(* Flattening sequences over S gives a sequence over S.                    *)
LEMMA FlattenType ==
    ASSUME NEW S, NEW s \in Seq(Seq(S))
    PROVE  FlattenSeq(s) \in Seq(S)
  <1>1. PICK f : Flattens(s, f) /\ \A i \in 1..Len(s) : f[i] \in Seq(S)
    BY FlattenExists
  <1>2. CASE s = <<>>
    <2>1. FlattenSeq(s) = <<>>
      BY <1>2, FlattenEmpty
    <2> QED
      BY <2>1
  <1>3. CASE s # <<>>
    BY <1>3, <1>1, FlattenIs
  <1> QED
    BY <1>2, <1>3

(* What a sequence is.                                                     *)
LEMMA SeqIs ==
    \A S : \A s \in Seq(S) :
        /\ Len(s) \in Nat /\ DOMAIN s = 1..Len(s)
        /\ s = [i \in 1..Len(s) |-> s[i]]
        /\ \A i \in DOMAIN s : s[i] \in S
  <1> SUFFICES ASSUME NEW S, NEW s \in Seq(S)
               PROVE  /\ Len(s) \in Nat /\ DOMAIN s = 1..Len(s)
                      /\ s = [i \in 1..Len(s) |-> s[i]]
                      /\ \A i \in DOMAIN s : s[i] \in S
    OBVIOUS
  <1>1. s \in [1..Len(s) -> S] /\ Len(s) \in Nat
    BY LenProperties
  <1> QED
    BY <1>1

(* FlattenSeq of one sequence more: what it adds comes at the end.         *)
LEMMA FlattenAppend ==
    ASSUME NEW S, NEW s \in Seq(Seq(S)), NEW e \in Seq(S)
    PROVE  FlattenSeq(Append(s, e)) = FlattenSeq(s) \o e
  <1> DEFINE t == Append(s, e)
  <1>0. /\ t \in Seq(Seq(S)) /\ t # <<>> /\ Len(t) = Len(s) + 1 /\ Len(s) \in Nat
        /\ t[Len(t)] = e /\ \A i \in 1..Len(s) : t[i] = s[i]
    BY AppendProperties
  <1> SUFFICES FlattenSeq(t) = FlattenSeq(s) \o e
    OBVIOUS
  <1> HIDE DEF t
  <1>1. PICK f : Flattens(t, f) /\ \A i \in 1..Len(t) : f[i] \in Seq(S)
    BY <1>0, FlattenExists
  <1>2. FlattenSeq(t) = f[Len(t)]
    BY <1>0, <1>1, FlattenIs
  <1>3. f[Len(t)] = IF s = <<>> THEN e ELSE f[Len(s)] \o e
    <2>1. f[Len(t)] = IF Len(t) = 1 THEN t[Len(t)] ELSE f[Len(t) - 1] \o t[Len(t)]
      <3>1. Len(t) \in 1..Len(t)
        BY <1>0
      <3> QED
        BY <3>1, <1>1, FlattensAt
    <2>2. Len(t) = 1 <=> s = <<>>
      BY <1>0
    <2>3. Len(t) - 1 = Len(s)
      BY <1>0
    <2> QED
      BY <2>1, <1>0
  <1>4. CASE s = <<>>
    <2>1. FlattenSeq(s) \o e = e
      BY <1>4, FlattenEmpty
    <2> QED
      BY <1>2, <1>3, <1>4, <2>1
  <1>5. CASE s # <<>>
    <2> DEFINE g == [i \in 1..Len(s) |-> f[i]]
    <2>1. Flattens(s, g)
      <3>1. ASSUME NEW i \in 1..Len(s)
            PROVE  g[i] = IF i = 1 THEN s[i] ELSE g[i - 1] \o s[i]
        <4>1. f[i] = IF i = 1 THEN t[i] ELSE f[i - 1] \o t[i]
          <5>1. i \in 1..Len(t)
            BY <1>0
          <5> QED
            BY <5>1, <1>1, FlattensAt
        <4>2. t[i] = s[i]
          BY <1>0
        <4> QED
          BY <4>1, <4>2
      <3> HIDE DEF g
      <3>2. DOMAIN g = 1..Len(s) /\ g = [i \in DOMAIN g |-> g[i]]
        BY DEF g
      <3> QED
        BY <3>1, <3>2 DEF Flattens
    <2>2. FlattenSeq(s) = f[Len(s)]
      <3>1. FlattenSeq(s) = g[Len(s)]
        <4> HIDE DEF g
        <4> QED
          BY <2>1, <1>5, FlattenIs
      <3> QED
        BY <3>1, <1>5
    <2> QED
      <3>1. FlattenSeq(t) = f[Len(s)] \o e
        BY <1>2, <1>3, <1>5
      <3> QED
        BY <2>2, <3>1
  <1> QED
    BY <1>4, <1>5

(* The elements of the sequences before the i-th come before its own.      *)
Prefix(s, k) == SubSeq(s, 1, k)
Before(s, i) == Len(FlattenSeq(Prefix(s, i - 1)))

Parts(s) ==
    /\ \A i \in DOMAIN s : \A m \in DOMAIN s[i] :
         /\ Before(s, i) + m \in DOMAIN FlattenSeq(s)
         /\ FlattenSeq(s)[Before(s, i) + m] = s[i][m]
    /\ \A j \in DOMAIN FlattenSeq(s) :
         \E i \in DOMAIN s : \E m \in DOMAIN s[i] : j = Before(s, i) + m

LEMMA PartsStep ==
    ASSUME NEW S, NEW u \in Seq(Seq(S)), NEW e \in Seq(S), Parts(u)
    PROVE  Parts(Append(u, e))
  <1> DEFINE t == Append(u, e)
  <1>1. /\ t \in Seq(Seq(S)) /\ Len(u) \in Nat /\ DOMAIN u = 1..Len(u)
        /\ DOMAIN t = 1..Len(u) + 1
        /\ \A i \in 1..Len(u) : t[i] = u[i]
        /\ t[Len(u) + 1] = e
    BY AppendProperties, SeqIs
  <1>2. FlattenSeq(t) = FlattenSeq(u) \o e
    BY FlattenAppend
  <1>3. \A k \in 0..Len(u) : Prefix(t, k) = Prefix(u, k)
    <2> TAKE k \in 0..Len(u)
    <2>1. \A j \in 1..k : t[j] = u[j]
      BY <1>1
    <2> HIDE DEF t
    <2> QED
      BY <2>1, <1>1 DEF Prefix
  <1> HIDE DEF t
  <1>4. FlattenSeq(u) \in Seq(S)
    BY FlattenType
  <1>5. /\ Len(FlattenSeq(u)) \in Nat /\ Len(e) \in Nat
        /\ DOMAIN FlattenSeq(u) = 1..Len(FlattenSeq(u)) /\ DOMAIN e = 1..Len(e)
    BY <1>4, SeqIs
  <1>6. /\ DOMAIN FlattenSeq(t) = 1..Len(FlattenSeq(u)) + Len(e)
        /\ \A i \in 1..Len(FlattenSeq(u)) : FlattenSeq(t)[i] = FlattenSeq(u)[i]
        /\ \A i \in 1..Len(e) : FlattenSeq(t)[Len(FlattenSeq(u)) + i] = e[i]
    <2> DEFINE v == FlattenSeq(u)
    <2>1. /\ v \o e \in Seq(S)
          /\ Len(v \o e) = Len(v) + Len(e)
          /\ \A i \in 1..Len(v) + Len(e) :
               (v \o e)[i] = IF i <= Len(v) THEN v[i] ELSE e[i - Len(v)]
      <3> HIDE DEF v
      <3> QED
        BY <1>4, ConcatProperties DEF v
    <2>2. DOMAIN (v \o e) = 1..Len(v) + Len(e)
      <3> HIDE DEF v
      <3> QED
        BY <2>1, SeqIs
    <2>3. \A i \in 1..Len(v) : (v \o e)[i] = v[i]
      <3> HIDE DEF v
      <3> QED
        BY <2>1, <1>5 DEF v
    <2>4. \A i \in 1..Len(e) : (v \o e)[Len(v) + i] = e[i]
      <3> HIDE DEF v
      <3> TAKE i \in 1..Len(e)
      <3>1. Len(v) + i \in 1..Len(v) + Len(e) /\ ~(Len(v) + i <= Len(v)) /\ Len(v) + i - Len(v) = i
        BY <1>5 DEF v
      <3> QED
        BY <2>1, <3>1
    <2>5. PICK w : w = v \o e
      OBVIOUS
    <2>6. /\ DOMAIN w = 1..Len(v) + Len(e)
          /\ \A i \in 1..Len(v) : w[i] = v[i]
          /\ \A i \in 1..Len(e) : w[Len(v) + i] = e[i]
      BY <2>2, <2>3, <2>4, <2>5, Zenon
    <2>7. FlattenSeq(t) = w
      BY <1>2, <2>5, Zenon
    <2> QED
      BY <2>6, <2>7, Zenon
  <1>7. \A i \in 1..Len(u) + 1 : Before(t, i) = Before(u, i)
    <2> TAKE i \in 1..Len(u) + 1
    <2>1. i - 1 \in 0..Len(u)
      BY <1>1
    <2> QED
      BY <1>3, <2>1 DEF Before
  <1>8. Before(t, Len(u) + 1) = Len(FlattenSeq(u))
    <2>1. Prefix(t, Len(u)) = u
      BY <1>1, <1>3, SubSeqFull DEF Prefix
    <2>2. Len(u) + 1 - 1 = Len(u)
      BY <1>1
    <2> QED
      BY <2>1, <2>2 DEF Before
  <1>9. ASSUME NEW i \in DOMAIN t, NEW m \in DOMAIN t[i]
        PROVE  /\ Before(t, i) + m \in DOMAIN FlattenSeq(t)
               /\ FlattenSeq(t)[Before(t, i) + m] = t[i][m]
    <2>1. CASE i \in 1..Len(u)
      <3>1. i \in DOMAIN u /\ m \in DOMAIN u[i] /\ t[i] = u[i] /\ Before(t, i) = Before(u, i)
        BY <2>1, <1>1, <1>7
      <3>2. /\ Before(u, i) + m \in 1..Len(FlattenSeq(u))
            /\ FlattenSeq(u)[Before(u, i) + m] = u[i][m]
        BY <3>1, <1>5 DEF Parts
      <3> QED
        BY <3>1, <3>2, <1>5, <1>6
    <2>2. CASE i = Len(u) + 1
      <3>1. t[i] = e /\ Before(t, i) = Len(FlattenSeq(u))
        BY <2>2, <1>1, <1>8
      <3>2. m \in 1..Len(e)
        BY <3>1, <1>5
      <3>3. FlattenSeq(t)[Len(FlattenSeq(u)) + m] = e[m]
        BY <3>2, <1>6
      <3>4. Len(FlattenSeq(u)) + m \in DOMAIN FlattenSeq(t)
        BY <3>2, <1>5, <1>6
      <3> QED
        BY <3>1, <3>3, <3>4
    <2> QED
      BY <2>1, <2>2, <1>1
  <1>10. ASSUME NEW j \in DOMAIN FlattenSeq(t)
         PROVE  \E i \in DOMAIN t : \E m \in DOMAIN t[i] : j = Before(t, i) + m
    <2>1. CASE j \in 1..Len(FlattenSeq(u))
      <3>1. PICK i \in DOMAIN u : \E m \in DOMAIN u[i] : j = Before(u, i) + m
        BY <2>1, <1>5 DEF Parts
      <3>2. i \in DOMAIN t /\ t[i] = u[i] /\ Before(t, i) = Before(u, i)
        BY <3>1, <1>1, <1>7
      <3> QED
        BY <3>1, <3>2
    <2>2. CASE j > Len(FlattenSeq(u))
      <3>1. j - Len(FlattenSeq(u)) \in 1..Len(e)
        BY <2>2, <1>5, <1>6
      <3>2. j = Before(t, Len(u) + 1) + (j - Len(FlattenSeq(u)))
        BY <2>2, <1>5, <1>6, <1>8
      <3>3. Len(u) + 1 \in DOMAIN t /\ t[Len(u) + 1] = e
        BY <1>1
      <3>4. j - Len(FlattenSeq(u)) \in DOMAIN t[Len(u) + 1]
        BY <3>1, <3>3, <1>5
      <3> QED
        BY <3>2, <3>3, <3>4
    <2> QED
      BY <2>1, <2>2, <1>5, <1>6
  <1> QED
    BY <1>9, <1>10 DEF Parts, t

(* Where the elements of a flattened sequence come from, by induction on   *)
(* the length.                                                             *)
LEMMA FlattenParts ==
    ASSUME NEW S, NEW s \in Seq(Seq(S))
    PROVE  Parts(s)
  <1> DEFINE Bad == {Len(t) : t \in {u \in Seq(Seq(S)) : ~Parts(u)}}
  <1>1. ASSUME Bad # {} PROVE FALSE
    <2>1. PICK n \in Bad : \A m \in Bad : n <= m
      <3>1. Bad \subseteq Nat
        BY LenProperties
      <3> QED
        BY <1>1, <3>1, LeastNumber
    <2>2. PICK t \in Seq(Seq(S)) : n = Len(t) /\ ~Parts(t)
      OBVIOUS
    <2>3. t # <<>>
      BY <2>2, FlattenEmpty DEF Parts
    <2>4. PICK u \in Seq(Seq(S)), e \in Seq(S) : t = Append(u, e)
      BY <2>3, SequenceEmptyOrAppend
    <2>5. Len(t) = Len(u) + 1 /\ Len(u) \in Nat
      BY <2>4
    <2>6. ASSUME ~Parts(u) PROVE FALSE
      <3>1. Len(u) \in Bad
        BY <2>6
      <3>2. n <= Len(u)
        BY <2>1, <3>1
      <3> QED
        BY <2>2, <2>5, <3>2
    <2>7. Parts(u)
      BY <2>6
    <2> QED
      BY <2>2, <2>4, <2>7, PartsStep
  <1> QED
    BY <1>1

(* A finite set of numbers in ascending order has each of them once: by    *)
(* the number of elements up to it, each has a place of its own.           *)
LEMMA AscendingIs ==
    ASSUME NEW S, IsFiniteSet(S), S \subseteq Int
    PROVE  /\ Cardinality(S) \in Nat
           /\ DOMAIN Ascending(S) = 1..Cardinality(S)
           /\ \A i \in 1..Cardinality(S) : Ascending(S)[i] \in S
           /\ \A i, j \in 1..Cardinality(S) : Ascending(S)[i] = Ascending(S)[j] => i = j
           /\ \A x \in S : \E i \in 1..Cardinality(S) : Ascending(S)[i] = x
  <1> DEFINE n == Cardinality(S)
             upTo(x) == {y \in S : y <= x}
             rank == [x \in S |-> Cardinality(upTo(x))]
  <1>1. n \in Nat
    BY FS_CardinalityType
  <1>2. ASSUME NEW x \in S PROVE rank[x] \in 1..n /\ IsFiniteSet(upTo(x))
    <2>1. upTo(x) \subseteq S /\ x \in upTo(x)
      OBVIOUS
    <2> HIDE DEF upTo
    <2>2. IsFiniteSet(upTo(x)) /\ Cardinality(upTo(x)) <= n
      BY <2>1, FS_Subset
    <2>3. Cardinality(upTo(x)) \in Nat /\ Cardinality(upTo(x)) # 0
      BY <2>1, <2>2, FS_CardinalityType, FS_EmptySet
    <2> QED
      BY <1>1, <2>2, <2>3
  <1>3. ASSUME NEW x \in S, NEW z \in S, rank[x] = rank[z], x < z PROVE FALSE
    <2>1. upTo(x) \in SUBSET upTo(z) /\ z \in upTo(z) /\ z \notin upTo(x)
      <3>1. \A y \in S : y <= x => y <= z
        BY <1>3
      <3>2. x \in Int /\ z \in Int
        OBVIOUS
      <3>3. z <= z /\ ~(z <= x)
        BY <3>2, <1>3
      <3> QED
        BY <3>1, <3>3
    <2>2. IsFiniteSet(upTo(z)) /\ Cardinality(upTo(x)) = Cardinality(upTo(z))
      BY <1>2, <1>3
    <2> HIDE DEF upTo
    <2> QED
      BY <2>1, <2>2, FS_Subset
  <1>4. \A x, z \in S : rank[x] = rank[z] => x = z
    <2> SUFFICES ASSUME NEW x \in S, NEW z \in S, rank[x] = rank[z] PROVE x = z
      OBVIOUS
    <2>1. ~(x < z) /\ ~(z < x)
      BY <1>3
    <2> QED
      BY <2>1
  <1>5. rank \in [S -> 1..n]
    BY <1>2
  <1>51. \A x \in S : rank[x] = Cardinality(upTo(x))
    OBVIOUS
  <1> HIDE DEF rank
  <1>6. \A i \in 1..n : \E x \in S : rank[x] = i
    <2>1. rank \in Injection(S, 1..n)
      BY <1>4, <1>5 DEF Injection, IsInjective
    <2>2. IsFiniteSet(1..n) /\ Cardinality(1..n) = n
      BY <1>1, FS_Interval
    <2>3. rank \in Surjection(S, 1..n)
      BY <2>1, <2>2, FS_Injection
    <2> QED
      BY <2>3 DEF Surjection
  <1> DEFINE a == [i \in 1..n |-> CHOOSE x \in S : Cardinality(upTo(x)) = i]
  <1>7. Ascending(S) = a
    BY Zenon DEF Ascending
  <1>8. \A i \in 1..n : a[i] \in S /\ rank[a[i]] = i
    <2> HIDE DEF upTo
    <2> QED
      BY <1>51, <1>6
  <1>9. DOMAIN a = 1..n
    OBVIOUS
  <1> HIDE DEF a
  <1>10. \A i, j \in 1..n : a[i] = a[j] => i = j
    BY <1>8
  <1>11. \A x \in S : \E i \in 1..n : a[i] = x
    <2> TAKE x \in S
    <2>1. rank[x] \in 1..n
      BY <1>5
    <2>2. a[rank[x]] \in S /\ rank[a[rank[x]]] = rank[x]
      BY <1>8, <2>1
    <2> QED
      BY <1>4, <2>1, <2>2
  <1> QED
    BY <1>1, <1>7, <1>8, <1>9, <1>10, <1>11

-----------------------------------------------------------------------------
(* The inductive invariant. *)

IsDb(d) ==
    /\ d = [roots |-> d.roots, length |-> d.length, stale |-> d.stale,
            rootOf |-> d.rootOf, graph |-> d.graph]
    /\ d.graph = [crates |-> d.graph.crates, deps |-> d.graph.deps]

IsCopy(x, n) ==
    /\ x = [path |-> x.path, file |-> x.file, root |-> x.root]
    /\ x.path \in Paths
    /\ x.file \in 0..n - 1

(* An overlay: copies that differ, and crates of theirs.                   *)
IsOverlay(o, n, bases) ==
    /\ o = [files |-> o.files, crates |-> o.crates]
    /\ \A x \in o.files : IsCopy(x, n)
    /\ \A x, y \in o.files : x.file = y.file => x = y
    /\ \A c \in o.crates : c = <<c[1], c[2]>> /\ c[1] \in bases /\ c[2] \in Files(o)

Overlays(ovs, n, bases) ==
    /\ DOMAIN ovs = Sessions
    /\ \A s \in Sessions : IsOverlay(ovs[s], n, bases)
    /\ \A s, q \in Sessions : Files(ovs[s]) \cap Files(ovs[q]) # {} => s = q
    /\ \A s \in Sessions : Files(ovs[s]) \cap bases = {}

Workspace(n) == [key : Keys, files : Seq(0..n - 1)]

(* The workspaces: each with a key of its own, and files that differ.      *)
Workspaces(ws, n) ==
    /\ ws \in Seq(Workspace(n))
    /\ \A i \in DOMAIN ws : Len(ws[i].files) \in Sizes
    /\ \A i, j \in DOMAIN ws : ws[i].key = ws[j].key => i = j
    /\ \A i, j \in DOMAIN ws : \A m \in DOMAIN ws[i].files, k \in DOMAIN ws[j].files :
         ws[i].files[m] = ws[j].files[k] => i = j /\ m = k

Typed ==
    /\ next \in 0..MaxFileId + 1
    /\ Workspaces(loaded, next)
    /\ view \in [Sessions -> SUBSET DOMAIN loaded]
    /\ Overlays(overlay, next, BaseFiles(loaded))
    /\ base = [crates |-> base.crates, max |-> base.max]
    /\ base.crates \subseteq BaseFiles(loaded)
    /\ IsDb(db)
    /\ late \in BOOLEAN

(* The dependencies go from a copy to what its session sees.               *)
DepsApart(d, ovs, l) ==
    /\ \A e \in d.graph.deps : e = <<e[1], e[2]>>
    /\ \A s \in Sessions :
        /\ \A e \in d.graph.deps : e[2] \in Files(ovs[s]) => e[1] \in Files(ovs[s])
        /\ ~l => \A x, y \in ovs[s].crates : <<x[2], y[1]>> \notin d.graph.deps

IInv == Typed /\ DepsApart(db, overlay, late)

-----------------------------------------------------------------------------
(* The operators. *)

(* The least of two numbers.                                               *)
LEMMA MinOfTwo ==
    ASSUME NEW a \in Nat, NEW b \in Nat
    PROVE  Min({a, b}) = IF a <= b THEN a ELSE b
  <1>1. PICK m : m = (IF a <= b THEN a ELSE b)
    OBVIOUS
  <1>2. m \in {a, b} /\ \A y \in {a, b} : m <= y
    BY <1>1
  <1>3. \A x \in {a, b} : (\A y \in {a, b} : x <= y) => x = m
    BY <1>2
  <1>4. (CHOOSE x \in {a, b} : \A y \in {a, b} : x <= y) = m
    BY <1>2, <1>3
  <1> QED
    BY <1>1, <1>4 DEF Min

(* Handing out n ids.                                                      *)
LEMMA AdvanceStep ==
    ASSUME NEW n \in Nat, next \in 0..MaxFileId + 1, Advance(n)
    PROVE  /\ next' \in 0..MaxFileId + 1
           /\ ~Exhausted(n) => next' = next + n
           /\ next <= next'
  <1>1. MaxFileId \in Nat
    BY IdsAssumption
  <1>2. next' = IF next + n <= MaxFileId + 1 THEN next + n ELSE MaxFileId + 1
    BY <1>1, MinOfTwo DEF Advance
  <1> QED
    BY <1>1, <1>2 DEF Exhausted

(* What is handed out is new, and differs.                                 *)
LEMMA AllocateNew ==
    ASSUME NEW n \in Nat, next \in Nat
    PROVE  /\ Allocate(n) \in Seq(0..next + n - 1)
           /\ Len(Allocate(n)) = n
           /\ \A i \in 1..n : Allocate(n)[i] = next + i - 1 /\ Allocate(n)[i] >= next
           /\ \A i, j \in 1..n : Allocate(n)[i] = Allocate(n)[j] => i = j
  BY DEF Allocate

(* A record of the database keeps its form and its graph.                  *)
LEMMA ApplyRootsDb ==
    ASSUME NEW d, NEW roots, IsDb(d)
    PROVE  IsDb(ApplyRoots(d, roots)) /\ ApplyRoots(d, roots).graph = d.graph
  <1>1. \A a, b, c, e : LET r == [roots |-> a, length |-> b, stale |-> c, rootOf |-> e,
                                  graph |-> d.graph]
                        IN  IsDb(r) /\ r.graph = d.graph
    BY DEF IsDb
  <1>2. \E a, b, c, e : ApplyRoots(d, roots) = [roots |-> a, length |-> b, stale |-> c,
                                                rootOf |-> e, graph |-> d.graph]
    BY Zenon DEF ApplyRoots
  <1> QED
    BY <1>1, <1>2

LEMMA GraphDb ==
    ASSUME NEW d, NEW c, NEW e, IsDb(d)
    PROVE  LET g == [crates |-> c, deps |-> e]
           IN  IsDb([d EXCEPT !.graph = g]) /\ [d EXCEPT !.graph = g].graph = g
  BY DEF IsDb

LEMMA ApplyBaseDb ==
    ASSUME NEW d, NEW ws, IsDb(d)
    PROVE  IsDb(ApplyBase(d, ws)) /\ ApplyBase(d, ws).graph = BaseGraph(ws)
  <1>1. IsDb(ApplyRoots(d, BaseRoots(ws)))
    BY ApplyRootsDb
  <1> QED
    BY <1>1, GraphDb DEF ApplyBase, BaseGraph

LEMMA RebuildDb ==
    ASSUME NEW d, NEW b, NEW ovs, IsDb(d)
    PROVE  IsDb(Rebuild(d, b, ovs)) /\ Rebuild(d, b, ovs).graph = OverlayGraph(d, b, ovs)
  <1>1. IsDb(ApplyRoots(d, OverlayRoots(d, b, ovs)))
    BY ApplyRootsDb
  <1> QED
    BY <1>1, GraphDb DEF Rebuild, OverlayGraph

(* The files of the workspaces.                                            *)
LEMMA BaseFilesAre ==
    ASSUME NEW n, NEW ws, Workspaces(ws, n)
    PROVE  /\ BaseFiles(ws) = {f \in 0..n - 1 : \E i \in DOMAIN ws :
                                   \E m \in DOMAIN ws[i].files : f = ws[i].files[m]}
  <1>1. \A i \in DOMAIN ws : ws[i] \in Workspace(n)
    BY DEF Workspaces
  <1>2. \A i \in DOMAIN ws : ws[i].files \in Seq(0..n - 1)
    BY <1>1 DEF Workspace
  <1>3. \A s \in Seq(0..n - 1) : ToSet(s) = {f \in 0..n - 1 : \E m \in DOMAIN s : f = s[m]}
    <2> SUFFICES ASSUME NEW s \in Seq(0..n - 1)
                 PROVE  ToSet(s) = {f \in 0..n - 1 : \E m \in DOMAIN s : f = s[m]}
      OBVIOUS
    <2>1. \A m \in DOMAIN s : s[m] \in 0..n - 1
      BY SeqIs
    <2> QED
      BY <2>1 DEF ToSet
  <1> QED
    BY <1>2, <1>3 DEF BaseFiles

(* The base file of a path is a file of the workspaces, and there is one   *)
(* at most.                                                                *)
LEMMA BaseFileOfIs ==
    ASSUME NEW n, NEW ws, Workspaces(ws, n), NEW v \in SUBSET DOMAIN ws, NEW p
    PROVE  /\ BaseFileOf(ws, v, p) \subseteq BaseFiles(ws)
           /\ \A b, c \in BaseFileOf(ws, v, p) : b = c
  <1>1. ASSUME NEW b \in BaseFileOf(ws, v, p)
        PROVE  \E i \in v : ws[i].key = p[1] /\ p[2] \in DOMAIN ws[i].files /\ b = ws[i].files[p[2]]
    BY DEF BaseFileOf
  <1>2. \A b \in BaseFileOf(ws, v, p) : b \in BaseFiles(ws)
    <2> TAKE b \in BaseFileOf(ws, v, p)
    <2>1. PICK i \in DOMAIN ws : p[2] \in DOMAIN ws[i].files /\ b = ws[i].files[p[2]]
      BY <1>1
    <2>2. ws[i] \in Workspace(n)
      BY DEF Workspaces
    <2>3. ws[i].files \in Seq(0..n - 1)
      BY <2>2 DEF Workspace
    <2>4. b \in 0..n - 1
      BY <2>1, <2>3, SeqIs
    <2> QED
      BY <2>1, <2>4, BaseFilesAre
  <1>3. \A b, c \in BaseFileOf(ws, v, p) : b = c
    BY <1>1 DEF Workspaces
  <1> QED
    BY <1>2, <1>3

(* The crates that are copied have their originals in the workspaces.      *)
LEMMA PopulateIs ==
    ASSUME NEW n, NEW ws, Workspaces(ws, n), NEW v \in SUBSET DOMAIN ws, NEW d, NEW files,
           NEW x \in Populate(d, ws, v, files)
    PROVE  /\ x = <<x[1], x[2]>>
           /\ x[1] \in BaseFiles(ws)
           /\ x[2] \in {y.file : y \in files}
  <1>1. PICK y \in files : \E c \in BaseFileOf(ws, v, y.path) : x = <<c, y.file>>
    BY DEF Populate
  <1>2. \A c \in BaseFileOf(ws, v, y.path) : c \in BaseFiles(ws)
    BY BaseFileOfIs
  <1> QED
    BY <1>1, <1>2

(* A set in a sequence has an index for each of its elements.              *)
LEMMA SetInSequence ==
    ASSUME NEW S, IsFiniteSet(S)
    PROVE  /\ SetToSeq(S) \in [1..Cardinality(S) -> S]
           /\ Len(SetToSeq(S)) = Cardinality(S) /\ Cardinality(S) \in Nat
           /\ \A i, j \in 1..Cardinality(S) : SetToSeq(S)[i] = SetToSeq(S)[j] => i = j
           /\ \A x \in S : \E i \in 1..Cardinality(S) : SetToSeq(S)[i] = x
  <1> DEFINE n == Cardinality(S)
  <1>1. n \in Nat /\ ExistsBijection(1..n, S)
    BY FS_CardinalityType
  <1>2. PICK f \in Bijection(1..n, S) : TRUE
    BY <1>1 DEF ExistsBijection
  <1>3. f \in [1..n -> S] /\ IsInjective(f)
    BY <1>2 DEF Bijection, Injection, IsInjective
  <1>4. SetToSeq(S) \in [1..n -> S] /\ IsInjective(SetToSeq(S))
    BY <1>3 DEF SetToSeq
  <1> DEFINE g == SetToSeq(S)
  <1> HIDE DEF g
  <1>5. \A i, j \in 1..n : g[i] = g[j] => i = j
    BY <1>4 DEF IsInjective, g
  <1>6. g \in Injection(1..n, S)
    BY <1>4, <1>5 DEF Injection, g
  <1>7. g \in Surjection(1..n, S)
    <2>1. IsFiniteSet(1..n) /\ Cardinality(1..n) = n
      BY <1>1, FS_Interval
    <2> QED
      BY <1>6, <2>1, FS_Injection
  <1>8. Len(g) = n
    BY <1>1, <1>4 DEF g
  <1> QED
    BY <1>1, <1>4, <1>5, <1>7, <1>8 DEF g, Surjection

-----------------------------------------------------------------------------
(* What the operations leave. *)

(* The graph of the overlays keeps the copies of the sessions apart.       *)
LEMMA OverlayGraphApart ==
    ASSUME NEW d, NEW b, NEW ovs, NEW n, NEW bases, IsDb(d),
           b.crates \subseteq bases, Overlays(ovs, n, bases),
           \A e \in d.graph.deps : e = <<e[1], e[2]>>
    PROVE  \A l : DepsApart(Rebuild(d, b, ovs), ovs, l)
  <1> DEFINE g == OverlayGraph(d, b, ovs)
  <1>1. Rebuild(d, b, ovs).graph = g
    BY RebuildDb
  <1>2. \A s \in Sessions : \A x \in ovs[s].crates :
           x = <<x[1], x[2]>> /\ x[1] \in bases /\ x[2] \in Files(ovs[s])
    BY DEF Overlays, IsOverlay
  <1>3. \A s, q \in Sessions : Files(ovs[s]) \cap Files(ovs[q]) # {} => s = q
    BY DEF Overlays
  <1>4. \A s \in Sessions : Files(ovs[s]) \cap bases = {}
    BY DEF Overlays
  <1>5. ASSUME NEW e \in g.deps
        PROVE  \/ e = <<e[1], e[2]>> /\ e[1] \in b.crates /\ e[2] \in b.crates
               \/ \E s \in Sessions : \E x \in ovs[s].crates : \E c :
                    /\ e = <<e[1], e[2]>> /\ e[1] = x[2]
                    /\ e[2] \in IF CopyIn(ovs, s, c) # {} THEN CopyIn(ovs, s, c)
                               ELSE {c} \cap b.crates
    <2>1. CASE e \in d.graph.deps \cap (b.crates \X b.crates)
      BY <2>1
    <2>2. CASE e \notin d.graph.deps \cap (b.crates \X b.crates)
      <3> DEFINE resolved(s, c) == IF CopyIn(ovs, s, c) # {} THEN CopyIn(ovs, s, c)
                                   ELSE {c} \cap b.crates
                 depsOf(c) == {f[2] : f \in {h \in d.graph.deps : h[1] = c}}
                 copied == UNION {{s} \X ovs[s].crates : s \in Sessions}
                 of(x) == {x[2][2]} \X UNION {resolved(x[1], c) : c \in depsOf(x[2][1])}
      <3>0. g.deps = (d.graph.deps \cap (b.crates \X b.crates)) \cup UNION {of(x) : x \in copied}
        BY DEF OverlayGraph
      <3>1. PICK x \in copied : e \in of(x)
        <4> HIDE DEF g, of, copied
        <4> QED
          BY <2>2, <3>0
      <3>2. x[1] \in Sessions /\ x[2] \in ovs[x[1]].crates
        OBVIOUS
      <3>3. \E c : e[2] \in resolved(x[1], c)
        BY <3>1
      <3>4. e = <<e[1], e[2]>> /\ e[1] = x[2][2]
        BY <3>1
      <3> QED
        BY <3>2, <3>3, <3>4
    <2> QED
      BY <2>1, <2>2
  <1>6. ASSUME NEW s \in Sessions, NEW c PROVE CopyIn(ovs, s, c) \subseteq Files(ovs[s])
    BY <1>2 DEF CopyIn
  <1>7. ASSUME NEW s \in Sessions, NEW e \in g.deps, e[2] \in Files(ovs[s])
        PROVE  e[1] \in Files(ovs[s])
    <2>1. e[2] \notin b.crates
      BY <1>4, <1>7
    <2>2. PICK q \in Sessions : \E x \in ovs[q].crates :
             e[1] = x[2] /\ \E c : e[2] \in CopyIn(ovs, q, c)
      BY <1>5, <2>1
    <2>3. e[2] \in Files(ovs[q])
      BY <1>6, <2>2
    <2>4. q = s
      BY <1>3, <1>7, <2>3
    <2> QED
      BY <1>2, <2>2, <2>4
  <1>8. ASSUME NEW s \in Sessions, NEW x \in ovs[s].crates, NEW y \in ovs[s].crates,
               <<x[2], y[1]>> \in g.deps
        PROVE  FALSE
    <2>1. x[2] \in Files(ovs[s]) /\ y[1] \in bases /\ x[2] \notin b.crates
      BY <1>2, <1>4
    <2>2. PICK q \in Sessions : \E z \in ovs[q].crates : \E c :
             /\ x[2] = z[2]
             /\ y[1] \in IF CopyIn(ovs, q, c) # {} THEN CopyIn(ovs, q, c) ELSE {c} \cap b.crates
      BY <1>5, <1>8, <2>1
    <2>3. x[2] \in Files(ovs[q])
      BY <1>2, <2>2
    <2>4. q = s
      BY <1>3, <2>1, <2>3
    <2>5. PICK c : y[1] \in IF CopyIn(ovs, s, c) # {} THEN CopyIn(ovs, s, c) ELSE {c} \cap b.crates
      BY <2>2, <2>4
    <2>6. y[1] \notin CopyIn(ovs, s, c)
      BY <1>4, <1>6, <2>1
    <2>7. CopyIn(ovs, s, c) = {} /\ y[1] = c
      BY <2>5, <2>6
    <2>8. y[2] \in CopyIn(ovs, s, c)
      BY <2>7 DEF CopyIn
    <2> QED
      BY <2>7, <2>8
  <1>9. \A e \in g.deps : e = <<e[1], e[2]>>
    BY <1>5
  <1> HIDE DEF g
  <1> QED
    BY <1>1, <1>7, <1>8, <1>9 DEF DepsApart

(* The graph of the workspaces has no copies.                              *)
LEMMA BaseGraphApart ==
    ASSUME NEW n, NEW ws, Workspaces(ws, n)
    PROVE  /\ BaseGraph(ws).crates = BaseFiles(ws)
           /\ \A e \in BaseGraph(ws).deps :
                e = <<e[1], e[2]>> /\ e[1] \in BaseFiles(ws) /\ e[2] \in BaseFiles(ws)
  <1>1. ASSUME NEW w \in ToSet(ws), Len(w.files) = 2
        PROVE  w.files[1] \in BaseFiles(ws) /\ w.files[2] \in BaseFiles(ws)
    <2>1. PICK i \in DOMAIN ws : w = ws[i]
      BY DEF ToSet
    <2>2. w \in Workspace(n)
      BY <2>1 DEF Workspaces
    <2>3. w.files \in Seq(0..n - 1)
      BY <2>2 DEF Workspace
    <2>4. 1 \in DOMAIN w.files /\ 2 \in DOMAIN w.files
      BY <1>1, <2>3, SeqIs
    <2>5. w.files[1] \in 0..n - 1 /\ w.files[2] \in 0..n - 1
      BY <2>3, <2>4, SeqIs
    <2> QED
      BY <2>1, <2>4, <2>5, BaseFilesAre
  <1>2. BaseGraph(ws).deps =
           {<<w.files[1], w.files[2]>> : w \in {v \in ToSet(ws) : Len(v.files) = 2}}
    BY DEF BaseGraph
  <1>3. BaseGraph(ws).crates = BaseFiles(ws)
    BY DEF BaseGraph
  <1>4. ASSUME NEW e \in BaseGraph(ws).deps
        PROVE  e = <<e[1], e[2]>> /\ e[1] \in BaseFiles(ws) /\ e[2] \in BaseFiles(ws)
    <2>1. PICK w \in ToSet(ws) : Len(w.files) = 2 /\ e = <<w.files[1], w.files[2]>>
      BY <1>2
    <2> QED
      BY <1>1, <2>1
  <1> QED
    BY <1>3, <1>4

(* What base_crates is given.                                              *)
LEMMA BaseInputsAre ==
    ASSUME NEW d, NEW ws, NEW ovs
    PROVE  LET b == BaseInputs(d, ws, ovs)
           IN  /\ b = [crates |-> b.crates, max |-> b.max]
               /\ b.crates \subseteq d.graph.crates
  BY DEF BaseInputs

(* Workspaces stay such when more ids are handed out.                      *)
LEMMA WorkspacesLater ==
    ASSUME NEW n \in Nat, NEW m \in Nat, n <= m, NEW ws, Workspaces(ws, n)
    PROVE  Workspaces(ws, m)
  <1>1. ws \in Seq(Workspace(m))
    <2>1. Len(ws) \in Nat /\ DOMAIN ws = 1..Len(ws) /\ ws = [i \in 1..Len(ws) |-> ws[i]]
      BY SeqIs DEF Workspaces
    <2>2. ASSUME NEW i \in DOMAIN ws PROVE ws[i] \in Workspace(m)
      <3>1. ws[i] \in Workspace(n)
        BY DEF Workspaces
      <3>2. Seq(0..n - 1) \subseteq Seq(0..m - 1)
        OBVIOUS
      <3> QED
        BY <3>1, <3>2 DEF Workspace
    <2> QED
      BY <2>1, <2>2
  <1> QED
    BY <1>1 DEF Workspaces

(* So do the overlays, when the workspaces have no more of their files.    *)
LEMMA OverlaysLater ==
    ASSUME NEW n \in Nat, NEW m \in Nat, n <= m, NEW ovs, NEW b, NEW c, Overlays(ovs, n, b),
           \A s \in Sessions : Files(ovs[s]) \cap c = {}, b \subseteq c
    PROVE  Overlays(ovs, m, c)
  <1>1. \A x : IsCopy(x, n) => IsCopy(x, m)
    BY DEF IsCopy
  <1>2. \A s \in Sessions : IsOverlay(ovs[s], m, c)
    BY <1>1 DEF Overlays, IsOverlay
  <1> QED
    BY <1>2 DEF Overlays

LEMMA OverlaysKept ==
    ASSUME NEW n \in Nat, NEW m \in Nat, n <= m, NEW ovs, NEW b, Overlays(ovs, n, b)
    PROVE  Overlays(ovs, m, b)
  <1>1. \A s \in Sessions : Files(ovs[s]) \cap b = {}
    BY DEF Overlays
  <1> QED
    BY <1>1, OverlaysLater

(* A workspace more, with new ids.                                         *)
LEMMA WorkspaceMore ==
    ASSUME next \in Nat, Workspaces(loaded, next), NEW k \in Keys, NEW n \in Sizes,
           IndexOf(k) = {}
    PROVE  LET ws == Append(loaded, [key |-> k, files |-> Allocate(n)])
           IN  /\ Workspaces(ws, next + n)
               /\ DOMAIN loaded \subseteq DOMAIN ws
               /\ BaseFiles(loaded) \subseteq BaseFiles(ws)
               /\ \A f \in BaseFiles(ws) : f \in BaseFiles(loaded) \/ f >= next
  <1> DEFINE w == [key |-> k, files |-> Allocate(n)]
             ws == Append(loaded, w)
             m == next + n
  <1>1. n \in Nat /\ m \in Nat /\ next <= m
    BY DEF Sizes
  <1>2. Workspaces(loaded, m)
    BY <1>1, WorkspacesLater
  <1>3. /\ Allocate(n) \in Seq(0..m - 1)
        /\ Len(Allocate(n)) = n
        /\ DOMAIN Allocate(n) = 1..n
        /\ \A i \in 1..n : Allocate(n)[i] >= next
        /\ \A i, j \in 1..n : Allocate(n)[i] = Allocate(n)[j] => i = j
    BY <1>1, AllocateNew, SeqIs
  <1>4. w \in Workspace(m)
    BY <1>3 DEF Workspace
  <1>5. loaded \in Seq(Workspace(m))
    BY <1>2 DEF Workspaces
  <1>6. /\ ws \in Seq(Workspace(m)) /\ Len(loaded) \in Nat
        /\ DOMAIN loaded = 1..Len(loaded) /\ DOMAIN ws = 1..Len(loaded) + 1
        /\ \A i \in DOMAIN loaded : ws[i] = loaded[i]
        /\ ws[Len(loaded) + 1] = w
    BY <1>4, <1>5, SeqIs, AppendProperties
  <1> HIDE DEF ws
  <1>8. w.key = k /\ w.files = Allocate(n)
    OBVIOUS
  <1> HIDE DEF w
  <1>7. \A i \in DOMAIN ws : (i \in DOMAIN loaded /\ ws[i] = loaded[i]) \/
                           (i = Len(loaded) + 1 /\ ws[i] = w)
    <2> TAKE i \in DOMAIN ws
    <2>1. i \in 1..Len(loaded) \/ i = Len(loaded) + 1
      BY <1>6
    <2> QED
      BY <1>6, <2>1
  <1>9. \A i \in DOMAIN loaded : /\ Len(loaded[i].files) \in Sizes
                               /\ loaded[i].key # k
                               /\ \A x \in DOMAIN loaded[i].files : loaded[i].files[x] \in 0..next - 1
    <2> TAKE i \in DOMAIN loaded
    <2>1. loaded[i] \in Workspace(next)
      BY DEF Workspaces
    <2>2. loaded[i].files \in Seq(0..next - 1)
      BY <2>1 DEF Workspace
    <2> QED
      BY <2>2, SeqIs DEF Workspaces, IndexOf
  <1>10. Workspaces(ws, m)
    <2>1. \A i \in DOMAIN ws : Len(ws[i].files) \in Sizes
      BY <1>3, <1>7, <1>8, <1>9
    <2>2. \A i, j \in DOMAIN ws : ws[i].key = ws[j].key => i = j
      BY <1>7, <1>8, <1>9 DEF Workspaces
    <2>3. \A i, j \in DOMAIN ws : \A x \in DOMAIN ws[i].files, y \in DOMAIN ws[j].files :
            ws[i].files[x] = ws[j].files[y] => i = j /\ x = y
      <3> SUFFICES ASSUME NEW i \in DOMAIN ws, NEW j \in DOMAIN ws,
                          NEW x \in DOMAIN ws[i].files, NEW y \in DOMAIN ws[j].files,
                          ws[i].files[x] = ws[j].files[y]
                   PROVE  i = j /\ x = y
        OBVIOUS
      <3>1. CASE i \in DOMAIN loaded /\ ws[i] = loaded[i] /\ j \in DOMAIN loaded /\ ws[j] = loaded[j]
        BY <3>1 DEF Workspaces
      <3>2. CASE ws[i] = w /\ ws[j] = w /\ i = j
        BY <3>2, <1>3, <1>8
      <3>3. CASE ws[i] = w /\ j \in DOMAIN loaded /\ ws[j] = loaded[j]
        BY <3>3, <1>3, <1>8, <1>9
      <3>4. CASE ws[j] = w /\ i \in DOMAIN loaded /\ ws[i] = loaded[i]
        BY <3>4, <1>3, <1>8, <1>9
      <3> QED
        BY <3>1, <3>2, <3>3, <3>4, <1>7
    <2> QED
      BY <1>6, <2>1, <2>2, <2>3 DEF Workspaces
  <1>11. BaseFiles(loaded) \subseteq BaseFiles(ws)
    BY <1>2, <1>6, <1>10, BaseFilesAre
  <1>12. \A f \in BaseFiles(ws) : f \in BaseFiles(loaded) \/ f >= next
    <2> TAKE f \in BaseFiles(ws)
    <2>1. PICK i \in DOMAIN ws : \E x \in DOMAIN ws[i].files : f = ws[i].files[x]
      BY <1>10, BaseFilesAre
    <2>2. CASE i \in DOMAIN loaded /\ ws[i] = loaded[i]
      BY <2>1, <2>2, <1>9, BaseFilesAre
    <2>3. CASE ws[i] = w
      BY <2>1, <2>3, <1>3, <1>8
    <2> QED
      BY <2>2, <2>3, <1>7
  <1>13. DOMAIN loaded \subseteq DOMAIN ws
    BY <1>6
  <1> QED
    BY <1>10, <1>11, <1>12, <1>13 DEF ws, w

(* A workspace replaced, with new ids.                                     *)
LEMMA WorkspaceAnew ==
    ASSUME next \in Nat, Workspaces(loaded, next), NEW n \in Sizes, NEW h \in DOMAIN loaded
    PROVE  LET ws == [loaded EXCEPT ![h].files = Allocate(n)]
           IN  /\ Workspaces(ws, next + n)
               /\ DOMAIN ws = DOMAIN loaded
               /\ \A i \in DOMAIN ws : ws[i].key = loaded[i].key
               /\ \A f \in BaseFiles(ws) : f \in BaseFiles(loaded) \/ f >= next
  <1> DEFINE ws == [loaded EXCEPT ![h].files = Allocate(n)]
             m == next + n
  <1>1. n \in Nat /\ m \in Nat /\ next <= m
    BY DEF Sizes
  <1>2. Workspaces(loaded, m)
    BY <1>1, WorkspacesLater
  <1>3. /\ Allocate(n) \in Seq(0..m - 1)
        /\ Len(Allocate(n)) = n
        /\ DOMAIN Allocate(n) = 1..n
        /\ \A i \in 1..n : Allocate(n)[i] >= next
        /\ \A i, j \in 1..n : Allocate(n)[i] = Allocate(n)[j] => i = j
    BY <1>1, AllocateNew, SeqIs
  <1>4. loaded \in Seq(Workspace(m))
    BY <1>2 DEF Workspaces
  <1>5. loaded[h] \in Workspace(m)
    BY <1>4, SeqIs
  <1>6. [loaded[h] EXCEPT !.files = Allocate(n)] = [key |-> loaded[h].key, files |-> Allocate(n)]
    BY <1>5 DEF Workspace
  <1>7. /\ DOMAIN ws = DOMAIN loaded
        /\ \A i \in DOMAIN ws : ws[i] = IF i = h THEN [key |-> loaded[h].key, files |-> Allocate(n)]
                                        ELSE loaded[i]
    BY <1>4, <1>6, SeqIs
  <1>8. ws \in Seq(Workspace(m))
    <2>1. [key |-> loaded[h].key, files |-> Allocate(n)] \in Workspace(m)
      BY <1>3, <1>5 DEF Workspace
    <2>2. \A i \in DOMAIN ws : ws[i] \in Workspace(m)
      BY <1>4, <1>7, <2>1, SeqIs
    <2>3. Len(loaded) \in Nat /\ DOMAIN ws = 1..Len(loaded) /\ ws = [i \in DOMAIN ws |-> ws[i]]
      BY <1>4, <1>7, SeqIs
    <2> HIDE DEF ws
    <2> QED
      BY <2>2, <2>3
  <1> HIDE DEF ws
  <1>9. \A i \in DOMAIN loaded : /\ Len(loaded[i].files) \in Sizes
                               /\ \A x \in DOMAIN loaded[i].files : loaded[i].files[x] \in 0..next - 1
    <2> TAKE i \in DOMAIN loaded
    <2>1. loaded[i] \in Workspace(next)
      BY DEF Workspaces
    <2>2. loaded[i].files \in Seq(0..next - 1)
      BY <2>1 DEF Workspace
    <2> QED
      BY <2>2, SeqIs DEF Workspaces
  <1>10. /\ \A i \in DOMAIN ws : ws[i].key = loaded[i].key
         /\ ws[h].files = Allocate(n)
         /\ \A i \in DOMAIN ws : i # h => ws[i].files = loaded[i].files
    BY <1>7
  <1>11. Workspaces(ws, m)
    <2>1. \A i \in DOMAIN ws : Len(ws[i].files) \in Sizes
      BY <1>3, <1>7, <1>9, <1>10
    <2>2. \A i, j \in DOMAIN ws : ws[i].key = ws[j].key => i = j
      BY <1>7, <1>10 DEF Workspaces
    <2>3. \A i, j \in DOMAIN ws : \A x \in DOMAIN ws[i].files, y \in DOMAIN ws[j].files :
            ws[i].files[x] = ws[j].files[y] => i = j /\ x = y
      <3> SUFFICES ASSUME NEW i \in DOMAIN ws, NEW j \in DOMAIN ws,
                          NEW x \in DOMAIN ws[i].files, NEW y \in DOMAIN ws[j].files,
                          ws[i].files[x] = ws[j].files[y]
                   PROVE  i = j /\ x = y
        OBVIOUS
      <3>1. CASE i # h /\ j # h
        BY <3>1, <1>7, <1>10 DEF Workspaces
      <3>2. CASE i = h /\ j = h
        BY <3>2, <1>3, <1>10
      <3>3. CASE i = h /\ j # h
        BY <3>3, <1>3, <1>7, <1>9, <1>10
      <3>4. CASE j = h /\ i # h
        BY <3>4, <1>3, <1>7, <1>9, <1>10
      <3> QED
        BY <3>1, <3>2, <3>3, <3>4
    <2> QED
      BY <1>8, <2>1, <2>2, <2>3 DEF Workspaces
  <1>12. \A f \in BaseFiles(ws) : f \in BaseFiles(loaded) \/ f >= next
    <2> TAKE f \in BaseFiles(ws)
    <2>1. PICK i \in DOMAIN ws : \E x \in DOMAIN ws[i].files : f = ws[i].files[x]
      BY <1>11, BaseFilesAre
    <2>2. CASE i # h
      BY <2>1, <2>2, <1>7, <1>9, <1>10, BaseFilesAre
    <2>3. CASE i = h
      BY <2>1, <2>3, <1>3, <1>10
    <2> QED
      BY <2>2, <2>3
  <1> QED
    BY <1>7, <1>10, <1>11, <1>12 DEF ws

(* What recone leaves of an overlay.                                       *)
LEMMA ReconeIs ==
    ASSUME Typed, NEW m \in Nat, next <= m, NEW ws, Workspaces(ws, m), DOMAIN ws = DOMAIN loaded,
           NEW d, NEW s \in Sessions, NEW same
    PROVE  LET o == Recone(d, ws, s, same)
           IN  /\ IsOverlay(o, m, BaseFiles(ws))
               /\ Files(o) \subseteq Files(overlay[s])
  <1> DEFINE kept == {x \in overlay[s].files : x.file \notin same /\
                                               BaseFileOf(ws, view[s], x.path) # {}}
             moved(x, b) == [x EXCEPT !.root = d.rootOf[b]]
             files == UNION {{moved(x, b) : b \in BaseFileOf(ws, view[s], x.path)} : x \in kept}
             o == [files |-> files, crates |-> Populate(d, ws, view[s], files)]
  <1>1. Recone(d, ws, s, same) = o
    BY Zenon DEF Recone
  <1>2. view[s] \in SUBSET DOMAIN ws
    BY DEF Typed
  <1>3. /\ \A x \in overlay[s].files : IsCopy(x, next)
        /\ \A x, y \in overlay[s].files : x.file = y.file => x = y
    BY DEF Typed, Overlays, IsOverlay
  <1>4. \A x : IsCopy(x, next) => \A r : /\ IsCopy([x EXCEPT !.root = r], m)
                                        /\ [x EXCEPT !.root = r].path = x.path
                                        /\ [x EXCEPT !.root = r].file = x.file
    <2> SUFFICES ASSUME NEW x, IsCopy(x, next), NEW r
                 PROVE  /\ IsCopy([x EXCEPT !.root = r], m)
                        /\ [x EXCEPT !.root = r].path = x.path
                        /\ [x EXCEPT !.root = r].file = x.file
      OBVIOUS
    <2>1. [x EXCEPT !.root = r] = [path |-> x.path, file |-> x.file, root |-> r]
      BY DEF IsCopy
    <2>2. x.file \in 0..m - 1
      BY DEF IsCopy, Typed
    <2> QED
      BY <2>1, <2>2 DEF IsCopy
  <1>5. ASSUME NEW y \in files
        PROVE  \E x \in overlay[s].files : \E b \in BaseFileOf(ws, view[s], x.path) :
                  /\ y = moved(x, b) /\ IsCopy(y, m)
                  /\ y.path = x.path /\ y.file = x.file
    <2>1. PICK x \in kept : \E b \in BaseFileOf(ws, view[s], x.path) : y = moved(x, b)
      OBVIOUS
    <2>2. PICK b \in BaseFileOf(ws, view[s], x.path) : y = moved(x, b)
      BY <2>1
    <2>3. x \in overlay[s].files /\ IsCopy(x, next)
      BY <1>3
    <2>4. IsCopy(y, m) /\ y.path = x.path /\ y.file = x.file
      BY <1>4, <2>2, <2>3
    <2> HIDE DEF moved
    <2> QED
      BY <2>2, <2>3, <2>4
  <1>6. ASSUME NEW y \in files, NEW z \in files, y.file = z.file
        PROVE  y = z
    <2>1. PICK x \in overlay[s].files : \E b \in BaseFileOf(ws, view[s], x.path) :
             y = moved(x, b) /\ y.file = x.file
      BY <1>5
    <2>2. PICK w \in overlay[s].files : \E c \in BaseFileOf(ws, view[s], w.path) :
             z = moved(w, c) /\ z.file = w.file
      BY <1>5
    <2>3. x = w
      BY <1>3, <1>6, <2>1, <2>2
    <2> QED
      BY <1>2, <2>1, <2>2, <2>3, BaseFileOfIs
  <1>7. \A c \in Populate(d, ws, view[s], files) :
           c = <<c[1], c[2]>> /\ c[1] \in BaseFiles(ws) /\ c[2] \in {y.file : y \in files}
    <2> HIDE DEF files
    <2> QED
      BY <1>2, PopulateIs
  <1>8. \A y \in files : IsCopy(y, m) /\ \E x \in overlay[s].files : y.file = x.file
    BY <1>5
  <1> HIDE DEF files
  <1>9. o.files = files /\ o.crates = Populate(d, ws, view[s], files)
    OBVIOUS
  <1>10. Files(o) = {y.file : y \in files}
    BY <1>9 DEF Files
  <1>11. IsOverlay(o, m, BaseFiles(ws))
    BY <1>6, <1>7, <1>8, <1>9, <1>10 DEF IsOverlay
  <1>12. Files(o) \subseteq Files(overlay[s])
    BY <1>8, <1>10 DEF Files
  <1> QED
    BY <1>1, <1>11, <1>12

-----------------------------------------------------------------------------
(* Every step keeps the invariant. *)

LEMMA LoadStep ==
    ASSUME IInv, NEW k \in Keys, NEW n \in Sizes, Load(k, n)
    PROVE  IInv'
  <1>1. n \in Nat /\ next \in Nat /\ next \in 0..MaxFileId + 1 /\ MaxFileId \in Nat
    BY IdsAssumption DEF IInv, Typed, Sizes
  <1>2. next' \in 0..MaxFileId + 1 /\ next' = next + n
    BY <1>1, AdvanceStep DEF Load, Prepared
  <1>3. /\ Workspaces(loaded', next')
        /\ DOMAIN loaded \subseteq DOMAIN loaded'
        /\ BaseFiles(loaded) \subseteq BaseFiles(loaded')
        /\ \A f \in BaseFiles(loaded') : f \in BaseFiles(loaded) \/ f >= next
    BY <1>1, <1>2, WorkspaceMore DEF Load, IInv, Typed
  <1>4. /\ IsDb(db') /\ db'.graph = BaseGraph(loaded')
        /\ db'.graph.crates = BaseFiles(loaded')
        /\ \A e \in db'.graph.deps :
             e = <<e[1], e[2]>> /\ e[1] \in BaseFiles(loaded') /\ e[2] \in BaseFiles(loaded')
    BY <1>3, ApplyBaseDb, BaseGraphApart DEF Load, IInv, Typed
  <1>5. /\ base' = [crates |-> base'.crates, max |-> base'.max]
        /\ base'.crates \subseteq BaseFiles(loaded')
    BY <1>4, BaseInputsAre DEF Load
  <1>6. \A s \in Sessions : Files(overlay[s]) \cap BaseFiles(loaded') = {}
    <2> SUFFICES ASSUME NEW s \in Sessions, NEW f \in Files(overlay[s]), f \in BaseFiles(loaded')
                 PROVE  FALSE
      OBVIOUS
    <2>1. f \in 0..next - 1 /\ f \notin BaseFiles(loaded)
      BY DEF IInv, Typed, Overlays, IsOverlay, IsCopy, Files
    <2> QED
      BY <1>1, <1>3, <2>1
  <1>7. Overlays(overlay', next', BaseFiles(loaded'))
    <2>1. Overlays(overlay, next', BaseFiles(loaded'))
      BY <1>1, <1>2, <1>3, <1>6, OverlaysLater DEF IInv, Typed
    <2> QED
      BY <2>1 DEF Load
  <1>8. view' \in [Sessions -> SUBSET DOMAIN loaded']
    BY <1>3 DEF Load, IInv, Typed
  <1>9. late' \in BOOLEAN
    BY DEF Load, IInv, Typed
  <1>10. DepsApart(db', overlay', late')
    <2>1. ASSUME NEW s \in Sessions, ~late' PROVE overlay'[s].crates = {}
      <3>1. overlay[s].files = {}
        BY <2>1 DEF Load
      <3>2. Files(overlay[s]) = {}
        BY <3>1 DEF Files
      <3> QED
        BY <3>2 DEF Load, IInv, Typed, Overlays, IsOverlay
    <2> QED
      BY <1>4, <1>6, <2>1 DEF DepsApart, Load
  <1> QED
    BY <1>2, <1>3, <1>4, <1>5, <1>7, <1>8, <1>9, <1>10 DEF IInv, Typed

(* What a rebuild leaves, of overlays that are such.                       *)
LEMMA RebuiltStep ==
    ASSUME NEW d, NEW b, NEW ovs, NEW n, NEW bases, Rebuilt(d, b, ovs), IsDb(d),
           b.crates \subseteq bases, Overlays(ovs, n, bases),
           \A e \in d.graph.deps : e = <<e[1], e[2]>>
    PROVE  IsDb(db') /\ DepsApart(db', overlay', late') /\ late' \in BOOLEAN
  <1>1. DepsApart(Rebuild(d, b, ovs), ovs, FALSE)
    BY OverlayGraphApart
  <1> QED
    BY <1>1, RebuildDb DEF Rebuilt

LEMMA ReloadStep ==
    ASSUME IInv, NEW k \in Keys, NEW n \in Sizes, NEW same, Reload(k, n, same)
    PROVE  IInv'
  <1>1. n \in Nat /\ next \in Nat /\ next \in 0..MaxFileId + 1 /\ MaxFileId \in Nat
    BY IdsAssumption DEF IInv, Typed, Sizes
  <1>2. next' \in 0..MaxFileId + 1 /\ next' = next + n
    BY <1>1, AdvanceStep DEF Reload, Prepared
  <1>3. PICK h \in DOMAIN loaded : loaded' = [loaded EXCEPT ![h].files = Allocate(n)]
    BY DEF Reload, IndexOf
  <1>4. /\ Workspaces(loaded', next')
        /\ DOMAIN loaded' = DOMAIN loaded
        /\ \A f \in BaseFiles(loaded') : f \in BaseFiles(loaded) \/ f >= next
    BY <1>1, <1>2, <1>3, WorkspaceAnew DEF IInv, Typed
  <1> DEFINE d == ApplyBase(db, loaded')
             b == BaseInputs(d, loaded', overlay)
             ovs == [s \in Sessions |-> Recone(d, loaded', s, same)]
  <1>5. base' = b /\ Rebuilt(d, b, ovs) /\ view' = view
    BY DEF Reload
  <1>6. /\ IsDb(d) /\ d.graph = BaseGraph(loaded')
        /\ d.graph.crates = BaseFiles(loaded')
        /\ \A e \in d.graph.deps : e = <<e[1], e[2]>>
    BY <1>4, ApplyBaseDb, BaseGraphApart DEF IInv, Typed
  <1> HIDE DEF d
  <1>7. b = [crates |-> b.crates, max |-> b.max] /\ b.crates \subseteq BaseFiles(loaded')
    BY <1>6, BaseInputsAre
  <1> HIDE DEF b
  <1>8. \A s \in Sessions : /\ IsOverlay(ovs[s], next', BaseFiles(loaded'))
                           /\ Files(ovs[s]) \subseteq Files(overlay[s])
    BY <1>1, <1>2, <1>4, ReconeIs DEF IInv
  <1>9. DOMAIN ovs = Sessions
    OBVIOUS
  <1> HIDE DEF ovs
  <1>10. Overlays(ovs, next', BaseFiles(loaded'))
    <2>1. \A s \in Sessions : Files(ovs[s]) \cap BaseFiles(loaded') = {}
      <3> SUFFICES ASSUME NEW s \in Sessions, NEW f \in Files(overlay[s]), f \in BaseFiles(loaded')
                   PROVE  FALSE
        BY <1>8
      <3>1. f \in 0..next - 1 /\ f \notin BaseFiles(loaded)
        BY DEF IInv, Typed, Overlays, IsOverlay, IsCopy, Files
      <3> QED
        BY <1>1, <1>4, <3>1
    <2>2. \A s, q \in Sessions : Files(ovs[s]) \cap Files(ovs[q]) # {} => s = q
      BY <1>8 DEF IInv, Typed, Overlays
    <2> QED
      BY <1>8, <1>9, <2>1, <2>2 DEF Overlays
  <1>11. IsDb(db') /\ DepsApart(db', overlay', late') /\ late' \in BOOLEAN /\ overlay' = ovs
    BY <1>5, <1>6, <1>7, <1>10, RebuiltStep DEF Rebuilt
  <1>12. view' \in [Sessions -> SUBSET DOMAIN loaded']
    BY <1>4, <1>5 DEF IInv, Typed
  <1> QED
    BY <1>2, <1>4, <1>5, <1>7, <1>10, <1>11, <1>12 DEF IInv, Typed

LEMMA LoadFailsStep ==
    ASSUME IInv, NEW n \in Sizes, LoadFails(n)
    PROVE  IInv'
  <1>1. n \in Nat /\ next \in Nat /\ next \in 0..MaxFileId + 1 /\ MaxFileId \in Nat
    BY IdsAssumption DEF IInv, Typed, Sizes
  <1>2. next' \in 0..MaxFileId + 1 /\ next <= next'
    BY <1>1, AdvanceStep DEF LoadFails
  <1>3. Workspaces(loaded, next')
    BY <1>1, <1>2, WorkspacesLater DEF IInv, Typed
  <1>4. Overlays(overlay, next', BaseFiles(loaded))
    BY <1>1, <1>2, OverlaysKept DEF IInv, Typed
  <1> QED
    BY <1>2, <1>3, <1>4 DEF LoadFails, IInv, Typed

LEMMA RegisterStep ==
    ASSUME IInv, NEW s \in Sessions, NEW v \in (SUBSET DOMAIN loaded) \ {{}}, Register(s, v)
    PROVE  IInv'
  BY DEF Register, IInv, Typed

(* An overlay that is dropped leaves the others as they are.               *)
LEMMA OverlayDropped ==
    ASSUME NEW ovs, NEW n, NEW bases, Overlays(ovs, n, bases), NEW s \in Sessions
    PROVE  Overlays([ovs EXCEPT ![s] = NoOverlay], n, bases)
  <1>1. Files(NoOverlay) = {} /\ IsOverlay(NoOverlay, n, bases)
    BY DEF NoOverlay, Files, IsOverlay
  <1> HIDE DEF NoOverlay
  <1> QED
    BY <1>1 DEF Overlays

LEMMA UnregisterStep ==
    ASSUME IInv, NEW s \in Sessions, Unregister(s)
    PROVE  IInv'
  <1>1. view' \in [Sessions -> SUBSET DOMAIN loaded]
    BY DEF Unregister, IInv, Typed
  <1>2. CASE overlay[s].files = {}
    BY <1>1, <1>2 DEF Unregister, IInv, Typed
  <1>3. CASE overlay[s].files # {}
    <2> DEFINE ovs == [overlay EXCEPT ![s] = NoOverlay]
    <2>1. Rebuilt(db, base, ovs)
      BY <1>3 DEF Unregister
    <2>2. Overlays(ovs, next, BaseFiles(loaded))
      BY OverlayDropped DEF IInv, Typed
    <2> HIDE DEF ovs
    <2>3. IsDb(db') /\ DepsApart(db', overlay', late') /\ late' \in BOOLEAN /\ overlay' = ovs
      BY <2>1, <2>2, RebuiltStep DEF Rebuilt, IInv, Typed, DepsApart
    <2> QED
      BY <1>1, <2>2, <2>3 DEF Unregister, IInv, Typed
  <1> QED
    BY <1>2, <1>3

(* The paths a session adds are paths, and few.                            *)
LEMMA AddedFinite ==
    ASSUME NEW s \in Sessions, NEW ps \in SUBSET Editable(s)
    PROVE  IsFiniteSet(Added(s, ps)) /\ Added(s, ps) \subseteq Paths
  <1>1. IsFiniteSet(Sizes)
    <2>1. Sizes = 1..2
      BY DEF Sizes
    <2>2. 1 \in Int /\ 2 \in Int
      OBVIOUS
    <2>3. IsFiniteSet(1..2)
      BY <2>2, FS_Interval, Zenon
    <2> QED
      BY <2>1, <2>3
  <1>2. IsFiniteSet(Paths)
    BY <1>1, FiniteAssumption, FS_Product DEF Paths
  <1>3. Added(s, ps) \subseteq Paths
    BY DEF Added, Editable
  <1> QED
    BY <1>2, <1>3, FS_Subset

(* The overlay that a sync builds: its copies are old ones and new ones.   *)
SyncedTo(s, o) ==
    /\ IsOverlay(o, next', BaseFiles(loaded))
    /\ \A f \in Files(o) : f \in Files(overlay[s]) \/ f >= next
    /\ Rebuilt(db, base, [overlay EXCEPT ![s] = o])
    /\ next' \in 0..MaxFileId + 1 /\ next <= next'

LEMMA SyncIs ==
    ASSUME Typed, NEW s \in Sessions, NEW ps \in SUBSET Editable(s), NEW allow,
           Sync(s, ps, allow)
    PROVE  \E o : SyncedTo(s, o)
  <1> DEFINE added == SetToSeq(Added(s, ps))
             new == Allocate(Len(added))
             baseOf(p) == CHOOSE b \in BaseFileOf(loaded, view[s], p) : TRUE
             rootOf(p) == db.rootOf[baseOf(p)]
             moved(x) == [x EXCEPT !.root = rootOf(x.path)]
             copy(i) == [path |-> added[i], file |-> new[i], root |-> rootOf(added[i])]
             files == {moved(x) : x \in Kept(s, ps)} \cup {copy(i) : i \in DOMAIN added}
             attach == allow \/ overlay[s].crates # {}
             crates == IF attach THEN Populate(db, loaded, view[s], files) ELSE {}
             o == [files |-> files, crates |-> crates]
  <1>1. Prepared(Len(added)) /\ Rebuilt(db, base, [overlay EXCEPT ![s] = o])
    BY Zenon DEF Sync
  <1>2. /\ added \in [1..Len(added) -> Paths] /\ Len(added) \in Nat
        /\ DOMAIN added = 1..Len(added)
    <2>1. IsFiniteSet(Added(s, ps)) /\ Added(s, ps) \subseteq Paths
      BY AddedFinite
    <2> QED
      BY <2>1, SetInSequence
  <1> HIDE DEF added
  <1>3. next \in 0..MaxFileId + 1 /\ next \in Nat
    BY IdsAssumption DEF Typed
  <1>4. next' \in 0..MaxFileId + 1 /\ next' = next + Len(added)
    BY <1>1, <1>2, <1>3, AdvanceStep DEF Prepared
  <1>5. \A i \in 1..Len(added) : new[i] \in 0..next' - 1 /\ new[i] = next + i - 1
    <2> TAKE i \in 1..Len(added)
    <2>1. new[i] = next + i - 1
      BY <1>2, <1>3, AllocateNew
    <2> HIDE DEF new
    <2> QED
      BY <2>1, <1>2, <1>3, <1>4
  <1> HIDE DEF new
  <1>6. ASSUME NEW x \in Kept(s, ps)
        PROVE  /\ x \in overlay[s].files /\ x.file \in 0..next - 1
               /\ IsCopy(moved(x), next') /\ moved(x).file = x.file
               /\ moved(x).path = x.path
    <2>1. x \in overlay[s].files /\ IsCopy(x, next)
      BY DEF Kept, Typed, Overlays, IsOverlay
    <2>2. moved(x) = [path |-> x.path, file |-> x.file, root |-> rootOf(x.path)]
      <3> HIDE DEF rootOf
      <3> QED
        BY <2>1 DEF IsCopy
    <2> HIDE DEF moved, rootOf
    <2>3. x.file \in 0..next' - 1
      BY <1>2, <1>3, <1>4, <2>1 DEF IsCopy
    <2> QED
      BY <2>1, <2>2, <2>3 DEF IsCopy
  <1>7. ASSUME NEW i \in DOMAIN added
        PROVE  IsCopy(copy(i), next') /\ copy(i).file = new[i] /\ copy(i).path = added[i]
    <2> HIDE DEF rootOf
    <2> QED
      BY <1>2, <1>5 DEF IsCopy
  <1> HIDE DEF moved, copy
  <1>8. \A y \in files : IsCopy(y, next')
    BY <1>6, <1>7
  <1>9. ASSUME NEW y \in files, NEW z \in files, y.file = z.file
        PROVE  y = z
    <2>1. CASE (\E x \in Kept(s, ps) : y = moved(x)) /\ (\E x \in Kept(s, ps) : z = moved(x))
      <3>1. PICK x \in Kept(s, ps) : y = moved(x)
        BY <2>1
      <3>2. PICK w \in Kept(s, ps) : z = moved(w)
        BY <2>1
      <3>3. x.file = w.file /\ x \in overlay[s].files /\ w \in overlay[s].files
        BY <1>6, <1>9, <3>1, <3>2
      <3>4. x = w
        BY <3>3 DEF Typed, Overlays, IsOverlay
      <3> QED
        BY <3>1, <3>2, <3>4
    <2>2. CASE (\E x \in Kept(s, ps) : y = moved(x)) /\ (\E i \in DOMAIN added : z = copy(i))
      <3>1. PICK x \in Kept(s, ps) : y = moved(x)
        BY <2>2
      <3>2. PICK i \in DOMAIN added : z = copy(i)
        BY <2>2
      <3>3. y.file \in 0..next - 1 /\ z.file = next + i - 1 /\ i \in 1..Len(added)
        BY <1>2, <1>5, <1>6, <1>7, <3>1, <3>2
      <3> QED
        BY <1>2, <1>3, <1>9, <3>3
    <2>3. CASE (\E i \in DOMAIN added : y = copy(i)) /\ (\E x \in Kept(s, ps) : z = moved(x))
      <3>1. PICK x \in Kept(s, ps) : z = moved(x)
        BY <2>3
      <3>2. PICK i \in DOMAIN added : y = copy(i)
        BY <2>3
      <3>3. z.file \in 0..next - 1 /\ y.file = next + i - 1 /\ i \in 1..Len(added)
        BY <1>2, <1>5, <1>6, <1>7, <3>1, <3>2
      <3> QED
        BY <1>2, <1>3, <1>9, <3>3
    <2>4. CASE (\E i \in DOMAIN added : y = copy(i)) /\ (\E i \in DOMAIN added : z = copy(i))
      <3>1. PICK i \in DOMAIN added : y = copy(i)
        BY <2>4
      <3>2. PICK j \in DOMAIN added : z = copy(j)
        BY <2>4
      <3>3. next + i - 1 = next + j - 1 /\ i \in 1..Len(added) /\ j \in 1..Len(added)
        BY <1>2, <1>5, <1>7, <1>9, <3>1, <3>2
      <3>4. i = j
        BY <1>2, <1>3, <3>3
      <3> QED
        BY <3>1, <3>2, <3>4
    <2> QED
      BY <2>1, <2>2, <2>3, <2>4
  <1>10. \A f \in {y.file : y \in files} : f \in Files(overlay[s]) \/ f >= next
    <2> SUFFICES ASSUME NEW y \in files PROVE y.file \in Files(overlay[s]) \/ y.file >= next
      OBVIOUS
    <2>1. CASE \E x \in Kept(s, ps) : y = moved(x)
      BY <1>6, <2>1 DEF Files
    <2>2. CASE \E i \in DOMAIN added : y = copy(i)
      <3>1. PICK i \in DOMAIN added : y = copy(i)
        BY <2>2
      <3>2. y.file = next + i - 1 /\ i \in 1..Len(added)
        BY <1>2, <1>5, <1>7, <3>1
      <3> QED
        BY <1>2, <1>3, <3>2
    <2> QED
      BY <2>1, <2>2
  <1> HIDE DEF files
  <1>11. \A c \in crates :
           c = <<c[1], c[2]>> /\ c[1] \in BaseFiles(loaded) /\ c[2] \in {y.file : y \in files}
    <2>1. view[s] \in SUBSET DOMAIN loaded
      BY DEF Typed
    <2> QED
      BY <2>1, PopulateIs DEF Typed
  <1> HIDE DEF crates
  <1>12. o.files = files /\ o.crates = crates /\ o = [files |-> o.files, crates |-> o.crates]
    OBVIOUS
  <1>13. Files(o) = {y.file : y \in files}
    BY <1>12 DEF Files
  <1> HIDE DEF o
  <1>14. IsOverlay(o, next', BaseFiles(loaded))
    BY <1>8, <1>9, <1>11, <1>12, <1>13 DEF IsOverlay
  <1>15. next <= next'
    BY <1>2, <1>3, <1>4
  <1> QED
    BY <1>1, <1>4, <1>10, <1>13, <1>14, <1>15 DEF SyncedTo

LEMMA SyncStep ==
    ASSUME IInv, NEW s \in Sessions, NEW ps \in SUBSET Editable(s), NEW allow,
           Sync(s, ps, allow)
    PROVE  IInv'
  <1>0. PICK o : SyncedTo(s, o)
    BY SyncIs DEF IInv
  <1>1. /\ IsOverlay(o, next', BaseFiles(loaded))
        /\ \A f \in Files(o) : f \in Files(overlay[s]) \/ f >= next
        /\ Rebuilt(db, base, [overlay EXCEPT ![s] = o])
        /\ next' \in 0..MaxFileId + 1 /\ next <= next'
    BY <1>0 DEF SyncedTo
  <1>2. next \in Nat /\ next' \in Nat
    BY <1>1, IdsAssumption DEF IInv, Typed
  <1>3. loaded' = loaded /\ view' = view /\ base' = base
    BY DEF Sync
  <1>4. Workspaces(loaded, next')
    BY <1>1, <1>2, WorkspacesLater DEF IInv, Typed
  <1> DEFINE ovs == [overlay EXCEPT ![s] = o]
  <1>5. DOMAIN overlay = Sessions
    BY DEF IInv, Typed, Overlays
  <1>6. DOMAIN ovs = Sessions /\ \A q \in Sessions : ovs[q] = IF q = s THEN o ELSE overlay[q]
    BY <1>5
  <1> HIDE DEF ovs
  <1>7. \A q \in Sessions : \A f \in Files(overlay[q]) : f \in 0..next - 1
    BY DEF IInv, Typed, Overlays, IsOverlay, IsCopy, Files
  <1>8. \A f \in BaseFiles(loaded) : f \in 0..next - 1
    BY BaseFilesAre DEF IInv, Typed
  <1>9. Overlays(ovs, next', BaseFiles(loaded))
    <2>1. \A q \in Sessions : IsOverlay(overlay[q], next', BaseFiles(loaded))
      BY <1>1, <1>2, OverlaysLater DEF IInv, Typed, Overlays
    <2>2. \A q \in Sessions : Files(ovs[q]) \cap BaseFiles(loaded) = {}
      <3> SUFFICES ASSUME NEW q \in Sessions, NEW f \in Files(ovs[q]), f \in BaseFiles(loaded)
                   PROVE  FALSE
        OBVIOUS
      <3>1. f \in Files(overlay[q]) \/ f >= next
        BY <1>1, <1>6
      <3> QED
        BY <1>2, <1>8, <3>1 DEF IInv, Typed, Overlays
    <2>3. ASSUME NEW q \in Sessions, NEW r \in Sessions, NEW f \in Files(ovs[q]), f \in Files(ovs[r])
          PROVE  q = r
      <3>1. CASE q = s /\ r # s
        BY <3>1, <2>3, <1>1, <1>2, <1>6, <1>7 DEF IInv, Typed, Overlays
      <3>2. CASE q # s /\ r = s
        BY <3>2, <2>3, <1>1, <1>2, <1>6, <1>7 DEF IInv, Typed, Overlays
      <3>3. CASE q # s /\ r # s
        BY <3>3, <2>3, <1>6 DEF IInv, Typed, Overlays
      <3> QED
        BY <3>1, <3>2, <3>3
    <2> QED
      BY <1>1, <1>6, <2>1, <2>2, <2>3 DEF Overlays
  <1>10. IsDb(db') /\ DepsApart(db', overlay', late') /\ late' \in BOOLEAN /\ overlay' = ovs
    BY <1>1, <1>9, RebuiltStep DEF Rebuilt, IInv, Typed, DepsApart, ovs
  <1> QED
    BY <1>1, <1>3, <1>4, <1>9, <1>10 DEF IInv, Typed

LEMMA SyncFailsStep ==
    ASSUME IInv, NEW s \in Sessions, NEW ps \in SUBSET Editable(s), NEW allow,
           SyncFails(s, ps, allow)
    PROVE  IInv'
  <1>1. Cardinality(Added(s, ps)) \in Nat
    BY AddedFinite, FS_CardinalityType
  <1>2. next \in Nat /\ next \in 0..MaxFileId + 1 /\ MaxFileId \in Nat
    BY IdsAssumption DEF IInv, Typed
  <1>3. next' \in 0..MaxFileId + 1 /\ next <= next'
    BY <1>1, <1>2, AdvanceStep DEF SyncFails
  <1>4. Workspaces(loaded, next')
    BY <1>2, <1>3, WorkspacesLater DEF IInv, Typed
  <1>5. Overlays(overlay, next', BaseFiles(loaded))
    BY <1>2, <1>3, OverlaysKept DEF IInv, Typed
  <1>6. Overlays(overlay', next', BaseFiles(loaded))
    BY <1>5, OverlayDropped DEF SyncFails
  <1>7. DepsApart(db, overlay', late)
    <2>1. DOMAIN overlay = Sessions
      BY DEF IInv, Typed, Overlays
    <2>2. \A q \in Sessions : \/ overlay'[q] = overlay[q]
                              \/ Files(overlay'[q]) = {} /\ overlay'[q].crates = {}
      BY <2>1 DEF SyncFails, NoOverlay, Files
    <2> QED
      BY <2>2 DEF IInv, DepsApart
  <1> QED
    BY <1>3, <1>4, <1>6, <1>7 DEF SyncFails, IInv, Typed

-----------------------------------------------------------------------------
LEMMA InitHolds == Init => IInv
  <1> SUFFICES ASSUME Init PROVE IInv
    OBVIOUS
  <1>1. next \in 0..MaxFileId + 1
    BY IdsAssumption DEF Init
  <1>2. Workspaces(loaded, next) /\ BaseFiles(loaded) = {}
    BY DEF Init, Workspaces, BaseFiles
  <1>3. Overlays(overlay, next, BaseFiles(loaded))
    <2>1. Files(NoOverlay) = {} /\ IsOverlay(NoOverlay, next, BaseFiles(loaded))
      BY DEF NoOverlay, Files, IsOverlay
    <2> HIDE DEF NoOverlay
    <2> QED
      BY <2>1 DEF Init, Overlays
  <1>4. IsDb(db) /\ db.graph.deps = {}
    BY DEF Init, IsDb
  <1>5. view \in [Sessions -> SUBSET DOMAIN loaded]
    BY DEF Init
  <1>6. base = [crates |-> base.crates, max |-> base.max] /\ base.crates = {}
    BY DEF Init
  <1> QED
    BY <1>1, <1>2, <1>3, <1>4, <1>5, <1>6 DEF Init, IInv, Typed, DepsApart

LEMMA NextKeeps == IInv /\ [Next]_vars => IInv'
  <1> SUFFICES ASSUME IInv, [Next]_vars PROVE IInv'
    OBVIOUS
  <1>1. CASE UNCHANGED vars
    BY <1>1 DEF vars, IInv, Typed, DepsApart
  <1>2. CASE \E k \in Keys, n \in Sizes : Load(k, n)
    BY <1>2, LoadStep
  <1>3. CASE \E k \in Keys, n \in Sizes :
                \E same \in SUBSET UNION {Files(overlay[s]) : s \in Sessions} : Reload(k, n, same)
    BY <1>3, ReloadStep
  <1>4. CASE \E n \in Sizes : LoadFails(n)
    BY <1>4, LoadFailsStep
  <1>5. CASE \E s \in Sessions : \E v \in (SUBSET DOMAIN loaded) \ {{}} : Register(s, v)
    BY <1>5, RegisterStep
  <1>6. CASE \E s \in Sessions : Unregister(s)
    BY <1>6, UnregisterStep
  <1>7. CASE \E s \in Sessions : \E ps \in SUBSET Editable(s), allow \in BOOLEAN :
                Sync(s, ps, allow) \/ SyncFails(s, ps, allow)
    BY <1>7, SyncStep, SyncFailsStep
  <1> QED
    BY <1>1, <1>2, <1>3, <1>4, <1>5, <1>6, <1>7 DEF Next

THEOREM Invariance == Spec => []IInv
  BY InitHolds, NextKeeps, PTL DEF Spec

THEOREM TypeCorrect == Spec => []TypeOK
  <1>1. IInv => TypeOK
    <2> SUFFICES ASSUME IInv PROVE TypeOK
      OBVIOUS
    <2>1. \A i \in DOMAIN loaded : loaded[i].key \in Keys /\ Len(loaded[i].files) \in Sizes
      <3> TAKE i \in DOMAIN loaded
      <3>1. loaded[i] \in Workspace(next)
        BY DEF IInv, Typed, Workspaces
      <3> QED
        BY <3>1 DEF IInv, Typed, Workspaces, Workspace
    <2>2. BaseFiles(loaded) \subseteq 0..next - 1
      BY BaseFilesAre DEF IInv, Typed
    <2>3. \A s \in Sessions : Files(overlay[s]) \subseteq 0..next - 1
      BY DEF IInv, Typed, Overlays, IsOverlay, IsCopy, Files
    <2>4. IdsDiffer
      <3>1. \A s, q \in Sessions : \A x \in overlay[s].files, y \in overlay[q].files :
              x.file = y.file => s = q /\ x = y
        <4> SUFFICES ASSUME NEW s \in Sessions, NEW q \in Sessions, NEW x \in overlay[s].files,
                            NEW y \in overlay[q].files, x.file = y.file
                     PROVE  s = q /\ x = y
          OBVIOUS
        <4>1. s = q
          BY DEF IInv, Typed, Overlays, Files
        <4> QED
          BY <4>1 DEF IInv, Typed, Overlays, IsOverlay
      <3> QED
        BY <3>1 DEF IdsDiffer, IInv, Typed, Workspaces, Overlays
    <2> QED
      BY <2>1, <2>2, <2>3, <2>4 DEF TypeOK, IInv, Typed
  <1> QED
    BY <1>1, Invariance, PTL

THEOREM CratesResolveCorrect == Spec => []CratesResolve
  <1>1. IInv => CratesResolve
    BY DEF IInv, DepsApart, CratesResolve
  <1> QED
    BY <1>1, Invariance, PTL

-----------------------------------------------------------------------------
(* The source roots. *)

(* A list of source roots of one file each.                                *)
Singletons(rs) ==
    /\ rs \in Seq(SUBSET FileIds)
    /\ \A i \in DOMAIN rs : \E f \in FileIds : rs[i] = {f}

Distinct(rs) == \A i, j \in DOMAIN rs : rs[i] = rs[j] => i = j

(* The database finds every file of the last list of roots in its root.    *)
RootsOk(d) ==
    /\ Singletons(d.roots)
    /\ d.length \in Nat /\ d.length <= Len(d.roots)
    /\ d.rootOf \in [FileIds -> Nat]
    /\ \A i \in 1..d.length : \A f \in d.roots[i] : d.rootOf[f] = i

StartsWith(d, rs) ==
    /\ Len(rs) <= d.length
    /\ \A i \in 1..Len(rs) : d.roots[i] = rs[i]

(* A list of roots that is applied is found, unless a root of it is taken  *)
(* for applied that an earlier, longer list had left.                      *)
LEMMA ApplyRootsLinks ==
    ASSUME NEW d, NEW rs, ~d.stale => RootsOk(d), Singletons(rs), Distinct(rs),
           ~ApplyRoots(d, rs).stale
    PROVE  /\ ~d.stale
           /\ RootsOk(ApplyRoots(d, rs))
           /\ ApplyRoots(d, rs).length = Len(rs)
           /\ StartsWith(ApplyRoots(d, rs), rs)
  <1> DEFINE tail == SubSeq(d.roots, Len(rs) + 1, Len(d.roots))
             passed(i) == i <= Len(d.roots) /\ d.roots[i] = rs[i]
             left(i) == i > d.length /\ passed(i)
             given(f) == {i \in DOMAIN rs : ~passed(i) /\ f \in rs[i] /\ IsNewFile(d, i, f)}
             rootOf == [f \in FileIds |-> IF given(f) = {} THEN d.rootOf[f] ELSE Max(given(f))]
             D == ApplyRoots(d, rs)
  <1>1. D = [roots |-> rs \o tail,
             length |-> Len(rs),
             stale |-> (d.stale \/ \E i \in DOMAIN rs : left(i)),
             rootOf |-> rootOf,
             graph |-> d.graph]
    BY Zenon DEF ApplyRoots
  <1> HIDE DEF D, tail, left, rootOf
  <1>2. /\ D.roots = rs \o tail /\ D.length = Len(rs) /\ D.rootOf = rootOf
        /\ D.stale = (d.stale \/ \E i \in DOMAIN rs : left(i))
    BY <1>1
  <1>3. ~d.stale /\ \A i \in DOMAIN rs : ~left(i)
    BY <1>2 DEF D
  <1>4. /\ RootsOk(d)
        /\ rs \in Seq(SUBSET FileIds) /\ Len(rs) \in Nat /\ DOMAIN rs = 1..Len(rs)
        /\ d.roots \in Seq(SUBSET FileIds) /\ Len(d.roots) \in Nat
        /\ DOMAIN d.roots = 1..Len(d.roots)
    BY <1>3, SeqIs DEF RootsOk, Singletons
  <1>5. /\ tail \in Seq(SUBSET FileIds)
        /\ \A i \in DOMAIN tail : Len(rs) + i \in DOMAIN d.roots /\ tail[i] = d.roots[Len(rs) + i]
    <2> DEFINE a == Len(rs) + 1
               b == Len(d.roots)
    <2>1. a \in Int /\ b \in Int /\ \A i \in a..b : d.roots[i] \in SUBSET FileIds
      BY <1>4, SeqIs
    <2>2. /\ tail \in Seq(SUBSET FileIds)
          /\ Len(tail) = IF a <= b THEN b - a + 1 ELSE 0
          /\ \A i \in 1..b - a + 1 : tail[i] = d.roots[a + i - 1]
      <3> HIDE DEF a, b
      <3>1. tail = SubSeq(d.roots, a, b)
        BY DEF tail, a, b
      <3> QED
        BY <2>1, <3>1, SubSeqProperties
    <2>3. DOMAIN tail = 1..Len(tail)
      BY <2>2, SeqIs
    <2>4. ASSUME NEW i \in DOMAIN tail
          PROVE  i \in 1..b - a + 1 /\ a + i - 1 = Len(rs) + i /\ Len(rs) + i \in 1..Len(d.roots)
      <3>1. i \in 1..(IF a <= b THEN b - a + 1 ELSE 0)
        BY <2>2, <2>3
      <3>2. i \in Nat /\ 1 <= i /\ i <= b - a + 1
        BY <1>4, <3>1
      <3> QED
        BY <1>4, <3>2
    <2>5. ASSUME NEW i \in DOMAIN tail
          PROVE  tail[i] = d.roots[Len(rs) + i]
      <3>1. tail[i] = d.roots[a + i - 1]
        BY <2>2, <2>4
      <3> QED
        BY <2>4, <3>1
    <2> QED
      BY <1>4, <2>2, <2>4, <2>5
  <1>6. /\ D.roots \in Seq(SUBSET FileIds) /\ Len(D.roots) >= Len(rs) /\ Len(D.roots) \in Nat
        /\ \A i \in 1..Len(rs) : D.roots[i] = rs[i]
        /\ \A i \in DOMAIN D.roots : \/ i \in DOMAIN rs /\ D.roots[i] = rs[i]
                                     \/ (\E j \in DOMAIN tail : D.roots[i] = tail[j])
    <2> DEFINE R == rs \o tail
    <2>1. /\ R \in Seq(SUBSET FileIds) /\ Len(R) = Len(rs) + Len(tail)
          /\ \A i \in 1..Len(rs) + Len(tail) :
               R[i] = IF i <= Len(rs) THEN rs[i] ELSE tail[i - Len(rs)]
      BY <1>4, <1>5, ConcatProperties
    <2> HIDE DEF R
    <2>2. Len(tail) \in Nat /\ DOMAIN tail = 1..Len(tail) /\ DOMAIN R = 1..Len(R)
      BY <1>5, <2>1, SeqIs
    <2>3. \A i \in 1..Len(rs) : R[i] = rs[i]
      BY <1>4, <2>1, <2>2
    <2>4. ASSUME NEW i \in DOMAIN R, i \notin DOMAIN rs
          PROVE  i - Len(rs) \in DOMAIN tail /\ R[i] = tail[i - Len(rs)]
      BY <1>4, <2>1, <2>2, <2>4
    <2>5. D.roots = R
      BY <1>2 DEF R
    <2> QED
      BY <1>4, <2>1, <2>2, <2>3, <2>4, <2>5
  <1>7. Singletons(D.roots)
    <2>1. \A i \in DOMAIN D.roots : \E f \in FileIds : D.roots[i] = {f}
      <3> TAKE i \in DOMAIN D.roots
      <3>1. CASE i \in DOMAIN rs /\ D.roots[i] = rs[i]
        BY <3>1 DEF Singletons
      <3>2. CASE \E j \in DOMAIN tail : D.roots[i] = tail[j]
        <4>1. PICK j \in DOMAIN tail : D.roots[i] = tail[j]
          BY <3>2
        <4>2. Len(rs) + j \in DOMAIN d.roots /\ tail[j] = d.roots[Len(rs) + j]
          BY <1>5
        <4> QED
          BY <1>4, <4>1, <4>2 DEF RootsOk, Singletons
      <3> QED
        BY <1>6, <3>1, <3>2
    <2> QED
      BY <1>6, <2>1 DEF Singletons
  <1>8. ASSUME NEW i \in DOMAIN rs, NEW f \in FileIds, rs[i] = {f}
        PROVE  rootOf[f] = i
    <2>1. \A j \in given(f) : j = i
      <3> TAKE j \in given(f)
      <3>1. j \in DOMAIN rs /\ f \in rs[j]
        OBVIOUS
      <3>2. rs[j] = {f}
        BY <3>1 DEF Singletons
      <3> QED
        BY <1>8, <3>1, <3>2 DEF Distinct
    <2>2. CASE passed(i)
      <3>1. given(f) = {}
        BY <2>1, <2>2
      <3>2. ~(i > d.length) /\ d.length \in Nat /\ d.length <= Len(d.roots)
        BY <1>3, <1>4, <2>2 DEF left, RootsOk
      <3>3. i \in 1..d.length /\ f \in d.roots[i]
        BY <1>4, <1>8, <2>2, <3>2
      <3>4. d.rootOf[f] = i
        BY <1>4, <3>3 DEF RootsOk
      <3> QED
        BY <3>1, <3>4 DEF rootOf
    <2>3. CASE ~passed(i)
      <3>1. IsNewFile(d, i, f)
        <4>1. CASE i > Len(d.roots)
          BY <4>1 DEF IsNewFile
        <4>2. CASE i <= Len(d.roots)
          <5>1. i \in DOMAIN d.roots /\ d.roots[i] # {f}
            BY <1>4, <1>8, <2>3, <4>2
          <5>2. f \notin d.roots[i]
            BY <1>4, <5>1 DEF RootsOk, Singletons
          <5> QED
            BY <5>2 DEF IsNewFile
        <4> QED
          BY <1>4, <4>1, <4>2
      <3>2. given(f) = {i}
        <4>1. i \in given(f)
          BY <1>8, <2>3, <3>1
        <4> QED
          BY <2>1, <4>1
      <3>3. Max({i}) = i
        <4>1. i \in Int
          BY <1>4
        <4> QED
          BY <4>1 DEF Max
      <3> QED
        BY <3>2, <3>3 DEF rootOf
    <2> QED
      BY <2>2, <2>3
  <1>9. rootOf \in [FileIds -> Nat]
    <2>1. ASSUME NEW f \in FileIds PROVE rootOf[f] \in Nat
      <3>1. CASE given(f) = {}
        BY <3>1, <1>4 DEF rootOf, RootsOk
      <3>2. CASE given(f) # {}
        <4>1. PICK i \in DOMAIN rs : f \in rs[i]
          BY <3>2
        <4>2. rs[i] = {f}
          BY <4>1 DEF Singletons
        <4> QED
          BY <1>4, <1>8, <4>1, <4>2
      <3> QED
        BY <3>1, <3>2
    <2>2. rootOf = [f \in FileIds |-> rootOf[f]]
      BY DEF rootOf
    <2> QED
      BY <2>1, <2>2
  <1>10. ASSUME NEW i \in 1..D.length, NEW f \in D.roots[i]
         PROVE  D.rootOf[f] = i
    <2>1. i \in DOMAIN rs /\ f \in rs[i]
      BY <1>2, <1>4, <1>6
    <2>2. f \in FileIds /\ rs[i] = {f}
      BY <2>1 DEF Singletons
    <2> QED
      BY <1>2, <1>8, <2>1, <2>2
  <1>11. RootsOk(D)
    BY <1>2, <1>4, <1>6, <1>7, <1>9, <1>10 DEF RootsOk
  <1>12. StartsWith(D, rs)
    BY <1>2, <1>4, <1>6 DEF StartsWith
  <1> QED
    BY <1>2, <1>3, <1>11, <1>12 DEF D

(* The roots of the workspaces, one workspace after the other.             *)
Roots(ws) == [i \in DOMAIN ws |-> [n \in DOMAIN ws[i].files |-> {ws[i].files[n]}]]
Place(ws, i) == Before(Roots(ws), i)

LEMMA RootsType ==
    ASSUME NEW n, NEW ws, Workspaces(ws, n), 0..n - 1 \subseteq FileIds
    PROVE  /\ Roots(ws) \in Seq(Seq(SUBSET FileIds))
           /\ DOMAIN Roots(ws) = DOMAIN ws
           /\ \A i \in DOMAIN ws : /\ DOMAIN Roots(ws)[i] = DOMAIN ws[i].files
                                  /\ \A m \in DOMAIN ws[i].files :
                                       /\ ws[i].files[m] \in FileIds
                                       /\ Roots(ws)[i][m] = {ws[i].files[m]}
           /\ BaseRoots(ws) = FlattenSeq(Roots(ws))
  <1>1. Len(ws) \in Nat /\ DOMAIN ws = 1..Len(ws)
    BY SeqIs DEF Workspaces
  <1>2. ASSUME NEW i \in DOMAIN ws
        PROVE  /\ ws[i].files \in Seq(0..n - 1)
               /\ Len(ws[i].files) \in Nat /\ DOMAIN ws[i].files = 1..Len(ws[i].files)
               /\ \A m \in DOMAIN ws[i].files : ws[i].files[m] \in FileIds
    <2>1. ws[i] \in Workspace(n)
      BY DEF Workspaces
    <2>2. ws[i].files \in Seq(0..n - 1)
      BY <2>1 DEF Workspace
    <2>3. \A m \in DOMAIN ws[i].files : ws[i].files[m] \in 0..n - 1
      BY <2>2, SeqIs
    <2> QED
      BY <2>2, <2>3, SeqIs
  <1>3. ASSUME NEW i \in DOMAIN ws
        PROVE  Roots(ws)[i] \in Seq(SUBSET FileIds)
    <2>1. Roots(ws)[i] = [m \in 1..Len(ws[i].files) |-> {ws[i].files[m]}]
      BY <1>2 DEF Roots
    <2>2. \A m \in 1..Len(ws[i].files) : {ws[i].files[m]} \in SUBSET FileIds
      BY <1>2
    <2> QED
      BY <1>2, <2>1, <2>2
  <1>4. Roots(ws) = [i \in 1..Len(ws) |-> Roots(ws)[i]]
    BY <1>1 DEF Roots
  <1>5. Roots(ws) \in Seq(Seq(SUBSET FileIds))
    BY <1>1, <1>3, <1>4
  <1>6. DOMAIN Roots(ws) = DOMAIN ws
    BY DEF Roots
  <1>7. \A i \in DOMAIN ws : /\ DOMAIN Roots(ws)[i] = DOMAIN ws[i].files
                           /\ \A m \in DOMAIN ws[i].files : Roots(ws)[i][m] = {ws[i].files[m]}
    BY DEF Roots
  <1>8. BaseRoots(ws) = FlattenSeq(Roots(ws))
    BY Zenon DEF BaseRoots, Roots
  <1> QED
    BY <1>2, <1>5, <1>6, <1>7, <1>8

LEMMA BaseRootsAre ==
    ASSUME NEW n, NEW ws, Workspaces(ws, n), 0..n - 1 \subseteq FileIds
    PROVE  /\ Singletons(BaseRoots(ws))
           /\ Distinct(BaseRoots(ws))
           /\ \A i \in DOMAIN ws : \A m \in DOMAIN ws[i].files :
                /\ Place(ws, i) + m \in DOMAIN BaseRoots(ws)
                /\ BaseRoots(ws)[Place(ws, i) + m] = {ws[i].files[m]}
           /\ \A j \in DOMAIN BaseRoots(ws) :
                \E i \in DOMAIN ws : \E m \in DOMAIN ws[i].files : j = Place(ws, i) + m
  <1> DEFINE B == BaseRoots(ws)
  <1>1. B \in Seq(SUBSET FileIds) /\ Parts(Roots(ws))
    BY RootsType, FlattenType, FlattenParts
  <1>2. \A i \in DOMAIN ws : \A m \in DOMAIN ws[i].files :
           Place(ws, i) + m \in DOMAIN B /\ B[Place(ws, i) + m] = {ws[i].files[m]}
    BY <1>1, RootsType DEF Parts, Place
  <1>3. \A j \in DOMAIN B : \E i \in DOMAIN ws : \E m \in DOMAIN ws[i].files : j = Place(ws, i) + m
    BY <1>1, RootsType DEF Parts, Place
  <1> HIDE DEF B
  <1>4. Singletons(B)
    <2>1. \A j \in DOMAIN B : \E f \in FileIds : B[j] = {f}
      <3> TAKE j \in DOMAIN B
      <3>1. PICK i \in DOMAIN ws : \E m \in DOMAIN ws[i].files : j = Place(ws, i) + m
        BY <1>3
      <3>2. PICK m \in DOMAIN ws[i].files : j = Place(ws, i) + m
        BY <3>1
      <3>3. ws[i].files[m] \in FileIds
        BY RootsType
      <3> QED
        BY <1>2, <3>2, <3>3
    <2> QED
      BY <1>1, <2>1 DEF Singletons
  <1>5. Distinct(B)
    <2> SUFFICES ASSUME NEW j \in DOMAIN B, NEW k \in DOMAIN B, B[j] = B[k] PROVE j = k
      BY DEF Distinct
    <2>1. PICK i \in DOMAIN ws : \E m \in DOMAIN ws[i].files : j = Place(ws, i) + m
      BY <1>3
    <2>2. PICK m \in DOMAIN ws[i].files : j = Place(ws, i) + m
      BY <2>1
    <2>3. PICK h \in DOMAIN ws : \E l \in DOMAIN ws[h].files : k = Place(ws, h) + l
      BY <1>3
    <2>4. PICK l \in DOMAIN ws[h].files : k = Place(ws, h) + l
      BY <2>3
    <2>5. ws[i].files[m] = ws[h].files[l]
      BY <1>2, <2>2, <2>4
    <2>6. i = h /\ m = l
      BY <2>5 DEF Workspaces
    <2> QED
      BY <2>2, <2>4, <2>6
  <1> QED
    BY <1>2, <1>3, <1>4, <1>5 DEF B

(* The database has each file of the workspaces in its root.               *)
LEMMA BaseLinks ==
    ASSUME NEW n, NEW ws, Workspaces(ws, n), 0..n - 1 \subseteq FileIds,
           NEW d, RootsOk(d), StartsWith(d, BaseRoots(ws)),
           NEW i \in DOMAIN ws, NEW m \in DOMAIN ws[i].files
    PROVE  /\ d.rootOf[ws[i].files[m]] = Place(ws, i) + m
           /\ Place(ws, i) + m \in 1..Len(BaseRoots(ws))
           /\ Place(ws, i) + m \in DOMAIN d.roots
           /\ d.roots[Place(ws, i) + m] = {ws[i].files[m]}
  <1>1. /\ Place(ws, i) + m \in DOMAIN BaseRoots(ws)
        /\ BaseRoots(ws)[Place(ws, i) + m] = {ws[i].files[m]}
    BY BaseRootsAre
  <1>2. DOMAIN BaseRoots(ws) = 1..Len(BaseRoots(ws)) /\ Len(BaseRoots(ws)) \in Nat
    BY BaseRootsAre, SeqIs DEF Singletons
  <1>3. DOMAIN d.roots = 1..Len(d.roots) /\ Len(d.roots) \in Nat
    BY SeqIs DEF Singletons, RootsOk
  <1>4. PICK k : k = Place(ws, i) + m
    OBVIOUS
  <1>5. k \in 1..Len(BaseRoots(ws)) /\ k \in 1..d.length /\ k \in DOMAIN d.roots
    BY <1>1, <1>2, <1>3, <1>4 DEF StartsWith, RootsOk
  <1>6. d.roots[k] = {ws[i].files[m]}
    BY <1>1, <1>4, <1>5 DEF StartsWith
  <1>7. d.rootOf[ws[i].files[m]] = k
    BY <1>5, <1>6 DEF RootsOk
  <1> QED
    BY <1>4, <1>5, <1>6, <1>7

(* The last base root is the last of the workspaces' roots.                *)
LEMMA LastBaseRoot ==
    ASSUME NEW n, NEW ws, Workspaces(ws, n), 0..n - 1 \subseteq FileIds, ws # <<>>,
           NEW d, RootsOk(d), StartsWith(d, BaseRoots(ws)), NEW ovs
    PROVE  BaseInputs(d, ws, ovs).max = Len(BaseRoots(ws))
  <1> DEFINE l == Len(BaseRoots(ws))
             R == {d.rootOf[f] : f \in BaseFiles(ws)}
  <1>1. \A f \in BaseFiles(ws) : \E i \in DOMAIN ws : \E m \in DOMAIN ws[i].files : f = ws[i].files[m]
    BY BaseFilesAre
  <1>2. \A r \in R : r \in 1..l
    BY <1>1, BaseLinks
  <1>3. /\ l \in Nat /\ DOMAIN BaseRoots(ws) = 1..l
    BY BaseRootsAre, SeqIs DEF Singletons
  <1>4. l \in R
    <2>1. l \in DOMAIN BaseRoots(ws)
      <3>1. 1 \in DOMAIN ws
        BY SeqIs DEF Workspaces
      <3>2. ws[1] \in Workspace(n) /\ Len(ws[1].files) \in Sizes
        BY <3>1 DEF Workspaces
      <3>3. 1 \in DOMAIN ws[1].files
        BY <3>2, SeqIs DEF Workspace, Sizes
      <3>4. Place(ws, 1) + 1 \in 1..l
        BY <3>1, <3>3, BaseLinks
      <3> QED
        BY <1>3, <3>4
    <2>2. PICK i \in DOMAIN ws : \E m \in DOMAIN ws[i].files : l = Place(ws, i) + m
      BY <2>1, BaseRootsAre
    <2>3. PICK m \in DOMAIN ws[i].files : l = Place(ws, i) + m
      BY <2>2
    <2>4. d.rootOf[ws[i].files[m]] = l
      BY <2>3, BaseLinks
    <2>5. ws[i].files[m] \in BaseFiles(ws)
      <3>1. ws[i] \in Workspace(n)
        BY DEF Workspaces
      <3>2. ws[i].files \in Seq(0..n - 1)
        BY <3>1 DEF Workspace
      <3>3. ws[i].files[m] \in 0..n - 1
        BY <3>2, SeqIs
      <3> QED
        BY <3>3, BaseFilesAre
    <2> QED
      BY <2>4, <2>5
  <1>5. BaseInputs(d, ws, ovs).max = Max(R)
    BY DEF BaseInputs
  <1> HIDE DEF R, l
  <1>6. \A r \in R : l >= r /\ r \in Int
    BY <1>2, <1>3
  <1>7. \A x \in R : (\A y \in R : x >= y) => x = l
    BY <1>3, <1>4, <1>6
  <1>8. Max(R) = l
    BY <1>4, <1>6, <1>7 DEF Max
  <1> QED
    BY <1>5, <1>8 DEF l

(* One source root for each copy of an overlay.                            *)
OneEach(R, o) ==
    /\ R \in Seq(SUBSET FileIds)
    /\ \A i \in DOMAIN R : \E x \in o.files : R[i] = {x.file}
    /\ \A x \in o.files : \E i \in DOMAIN R : R[i] = {x.file}
    /\ \A i, j \in DOMAIN R : R[i] = R[j] => i = j

(* Copies that have different base roots are in different roots.           *)
LEMMA RootsOfCopiesAre ==
    ASSUME NEW o, NEW k \in Nat, \A x \in o.files : x.root \in 1..k /\ x.file \in FileIds,
           \A x, y \in o.files : x.root = y.root => x = y,
           \A x, y \in o.files : x.file = y.file => x = y
    PROVE  OneEach(RootsOfCopies(o), o)
  <1> DEFINE S == {x.root : x \in o.files}
             a == Ascending(S)
             at(r) == {x.file : x \in {y \in o.files : y.root = r}}
             R == [i \in DOMAIN a |-> at(a[i])]
  <1>1. S \in SUBSET (1..k)
    OBVIOUS
  <1>2. IsFiniteSet(S) /\ S \subseteq Int
    <2> HIDE DEF S
    <2>1. IsFiniteSet(1..k)
      BY FS_Interval
    <2>2. IsFiniteSet(S)
      BY <1>1, <2>1, FS_Subset
    <2>3. S \subseteq Int
      BY <1>1
    <2> QED
      BY <2>2, <2>3
  <1>3. PICK n \in Nat : DOMAIN a = 1..n
    <2> HIDE DEF S
    <2>1. Cardinality(S) \in Nat /\ DOMAIN a = 1..Cardinality(S)
      BY <1>2, AscendingIs
    <2> HIDE DEF a
    <2> QED
      BY <2>1
  <1>4. /\ \A i \in 1..n : a[i] \in S
        /\ \A i, j \in 1..n : a[i] = a[j] => i = j
        /\ \A r \in S : \E i \in 1..n : a[i] = r
    <2> HIDE DEF S
    <2>1. /\ Cardinality(S) \in Nat
          /\ DOMAIN a = 1..Cardinality(S)
          /\ \A i \in 1..Cardinality(S) : a[i] \in S
          /\ \A i, j \in 1..Cardinality(S) : a[i] = a[j] => i = j
          /\ \A r \in S : \E i \in 1..Cardinality(S) : a[i] = r
      BY <1>2, AscendingIs
    <2> QED
      BY <1>3, <2>1
  <1>5. RootsOfCopies(o) = R
    BY Zenon DEF RootsOfCopies
  <1> HIDE DEF a
  <1>6. \A x \in o.files : at(x.root) = {x.file}
    OBVIOUS
  <1>7. \A r \in S : \E x \in o.files : r = x.root
    OBVIOUS
  <1>8. \A x \in o.files : x.root \in S
    OBVIOUS
  <1> HIDE DEF S, at
  <1>9. DOMAIN R = 1..n /\ \A i \in 1..n : R[i] = at(a[i])
    BY <1>3
  <1> HIDE DEF R
  <1>10. ASSUME NEW i \in 1..n
         PROVE  \E x \in o.files : a[i] = x.root /\ R[i] = {x.file}
    <2>1. PICK x \in o.files : a[i] = x.root
      BY <1>4, <1>7
    <2> QED
      BY <1>6, <1>9, <2>1
  <1>11. ASSUME NEW x \in o.files
         PROVE  \E i \in 1..n : R[i] = {x.file}
    <2>1. PICK i \in 1..n : a[i] = x.root
      BY <1>4, <1>8
    <2> QED
      BY <1>6, <1>9, <2>1
  <1>12. ASSUME NEW i \in 1..n, NEW j \in 1..n, R[i] = R[j]
         PROVE  i = j
    <2>1. PICK x \in o.files : a[i] = x.root /\ R[i] = {x.file}
      BY <1>10
    <2>2. PICK y \in o.files : a[j] = y.root /\ R[j] = {y.file}
      BY <1>10
    <2>3. x.file = y.file
      BY <1>12, <2>1, <2>2
    <2> QED
      BY <1>4, <2>1, <2>2, <2>3
  <1>13. R \in Seq(SUBSET FileIds)
    <2>1. \A i \in 1..n : R[i] \in SUBSET FileIds
      BY <1>10
    <2>2. R = [i \in 1..n |-> R[i]]
      BY <1>9 DEF R
    <2>3. [i \in 1..n |-> R[i]] \in Seq(SUBSET FileIds)
      BY <2>1
    <2> QED
      BY <2>2, <2>3, Zenon
  <1> QED
    BY <1>5, <1>9, <1>10, <1>11, <1>12, <1>13 DEF OneEach

(* The copies of an overlay have the roots of their base files, and there  *)
(* is one of each path.                                                    *)
PathsThere(o, ws, v) ==
    /\ \A x, y \in o.files : x.path = y.path => x = y
    /\ \A x \in o.files : BaseFileOf(ws, v, x.path) # {}

RootsGiven(o, ws, v, d) ==
    \A x \in o.files : \A b \in BaseFileOf(ws, v, x.path) : x.root = d.rootOf[b]

(* The base file of a path, and where the database has it.                 *)
Linked(d, ws, i, p, b) ==
    /\ ws[i].key = p[1] /\ p[2] \in DOMAIN ws[i].files
    /\ b = ws[i].files[p[2]]
    /\ d.rootOf[b] = Place(ws, i) + p[2]
    /\ d.rootOf[b] \in 1..Len(BaseRoots(ws))
    /\ d.rootOf[b] \in DOMAIN d.roots
    /\ d.roots[d.rootOf[b]] = {b}

LEMMA BaseFileLinks ==
    ASSUME NEW n, NEW ws, Workspaces(ws, n), 0..n - 1 \subseteq FileIds,
           NEW d, RootsOk(d), StartsWith(d, BaseRoots(ws)),
           NEW v \in SUBSET DOMAIN ws, NEW p \in Paths, NEW b \in BaseFileOf(ws, v, p)
    PROVE  \E i \in v : Linked(d, ws, i, p, b)
  <1>1. PICK i \in v : ws[i].key = p[1] /\ p[2] \in DOMAIN ws[i].files /\ b = ws[i].files[p[2]]
    BY DEF BaseFileOf
  <1>2. i \in DOMAIN ws
    OBVIOUS
  <1> QED
    BY <1>1, <1>2, BaseLinks DEF Linked

(* Copies whose base files differ have different roots.                    *)
LEMMA RootsDiffer ==
    ASSUME NEW n, NEW ws, Workspaces(ws, n), 0..n - 1 \subseteq FileIds,
           NEW d, RootsOk(d), StartsWith(d, BaseRoots(ws)),
           NEW v \in SUBSET DOMAIN ws, NEW o, NEW m, \A x \in o.files : IsCopy(x, m),
           PathsThere(o, ws, v), RootsGiven(o, ws, v, d)
    PROVE  /\ \A x \in o.files : x.root \in 1..Len(BaseRoots(ws))
           /\ \A x, y \in o.files : x.root = y.root => x = y
  <1>1. ASSUME NEW x \in o.files
        PROVE  \E i \in v : \E b : /\ ws[i].key = x.path[1] /\ x.path[2] \in DOMAIN ws[i].files
                                  /\ b = ws[i].files[x.path[2]] /\ x.root = d.rootOf[b]
                                  /\ x.root \in 1..Len(BaseRoots(ws))
                                  /\ d.roots[x.root] = {b}
    <2>1. PICK b : b \in BaseFileOf(ws, v, x.path)
      BY DEF PathsThere
    <2>2. x.path \in Paths /\ x.root = d.rootOf[b]
      BY <2>1 DEF IsCopy, RootsGiven
    <2>3. PICK p \in Paths : p = x.path
      BY <2>2
    <2>4. b \in BaseFileOf(ws, v, p)
      BY <2>1, <2>3
    <2>5. PICK i \in v : Linked(d, ws, i, p, b)
      BY <2>4, BaseFileLinks
    <2>6. Linked(d, ws, i, x.path, b)
      BY <2>3, <2>5
    <2> QED
      BY <2>2, <2>6 DEF Linked
  <1>2. ASSUME NEW x \in o.files, NEW y \in o.files, x.root = y.root
        PROVE  x = y
    <2>1. PICK i \in v : /\ ws[i].key = x.path[1] /\ x.path[2] \in DOMAIN ws[i].files
                         /\ d.roots[x.root] = {ws[i].files[x.path[2]]}
      BY <1>1
    <2>2. PICK j \in v : /\ ws[j].key = y.path[1] /\ y.path[2] \in DOMAIN ws[j].files
                         /\ d.roots[y.root] = {ws[j].files[y.path[2]]}
      BY <1>1
    <2>3. ws[i].files[x.path[2]] = ws[j].files[y.path[2]]
      BY <1>2, <2>1, <2>2
    <2>4. i = j /\ x.path[2] = y.path[2]
      BY <2>1, <2>2, <2>3 DEF Workspaces
    <2>5. x.path \in Keys \X Sizes /\ y.path \in Keys \X Sizes
      BY DEF IsCopy, Paths
    <2>6. x.path = y.path
      BY <2>1, <2>2, <2>4, <2>5
    <2> QED
      BY <2>6 DEF PathsThere
  <1> QED
    BY <1>1, <1>2

(* Two lists of roots, one after the other.                                *)
Joined(r, a, c) ==
    /\ Singletons(r) /\ Distinct(r)
    /\ Len(a) <= Len(r)
    /\ \A i \in 1..Len(a) : r[i] = a[i]
    /\ \A j \in DOMAIN c : \E i \in DOMAIN r : r[i] = c[j]

LEMMA TwoLists ==
    ASSUME NEW a, NEW c, Singletons(a), Singletons(c), Distinct(a), Distinct(c),
           \A i \in DOMAIN a, j \in DOMAIN c : a[i] # c[j]
    PROVE  Joined(a \o c, a, c)
  <1>1. /\ a \in Seq(SUBSET FileIds) /\ c \in Seq(SUBSET FileIds)
        /\ Len(a) \in Nat /\ Len(c) \in Nat /\ DOMAIN a = 1..Len(a) /\ DOMAIN c = 1..Len(c)
    BY SeqIs DEF Singletons
  <1> DEFINE r == a \o c
  <1>2. /\ r \in Seq(SUBSET FileIds) /\ Len(r) = Len(a) + Len(c)
        /\ \A i \in 1..Len(a) + Len(c) : r[i] = IF i <= Len(a) THEN a[i] ELSE c[i - Len(a)]
    BY <1>1, ConcatProperties
  <1> HIDE DEF r
  <1>3. DOMAIN r = 1..Len(a) + Len(c)
    BY <1>2, SeqIs
  <1>4. ASSUME NEW i \in DOMAIN r
        PROVE  \/ i \in DOMAIN a /\ r[i] = a[i]
               \/ (\E j \in DOMAIN c : i = Len(a) + j /\ r[i] = c[j])
    <2>1. CASE i <= Len(a)
      BY <2>1, <1>1, <1>2, <1>3
    <2>2. CASE ~(i <= Len(a))
      <3>1. i - Len(a) \in DOMAIN c /\ i = Len(a) + (i - Len(a)) /\ r[i] = c[i - Len(a)]
        BY <2>2, <1>1, <1>2, <1>3
      <3> QED
        BY <3>1
    <2> QED
      BY <2>1, <2>2
  <1>5. \A i \in 1..Len(a) : r[i] = a[i]
    BY <1>1, <1>2
  <1>6. ASSUME NEW j \in DOMAIN c PROVE Len(a) + j \in DOMAIN r /\ r[Len(a) + j] = c[j]
    <2>1. Len(a) + j \in 1..Len(a) + Len(c) /\ ~(Len(a) + j <= Len(a)) /\ Len(a) + j - Len(a) = j
      BY <1>1
    <2> QED
      BY <1>2, <1>3, <2>1
  <1>7. Singletons(r)
    <2>1. \A i \in DOMAIN r : \E f \in FileIds : r[i] = {f}
      <3> TAKE i \in DOMAIN r
      <3>1. CASE i \in DOMAIN a /\ r[i] = a[i]
        BY <3>1 DEF Singletons
      <3>2. CASE \E j \in DOMAIN c : i = Len(a) + j /\ r[i] = c[j]
        BY <3>2 DEF Singletons
      <3> QED
        BY <1>4, <3>1, <3>2
    <2> QED
      BY <1>2, <2>1 DEF Singletons
  <1>8. Distinct(r)
    <2> SUFFICES ASSUME NEW i \in DOMAIN r, NEW j \in DOMAIN r, r[i] = r[j] PROVE i = j
      BY DEF Distinct
    <2>1. CASE i \in DOMAIN a /\ r[i] = a[i]
      <3>1. ~(\E k \in DOMAIN c : j = Len(a) + k /\ r[j] = c[k])
        BY <2>1
      <3>2. j \in DOMAIN a /\ r[j] = a[j]
        BY <1>4, <3>1
      <3> QED
        BY <2>1, <3>2 DEF Distinct
    <2>2. CASE \E k \in DOMAIN c : i = Len(a) + k /\ r[i] = c[k]
      <3>1. PICK k \in DOMAIN c : i = Len(a) + k /\ r[i] = c[k]
        BY <2>2
      <3>2. ~(j \in DOMAIN a /\ r[j] = a[j])
        BY <3>1
      <3>3. PICK l \in DOMAIN c : j = Len(a) + l /\ r[j] = c[l]
        BY <1>4, <3>2
      <3>4. k = l
        BY <3>1, <3>3 DEF Distinct
      <3> QED
        BY <3>1, <3>3, <3>4
    <2> QED
      BY <1>4, <2>1, <2>2
  <1>9. Len(a) <= Len(r)
    BY <1>1, <1>2
  <1>10. \A j \in DOMAIN c : \E i \in DOMAIN r : r[i] = c[j]
    BY <1>6
  <1> QED
    BY <1>5, <1>7, <1>8, <1>9, <1>10 DEF r, Joined

(* The base roots, as the database has them.                               *)
LEMMA BaseRootsTaken ==
    ASSUME NEW d, RootsOk(d), NEW rs, Singletons(rs), StartsWith(d, rs)
    PROVE  SubSeq(d.roots, 1, Len(rs)) = rs
  <1>1. /\ rs \in Seq(SUBSET FileIds) /\ Len(rs) \in Nat /\ DOMAIN rs = 1..Len(rs)
        /\ rs = [i \in 1..Len(rs) |-> rs[i]]
    BY SeqIs DEF Singletons
  <1>2. \A i \in 1..Len(rs) : d.roots[i] = rs[i]
    BY DEF StartsWith
  <1> DEFINE h == SubSeq(d.roots, 1, Len(rs))
  <1>3. \A i \in 1..Len(rs) : d.roots[i] \in SUBSET FileIds
    BY <1>1, <1>2, SeqIs
  <1>4. /\ h \in Seq(SUBSET FileIds)
        /\ Len(h) = IF 1 <= Len(rs) THEN Len(rs) - 1 + 1 ELSE 0
        /\ \A i \in 1..Len(rs) - 1 + 1 : h[i] = d.roots[1 + i - 1]
    BY <1>1, <1>3, SubSeqProperties
  <1> HIDE DEF h
  <1>5. Len(h) = Len(rs)
    BY <1>1, <1>4
  <1>6. \A i \in 1..Len(rs) : h[i] = rs[i]
    <2> TAKE i \in 1..Len(rs)
    <2>1. i \in 1..Len(rs) - 1 + 1 /\ 1 + i - 1 = i
      BY <1>1
    <2>2. h[i] = d.roots[1 + i - 1]
      BY <1>4, <2>1
    <2> QED
      BY <1>2, <2>1, <2>2
  <1>7. h = rs
    BY <1>1, <1>4, <1>5, <1>6, SeqEqual
  <1> QED
    BY <1>7 DEF h

(* The roots of the overlays: one for each copy of a session.              *)
LEMMA RootsOfAllCopies ==
    ASSUME NEW ovs, NEW n, NEW bases, Overlays(ovs, n, bases), 0..n - 1 \subseteq FileIds,
           NEW k \in Nat,
           \A s \in Sessions : \A x \in ovs[s].files : x.root \in 1..k,
           \A s \in Sessions : \A x, y \in ovs[s].files : x.root = y.root => x = y
    PROVE  LET order == Ascending(Sessions)
               F == FlattenSeq([i \in DOMAIN order |-> RootsOfCopies(ovs[order[i]])])
           IN  /\ Singletons(F) /\ Distinct(F)
               /\ \A j \in DOMAIN F : \E s \in Sessions : \E x \in ovs[s].files : F[j] = {x.file}
               /\ \A s \in Sessions : \A x \in ovs[s].files : \E j \in DOMAIN F : F[j] = {x.file}
  <1> DEFINE order == Ascending(Sessions)
             T == [i \in DOMAIN order |-> RootsOfCopies(ovs[order[i]])]
             F == FlattenSeq(T)
             N == Cardinality(Sessions)
  <1>1. /\ N \in Nat /\ DOMAIN order = 1..N
        /\ \A i \in 1..N : order[i] \in Sessions
        /\ \A i, j \in 1..N : order[i] = order[j] => i = j
        /\ \A s \in Sessions : \E i \in 1..N : order[i] = s
    <2>1. Sessions \subseteq Int /\ IsFiniteSet(Sessions)
      BY IdsAssumption, FiniteAssumption
    <2> QED
      BY <2>1, AscendingIs
  <1> HIDE DEF N, order
  <1>2. ASSUME NEW s \in Sessions
        PROVE  OneEach(RootsOfCopies(ovs[s]), ovs[s])
    <2> DEFINE o == ovs[s]
    <2>1. \A x \in o.files : x.root \in 1..k /\ x.file \in FileIds
      BY DEF Overlays, IsOverlay, IsCopy
    <2>2. \A x, y \in o.files : x.root = y.root => x = y
      OBVIOUS
    <2>3. \A x, y \in o.files : x.file = y.file => x = y
      BY DEF Overlays, IsOverlay
    <2> HIDE DEF o
    <2>4. OneEach(RootsOfCopies(o), o)
      BY <2>1, <2>2, <2>3, RootsOfCopiesAre
    <2> QED
      BY <2>4 DEF o
  <1>3. \A i \in 1..N : T[i] = RootsOfCopies(ovs[order[i]])
    BY <1>1
  <1>4. DOMAIN T = 1..N /\ T = [i \in 1..N |-> T[i]]
    BY <1>1
  <1> HIDE DEF T
  <1>14. ASSUME NEW i \in 1..N
         PROVE  /\ T[i] \in Seq(SUBSET FileIds)
                /\ \A m \in DOMAIN T[i] : \E x \in ovs[order[i]].files : T[i][m] = {x.file}
                /\ \A x \in ovs[order[i]].files : \E m \in DOMAIN T[i] : T[i][m] = {x.file}
                /\ \A m, q \in DOMAIN T[i] : T[i][m] = T[i][q] => m = q
    <2>1. PICK s \in Sessions : s = order[i]
      BY <1>1
    <2>2. T[i] = RootsOfCopies(ovs[s])
      BY <1>3, <2>1
    <2>3. OneEach(T[i], ovs[order[i]])
      BY <1>2, <2>1, <2>2, Zenon
    <2> QED
      BY <2>3 DEF OneEach
  <1>5. T \in Seq(Seq(SUBSET FileIds))
    <2>1. \A i \in 1..N : T[i] \in Seq(SUBSET FileIds)
      BY <1>14
    <2>2. [i \in 1..N |-> T[i]] \in Seq(Seq(SUBSET FileIds))
      BY <1>1, <2>1
    <2> QED
      BY <1>4, <2>2, Zenon
  <1>6. F \in Seq(SUBSET FileIds) /\ Parts(T)
    BY <1>5, FlattenType, FlattenParts
  <1> HIDE DEF F
  <1>7. /\ \A i \in DOMAIN T : \A m \in DOMAIN T[i] :
             Before(T, i) + m \in DOMAIN F /\ F[Before(T, i) + m] = T[i][m]
        /\ \A j \in DOMAIN F : \E i \in DOMAIN T : \E m \in DOMAIN T[i] : j = Before(T, i) + m
    BY <1>6 DEF Parts, F
  <1>8. ASSUME NEW j \in DOMAIN F
        PROVE  \E i \in 1..N : \E m \in DOMAIN T[i] : \E x \in ovs[order[i]].files :
                  j = Before(T, i) + m /\ F[j] = T[i][m] /\ T[i][m] = {x.file}
    <2>1. PICK i \in 1..N : \E m \in DOMAIN T[i] : j = Before(T, i) + m
      BY <1>4, <1>7
    <2>2. PICK m \in DOMAIN T[i] : j = Before(T, i) + m
      BY <2>1
    <2>3. F[j] = T[i][m]
      BY <1>4, <1>7, <2>2
    <2>4. PICK x \in ovs[order[i]].files : T[i][m] = {x.file}
      BY <1>14
    <2> QED
      BY <2>2, <2>3, <2>4
  <1>9. \A s \in Sessions : \A x \in ovs[s].files : x.file \in FileIds /\ x.file \in Files(ovs[s])
    BY DEF Overlays, IsOverlay, IsCopy, Files
  <1>10. \A j \in DOMAIN F : \E s \in Sessions : \E x \in ovs[s].files : F[j] = {x.file}
    <2> TAKE j \in DOMAIN F
    <2>1. PICK i \in 1..N : \E m \in DOMAIN T[i] : \E x \in ovs[order[i]].files :
             j = Before(T, i) + m /\ F[j] = T[i][m] /\ T[i][m] = {x.file}
      BY <1>8
    <2>2. PICK x \in ovs[order[i]].files : F[j] = {x.file}
      BY <2>1
    <2>3. order[i] \in Sessions
      BY <1>1
    <2> QED
      BY <2>2, <2>3
  <1>11. Singletons(F)
    <2>1. \A j \in DOMAIN F : \E f \in FileIds : F[j] = {f}
      BY <1>9, <1>10
    <2> QED
      BY <1>6, <2>1 DEF Singletons
  <1>12. Distinct(F)
    <2> SUFFICES ASSUME NEW j \in DOMAIN F, NEW l \in DOMAIN F, F[j] = F[l] PROVE j = l
      BY DEF Distinct
    <2>1. PICK i \in 1..N : \E m \in DOMAIN T[i] : \E x \in ovs[order[i]].files :
             j = Before(T, i) + m /\ F[j] = T[i][m] /\ T[i][m] = {x.file}
      BY <1>8
    <2>2. PICK m \in DOMAIN T[i] : \E x \in ovs[order[i]].files :
             j = Before(T, i) + m /\ F[j] = T[i][m] /\ T[i][m] = {x.file}
      BY <2>1
    <2>3. PICK h \in 1..N : \E q \in DOMAIN T[h] : \E y \in ovs[order[h]].files :
             l = Before(T, h) + q /\ F[l] = T[h][q] /\ T[h][q] = {y.file}
      BY <1>8
    <2>4. PICK q \in DOMAIN T[h] : \E y \in ovs[order[h]].files :
             l = Before(T, h) + q /\ F[l] = T[h][q] /\ T[h][q] = {y.file}
      BY <2>3
    <2>5. T[i][m] = T[h][q]
      BY <2>2, <2>4
    <2>6. order[i] \in Sessions /\ order[h] \in Sessions
      BY <1>1
    <2>7. Files(ovs[order[i]]) \cap Files(ovs[order[h]]) # {}
      <3>1. PICK x \in ovs[order[i]].files : T[i][m] = {x.file}
        BY <2>2
      <3>2. PICK y \in ovs[order[h]].files : T[h][q] = {y.file}
        BY <2>4
      <3>3. x.file = y.file
        BY <2>5, <3>1, <3>2
      <3> QED
        BY <1>9, <2>6, <3>3
    <2>8. i = h
      BY <1>1, <2>6, <2>7 DEF Overlays
    <2>9. m = q
      BY <1>14, <2>5, <2>8
    <2> QED
      BY <2>2, <2>4, <2>8, <2>9
  <1>13. ASSUME NEW s \in Sessions, NEW x \in ovs[s].files
         PROVE  \E j \in DOMAIN F : F[j] = {x.file}
    <2>1. PICK i \in 1..N : order[i] = s
      BY <1>1
    <2>2. PICK m \in DOMAIN T[i] : T[i][m] = {x.file}
      BY <1>14, <2>1
    <2>3. Before(T, i) + m \in DOMAIN F /\ F[Before(T, i) + m] = T[i][m]
      BY <1>4, <1>7, <2>2
    <2> QED
      BY <2>2, <2>3
  <1> QED
    BY <1>10, <1>11, <1>12, <1>13 DEF F, T, order

(* What the overlays are to the workspaces, and to where the database has  *)
(* their files.                                                            *)
AllThere(ovs, ws, v) == \A s \in Sessions : PathsThere(ovs[s], ws, v[s])
AllGiven(ovs, ws, v, d) == \A s \in Sessions : RootsGiven(ovs[s], ws, v[s], d)

(* The roots with the overlays: those of the workspaces first, then one    *)
(* for each copy.                                                          *)
RootsWithCopies(rs, ws, ovs) ==
    /\ Singletons(rs) /\ Distinct(rs)
    /\ Len(BaseRoots(ws)) <= Len(rs)
    /\ \A i \in 1..Len(BaseRoots(ws)) : rs[i] = BaseRoots(ws)[i]
    /\ \A s \in Sessions : \A x \in ovs[s].files : \E i \in DOMAIN rs : rs[i] = {x.file}

LEMMA OverlayRootsAre ==
    ASSUME NEW n, NEW ws, Workspaces(ws, n), 0..n - 1 \subseteq FileIds,
           NEW d, RootsOk(d), StartsWith(d, BaseRoots(ws)),
           NEW b, b.max = Len(BaseRoots(ws)),
           NEW ovs, Overlays(ovs, n, BaseFiles(ws)),
           NEW v \in [Sessions -> SUBSET DOMAIN ws],
           AllThere(ovs, ws, v), AllGiven(ovs, ws, v, d)
    PROVE  RootsWithCopies(OverlayRoots(d, b, ovs), ws, ovs)
  <1> DEFINE a == BaseRoots(ws)
             order == Ascending(Sessions)
             c == FlattenSeq([i \in DOMAIN order |-> RootsOfCopies(ovs[order[i]])])
  <1>1. OverlayRoots(d, b, ovs) = SubSeq(d.roots, 1, Len(a)) \o c
    BY Zenon DEF OverlayRoots
  <1>2. Singletons(a) /\ Distinct(a)
    BY BaseRootsAre
  <1>3. SubSeq(d.roots, 1, Len(a)) = a
    BY <1>2, BaseRootsTaken
  <1>4. ASSUME NEW s \in Sessions
        PROVE  /\ \A x \in ovs[s].files : x.root \in 1..Len(a)
               /\ \A x, y \in ovs[s].files : x.root = y.root => x = y
    <2> DEFINE o == ovs[s]
    <2>1. PICK w \in SUBSET DOMAIN ws : w = v[s]
      OBVIOUS
    <2>2. PathsThere(o, ws, w) /\ RootsGiven(o, ws, w, d)
      BY <2>1 DEF AllThere, AllGiven
    <2>3. \A x \in o.files : IsCopy(x, n)
      BY DEF Overlays, IsOverlay
    <2> HIDE DEF o
    <2>4. /\ \A x \in o.files : x.root \in 1..Len(BaseRoots(ws))
          /\ \A x, y \in o.files : x.root = y.root => x = y
      BY <2>2, <2>3, RootsDiffer
    <2> QED
      BY <2>4 DEF o
  <1>5. Len(a) \in Nat
    BY <1>2, SeqIs DEF Singletons
  <1>6. /\ Singletons(c) /\ Distinct(c)
        /\ \A j \in DOMAIN c : \E s \in Sessions : \E x \in ovs[s].files : c[j] = {x.file}
        /\ \A s \in Sessions : \A x \in ovs[s].files : \E j \in DOMAIN c : c[j] = {x.file}
    <2> DEFINE k == Len(a)
    <2>1. /\ \A s \in Sessions : \A x \in ovs[s].files : x.root \in 1..k
          /\ \A s \in Sessions : \A x, y \in ovs[s].files : x.root = y.root => x = y
      BY <1>4
    <2>2. k \in Nat
      BY <1>5
    <2> HIDE DEF k
    <2> QED
      BY <2>1, <2>2, RootsOfAllCopies
  <1>7. ASSUME NEW j \in DOMAIN a
        PROVE  \E f \in BaseFiles(ws) : a[j] = {f}
    <2>1. PICK i \in DOMAIN ws : \E m \in DOMAIN ws[i].files : j = Place(ws, i) + m
      BY BaseRootsAre
    <2>2. PICK m \in DOMAIN ws[i].files : j = Place(ws, i) + m
      BY <2>1
    <2>3. a[j] = {ws[i].files[m]}
      BY <2>2, BaseRootsAre
    <2>4. ws[i].files[m] \in BaseFiles(ws)
      <3>1. ws[i] \in Workspace(n)
        BY SeqIs DEF Workspaces
      <3>2. ws[i].files \in Seq(0..n - 1)
        BY <3>1 DEF Workspace
      <3>3. ws[i].files[m] \in 0..n - 1
        BY <3>2, SeqIs
      <3> QED
        BY <3>3, BaseFilesAre
    <2> QED
      BY <2>3, <2>4
  <1> HIDE DEF a, c
  <1>8. \A i \in DOMAIN a, j \in DOMAIN c : a[i] # c[j]
    <2> SUFFICES ASSUME NEW i \in DOMAIN a, NEW j \in DOMAIN c, a[i] = c[j] PROVE FALSE
      OBVIOUS
    <2>1. PICK f \in BaseFiles(ws) : a[i] = {f}
      BY <1>7
    <2>2. PICK s \in Sessions : \E x \in ovs[s].files : c[j] = {x.file}
      BY <1>6
    <2>3. PICK x \in ovs[s].files : c[j] = {x.file}
      BY <2>2
    <2>4. f \in Files(ovs[s])
      BY <2>1, <2>3 DEF Files
    <2> QED
      BY <2>4 DEF Overlays
  <1>9. Joined(a \o c, a, c)
    BY <1>2, <1>6, <1>8, TwoLists
  <1> DEFINE r == a \o c
  <1>10. OverlayRoots(d, b, ovs) = r
    BY <1>1, <1>3
  <1>11. \A s \in Sessions : \A x \in ovs[s].files : \E i \in DOMAIN r : r[i] = {x.file}
    <2> TAKE s \in Sessions
    <2> TAKE x \in ovs[s].files
    <2>1. PICK j \in DOMAIN c : c[j] = {x.file}
      BY <1>6
    <2> QED
      BY <1>9, <2>1 DEF Joined
  <1>12. RootsWithCopies(r, ws, ovs)
    BY <1>9, <1>11 DEF RootsWithCopies, Joined, a
  <1> QED
    BY <1>10, <1>12

(* The fields a rebuild sets.                                              *)
LEMMA RebuildFields ==
    ASSUME NEW d, NEW b, NEW ovs
    PROVE  LET e == Rebuild(d, b, ovs)
               a == ApplyRoots(d, OverlayRoots(d, b, ovs))
           IN  /\ e.roots = a.roots /\ e.length = a.length /\ e.stale = a.stale
               /\ e.rootOf = a.rootOf
  <1> DEFINE rs == OverlayRoots(d, b, ovs)
  <1> HIDE DEF rs
  <1>1. Rebuild(d, b, ovs) = [ApplyRoots(d, rs) EXCEPT !.graph = OverlayGraph(d, b, ovs)]
    BY DEF Rebuild, rs
  <1> QED
    BY <1>1 DEF ApplyRoots, rs

(* The same for the base.                                                  *)
LEMMA ApplyBaseFields ==
    ASSUME NEW d, NEW ws
    PROVE  LET e == ApplyBase(d, ws)
               a == ApplyRoots(d, BaseRoots(ws))
           IN  /\ e.roots = a.roots /\ e.length = a.length /\ e.stale = a.stale
               /\ e.rootOf = a.rootOf
  <1> DEFINE rs == BaseRoots(ws)
  <1> HIDE DEF rs
  <1>1. ApplyBase(d, ws) = [ApplyRoots(d, rs) EXCEPT !.graph = BaseGraph(ws)]
    BY DEF ApplyBase, rs
  <1> QED
    BY <1>1 DEF ApplyRoots, rs

(* What is so for one form of the database is so for another one with the  *)
(* same roots.                                                             *)
LEMMA SameRoots ==
    ASSUME NEW d, NEW e, e.roots = d.roots, e.length = d.length, e.rootOf = d.rootOf
    PROVE  /\ RootsOk(d) => RootsOk(e)
           /\ \A rs : StartsWith(d, rs) => StartsWith(e, rs)
  BY DEF RootsOk, StartsWith

-----------------------------------------------------------------------------
(* Where the database has the files. *)

(* The workspaces' roots come first and are the base.                      *)
Placed(d, ws, b) ==
    /\ RootsOk(d)
    /\ StartsWith(d, BaseRoots(ws))
    /\ b.max = Len(BaseRoots(ws))

(* Every copy is in a root of the last list.                               *)
CopiesThere(d, ovs) ==
    \A s \in Sessions : \A x \in ovs[s].files : \E i \in 1..d.length : d.roots[i] = {x.file}

(* The database keeps the files of the workspaces where they are.          *)
LEMMA GivenKept ==
    ASSUME NEW n, NEW ws, Workspaces(ws, n), 0..n - 1 \subseteq FileIds,
           NEW d, RootsOk(d), StartsWith(d, BaseRoots(ws)),
           NEW e, RootsOk(e), StartsWith(e, BaseRoots(ws)),
           NEW v \in [Sessions -> SUBSET DOMAIN ws], NEW ovs, AllGiven(ovs, ws, v, d)
    PROVE  AllGiven(ovs, ws, v, e)
  <1>1. ASSUME NEW s \in Sessions, NEW x \in ovs[s].files, NEW c \in BaseFileOf(ws, v[s], x.path)
        PROVE  x.root = e.rootOf[c]
    <2>1. x.root = d.rootOf[c]
      BY DEF AllGiven, RootsGiven
    <2>2. PICK i \in v[s] : x.path[2] \in DOMAIN ws[i].files /\ c = ws[i].files[x.path[2]]
      BY DEF BaseFileOf
    <2>3. i \in DOMAIN ws
      BY <2>2
    <2>4. d.rootOf[c] = e.rootOf[c]
      BY <2>2, <2>3, BaseLinks
    <2> QED
      BY <2>1, <2>4
  <1> QED
    BY <1>1 DEF AllGiven, RootsGiven

(* A rebuild, unless it takes a root for applied that is not.              *)
LEMMA RebuildLinks ==
    ASSUME NEW n, NEW ws, Workspaces(ws, n), 0..n - 1 \subseteq FileIds,
           NEW d, NEW b, ~d.stale => Placed(d, ws, b),
           NEW ovs, Overlays(ovs, n, BaseFiles(ws)),
           NEW v \in [Sessions -> SUBSET DOMAIN ws], AllThere(ovs, ws, v),
           ~d.stale => AllGiven(ovs, ws, v, d),
           ~Rebuild(d, b, ovs).stale
    PROVE  LET e == Rebuild(d, b, ovs)
           IN  Placed(e, ws, b) /\ AllGiven(ovs, ws, v, e) /\ CopiesThere(e, ovs)
  <1> DEFINE rs == OverlayRoots(d, b, ovs)
             a == ApplyRoots(d, rs)
             e == Rebuild(d, b, ovs)
  <1>1. e.roots = a.roots /\ e.length = a.length /\ e.stale = a.stale /\ e.rootOf = a.rootOf
    BY RebuildFields
  <1> HIDE DEF rs, e
  <1>2. ~a.stale
    BY <1>1 DEF e
  <1>3. ~d.stale
    BY <1>2 DEF ApplyRoots
  <1>4. RootsWithCopies(rs, ws, ovs)
    BY <1>3, OverlayRootsAre DEF Placed, rs
  <1>5. Singletons(rs) /\ Distinct(rs)
    BY <1>4 DEF RootsWithCopies
  <1>6. RootsOk(d)
    BY <1>3 DEF Placed
  <1>7. RootsOk(a) /\ a.length = Len(rs) /\ StartsWith(a, rs)
    BY <1>2, <1>5, <1>6, ApplyRootsLinks
  <1> HIDE DEF a
  <1>8. RootsOk(e) /\ StartsWith(e, rs) /\ e.length = Len(rs)
    BY <1>1, <1>7, SameRoots
  <1>9. StartsWith(e, BaseRoots(ws))
    <2>1. Len(rs) \in Nat /\ Len(BaseRoots(ws)) \in Nat
      BY <1>5, BaseRootsAre, SeqIs DEF Singletons
    <2> QED
      BY <1>4, <1>8, <2>1 DEF StartsWith, RootsWithCopies
  <1>10. Placed(e, ws, b)
    BY <1>3, <1>8, <1>9 DEF Placed
  <1>11. AllGiven(ovs, ws, v, e)
    BY <1>3, <1>8, <1>9, GivenKept DEF Placed
  <1>12. CopiesThere(e, ovs)
    <2> SUFFICES ASSUME NEW s \in Sessions, NEW x \in ovs[s].files
                 PROVE  \E i \in 1..e.length : e.roots[i] = {x.file}
      BY DEF CopiesThere
    <2>1. PICK i \in DOMAIN rs : rs[i] = {x.file}
      BY <1>4 DEF RootsWithCopies
    <2>2. i \in 1..Len(rs)
      BY <1>5, SeqIs DEF Singletons
    <2> QED
      BY <1>8, <2>1, <2>2 DEF StartsWith
  <1> QED
    BY <1>10, <1>11, <1>12 DEF e

(* The roots of the workspaces alone.                                      *)
LEMMA ApplyBaseLinks ==
    ASSUME NEW n, NEW ws, Workspaces(ws, n), 0..n - 1 \subseteq FileIds, ws # <<>>,
           NEW d, ~d.stale => RootsOk(d), NEW ovs,
           ~ApplyBase(d, ws).stale
    PROVE  /\ ~d.stale
           /\ LET e == ApplyBase(d, ws) IN Placed(e, ws, BaseInputs(e, ws, ovs))
  <1> DEFINE rs == BaseRoots(ws)
             a == ApplyRoots(d, rs)
             e == ApplyBase(d, ws)
  <1>1. e.roots = a.roots /\ e.length = a.length /\ e.stale = a.stale /\ e.rootOf = a.rootOf
    BY ApplyBaseFields
  <1>2. Singletons(rs) /\ Distinct(rs)
    BY BaseRootsAre
  <1> HIDE DEF rs, e
  <1>3. ~a.stale
    BY <1>1 DEF e
  <1>4. ~d.stale /\ RootsOk(a) /\ StartsWith(a, rs)
    BY <1>2, <1>3, ApplyRootsLinks
  <1> HIDE DEF a
  <1>5. RootsOk(e) /\ StartsWith(e, rs)
    BY <1>1, <1>4, SameRoots
  <1>6. BaseInputs(e, ws, ovs).max = Len(BaseRoots(ws))
    BY <1>5, LastBaseRoot DEF rs
  <1> QED
    BY <1>4, <1>5, <1>6 DEF Placed, rs, e

(* The second invariant, on top of the first: a copy has a path of its own *)
(* with a base file, the crates are in the graph, and the database finds   *)
(* what it was given.                                                      *)
LInv ==
    /\ AllThere(overlay, loaded, view)
    /\ base.crates \subseteq db.graph.crates
    /\ ~late => \A s \in Sessions : \A c \in overlay[s].crates : c[2] \in db.graph.crates
    /\ ~db.stale => /\ Placed(db, loaded, base)
                    /\ AllGiven(overlay, loaded, view, db)
                    /\ ~late => CopiesThere(db, overlay)

LEMMA IdsBelow == \A n \in 0..MaxFileId + 1 : 0..n - 1 \subseteq FileIds
  BY IdsAssumption DEF FileIds

(* A path has a base file in the same workspaces before and after one more *)
(* is loaded.                                                              *)
LEMMA BaseFileOfKept ==
    ASSUME NEW n, NEW ws, Workspaces(ws, n), NEW w, NEW v \in SUBSET DOMAIN ws, NEW p
    PROVE  BaseFileOf(Append(ws, w), v, p) = BaseFileOf(ws, v, p)
  <1>1. \A i \in DOMAIN ws : Append(ws, w)[i] = ws[i]
    BY DEF Workspaces
  <1> DEFINE u == Append(ws, w)
  <1> HIDE DEF u
  <1>2. \A i \in v : u[i] = ws[i]
    BY <1>1 DEF u
  <1>3. {j \in v : u[j].key = p[1] /\ p[2] \in DOMAIN u[j].files}
          = {j \in v : ws[j].key = p[1] /\ p[2] \in DOMAIN ws[j].files}
    BY <1>2
  <1> DEFINE V == {j \in v : ws[j].key = p[1] /\ p[2] \in DOMAIN ws[j].files}
  <1>4. {u[i].files[p[2]] : i \in V} = {ws[i].files[p[2]] : i \in V}
    BY <1>2
  <1>5. BaseFileOf(u, v, p) = BaseFileOf(ws, v, p)
    BY <1>3, <1>4 DEF BaseFileOf
  <1> QED
    BY <1>5 DEF u

(* The roots of the first workspaces are the first roots.                  *)
LEMMA RootsOfFirst ==
    ASSUME NEW n, NEW ws, Workspaces(ws, n), NEW k \in 0..Len(ws)
    PROVE  Roots(SubSeq(ws, 1, k)) = Prefix(Roots(ws), k)
  <1>1. /\ ws \in Seq(Workspace(n)) /\ Len(ws) \in Nat /\ DOMAIN ws = 1..Len(ws)
    BY SeqIs DEF Workspaces
  <1> DEFINE u == SubSeq(ws, 1, k)
             r == Roots(ws)
             root(x) == [i \in DOMAIN x.files |-> {x.files[i]}]
  <1>2. /\ u = [i \in 1..k |-> ws[i]]
    BY <1>1
  <1>3. r = [i \in 1..Len(ws) |-> root(ws[i])]
    BY <1>1 DEF Roots
  <1>4. Roots(u) = [i \in DOMAIN u |-> root(u[i])]
    BY DEF Roots
  <1> HIDE DEF u, r, root
  <1>5. DOMAIN u = 1..k /\ \A i \in 1..k : u[i] = ws[i]
    BY <1>2
  <1>6. Roots(u) = [i \in 1..k |-> root(ws[i])]
    BY <1>4, <1>5
  <1>7. Prefix(r, k) = [i \in 1..k |-> r[i]]
    BY <1>1 DEF Prefix
  <1>8. \A i \in 1..k : r[i] = root(ws[i])
    BY <1>1, <1>3
  <1>9. Prefix(r, k) = [i \in 1..k |-> root(ws[i])]
    BY <1>7, <1>8
  <1> QED
    BY <1>6, <1>9 DEF u, r

(* Where the roots of a workspace begin is settled by those before it.     *)
LEMMA PlaceIs ==
    ASSUME NEW n, NEW ws, Workspaces(ws, n), NEW i \in DOMAIN ws
    PROVE  Place(ws, i) = Len(BaseRoots(SubSeq(ws, 1, i - 1)))
  <1>1. i - 1 \in 0..Len(ws)
    BY SeqIs DEF Workspaces
  <1>2. Roots(SubSeq(ws, 1, i - 1)) = Prefix(Roots(ws), i - 1)
    BY <1>1, RootsOfFirst
  <1> DEFINE u == SubSeq(ws, 1, i - 1)
  <1> HIDE DEF u
  <1>3. BaseRoots(u) = FlattenSeq(Roots(u))
    BY DEF BaseRoots, Roots
  <1> QED
    BY <1>2, <1>3 DEF Place, Before, u

LEMMA PlaceKept ==
    ASSUME NEW n, NEW ws, Workspaces(ws, n), NEW w, NEW m, Workspaces(Append(ws, w), m),
           NEW i \in DOMAIN ws
    PROVE  Place(Append(ws, w), i) = Place(ws, i)
  <1>1. ws \in Seq(Workspace(n)) /\ Len(ws) \in Nat /\ DOMAIN ws = 1..Len(ws)
    BY SeqIs DEF Workspaces
  <1> DEFINE u == Append(ws, w)
  <1>2. i \in DOMAIN u
    BY <1>1
  <1>3. SubSeq(u, 1, i - 1) = SubSeq(ws, 1, i - 1)
    <2>1. \A j \in 1..i - 1 : u[j] = ws[j]
      BY <1>1
    <2> HIDE DEF u
    <2> QED
      BY <1>1, <2>1
  <1> HIDE DEF u
  <1>4. Place(u, i) = Len(BaseRoots(SubSeq(u, 1, i - 1)))
    BY <1>2, PlaceIs DEF u
  <1>5. Place(ws, i) = Len(BaseRoots(SubSeq(ws, 1, i - 1)))
    BY PlaceIs
  <1> QED
    BY <1>3, <1>4, <1>5 DEF u

(* Copies of one session, with the paths and the roots of base files.      *)
LEMMA ReconeKeeps ==
    ASSUME Typed, NEW s \in Sessions, PathsThere(overlay[s], loaded, view[s]),
           NEW m, NEW ws, Workspaces(ws, m), DOMAIN ws = DOMAIN loaded, NEW d, NEW same
    PROVE  LET o == Recone(d, ws, s, same)
           IN  PathsThere(o, ws, view[s]) /\ RootsGiven(o, ws, view[s], d)
  <1> DEFINE kept == {x \in overlay[s].files : x.file \notin same /\
                                               BaseFileOf(ws, view[s], x.path) # {}}
             moved(x, b) == [x EXCEPT !.root = d.rootOf[b]]
             files == UNION {{moved(x, b) : b \in BaseFileOf(ws, view[s], x.path)} : x \in kept}
             o == [files |-> files, crates |-> Populate(d, ws, view[s], files)]
  <1>1. Recone(d, ws, s, same) = o
    BY Zenon DEF Recone
  <1>2. view[s] \in SUBSET DOMAIN ws
    BY DEF Typed
  <1>3. ASSUME NEW x \in overlay[s].files, NEW b
        PROVE  moved(x, b).path = x.path /\ moved(x, b).root = d.rootOf[b]
    <2>1. IsCopy(x, next)
      BY DEF Typed, Overlays, IsOverlay
    <2>2. [x EXCEPT !.root = d.rootOf[b]] = [path |-> x.path, file |-> x.file, root |-> d.rootOf[b]]
      BY <2>1 DEF IsCopy
    <2> QED
      BY <2>2
  <1>4. ASSUME NEW y \in files
        PROVE  \E x \in overlay[s].files : \E b \in BaseFileOf(ws, view[s], x.path) :
                  y = moved(x, b) /\ y.path = x.path /\ y.root = d.rootOf[b]
    <2>1. PICK x \in kept : \E b \in BaseFileOf(ws, view[s], x.path) : y = moved(x, b)
      OBVIOUS
    <2>2. PICK b \in BaseFileOf(ws, view[s], x.path) : y = moved(x, b)
      BY <2>1
    <2>3. x \in overlay[s].files
      OBVIOUS
    <2>4. y.path = x.path /\ y.root = d.rootOf[b]
      BY <1>3, <2>2, <2>3
    <2> HIDE DEF moved
    <2> QED
      BY <2>2, <2>3, <2>4
  <1>5. ASSUME NEW p, NEW b \in BaseFileOf(ws, view[s], p), NEW c \in BaseFileOf(ws, view[s], p)
        PROVE  b = c
    BY <1>2, BaseFileOfIs
  <1> HIDE DEF files, moved
  <1>6. ASSUME NEW y \in files, NEW z \in files, y.path = z.path
        PROVE  y = z
    <2>1. PICK x \in overlay[s].files : \E b \in BaseFileOf(ws, view[s], x.path) :
             y = moved(x, b) /\ y.path = x.path
      BY <1>4
    <2>2. PICK w \in overlay[s].files : \E c \in BaseFileOf(ws, view[s], w.path) :
             z = moved(w, c) /\ z.path = w.path
      BY <1>4
    <2>3. x = w
      BY <1>6, <2>1, <2>2 DEF PathsThere
    <2> QED
      BY <1>5, <2>1, <2>2, <2>3
  <1>7. ASSUME NEW y \in files
        PROVE  /\ BaseFileOf(ws, view[s], y.path) # {}
               /\ \A b \in BaseFileOf(ws, view[s], y.path) : y.root = d.rootOf[b]
    <2>1. PICK x \in overlay[s].files : \E b \in BaseFileOf(ws, view[s], x.path) :
             y.path = x.path /\ y.root = d.rootOf[b]
      BY <1>4
    <2> QED
      BY <1>5, <2>1
  <1>8. o.files = files
    OBVIOUS
  <1> HIDE DEF o
  <1>9. PathsThere(o, ws, view[s]) /\ RootsGiven(o, ws, view[s], d)
    BY <1>6, <1>7, <1>8 DEF PathsThere, RootsGiven
  <1> QED
    BY <1>1, <1>9

Synced(s, o) ==
    /\ Rebuilt(db, base, [overlay EXCEPT ![s] = o])
    /\ PathsThere(o, loaded, view[s])
    /\ RootsGiven(o, loaded, view[s], db)

LEMMA SyncKeeps ==
    ASSUME Typed, NEW s \in Sessions, PathsThere(overlay[s], loaded, view[s]),
           NEW ps \in SUBSET Editable(s), NEW allow, Sync(s, ps, allow)
    PROVE  \E o : Synced(s, o)
  <1> DEFINE added == SetToSeq(Added(s, ps))
             new == Allocate(Len(added))
             baseOf(p) == CHOOSE b \in BaseFileOf(loaded, view[s], p) : TRUE
             rootOf(p) == db.rootOf[baseOf(p)]
             moved(x) == [x EXCEPT !.root = rootOf(x.path)]
             copy(i) == [path |-> added[i], file |-> new[i], root |-> rootOf(added[i])]
             files == {moved(x) : x \in Kept(s, ps)} \cup {copy(i) : i \in DOMAIN added}
             attach == allow \/ overlay[s].crates # {}
             crates == IF attach THEN Populate(db, loaded, view[s], files) ELSE {}
             o == [files |-> files, crates |-> crates]
  <1>1. Rebuilt(db, base, [overlay EXCEPT ![s] = o])
    BY Zenon DEF Sync
  <1>2. /\ \A i \in DOMAIN added : added[i] \in Added(s, ps)
        /\ \A i, j \in DOMAIN added : added[i] = added[j] => i = j
    <2> DEFINE S == Added(s, ps)
    <2>1. IsFiniteSet(S)
      BY AddedFinite
    <2> HIDE DEF S
    <2>2. /\ SetToSeq(S) \in [1..Cardinality(S) -> S]
          /\ \A i, j \in 1..Cardinality(S) : SetToSeq(S)[i] = SetToSeq(S)[j] => i = j
      BY <2>1, SetInSequence
    <2>3. /\ \A i \in DOMAIN SetToSeq(S) : SetToSeq(S)[i] \in S
          /\ \A i, j \in DOMAIN SetToSeq(S) : SetToSeq(S)[i] = SetToSeq(S)[j] => i = j
      BY <2>2
    <2> QED
      BY <2>3 DEF S
  <1> HIDE DEF added, new
  <1>3. ASSUME NEW p, NEW b \in BaseFileOf(loaded, view[s], p)
        PROVE  rootOf(p) = db.rootOf[b]
    <2>1. baseOf(p) \in BaseFileOf(loaded, view[s], p)
      OBVIOUS
    <2>2. \A c, e \in BaseFileOf(loaded, view[s], p) : c = e
      <3>1. view[s] \in SUBSET DOMAIN loaded
        BY DEF Typed
      <3> QED
        BY <3>1, BaseFileOfIs DEF Typed
    <2> HIDE DEF baseOf
    <2>3. baseOf(p) = b
      BY <2>1, <2>2
    <2> QED
      BY <2>3
  <1> HIDE DEF rootOf, baseOf
  <1>4. ASSUME NEW x \in Kept(s, ps)
        PROVE  /\ x \in overlay[s].files
               /\ moved(x).path = x.path /\ moved(x).root = rootOf(x.path)
    <2>1. x \in overlay[s].files /\ IsCopy(x, next)
      BY DEF Kept, Typed, Overlays, IsOverlay
    <2>2. moved(x) = [path |-> x.path, file |-> x.file, root |-> rootOf(x.path)]
      BY <2>1 DEF IsCopy
    <2> HIDE DEF moved
    <2> QED
      BY <2>1, <2>2
  <1>5. ASSUME NEW i \in DOMAIN added
        PROVE  /\ copy(i).path = added[i] /\ copy(i).root = rootOf(added[i])
               /\ added[i] \in ps
               /\ \A x \in overlay[s].files : x.path # added[i]
    BY <1>2 DEF Added
  <1> HIDE DEF moved, copy
  <1>6. ASSUME NEW y \in files, NEW z \in files, y.path = z.path
        PROVE  y = z
    <2>1. CASE (\E x \in Kept(s, ps) : y = moved(x)) /\ (\E x \in Kept(s, ps) : z = moved(x))
      <3>1. PICK x \in Kept(s, ps) : y = moved(x)
        BY <2>1
      <3>2. PICK w \in Kept(s, ps) : z = moved(w)
        BY <2>1
      <3>3. x.path = w.path /\ x \in overlay[s].files /\ w \in overlay[s].files
        BY <1>4, <1>6, <3>1, <3>2
      <3> QED
        BY <3>1, <3>2, <3>3 DEF PathsThere
    <2>2. CASE (\E x \in Kept(s, ps) : y = moved(x)) /\ (\E i \in DOMAIN added : z = copy(i))
      BY <1>4, <1>5, <1>6, <2>2
    <2>3. CASE (\E i \in DOMAIN added : y = copy(i)) /\ (\E x \in Kept(s, ps) : z = moved(x))
      <3>1. PICK x \in Kept(s, ps) : z = moved(x)
        BY <2>3
      <3>2. PICK i \in DOMAIN added : y = copy(i)
        BY <2>3
      <3> QED
        BY <1>4, <1>5, <1>6, <3>1, <3>2
    <2>4. CASE (\E i \in DOMAIN added : y = copy(i)) /\ (\E i \in DOMAIN added : z = copy(i))
      <3>1. PICK i \in DOMAIN added : y = copy(i)
        BY <2>4
      <3>2. PICK j \in DOMAIN added : z = copy(j)
        BY <2>4
      <3> QED
        BY <1>2, <1>5, <1>6, <3>1, <3>2
    <2> QED
      BY <2>1, <2>2, <2>3, <2>4
  <1>7. ASSUME NEW y \in files
        PROVE  BaseFileOf(loaded, view[s], y.path) # {} /\ y.root = rootOf(y.path)
    <2>1. CASE \E x \in Kept(s, ps) : y = moved(x)
      BY <1>4, <2>1 DEF PathsThere
    <2>2. CASE \E i \in DOMAIN added : y = copy(i)
      <3>1. PICK i \in DOMAIN added : y = copy(i)
        BY <2>2
      <3>2. y.path = added[i] /\ y.root = rootOf(y.path) /\ y.path \in ps
        BY <1>5, <3>1
      <3>3. PICK j \in view[s] : loaded[j].key = y.path[1] /\ y.path[2] \in DOMAIN loaded[j].files
        BY <3>2 DEF Editable
      <3>4. loaded[j].files[y.path[2]] \in BaseFileOf(loaded, view[s], y.path)
        BY <3>3 DEF BaseFileOf
      <3> QED
        BY <3>2, <3>4
    <2> QED
      BY <2>1, <2>2
  <1>8. o.files = files
    OBVIOUS
  <1> HIDE DEF o, files
  <1>9. PathsThere(o, loaded, view[s])
    BY <1>6, <1>7, <1>8 DEF PathsThere
  <1>10. RootsGiven(o, loaded, view[s], db)
    BY <1>3, <1>7, <1>8 DEF RootsGiven
  <1> QED
    BY <1>1, <1>9, <1>10 DEF Synced

-----------------------------------------------------------------------------
(* Every step keeps the second invariant. *)

(* The crates a rebuild leaves in the graph.                               *)
LEMMA RebuildCrates ==
    ASSUME NEW d, IsDb(d), NEW b, NEW ovs
    PROVE  /\ b.crates \subseteq Rebuild(d, b, ovs).graph.crates
           /\ \A s \in Sessions : \A c \in ovs[s].crates :
                c[2] \in Rebuild(d, b, ovs).graph.crates
  <1> DEFINE g == OverlayGraph(d, b, ovs)
  <1>1. Rebuild(d, b, ovs).graph = g
    BY RebuildDb
  <1>2. g.crates = b.crates \cup {x[2][2] : x \in UNION {{s} \X ovs[s].crates : s \in Sessions}}
    BY DEF OverlayGraph
  <1> HIDE DEF g
  <1>3. ASSUME NEW s \in Sessions, NEW c \in ovs[s].crates
        PROVE  c[2] \in g.crates
    <2>1. <<s, c>> \in UNION {{q} \X ovs[q].crates : q \in Sessions}
      OBVIOUS
    <2>2. <<s, c>>[2][2] = c[2]
      OBVIOUS
    <2>3. c[2] \in {x[2][2] : x \in UNION {{q} \X ovs[q].crates : q \in Sessions}}
      BY <2>1, <2>2
    <2> QED
      BY <1>2, <2>3
  <1>4. b.crates \subseteq g.crates
    BY <1>2
  <1> QED
    BY <1>1, <1>3, <1>4

(* A step that ends with a rebuild.                                        *)
LEMMA RebuiltKeeps ==
    ASSUME IInv', NEW d, IsDb(d), NEW ovs, Rebuilt(d, base', ovs),
           ~d.stale => Placed(d, loaded', base'),
           AllThere(ovs, loaded', view'),
           ~d.stale => AllGiven(ovs, loaded', view', d)
    PROVE  LInv'
  <1>1. overlay' = ovs /\ db' = Rebuild(d, base', ovs) /\ ~late'
    BY DEF Rebuilt
  <1>2. /\ Workspaces(loaded', next') /\ 0..next' - 1 \subseteq FileIds
        /\ Overlays(ovs, next', BaseFiles(loaded'))
        /\ view' \in [Sessions -> SUBSET DOMAIN loaded']
    BY <1>1, IdsBelow DEF IInv, Typed
  <1>3. /\ base'.crates \subseteq db'.graph.crates
        /\ \A s \in Sessions : \A c \in overlay'[s].crates : c[2] \in db'.graph.crates
    BY <1>1, RebuildCrates
  <1>4. ASSUME ~db'.stale
        PROVE  /\ Placed(db', loaded', base')
               /\ AllGiven(overlay', loaded', view', db')
               /\ CopiesThere(db', overlay')
    <2>1. PICK n, ws, b, v : n = next' /\ ws = loaded' /\ b = base' /\ v = view'
      OBVIOUS
    <2>2. /\ Workspaces(ws, n) /\ 0..n - 1 \subseteq FileIds
          /\ ~d.stale => Placed(d, ws, b)
          /\ Overlays(ovs, n, BaseFiles(ws))
          /\ v \in [Sessions -> SUBSET DOMAIN ws]
          /\ AllThere(ovs, ws, v)
          /\ ~d.stale => AllGiven(ovs, ws, v, d)
          /\ ~Rebuild(d, b, ovs).stale
      BY <1>1, <1>2, <1>4, <2>1
    <2>3. LET e == Rebuild(d, b, ovs)
          IN  Placed(e, ws, b) /\ AllGiven(ovs, ws, v, e) /\ CopiesThere(e, ovs)
      BY <2>2, RebuildLinks
    <2> QED
      BY <1>1, <2>1, <2>3
  <1>5. AllThere(overlay', loaded', view')
    BY <1>1
  <1> QED
    BY <1>1, <1>3, <1>4, <1>5 DEF LInv

LEMMA LoadLinks ==
    ASSUME IInv, IInv', LInv, NEW k \in Keys, NEW n \in Sizes, Load(k, n)
    PROVE  LInv'
  <1> DEFINE w == [key |-> k, files |-> Allocate(n)]
             ws == Append(loaded, w)
             e == ApplyBase(db, ws)
  <1>1. /\ loaded' = ws /\ db' = e /\ base' = BaseInputs(e, ws, overlay)
        /\ late' = (late \/ \E s \in Sessions : overlay[s].files # {})
        /\ view' = view /\ overlay' = overlay
    BY DEF Load
  <1>2. /\ Workspaces(loaded, next) /\ 0..next - 1 \subseteq FileIds
        /\ view \in [Sessions -> SUBSET DOMAIN loaded] /\ IsDb(db)
    BY IdsBelow DEF IInv, Typed
  <1>3. Workspaces(ws, next') /\ 0..next' - 1 \subseteq FileIds
    BY <1>1, IdsBelow DEF IInv, Typed
  <1>4. ws # <<>> /\ DOMAIN loaded \subseteq DOMAIN ws
    <2>1. loaded \in Seq(Workspace(next))
      BY <1>2 DEF Workspaces
    <2> HIDE DEF w
    <2> QED
      BY <2>1
  <1>5. /\ \A s \in Sessions : \A p : BaseFileOf(ws, view[s], p) = BaseFileOf(loaded, view[s], p)
    <2> SUFFICES ASSUME NEW s \in Sessions, NEW p
                 PROVE  BaseFileOf(ws, view[s], p) = BaseFileOf(loaded, view[s], p)
      OBVIOUS
    <2>1. PICK v \in SUBSET DOMAIN loaded : v = view[s]
      BY <1>2
    <2> HIDE DEF w
    <2>2. BaseFileOf(ws, v, p) = BaseFileOf(loaded, v, p)
      BY <1>2, BaseFileOfKept
    <2> QED
      BY <2>1, <2>2
  <1>6. \A i \in DOMAIN loaded : Place(ws, i) = Place(loaded, i) /\ ws[i] = loaded[i]
    <2> HIDE DEF w
    <2> TAKE i \in DOMAIN loaded
    <2>1. Place(ws, i) = Place(loaded, i)
      BY <1>2, <1>3, PlaceKept
    <2>2. ws[i] = loaded[i]
      BY <1>2 DEF Workspaces
    <2> QED
      BY <2>1, <2>2
  <1> HIDE DEF w, ws
  <1>7. AllThere(overlay', loaded', view')
    BY <1>1, <1>5 DEF LInv, AllThere, PathsThere
  <1>8. base'.crates \subseteq db'.graph.crates
    BY <1>1, BaseInputsAre
  <1>9. ~late' => \A s \in Sessions : overlay[s].files = {} /\ overlay[s].crates = {}
    <2> SUFFICES ASSUME ~late', NEW s \in Sessions
                 PROVE  overlay[s].files = {} /\ overlay[s].crates = {}
      OBVIOUS
    <2>1. overlay[s].files = {}
      BY <1>1
    <2>2. \A c \in overlay[s].crates : c[2] \in Files(overlay[s])
      BY DEF IInv, Typed, Overlays, IsOverlay
    <2> QED
      BY <2>1, <2>2 DEF Files
  <1>10. ASSUME ~db'.stale
         PROVE  Placed(db', loaded', base') /\ AllGiven(overlay', loaded', view', db')
    <2>1. ~e.stale
      BY <1>1, <1>10
    <2> HIDE DEF e
    <2>2. ~db.stale => RootsOk(db)
      BY DEF LInv, Placed
    <2>3. ~db.stale /\ Placed(e, ws, BaseInputs(e, ws, overlay))
      BY <1>3, <1>4, <2>1, <2>2, ApplyBaseLinks DEF e
    <2>4. /\ RootsOk(e) /\ StartsWith(e, BaseRoots(ws))
          /\ RootsOk(db) /\ StartsWith(db, BaseRoots(loaded))
      BY <2>3 DEF Placed, LInv
    <2>5. ASSUME NEW s \in Sessions, NEW x \in overlay[s].files,
                 NEW c \in BaseFileOf(ws, view[s], x.path)
          PROVE  x.root = e.rootOf[c]
      <3>1. c \in BaseFileOf(loaded, view[s], x.path)
        BY <1>5
      <3>2. x.root = db.rootOf[c]
        BY <2>3, <3>1 DEF LInv, AllGiven, RootsGiven
      <3>3. PICK i \in DOMAIN loaded : /\ x.path[2] \in DOMAIN loaded[i].files
                                       /\ c = loaded[i].files[x.path[2]]
        BY <1>2, <3>1 DEF BaseFileOf
      <3>4. db.rootOf[c] = Place(loaded, i) + x.path[2]
        BY <1>2, <2>4, <3>3, BaseLinks
      <3>5. i \in DOMAIN ws /\ x.path[2] \in DOMAIN ws[i].files /\ c = ws[i].files[x.path[2]]
        BY <1>4, <1>6, <3>3
      <3>6. e.rootOf[c] = Place(ws, i) + x.path[2]
        BY <1>3, <2>4, <3>5, BaseLinks
      <3> QED
        BY <1>6, <3>2, <3>4, <3>6
    <2>6. AllGiven(overlay, ws, view, e)
      BY <2>5 DEF AllGiven, RootsGiven
    <2> QED
      BY <1>1, <2>3, <2>6
  <1>11. ~late' => CopiesThere(db', overlay')
    BY <1>1, <1>9 DEF CopiesThere
  <1>12. ~late' => \A s \in Sessions : \A c \in overlay'[s].crates : c[2] \in db'.graph.crates
    BY <1>1, <1>9
  <1> QED
    BY <1>7, <1>8, <1>10, <1>11, <1>12 DEF LInv

LEMMA ReloadLinks ==
    ASSUME IInv, IInv', LInv, NEW k \in Keys, NEW n \in Sizes, NEW same, Reload(k, n, same)
    PROVE  LInv'
  <1> DEFINE ws == loaded'
             d == ApplyBase(db, ws)
             b == BaseInputs(d, ws, overlay)
             ovs == [s \in Sessions |-> Recone(d, ws, s, same)]
  <1>1. base' = b /\ Rebuilt(d, b, ovs) /\ view' = view
    BY Zenon DEF Reload
  <1>2. Workspaces(ws, next') /\ 0..next' - 1 \subseteq FileIds
    BY IdsBelow DEF IInv, Typed
  <1>3. DOMAIN ws = DOMAIN loaded /\ ws # <<>>
    <2>1. PICK i \in IndexOf(k) : loaded' = [loaded EXCEPT ![i].files = Allocate(n)]
      BY DEF Reload
    <2>2. i \in DOMAIN loaded
      BY DEF IndexOf
    <2>3. DOMAIN loaded' = DOMAIN loaded
      BY <2>1
    <2> QED
      BY <2>2, <2>3
  <1>4. ASSUME NEW s \in Sessions
        PROVE  PathsThere(ovs[s], ws, view[s]) /\ RootsGiven(ovs[s], ws, view[s], d)
    <2>1. ovs[s] = Recone(d, ws, s, same)
      OBVIOUS
    <2>2. Typed /\ PathsThere(overlay[s], loaded, view[s])
      BY DEF IInv, LInv, AllThere
    <2> HIDE DEF ovs, d
    <2>3. PICK u : u = ws
      OBVIOUS
    <2>4. Workspaces(u, next') /\ DOMAIN u = DOMAIN loaded
      BY <1>2, <1>3, <2>3
    <2> HIDE DEF ws
    <2>5. LET o == Recone(d, u, s, same)
          IN  PathsThere(o, u, view[s]) /\ RootsGiven(o, u, view[s], d)
      BY <2>2, <2>4, ReconeKeeps
    <2> QED
      BY <2>1, <2>3, <2>5
  <1> HIDE DEF ovs
  <1>5. ~d.stale => Placed(d, ws, b)
    <2> SUFFICES ASSUME ~d.stale PROVE Placed(d, ws, b)
      OBVIOUS
    <2>1. ~db.stale => RootsOk(db)
      BY DEF LInv, Placed
    <2>2. PICK u, o : u = ws /\ o = overlay
      OBVIOUS
    <2> HIDE DEF ws
    <2>3. LET e == ApplyBase(db, u) IN Placed(e, u, BaseInputs(e, u, o))
      BY <1>2, <1>3, <2>1, <2>2, ApplyBaseLinks
    <2> QED
      BY <2>2, <2>3
  <1>6. IsDb(d)
    BY ApplyBaseDb DEF IInv, Typed
  <1> HIDE DEF d, b, ws
  <1>7. AllThere(ovs, ws, view') /\ AllGiven(ovs, ws, view', d)
    BY <1>1, <1>4 DEF AllThere, AllGiven
  <1> QED
    BY <1>1, <1>5, <1>6, <1>7, RebuiltKeeps DEF ws

LEMMA RegisterLinks ==
    ASSUME IInv, LInv, NEW s \in Sessions, NEW v \in (SUBSET DOMAIN loaded) \ {{}}, Register(s, v)
    PROVE  LInv'
  <1>1. /\ view[s] = {} /\ view' = [view EXCEPT ![s] = v]
        /\ UNCHANGED <<next, loaded, overlay, base, db, late>>
    BY DEF Register
  <1>2. overlay[s].files = {}
    <2>1. \A p : BaseFileOf(loaded, {}, p) = {}
      BY DEF BaseFileOf
    <2> QED
      BY <1>1, <2>1 DEF LInv, AllThere, PathsThere
  <1>3. \A q \in Sessions : q # s => view'[q] = view[q]
    BY <1>1 DEF IInv, Typed
  <1>4. AllThere(overlay, loaded, view')
    BY <1>2, <1>3 DEF LInv, AllThere, PathsThere
  <1>5. ~db.stale => AllGiven(overlay, loaded, view', db)
    BY <1>2, <1>3 DEF LInv, AllGiven, RootsGiven
  <1> QED
    BY <1>1, <1>4, <1>5 DEF LInv

(* The overlay of one session is gone.                                     *)
LEMMA DroppedOne ==
    ASSUME IInv, LInv, NEW s \in Sessions, NEW v, \A q \in Sessions : q # s => v[q] = view[q]
    PROVE  LET ovs == [overlay EXCEPT ![s] = NoOverlay]
           IN  /\ AllThere(ovs, loaded, v)
               /\ ~db.stale => AllGiven(ovs, loaded, v, db)
               /\ \A q \in Sessions : \/ ovs[q] = overlay[q]
                                      \/ ovs[q].files = {} /\ ovs[q].crates = {}
  <1> DEFINE ovs == [overlay EXCEPT ![s] = NoOverlay]
  <1>1. \A q \in Sessions : \/ q # s /\ ovs[q] = overlay[q]
                            \/ ovs[q].files = {} /\ ovs[q].crates = {}
    BY DEF IInv, Typed, Overlays, NoOverlay
  <1> HIDE DEF ovs
  <1>2. AllThere(ovs, loaded, v)
    BY <1>1 DEF LInv, AllThere, PathsThere
  <1>3. ~db.stale => AllGiven(ovs, loaded, v, db)
    BY <1>1 DEF LInv, AllGiven, RootsGiven
  <1> QED
    BY <1>1, <1>2, <1>3 DEF ovs

LEMMA UnregisterLinks ==
    ASSUME IInv, IInv', LInv, NEW s \in Sessions, Unregister(s)
    PROVE  LInv'
  <1> DEFINE ovs == [overlay EXCEPT ![s] = NoOverlay]
  <1>1. /\ view' = [view EXCEPT ![s] = {}] /\ loaded' = loaded /\ base' = base
    BY DEF Unregister
  <1>2. \A q \in Sessions : q # s => view'[q] = view[q]
    BY <1>1 DEF IInv, Typed
  <1>3. CASE overlay[s].files = {}
    <2>1. UNCHANGED <<overlay, db, late>>
      BY <1>3 DEF Unregister
    <2>2. AllThere(overlay, loaded, view')
      BY <1>2, <1>3 DEF LInv, AllThere, PathsThere
    <2>3. ~db.stale => AllGiven(overlay, loaded, view', db)
      BY <1>2, <1>3 DEF LInv, AllGiven, RootsGiven
    <2> QED
      BY <1>1, <2>1, <2>2, <2>3 DEF LInv
  <1>4. CASE overlay[s].files # {}
    <2>1. Rebuilt(db, base, ovs)
      BY <1>4 DEF Unregister
    <2>2. AllThere(ovs, loaded, view') /\ (~db.stale => AllGiven(ovs, loaded, view', db))
      BY <1>2, DroppedOne
    <2>3. IsDb(db) /\ (~db.stale => Placed(db, loaded, base))
      BY DEF IInv, Typed, LInv
    <2> HIDE DEF ovs
    <2> QED
      BY <1>1, <2>1, <2>2, <2>3, RebuiltKeeps
  <1> QED
    BY <1>3, <1>4

LEMMA SyncLinks ==
    ASSUME IInv, IInv', LInv, NEW s \in Sessions, NEW ps \in SUBSET Editable(s), NEW allow,
           Sync(s, ps, allow)
    PROVE  LInv'
  <1>1. PathsThere(overlay[s], loaded, view[s])
    BY DEF LInv, AllThere
  <1>2. PICK o : Synced(s, o)
    BY <1>1, SyncKeeps DEF IInv
  <1> DEFINE ovs == [overlay EXCEPT ![s] = o]
  <1>3. Rebuilt(db, base, ovs)
    BY <1>2 DEF Synced
  <1>4. loaded' = loaded /\ view' = view /\ base' = base
    BY DEF Sync
  <1>5. \A q \in Sessions : ovs[q] = IF q = s THEN o ELSE overlay[q]
    BY DEF IInv, Typed, Overlays
  <1> HIDE DEF ovs
  <1>6. AllThere(ovs, loaded, view')
    BY <1>2, <1>4, <1>5 DEF LInv, AllThere, Synced
  <1>7. ~db.stale => AllGiven(ovs, loaded, view', db)
    BY <1>2, <1>4, <1>5 DEF LInv, AllGiven, Synced
  <1>8. IsDb(db) /\ (~db.stale => Placed(db, loaded, base))
    BY DEF IInv, Typed, LInv
  <1> QED
    BY <1>3, <1>4, <1>6, <1>7, <1>8, RebuiltKeeps

LEMMA SyncFailsLinks ==
    ASSUME IInv, LInv, NEW s \in Sessions, NEW ps, NEW allow, SyncFails(s, ps, allow)
    PROVE  LInv'
  <1> DEFINE ovs == [overlay EXCEPT ![s] = NoOverlay]
  <1>1. overlay' = ovs /\ UNCHANGED <<loaded, view, base, db, late>>
    BY DEF SyncFails
  <1>2. /\ AllThere(ovs, loaded, view)
        /\ ~db.stale => AllGiven(ovs, loaded, view, db)
        /\ \A q \in Sessions : ovs[q] = overlay[q] \/ (ovs[q].files = {} /\ ovs[q].crates = {})
    BY DroppedOne
  <1> HIDE DEF ovs
  <1>3. CopiesThere(db, overlay) => CopiesThere(db, ovs)
    BY <1>2 DEF CopiesThere
  <1>4. \A q \in Sessions : \A c \in ovs[q].crates : c \in overlay[q].crates
    BY <1>2
  <1> QED
    BY <1>1, <1>2, <1>3, <1>4 DEF LInv

LEMMA InitLinks == Init => LInv
  <1> SUFFICES ASSUME Init PROVE LInv
    OBVIOUS
  <1>1. \A s \in Sessions : overlay[s].files = {} /\ overlay[s].crates = {}
    BY DEF Init, NoOverlay
  <1>2. AllThere(overlay, loaded, view) /\ AllGiven(overlay, loaded, view, db) /\ CopiesThere(db, overlay)
    BY <1>1 DEF AllThere, AllGiven, CopiesThere, PathsThere, RootsGiven
  <1>3. BaseRoots(loaded) = <<>>
    <2>1. [i \in DOMAIN loaded |-> [n \in DOMAIN loaded[i].files |-> {loaded[i].files[n]}]] = <<>>
      BY DEF Init
    <2> QED
      BY <2>1, FlattenEmpty DEF BaseRoots
  <1>4. RootsOk(db)
    BY DEF Init, RootsOk, Singletons, NoRoot
  <1>5. Placed(db, loaded, base)
    BY <1>3, <1>4 DEF Placed, StartsWith, Init, NoRoot
  <1>6. base.crates = {}
    BY DEF Init
  <1> QED
    BY <1>1, <1>2, <1>5, <1>6 DEF LInv

LEMMA NextLinks == IInv /\ IInv' /\ LInv /\ [Next]_vars => LInv'
  <1> SUFFICES ASSUME IInv, IInv', LInv, [Next]_vars PROVE LInv'
    OBVIOUS
  <1>1. CASE UNCHANGED vars
    BY <1>1 DEF vars, LInv
  <1>2. CASE \E k \in Keys, n \in Sizes : Load(k, n)
    BY <1>2, LoadLinks
  <1>3. CASE \E k \in Keys, n \in Sizes :
                \E same \in SUBSET UNION {Files(overlay[s]) : s \in Sessions} : Reload(k, n, same)
    BY <1>3, ReloadLinks
  <1>4. CASE \E n \in Sizes : LoadFails(n)
    BY <1>4 DEF LoadFails, LInv
  <1>5. CASE \E s \in Sessions : \E v \in (SUBSET DOMAIN loaded) \ {{}} : Register(s, v)
    BY <1>5, RegisterLinks
  <1>6. CASE \E s \in Sessions : Unregister(s)
    BY <1>6, UnregisterLinks
  <1>7. CASE \E s \in Sessions : \E ps \in SUBSET Editable(s), allow \in BOOLEAN :
                Sync(s, ps, allow) \/ SyncFails(s, ps, allow)
    BY <1>7, SyncLinks, SyncFailsLinks
  <1> QED
    BY <1>1, <1>2, <1>3, <1>4, <1>5, <1>6, <1>7 DEF Next

THEOREM LinksInvariance == Spec => []LInv
  <1>1. Init => IInv /\ LInv
    BY InitHolds, InitLinks
  <1>2. (IInv /\ LInv) /\ [Next]_vars => (IInv /\ LInv)'
    BY NextKeeps, NextLinks
  <1> QED
    BY <1>1, <1>2, PTL DEF Spec

-----------------------------------------------------------------------------
(* What follows from the two. *)

(* A file is in the root the database gives for it, alone.                 *)
AloneInRoot(f) == InItsRoot(db, f) /\ db.roots[db.rootOf[f]] = {f}

LEMMA CopyAlone ==
    ASSUME IInv, LInv, ~db.stale, ~late, NEW s \in Sessions, NEW f \in Files(overlay[s])
    PROVE  AloneInRoot(f)
  <1>1. PICK x \in overlay[s].files : f = x.file
    BY DEF Files
  <1>2. PICK i \in 1..db.length : db.roots[i] = {f}
    BY <1>1 DEF LInv, CopiesThere
  <1>3. RootsOk(db)
    BY DEF LInv, Placed
  <1>4. db.rootOf[f] = i
    BY <1>2, <1>3 DEF RootsOk
  <1>5. i \in DOMAIN db.roots
    <2>1. Len(db.roots) \in Nat /\ DOMAIN db.roots = 1..Len(db.roots)
      BY <1>3, SeqIs DEF RootsOk, Singletons
    <2> QED
      BY <1>3, <2>1 DEF RootsOk
  <1> QED
    BY <1>2, <1>4, <1>5 DEF AloneInRoot, InItsRoot

(* A base file is in its workspace's root.                                 *)
LEMMA BaseAlone ==
    ASSUME IInv, LInv, ~db.stale, NEW i \in DOMAIN loaded, NEW m \in DOMAIN loaded[i].files
    PROVE  /\ AloneInRoot(loaded[i].files[m])
           /\ db.rootOf[loaded[i].files[m]] \in Offset(i) + 1..Offset(i) + Len(loaded[i].files)
  <1>1. /\ Workspaces(loaded, next) /\ 0..next - 1 \subseteq FileIds
        /\ RootsOk(db) /\ StartsWith(db, BaseRoots(loaded))
    BY IdsBelow DEF IInv, Typed, LInv, Placed
  <1>2. /\ db.rootOf[loaded[i].files[m]] = Place(loaded, i) + m
        /\ Place(loaded, i) + m \in 1..Len(BaseRoots(loaded))
        /\ Place(loaded, i) + m \in DOMAIN db.roots
        /\ db.roots[Place(loaded, i) + m] = {loaded[i].files[m]}
    BY <1>1, BaseLinks
  <1>3. Place(loaded, i) = Offset(i)
    BY <1>1, PlaceIs DEF Offset
  <1>4. m \in 1..Len(loaded[i].files) /\ Len(loaded[i].files) \in Nat
    <2>1. loaded[i] \in Workspace(next)
      BY <1>1, SeqIs DEF Workspaces
    <2> QED
      BY <2>1, SeqIs DEF Workspace
  <1>5. Offset(i) \in Nat
    <2> DEFINE u == SubSeq(Roots(loaded), 1, i - 1)
    <2>1. u \in Seq(Seq(SUBSET FileIds))
      <3>1. Roots(loaded) \in Seq(Seq(SUBSET FileIds)) /\ i \in 1..Len(Roots(loaded))
        BY <1>1, RootsType, SeqIs
      <3> QED
        BY <3>1, SubSeqProperties
    <2> HIDE DEF u
    <2>2. FlattenSeq(u) \in Seq(SUBSET FileIds)
      BY <2>1, FlattenType
    <2>3. Len(FlattenSeq(u)) \in Nat
      BY <2>2, SeqIs
    <2> QED
      BY <1>3, <2>3 DEF u, Place, Before, Prefix
  <1>6. AloneInRoot(loaded[i].files[m])
    BY <1>2 DEF AloneInRoot, InItsRoot
  <1>7. Offset(i) + m \in Offset(i) + 1..Offset(i) + Len(loaded[i].files)
    BY <1>4, <1>5
  <1> QED
    BY <1>2, <1>3, <1>6, <1>7

(* The base file of a path.                                                *)
LEMMA BaseFileAlone ==
    ASSUME IInv, LInv, ~db.stale, NEW s \in Sessions, NEW p,
           NEW f \in BaseFileOf(loaded, view[s], p)
    PROVE  /\ AloneInRoot(f)
           /\ \E i \in view[s] : loaded[i].key = p[1] /\
                  db.rootOf[f] \in Offset(i) + 1..Offset(i) + Len(loaded[i].files)
  <1>1. PICK i \in view[s] : loaded[i].key = p[1] /\ p[2] \in DOMAIN loaded[i].files
                             /\ f = loaded[i].files[p[2]]
    BY DEF BaseFileOf
  <1>2. i \in DOMAIN loaded
    BY DEF IInv, Typed
  <1> QED
    BY <1>1, <1>2, BaseAlone

THEOREM LinkedApartCorrect == Spec => []LinkedApart
  <1> DEFINE RootsIn(s, p) == UNION {Offset(i) + 1..Offset(i) + Len(loaded[i].files)
                                     : i \in {j \in view[s] : loaded[j].key = p[1]}}
             Built(s) == FileIds \ (IF late THEN Files(overlay[s]) ELSE {})
  <1>1. ASSUME IInv, LInv, ~db.stale, NEW s \in Sessions
        PROVE  Visible(s) \cap Built(s) \subseteq db.graph.crates
    <2> SUFFICES ASSUME NEW c \in Visible(s) \cap Built(s) PROVE c \in db.graph.crates
      OBVIOUS
    <2>1. CASE c \in base.crates
      BY <1>1, <2>1 DEF LInv
    <2>2. CASE \E x \in overlay[s].crates : c = x[2]
      <3>1. PICK x \in overlay[s].crates : c = x[2]
        BY <2>2
      <3>2. c \in Files(overlay[s])
        BY <1>1, <3>1 DEF IInv, Typed, Overlays, IsOverlay
      <3> QED
        BY <1>1, <3>1, <3>2 DEF LInv
    <2> QED
      BY <2>1, <2>2 DEF Visible
  <1>2. ASSUME IInv, LInv, ~db.stale, NEW s \in Sessions, NEW p \in Paths
        PROVE  \A f \in FileAt(s, p) \cap Built(s) : InItsRoot(db, f)
    <2> SUFFICES ASSUME NEW f \in FileAt(s, p), f \in Built(s) PROVE InItsRoot(db, f)
      OBVIOUS
    <2>1. f \in Files(overlay[s]) \/ f \in BaseFileOf(loaded, view[s], p)
      BY DEF FileAt, Files
    <2>2. CASE f \in Files(overlay[s])
      BY <1>2, <2>2, CopyAlone DEF AloneInRoot
    <2>3. CASE f \in BaseFileOf(loaded, view[s], p)
      BY <1>2, <2>3, BaseFileAlone DEF AloneInRoot
    <2> QED
      BY <2>1, <2>2, <2>3
  <1>3. ASSUME IInv, LInv, ~db.stale, NEW s \in Sessions, NEW p \in Paths
        PROVE  SettingsRoots(s, p) \subseteq SourceRootForPath(s, p)
    <2> SUFFICES ASSUME NEW x \in overlay[s].files, x.path = p
                 PROVE  x.root \in SourceRootForPath(s, p)
      BY DEF SettingsRoots
    <2>1. PICK b : b \in BaseFileOf(loaded, view[s], p)
      BY <1>3 DEF LInv, AllThere, PathsThere
    <2>2. x.root = db.rootOf[b]
      BY <1>3, <2>1 DEF LInv, AllGiven, RootsGiven
    <2> QED
      BY <2>1, <2>2 DEF SourceRootForPath
  <1>4. ASSUME IInv, LInv, ~db.stale, NEW s \in Sessions, NEW p \in Paths
        PROVE  SourceRootForPath(s, p) \subseteq RootsIn(s, p)
    <2> DEFINE near == {i \in view[s] : loaded[i].key = p[1]}
               file == BaseFileOf(loaded, view[s], p)
    <2> SUFFICES ASSUME NEW f \in (IF file # {} THEN file ELSE {Head(loaded[i].files) : i \in near})
                 PROVE  \E i \in near :
                          db.rootOf[f] \in Offset(i) + 1..Offset(i) + Len(loaded[i].files)
      BY DEF SourceRootForPath
    <2>1. CASE f \in file
      <3>1. PICK i \in view[s] : /\ loaded[i].key = p[1]
                                 /\ db.rootOf[f] \in Offset(i) + 1..Offset(i) + Len(loaded[i].files)
        BY <1>4, <2>1, BaseFileAlone
      <3> QED
        BY <3>1
    <2>2. CASE f \in {Head(loaded[i].files) : i \in near}
      <3>1. PICK i \in near : f = Head(loaded[i].files)
        BY <2>2
      <3>2. i \in DOMAIN loaded
        BY <1>4 DEF IInv, Typed
      <3>3. loaded[i].files \in Seq(0..next - 1) /\ Len(loaded[i].files) \in {1, 2}
        <4>1. loaded[i] \in Workspace(next)
          BY <1>4, <3>2, SeqIs DEF IInv, Typed, Workspaces
        <4> QED
          BY <1>4, <3>2, <4>1 DEF Workspace, IInv, Typed, Workspaces, Sizes
      <3>4. 1 \in DOMAIN loaded[i].files /\ f = loaded[i].files[1]
        BY <3>1, <3>3
      <3> QED
        BY <1>4, <3>2, <3>4, BaseAlone
    <2> QED
      BY <2>1, <2>2
  <1> HIDE DEF RootsIn, Built
  <1>5. IInv /\ LInv => LinkedApart
    BY <1>1, <1>2, <1>3, <1>4 DEF LinkedApart, RootsIn, Built
  <1> QED
    BY <1>5, Invariance, LinksInvariance, PTL

THEOREM SearchInViewCorrect == Spec => []SearchInView
  <1> DEFINE InView(s) == Files(overlay[s]) \cup UNION {BaseFileOf(loaded, view[s], p) : p \in Paths}
  <1>1. ASSUME IInv, LInv, ~late, ~db.stale, NEW s \in Sessions, NEW d \in Visible(s)
        PROVE  db.roots[db.rootOf[d]] \subseteq InView(s)
    <2>1. CASE \E x \in overlay[s].crates : d = x[2]
      <3>1. d \in Files(overlay[s])
        BY <1>1, <2>1 DEF IInv, Typed, Overlays, IsOverlay
      <3> QED
        BY <1>1, <3>1, CopyAlone DEF AloneInRoot
    <2>2. CASE d \in UNION {ToSet(loaded[i].files) : i \in view[s]}
      <3>1. PICK i \in view[s] : d \in ToSet(loaded[i].files)
        BY <2>2
      <3>2. i \in DOMAIN loaded
        BY <1>1 DEF IInv, Typed
      <3>3. PICK m \in DOMAIN loaded[i].files : d = loaded[i].files[m]
        BY <3>1 DEF ToSet
      <3>4. loaded[i] \in Workspace(next) /\ Len(loaded[i].files) \in {1, 2}
        BY <1>1, <3>2, SeqIs DEF IInv, Typed, Workspaces, Sizes
      <3>5. m \in {1, 2} /\ loaded[i].key \in Keys
        BY <3>3, <3>4, SeqIs DEF Workspace
      <3> DEFINE p == <<loaded[i].key, m>>
      <3>6. p \in Paths /\ p[1] = loaded[i].key /\ p[2] = m
        BY <3>5 DEF Paths, Sizes
      <3> HIDE DEF p
      <3>7. d \in BaseFileOf(loaded, view[s], p)
        BY <3>3, <3>6 DEF BaseFileOf
      <3>8. d \in InView(s)
        BY <3>6, <3>7
      <3>9. db.roots[db.rootOf[d]] = {d}
        BY <1>1, <3>2, <3>3, BaseAlone DEF AloneInRoot
      <3> QED
        BY <3>8, <3>9
    <2> QED
      BY <2>1, <2>2 DEF Visible
  <1> HIDE DEF InView
  <1>2. ASSUME IInv, LInv, ~late, ~db.stale, NEW s \in Sessions, NEW c \in Visible(s)
        PROVE  SearchScope(s, c) \subseteq InView(s)
    BY <1>1, <1>2 DEF SearchScope, VisibleOf
  <1>3. IInv /\ LInv => SearchInView
    BY <1>2 DEF SearchInView, InView
  <1> QED
    BY <1>3, Invariance, LinksInvariance, PTL
=============================================================================
