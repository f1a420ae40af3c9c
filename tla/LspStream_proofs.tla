-------------------------- MODULE LspStream_proofs --------------------------
(***************************************************************************)
(* Proofs about LspStream: its types, that nothing is lost between the     *)
(* client and the session, and the exit code, for any number of fragments. *)
(***************************************************************************)
EXTENDS LspStream, SequenceTheorems, WellFoundedInduction, TLAPS

-----------------------------------------------------------------------------
(* Sequences. *)

(* Induction: a set of numbers that is not empty has a least one.          *)
LEMMA LeastNumber ==
    ASSUME NEW S, S \subseteq Nat, S # {}
    PROVE  \E n \in S : \A m \in S : n <= m
  <1> DEFINE R == OpToRel(<, Nat)
  <1>1. IsWellFoundedOn(R, Nat)
    BY NatLessThanWellFounded
  <1>2. \A m, n \in S : <<m, n>> \in R <=> m < n
    BY DEF OpToRel
  <1> HIDE DEF R
  <1>3. PICK n \in S : \A m \in S : <<m, n>> \notin R
    BY <1>1, WFMin
  <1>4. \A m \in S : ~(m < n)
    BY <1>2, <1>3
  <1>5. \A m \in S : n <= m
    <2> SUFFICES ASSUME NEW m \in S PROVE n <= m
      OBVIOUS
    <2>1. n \in Nat /\ m \in Nat /\ ~(m < n)
      BY <1>4
    <2> QED
      BY <2>1
  <1> QED
    BY <1>5

(* What FlattenSeq computes, step by step.                                 *)
Flattens(s, f) ==
    f = [i \in 1..Len(s) |-> IF i = 1 THEN s[i] ELSE f[i - 1] \o s[i]]

(* An entry of that function, from the one before it.                      *)
LEMMA FlattensAt ==
    ASSUME NEW s, NEW f, Flattens(s, f), NEW i \in 1..Len(s)
    PROVE  f[i] = IF i = 1 THEN s[i] ELSE f[i - 1] \o s[i]
  BY Zenon DEF Flattens

(* There is such a function for every sequence of sequences: else there    *)
(* would be a shortest sequence without one, and the function of the       *)
(* sequence less its last element can be extended.                         *)
LEMMA FlattenExists ==
    ASSUME NEW S, NEW s \in Seq(Seq(S))
    PROVE  \E f : Flattens(s, f) /\ \A i \in 1..Len(s) : f[i] \in Seq(S)
  <1> DEFINE Good(t) == \E f : Flattens(t, f) /\ \A i \in 1..Len(t) : f[i] \in Seq(S)
             Bad == {Len(t) : t \in {u \in Seq(Seq(S)) : ~Good(u)}}
  <1>1. ASSUME Bad # {} PROVE FALSE
    <2>1. PICK n \in Bad : \A m \in Bad : n <= m
      <3>1. Bad \subseteq Nat
        OBVIOUS
      <3> QED
        BY <1>1, <3>1, LeastNumber
    <2>2. PICK t \in Seq(Seq(S)) : n = Len(t) /\ ~Good(t)
      OBVIOUS
    <2>3. t # <<>>
      <3> SUFFICES ASSUME t = <<>> PROVE Good(t)
        BY <2>2
      <3>1. Flattens(t, [i \in 1..0 |-> <<>>])
        BY DEF Flattens
      <3> QED
        BY <3>1
    <2>4. PICK u \in Seq(Seq(S)), e \in Seq(S) : t = Append(u, e)
      BY <2>3, SequenceEmptyOrAppend
    <2>5. Len(t) = Len(u) + 1 /\ Len(u) \in Nat /\ \A i \in 1..Len(u) : t[i] = u[i]
      BY <2>4
    <2>6. t[Len(t)] = e
      BY <2>4
    <2>7. Good(u)
      <3>1. ASSUME Len(u) \in Bad PROVE FALSE
        <4>1. n <= Len(u)
          BY <2>1, <3>1
        <4> QED
          BY <4>1, <2>2, <2>5
      <3> QED
        BY <3>1
    <2>8. PICK g : Flattens(u, g) /\ \A i \in 1..Len(u) : g[i] \in Seq(S)
      BY <2>7
    <2> DEFINE f == [i \in 1..Len(t) |-> IF i < Len(t) THEN g[i]
                                        ELSE IF i = 1 THEN t[i] ELSE g[i - 1] \o t[i]]
    <2>9. \A i \in 1..Len(t) : f[i] \in Seq(S)
      <3> SUFFICES ASSUME NEW i \in 1..Len(t) PROVE f[i] \in Seq(S)
        OBVIOUS
      <3>1. CASE i < Len(t)
        BY <2>5, <2>8
      <3>2. CASE i = Len(t)
        <4>1. i # 1 => i - 1 \in 1..Len(u)
          BY <2>5
        <4>2. i # 1 => g[i - 1] \o t[i] \in Seq(S)
          BY <4>1, <2>8, ConcatProperties
        <4> QED
          BY <3>2, <4>2
      <3> QED
        BY <3>1, <3>2
    <2>10. Flattens(t, f)
      <3>1. ASSUME NEW i \in 1..Len(t)
            PROVE  f[i] = IF i = 1 THEN t[i] ELSE f[i - 1] \o t[i]
        <4>1. CASE i < Len(t)
          <5>1. i \in 1..Len(u) /\ f[i] = g[i]
            BY <4>1, <2>5
          <5>2. g[i] = IF i = 1 THEN u[i] ELSE g[i - 1] \o u[i]
            BY <5>1, <2>8 DEF Flattens
          <5>3. i # 1 => f[i - 1] = g[i - 1]
            BY <5>1, <2>5
          <5> QED
            BY <5>1, <5>2, <5>3, <2>5
        <4>2. CASE i = Len(t)
          <5>1. i # 1 => f[i - 1] = g[i - 1]
            OBVIOUS
          <5> QED
            BY <5>1, <4>2
        <4> QED
          BY <4>1
      <3> HIDE DEF f
      <3>2. DOMAIN f = 1..Len(t) /\ f = [i \in DOMAIN f |-> f[i]]
        BY DEF f
      <3> QED
        BY <3>1, <3>2 DEF Flattens
    <2> HIDE DEF f
    <2> QED
      BY <2>2, <2>9, <2>10
  <1> QED
    BY <1>1

(* There is one only: two would differ at some least index.                *)
LEMMA FlattenUnique ==
    ASSUME NEW s, NEW f, NEW g, Len(s) \in Nat, Flattens(s, f), Flattens(s, g)
    PROVE  f = g
  <1> DEFINE Bad == {i \in 1..Len(s) : f[i] # g[i]}
  <1>1. ASSUME Bad # {} PROVE FALSE
    <2>1. PICK n \in Bad : \A m \in Bad : n <= m
      <3>1. Bad \subseteq Nat
        OBVIOUS
      <3> QED
        BY <1>1, <3>1, LeastNumber
    <2>2. f[n] = IF n = 1 THEN s[n] ELSE f[n - 1] \o s[n]
      BY DEF Flattens
    <2>3. g[n] = IF n = 1 THEN s[n] ELSE g[n - 1] \o s[n]
      BY DEF Flattens
    <2>4. n # 1 => f[n - 1] = g[n - 1]
      BY <2>1
    <2> QED
      BY <2>2, <2>3, <2>4
  <1>2. \A i \in 1..Len(s) : f[i] = g[i]
    BY <1>1
  <1> QED
    BY <1>2 DEF Flattens

(* FlattenSeq is its last entry.                                           *)
LEMMA FlattenIs ==
    ASSUME NEW S, NEW s \in Seq(Seq(S)), s # <<>>, NEW f, Flattens(s, f)
    PROVE  FlattenSeq(s) = f[Len(s)]
  <1> DEFINE h == CHOOSE g : Flattens(s, g)
  <1>1. FlattenSeq(s) = h[Len(s)]
    <2>1. Len(s) # 0
      OBVIOUS
    <2> QED
      BY DEF FlattenSeq, Flattens
  <1>2. Flattens(s, h)
    OBVIOUS
  <1>3. Len(s) \in Nat
    OBVIOUS
  <1> HIDE DEF h
  <1>4. h = f
    BY <1>2, FlattenUnique
  <1> QED
    BY <1>1, <1>4

(* Nothing flattens to nothing.                                            *)
LEMMA FlattenEmpty == FlattenSeq(<<>>) = <<>>
  BY DEF FlattenSeq

(* Flattening sequences over S gives a sequence over S.                    *)
LEMMA FlattenType ==
    ASSUME NEW S, NEW s \in Seq(Seq(S))
    PROVE  FlattenSeq(s) \in Seq(S)
  <1>1. PICK f : Flattens(s, f) /\ \A i \in 1..Len(s) : f[i] \in Seq(S)
    BY FlattenExists
  <1>2. CASE s = <<>>
    <2>1. FlattenSeq(s) = <<>>
      BY <1>2, FlattenEmpty
    <2> QED
      BY <2>1
  <1>3. CASE s # <<>>
    BY <1>3, <1>1, FlattenIs
  <1> QED
    BY <1>2, <1>3

(* Concatenation is associative, as a quantified fact.                     *)
LEMMA Assoc ==
    \A S : \A a, b, c \in Seq(S) : (a \o b) \o c = a \o (b \o c)
  <1> SUFFICES ASSUME NEW S, NEW a \in Seq(S), NEW b \in Seq(S), NEW c \in Seq(S)
               PROVE  (a \o b) \o c = a \o (b \o c)
    OBVIOUS
  <1> QED
    OBVIOUS

(* Concatenation under a name, for the provers to treat as any operator.   *)
Cat(a, b) == a \o b

(* The same of Cat.                                                        *)
LEMMA CatAssoc ==
    \A S : \A a, b, c \in Seq(S) : Cat(Cat(a, b), c) = Cat(a, Cat(b, c))
  BY DEF Cat

(* Cat of two sequences over S is one.                                     *)
LEMMA CatType ==
    \A S : \A a, b \in Seq(S) : Cat(a, b) \in Seq(S)
  <1> SUFFICES ASSUME NEW S, NEW a \in Seq(S), NEW b \in Seq(S) PROVE Cat(a, b) \in Seq(S)
    OBVIOUS
  <1> QED
    BY DEF Cat

(* Nothing at the end changes nothing.                                     *)
LEMMA CatEmpty ==
    \A S : \A a \in Seq(S) : Cat(a, <<>>) = a
  <1> SUFFICES ASSUME NEW S, NEW a \in Seq(S) PROVE Cat(a, <<>>) = a
    OBVIOUS
  <1> QED
    BY DEF Cat

(* A sequence of one.                                                      *)
LEMMA SeqOne == \A S : \A x \in S : <<x>> \in Seq(S)
  OBVIOUS

(* Append gives a sequence over the same set.                              *)
LEMMA SeqAppend == \A S : \A s \in Seq(S), x \in S : Append(s, x) \in Seq(S)
  OBVIOUS

(* So do Head and Tail give an element and a sequence of it.               *)
LEMMA SeqHeadTail ==
    \A S : \A s \in Seq(S) : s # <<>> => Head(s) \in S /\ Tail(s) \in Seq(S)
  OBVIOUS

(* The empty sequence is one over any set.                                 *)
LEMMA SeqEmpty == \A S : <<>> \in Seq(S)
  OBVIOUS

(* The length of a concatenation.                                          *)
LEMMA CatLen ==
    \A S : \A a, b \in Seq(S) : Len(Cat(a, b)) = Len(a) + Len(b)
  <1> SUFFICES ASSUME NEW S, NEW a \in Seq(S), NEW b \in Seq(S)
               PROVE  Len(Cat(a, b)) = Len(a) + Len(b)
    OBVIOUS
  <1> QED
    BY DEF Cat

(* Its first elements are those of the first sequence.                     *)
LEMMA CatLeft ==
    \A S : \A a, b \in Seq(S) : \A i \in 1..Len(a) : Cat(a, b)[i] = a[i]
  <1> SUFFICES ASSUME NEW S, NEW a \in Seq(S), NEW b \in Seq(S), NEW i \in 1..Len(a)
               PROVE  Cat(a, b)[i] = a[i]
    OBVIOUS
  <1> QED
    BY DEF Cat

(* The others are those of the second.                                     *)
LEMMA CatRight ==
    \A S : \A a, b \in Seq(S) : \A i \in 1..Len(b) : Cat(a, b)[Len(a) + i] = b[i]
  <1> SUFFICES ASSUME NEW S, NEW a \in Seq(S), NEW b \in Seq(S), NEW i \in 1..Len(b)
               PROVE  Cat(a, b)[Len(a) + i] = b[i]
    OBVIOUS
  <1> QED
    BY DEF Cat

(* FlattenSeq of one sequence more: what it adds comes at the end.         *)
LEMMA FlattenAppend ==
    ASSUME NEW S, NEW s \in Seq(Seq(S)), NEW e \in Seq(S)
    PROVE  FlattenSeq(Append(s, e)) = Cat(FlattenSeq(s), e)
  <1> DEFINE t == Append(s, e)
  <1>0. /\ t \in Seq(Seq(S)) /\ t # <<>> /\ Len(t) = Len(s) + 1 /\ Len(s) \in Nat
        /\ t[Len(t)] = e /\ \A i \in 1..Len(s) : t[i] = s[i]
    BY AppendProperties
  <1> SUFFICES FlattenSeq(t) = FlattenSeq(s) \o e
    BY DEF Cat
  <1> HIDE DEF t
  <1>1. PICK f : Flattens(t, f) /\ \A i \in 1..Len(t) : f[i] \in Seq(S)
    BY <1>0, FlattenExists
  <1>2. FlattenSeq(t) = f[Len(t)]
    BY <1>0, <1>1, FlattenIs
  <1>3. f[Len(t)] = IF s = <<>> THEN e ELSE f[Len(s)] \o e
    <2>1. f[Len(t)] = IF Len(t) = 1 THEN t[Len(t)] ELSE f[Len(t) - 1] \o t[Len(t)]
      <3>1. Len(t) \in 1..Len(t)
        BY <1>0
      <3> QED
        BY <3>1, <1>1, FlattensAt
    <2>2. Len(t) = 1 <=> s = <<>>
      BY <1>0
    <2>3. Len(t) - 1 = Len(s)
      BY <1>0
    <2> QED
      BY <2>1, <1>0
  <1>4. CASE s = <<>>
    <2>1. FlattenSeq(s) \o e = e
      BY <1>4, FlattenEmpty
    <2> QED
      BY <1>2, <1>3, <1>4, <2>1
  <1>5. CASE s # <<>>
    <2> DEFINE g == [i \in 1..Len(s) |-> f[i]]
    <2>1. Flattens(s, g)
      <3>1. ASSUME NEW i \in 1..Len(s)
            PROVE  g[i] = IF i = 1 THEN s[i] ELSE g[i - 1] \o s[i]
        <4>1. f[i] = IF i = 1 THEN t[i] ELSE f[i - 1] \o t[i]
          <5>1. i \in 1..Len(t)
            BY <1>0
          <5> QED
            BY <5>1, <1>1, FlattensAt
        <4>2. t[i] = s[i]
          BY <1>0
        <4> QED
          BY <4>1, <4>2
      <3> HIDE DEF g
      <3>2. DOMAIN g = 1..Len(s) /\ g = [i \in DOMAIN g |-> g[i]]
        BY DEF g
      <3> QED
        BY <3>1, <3>2 DEF Flattens
    <2>2. FlattenSeq(s) = f[Len(s)]
      <3>1. FlattenSeq(s) = g[Len(s)]
        <4> HIDE DEF g
        <4> QED
          BY <2>1, <1>5, FlattenIs
      <3> QED
        BY <3>1, <1>5
    <2> QED
      <3>1. FlattenSeq(t) = f[Len(s)] \o e
        BY <1>2, <1>3, <1>5
      <3> QED
        BY <2>2, <3>1
  <1> QED
    BY <1>4, <1>5

(* The step of FlattenHead: from a sequence to one with an element more.   *)
LEMMA FlattenHeadStep ==
    ASSUME NEW S, NEW u \in Seq(Seq(S)), u # <<>>, NEW e \in Seq(S),
           FlattenSeq(u) = Cat(Head(u), FlattenSeq(Tail(u)))
    PROVE  FlattenSeq(Append(u, e)) = Cat(Head(Append(u, e)), FlattenSeq(Tail(Append(u, e))))
  <1>1. FlattenSeq(Append(u, e)) = Cat(FlattenSeq(u), e)
    BY FlattenAppend
  <1>2. Head(Append(u, e)) = Head(u) /\ Tail(Append(u, e)) = Append(Tail(u), e)
    OBVIOUS
  <1>3. Head(u) \in Seq(S) /\ Tail(u) \in Seq(Seq(S))
    OBVIOUS
  <1>4. FlattenSeq(Tail(u)) \in Seq(S)
    BY <1>3, FlattenType
  <1>5. FlattenSeq(Append(Tail(u), e)) = Cat(FlattenSeq(Tail(u)), e)
    BY <1>3, FlattenAppend
  <1>6. Cat(Cat(Head(u), FlattenSeq(Tail(u))), e) = Cat(Head(u), Cat(FlattenSeq(Tail(u)), e))
    BY <1>4, CatAssoc
  <1> QED
    BY <1>1, <1>2, <1>5, <1>6, Zenon

(* FlattenSeq taken from the front, by induction on the length.            *)
LEMMA FlattenHead ==
    ASSUME NEW S, NEW s \in Seq(Seq(S)), s # <<>>
    PROVE  FlattenSeq(s) = Cat(Head(s), FlattenSeq(Tail(s)))
  <1> DEFINE Good(t) == FlattenSeq(t) = Cat(Head(t), FlattenSeq(Tail(t)))
             Bad == {Len(t) : t \in {u \in Seq(Seq(S)) : u # <<>> /\ ~Good(u)}}
  <1>1. ASSUME Bad # {} PROVE FALSE
    <2>1. PICK n \in Bad : \A m \in Bad : n <= m
      <3>1. Bad \subseteq Nat
        OBVIOUS
      <3> QED
        BY <1>1, <3>1, LeastNumber
    <2>2. PICK t \in Seq(Seq(S)) : n = Len(t) /\ t # <<>> /\ ~Good(t)
      OBVIOUS
    <2>3. PICK u \in Seq(Seq(S)), e \in Seq(S) : t = Append(u, e)
      BY <2>2, SequenceEmptyOrAppend
    <2>4. FlattenSeq(t) = Cat(FlattenSeq(u), e)
      BY <2>3, FlattenAppend
    <2>5. CASE u = <<>>
      <3>1. Head(t) = e /\ Tail(t) = <<>>
        BY <2>3, <2>5
      <3>2. Cat(<<>>, e) = e /\ Cat(e, <<>>) = e
        BY DEF Cat
      <3>3. FlattenSeq(t) = e /\ Cat(Head(t), FlattenSeq(Tail(t))) = e
        BY <2>4, <2>5, <3>1, <3>2, FlattenEmpty, Zenon
      <3> QED
        BY <2>2, <3>3
    <2>6. CASE u # <<>>
      <3>1. Good(u)
        <4>1. ASSUME Len(u) \in Bad PROVE FALSE
          <5>1. n <= Len(u)
            BY <2>1, <4>1
          <5>2. Len(t) = Len(u) + 1 /\ Len(u) \in Nat
            BY <2>3
          <5> QED
            BY <5>1, <5>2, <2>2
        <4> QED
          BY <4>1, <2>6
      <3> QED
        BY <2>2, <2>3, <2>6, <3>1, FlattenHeadStep
    <2> QED
      BY <2>5, <2>6
  <1> QED
    BY <1>1

(* The two parts in which a read leaves what there is to read.             *)
LEMMA CutInTwo ==
    ASSUME NEW S, NEW s \in Seq(S), NEW n \in 1..Len(s)
    PROVE  /\ SubSeq(s, 1, n) \in Seq(S) /\ SubSeq(s, n + 1, Len(s)) \in Seq(S)
           /\ Len(SubSeq(s, 1, n)) = n /\ Len(SubSeq(s, n + 1, Len(s))) = Len(s) - n
           /\ \A i \in 1..n : SubSeq(s, 1, n)[i] = s[i]
           /\ \A i \in 1..Len(s) - n : SubSeq(s, n + 1, Len(s))[i] = s[n + i]
           /\ SubSeq(s, 1, n) \o SubSeq(s, n + 1, Len(s)) = s
  <1>1. \A i \in 1..Len(s) : s[i] \in S
    OBVIOUS
  <1>2. Len(s) \in Nat /\ n \in Nat /\ 1 <= n /\ n <= Len(s)
    OBVIOUS
  <1>3. /\ SubSeq(s, 1, n) \in Seq(S)
        /\ Len(SubSeq(s, 1, n)) = IF 1 <= n THEN n - 1 + 1 ELSE 0
        /\ \A i \in 1..n - 1 + 1 : SubSeq(s, 1, n)[i] = s[1 + i - 1]
    OBVIOUS
  <1>4. /\ SubSeq(s, n + 1, Len(s)) \in Seq(S)
        /\ Len(SubSeq(s, n + 1, Len(s))) = IF n + 1 <= Len(s) THEN Len(s) - (n + 1) + 1 ELSE 0
        /\ \A i \in 1..Len(s) - (n + 1) + 1 :
              SubSeq(s, n + 1, Len(s))[i] = s[n + 1 + i - 1]
    OBVIOUS
  <1>5. SubSeq(s, 1, n) \o SubSeq(s, n + 1, Len(s)) = SubSeq(s, 1, Len(s))
    OBVIOUS
  <1>6. SubSeq(s, 1, Len(s)) = s
    OBVIOUS
  <1>7. /\ Len(SubSeq(s, 1, n)) = n /\ \A i \in 1..n : SubSeq(s, 1, n)[i] = s[i]
    <2>1. n - 1 + 1 = n /\ \A i \in 1..n : 1 + i - 1 = i
      OBVIOUS
    <2> QED
      OBVIOUS
  <1>8. /\ Len(SubSeq(s, n + 1, Len(s))) = Len(s) - n
        /\ \A i \in 1..Len(s) - n : SubSeq(s, n + 1, Len(s))[i] = s[n + i]
    <2>1. /\ Len(s) - (n + 1) + 1 = Len(s) - n
          /\ \A i \in 1..Len(s) - n : n + 1 + i - 1 = n + i
          /\ ~(n + 1 <= Len(s)) => Len(s) - n = 0
      OBVIOUS
    <2> QED
      BY <1>2, <1>4, <2>1
  <1> QED
    BY <1>3, <1>4, <1>5, <1>6, <1>7, <1>8

(* s has b in it, behind a.                                                *)
Segment(s, a, b) ==
    /\ Len(a) + Len(b) <= Len(s)
    /\ \A i \in 1..Len(b) : s[Len(a) + i] = b[i]

(* A part is where the lengths before it say.                              *)
LEMMA SegmentOf ==
    ASSUME NEW S, NEW a \in Seq(S), NEW b \in Seq(S), NEW c \in Seq(S)
    PROVE  Segment(Cat(Cat(a, b), c), a, b)
  <1> DEFINE d == Cat(a, b)
             q == Cat(d, c)
  <1>1. /\ d \in Seq(S) /\ Len(d) = Len(a) + Len(b)
        /\ \A i \in 1..Len(b) : d[Len(a) + i] = b[i]
    BY CatType, CatLen, CatRight
  <1> HIDE DEF d
  <1>2. /\ Len(q) = Len(d) + Len(c)
        /\ \A i \in 1..Len(d) : q[i] = d[i]
    BY <1>1, CatLen, CatLeft, Zenon
  <1>3. Len(a) \in Nat /\ Len(b) \in Nat /\ Len(c) \in Nat
    OBVIOUS
  <1> HIDE DEF q
  <1>4. ASSUME NEW i \in 1..Len(b) PROVE q[Len(a) + i] = b[i]
    <2>1. Len(a) + i \in 1..Len(d)
      BY <1>1
    <2> QED
      BY <1>1, <1>2
  <1>5. Len(a) + Len(b) <= Len(q)
    BY <1>1, <1>2
  <1> QED
    BY <1>4, <1>5 DEF Segment, d, q

(* The five parts in which the bytes from the client to the session are,   *)
(* and the three in which the replies are.                                 *)
Stream(h, f, b, c, s) == Cat(Cat(Cat(Cat(h, f), b), c), s)
Answers(o, r, w) == Cat(Cat(o, r), w)
UpTo(n) == [i \in 1..n |-> i]

(* Stream without the name given to concatenation.                         *)
LEMMA StreamIs ==
    \A h, f, b, c, s : Stream(h, f, b, c, s) = h \o f \o b \o c \o s
  BY DEF Stream, Cat

(* The same of Answers.                                                    *)
LEMMA AnswersIs ==
    \A o, r, w : Answers(o, r, w) = o \o r \o w
  BY DEF Answers, Cat

(* What the client sends comes to the end of the stream.                   *)
LEMMA ClientMoves ==
    \A S : \A h, f, b, c, s, x \in Seq(S) :
        Stream(h, f, b, c, Cat(s, x)) = Cat(Stream(h, f, b, c, s), x)
  <1> SUFFICES ASSUME NEW S, NEW h \in Seq(S), NEW f \in Seq(S), NEW b \in Seq(S),
                      NEW c \in Seq(S), NEW s \in Seq(S), NEW x \in Seq(S)
               PROVE  Stream(h, f, b, c, Cat(s, x)) = Cat(Stream(h, f, b, c, s), x)
    OBVIOUS
  <1> DEFINE d == Cat(Cat(Cat(h, f), b), c)
  <1>1. d \in Seq(S)
    BY CatType
  <1>2. Stream(h, f, b, c, Cat(s, x)) = Cat(d, Cat(s, x)) /\ Stream(h, f, b, c, s) = Cat(d, s)
    BY DEF Stream
  <1> HIDE DEF d
  <1> QED
    BY <1>1, <1>2, CatAssoc

(* What the proxy reads moves from stdin to the empty chunk.               *)
LEMMA PumpReadMoves ==
    \A S : \A h, f, b, x, y \in Seq(S) :
        Stream(h, f, b, x, y) = Stream(h, f, b, <<>>, Cat(x, y))
  <1> SUFFICES ASSUME NEW S, NEW h \in Seq(S), NEW f \in Seq(S), NEW b \in Seq(S),
                      NEW x \in Seq(S), NEW y \in Seq(S)
               PROVE  Stream(h, f, b, x, y) = Stream(h, f, b, <<>>, Cat(x, y))
    OBVIOUS
  <1> DEFINE d == Cat(Cat(h, f), b)
  <1>1. d \in Seq(S)
    BY CatType
  <1>2. /\ Stream(h, f, b, x, y) = Cat(Cat(d, x), y)
        /\ Stream(h, f, b, <<>>, Cat(x, y)) = Cat(Cat(d, <<>>), Cat(x, y))
    BY DEF Stream
  <1> HIDE DEF d
  <1>3. Cat(d, <<>>) = d /\ Cat(Cat(d, x), y) = Cat(d, Cat(x, y))
    BY <1>1, CatAssoc, CatEmpty
  <1> QED
    BY <1>2, <1>3

(* What it writes moves from the chunk to the connection.                  *)
LEMMA PumpWriteMoves ==
    \A S : \A h, f, b, c, s \in Seq(S) :
        Stream(h, f, Cat(b, c), <<>>, s) = Stream(h, f, b, c, s)
  <1> SUFFICES ASSUME NEW S, NEW h \in Seq(S), NEW f \in Seq(S), NEW b \in Seq(S),
                      NEW c \in Seq(S), NEW s \in Seq(S)
               PROVE  Cat(Cat(Cat(Cat(h, f), Cat(b, c)), <<>>), s)
                        = Cat(Cat(Cat(Cat(h, f), b), c), s)
    BY DEF Stream
  <1>1. Cat(h, f) \in Seq(S) /\ Cat(b, c) \in Seq(S)
    BY CatType
  <1>2. Cat(Cat(Cat(h, f), b), c) = Cat(Cat(h, f), Cat(b, c))
    BY <1>1, CatAssoc
  <1>3. Cat(Cat(Cat(h, f), Cat(b, c)), <<>>) = Cat(Cat(h, f), Cat(b, c))
    BY CatType, CatEmpty
  <1> QED
    BY <1>2, <1>3

(* What the reader takes moves from the connection to the inbox.           *)
LEMMA ReaderMoves ==
    \A S : \A h, f, x, y, c, s \in Seq(S) :
        Stream(h, Cat(f, x), y, c, s) = Stream(h, f, Cat(x, y), c, s)
  <1> SUFFICES ASSUME NEW S, NEW h \in Seq(S), NEW f \in Seq(S), NEW x \in Seq(S),
                      NEW y \in Seq(S), NEW c \in Seq(S), NEW s \in Seq(S)
               PROVE  Cat(Cat(Cat(Cat(h, Cat(f, x)), y), c), s)
                        = Cat(Cat(Cat(Cat(h, f), Cat(x, y)), c), s)
    BY DEF Stream
  <1>1. Cat(h, f) \in Seq(S)
    BY CatType
  <1>2. Cat(h, Cat(f, x)) = Cat(Cat(h, f), x)
    BY CatAssoc
  <1>3. Cat(Cat(Cat(h, f), x), y) = Cat(Cat(h, f), Cat(x, y))
    BY <1>1, CatAssoc
  <1> QED
    BY <1>2, <1>3

(* What the session handles moves from the inbox to what is handled.       *)
LEMMA SessionMoves ==
    \A S : \A h, x, y, b, c, s \in Seq(S) :
        Stream(Cat(h, x), y, b, c, s) = Stream(h, Cat(x, y), b, c, s)
  BY CatAssoc DEF Stream

(* What the writer writes moves from the outbox to the connection.         *)
LEMMA WriterMoves ==
    ASSUME NEW S, NEW a \in Seq(S), NEW b \in Seq(S), NEW c \in Seq(S), c # <<>>
    PROVE  Answers(a, Append(b, Head(c)), Tail(c)) = Answers(a, b, c)
  <1> DEFINE h == <<Head(c)>>
             t == Tail(c)
  <1>1. h \in Seq(S) /\ t \in Seq(S)
    OBVIOUS
  <1>2. Cat(h, t) = c
    BY DEF Cat
  <1>3. Append(b, Head(c)) = Cat(b, h)
    BY DEF Cat
  <1> HIDE DEF h, t
  <1>4. Cat(Cat(a, Cat(b, h)), t) = Cat(Cat(a, b), Cat(h, t))
    BY <1>1, CatAssoc, CatType
  <1>5. Cat(Cat(a, Append(b, Head(c))), t) = Cat(Cat(a, b), c)
    BY <1>2, <1>3, <1>4
  <1> QED
    BY <1>5 DEF Answers, t

(* A reply that is one past the last keeps the replies numbered.           *)
LEMMA ReplyMoves ==
    ASSUME NEW a \in Seq(Nat), NEW b \in Seq(Nat), NEW c \in Seq(Nat), NEW n \in Nat,
           Answers(a, b, c) = UpTo(n)
    PROVE  Answers(a, b, Append(c, n + 1)) = UpTo(n + 1)
  <1> DEFINE d == Cat(a, b)
             k == <<n + 1>>
  <1>1. d \in Seq(Nat)
    BY CatType
  <1>2. Append(c, n + 1) = Cat(c, k) /\ k \in Seq(Nat)
    <2>1. n + 1 \in Nat
      OBVIOUS
    <2>2. Append(c, n + 1) = c \o k
      OBVIOUS
    <2>3. k \in Seq(Nat)
      OBVIOUS
    <2> QED
      BY <2>3 DEF Cat
  <1>3. Cat(d, c) = UpTo(n)
    BY DEF Answers
  <1> HIDE DEF d
  <1>4. Cat(Cat(d, c), k) = UpTo(n + 1)
    <2>1. Append([i \in 1..n |-> i], n + 1) = [i \in 1..n + 1 |-> i]
      OBVIOUS
    <2>2. [i \in 1..n |-> i] \in Seq(Nat)
      OBVIOUS
    <2>3. Append([i \in 1..n |-> i], n + 1) = Cat([i \in 1..n |-> i], k)
      BY DEF Cat
    <2> QED
      BY <2>1, <2>3, <1>3, Zenon DEF UpTo
  <1> HIDE DEF k
  <1>5. Cat(Cat(d, c), k) = Cat(d, Cat(c, k))
    BY <1>1, <1>2, CatAssoc
  <1>6. Cat(d, Append(c, n + 1)) = UpTo(n + 1)
    BY <1>2, <1>4, <1>5, Zenon
  <1> QED
    BY <1>6 DEF Answers, d

(* The first message in the inbox is in the stream, where the proxy has    *)
(* read it.                                                                *)
LEMMA HeadIn ==
    ASSUME handled \in Seq(Fragments), Bytes \in Seq(Fragments), chunk \in Seq(Fragments),
           stdin \in Seq(Fragments), NEW m \in Seq(Fragments), NEW f \in Seq(Fragments),
           1 <= Len(m), sent = Stream(handled, Cat(m, f), Bytes, chunk, stdin)
    PROVE  Len(handled) + 1 \in 1..Len(sent) - Len(stdin) /\ sent[Len(handled) + 1] = m[1]
  <1> DEFINE S == Fragments
             e == Cat(m, f)
             g == Cat(handled, e)
             p == Cat(g, Bytes)
             r == Cat(p, chunk)
             q == Cat(r, stdin)
  <1>0. /\ handled \in Seq(S) /\ Bytes \in Seq(S) /\ chunk \in Seq(S)
        /\ stdin \in Seq(S) /\ m \in Seq(S) /\ f \in Seq(S)
    OBVIOUS
  <1>1. q = sent
    BY DEF Stream
  <1> HIDE DEF S
  <1>2. /\ e \in Seq(S) /\ Len(e) = Len(m) + Len(f)
        /\ \A i \in 1..Len(m) : e[i] = m[i]
    BY <1>0, CatType, CatLen, CatLeft, ZenonT(60)
  <1> HIDE DEF e
  <1>3. g \in Seq(S) /\ Len(g) = Len(handled) + Len(e) /\ \A i \in 1..Len(e) : g[Len(handled) + i] = e[i]
    BY <1>0, <1>2, CatType, CatLen, CatRight, ZenonT(60)
  <1> HIDE DEF g
  <1>4. p \in Seq(S) /\ Len(p) = Len(g) + Len(Bytes) /\ \A i \in 1..Len(g) : p[i] = g[i]
    BY <1>0, <1>3, CatType, CatLen, CatLeft, ZenonT(60)
  <1> HIDE DEF p
  <1>5. r \in Seq(S) /\ Len(r) = Len(p) + Len(chunk) /\ \A i \in 1..Len(p) : r[i] = p[i]
    BY <1>0, <1>4, CatType, CatLen, CatLeft, ZenonT(60)
  <1> HIDE DEF r
  <1>6. q \in Seq(S) /\ Len(q) = Len(r) + Len(stdin) /\ \A i \in 1..Len(r) : q[i] = r[i]
    BY <1>0, <1>5, CatType, CatLen, CatLeft, ZenonT(60)
  <1> HIDE DEF q
  <1>7. Len(f) \in Nat /\ Len(handled) \in Nat /\ Len(Bytes) \in Nat /\ Len(chunk) \in Nat /\ Len(stdin) \in Nat
    OBVIOUS
  <1>8. Len(m) \in Nat /\ Len(m) > 0
    OBVIOUS
  <1>9. /\ Len(handled) + 1 \in 1..Len(g) /\ Len(handled) + 1 \in 1..Len(p) /\ Len(handled) + 1 \in 1..Len(r)
        /\ 1 \in 1..Len(e) /\ 1 \in 1..Len(m) /\ Len(q) - Len(stdin) = Len(r)
    <2>1. /\ Len(e) = Len(m) + Len(f) /\ Len(g) = Len(handled) + Len(e) /\ Len(p) = Len(g) + Len(Bytes)
          /\ Len(r) = Len(p) + Len(chunk) /\ Len(q) = Len(r) + Len(stdin)
      BY <1>2, <1>3, <1>4, <1>5, <1>6, <1>8
    <2> QED
      BY <2>1, <1>8
  <1>10. Len(handled) + 1 \in 1..Len(q) - Len(stdin) /\ q[Len(handled) + 1] = m[1]
    BY <1>2, <1>3, <1>4, <1>5, <1>6, <1>8, <1>9, SMTT(40)
  <1> QED
    BY <1>1, <1>10

-----------------------------------------------------------------------------
(* The inductive invariant. *)

Upward ==
    handler \in {"start", "init", "running"} =>
        Stream(handled, FlattenSeq(inbox), Bytes, chunk, stdin) = sent

Downward ==
    handler # "killed" /\ ProxyOpen =>
        Answers(out, Replies, outbox) = UpTo(Len(handled))

Singles == {<<f>> : f \in Fragments}

(* Until the session is accepted nothing goes up or down but the first     *)
(* lines, and until it is initialized the stream has no threads.           *)
Beginning ==
    /\ pump = "off" =>
        /\ handler \in {"start", "init", "done", "killed"}
        /\ handled = <<>> /\ inbox = <<>> /\ outbox = <<>> /\ chunk = <<>> /\ out = <<>>
        /\ ended = "no" /\ ~exitSeen
        /\ up \in {<<"lsp">>, <<>>} /\ down \in {<<>>, <<Accepted>>}
    /\ handler = "start" => up = <<"lsp">> /\ pump = "off" /\ down = <<>>
    /\ handler \in {"start", "init"} =>
        /\ reader = "off" /\ writer = "off"
        /\ inbox = <<>> /\ handled = <<>> /\ outbox = <<>> /\ ended = "no"

(* Which threads run, and what they have in hand.                          *)
Threads ==
    /\ handler \notin {"start", "killed"} => up \in Seq(Fragments)
    /\ handler \in {"done", "killed"} => reader # "reading" /\ writer # "writing"
    /\ handler = "running" /\ ProxyOpen => writer = "writing"
    /\ pump = "read" => chunk = <<>>
    /\ sessions = IF handler \in {"done", "killed"} THEN 0 ELSE 1
    /\ inbox \in Seq(Singles \cup {Exit})

(* What the proxy has not read is the end of what was sent, and of an exit *)
(* notification both parts are sent.                                       *)
Suffix ==
    /\ Len(stdin) <= Len(sent)
    /\ \A i \in 1..Len(stdin) : stdin[i] = sent[Len(sent) - Len(stdin) + i]
    /\ \A i \in 1..Len(sent) : sent[i] = "ex" => i + 1 <= Len(sent) /\ sent[i + 1] = "it"

(* An exit that has been read in one piece has been seen, if it is spelled *)
(* as the proxy looks for it.                                              *)
ExitIsSeen ==
    /\ ~cut => \A i \in 1..Len(sent) - Len(stdin) : sent[i] = "ex" => exitSeen
    /\ exitSeen => Contains(sent, "it") \/ Contains(sent, "quoted")
    /\ ended = "exit" /\ ~cut => exitSeen \/ Contains(sent, "spaced")

Codes ==
    /\ code = "one" /\ stdinOpen =>
        handler \notin {"start", "init", "running"} /\ (ended = "exit" => cut \/ Contains(sent, "spaced"))
    /\ code = "zero" =>
        \/ ~stdinOpen \/ stdinFailed
        \/ Contains(sent, "it") \/ Contains(sent, "quoted")

IInv ==
    TypeOK /\ Upward /\ Downward /\ Beginning /\ Threads /\ Suffix /\ ExitIsSeen /\ Codes

Scalars ==
    /\ stdinOpen \in BOOLEAN /\ stdinFailed \in BOOLEAN
    /\ exitSeen \in BOOLEAN /\ cut \in BOOLEAN
    /\ pump \in {"off", "read", "write", "gone"}
    /\ code \in {"none", "zero", "one"}
    /\ handler \in {"start", "init", "running", "joining", "done", "panicked", "killed"}
    /\ reader \in {"off", "reading", "done"}
    /\ writer \in {"off", "writing", "done"}
    /\ ended \in {"no", "exit", "disconnect", "error", "panic"}
    /\ sessions \in {0, 1}

Sequences ==
    /\ sent \in Seq(Fragments) /\ stdin \in Seq(Fragments)
    /\ chunk \in Seq(Fragments) /\ handled \in Seq(Fragments)
    /\ up \in Seq(Fragments) \cup {<<"lsp">>}
    /\ inbox \in Seq(Seq(Fragments))
    /\ down \in Seq(Nat) /\ outbox \in Seq(Nat) /\ out \in Seq(Nat)

(* The type invariant in two halves, for the provers.                      *)
LEMMA TypeParts == TypeOK <=> Scalars /\ Sequences
  <1>1. TypeOK => Scalars
    BY DEF TypeOK, Scalars
  <1>2. TypeOK => Sequences
    BY DEF TypeOK, Sequences
  <1>3. Scalars /\ Sequences => TypeOK
    BY DEF TypeOK, Scalars, Sequences
  <1> QED
    BY <1>1, <1>2, <1>3

(* The same of the next state.                                             *)
LEMMA TypePartsNext == Scalars' /\ Sequences' => TypeOK'
  <1>1. (Scalars /\ Sequences => TypeOK)'
    BY TypeParts, PTL
  <1> QED
    BY <1>1

(* A message is a sequence of fragments.                                   *)
LEMMA MessageType == Messages \subseteq Seq(Fragments)
  <1>1. Exit \in Seq(Fragments)
    BY DEF Exit, Fragments
  <1>2. \A f \in {"init", "req", "quoted", "spaced"} : <<f>> \in Seq(Fragments)
    BY DEF Fragments
  <1> QED
    BY <1>1, <1>2 DEF Messages, Exits

(* A message has one or two fragments, and `ex` is followed by `it`.       *)
LEMMA MessageShape ==
    \A m \in Messages :
        /\ Len(m) \in 1..2
        /\ \A i \in 1..Len(m) : m[i] = "ex" => i + 1 <= Len(m) /\ m[i + 1] = "it"
  <1> SUFFICES ASSUME NEW m \in Messages
               PROVE  /\ Len(m) \in 1..2
                      /\ \A i \in 1..Len(m) : m[i] = "ex" => i + 1 <= Len(m) /\ m[i + 1] = "it"
    OBVIOUS
  <1>1. ASSUME NEW f \in {"init", "req", "quoted", "spaced"}, m = <<f>>
        PROVE  Len(m) = 1 /\ m[1] # "ex"
    BY <1>1
  <1>2. CASE m = Exit
    BY <1>2 DEF Exit
  <1>3. CASE m # Exit
    <2>1. Len(m) = 1 /\ m[1] # "ex"
      BY <1>1, <1>3 DEF Messages, Exits
    <2> QED
      BY <2>1
  <1> QED
    BY <1>2, <1>3

(* Messages are sequences of fragments.                                    *)
LEMMA InboxType == Seq(Singles \cup {Exit}) \subseteq Seq(Seq(Fragments))
  <1>1. Singles \cup {Exit} \subseteq Seq(Fragments)
    <2>1. \A f \in Fragments : <<f>> \in Seq(Fragments)
      OBVIOUS
    <2>2. Exit \in Seq(Fragments)
      BY DEF Exit, Fragments
    <2> QED
      BY <2>1, <2>2 DEF Singles
  <1> QED
    BY <1>1

(* The first message of the connection and the rest of it are what there   *)
(* is in it: of an exit notification both parts are there.                 *)
LEMMA FirstRest ==
    ASSUME up \in Seq(Fragments), Whole(up)
    PROVE  /\ First(up) \in Seq(Fragments) /\ Rest(up) \in Seq(Fragments)
           /\ First(up) \in Singles \cup {Exit}
           /\ (up[1] = "ex" => up[2] = "it") => Cat(First(up), Rest(up)) = up
  <1>1. CASE up[1] = "ex"
    <2>1. Len(up) > 1 /\ Len(up) \in Nat
      BY <1>1 DEF Whole
    <2>2. First(up) = Exit /\ Rest(up) = SubSeq(up, 3, Len(up))
      BY <1>1 DEF First, Rest
    <2>3. Exit \in Seq(Fragments) /\ Len(Exit) = 2 /\ Exit[1] = "ex" /\ Exit[2] = "it"
      BY DEF Exit, Fragments
    <2>4. /\ Rest(up) \in Seq(Fragments) /\ SubSeq(up, 1, 2) \o Rest(up) = up
          /\ SubSeq(up, 1, 2) \in Seq(Fragments)
          /\ Len(SubSeq(up, 1, 2)) = 2 /\ \A i \in 1..2 : SubSeq(up, 1, 2)[i] = up[i]
      <3>1. 2 \in 1..Len(up) /\ 2 + 1 = 3
        BY <2>1
      <3> QED
        BY <3>1, <2>2
    <2>5. ASSUME up[2] = "it" PROVE Cat(First(up), Rest(up)) = up
      <3>1. SubSeq(up, 1, 2) = First(up)
        BY <2>2, <2>3, <2>5, <1>1
      <3> QED
        BY <3>1, <2>4 DEF Cat
    <2> QED
      BY <2>2, <2>3, <2>5, <1>1
  <1>2. CASE up[1] # "ex"
    <2>1. up # <<>>
      BY DEF Whole
    <2>2. First(up) = <<up[1]>> /\ Rest(up) = Tail(up)
      BY <1>2 DEF First, Rest
    <2>3. up[1] \in Fragments
      BY <2>1
    <2>4. Cat(<<up[1]>>, Tail(up)) = up
      BY <2>1 DEF Cat
    <2> QED
      BY <2>1, <2>2, <2>4 DEF Singles
  <1> QED
    BY <1>1, <1>2

(* As long as the session is there, the parts of the stream are fragments. *)
LEMMA UpwardType ==
    ASSUME IInv, handler \in {"start", "init", "running"}
    PROVE  /\ handled \in Seq(Fragments) /\ FlattenSeq(inbox) \in Seq(Fragments)
           /\ Bytes \in Seq(Fragments) /\ chunk \in Seq(Fragments)
           /\ stdin \in Seq(Fragments) /\ sent \in Seq(Fragments)
           /\ inbox \in Seq(Seq(Fragments))
  <1>1. /\ handled \in Seq(Fragments) /\ chunk \in Seq(Fragments)
        /\ stdin \in Seq(Fragments) /\ sent \in Seq(Fragments)
        /\ inbox \in Seq(Seq(Fragments))
    BY DEF IInv, TypeOK
  <1>2. FlattenSeq(inbox) \in Seq(Fragments)
    BY <1>1, FlattenType
  <1>3. Bytes \in Seq(Fragments)
    <2>1. CASE handler = "start"
      <3>1. up = <<"lsp">>
        BY <2>1 DEF IInv, Beginning
      <3>2. Tail(<<"lsp">>) = <<>>
        OBVIOUS
      <3> QED
        BY <2>1, <3>1 DEF Bytes
    <2>2. CASE handler # "start"
      BY <2>2 DEF IInv, Threads, Bytes
    <2> QED
      BY <2>1, <2>2
  <1> QED
    BY <1>1, <1>2, <1>3

(* Where the first message begins with `ex`, the other part follows.       *)
LEMMA WholeIsThere ==
    ASSUME IInv, handler \in {"init", "running"}, Whole(up), up[1] = "ex"
    PROVE  up[2] = "it"
  <1> DEFINE a == Cat(handled, FlattenSeq(inbox))
             b == Cat(chunk, stdin)
  <1>1. /\ up \in Seq(Fragments) /\ Len(up) \in Nat /\ Len(up) > 1 /\ Bytes = up
        /\ sent \in Seq(Fragments)
    BY DEF IInv, TypeOK, Whole, Bytes
  <1>2. chunk \in Seq(Fragments) /\ stdin \in Seq(Fragments)
    BY UpwardType
  <1>3. a \in Seq(Fragments) /\ b \in Seq(Fragments)
    BY UpwardType, CatType
  <1>4. Cat(Cat(Cat(a, up), chunk), stdin) = sent
    BY <1>1 DEF IInv, Upward, Stream
  <1>5. Cat(Cat(Cat(a, up), chunk), stdin) = Cat(Cat(a, up), b)
    <2> HIDE DEF a
    <2>1. Cat(a, up) \in Seq(Fragments)
      BY <1>1, <1>3, CatType
    <2> QED
      BY <2>1, <1>2, CatAssoc
  <1> HIDE DEF a, b
  <1>6. Segment(sent, a, up)
    BY <1>1, <1>3, <1>4, <1>5, SegmentOf
  <1>7. Len(a) \in Nat /\ Len(sent) \in Nat
    OBVIOUS
  <1>8. Len(a) + Len(up) <= Len(sent) /\ sent[Len(a) + 1] = up[1] /\ sent[Len(a) + 2] = up[2]
    <2>1. 1 \in 1..Len(up) /\ 2 \in 1..Len(up)
      BY <1>1
    <2> QED
      BY <1>6, <2>1 DEF Segment
  <1>9. Len(a) + 1 \in 1..Len(sent) /\ Len(a) + 1 + 1 = Len(a) + 2
    BY <1>1, <1>8
  <1> QED
    BY <1>8, <1>9 DEF IInv, Suffix

-----------------------------------------------------------------------------
(* The steps. *)

(* ClientSends keeps IInv: what is sent comes to the end of stdin and of   *)
(* sent alike, and an exit has both parts.                                 *)
LEMMA ClientSendsStep ==
    ASSUME IInv, NEW m \in Messages, ClientSends(m)
    PROVE  IInv'
  <1>1. TypeOK'
    <2>1. m \in Seq(Fragments)
      BY MessageType
    <2>2. sent' \in Seq(Fragments) /\ stdin' \in Seq(Fragments)
      BY <2>1 DEF IInv, TypeOK, ClientSends
    <2> QED
      BY <2>2 DEF IInv, TypeOK, ClientSends, proxyVars, daemonVars
  <1>2. Upward'
    <2> SUFFICES ASSUME handler \in {"start", "init", "running"} PROVE Upward'
      BY DEF Upward, ClientSends, daemonVars
    <2>1. m \in Seq(Fragments)
      BY MessageType
    <2>2. Stream(handled, FlattenSeq(inbox), Bytes, chunk, Cat(stdin, m)) = Cat(sent, m)
      <3>1. Stream(handled, FlattenSeq(inbox), Bytes, chunk, stdin) = sent
        BY DEF IInv, Upward
      <3> QED
        BY <2>1, <3>1, UpwardType, ClientMoves
    <2>3. stdin' = Cat(stdin, m) /\ sent' = Cat(sent, m)
      BY DEF ClientSends, Cat
    <2>4. UNCHANGED <<handled, inbox, Bytes, chunk>>
      BY DEF Bytes, ClientSends, proxyVars, daemonVars
    <2> QED
      BY <2>2, <2>3, <2>4 DEF Upward
  <1>3. Downward'
    BY DEF IInv, Downward, Replies, ProxyOpen, proxyVars, daemonVars, ClientSends
  <1>4. Beginning'
    BY DEF IInv, Beginning, proxyVars, daemonVars, ClientSends
  <1>5. Threads'
    BY DEF IInv, Threads, ProxyOpen, proxyVars, daemonVars, ClientSends
  <1>6. Suffix'
    <2>0. /\ m \in Seq(Fragments) /\ Len(m) \in 1..2
          /\ \A i \in 1..Len(m) : m[i] = "ex" => i + 1 <= Len(m) /\ m[i + 1] = "it"
      BY MessageType, MessageShape
    <2>1. sent \in Seq(Fragments) /\ stdin \in Seq(Fragments)
      BY DEF IInv, TypeOK
    <2>2. /\ Len(sent') = Len(sent) + Len(m) /\ Len(stdin') = Len(stdin) + Len(m)
          /\ \A i \in 1..Len(sent) + Len(m) :
                sent'[i] = IF i <= Len(sent) THEN sent[i] ELSE m[i - Len(sent)]
          /\ \A i \in 1..Len(stdin) + Len(m) :
                stdin'[i] = IF i <= Len(stdin) THEN stdin[i] ELSE m[i - Len(stdin)]
      BY DEF ClientSends
    <2>3. Len(sent) \in Nat /\ Len(stdin) \in Nat /\ Len(m) \in Nat /\ Len(stdin) <= Len(sent)
      BY DEF IInv, Suffix
    <2>4. ASSUME NEW i \in 1..Len(stdin') PROVE stdin'[i] = sent'[Len(sent') - Len(stdin') + i]
      <3>1. Len(sent') - Len(stdin') + i = Len(sent) - Len(stdin) + i
        BY <2>2
      <3>2. CASE i <= Len(stdin)
        <4>1. /\ stdin'[i] = stdin[i] /\ i \in 1..Len(stdin)
              /\ sent'[Len(sent) - Len(stdin) + i] = sent[Len(sent) - Len(stdin) + i]
          BY <3>2, <2>2, <2>3
        <4> QED
          BY <4>1, <3>1 DEF IInv, Suffix
      <3>3. CASE i > Len(stdin)
        <4>1. /\ stdin'[i] = m[i - Len(stdin)]
              /\ sent'[Len(sent) - Len(stdin) + i]
                   = m[Len(sent) - Len(stdin) + i - Len(sent)]
          BY <3>3, <2>2, <2>3
        <4>2. Len(sent) - Len(stdin) + i - Len(sent) = i - Len(stdin)
          OBVIOUS
        <4> QED
          BY <4>1, <3>1
      <3> QED
        BY <3>2, <3>3
    <2>5. ASSUME NEW i \in 1..Len(sent'), sent'[i] = "ex"
          PROVE  i + 1 <= Len(sent') /\ sent'[i + 1] = "it"
      <3>1. CASE i <= Len(sent)
        <4>1. i \in 1..Len(sent) /\ sent[i] = "ex"
          BY <3>1, <2>5, <2>2
        <4>2. i + 1 <= Len(sent) /\ sent[i + 1] = "it"
          BY <4>1 DEF IInv, Suffix
        <4> QED
          BY <4>2, <2>2
      <3>2. CASE i > Len(sent)
        <4>1. i - Len(sent) \in 1..Len(m) /\ m[i - Len(sent)] = "ex"
          BY <3>2, <2>5, <2>2
        <4>2. i - Len(sent) + 1 <= Len(m) /\ m[i - Len(sent) + 1] = "it"
          BY <4>1, <2>0
        <4>3. i - Len(sent) + 1 = i + 1 - Len(sent)
          OBVIOUS
        <4> QED
          BY <4>2, <3>2, <2>2
      <3> QED
        BY <3>1, <3>2
    <2> QED
      BY <2>2, <2>3, <2>4, <2>5 DEF Suffix
  <1>0. ASSUME NEW f PROVE Contains(sent, f) => Contains(sent, f)'
    <2>1. sent \in Seq(Fragments) /\ m \in Seq(Fragments) /\ sent' = sent \o m
      BY MessageType DEF IInv, TypeOK, ClientSends
    <2> QED
      BY <2>1 DEF Contains
  <1>7. ExitIsSeen'
    BY <1>0 DEF IInv, ExitIsSeen, proxyVars, daemonVars, ClientSends
  <1>8. Codes'
    BY <1>0 DEF IInv, Codes, proxyVars, daemonVars, ClientSends
  <1> QED
    BY <1>1, <1>2, <1>3, <1>4, <1>5, <1>6, <1>7, <1>8 DEF IInv

(* ClientCloses keeps IInv: only the flag changes.                         *)
LEMMA ClientClosesStep ==
    ASSUME IInv, ClientCloses
    PROVE  IInv'
  <1>1. TypeOK'
    <2>1. Scalars'
      <3>1. stdinOpen' \in BOOLEAN
        BY DEF ClientCloses
      <3>2. Scalars /\ UNCHANGED <<stdinFailed, exitSeen, cut, pump, code, handler, reader,
                                  writer, ended, sessions>>
        BY TypeParts DEF IInv, ClientCloses, proxyVars, daemonVars
      <3> QED
        BY <3>1, <3>2 DEF Scalars
    <2>2. Sequences'
      BY TypeParts DEF IInv, Sequences, ClientCloses, proxyVars, daemonVars
    <2> QED
      BY <2>1, <2>2, TypePartsNext
  <1>2. Upward'
    BY DEF IInv, Upward, Bytes, proxyVars, daemonVars, ClientCloses
  <1>3. Downward'
    BY DEF IInv, Downward, Replies, ProxyOpen, proxyVars, daemonVars, ClientCloses
  <1>4. Beginning'
    BY DEF IInv, Beginning, proxyVars, daemonVars, ClientCloses
  <1>5. Threads'
    BY DEF IInv, Threads, ProxyOpen, proxyVars, daemonVars, ClientCloses
  <1>6. Suffix'
    BY DEF IInv, TypeOK, Upward, Downward, Beginning, Threads, Suffix, ExitIsSeen,
           Codes, Bytes, Replies, Fragments, Singles, Exit, ProxyOpen, DaemonOpen,
           Messages, Accepted, clientVars, proxyVars, daemonVars, ClientCloses
  <1>7. ExitIsSeen'
    BY DEF IInv, ExitIsSeen, proxyVars, daemonVars, ClientCloses
  <1>8. Codes'
    BY DEF Codes, ClientCloses
  <1> QED
    BY <1>1, <1>2, <1>3, <1>4, <1>5, <1>6, <1>7, <1>8 DEF IInv

(* ProxyAccepted keeps IInv: there is nothing in the connection but the    *)
(* line that is dropped.                                                   *)
LEMMA ProxyAcceptedStep ==
    ASSUME IInv, ProxyAccepted
    PROVE  IInv'
  <1>1. TypeOK'
    BY DEF IInv, TypeOK, clientVars, daemonVars, ProxyAccepted
  <1>2. Upward'
    BY DEF IInv, Upward, Bytes, clientVars, daemonVars, ProxyAccepted
  <1>3. Downward'
    <2>1. pump = "off" /\ down \in {<<>>, <<Accepted>>} /\ down # <<>>
      BY DEF IInv, Beginning, ProxyAccepted
    <2>2. Tail(<<Accepted>>) = <<>>
      OBVIOUS
    <2>3. Replies = <<>>
      BY <2>1, <2>2 DEF Replies
    <2>4. Replies' = <<>>
      BY DEF Replies, ProxyAccepted
    <2> QED
      BY <2>3, <2>4 DEF IInv, Downward, ProxyAccepted, daemonVars
  <1>4. Beginning'
    BY DEF IInv, Beginning, daemonVars, ProxyAccepted
  <1>5. Threads'
    BY DEF IInv, Beginning, Threads, daemonVars, ProxyAccepted
  <1>6. Suffix'
    BY DEF IInv, Beginning, Suffix, clientVars, ProxyAccepted
  <1>7. ExitIsSeen'
    BY DEF IInv, ExitIsSeen, clientVars, daemonVars, ProxyAccepted
  <1>8. Codes'
    BY DEF Codes, ProxyOpen, ProxyAccepted
  <1> QED
    BY <1>1, <1>2, <1>3, <1>4, <1>5, <1>6, <1>7, <1>8 DEF IInv

(* ProxyRefused keeps IInv: the handler has ended before it accepted, so   *)
(* no session has exited.                                                  *)
LEMMA ProxyRefusedStep ==
    ASSUME IInv, ProxyRefused
    PROVE  IInv'
  <1>1. TypeOK'
    BY DEF IInv, TypeOK, clientVars, daemonVars, ProxyRefused
  <1>2. Upward'
    BY DEF IInv, Upward, Beginning, DaemonOpen, daemonVars, ProxyRefused
  <1>3. Downward'
    BY DEF Downward, ProxyOpen, ProxyRefused
  <1>4. Beginning'
    BY DEF IInv, Beginning, daemonVars, ProxyRefused
  <1>5. Threads'
    BY DEF IInv, Threads, daemonVars, ProxyRefused
  <1>6. Suffix'
    BY DEF IInv, Suffix, clientVars, ProxyRefused
  <1>7. ExitIsSeen'
    BY DEF IInv, ExitIsSeen, clientVars, daemonVars, ProxyRefused
  <1>8. Codes'
    BY DEF IInv, Beginning, Codes, DaemonOpen, daemonVars, ProxyRefused
  <1> QED
    BY <1>1, <1>2, <1>3, <1>4, <1>5, <1>6, <1>7, <1>8 DEF IInv

(* PumpReads keeps IInv: an exit in the part read is seen, or the read has *)
(* cut it in two.                                                          *)
LEMMA PumpReadsStep ==
    ASSUME IInv, PumpReads
    PROVE  IInv'
  <1>1. TypeOK'
    <2>1. PICK n \in 1..Len(stdin) :
            /\ chunk' = SubSeq(stdin, 1, n)
            /\ stdin' = SubSeq(stdin, n + 1, Len(stdin))
            /\ cut' = (cut \/ stdin[n] = "ex")
            /\ exitSeen' = (exitSeen \/ HasExit(chunk'))
      BY DEF PumpReads
    <2>2. stdin \in Seq(Fragments)
      BY DEF IInv, TypeOK
    <2>3. /\ chunk' \in Seq(Fragments) /\ stdin' \in Seq(Fragments)
          /\ Len(chunk') = n /\ Len(stdin') = Len(stdin) - n
          /\ \A i \in 1..n : chunk'[i] = stdin[i]
          /\ \A i \in 1..Len(stdin) - n : stdin'[i] = stdin[n + i]
          /\ chunk' \o stdin' = stdin
      BY <2>1, <2>2
    <2>4. exitSeen' \in BOOLEAN /\ cut' \in BOOLEAN
      BY <2>1
    <2> QED
      BY <2>3 DEF IInv, TypeOK, PumpReads, daemonVars
  <1>2. Upward'
    <2> SUFFICES ASSUME handler \in {"start", "init", "running"} PROVE Upward'
      BY DEF Upward, PumpReads, daemonVars
    <2>1. PICK n \in 1..Len(stdin) :
            /\ chunk' = SubSeq(stdin, 1, n)
            /\ stdin' = SubSeq(stdin, n + 1, Len(stdin))
            /\ cut' = (cut \/ stdin[n] = "ex")
            /\ exitSeen' = (exitSeen \/ HasExit(chunk'))
      BY DEF PumpReads
    <2>2. stdin \in Seq(Fragments)
      BY DEF IInv, TypeOK
    <2>3. /\ chunk' \in Seq(Fragments) /\ stdin' \in Seq(Fragments)
          /\ Len(chunk') = n /\ Len(stdin') = Len(stdin) - n
          /\ \A i \in 1..n : chunk'[i] = stdin[i]
          /\ \A i \in 1..Len(stdin) - n : stdin'[i] = stdin[n + i]
          /\ chunk' \o stdin' = stdin
      BY <2>1, <2>2, CutInTwo
    <2>4. Stream(handled, FlattenSeq(inbox), Bytes, chunk', stdin') = sent
      <3>1. Stream(handled, FlattenSeq(inbox), Bytes, chunk', stdin')
              = Stream(handled, FlattenSeq(inbox), Bytes, <<>>, Cat(chunk', stdin'))
        BY <2>3, UpwardType, PumpReadMoves
      <3>2. chunk = <<>>
        BY DEF IInv, Threads, PumpReads
      <3>3. Cat(chunk', stdin') = stdin
        BY <2>3 DEF Cat
      <3>4. Stream(handled, FlattenSeq(inbox), Bytes, chunk, stdin) = sent
        BY DEF IInv, Upward
      <3> QED
        BY <3>1, <3>2, <3>3, <3>4
    <2>5. UNCHANGED <<handled, inbox, Bytes, sent>>
      BY DEF Bytes, PumpReads, daemonVars
    <2> QED
      BY <2>4, <2>5 DEF Upward
  <1>3. Downward'
    BY DEF IInv, Downward, Replies, daemonVars, PumpReads
  <1>4. Beginning'
    BY DEF IInv, Beginning, daemonVars, PumpReads
  <1>5. Threads'
    BY DEF IInv, Threads, daemonVars, PumpReads
  <1>6. Suffix'
    <2>1. PICK n \in 1..Len(stdin) :
            /\ chunk' = SubSeq(stdin, 1, n)
            /\ stdin' = SubSeq(stdin, n + 1, Len(stdin))
            /\ cut' = (cut \/ stdin[n] = "ex")
            /\ exitSeen' = (exitSeen \/ HasExit(chunk'))
      BY DEF PumpReads
    <2>2. stdin \in Seq(Fragments)
      BY DEF IInv, TypeOK
    <2>3. /\ chunk' \in Seq(Fragments) /\ stdin' \in Seq(Fragments)
          /\ Len(chunk') = n /\ Len(stdin') = Len(stdin) - n
          /\ \A i \in 1..n : chunk'[i] = stdin[i]
          /\ \A i \in 1..Len(stdin) - n : stdin'[i] = stdin[n + i]
          /\ chunk' \o stdin' = stdin
      BY <2>1, <2>2
    <2>4. Len(sent) \in Nat /\ Len(stdin) \in Nat /\ n \in Nat /\ Len(stdin) <= Len(sent)
      BY DEF IInv, Suffix
    <2>5. ASSUME NEW i \in 1..Len(stdin') PROVE stdin'[i] = sent[Len(sent) - Len(stdin') + i]
      <3>1. n + i \in 1..Len(stdin) /\ stdin'[i] = stdin[n + i]
        BY <2>3
      <3>2. stdin[n + i] = sent[Len(sent) - Len(stdin) + (n + i)]
        BY <3>1 DEF IInv, Suffix
      <3>3. Len(sent) - Len(stdin) + (n + i) = Len(sent) - Len(stdin') + i
        BY <2>3
      <3> QED
        BY <3>1, <3>2, <3>3
    <2>6. Len(stdin') <= Len(sent)
      BY <2>3, <2>4
    <2> QED
      BY <2>5, <2>6 DEF IInv, Suffix, PumpReads
  <1>7. ExitIsSeen'
    <2>1. PICK n \in 1..Len(stdin) :
            /\ chunk' = SubSeq(stdin, 1, n)
            /\ stdin' = SubSeq(stdin, n + 1, Len(stdin))
            /\ cut' = (cut \/ stdin[n] = "ex")
            /\ exitSeen' = (exitSeen \/ HasExit(chunk'))
      BY DEF PumpReads
    <2>2. stdin \in Seq(Fragments)
      BY DEF IInv, TypeOK
    <2>3. /\ chunk' \in Seq(Fragments) /\ stdin' \in Seq(Fragments)
          /\ Len(chunk') = n /\ Len(stdin') = Len(stdin) - n
          /\ \A i \in 1..n : chunk'[i] = stdin[i]
          /\ \A i \in 1..Len(stdin) - n : stdin'[i] = stdin[n + i]
          /\ chunk' \o stdin' = stdin
      BY <2>1, <2>2
    <2>4. Len(sent) \in Nat /\ Len(stdin) \in Nat /\ n \in Nat /\ Len(stdin) <= Len(sent)
      BY DEF IInv, Suffix
    <2>5. \A i \in 1..n : chunk'[i] = sent[Len(sent) - Len(stdin) + i]
      <3> SUFFICES ASSUME NEW i \in 1..n PROVE chunk'[i] = sent[Len(sent) - Len(stdin) + i]
        OBVIOUS
      <3>1. i \in 1..Len(stdin) /\ chunk'[i] = stdin[i]
        BY <2>3
      <3> QED
        BY <3>1 DEF IInv, Suffix
    <2>6. ASSUME ~cut', NEW i \in 1..Len(sent) - Len(stdin'), sent[i] = "ex"
          PROVE  exitSeen'
      <3>1. CASE i <= Len(sent) - Len(stdin)
        <4>1. ~cut
          BY <2>1, <2>6, Zenon
        <4>2. i \in 1..Len(sent) - Len(stdin)
          BY <3>1
        <4>3. exitSeen
          BY <4>1, <4>2, <2>6 DEF IInv, ExitIsSeen
        <4> QED
          BY <4>3, <2>1, Zenon
      <3>2. CASE i > Len(sent) - Len(stdin)
        <4> DEFINE j == i - (Len(sent) - Len(stdin))
        <4>1. j \in 1..n /\ Len(sent) - Len(stdin) + j = i
          BY <3>2, <2>3
        <4>2. chunk'[j] = "ex" /\ stdin[j] = "ex"
          BY <4>1, <2>5, <2>3, <2>6
        <4>3. j # n
          BY <4>2, <2>1, <2>6
        <4>4. j + 1 \in 1..n /\ Len(sent) - Len(stdin) + (j + 1) = i + 1
          BY <4>1, <4>3
        <4>5. sent[i + 1] = "it"
          BY <2>6 DEF IInv, Suffix
        <4>6. chunk'[j + 1] = "it"
          BY <4>4, <4>5, <2>5
        <4>7. j \in 1..Len(chunk') - 1
          BY <4>1, <4>4, <2>3
        <4> HIDE DEF j
        <4>8. HasExit(chunk')
          BY <4>2, <4>6, <4>7 DEF HasExit
        <4> QED
          BY <4>8, <2>1
      <3> QED
        BY <3>1, <3>2
    <2>7. ASSUME HasExit(chunk') PROVE Contains(sent, "it") \/ Contains(sent, "quoted")
      <3>1. ASSUME NEW j \in 1..n PROVE Contains(sent, chunk'[j])
        <4>1. Len(sent) - Len(stdin) + j \in 1..Len(sent)
          BY <2>4
        <4> QED
          BY <4>1, <2>5 DEF Contains
      <3>2. CASE \E i \in 1..Len(chunk') - 1 : chunk'[i] = "ex" /\ chunk'[i + 1] = "it"
        <4>1. PICK i \in 1..Len(chunk') - 1 : chunk'[i + 1] = "it"
          BY <3>2
        <4>2. i + 1 \in 1..n
          BY <2>3
        <4> QED
          BY <3>1, <4>1, <4>2
      <3>3. CASE \E i \in 1..Len(chunk') : chunk'[i] = "quoted"
        BY <2>3, <3>1, <3>3
      <3> QED
        BY <2>7, <3>2, <3>3 DEF HasExit
    <2> QED
      BY <2>1, <2>6, <2>7 DEF IInv, ExitIsSeen, PumpReads, daemonVars
  <1>8. Codes'
    BY DEF Codes, ProxyOpen, PumpReads
  <1> QED
    BY <1>1, <1>2, <1>3, <1>4, <1>5, <1>6, <1>7, <1>8 DEF IInv

(* PumpEnds keeps IInv: stdin is closed, for code zero.                    *)
LEMMA PumpEndsStep ==
    ASSUME IInv, PumpEnds
    PROVE  IInv'
  <1>1. TypeOK'
    BY DEF IInv, TypeOK, clientVars, daemonVars, PumpEnds
  <1>2. Upward'
    BY DEF IInv, Upward, Bytes, clientVars, daemonVars, PumpEnds
  <1>3. Downward'
    BY DEF Downward, ProxyOpen, PumpEnds
  <1>4. Beginning'
    BY DEF IInv, Beginning, daemonVars, PumpEnds
  <1>5. Threads'
    BY DEF IInv, Threads, daemonVars, PumpEnds
  <1>6. Suffix'
    BY DEF IInv, Suffix, Exit, clientVars, PumpEnds
  <1>7. ExitIsSeen'
    BY DEF IInv, ExitIsSeen, clientVars, daemonVars, PumpEnds
  <1>8. Codes'
    BY DEF Codes, clientVars, PumpEnds
  <1> QED
    BY <1>1, <1>2, <1>3, <1>4, <1>5, <1>6, <1>7, <1>8 DEF IInv

(* PumpFails keeps IInv: the read has failed, for code zero.               *)
LEMMA PumpFailsStep ==
    ASSUME IInv, PumpFails
    PROVE  IInv'
  <1>1. TypeOK'
    <2>1. Scalars'
      BY TypeParts DEF IInv, Scalars, PumpFails, daemonVars
    <2>2. Sequences'
      BY TypeParts DEF IInv, Sequences, PumpFails, daemonVars
    <2> QED
      BY <2>1, <2>2, TypePartsNext
  <1>2. Upward'
    BY DEF IInv, Upward, Bytes, daemonVars, PumpFails
  <1>3. Downward'
    BY DEF Downward, ProxyOpen, PumpFails
  <1>4. Beginning'
    BY DEF IInv, Beginning, daemonVars, PumpFails
  <1>5. Threads'
    BY DEF IInv, Threads, daemonVars, PumpFails
  <1>6. Suffix'
    BY DEF IInv, Suffix, Exit, PumpFails
  <1>7. ExitIsSeen'
    BY DEF IInv, ExitIsSeen, daemonVars, PumpFails
  <1>8. Codes'
    BY DEF Codes, PumpFails
  <1> QED
    BY <1>1, <1>2, <1>3, <1>4, <1>5, <1>6, <1>7, <1>8 DEF IInv

(* PumpWrites keeps IInv: the chunk moves on while the daemon is open,     *)
(* which the handler is as long as the stream counts.                      *)
LEMMA PumpWritesStep ==
    ASSUME IInv, PumpWrites
    PROVE  IInv'
  <1>1. TypeOK'
    <2>0. DaemonOpen => up \in Seq(Fragments) /\ handler # "start"
      BY DEF IInv, Beginning, Threads, DaemonOpen, PumpWrites
    <2>1. chunk \in Seq(Fragments)
      BY DEF IInv, TypeOK
    <2>2. DaemonOpen => up \o chunk \in Seq(Fragments)
      BY <2>0, <2>1
    <2>3. Scalars'
      BY TypeParts DEF IInv, Scalars, PumpWrites, clientVars, daemonVars
    <2>4. up' \in Seq(Fragments) \cup {<<"lsp">>} /\ chunk' \in Seq(Fragments)
      BY <2>1, <2>2, TypeParts, SeqEmpty DEF IInv, Sequences, PumpWrites
    <2>5. Sequences'
      BY <2>4, TypeParts DEF IInv, Sequences, PumpWrites, clientVars, daemonVars
    <2> QED
      BY <2>3, <2>5, TypePartsNext
  <1>2. Upward'
    <2> SUFFICES ASSUME handler \in {"start", "init", "running"} PROVE Upward'
      BY DEF Upward, PumpWrites, daemonVars
    <2>0. DaemonOpen => up \in Seq(Fragments) /\ handler # "start"
      BY DEF IInv, Beginning, Threads, PumpWrites
    <2>1. chunk \in Seq(Fragments)
      BY DEF IInv, TypeOK
    <2>2. DaemonOpen => up \o chunk \in Seq(Fragments)
      BY <2>0, <2>1
    <2>3. CASE DaemonOpen
      <3>1. Bytes = up /\ Bytes' = Cat(up, chunk)
        BY <2>0, <2>3 DEF Bytes, Cat, PumpWrites, daemonVars
      <3>2. Stream(handled, FlattenSeq(inbox), Cat(up, chunk), <<>>, stdin) = sent
        <4>1. Stream(handled, FlattenSeq(inbox), Cat(up, chunk), <<>>, stdin)
                = Stream(handled, FlattenSeq(inbox), up, chunk, stdin)
          BY <2>0, <2>3, UpwardType, PumpWriteMoves
        <4>2. Stream(handled, FlattenSeq(inbox), Bytes, chunk, stdin) = sent
          BY DEF IInv, Upward
        <4> QED
          BY <4>1, <4>2, <3>1
      <3>3. chunk' = <<>> /\ UNCHANGED <<handled, inbox, sent, stdin>>
        BY <2>3 DEF PumpWrites, clientVars, daemonVars
      <3> QED
        BY <3>1, <3>2, <3>3 DEF Upward
    <2>4. CASE ~DaemonOpen
      BY <2>4 DEF IInv, Upward, Bytes, PumpWrites, clientVars, daemonVars
    <2> QED
      BY <2>3, <2>4
  <1>3. Downward'
    BY DEF IInv, Downward, Replies, daemonVars, PumpWrites
  <1>4. Beginning'
    BY DEF IInv, Beginning, daemonVars, PumpWrites
  <1>5. Threads'
    <2>0. DaemonOpen => up \in Seq(Fragments) /\ handler # "start"
      BY DEF IInv, Beginning, Threads, DaemonOpen, PumpWrites
    <2>1. chunk \in Seq(Fragments)
      BY DEF IInv, TypeOK
    <2>2. DaemonOpen => up \o chunk \in Seq(Fragments)
      BY <2>0, <2>1
    <2>3. CASE DaemonOpen
      <3>1. up' \in Seq(Fragments) /\ chunk' = <<>>
        BY <2>2, <2>3 DEF PumpWrites
      <3> QED
        BY <3>1 DEF IInv, Threads, PumpWrites, daemonVars
    <2>4. CASE ~DaemonOpen
      BY <2>4 DEF IInv, Threads, PumpWrites, daemonVars
    <2> QED
      BY <2>3, <2>4
  <1>6. Suffix'
    BY DEF IInv, Suffix, clientVars, PumpWrites
  <1>7. ExitIsSeen'
    BY DEF IInv, ExitIsSeen, clientVars, daemonVars, PumpWrites
  <1>8. Codes'
    BY DEF Codes, ProxyOpen, PumpWrites
  <1> QED
    BY <1>1, <1>2, <1>3, <1>4, <1>5, <1>6, <1>7, <1>8 DEF IInv

(* Copy keeps IInv: all replies in the connection go to stdout.            *)
LEMMA CopyStep ==
    ASSUME IInv, Copy
    PROVE  IInv'
  <1>1. TypeOK'
    BY DEF IInv, TypeOK, clientVars, proxyVars, daemonVars, Copy
  <1>2. Upward'
    BY DEF IInv, Upward, Bytes, clientVars, proxyVars, daemonVars, Copy
  <1>3. Downward'
    <2> SUFFICES ASSUME handler # "killed", ProxyOpen PROVE Downward'
      BY DEF Downward, Copy, daemonVars
    <2>1. Replies = down /\ Replies' = <<>>
      BY DEF Replies, Copy
    <2>2. out \in Seq(Nat) /\ down \in Seq(Nat) /\ outbox \in Seq(Nat)
      BY DEF IInv, TypeOK
    <2>3. out' = Cat(out, down) /\ UNCHANGED <<handled, outbox>>
      BY DEF Cat, Copy, daemonVars
    <2>4. Answers(Cat(out, down), <<>>, outbox) = Answers(out, down, outbox)
      <3>1. Cat(out, down) \in Seq(Nat)
        BY <2>2, CatType
      <3>2. Cat(Cat(out, down), <<>>) = Cat(out, down)
        BY <3>1, CatEmpty
      <3> QED
        BY <3>2 DEF Answers
    <2>5. Answers(out, Replies, outbox) = UpTo(Len(handled))
      BY DEF IInv, Downward
    <2> QED
      BY <2>1, <2>3, <2>4, <2>5 DEF Downward
  <1>4. Beginning'
    BY DEF IInv, Beginning, proxyVars, daemonVars, Copy
  <1>5. Threads'
    BY DEF IInv, Threads, proxyVars, daemonVars, Copy
  <1>6. Suffix'
    BY DEF IInv, TypeOK, Upward, Downward, Beginning, Threads, Suffix, ExitIsSeen,
           Codes, Bytes, Replies, Fragments, Singles, Exit, ProxyOpen, DaemonOpen,
           Messages, Accepted, clientVars, proxyVars, daemonVars, Copy
  <1>7. ExitIsSeen'
    BY DEF IInv, ExitIsSeen, clientVars, proxyVars, daemonVars, Copy
  <1>8. Codes'
    BY DEF Codes, ProxyOpen, proxyVars, Copy
  <1> QED
    BY <1>1, <1>2, <1>3, <1>4, <1>5, <1>6, <1>7, <1>8 DEF IInv

(* CopyEnds keeps IInv: the daemon is not open, so the session is over,    *)
(* and a session that exited has been seen to, or cut.                     *)
LEMMA CopyEndsStep ==
    ASSUME IInv, CopyEnds
    PROVE  IInv'
  <1>1. TypeOK'
    BY DEF IInv, TypeOK, clientVars, daemonVars, CopyEnds
  <1>2. Upward'
    BY DEF IInv, Upward, Threads, DaemonOpen, daemonVars, CopyEnds
  <1>3. Downward'
    BY DEF Downward, ProxyOpen, CopyEnds
  <1>4. Beginning'
    BY DEF IInv, Beginning, daemonVars, CopyEnds
  <1>5. Threads'
    BY DEF IInv, Threads, daemonVars, CopyEnds
  <1>6. Suffix'
    BY DEF IInv, Suffix, Fragments, clientVars, CopyEnds
  <1>7. ExitIsSeen'
    BY DEF IInv, ExitIsSeen, clientVars, daemonVars, CopyEnds
  <1>8. Codes'
    BY DEF IInv, Threads, ExitIsSeen, Codes, DaemonOpen, clientVars, daemonVars,
           CopyEnds
  <1> QED
    BY <1>1, <1>2, <1>3, <1>4, <1>5, <1>6, <1>7, <1>8 DEF IInv

(* CopyFails keeps IInv: stdin is closed.                                  *)
LEMMA CopyFailsStep ==
    ASSUME IInv, CopyFails
    PROVE  IInv'
  <1>1. TypeOK'
    BY DEF IInv, TypeOK, clientVars, daemonVars, CopyFails
  <1>2. Upward'
    BY DEF IInv, Upward, Bytes, clientVars, daemonVars, CopyFails
  <1>3. Downward'
    BY DEF Downward, ProxyOpen, CopyFails
  <1>4. Beginning'
    BY DEF IInv, Beginning, daemonVars, CopyFails
  <1>5. Threads'
    BY DEF IInv, Threads, daemonVars, CopyFails
  <1>6. Suffix'
    BY DEF IInv, TypeOK, Upward, Downward, Beginning, Threads, Suffix, ExitIsSeen,
           Codes, Bytes, Replies, Fragments, Singles, Exit, ProxyOpen, DaemonOpen,
           Messages, Accepted, clientVars, proxyVars, daemonVars, CopyFails
  <1>7. ExitIsSeen'
    BY DEF IInv, ExitIsSeen, clientVars, daemonVars, CopyFails
  <1>8. Codes'
    BY DEF Codes, clientVars, CopyFails
  <1> QED
    BY <1>1, <1>2, <1>3, <1>4, <1>5, <1>6, <1>7, <1>8 DEF IInv

(* HandlerAccepts keeps IInv: the connection holds the first line and      *)
(* nothing else.                                                           *)
LEMMA HandlerAcceptsStep ==
    ASSUME IInv, HandlerAccepts
    PROVE  IInv'
  <1>1. TypeOK'
    <2>1. Scalars'
      BY TypeParts
      DEF IInv, Scalars, Threads, HandlerAccepts, HandlerEnds, clientVars, proxyVars
    <2>2. <<Accepted>> \in Seq(Nat)
      BY DEF Accepted
    <2>3. down' \in Seq(Nat) /\ up' \in Seq(Fragments)
      BY <2>2, TypeParts, SeqEmpty DEF IInv, Sequences, HandlerAccepts
    <2>4. Sequences'
      BY <2>3, TypeParts DEF IInv, Sequences, HandlerAccepts, clientVars, proxyVars
    <2> QED
      BY <2>1, <2>4, TypePartsNext
  <1>2. Upward'
    <2>1. up = <<"lsp">> /\ handler = "start" /\ up' = <<>>
      BY DEF IInv, Beginning, HandlerAccepts
    <2>2. Bytes = <<>>
      BY <2>1 DEF Bytes
    <2>3. Bytes' = <<>>
      BY <2>1 DEF Bytes
    <2> QED
      BY <2>2, <2>3 DEF IInv, Upward, HandlerAccepts, clientVars, proxyVars
  <1>3. Downward'
    <2> SUFFICES ASSUME ProxyOpen PROVE Downward'
      BY DEF Downward, ProxyOpen, HandlerAccepts, proxyVars
    <2>1. pump = "off" /\ down = <<>> /\ handler = "start"
      BY DEF IInv, Beginning, HandlerAccepts
    <2>2. Tail(<<Accepted>>) = <<>>
      OBVIOUS
    <2>3. Replies = <<>>
      BY <2>1 DEF Replies
    <2>4. Replies' = <<>>
      BY <2>1, <2>2 DEF Replies, HandlerAccepts, proxyVars
    <2> QED
      BY <2>3, <2>4 DEF IInv, Downward, HandlerAccepts
  <1>4. Beginning'
    BY DEF IInv, Beginning, proxyVars, HandlerAccepts, HandlerEnds
  <1>5. Threads'
    BY DEF IInv, Beginning, Threads, proxyVars, HandlerAccepts, HandlerEnds
  <1>6. Suffix'
    BY DEF IInv, Suffix, clientVars, HandlerAccepts
  <1>7. ExitIsSeen'
    BY DEF IInv, ExitIsSeen, clientVars, proxyVars, HandlerAccepts
  <1>8. Codes'
    BY DEF IInv, Codes, clientVars, proxyVars, HandlerAccepts
  <1> QED
    BY <1>1, <1>2, <1>3, <1>4, <1>5, <1>6, <1>7, <1>8 DEF IInv

(* HandlerInitializes keeps IInv: the first message goes to the inbox, and *)
(* the threads start.                                                      *)
LEMMA HandlerInitializesStep ==
    ASSUME IInv, HandlerInitializes
    PROVE  IInv'
  <1>1. TypeOK'
    <2>0. up \in Seq(Fragments) /\ Whole(up)
      BY DEF IInv, Threads, HandlerInitializes
    <2>1. /\ First(up) \in Seq(Fragments) /\ Rest(up) \in Seq(Fragments)
          /\ First(up) \in Singles \cup {Exit}
      BY <2>0, FirstRest
    <2>2. First(up) = <<"init">> => inbox' \in Seq(Seq(Fragments))
      <3>1. <<First(up)>> \in Seq(Seq(Fragments))
        BY <2>1
      <3> QED
        BY <3>1 DEF HandlerInitializes
    <2>3. Scalars'
      BY TypeParts
      DEF IInv, Scalars, Threads, HandlerInitializes, HandlerEnds, clientVars, proxyVars
    <2>4. up' \in Seq(Fragments) /\ inbox' \in Seq(Seq(Fragments))
      BY <2>1, <2>2, TypeParts DEF IInv, Sequences, HandlerInitializes
    <2>5. Sequences'
      BY <2>4, TypeParts DEF IInv, Sequences, HandlerInitializes, clientVars, proxyVars
    <2> QED
      BY <2>3, <2>5, TypePartsNext
  <1>2. Upward'
    <2> SUFFICES ASSUME First(up) = <<"init">> PROVE Upward'
      BY DEF Upward, HandlerInitializes, HandlerEnds
    <2>0. up \in Seq(Fragments) /\ Whole(up)
      BY DEF IInv, Threads, HandlerInitializes
    <2>1. /\ First(up) \in Seq(Fragments) /\ Rest(up) \in Seq(Fragments)
          /\ First(up) \in Singles \cup {Exit}
      BY <2>0, FirstRest
    <2>2. Cat(First(up), Rest(up)) = up
      BY <2>0, FirstRest, WholeIsThere DEF HandlerInitializes
    <2>3. FlattenSeq(<<First(up)>>) = Cat(<<>>, First(up))
      <3>1. FlattenSeq(Append(<<>>, First(up))) = Cat(FlattenSeq(<<>>), First(up))
        <4> DEFINE x == First(up)
        <4>1. x \in Seq(Fragments)
          BY <2>1
        <4> HIDE DEF x
        <4>2. FlattenSeq(Append(<<>>, x)) = Cat(FlattenSeq(<<>>), x)
          <5>1. <<>> \in Seq(Seq(Fragments))
            OBVIOUS
          <5> QED
            BY <4>1, <5>1, FlattenAppend
        <4> QED
          BY <4>2 DEF x
      <3>2. Append(<<>>, First(up)) = <<First(up)>>
        OBVIOUS
      <3> QED
        BY <3>1, FlattenEmpty
    <2>4. handled = <<>> /\ inbox = <<>> /\ Bytes = up /\ Bytes' = Rest(up)
      BY DEF IInv, Beginning, Bytes, HandlerInitializes
    <2>5. Stream(handled, Cat(FlattenSeq(inbox), First(up)), Rest(up), chunk, stdin)
            = Stream(handled, FlattenSeq(inbox), Cat(First(up), Rest(up)), chunk, stdin)
      <3>1. /\ handled \in Seq(Fragments) /\ FlattenSeq(inbox) \in Seq(Fragments)
            /\ chunk \in Seq(Fragments) /\ stdin \in Seq(Fragments)
        BY UpwardType DEF HandlerInitializes
      <3>2. First(up) \in Seq(Fragments) /\ Rest(up) \in Seq(Fragments)
        BY <2>1
      <3> DEFINE x == First(up)
                 y == Rest(up)
                 f == FlattenSeq(inbox)
      <3>3. /\ x \in Seq(Fragments) /\ y \in Seq(Fragments) /\ f \in Seq(Fragments)
            /\ handled \in Seq(Fragments) /\ chunk \in Seq(Fragments) /\ stdin \in Seq(Fragments)
        BY <3>1, <3>2
      <3> HIDE DEF x, y, f
      <3>4. Stream(handled, Cat(f, x), y, chunk, stdin) = Stream(handled, f, Cat(x, y), chunk, stdin)
        BY <3>3, ReaderMoves
      <3> QED
        BY <3>4 DEF x, y, f
    <2>6. Stream(handled, FlattenSeq(inbox), Bytes, chunk, stdin) = sent
      BY DEF IInv, Upward, HandlerInitializes
    <2>7. Stream(handled, FlattenSeq(<<First(up)>>), Rest(up), chunk, stdin) = sent
      BY <2>2, <2>3, <2>4, <2>5, <2>6, FlattenEmpty
    <2>8. inbox' = <<First(up)>> /\ UNCHANGED <<handled, chunk, stdin, sent>>
      BY DEF HandlerInitializes, clientVars, proxyVars
    <2> QED
      BY <2>4, <2>7, <2>8 DEF Upward
  <1>3. Downward'
    BY DEF IInv, Downward, Replies, ProxyOpen, proxyVars, HandlerInitializes
  <1>4. Beginning'
    <2>1. up \in Seq(Fragments) /\ up # <<>>
      BY DEF IInv, Threads, Whole, HandlerInitializes
    <2>2. up[1] \in Fragments
      BY <2>1
    <2>3. up # <<"lsp">>
      BY <2>2 DEF Fragments
    <2>4. pump # "off"
      BY <2>1, <2>3 DEF IInv, Beginning
    <2> QED
      BY <2>4 DEF Beginning, HandlerInitializes, HandlerEnds, proxyVars
  <1>5. Threads'
    <2>0. up \in Seq(Fragments) /\ Whole(up)
      BY DEF IInv, Threads, HandlerInitializes
    <2>1. /\ First(up) \in Seq(Fragments) /\ Rest(up) \in Seq(Fragments)
          /\ First(up) \in Singles \cup {Exit}
      BY <2>0, FirstRest
    <2>2. First(up) = <<"init">> => inbox' \in Seq(Singles \cup {Exit})
      <3>1. <<First(up)>> \in Seq(Singles \cup {Exit})
        BY <2>1
      <3> QED
        BY <3>1 DEF HandlerInitializes
    <2>3. inbox' \in Seq(Singles \cup {Exit}) /\ up' \in Seq(Fragments)
      BY <2>1, <2>2 DEF IInv, Threads, HandlerInitializes
    <2>4. reader = "off" /\ writer = "off"
      BY DEF IInv, Beginning, HandlerInitializes
    <2> QED
      BY <2>3, <2>4 DEF IInv, Threads, HandlerInitializes, HandlerEnds, proxyVars
  <1>6. Suffix'
    BY DEF IInv, Suffix, clientVars, HandlerInitializes
  <1>7. ExitIsSeen'
    BY DEF IInv, ExitIsSeen, clientVars, proxyVars, HandlerInitializes
  <1>8. Codes'
    BY DEF IInv, Codes, clientVars, proxyVars, HandlerInitializes
  <1> QED
    BY <1>1, <1>2, <1>3, <1>4, <1>5, <1>6, <1>7, <1>8 DEF IInv

(* HandlerLosesClient keeps IInv: the stream does not count any more.      *)
LEMMA HandlerLosesClientStep ==
    ASSUME IInv, HandlerLosesClient
    PROVE  IInv'
  <1>1. TypeOK'
    BY DEF IInv, TypeOK, Threads, clientVars, proxyVars, HandlerLosesClient, HandlerEnds
  <1>2. Upward'
    BY DEF Upward, HandlerLosesClient, HandlerEnds
  <1>3. Downward'
    BY DEF Downward, ProxyOpen, proxyVars, HandlerLosesClient
  <1>4. Beginning'
    BY DEF IInv, Beginning, proxyVars, HandlerLosesClient, HandlerEnds
  <1>5. Threads'
    BY DEF IInv, Beginning, Threads, proxyVars, HandlerLosesClient, HandlerEnds
  <1>6. Suffix'
    BY DEF IInv, Suffix, clientVars, HandlerLosesClient
  <1>7. ExitIsSeen'
    BY DEF IInv, ExitIsSeen, clientVars, proxyVars, HandlerLosesClient
  <1>8. Codes'
    BY DEF IInv, Codes, clientVars, proxyVars, HandlerLosesClient
  <1> QED
    BY <1>1, <1>2, <1>3, <1>4, <1>5, <1>6, <1>7, <1>8 DEF IInv

(* Join keeps IInv: both threads are done.                                 *)
LEMMA JoinStep ==
    ASSUME IInv, Join
    PROVE  IInv'
  <1>1. TypeOK'
    BY DEF IInv, TypeOK, Threads, clientVars, proxyVars, Join, HandlerEnds
  <1>2. Upward'
    BY DEF Upward, Join, HandlerEnds
  <1>3. Downward'
    BY DEF IInv, Downward, Replies, ProxyOpen, proxyVars, Join
  <1>4. Beginning'
    BY DEF IInv, Beginning, proxyVars, Join, HandlerEnds
  <1>5. Threads'
    BY DEF IInv, Threads, proxyVars, Join, HandlerEnds
  <1>6. Suffix'
    BY DEF IInv, Suffix, clientVars, Join
  <1>7. ExitIsSeen'
    BY DEF IInv, ExitIsSeen, clientVars, proxyVars, Join
  <1>8. Codes'
    BY DEF IInv, Codes, clientVars, proxyVars, Join, HandlerEnds
  <1> QED
    BY <1>1, <1>2, <1>3, <1>4, <1>5, <1>6, <1>7, <1>8 DEF IInv

(* ReaderReads keeps IInv: a message moves to the inbox, whole.            *)
LEMMA ReaderReadsStep ==
    ASSUME IInv, ReaderReads
    PROVE  IInv'
  <1>1. TypeOK'
    <2>0. up \in Seq(Fragments) /\ Whole(up)
      BY DEF IInv, Threads, Beginning, ReaderReads
    <2>1. /\ First(up) \in Seq(Fragments) /\ Rest(up) \in Seq(Fragments)
          /\ First(up) \in Singles \cup {Exit}
      BY <2>0, FirstRest
    <2>2. inbox' \in Seq(Seq(Fragments))
      <3>1. inbox \in Seq(Seq(Fragments))
        BY DEF IInv, TypeOK
      <3>2. Append(inbox, First(up)) \in Seq(Seq(Fragments))
        BY <2>1, <3>1
      <3> QED
        BY <3>1, <3>2 DEF ReaderReads
    <2>3. Scalars'
      BY TypeParts DEF IInv, Scalars, ReaderReads, clientVars, proxyVars
    <2>4. up' \in Seq(Fragments)
      BY <2>1 DEF ReaderReads
    <2>5. Sequences'
      BY <2>2, <2>4, TypeParts DEF IInv, Sequences, ReaderReads, clientVars, proxyVars
    <2> QED
      BY <2>3, <2>5, TypePartsNext
  <1>2. Upward'
    <2>0. handler # "start" /\ handler # "init"
      BY DEF IInv, Beginning, ReaderReads
    <2> SUFFICES ASSUME handler = "running" PROVE Upward'
      BY <2>0 DEF Upward, ReaderReads
    <2>1. up \in Seq(Fragments) /\ Whole(up)
      BY DEF IInv, Threads, ReaderReads
    <2>2. /\ First(up) \in Seq(Fragments) /\ Rest(up) \in Seq(Fragments)
          /\ Cat(First(up), Rest(up)) = up
      BY <2>1, FirstRest, WholeIsThere
    <2>3. inbox' = Append(inbox, First(up))
      BY DEF ReaderReads
    <2>4. FlattenSeq(inbox') = Cat(FlattenSeq(inbox), First(up))
      BY <2>2, <2>3, UpwardType, FlattenAppend
    <2>5. Stream(handled, Cat(FlattenSeq(inbox), First(up)), Rest(up), chunk, stdin)
            = Stream(handled, FlattenSeq(inbox), Cat(First(up), Rest(up)), chunk, stdin)
      <3>1. /\ handled \in Seq(Fragments) /\ FlattenSeq(inbox) \in Seq(Fragments)
            /\ chunk \in Seq(Fragments) /\ stdin \in Seq(Fragments)
        BY UpwardType
      <3> QED
        BY <2>2, <3>1, ReaderMoves
    <2>6. Bytes = up /\ Bytes' = Rest(up)
      BY DEF Bytes, ReaderReads
    <2>7. Stream(handled, FlattenSeq(inbox), Bytes, chunk, stdin) = sent
      BY DEF IInv, Upward
    <2>8. UNCHANGED <<handled, chunk, stdin, sent>>
      BY DEF ReaderReads, clientVars, proxyVars
    <2> QED
      BY <2>2, <2>4, <2>5, <2>6, <2>7, <2>8 DEF Upward
  <1>3. Downward'
    BY DEF IInv, Downward, Replies, ProxyOpen, proxyVars, ReaderReads
  <1>4. Beginning'
    BY DEF IInv, Beginning, Threads, proxyVars, ReaderReads
  <1>5. Threads'
    <2>0. up \in Seq(Fragments) /\ Whole(up)
      BY DEF IInv, Threads, Beginning, ReaderReads
    <2>1. /\ First(up) \in Seq(Fragments) /\ Rest(up) \in Seq(Fragments)
          /\ First(up) \in Singles \cup {Exit}
      BY <2>0, FirstRest
    <2>2. inbox' \in Seq(Singles \cup {Exit})
      <3>1. inbox \in Seq(Singles \cup {Exit})
        BY DEF IInv, Threads
      <3>2. Append(inbox, First(up)) \in Seq(Singles \cup {Exit})
        BY <2>1, <3>1
      <3> QED
        BY <3>2 DEF ReaderReads
    <2>4. up' \in Seq(Fragments)
      BY <2>1 DEF ReaderReads
    <2>5. reader' # "reading" \/ reader' = reader
      BY DEF ReaderReads
    <2> QED
      BY <2>2, <2>4 DEF IInv, Threads, ProxyOpen, ReaderReads, proxyVars
  <1>6. Suffix'
    BY DEF IInv, Downward, Threads, Suffix, clientVars, proxyVars, ReaderReads
  <1>7. ExitIsSeen'
    BY DEF IInv, ExitIsSeen, clientVars, proxyVars, ReaderReads
  <1>8. Codes'
    BY DEF IInv, Codes, clientVars, proxyVars, ReaderReads
  <1> QED
    BY <1>1, <1>2, <1>3, <1>4, <1>5, <1>6, <1>7, <1>8 DEF IInv

(* ReaderEnds keeps IInv: the proxy has gone.                              *)
LEMMA ReaderEndsStep ==
    ASSUME IInv, ReaderEnds
    PROVE  IInv'
  <1>1. TypeOK'
    BY DEF IInv, TypeOK, clientVars, proxyVars, ReaderEnds
  <1>2. Upward'
    BY DEF IInv, Upward, Bytes, clientVars, proxyVars, ReaderEnds
  <1>3. Downward'
    BY DEF Downward, ProxyOpen, proxyVars, ReaderEnds
  <1>4. Beginning'
    BY DEF IInv, Beginning, proxyVars, ReaderEnds
  <1>5. Threads'
    BY DEF IInv, Threads, ProxyOpen, proxyVars, ReaderEnds
  <1>6. Suffix'
    BY DEF IInv, Threads, Suffix, Accepted, clientVars, ReaderEnds
  <1>7. ExitIsSeen'
    BY DEF IInv, Suffix, ExitIsSeen, clientVars, proxyVars, ReaderEnds
  <1>8. Codes'
    BY DEF IInv, Codes, clientVars, proxyVars, ReaderEnds
  <1> QED
    BY <1>1, <1>2, <1>3, <1>4, <1>5, <1>6, <1>7, <1>8 DEF IInv

(* WriterWrites keeps IInv: a reply moves to the connection, or the proxy  *)
(* has gone.                                                               *)
LEMMA WriterWritesStep ==
    ASSUME IInv, WriterWrites
    PROVE  IInv'
  <1>1. TypeOK'
    <2>1. outbox \in Seq(Nat) /\ outbox # <<>> /\ down \in Seq(Nat) /\ out \in Seq(Nat)
      BY DEF IInv, TypeOK, WriterWrites
    <2>2. Head(outbox) \in Nat /\ Tail(outbox) \in Seq(Nat)
      BY <2>1
    <2>3. Append(down, Head(outbox)) \in Seq(Nat)
      BY <2>1
    <2>4. Scalars'
      BY TypeParts DEF IInv, Scalars, WriterWrites, clientVars, proxyVars
    <2>5. down' \in Seq(Nat) /\ outbox' \in Seq(Nat)
      BY <2>1, <2>2, <2>3 DEF WriterWrites
    <2>6. Sequences'
      BY <2>5, TypeParts DEF IInv, Sequences, WriterWrites, clientVars, proxyVars
    <2> QED
      BY <2>4, <2>6, TypePartsNext
  <1>2. Upward'
    BY DEF IInv, Upward, Bytes, clientVars, proxyVars, WriterWrites
  <1>3. Downward'
    <2> SUFFICES ASSUME handler # "killed", ProxyOpen PROVE Downward'
      BY DEF Downward, ProxyOpen, WriterWrites, proxyVars
    <2>1. outbox \in Seq(Nat) /\ outbox # <<>> /\ down \in Seq(Nat) /\ out \in Seq(Nat)
      BY DEF IInv, TypeOK, WriterWrites
    <2>2. Head(outbox) \in Nat /\ Tail(outbox) \in Seq(Nat)
      BY <2>1
    <2>3. Append(down, Head(outbox)) \in Seq(Nat)
      BY <2>1
    <2>4. pump # "off"
      BY DEF IInv, Beginning, WriterWrites
    <2>5. Replies = down /\ Replies' = Append(down, Head(outbox))
      BY <2>4 DEF Replies, WriterWrites, proxyVars
    <2>6. Answers(out, Append(down, Head(outbox)), Tail(outbox)) = Answers(out, down, outbox)
      BY <2>1, WriterMoves
    <2>7. Answers(out, Replies, outbox) = UpTo(Len(handled))
      BY DEF IInv, Downward
    <2>8. outbox' = Tail(outbox) /\ UNCHANGED <<out, handled>>
      BY DEF WriterWrites
    <2> QED
      BY <2>5, <2>6, <2>7, <2>8 DEF Downward
  <1>4. Beginning'
    BY DEF IInv, Beginning, proxyVars, WriterWrites
  <1>5. Threads'
    BY DEF IInv, Threads, ProxyOpen, proxyVars, WriterWrites
  <1>6. Suffix'
    BY DEF IInv, TypeOK, Upward, Downward, Beginning, Threads, Suffix, ExitIsSeen,
           Codes, Bytes, Replies, Fragments, Singles, Exit, ProxyOpen, DaemonOpen,
           Messages, Accepted, clientVars, proxyVars, daemonVars, WriterWrites
  <1>7. ExitIsSeen'
    BY DEF IInv, ExitIsSeen, clientVars, proxyVars, WriterWrites
  <1>8. Codes'
    BY DEF IInv, Codes, clientVars, proxyVars, WriterWrites
  <1> QED
    BY <1>1, <1>2, <1>3, <1>4, <1>5, <1>6, <1>7, <1>8 DEF IInv

(* WriterEnds keeps IInv: nothing is left to write.                        *)
LEMMA WriterEndsStep ==
    ASSUME IInv, WriterEnds
    PROVE  IInv'
  <1>1. TypeOK'
    BY DEF IInv, TypeOK, clientVars, proxyVars, WriterEnds
  <1>2. Upward'
    BY DEF Upward, WriterEnds
  <1>3. Downward'
    BY DEF IInv, Downward, Replies, ProxyOpen, proxyVars, WriterEnds
  <1>4. Beginning'
    BY DEF IInv, Beginning, proxyVars, WriterEnds
  <1>5. Threads'
    BY DEF IInv, Threads, proxyVars, WriterEnds
  <1>6. Suffix'
    BY DEF IInv, Suffix, Accepted, clientVars, WriterEnds
  <1>7. ExitIsSeen'
    BY DEF IInv, ExitIsSeen, clientVars, proxyVars, WriterEnds
  <1>8. Codes'
    BY DEF IInv, Codes, clientVars, proxyVars, WriterEnds
  <1> QED
    BY <1>1, <1>2, <1>3, <1>4, <1>5, <1>6, <1>7, <1>8 DEF IInv

(* SessionHandles keeps IInv: a message moves to what is handled, and its  *)
(* reply, one past the last, to the outbox.                                *)
LEMMA SessionHandlesStep ==
    ASSUME IInv, SessionHandles
    PROVE  IInv'
  <1>1. TypeOK'
    <2>1. inbox \in Seq(Singles \cup {Exit}) /\ inbox # <<>> /\ Head(inbox) # Exit
      BY DEF IInv, Threads, SessionHandles, Exits
    <2>2. Head(inbox) \in Singles /\ Tail(inbox) \in Seq(Singles \cup {Exit})
      <3>1. Head(inbox) \in Singles \cup {Exit} /\ Tail(inbox) \in Seq(Singles \cup {Exit})
        BY <2>1
      <3> QED
        BY <2>1
    <2>3. PICK f \in Fragments : Head(inbox) = <<f>>
      BY <2>2 DEF Singles
    <2>4. handled \in Seq(Fragments) /\ handled' = Append(handled, f) /\ Len(handled) \in Nat
      <3>1. handled \in Seq(Fragments)
        BY DEF IInv, TypeOK
      <3>2. handled \o <<f>> = Append(handled, f)
        OBVIOUS
      <3>3. handled' = handled \o <<f>>
        BY <2>3, Zenon DEF SessionHandles
      <3>4. Len(handled) \in Nat
        OBVIOUS
      <3> QED
        BY <3>1, <3>3
    <2>5. outbox \in Seq(Nat) /\ Len(handled) + 1 \in Nat
      BY DEF IInv, TypeOK
    <2>6. Append(handled, f) \in Seq(Fragments) /\ Append(outbox, Len(handled) + 1) \in Seq(Nat)
      BY <2>4, <2>5
    <2>7. Tail(inbox) \in Seq(Seq(Fragments))
      BY <2>2, InboxType
    <2>8. /\ handled' \in Seq(Fragments) /\ outbox' \in Seq(Nat)
          /\ inbox' \in Seq(Seq(Fragments))
      BY <2>4, <2>5, <2>6, <2>7, SeqEmpty DEF SessionHandles
    <2>9. Scalars'
      BY TypeParts DEF IInv, Scalars, SessionHandles, clientVars, proxyVars
    <2>10. Sequences'
      BY <2>8, TypeParts DEF IInv, Sequences, SessionHandles, clientVars, proxyVars
    <2> QED
      BY <2>9, <2>10, TypePartsNext
  <1>2. Upward'
    <2> SUFFICES ASSUME writer = "writing" PROVE Upward'
      BY DEF Upward, SessionHandles
    <2>1. inbox \in Seq(Seq(Fragments)) /\ inbox # <<>>
      BY DEF IInv, TypeOK, SessionHandles
    <2>2. Head(inbox) \in Seq(Fragments) /\ Tail(inbox) \in Seq(Seq(Fragments))
      BY <2>1
    <2>3. FlattenSeq(Tail(inbox)) \in Seq(Fragments)
      BY <2>2, FlattenType
    <2>4. FlattenSeq(inbox) = Cat(Head(inbox), FlattenSeq(Tail(inbox)))
      BY <2>1, FlattenHead
    <2>5. Stream(Cat(handled, Head(inbox)), FlattenSeq(Tail(inbox)), Bytes, chunk, stdin)
            = Stream(handled, Cat(Head(inbox), FlattenSeq(Tail(inbox))), Bytes, chunk, stdin)
      <3>1. /\ handled \in Seq(Fragments) /\ Bytes \in Seq(Fragments)
            /\ chunk \in Seq(Fragments) /\ stdin \in Seq(Fragments)
        BY UpwardType DEF SessionHandles
      <3>2. Head(inbox) \in Seq(Fragments)
        BY <2>2
      <3> QED
        BY <2>3, <3>1, <3>2, SessionMoves
    <2>6. Bytes' = Bytes /\ UNCHANGED <<chunk, stdin, sent>>
      BY DEF Bytes, SessionHandles, clientVars, proxyVars
    <2>7. Stream(handled, FlattenSeq(inbox), Bytes, chunk, stdin) = sent
      BY DEF IInv, Upward, SessionHandles
    <2>8. handled' = Cat(handled, Head(inbox)) /\ inbox' = Tail(inbox)
      BY DEF Cat, SessionHandles
    <2> QED
      BY <2>4, <2>5, <2>6, <2>7, <2>8 DEF Upward
  <1>3. Downward'
    <2> SUFFICES ASSUME ProxyOpen PROVE Downward'
      BY DEF Downward, ProxyOpen, SessionHandles, proxyVars
    <2>1. inbox \in Seq(Singles \cup {Exit}) /\ inbox # <<>> /\ Head(inbox) # Exit
      BY DEF IInv, Threads, SessionHandles, Exits
    <2>2. Head(inbox) \in Singles /\ Tail(inbox) \in Seq(Singles \cup {Exit})
      <3>1. Head(inbox) \in Singles \cup {Exit} /\ Tail(inbox) \in Seq(Singles \cup {Exit})
        BY <2>1
      <3> QED
        BY <2>1
    <2>3. PICK f \in Fragments : Head(inbox) = <<f>>
      BY <2>2 DEF Singles
    <2>4. handled \in Seq(Fragments) /\ handled' = Append(handled, f) /\ Len(handled) \in Nat
      <3>1. handled \in Seq(Fragments)
        BY DEF IInv, TypeOK
      <3>2. handled \o <<f>> = Append(handled, f)
        OBVIOUS
      <3>3. handled' = handled \o <<f>>
        BY <2>3, Zenon DEF SessionHandles
      <3>4. Len(handled) \in Nat
        OBVIOUS
      <3> QED
        BY <3>1, <3>3
    <2>5. writer = "writing"
      BY DEF IInv, Threads, SessionHandles, Exits
    <2>6. Len(handled') = Len(handled) + 1
      BY <2>4
    <2>7. outbox' = Append(outbox, Len(handled) + 1) /\ out' = out /\ Replies' = Replies
      BY <2>5 DEF SessionHandles, Replies, proxyVars
    <2>8. out \in Seq(Nat) /\ Replies \in Seq(Nat) /\ outbox \in Seq(Nat)
      BY DEF IInv, TypeOK, Replies
    <2>9. Answers(out, Replies, outbox) = UpTo(Len(handled))
      BY DEF IInv, Downward, SessionHandles
    <2>10. Answers(out, Replies, Append(outbox, Len(handled) + 1))
             = UpTo(Len(handled) + 1)
      <3> DEFINE n == Len(handled)
      <3>1. n \in Nat /\ Answers(out, Replies, outbox) = UpTo(n)
        BY <2>9
      <3> HIDE DEF n
      <3>2. Answers(out, Replies, Append(outbox, n + 1)) = UpTo(n + 1)
        BY <2>8, <3>1, ReplyMoves
      <3> QED
        BY <3>2 DEF n
    <2> QED
      BY <2>6, <2>7, <2>10 DEF Downward
  <1>4. Beginning'
    BY DEF IInv, TypeOK, Upward, Downward, Beginning, Threads, Suffix, ExitIsSeen,
           Codes, Bytes, Replies, Fragments, Singles, Exit, ProxyOpen, DaemonOpen,
           Messages, Accepted, clientVars, proxyVars, daemonVars, SessionHandles
  <1>5. Threads'
    <2>1. inbox \in Seq(Singles \cup {Exit}) /\ inbox # <<>> /\ Head(inbox) # Exit
      BY DEF IInv, Threads, SessionHandles, Exits
    <2>2. Head(inbox) \in Singles /\ Tail(inbox) \in Seq(Singles \cup {Exit})
      <3>1. Head(inbox) \in Singles \cup {Exit} /\ Tail(inbox) \in Seq(Singles \cup {Exit})
        BY <2>1
      <3> QED
        BY <2>1
    <2>3. inbox' \in Seq(Singles \cup {Exit})
      BY <2>2, SeqEmpty DEF SessionHandles
    <2> QED
      BY <2>3 DEF IInv, Threads, SessionHandles, proxyVars
  <1>6. Suffix'
    BY DEF IInv, Suffix, clientVars, SessionHandles
  <1>7. ExitIsSeen'
    BY DEF IInv, ExitIsSeen, clientVars, proxyVars, SessionHandles
  <1>8. Codes'
    BY DEF IInv, Codes, clientVars, proxyVars, SessionHandles
  <1> QED
    BY <1>1, <1>2, <1>3, <1>4, <1>5, <1>6, <1>7, <1>8 DEF IInv

(* SessionExits keeps IInv: the exit in the inbox was read by the proxy in *)
(* one piece, so it is seen, or cut, or spelled otherwise.                 *)
LEMMA SessionExitsStep ==
    ASSUME IInv, SessionExits
    PROVE  IInv'
  <1>1. TypeOK'
    BY DEF IInv, TypeOK, clientVars, proxyVars, SessionExits, SessionEnds
  <1>2. Upward'
    BY DEF Upward, SessionExits, SessionEnds
  <1>3. Downward'
    BY DEF IInv, Downward, Replies, ProxyOpen, proxyVars, SessionExits
  <1>4. Beginning'
    BY DEF IInv, Beginning, proxyVars, SessionExits, SessionEnds
  <1>5. Threads'
    BY DEF IInv, Threads, proxyVars, SessionExits, SessionEnds
  <1>6. Suffix'
    BY DEF IInv, TypeOK, Upward, Downward, Beginning, Threads, Suffix, ExitIsSeen,
           Codes, Bytes, Replies, Fragments, Singles, Exit, ProxyOpen, DaemonOpen,
           Messages, Accepted, clientVars, proxyVars, daemonVars, SessionExits,
           SessionEnds
  <1>7. ExitIsSeen'
    <2> DEFINE m == Head(inbox)
    <2>1. /\ inbox \in Seq(Seq(Fragments)) /\ inbox # <<>> /\ m \in Exits
          /\ m[1] = "ex" \/ m[1] = "spaced"
      BY DEF IInv, TypeOK, SessionExits, Exits, Exit
    <2>2. Tail(inbox) \in Seq(Seq(Fragments)) /\ m \in Seq(Fragments) /\ m # <<>>
      <3>1. <<"spaced">> # <<>> /\ Exit # <<>>
        BY DEF Exit
      <3> QED
        BY <2>1, <3>1 DEF Exits
    <2>3. FlattenSeq(inbox) = Cat(m, FlattenSeq(Tail(inbox))) /\ FlattenSeq(Tail(inbox)) \in Seq(Fragments)
      BY <2>1, <2>2, FlattenHead, FlattenType
    <2>4. Stream(handled, Cat(m, FlattenSeq(Tail(inbox))), Bytes, chunk, stdin) = sent
      BY <2>3 DEF IInv, Upward, SessionExits
    <2>5. Len(handled) + 1 \in 1..Len(sent) - Len(stdin) /\ sent[Len(handled) + 1] = m[1]
      <3>1. /\ handled \in Seq(Fragments) /\ Bytes \in Seq(Fragments)
            /\ chunk \in Seq(Fragments) /\ stdin \in Seq(Fragments)
        BY UpwardType DEF SessionExits
      <3> DEFINE f == FlattenSeq(Tail(inbox))
      <3>2. sent = Stream(handled, Cat(m, f), Bytes, chunk, stdin)
        BY <2>4
      <3>3. f \in Seq(Fragments) /\ m \in Seq(Fragments) /\ 1 <= Len(m)
        BY <2>2, <2>3
      <3> HIDE DEF f, m
      <3> QED
        BY <3>1, <3>2, <3>3, HeadIn
    <2>6. ~cut => exitSeen \/ Contains(sent, "spaced")
      <3>1. CASE m[1] = "ex"
        BY <2>5, <3>1 DEF IInv, ExitIsSeen
      <3>2. CASE m[1] = "spaced"
        <4>1. Len(handled) + 1 \in 1..Len(sent)
          <5>1. stdin \in Seq(Fragments) /\ sent \in Seq(Fragments)
            BY DEF IInv, TypeOK
          <5>2. Len(stdin) \in Nat /\ Len(sent) \in Nat
            BY <5>1
          <5> QED
            BY <2>5, <5>2
        <4> QED
          BY <2>5, <3>2, <4>1 DEF Contains
      <3> QED
        BY <2>1, <3>1, <3>2
    <2> QED
      BY <2>6 DEF IInv, ExitIsSeen, SessionExits, clientVars, proxyVars
  <1>8. Codes'
    BY DEF IInv, Codes, clientVars, proxyVars, SessionExits
  <1> QED
    BY <1>1, <1>2, <1>3, <1>4, <1>5, <1>6, <1>7, <1>8 DEF IInv

(* SessionLosesClient keeps IInv: the stream does not count any more.      *)
LEMMA SessionLosesClientStep ==
    ASSUME IInv, SessionLosesClient
    PROVE  IInv'
  <1>1. TypeOK'
    BY DEF IInv, TypeOK, clientVars, proxyVars, SessionLosesClient, SessionEnds
  <1>2. Upward'
    BY DEF Upward, SessionLosesClient, SessionEnds
  <1>3. Downward'
    BY DEF IInv, Downward, Replies, ProxyOpen, proxyVars, SessionLosesClient
  <1>4. Beginning'
    BY DEF IInv, Beginning, proxyVars, SessionLosesClient, SessionEnds
  <1>5. Threads'
    BY DEF IInv, Threads, proxyVars, SessionLosesClient, SessionEnds
  <1>6. Suffix'
    BY DEF IInv, Suffix, clientVars, SessionLosesClient
  <1>7. ExitIsSeen'
    BY DEF IInv, ExitIsSeen, clientVars, proxyVars, SessionLosesClient, SessionEnds
  <1>8. Codes'
    BY DEF IInv, Codes, clientVars, proxyVars, SessionLosesClient
  <1> QED
    BY <1>1, <1>2, <1>3, <1>4, <1>5, <1>6, <1>7, <1>8 DEF IInv

(* SessionFails keeps IInv: the stream does not count any more.            *)
LEMMA SessionFailsStep ==
    ASSUME IInv, SessionFails
    PROVE  IInv'
  <1>1. TypeOK'
    BY DEF IInv, TypeOK, clientVars, proxyVars, SessionFails, SessionEnds
  <1>2. Upward'
    BY DEF Upward, SessionFails, SessionEnds
  <1>3. Downward'
    BY DEF IInv, Downward, Replies, ProxyOpen, proxyVars, SessionFails
  <1>4. Beginning'
    BY DEF IInv, Beginning, proxyVars, SessionFails, SessionEnds
  <1>5. Threads'
    BY DEF IInv, Threads, proxyVars, SessionFails, SessionEnds
  <1>6. Suffix'
    BY DEF IInv, Suffix, clientVars, SessionFails
  <1>7. ExitIsSeen'
    BY DEF IInv, ExitIsSeen, clientVars, proxyVars, SessionFails, SessionEnds
  <1>8. Codes'
    BY DEF IInv, Codes, clientVars, proxyVars, SessionFails
  <1> QED
    BY <1>1, <1>2, <1>3, <1>4, <1>5, <1>6, <1>7, <1>8 DEF IInv

(* SessionPanics keeps IInv: the stream does not count any more.           *)
LEMMA SessionPanicsStep ==
    ASSUME IInv, SessionPanics
    PROVE  IInv'
  <1>1. TypeOK'
    BY DEF IInv, TypeOK, clientVars, proxyVars, SessionPanics
  <1>2. Upward'
    BY DEF Upward, SessionPanics
  <1>3. Downward'
    BY DEF IInv, Downward, Replies, ProxyOpen, proxyVars, SessionPanics
  <1>4. Beginning'
    BY DEF IInv, Beginning, proxyVars, SessionPanics
  <1>5. Threads'
    BY DEF IInv, Threads, proxyVars, SessionPanics
  <1>6. Suffix'
    BY DEF IInv, Suffix, Accepted, clientVars, SessionPanics
  <1>7. ExitIsSeen'
    BY DEF IInv, ExitIsSeen, clientVars, proxyVars, SessionPanics
  <1>8. Codes'
    BY DEF IInv, Codes, clientVars, proxyVars, SessionPanics
  <1> QED
    BY <1>1, <1>2, <1>3, <1>4, <1>5, <1>6, <1>7, <1>8 DEF IInv

(* DaemonDies keeps IInv: neither direction counts any more.               *)
LEMMA DaemonDiesStep ==
    ASSUME IInv, DaemonDies
    PROVE  IInv'
  <1>1. TypeOK'
    <2>1. down' \in Seq(Nat)
      BY TypeParts, SeqEmpty DEF IInv, Sequences, DaemonDies
    <2>2. Scalars'
      BY TypeParts DEF IInv, Scalars, DaemonDies, clientVars, proxyVars
    <2>3. Sequences'
      BY <2>1, TypeParts DEF IInv, Sequences, DaemonDies, clientVars, proxyVars
    <2> QED
      BY <2>2, <2>3, TypePartsNext
  <1>2. Upward'
    BY DEF Upward, DaemonDies
  <1>3. Downward'
    BY DEF Downward, DaemonDies
  <1>4. Beginning'
    BY DEF IInv, Beginning, proxyVars, DaemonDies
  <1>5. Threads'
    BY DEF IInv, Threads, proxyVars, DaemonDies
  <1>6. Suffix'
    BY DEF IInv, TypeOK, Upward, Downward, Beginning, Threads, Suffix, ExitIsSeen,
           Codes, Bytes, Replies, Fragments, Singles, Exit, ProxyOpen, DaemonOpen,
           Messages, Accepted, clientVars, proxyVars, daemonVars, DaemonDies
  <1>7. ExitIsSeen'
    BY DEF IInv, ExitIsSeen, clientVars, proxyVars, DaemonDies
  <1>8. Codes'
    BY DEF IInv, Codes, clientVars, proxyVars, DaemonDies
  <1> QED
    BY <1>1, <1>2, <1>3, <1>4, <1>5, <1>6, <1>7, <1>8 DEF IInv

(* IInv depends on the variables only.                                     *)
LEMMA StutterStep ==
    ASSUME IInv, UNCHANGED vars
    PROVE  IInv'
  <1>1. UNCHANGED <<Bytes, Replies, DaemonOpen, ProxyOpen>>
    BY DEF vars, proxyVars, daemonVars, Bytes, Replies, DaemonOpen, ProxyOpen
  <1>2. TypeOK' /\ Beginning' /\ Threads' /\ Suffix' /\ ExitIsSeen' /\ Codes'
    BY <1>1
    DEF vars, clientVars, proxyVars, daemonVars, IInv, TypeOK, Beginning, Threads,
        Suffix, ExitIsSeen, Codes
  <1>3. Upward' /\ Downward'
    BY <1>1 DEF vars, clientVars, proxyVars, daemonVars, IInv, Upward, Downward
  <1> QED
    BY <1>2, <1>3 DEF IInv

(* IInv holds of the first state.                                          *)
LEMMA InitInvariant == Init => IInv
  <1> SUFFICES ASSUME Init PROVE IInv
    OBVIOUS
  <1>1. TypeOK
    <2>1. <<"lsp">> \in Seq(Fragments) \cup {<<"lsp">>}
      OBVIOUS
    <2>2. Scalars /\ Sequences
      BY <2>1, SeqEmpty DEF Init, Scalars, Sequences
    <2> QED
      BY <2>2, TypeParts
  <1>2. Upward
    <2>1. <<>> \in Seq(Fragments)
      OBVIOUS
    <2>2. Cat(<<>>, <<>>) = <<>>
      BY <2>1, CatEmpty
    <2>3. Bytes = <<>>
      <3>1. Tail(<<"lsp">>) = <<>>
        OBVIOUS
      <3> QED
        BY DEF Init, Bytes
    <2> QED
      BY <2>2, <2>3, FlattenEmpty DEF Init, Upward, Stream
  <1>3. Downward
    <2>1. <<>> \in Seq(Nat)
      OBVIOUS
    <2>2. Cat(<<>>, <<>>) = <<>>
      BY <2>1, CatEmpty
    <2>3. Replies = <<>>
      BY DEF Init, Replies
    <2>4. UpTo(Len(handled)) = <<>>
      BY DEF Init, UpTo
    <2> QED
      BY <2>2, <2>3, <2>4 DEF Init, Downward, Answers
  <1>4. Beginning
    BY DEF Init, Beginning
  <1>5. Threads
    BY DEF Init, Threads
  <1>6. Suffix
    BY DEF Init, Suffix
  <1>7. ExitIsSeen /\ Codes
    BY DEF Init, ExitIsSeen, Codes
  <1> QED
    BY <1>1, <1>2, <1>3, <1>4, <1>5, <1>6, <1>7 DEF IInv

(* Every step keeps IInv.                                                  *)
LEMMA NextInvariant ==
    ASSUME IInv, [Next]_vars
    PROVE  IInv'
  <1>1. ASSUME Client PROVE IInv'
    BY <1>1, ClientSendsStep, ClientClosesStep DEF Client
  <1>2. ASSUME Pump PROVE IInv'
    BY <1>2, PumpReadsStep, PumpEndsStep, PumpWritesStep DEF Pump
  <1>3. ASSUME Main PROVE IInv'
    BY <1>3, ProxyAcceptedStep, ProxyRefusedStep, CopyStep, CopyEndsStep DEF Main
  <1>4. ASSUME Handler PROVE IInv'
    BY <1>4, HandlerAcceptsStep, HandlerInitializesStep, HandlerLosesClientStep,
       JoinStep
    DEF Handler
  <1>5. ASSUME Reader PROVE IInv'
    BY <1>5, ReaderReadsStep, ReaderEndsStep DEF Reader
  <1>6. ASSUME Writer PROVE IInv'
    BY <1>6, WriterWritesStep, WriterEndsStep DEF Writer
  <1>7. ASSUME Session PROVE IInv'
    BY <1>7, SessionHandlesStep, SessionExitsStep, SessionLosesClientStep DEF Session
  <1>8. CASE UNCHANGED vars
    BY <1>8, StutterStep
  <1> QED
    BY <1>1, <1>2, <1>3, <1>4, <1>5, <1>6, <1>7, <1>8, PumpFailsStep, CopyFailsStep, SessionFailsStep,
       SessionPanicsStep, DaemonDiesStep
    DEF Next

(* The inductive invariant holds of every behaviour.                       *)
THEOREM Invariance == Spec => []IInv
  <1>1. IInv /\ [Next]_vars => IInv'
    BY NextInvariant
  <1> QED
    BY InitInvariant, <1>1, PTL DEF Spec

-----------------------------------------------------------------------------
(* Of every behaviour, for any MaxFragments: the variables have their      *)
(* types; no connection is counted out twice.                              *)
THEOREM TypeCorrect == Spec => []TypeOK
  <1>1. IInv => TypeOK
    BY DEF IInv
  <1> QED
    BY Invariance, <1>1, PTL

(* Of every behaviour: what the client has written is what the session has *)
(* handled followed by what is in the inbox, the connection, the chunk of  *)
(* the thread that copies stdin and stdin, and what the session has        *)
(* answered is on stdout, in the connection or in the outbox, in order.    *)
THEOREM NothingLostCorrect == Spec => []NothingLost
  <1>1. IInv => NothingLost
    <2> SUFFICES ASSUME IInv PROVE NothingLost
      OBVIOUS
    <2>1. ASSUME handler \in {"start", "init", "running"}
          PROVE  handled \o FlattenSeq(inbox) \o Bytes \o chunk \o stdin = sent
      BY <2>1, StreamIs DEF IInv, Upward
    <2>2. ASSUME handler # "killed", ProxyOpen
          PROVE  out \o Replies \o outbox = [i \in 1..Len(handled) |-> i]
      BY <2>2, AnswersIs, Zenon DEF IInv, Downward, UpTo
    <2> QED
      BY <2>1, <2>2 DEF NothingLost
  <1> QED
    BY Invariance, <1>1, PTL

(* Of every behaviour: the proxy exits with 0 only after the bytes of an   *)
(* `exit`, or the end or a failure of stdin, and with 1 not where the      *)
(* session has ended by an `exit` that is spelled as the proxy looks for   *)
(* it and was read in one piece while the client held stdin open.          *)
THEOREM ExitCodeCorrect == Spec => []ExitCode
  <1>1. IInv => ExitCode
    BY DEF IInv, Codes, ExitCode
  <1> QED
    BY Invariance, <1>1, PTL

=============================================================================
