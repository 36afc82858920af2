--------------------------- MODULE AsyncIoProofs ----------------------------
(***************************************************************************)
(* The invariants of async::read(), async::write() and their sync          *)
(* counterparts, and the laws of the buffers, iovecs and completion        *)
(* conditions that they rest on, for every number of calls, every shape of *)
(* buffer sequence and every size of the device.                           *)
(*                                                                         *)
(* The laws about data are proved by the least counterexample: a set of    *)
(* numbers, of subsets or of lengths for which the law fails would have a  *)
(* least member, and that one does not fail.  Then come the invariants,    *)
(* each resting on the ones before it:                                     *)
(*   IoType, CallInv   types; a running call asks for what it lacks        *)
(*   Counted           the offset counts every byte once                   *)
(*   BytesInv          the locals and the caller agree on the buffers      *)
(*   PlaceInv          with one call at a time, where in the device it is  *)
(*   AnswerInv         what a call is told, and that it stays true         *)
(*   MoveInv           which bytes have been moved where                   *)
(***************************************************************************)
EXTENDS AsyncIo, FiniteSetTheorems, SequenceTheorems, WellFoundedInduction, TLAPS

-----------------------------------------------------------------------------
(***************************************************************************)
(* Induction by the least counterexample.                                  *)
(***************************************************************************)

\* A nonempty set of naturals has a least member.
LEMMA LeastExists ==
  ASSUME NEW B, B \subseteq Nat, B # {}
  PROVE  \E n \in B : \A m \in B : n <= m
<1> DEFINE R == {ss \in Nat \X Nat : ss[1] < ss[2]}
<1>1. IsWellFoundedOn(R, Nat)
  BY NatLessThanWellFounded DEF OpToRel
<1>2. \E n \in B : \A m \in B : ~ (<<m, n>> \in R)
  <2> HIDE DEF R
  <2> QED
    BY <1>1, WFMin
<1>3. PICK n \in B : \A m \in B : ~ (<<m, n>> \in R)
  BY <1>2
<1>4. ASSUME NEW m \in B PROVE n <= m
  <2>1. n \in Nat /\ m \in Nat
    OBVIOUS
  <2>2. ~ (m < n)
    BY <1>3, <2>1
  <2> QED
    BY <2>1, <2>2
<1> QED
  BY <1>4

\* Induction over the naturals: a set of counterexamples has none below its
\* least.
LEMMA FirstBad ==
  ASSUME NEW B, B \subseteq Nat, B # {}, 0 \notin B
  PROVE  \E n \in Nat : n \notin B /\ n + 1 \in B
<1>1. PICK n \in B : \A m \in B : n <= m
  BY LeastExists
<1>2. n \in Nat /\ n # 0
  OBVIOUS
<1>3. n - 1 \in Nat /\ n - 1 \notin B /\ (n - 1) + 1 = n
  BY <1>1, <1>2
<1> QED
  BY <1>1, <1>3

\* A nonempty family of subsets of a finite set has a member none of whose
\* subsets by one element is in it: the least counterexample of an induction.
LEMMA LeastBadSet ==
  ASSUME NEW D, IsFiniteSet(D), NEW B \in SUBSET SUBSET D, B # {}
  PROVE  \E s \in B : \A x \in s : s \ {x} \notin B
<1> DEFINE N == {Cardinality(s) : s \in B}
<1>1. \A s \in B : IsFiniteSet(s) /\ Cardinality(s) \in Nat
  BY FS_Subset, FS_CardinalityType
<1>2. N \subseteq Nat /\ N # {}
  BY <1>1
<1>3. PICK n \in N : \A m \in N : n <= m
  BY <1>2, LeastExists
<1>4. PICK s \in B : n = Cardinality(s)
  OBVIOUS
<1>5. ASSUME NEW x \in s, s \ {x} \in B PROVE FALSE
  <2>1. Cardinality(s \ {x}) = Cardinality(s) - 1 /\ Cardinality(s) \in Nat
    BY <1>1, FS_RemoveElement
  <2>2. Cardinality(s) <= Cardinality(s \ {x})
    BY <1>3, <1>4, <1>5
  <2> QED
    BY <2>1, <2>2
<1> QED
  BY <1>5

Chooses(D) == {c \in [(SUBSET D) \ {{}} -> D] : \A s \in (SUBSET D) \ {{}} : c[s] \in s}

IsFold(g, D, base_, step, c) ==
  g = [s \in SUBSET D |->
         IF s = {} THEN base_ ELSE step[<<c[s], g[s \ {c[s]}]>>]]

\* There is a function that folds over the subsets of a finite set.
LEMMA FoldExists ==
  ASSUME NEW D, IsFiniteSet(D), NEW V, NEW base_ \in V,
         NEW step \in [D \X V -> V], NEW c \in Chooses(D)
  PROVE  \E g \in [SUBSET D -> V] : IsFold(g, D, base_, step, c)
<1> DEFINE L(n) == {s \in SUBSET D : Cardinality(s) < n}
           F(g, s) == IF s = {} THEN base_ ELSE step[<<c[s], g[s \ {c[s]}]>>]
           Good(n) == \E g \in [L(n) -> V] : \A s \in L(n) : g[s] = F(g, s)
           B == {n \in Nat : ~ Good(n)}
<1>1. ASSUME NEW s \in SUBSET D, s # {}
      PROVE  /\ c[s] \in s /\ s \ {c[s]} \in SUBSET D
             /\ Cardinality(s) \in Nat
             /\ Cardinality(s \ {c[s]}) = Cardinality(s) - 1
  <2>1. c[s] \in s
    BY <1>1 DEF Chooses
  <2>2. IsFiniteSet(s)
    BY FS_Subset
  <2> QED
    BY <2>1, <2>2, FS_RemoveElement, FS_CardinalityType
<1>2. \A s \in SUBSET D : Cardinality(s) \in Nat
  BY FS_Subset, FS_CardinalityType
<1>3. 0 \notin B
  <2>1. L(0) = {}
    BY <1>2
  <2>2. [s \in {} |-> base_] \in [L(0) -> V]
    BY <2>1
  <2> QED
    BY <2>1, <2>2
<1>4. ASSUME NEW n \in Nat, Good(n) PROVE Good(n + 1)
  <2>1. PICK g \in [L(n) -> V] : \A s \in L(n) : g[s] = F(g, s)
    BY <1>4
  <2> DEFINE h == [s \in L(n + 1) |-> F(g, s)]
  <2>2. ASSUME NEW s \in L(n + 1), s # {}
        PROVE  s \ {c[s]} \in L(n) /\ c[s] \in D
    <3>1. Cardinality(s) < n + 1 /\ s \in SUBSET D
      OBVIOUS
    <3>2. Cardinality(s \ {c[s]}) < n
      BY <1>1, <2>2, <3>1
    <3> QED
      BY <1>1, <2>2, <3>1, <3>2
  <2>3. ASSUME NEW s \in L(n + 1) PROVE F(g, s) \in V
    <3>1. CASE s = {}
      BY <3>1
    <3>2. CASE s # {}
      <4>1. s \ {c[s]} \in L(n) /\ c[s] \in D
        BY <2>2, <3>2
      <4> HIDE DEF L
      <4>2. <<c[s], g[s \ {c[s]}]>> \in D \X V
        BY <2>1, <4>1
      <4> QED
        BY <3>2, <4>2
    <3> QED
      BY <3>1, <3>2
  <2>4. h \in [L(n + 1) -> V]
    <3> HIDE DEF F, L
    <3> QED
      BY <2>3
  <2>5. ASSUME NEW s \in L(n) PROVE s \in L(n + 1) /\ h[s] = g[s]
    <3>1. s \in L(n + 1)
      BY <1>2
    <3>2. h[s] = F(g, s)
      <4> HIDE DEF F, L
      <4> QED
        BY <3>1
    <3> QED
      BY <2>1, <3>1, <3>2
  <2>6. ASSUME NEW s \in L(n + 1) PROVE h[s] = F(h, s)
    <3>0. h[s] = F(g, s)
      <4> HIDE DEF F, L
      <4> QED
        OBVIOUS
    <3>1. CASE s = {}
      BY <3>0, <3>1
    <3>2. CASE s # {}
      <4>1. h[s \ {c[s]}] = g[s \ {c[s]}]
        <5> HIDE DEF L, h
        <5> QED
          BY <2>2, <2>5, <3>2
      <4> HIDE DEF h
      <4> QED
        BY <3>0, <3>2, <4>1
    <3> QED
      BY <3>1, <3>2
  <2> HIDE DEF h, F, L
  <2> QED
    BY <2>4, <2>6
<1>5. \A n \in Nat : Good(n)
  <2> HIDE DEF Good
  <2>1. CASE B # {}
    <3>1. PICK n \in Nat : n \notin B /\ n + 1 \in B
      BY <1>3, <2>1, FirstBad
    <3> QED
      BY <1>4, <3>1
  <2> QED
    BY <2>1
<1>6. Cardinality(D) \in Nat
  BY FS_CardinalityType
<1>7. L(Cardinality(D) + 1) = SUBSET D
  <2>1. ASSUME NEW s \in SUBSET D PROVE Cardinality(s) < Cardinality(D) + 1
    BY <1>2, <1>6, FS_Subset
  <2> QED
    BY <2>1
<1>8. PICK g \in [SUBSET D -> V] : \A s \in SUBSET D : g[s] = F(g, s)
  <2>1. Good(Cardinality(D) + 1)
    <3> HIDE DEF Good
    <3> QED
      BY <1>5, <1>6
  <2> DEFINE M == L(Cardinality(D) + 1)
  <2>2. PICK g \in [M -> V] : \A s \in M : g[s] = F(g, s)
    BY <2>1
  <2>3. M = SUBSET D
    BY <1>7
  <2> HIDE DEF M, F
  <2> QED
    BY <2>2, <2>3
<1>9. IsFold(g, D, base_, step, c)
  BY <1>8 DEF IsFold
<1> QED
  BY <1>9

Pick(s) == CHOOSE x \in s : TRUE

\* Pick() picks a member.
LEMMA PickIn == ASSUME NEW s, s # {} PROVE Pick(s) \in s
<1>1. \E x \in s : TRUE
  OBVIOUS
<1> QED
  BY <1>1 DEF Pick

\* What one call has moved, and the fold that MovedBytes is.
Sizes(l) == [o \in Ops |-> l[o].done_sz_]
Moved(l) == FoldFunction(LAMBDA a, total : a.done_sz_ + total, 0, l)

\* The equation of that fold, over the sizes d.
Adds(g, d) ==
  g = [s \in SUBSET Ops |->
         IF s = {} THEN 0 ELSE d[Pick(s)] + g[s \ {Pick(s)}]]

\* The sum over the subsets of the operations exists.
LEMMA AddsExists ==
  ASSUME IsFiniteSet(Ops), NEW d \in [Ops -> Nat]
  PROVE  \E g \in [SUBSET Ops -> Nat] : Adds(g, d)
<1> DEFINE c == [s \in (SUBSET Ops) \ {{}} |-> Pick(s)]
           step == [p \in Ops \X Nat |-> d[p[1]] + p[2]]
<1>2. c \in Chooses(Ops)
  <2>1. ASSUME NEW s \in (SUBSET Ops) \ {{}} PROVE Pick(s) \in s /\ Pick(s) \in Ops
    BY PickIn
  <2> QED
    BY <2>1 DEF Chooses
<1>3. step \in [Ops \X Nat -> Nat]
  <2>1. ASSUME NEW p \in Ops \X Nat PROVE d[p[1]] + p[2] \in Nat
    <3>1. d[p[1]] \in Nat /\ p[2] \in Nat
      OBVIOUS
    <3> QED
      BY <3>1
  <2> QED
    BY <2>1
<1>4. PICK g \in [SUBSET Ops -> Nat] : IsFold(g, Ops, 0, step, c)
  <2> HIDE DEF c, step
  <2> QED
    BY <1>2, <1>3, FoldExists
<1>5. ASSUME NEW s \in SUBSET Ops, s # {}
      PROVE  step[<<c[s], g[s \ {c[s]}]>>] = d[Pick(s)] + g[s \ {Pick(s)}]
  <2>1. c[s] = Pick(s)
    BY <1>5
  <2>2. Pick(s) \in Ops /\ s \ {Pick(s)} \in SUBSET Ops
    BY <1>5, PickIn
  <2>3. ASSUME NEW x \in Ops, NEW y \in Nat PROVE step[<<x, y>>] = d[x] + y
    OBVIOUS
  <2>4. g[s \ {Pick(s)}] \in Nat
    BY <2>2
  <2> HIDE DEF c, step
  <2> QED
    BY <2>1, <2>2, <2>3, <2>4
<1>6. Adds(g, d)
  <2> HIDE DEF step, c
  <2> QED
    BY <1>4, <1>5 DEF IsFold, Adds
<1> QED
  BY <1>6

\* And there is only one.
LEMMA AddsUnique ==
  ASSUME IsFiniteSet(Ops), NEW d, NEW g, NEW h, Adds(g, d), Adds(h, d)
  PROVE  g = h
<1> DEFINE B == {s \in SUBSET Ops : g[s] # h[s]}
<1>1. CASE B # {}
  <2>1. PICK s \in B : \A x \in s : s \ {x} \notin B
    <3> HIDE DEF B
    <3>1. B \in SUBSET SUBSET Ops
      BY DEF B
    <3> QED
      BY <1>1, <3>1, LeastBadSet
  <2>2. g[s] # h[s] /\ s \in SUBSET Ops
    OBVIOUS
  <2>3. s # {}
    BY <2>2 DEF Adds
  <2>4. Pick(s) \in s
    BY <2>3, PickIn
  <2>5. g[s \ {Pick(s)}] = h[s \ {Pick(s)}]
    BY <2>1, <2>4
  <2> QED
    BY <2>2, <2>3, <2>5 DEF Adds
<1>2. CASE B = {}
  <2>1. \A s \in SUBSET Ops : g[s] = h[s]
    BY <1>2
  <2> QED
    BY <2>1 DEF Adds
<1> QED
  BY <1>1, <1>2

\* Moved() is that sum, over all operations.
LEMMA MovedAdds ==
  ASSUME IsFiniteSet(Ops), NEW l, DOMAIN l = Ops, Sizes(l) \in [Ops -> Nat]
  PROVE  \E g \in [SUBSET Ops -> Nat] : Adds(g, Sizes(l)) /\ Moved(l) = g[Ops]
<1> DEFINE Body(g, s) == IF s = {} THEN 0 ELSE l[Pick(s)].done_sz_ + g[s \ {Pick(s)}]
           Eq(g) == g = [s \in SUBSET Ops |-> Body(g, s)]
           m == CHOOSE g : Eq(g)
<1>1. Moved(l) = m[Ops]
  BY DEF Moved, FoldFunction, FoldFunctionOnSet, MapThenFoldSet, Pick
<1>2. ASSUME NEW g PROVE Eq(g) <=> Adds(g, Sizes(l))
  <2>1. ASSUME NEW s \in SUBSET Ops
        PROVE  Body(g, s)
                 = IF s = {} THEN 0 ELSE Sizes(l)[Pick(s)] + g[s \ {Pick(s)}]
    BY PickIn DEF Sizes
  <2> HIDE DEF Body
  <2> QED
    BY <2>1 DEF Adds
<1>3. PICK g \in [SUBSET Ops -> Nat] : Adds(g, Sizes(l))
  BY AddsExists
<1>4. Eq(m)
  <2> HIDE DEF Eq
  <2> QED
    BY <1>2, <1>3
<1> HIDE DEF Eq, m
<1>5. m = g
  BY <1>2, <1>3, <1>4, AddsUnique
<1> QED
  BY <1>1, <1>3, <1>5

\* When one operation has moved n more bytes, so have all of them together.
LEMMA MovedMore ==
  ASSUME IsFiniteSet(Ops), NEW k, DOMAIN k = Ops, Sizes(k) \in [Ops -> Nat],
         NEW l, DOMAIN l = Ops, Sizes(l) \in [Ops -> Nat],
         NEW o \in Ops, NEW n \in Int, l[o].done_sz_ = k[o].done_sz_ + n,
         \A p \in Ops \ {o} : l[p].done_sz_ = k[p].done_sz_
  PROVE  Moved(l) = Moved(k) + n /\ Moved(k) \in Nat
<1>1. PICK g \in [SUBSET Ops -> Nat] : Adds(g, Sizes(k)) /\ Moved(k) = g[Ops]
  BY MovedAdds
<1>2. PICK h \in [SUBSET Ops -> Nat] : Adds(h, Sizes(l)) /\ Moved(l) = h[Ops]
  BY MovedAdds
<1>3. /\ Sizes(l)[o] = Sizes(k)[o] + n
      /\ \A p \in Ops \ {o} : Sizes(l)[p] = Sizes(k)[p]
  BY DEF Sizes
<1>4. h[Ops] = g[Ops] + n
  <2> DEFINE d == Sizes(k)
             e == Sizes(l)
  <2>0. /\ d \in [Ops -> Nat] /\ e \in [Ops -> Nat] /\ e[o] = d[o] + n
        /\ \A p \in Ops \ {o} : e[p] = d[p]
        /\ Adds(g, d) /\ Adds(h, e)
    BY <1>1, <1>2, <1>3
  <2> HIDE DEF d, e
  <2> DEFINE More(s) == h[s] = g[s] + (IF o \in s THEN n ELSE 0)
             B == {s \in SUBSET Ops : ~ More(s)}
  <2>1. CASE B # {}
    <3>1. PICK s \in B : \A x \in s : s \ {x} \notin B
      <4> HIDE DEF B
      <4>1. B \in SUBSET SUBSET Ops
        BY DEF B
      <4> QED
        BY <2>1, <4>1, LeastBadSet
    <3>2. ~ More(s) /\ s \in SUBSET Ops
      OBVIOUS
    <3>3. s # {}
      BY <2>0, <3>2 DEF Adds
    <3> DEFINE x == Pick(s)
               t == s \ {x}
    <3>4. x \in s /\ x \in Ops /\ t \in SUBSET Ops
      BY <3>2, <3>3, PickIn
    <3>5. More(t)
      BY <3>1, <3>4
    <3>6. g[s] = d[x] + g[t] /\ h[s] = e[x] + h[t]
      BY <2>0, <3>2, <3>3 DEF Adds
    <3>7. x = o <=> o \in s /\ o \notin t
      BY <3>4
    <3>8. x # o => (o \in s <=> o \in t)
      BY <3>4
    <3>9. /\ g[t] \in Nat /\ h[t] \in Nat /\ d[x] \in Nat /\ e[x] \in Nat
          /\ x # o => e[x] = d[x]
          /\ x = o => e[x] = d[x] + n
      BY <2>0, <3>4
    <3> HIDE DEF x, t
    <3> QED
      BY <3>2, <3>5, <3>6, <3>7, <3>8, <3>9
  <2>2. CASE B = {}
    <3>1. More(Ops)
      BY <2>2
    <3> QED
      BY <3>1
  <2> QED
    BY <2>1, <2>2
<1> QED
  BY <1>1, <1>2, <1>4

\* Nothing moved by any call is nothing moved.
LEMMA MovedZero ==
  ASSUME IsFiniteSet(Ops), NEW l, DOMAIN l = Ops, \A o \in Ops : l[o].done_sz_ = 0
  PROVE  Moved(l) = 0
<1>1. Sizes(l) \in [Ops -> Nat] /\ \A o \in Ops : Sizes(l)[o] = 0
  BY DEF Sizes
<1>2. PICK g \in [SUBSET Ops -> Nat] : Adds(g, Sizes(l)) /\ Moved(l) = g[Ops]
  BY <1>1, MovedAdds
<1> DEFINE B == {s \in SUBSET Ops : g[s] # 0}
<1>3. CASE B # {}
  <2>1. PICK s \in B : \A x \in s : s \ {x} \notin B
    <3> HIDE DEF B
    <3>1. B \in SUBSET SUBSET Ops
      BY DEF B
    <3> QED
      BY <1>3, <3>1, LeastBadSet, ZenonT(60)
  <2>2. s # {} /\ s \in SUBSET Ops /\ g[s] # 0
    BY <1>2 DEF Adds
  <2> DEFINE x == Pick(s)
  <2>3. x \in s
    BY <2>2, PickIn
  <2>4. g[s] = Sizes(l)[x] + g[s \ {x}]
    BY <1>2, <2>2, Zenon DEF Adds
  <2>5. g[s \ {x}] = 0
    BY <2>1, <2>2, <2>3
  <2> QED
    BY <1>1, <2>2, <2>3, <2>4, <2>5
<1>4. CASE B = {}
  BY <1>2, <1>4
<1> QED
  BY <1>3, <1>4

\* MovedBytes is that sum, now and in the next state.
LEMMA MovedBytesIsMoved ==
  MovedBytes = Moved(locals_) /\ MovedBytes' = Moved(locals_')
BY DEF MovedBytes, Moved, FoldFunction, FoldFunctionOnSet, MapThenFoldSet

-----------------------------------------------------------------------------
(***************************************************************************)
(* Sequences: induction, and what FlattenSeq and FoldLeft do to Append.    *)
(***************************************************************************)
LEMMA LastSplit ==
  ASSUME NEW S, NEW s \in Seq(S), s # <<>>
  PROVE  \E f \in Seq(S), b \in S : s = Append(f, b) /\ Len(s) = Len(f) + 1
<1> DEFINE n == Len(s) - 1
           f == [i \in 1 .. n |-> s[i]]
<1>1. n \in Nat /\ Len(s) = n + 1 /\ s[n + 1] \in S
  OBVIOUS
<1>2. f \in Seq(S) /\ Len(f) = n
  BY <1>1
<1>3. s = Append(f, s[n + 1])
  <2> HIDE DEF n
  <2> QED
    BY <1>1, <1>2
<1> QED
  BY <1>1, <1>2, <1>3, Zenon

\* What Append() does.
LEMMA AppendIs ==
  ASSUME NEW S, NEW s \in Seq(S), NEW b \in S
  PROVE  /\ Append(s, b) \in Seq(S) /\ Append(s, b) # <<>>
         /\ Len(s) \in Nat /\ Len(Append(s, b)) = Len(s) + 1
         /\ Append(s, b)[Len(Append(s, b))] = b
         /\ \A i \in 1 .. Len(s) : s[i] = Append(s, b)[i]
OBVIOUS

\* Induction over sequences.
LEMMA AllSequences ==
  ASSUME NEW S, NEW G, <<>> \in G,
         \A s \in Seq(S) : \A b \in S : s \in G => Append(s, b) \in G
  PROVE  Seq(S) \subseteq G
<1> DEFINE B == {n \in Nat : \E s \in Seq(S) : Len(s) = n /\ s \notin G}
<1>1. 0 \notin B
  OBVIOUS
<1>2. CASE B # {}
  <2>1. PICK n \in Nat : n \notin B /\ n + 1 \in B
    BY <1>1, <1>2, FirstBad
  <2>2. PICK s \in Seq(S) : Len(s) = n + 1 /\ s \notin G
    BY <2>1
  <2>3. PICK f \in Seq(S), b \in S : s = Append(f, b) /\ Len(s) = Len(f) + 1
    <3>1. s # <<>>
      BY <2>2
    <3> QED
      BY <3>1, LastSplit
  <2>4. Len(f) = n
    BY <2>1, <2>2, <2>3
  <2>5. f \in G
    BY <2>1, <2>4
  <2> QED
    BY <2>2, <2>3, <2>5
<1>3. CASE B = {}
  BY <1>3
<1> QED
  BY <1>2, <1>3

\* The function that FlattenSeq defines.
Flattens(g, s) ==
  g = [i \in 1 .. Len(s) |-> IF i = 1 THEN s[i] ELSE g[i - 1] \o s[i]]

\* FlattenSeq() is the last value of the function it is defined with.
LEMMA FlattenIs ==
  ASSUME NEW s, Len(s) # 0
  PROVE  FlattenSeq(s) = (CHOOSE g : Flattens(g, s))[Len(s)]
BY DEF FlattenSeq, Flattens

\* That function exists.
LEMMA FlattensExists ==
  ASSUME NEW A, NEW s \in Seq(Seq(A))
  PROVE  \E g \in [1 .. Len(s) -> Seq(A)] : Flattens(g, s)
<1> DEFINE F(g, i) == IF i = 1 THEN s[i] ELSE g[i - 1] \o s[i]
           Good(n) == n <= Len(s) => \E g \in [1 .. n -> Seq(A)] :
                                       \A i \in 1 .. n : g[i] = F(g, i)
           B == {n \in Nat : ~ Good(n)}
<1>1. Good(0)
  <2>1. [i \in 1 .. 0 |-> <<>>] \in [1 .. 0 -> Seq(A)]
    OBVIOUS
  <2>2. ASSUME NEW i \in 1 .. 0 PROVE FALSE
    OBVIOUS
  <2> HIDE DEF F
  <2> QED
    BY <2>1, <2>2
<1>2. ASSUME NEW n \in Nat, Good(n) PROVE Good(n + 1)
  <2> SUFFICES ASSUME n + 1 <= Len(s)
               PROVE  \E g \in [1 .. n + 1 -> Seq(A)] :
                        \A i \in 1 .. n + 1 : g[i] = F(g, i)
    OBVIOUS
  <2>0. n <= Len(s)
    OBVIOUS
  <2>1. PICK g \in [1 .. n -> Seq(A)] : \A i \in 1 .. n : g[i] = F(g, i)
    <3> HIDE DEF F
    <3> QED
      BY <1>2, <2>0
  <2> DEFINE h == [i \in 1 .. n + 1 |-> F(g, i)]
  <2>2. ASSUME NEW i \in 1 .. n + 1 PROVE s[i] \in Seq(A) /\ (i # 1 => i - 1 \in 1 .. n)
    OBVIOUS
  <2>3. ASSUME NEW i \in 1 .. n + 1 PROVE F(g, i) \in Seq(A)
    <3>1. CASE i = 1
      BY <2>2, <3>1
    <3>2. CASE i # 1
      <4>1. g[i - 1] \in Seq(A) /\ s[i] \in Seq(A)
        BY <2>2, <3>2
      <4> QED
        BY <3>2, <4>1
    <3> QED
      BY <3>1, <3>2
  <2>4. ASSUME NEW i \in 1 .. n PROVE h[i] = g[i]
    <3>1. i \in 1 .. n + 1
      OBVIOUS
    <3>2. h[i] = F(g, i)
      <4> HIDE DEF F
      <4> QED
        BY <3>1
    <3> QED
      BY <2>1, <3>2
  <2>5. ASSUME NEW i \in 1 .. n + 1 PROVE h[i] = F(h, i)
    <3>1. h[i] = F(g, i)
      <4> HIDE DEF F
      <4> QED
        OBVIOUS
    <3>2. CASE i = 1
      BY <3>1, <3>2
    <3>3. CASE i # 1
      <4>1. h[i - 1] = g[i - 1]
        BY <2>2, <2>4, <3>3
      <4> HIDE DEF h
      <4> QED
        BY <3>1, <3>3, <4>1
    <3> QED
      BY <3>2, <3>3
  <2>6. h \in [1 .. n + 1 -> Seq(A)]
    <3> HIDE DEF F
    <3> QED
      BY <2>3
  <2> HIDE DEF h, F
  <2> QED
    BY <2>5, <2>6
<1>3. Good(Len(s))
  <2> HIDE DEF Good
  <2>1. CASE B # {}
    <3>1. PICK n \in Nat : n \notin B /\ n + 1 \in B
      BY <1>1, <2>1, FirstBad
    <3> QED
      BY <1>2, <3>1
  <2>2. Len(s) \in Nat
    OBVIOUS
  <2> QED
    BY <2>1, <2>2
<1>4. PICK g \in [1 .. Len(s) -> Seq(A)] : \A i \in 1 .. Len(s) : g[i] = F(g, i)
  BY <1>3, SMT
<1>5. Flattens(g, s)
  BY <1>4 DEF Flattens
<1> QED
  BY <1>5

\* Its equation, at a place.
LEMMA FlattensAt ==
  ASSUME NEW s, NEW g, Flattens(g, s), NEW i \in 1 .. Len(s)
  PROVE  g[i] = IF i = 1 THEN s[i] ELSE g[i - 1] \o s[i]
BY Zenon DEF Flattens

\* The functions of two sequences agree as far as the sequences do.
Begins(s, t) ==
  /\ Len(s) \in Nat /\ Len(t) \in Nat /\ Len(s) <= Len(t)
  /\ \A i \in 1 .. Len(s) : s[i] = t[i]

\* On the beginning that two sequences share, their functions agree.
LEMMA FlattensAgree ==
  ASSUME NEW s, NEW t, NEW g, NEW h, Flattens(g, s), Flattens(h, t),
         Begins(s, t)
  PROVE  \A i \in 1 .. Len(s) : g[i] = h[i]
<1>0. /\ Len(s) \in Nat /\ Len(t) \in Nat /\ Len(s) <= Len(t)
      /\ \A i \in 1 .. Len(s) : s[i] = t[i]
  BY DEF Begins
<1> DEFINE B == {i \in Nat : i \in 1 .. Len(s) /\ g[i] # h[i]}
<1>1. CASE B # {}
  <2>0. 0 \notin B
    OBVIOUS
  <2>1. PICK i \in Nat : i \notin B /\ i + 1 \in B
    BY <1>1, <2>0, FirstBad
  <2>2. i + 1 \in 1 .. Len(s) /\ i + 1 \in 1 .. Len(t)
    BY <1>0, <2>1
  <2>3. /\ g[i + 1] = IF i + 1 = 1 THEN s[i + 1] ELSE g[i + 1 - 1] \o s[i + 1]
        /\ h[i + 1] = IF i + 1 = 1 THEN t[i + 1] ELSE h[i + 1 - 1] \o t[i + 1]
    BY <2>2, FlattensAt
  <2>4. i + 1 # 1 => i \in 1 .. Len(s) /\ i + 1 - 1 = i
    BY <1>0, <2>2
  <2>5. i + 1 # 1 => g[i] = h[i]
    BY <2>1, <2>4
  <2> QED
    BY <1>0, <2>1, <2>2, <2>3, <2>4, <2>5
<1>2. CASE B = {}
  BY <1>2
<1> QED
  BY <1>1, <1>2

\* So any function with that equation will do.
LEMMA FlattenValue ==
  ASSUME NEW A, NEW s \in Seq(Seq(A)), s # <<>>,
         NEW g, Flattens(g, s)
  PROVE  FlattenSeq(s) = g[Len(s)]
<1> DEFINE m == CHOOSE h : Flattens(h, s)
<1>1. Len(s) \in Nat /\ Len(s) # 0
  OBVIOUS
<1>2. Flattens(m, s)
  OBVIOUS
<1>3. FlattenSeq(s) = m[Len(s)]
  BY <1>1, FlattenIs
<1> HIDE DEF m
<1>4. \A i \in 1 .. Len(s) : g[i] = m[i]
  <2>1. Begins(s, s)
    BY <1>1 DEF Begins
  <2> QED
    BY <1>2, <2>1, FlattensAgree
<1> QED
  BY <1>1, <1>3, <1>4

\* No buffers, no bytes.
LEMMA FlattenEmpty == FlattenSeq(<<>>) = <<>>
BY DEF FlattenSeq

\* The bytes of a sequence of buffers are a sequence.
LEMMA FlattenType ==
  ASSUME NEW A, NEW s \in Seq(Seq(A))
  PROVE  FlattenSeq(s) \in Seq(A)
<1>1. CASE s = <<>>
  BY <1>1, FlattenEmpty, EmptySeq
<1>2. CASE s # <<>>
  <2>1. PICK g \in [1 .. Len(s) -> Seq(A)] : Flattens(g, s)
    BY FlattensExists
  <2>2. Len(s) \in 1 .. Len(s)
    BY <1>2
  <2> QED
    BY <1>2, <2>1, <2>2, FlattenValue, SMTT(30)
<1> QED
  BY <1>1, <1>2

\* One more buffer adds its bytes at the end.
LEMMA FlattenAppend ==
  ASSUME NEW A, NEW s \in Seq(Seq(A)), NEW b \in Seq(A)
  PROVE  FlattenSeq(Append(s, b)) = FlattenSeq(s) \o b
<1> DEFINE t == Append(s, b)
<1>1. /\ t \in Seq(Seq(A)) /\ t # <<>> /\ Len(s) \in Nat /\ Len(t) = Len(s) + 1
      /\ t[Len(t)] = b
      /\ \A i \in 1 .. Len(s) : s[i] = t[i]
  BY AppendIs
<1> HIDE DEF t
<1>2. PICK h \in [1 .. Len(t) -> Seq(A)] : Flattens(h, t)
  BY <1>1, FlattensExists
<1>3. FlattenSeq(t) = h[Len(t)]
  BY <1>1, <1>2, FlattenValue
<1>4. CASE s = <<>>
  <2>1. Len(t) = 1
    BY <1>1, <1>4
  <2>2. h[1] = t[1]
    BY <1>2, <2>1 DEF Flattens
  <2>3. <<>> \o b = b
    OBVIOUS
  <2> QED
    BY <1>1, <1>3, <1>4, <2>1, <2>2, <2>3, FlattenEmpty DEF t
<1>5. CASE s # <<>>
  <2>1. PICK g \in [1 .. Len(s) -> Seq(A)] : Flattens(g, s)
    BY FlattensExists
  <2>2. FlattenSeq(s) = g[Len(s)]
    BY <1>5, <2>1, FlattenValue
  <2>3. Len(s) # 0 /\ Len(s) \in 1 .. Len(s)
    BY <1>5
  <2>4. g[Len(s)] = h[Len(s)]
    <3>1. Begins(s, t)
      BY <1>1 DEF Begins
    <3>2. \A i \in 1 .. Len(s) : g[i] = h[i]
      BY <1>2, <2>1, <3>1, FlattensAgree
    <3> QED
      BY <2>3, <3>2
  <2>5. h[Len(t)] = h[Len(s)] \o b
    <3>1. Len(t) \in 1 .. Len(t) /\ Len(t) # 1 /\ Len(t) - 1 = Len(s)
      BY <1>1, <2>3
    <3> QED
      BY <1>1, <1>2, <3>1 DEF Flattens
  <2> QED
    BY <1>3, <2>2, <2>4, <2>5 DEF t
<1> QED
  BY <1>4, <1>5

-----------------------------------------------------------------------------
\* A nonempty set of positive numbers up to n has its maximum as a member.
LEMMA MaxIn ==
  ASSUME NEW n \in Nat, NEW x \in SUBSET (1 .. n), x # {}
  PROVE  Max(x) \in x
<1> DEFINE B == {k \in Nat : \E i \in x : k = n - i}
<1>1. B \subseteq Nat /\ B # {}
  <2>1. PICK i \in x : TRUE
    OBVIOUS
  <2>2. n - i \in B
    OBVIOUS
  <2> QED
    BY <2>2
<1>2. PICK k \in B : \A j \in B : k <= j
  BY <1>1, LeastExists
<1>3. PICK i \in x : k = n - i
  OBVIOUS
<1>4. ASSUME NEW j \in x PROVE i >= j
  <2>1. j \in 1 .. n /\ i \in 1 .. n
    OBVIOUS
  <2>2. n - j \in B
    BY <2>1
  <2>3. n - i <= n - j
    BY <1>2, <1>3, <2>2
  <2> QED
    BY <2>1, <2>3
<1>5. \E y \in x : \A z \in x : y >= z
  BY <1>4
<1> QED
  BY <1>5 DEF Max

\* The maximum of 1 .. n.
LEMMA MaxOfInterval ==
  ASSUME NEW i \in Nat, i # 0
  PROVE  Max(1 .. i) = i /\ (1 .. i) \ {i} = 1 .. (i - 1)
<1>1. Max(1 .. i) = i
  <2>1. i \in 1 .. i /\ \A z \in 1 .. i : i >= z
    OBVIOUS
  <2>2. \A y \in 1 .. i : (\A z \in 1 .. i : y >= z) => y = i
    OBVIOUS
  <2> QED
    BY <2>1, <2>2 DEF Max
<1>2. (1 .. i) \ {i} = 1 .. (i - 1)
  OBVIOUS
<1> QED
  BY <1>1, <1>2

\* The equation of FoldLeft, for an operator that is a function.
FoldsLeft(g, start_, step, s) ==
  g = [x \in SUBSET DOMAIN s |->
         IF x = {} THEN start_ ELSE step[<<g[x \ {Max(x)}], s[Max(x)]>>]]

\* A function with the equation of FoldLeft() exists.
LEMMA FoldsLeftExists ==
  ASSUME NEW A, NEW s \in Seq(A), NEW V, NEW start_ \in V,
         NEW step \in [V \X A -> V]
  PROVE  \E g \in [SUBSET DOMAIN s -> V] : FoldsLeft(g, start_, step, s)
<1> DEFINE D == DOMAIN s
           c == [x \in (SUBSET D) \ {{}} |-> Max(x)]
           flip == [p \in D \X V |-> step[<<p[2], s[p[1]]>>]]
<1>1. D = 1 .. Len(s) /\ Len(s) \in Nat /\ IsFiniteSet(D)
  <2>1. D = 1 .. Len(s) /\ Len(s) \in Nat
    OBVIOUS
  <2> QED
    BY <2>1, FS_Interval
<1>2. ASSUME NEW x \in SUBSET D, x # {} PROVE Max(x) \in x /\ Max(x) \in D
  <2> HIDE DEF D
  <2> QED
    BY <1>1, <1>2, MaxIn
<1>3. c \in Chooses(D)
  <2> HIDE DEF D
  <2> QED
    BY <1>2 DEF Chooses
<1>4. \A i \in D : s[i] \in A
  OBVIOUS
<1>5. flip \in [D \X V -> V]
  <2>1. ASSUME NEW p \in D \X V PROVE step[<<p[2], s[p[1]]>>] \in V
    <3> HIDE DEF D
    <3>1. p[1] \in D /\ p[2] \in V /\ s[p[1]] \in A
      BY <1>4
    <3>2. <<p[2], s[p[1]]>> \in V \X A
      BY <3>1
    <3> QED
      BY <3>2
  <2> QED
    BY <2>1
<1>6. PICK g \in [SUBSET D -> V] : IsFold(g, D, start_, flip, c)
  <2> HIDE DEF c, flip, D
  <2> QED
    BY <1>1, <1>3, <1>5, FoldExists
<1>7. ASSUME NEW x \in SUBSET D, x # {}
      PROVE  flip[<<c[x], g[x \ {c[x]}]>>] = step[<<g[x \ {Max(x)}], s[Max(x)]>>]
  <2>1. ASSUME NEW i \in D, NEW v \in V PROVE flip[<<i, v>>] = step[<<v, s[i]>>]
    <3> HIDE DEF D
    <3> QED
      OBVIOUS
  <2>2. c[x] = Max(x)
    <3> HIDE DEF D
    <3> QED
      BY <1>7
  <2> HIDE DEF D, flip, c
  <2>3. x \ {Max(x)} \in SUBSET D /\ Max(x) \in D
    BY <1>2, <1>7
  <2>4. g[x \ {Max(x)}] \in V
    BY <2>3
  <2> QED
    BY <2>1, <2>2, <2>3, <2>4
<1>8. FoldsLeft(g, start_, step, s)
  <2> HIDE DEF flip, c
  <2> QED
    BY <1>6, <1>7 DEF IsFold, FoldsLeft
<1> QED
  BY <1>8

\* On the first i elements.
LEMMA FoldsLeftAt ==
  ASSUME NEW A, NEW s \in Seq(A), NEW start_, NEW step, NEW g,
         FoldsLeft(g, start_, step, s), NEW i \in 1 .. Len(s)
  PROVE  /\ g[1 .. 0] = start_
         /\ g[1 .. i] = step[<<g[1 .. (i - 1)], s[i]>>]
<1>1. DOMAIN s = 1 .. Len(s) /\ Len(s) \in Nat
  OBVIOUS
<1>2. 1 .. 0 = {} /\ 1 .. i # {} /\ 1 .. i \in SUBSET (1 .. Len(s)) /\ {} \in SUBSET (1 .. Len(s))
  BY <1>1
<1>3. Max(1 .. i) = i /\ (1 .. i) \ {i} = 1 .. (i - 1)
  BY <1>1, MaxOfInterval
<1>4. \A x \in SUBSET DOMAIN s :
        g[x] = IF x = {} THEN start_ ELSE step[<<g[x \ {Max(x)}], s[Max(x)]>>]
  BY Zenon DEF FoldsLeft
<1>5. g[{}] = start_
  BY <1>1, <1>2, <1>4
<1>6. g[1 .. i] = step[<<g[(1 .. i) \ {Max(1 .. i)}], s[Max(1 .. i)]>>]
  BY <1>1, <1>2, <1>4
<1> QED
  BY <1>2, <1>3, <1>5, <1>6

\* v is what the fold comes to.
LeftResult(v, start_, step, s) ==
  \E g : FoldsLeft(g, start_, step, s) /\ v = g[DOMAIN s]

\* Folding nothing gives the start.
LEMMA LeftEmpty ==
  ASSUME NEW v, NEW start_, NEW step, LeftResult(v, start_, step, <<>>)
  PROVE  v = start_
<1>1. PICK g : FoldsLeft(g, start_, step, <<>>) /\ v = g[DOMAIN <<>>]
  BY DEF LeftResult
<1>2. DOMAIN <<>> = {}
  OBVIOUS
<1> QED
  BY <1>1, <1>2 DEF FoldsLeft

\* One element more.
Grows(t, s, b, A) == s \in Seq(A) /\ b \in A /\ t = Append(s, b)

\* The functions for s and for s with one more agree on s.
LEMMA FoldsLeftAppend ==
  ASSUME NEW A, NEW s, NEW b, NEW t, Grows(t, s, b, A),
         NEW start_, NEW step, NEW g, NEW h,
         FoldsLeft(g, start_, step, s), FoldsLeft(h, start_, step, t)
  PROVE  h[DOMAIN t] = step[<<g[DOMAIN s], b>>]
<1>0. s \in Seq(A) /\ b \in A /\ t = Append(s, b)
  BY DEF Grows
<1> DEFINE n == Len(s)
           B == {i \in Nat : i <= n /\ g[1 .. i] # h[1 .. i]}
<1>1. /\ t \in Seq(A) /\ n \in Nat /\ Len(t) = n + 1 /\ t[n + 1] = b
      /\ \A i \in 1 .. n : s[i] = t[i]
      /\ DOMAIN s = 1 .. n /\ DOMAIN t = 1 .. (n + 1)
  <2>1. /\ t \in Seq(A) /\ n \in Nat /\ Len(t) = n + 1 /\ t[Len(t)] = b
        /\ \A i \in 1 .. n : s[i] = t[i]
    BY <1>0, AppendIs
  <2>2. DOMAIN s = 1 .. n /\ DOMAIN t = 1 .. Len(t)
    BY <1>0
  <2> QED
    BY <2>1, <2>2
<1> HIDE DEF n
<1>3. g[1 .. 0] = start_ /\ h[1 .. 0] = start_
  <2>1. 1 .. 0 = {} /\ {} \in SUBSET (1 .. n) /\ {} \in SUBSET (1 .. (n + 1))
    BY <1>1
  <2> QED
    BY <1>1, <2>1 DEF FoldsLeft
<1>4. CASE B # {}
  <2>1. B \subseteq Nat /\ 0 \notin B
    BY <1>3
  <2>2. PICK i \in Nat : i \notin B /\ i + 1 \in B
    BY <1>4, <2>1, FirstBad
  <2>3. i + 1 \in 1 .. n /\ i + 1 \in 1 .. Len(t) /\ i <= n /\ (i + 1) - 1 = i
    BY <1>1, <2>2
  <2>4. g[1 .. i] = h[1 .. i] /\ g[1 .. (i + 1)] # h[1 .. (i + 1)]
    BY <2>2, <2>3
  <2>5. g[1 .. (i + 1)] = step[<<g[1 .. ((i + 1) - 1)], s[i + 1]>>]
    BY <1>0, <2>3, FoldsLeftAt DEF n
  <2>6. h[1 .. (i + 1)] = step[<<h[1 .. ((i + 1) - 1)], t[i + 1]>>]
    BY <1>1, <2>3, FoldsLeftAt
  <2> QED
    BY <1>1, <2>3, <2>4, <2>5, <2>6
<1>5. CASE B = {}
  <2>1. g[1 .. n] = h[1 .. n]
    BY <1>1, <1>5
  <2>2. n + 1 \in 1 .. Len(t) /\ (n + 1) - 1 = n
    BY <1>1
  <2>3. h[1 .. (n + 1)] = step[<<h[1 .. ((n + 1) - 1)], t[n + 1]>>]
    BY <1>1, <2>2, FoldsLeftAt
  <2> QED
    BY <1>1, <2>1, <2>2, <2>3
<1> QED
  BY <1>4, <1>5

\* Folding one more is one more step.
LEMMA LeftAppend ==
  ASSUME NEW A, NEW s, NEW b, NEW t, Grows(t, s, b, A),
         NEW start_, NEW step, NEW v, NEW w,
         LeftResult(v, start_, step, s), LeftResult(w, start_, step, t)
  PROVE  w = step[<<v, b>>]
<1>1. PICK g : FoldsLeft(g, start_, step, s) /\ v = g[DOMAIN s]
  BY DEF LeftResult
<1>2. PICK h : FoldsLeft(h, start_, step, t) /\ w = h[DOMAIN t]
  BY DEF LeftResult
<1>3. h[DOMAIN t] = step[<<g[DOMAIN s], b>>]
  BY <1>1, <1>2, FoldsLeftAppend
<1> QED
  BY <1>1, <1>2, <1>3

-----------------------------------------------------------------------------
(***************************************************************************)
(* buffer_size() is the number of bytes.                                   *)
(***************************************************************************)
AddSize(A) == [p \in Nat \X Seq(A) |-> p[1] + Len(p[2])]

\* The step that buffer_size() folds is a function.
LEMMA AddSizeType == ASSUME NEW A PROVE AddSize(A) \in [Nat \X Seq(A) -> Nat]
<1>1. ASSUME NEW p \in Nat \X Seq(A) PROVE p[1] + Len(p[2]) \in Nat
  <2>1. p[1] \in Nat /\ p[2] \in Seq(A)
    OBVIOUS
  <2>2. Len(p[2]) \in Nat
    BY <2>1
  <2> QED
    BY <2>1, <2>2
<1> QED
  BY <1>1 DEF AddSize

\* buffer_size() is a fold of that step.
LEMMA SizeIsFold ==
  ASSUME NEW A, NEW s \in Seq(Seq(A))
  PROVE  buffer_size(s) \in Nat /\ LeftResult(buffer_size(s), 0, AddSize(A), s)
<1> DEFINE D == DOMAIN s
           Body(g, x) == IF x = {} THEN 0 ELSE g[x \ {Max(x)}] + Len(s[Max(x)])
           Eq(g) == g = [x \in SUBSET D |-> Body(g, x)]
           m == CHOOSE g : Eq(g)
<1>1. buffer_size(s) = m[D]
  BY DEF buffer_size, FoldLeft, MapThenFoldSet
<1>2. PICK g \in [SUBSET D -> Nat] : FoldsLeft(g, 0, AddSize(A), s)
  BY AddSizeType, FoldsLeftExists
<1>3. D = 1 .. Len(s) /\ Len(s) \in Nat /\ IsFiniteSet(D) /\ \A i \in D : s[i] \in Seq(A)
  <2>1. D = 1 .. Len(s) /\ Len(s) \in Nat /\ \A i \in D : s[i] \in Seq(A)
    OBVIOUS
  <2> QED
    BY <2>1, FS_Interval
<1> HIDE DEF D
<1>4. ASSUME NEW x \in SUBSET D, x # {} PROVE Max(x) \in x /\ Max(x) \in D
  BY <1>3, <1>4, MaxIn
<1>5. ASSUME NEW x \in SUBSET D PROVE g[x] = Body(g, x)
  <2>0. g[x] = IF x = {} THEN 0 ELSE AddSize(A)[<<g[x \ {Max(x)}], s[Max(x)]>>]
    BY <1>2 DEF FoldsLeft, D
  <2>1. CASE x = {}
    BY <2>0, <2>1
  <2>2. CASE x # {}
    <3>1. x \ {Max(x)} \in SUBSET D /\ s[Max(x)] \in Seq(A)
      BY <1>3, <1>4, <2>2
    <3>2. g[x \ {Max(x)}] \in Nat
      BY <3>1
    <3>3. ASSUME NEW v \in Nat, NEW b \in Seq(A) PROVE AddSize(A)[<<v, b>>] = v + Len(b)
      BY DEF AddSize
    <3> QED
      BY <2>0, <2>2, <3>1, <3>2, <3>3
  <2> QED
    BY <2>1, <2>2
<1>6. Eq(g)
  <2> HIDE DEF Body
  <2> QED
    BY <1>5
<1>7. Eq(m)
  <2> HIDE DEF Eq
  <2> QED
    BY <1>6
<1> HIDE DEF m
<1>8. \A x \in SUBSET D : m[x] = Body(m, x)
  <2> HIDE DEF Body
  <2> QED
    BY <1>7
<1>9. m[D] = g[D]
  <2> DEFINE B == {x \in SUBSET D : m[x] # g[x]}
  <2>1. CASE B # {}
    <3>1. B \in SUBSET SUBSET D
      OBVIOUS
    <3>2. PICK x \in B : \A i \in x : x \ {i} \notin B
      <4> HIDE DEF B
      <4> QED
        BY <1>3, <2>1, <3>1, LeastBadSet, ZenonT(60)
    <3>3. x \in SUBSET D /\ m[x] # g[x]
      OBVIOUS
    <3>4. x # {}
      BY <1>5, <1>8, <3>3
    <3>5. Max(x) \in x /\ x \ {Max(x)} \in SUBSET D
      BY <1>4, <3>3, <3>4
    <3>6. m[x \ {Max(x)}] = g[x \ {Max(x)}]
      BY <3>2, <3>5
    <3> QED
      BY <1>5, <1>8, <3>3, <3>4, <3>6
  <2>2. CASE B = {}
    BY <2>2
  <2> QED
    BY <2>1, <2>2
<1> QED
  <2>1. buffer_size(s) = g[DOMAIN s]
    BY <1>1, <1>9 DEF D
  <2>2. g[D] \in Nat
    OBVIOUS
  <2> QED
    BY <1>2, <2>1, <2>2 DEF LeftResult, D

\* One more buffer adds its length.
LEMMA SizeAppend ==
  ASSUME NEW A, NEW s \in Seq(Seq(A)), NEW b \in Seq(A)
  PROVE  buffer_size(Append(s, b)) = buffer_size(s) + Len(b)
<1> DEFINE t == Append(s, b)
<1>1. t \in Seq(Seq(A)) /\ Grows(t, s, b, Seq(A))
  BY AppendIs DEF Grows
<1> HIDE DEF t
<1>2. buffer_size(t) = AddSize(A)[<<buffer_size(s), b>>]
  <2>1. LeftResult(buffer_size(s), 0, AddSize(A), s)
    BY SizeIsFold
  <2>2. LeftResult(buffer_size(t), 0, AddSize(A), t)
    BY <1>1, SizeIsFold
  <2> QED
    BY <1>1, <2>1, <2>2, LeftAppend
<1>3. AddSize(A)[<<buffer_size(s), b>>] = buffer_size(s) + Len(b)
  BY SizeIsFold DEF AddSize
<1> QED
  BY <1>2, <1>3 DEF t

\* buffer_size() counts the bytes.
LEMMA SizeIsLength ==
  ASSUME NEW A, NEW s \in Seq(Seq(A))
  PROVE  buffer_size(s) = Len(FlattenSeq(s))
<1> DEFINE G == {q \in Seq(Seq(A)) : buffer_size(q) = Len(FlattenSeq(q))}
<1>1. <<>> \in G
  <2>1. <<>> \in Seq(Seq(A))
    BY EmptySeq
  <2>2. LeftResult(buffer_size(<<>>), 0, AddSize(A), <<>>)
    BY <2>1, SizeIsFold
  <2>3. buffer_size(<<>>) = 0
    BY <2>2, LeftEmpty
  <2> QED
    BY <2>1, <2>3, FlattenEmpty
<1>2. ASSUME NEW q \in Seq(Seq(A)), NEW b \in Seq(A), q \in G
      PROVE  Append(q, b) \in G
  <2>1. FlattenSeq(q) \in Seq(A)
    BY FlattenType
  <2>2. Len(FlattenSeq(q) \o b) = Len(FlattenSeq(q)) + Len(b)
    BY <2>1
  <2>3. Append(q, b) \in Seq(Seq(A))
    BY AppendIs
  <2> QED
    BY <1>2, <2>2, <2>3, SizeAppend, FlattenAppend
<1>3. Seq(Seq(A)) \subseteq G
  <2> HIDE DEF G
  <2> QED
    BY <1>1, <1>2, AllSequences
<1> QED
  BY <1>3

-----------------------------------------------------------------------------
(***************************************************************************)
(* transform_to_iovecs().                                                  *)
(***************************************************************************)
LEMMA MinOf ==
  ASSUME NEW m \in Int, NEW n \in Int
  PROVE  Min({m, n}) = IF m <= n THEN m ELSE n
<1> DEFINE least == IF m <= n THEN m ELSE n
<1>1. least \in {m, n} /\ \A y \in {m, n} : least =< y
  OBVIOUS
<1>2. \A x \in {m, n} : (\A y \in {m, n} : x =< y) => x = least
  OBVIOUS
<1> HIDE DEF least
<1>3. Min({m, n}) = least
  BY <1>1, <1>2 DEF Min
<1> QED
  BY <1>3 DEF least

\* The larger of two numbers.
LEMMA MaxOf ==
  ASSUME NEW a \in Int, NEW b \in Int
  PROVE  Max({a, b}) = IF a <= b THEN b ELSE a
<1> DEFINE m == IF a <= b THEN b ELSE a
           x == {a, b}
<1>1. m \in x /\ \A y \in x : m >= y
  OBVIOUS
<1>2. \A z \in x : (\A y \in x : z >= y) => z = m
  BY <1>1
<1> HIDE DEF m
<1>3. (CHOOSE z \in x : \A y \in x : z >= y) = m
  BY <1>1, <1>2
<1> QED
  BY <1>3 DEF Max, m

\* What advance() leaves.
LEMMA AdvanceIs ==
  ASSUME NEW A, NEW b \in Seq(A), NEW n \in Nat, n <= Len(b)
  PROVE  /\ advance(b, n) \in Seq(A)
         /\ Len(advance(b, n)) = Len(b) - n
         /\ \A i \in 1 .. Len(b) - n : advance(b, n)[i] = b[n + i]
BY DEF advance

\* What limit() leaves.
LEMMA LimitIs ==
  ASSUME NEW A, NEW b \in Seq(A), NEW n \in Nat
  PROVE  /\ limit(b, n) \in Seq(A)
         /\ Len(limit(b, n)) = IF Len(b) <= n THEN Len(b) ELSE n
         /\ \A i \in 1 .. Len(limit(b, n)) : limit(b, n)[i] = b[i]
<1> DEFINE k == IF Len(b) <= n THEN Len(b) ELSE n
<1>1. Len(b) \in Int
  OBVIOUS
<1>2. limit(b, n) = SubSeq(b, 1, k)
  BY <1>1, MinOf DEF limit
<1>3. k \in Nat /\ k <= Len(b)
  BY <1>1
<1> HIDE DEF k
<1>4. /\ SubSeq(b, 1, k) \in Seq(A) /\ Len(SubSeq(b, 1, k)) = k
      /\ \A i \in 1 .. k : SubSeq(b, 1, k)[i] = b[i]
  BY <1>3
<1> QED
  BY <1>2, <1>4 DEF k

\* v is the part of b that AddIovec appends.
IsCut(v, b, k, n, A) ==
  /\ v \in Seq(A)
  /\ Len(v) = IF Len(b) - k <= n THEN Len(b) - k ELSE n
  /\ \A i \in 1 .. Len(v) : v[i] = b[k + i]

\* A buffer advanced by k and limited to n is n bytes from the k-th on.
LEMMA CutIs ==
  ASSUME NEW A, NEW b \in Seq(A), NEW k \in Nat, k < Len(b), NEW n \in Nat
  PROVE  IsCut(limit(advance(b, k), n), b, k, n, A)
<1> DEFINE a == advance(b, k)
<1>0. k <= Len(b)
  OBVIOUS
<1>1. /\ a \in Seq(A) /\ Len(a) = Len(b) - k
      /\ \A i \in 1 .. Len(b) - k : a[i] = b[k + i]
  BY <1>0, AdvanceIs
<1> HIDE DEF a
<1>2. /\ limit(a, n) \in Seq(A)
      /\ Len(limit(a, n)) = IF Len(a) <= n THEN Len(a) ELSE n
      /\ \A i \in 1 .. Len(limit(a, n)) : limit(a, n)[i] = a[i]
  BY ONLY <1>1, n \in Nat, LimitIs
<1>3. ASSUME NEW i \in 1 .. Len(limit(a, n)) PROVE limit(a, n)[i] = b[k + i]
  <2>1. i \in 1 .. Len(b) - k
    BY <1>1, <1>2
  <2> QED
    BY <1>1, <1>2, <2>1
<1> QED
  BY <1>1, <1>2, <1>3 DEF a, IsCut

\* The loop's variables.
IovState(A) == [skip : Nat, max_len : Nat, iov : Seq(Seq(A)), full : BOOLEAN]

\* The step of transform_to_iovecs() keeps its state one.
LEMMA AddIovecType ==
  ASSUME NEW A, NEW st \in IovState(A), NEW b \in Seq(A)
  PROVE  AddIovec(st, b) \in IovState(A)
<1>0. st.skip \in Nat /\ st.max_len \in Nat /\ st.iov \in Seq(Seq(A)) /\ st.full \in BOOLEAN
      /\ Len(b) \in Nat
  BY DEF IovState
<1>1. CASE st.full
  BY <1>1 DEF AddIovec
<1>2. CASE ~ st.full /\ Len(b) <= st.skip
  <2>1. st.skip - Len(b) \in Nat
    BY <1>0, <1>2
  <2>2. [st EXCEPT !.skip = @ - Len(b)] \in IovState(A)
    BY <2>1 DEF IovState
  <2> QED
    BY <1>2, <2>2 DEF AddIovec
<1>3. CASE ~ st.full /\ ~ (Len(b) <= st.skip)
  <2> DEFINE v == limit(advance(b, st.skip), st.max_len)
  <2>1. v \in Seq(A) /\ Len(v) \in Nat /\ Len(v) <= st.max_len
    <3>1. st.skip < Len(b)
      BY <1>0, <1>3
    <3>2. IsCut(v, b, st.skip, st.max_len, A)
      BY <1>0, <3>1, CutIs
    <3> QED
      BY <1>0, <3>1, <3>2 DEF IsCut
  <2>2. AddIovec(st, b) = [skip |-> 0, max_len |-> st.max_len - Len(v),
                           iov |-> Append(st.iov, v), full |-> Len(v) = st.max_len]
    BY <1>3 DEF AddIovec
  <2> HIDE DEF v
  <2>3. Append(st.iov, v) \in Seq(Seq(A))
    BY <1>0, <2>1, AppendIs
  <2>4. st.max_len - Len(v) \in Nat
    BY <1>0, <2>1
  <2> QED
    BY <2>2, <2>3, <2>4 DEF IovState
<1> QED
  BY <1>0, <1>1, <1>2, <1>3

IovStep(A) == [p \in IovState(A) \X Seq(A) |-> AddIovec(p[1], p[2])]

\* The same, of the step as a function.
LEMMA IovStepType ==
  ASSUME NEW A PROVE IovStep(A) \in [IovState(A) \X Seq(A) -> IovState(A)]
<1>1. ASSUME NEW p \in IovState(A) \X Seq(A) PROVE AddIovec(p[1], p[2]) \in IovState(A)
  BY AddIovecType
<1> QED
  BY <1>1 DEF IovStep

\* The function is the step.
LEMMA IovStepIs ==
  ASSUME NEW A, NEW st \in IovState(A), NEW b \in Seq(A)
  PROVE  IovStep(A)[<<st, b>>] = AddIovec(st, b)
BY DEF IovStep

\* The variables at first and at the end.
IovInit(skip, max_len) ==
  [skip |-> skip, max_len |-> max_len, iov |-> <<>>, full |-> FALSE]
IovEnd(s, skip, max_len) == FoldLeft(AddIovec, IovInit(skip, max_len), s)

\* The state it starts with.
LEMMA IovInitType ==
  ASSUME NEW A, NEW k \in Nat, NEW n \in Nat PROVE IovInit(k, n) \in IovState(A)
<1>1. <<>> \in Seq(Seq(A))
  BY EmptySeq
<1> QED
  BY <1>1 DEF IovInit, IovState

\* transform_to_iovecs() returns what the fold has collected.
LEMMA IovecsIs ==
  ASSUME NEW s, NEW k, NEW n
  PROVE  transform_to_iovecs(s, k, n) = IovEnd(s, k, n).iov
BY DEF transform_to_iovecs, IovEnd, IovInit

\* The fold over AddIovec() is the fold over that function.
LEMMA IovIsFold ==
  ASSUME NEW A, NEW s \in Seq(Seq(A)), NEW k \in Nat, NEW n \in Nat
  PROVE  /\ IovEnd(s, k, n) \in IovState(A)
         /\ LeftResult(IovEnd(s, k, n), IovInit(k, n), IovStep(A), s)
<1> DEFINE D == DOMAIN s
           init == IovInit(k, n)
           Body(g, x) == IF x = {} THEN init ELSE AddIovec(g[x \ {Max(x)}], s[Max(x)])
           Eq(g) == g = [x \in SUBSET D |-> Body(g, x)]
           m == CHOOSE g : Eq(g)
<1>1. IovEnd(s, k, n) = m[D]
  BY DEF IovEnd, FoldLeft, MapThenFoldSet
<1>0. init \in IovState(A)
  BY IovInitType
<1> HIDE DEF init
<1>2. PICK g \in [SUBSET D -> IovState(A)] : FoldsLeft(g, init, IovStep(A), s)
  BY <1>0, IovStepType, FoldsLeftExists
<1>3. D = 1 .. Len(s) /\ Len(s) \in Nat /\ IsFiniteSet(D) /\ \A i \in D : s[i] \in Seq(A)
  <2>1. D = 1 .. Len(s) /\ Len(s) \in Nat /\ \A i \in D : s[i] \in Seq(A)
    OBVIOUS
  <2> QED
    BY <2>1, FS_Interval
<1> HIDE DEF D
<1>4. ASSUME NEW x \in SUBSET D, x # {} PROVE Max(x) \in x /\ Max(x) \in D
  BY <1>3, <1>4, MaxIn
<1>5. ASSUME NEW x \in SUBSET D PROVE g[x] = Body(g, x)
  <2>0. g[x] = IF x = {} THEN init ELSE IovStep(A)[<<g[x \ {Max(x)}], s[Max(x)]>>]
    BY <1>2 DEF FoldsLeft, D
  <2>1. CASE x = {}
    BY <2>0, <2>1
  <2>2. CASE x # {}
    <3>1. x \ {Max(x)} \in SUBSET D /\ s[Max(x)] \in Seq(A)
      BY <1>3, <1>4, <2>2
    <3>2. g[x \ {Max(x)}] \in IovState(A)
      BY <3>1
    <3>3. IovStep(A)[<<g[x \ {Max(x)}], s[Max(x)]>>] = AddIovec(g[x \ {Max(x)}], s[Max(x)])
      BY <3>1, <3>2, IovStepIs
    <3> QED
      BY <2>0, <2>2, <3>3
  <2> QED
    BY <2>1, <2>2
<1>6. Eq(g)
  <2> HIDE DEF Body
  <2> QED
    BY <1>5
<1>7. Eq(m)
  <2> HIDE DEF Eq
  <2> QED
    BY <1>6
<1> HIDE DEF m
<1>8. \A x \in SUBSET D : m[x] = Body(m, x)
  <2> HIDE DEF Body
  <2> QED
    BY <1>7
<1>9. m[D] = g[D]
  <2> DEFINE B == {x \in SUBSET D : m[x] # g[x]}
  <2>1. CASE B # {}
    <3>1. B \in SUBSET SUBSET D
      OBVIOUS
    <3>2. PICK x \in B : \A i \in x : x \ {i} \notin B
      <4> HIDE DEF B
      <4> QED
        BY <1>3, <2>1, <3>1, LeastBadSet, ZenonT(60)
    <3>3. x \in SUBSET D /\ m[x] # g[x]
      OBVIOUS
    <3>4. x # {}
      BY <1>5, <1>8, <3>3
    <3>5. Max(x) \in x /\ x \ {Max(x)} \in SUBSET D
      BY <1>4, <3>3, <3>4
    <3>6. m[x \ {Max(x)}] = g[x \ {Max(x)}]
      BY <3>2, <3>5
    <3>7. m[x] = AddIovec(m[x \ {Max(x)}], s[Max(x)])
      BY <1>8, <3>3, <3>4
    <3>8. g[x] = AddIovec(g[x \ {Max(x)}], s[Max(x)])
      BY <1>5, <3>3, <3>4
    <3> QED
      BY <3>3, <3>6, <3>7, <3>8
  <2>2. CASE B = {}
    BY <2>2
  <2> QED
    BY <2>1, <2>2
<1> QED
  <2>1. IovEnd(s, k, n) = g[DOMAIN s]
    BY <1>1, <1>9 DEF D
  <2>2. g[D] \in IovState(A)
    OBVIOUS
  <2> QED
    BY <1>2, <2>1, <2>2 DEF LeftResult, D, init

\* One more buffer is one more step.
LEMMA IovAppend ==
  ASSUME NEW A, NEW s \in Seq(Seq(A)), NEW b \in Seq(A), NEW k \in Nat, NEW n \in Nat
  PROVE  IovEnd(Append(s, b), k, n) = AddIovec(IovEnd(s, k, n), b)
<1> DEFINE t == Append(s, b)
<1>1. t \in Seq(Seq(A)) /\ Grows(t, s, b, Seq(A))
  BY AppendIs DEF Grows
<1> HIDE DEF t
<1>2. IovEnd(t, k, n) = IovStep(A)[<<IovEnd(s, k, n), b>>]
  <2>1. LeftResult(IovEnd(s, k, n), IovInit(k, n), IovStep(A), s)
    BY IovIsFold
  <2>2. LeftResult(IovEnd(t, k, n), IovInit(k, n), IovStep(A), t)
    BY <1>1, IovIsFold
  <2> QED
    BY <1>1, <2>1, <2>2, LeftAppend
<1>3. IovEnd(s, k, n) \in IovState(A)
  BY IovIsFold
<1>4. IovStep(A)[<<IovEnd(s, k, n), b>>] = AddIovec(IovEnd(s, k, n), b)
  BY <1>3, IovStepIs
<1> QED
  BY <1>2, <1>4 DEF t

\* No buffer leaves the start.
LEMMA IovEmpty ==
  ASSUME NEW k \in Nat, NEW n \in Nat PROVE IovEnd(<<>>, k, n) = IovInit(k, n)
<1>1. <<>> \in Seq(Seq(Nat))
  BY EmptySeq
<1>2. LeftResult(IovEnd(<<>>, k, n), IovInit(k, n), IovStep(Nat), <<>>)
  BY <1>1, IovIsFold
<1> QED
  BY <1>2, LeftEmpty

\* What the loop has done after the buffers of s: of their bytes F it has
\* taken the ones after the first k, at most n of them, in order.
Covers(s, st, k, n) ==
  LET F == FlattenSeq(s)
      X == FlattenSeq(st.iov)
  IN  /\ Len(X) = IF Len(F) <= k THEN 0 ELSE IF Len(F) - k <= n THEN Len(F) - k ELSE n
      /\ \A i \in 1 .. Len(X) : X[i] = F[k + i]
      /\ st.full <=> Len(F) >= k + n
      /\ ~ st.full => /\ st.skip = IF Len(F) <= k THEN k - Len(F) ELSE 0
                      /\ st.max_len = n - Len(X)

\* What concatenation does.
LEMMA ConcatIs ==
  ASSUME NEW A, NEW s \in Seq(A), NEW t \in Seq(A)
  PROVE  /\ s \o t \in Seq(A) /\ Len(s \o t) = Len(s) + Len(t)
         /\ \A i \in 1 .. Len(s) : (s \o t)[i] = s[i]
         /\ \A i \in 1 .. Len(t) : (s \o t)[Len(s) + i] = t[i]
OBVIOUS

\* The arithmetic of one round: of F there are l bytes, x of them are taken,
\* and b has c; p bytes of b are to be skipped, q may be taken.
LEMMA RoundSkips ==
  ASSUME NEW k \in Nat, NEW n \in Nat, n > 0, NEW l \in Nat, NEW c \in Nat,
         NEW x \in Nat, x = IF l <= k THEN 0 ELSE IF l - k <= n THEN l - k ELSE n,
         NEW p \in Nat, p = IF l <= k THEN k - l ELSE 0, l < k + n, c <= p
  PROVE  /\ x = IF l + c <= k THEN 0 ELSE IF (l + c) - k <= n THEN (l + c) - k ELSE n
         /\ ~ (l + c >= k + n)
         /\ p - c = IF l + c <= k THEN k - (l + c) ELSE 0
OBVIOUS

\* One step of transform_to_iovecs() keeps Covers().
LEMMA AddIovecCovers ==
  ASSUME NEW A, NEW s \in Seq(Seq(A)), NEW st \in IovState(A), NEW b \in Seq(A),
         NEW k \in Nat, NEW n \in Nat, n > 0, Covers(s, st, k, n)
  PROVE  Covers(Append(s, b), AddIovec(st, b), k, n)
<1> DEFINE F == FlattenSeq(s)
           X == FlattenSeq(st.iov)
           G == FlattenSeq(Append(s, b))
           Y == FlattenSeq(AddIovec(st, b).iov)
           L == Len(F)
<1>1. /\ F \in Seq(A) /\ X \in Seq(A) /\ L \in Nat /\ Len(X) \in Nat /\ Len(b) \in Nat
      /\ st.skip \in Nat /\ st.max_len \in Nat /\ st.iov \in Seq(Seq(A))
      /\ st.full \in BOOLEAN
  <2>1. /\ st.skip \in Nat /\ st.max_len \in Nat /\ st.iov \in Seq(Seq(A))
        /\ st.full \in BOOLEAN
    BY DEF IovState
  <2>2. F \in Seq(A) /\ X \in Seq(A)
    BY <2>1, FlattenType
  <2> HIDE DEF F, X
  <2> QED
    BY <2>1, <2>2
<1>2. /\ G \in Seq(A)
      /\ \A i \in 1 .. L : G[i] = F[i]
      /\ \A i \in 1 .. Len(b) : G[L + i] = b[i]
  <2>1. G = F \o b
    BY FlattenAppend
  <2> HIDE DEF F, G
  <2> QED
    BY <1>1, <2>1, ConcatIs
<1>3. \A i \in 1 .. Len(X) : X[i] = F[k + i]
  BY DEF Covers
<1>8. /\ L \in Nat /\ Len(X) \in Nat /\ Len(b) \in Nat /\ st.skip \in Nat
      /\ st.max_len \in Nat /\ Len(G) = L + Len(b)
      /\ Len(X) = IF L <= k THEN 0 ELSE IF L - k <= n THEN L - k ELSE n
  <2>1. Len(X) = IF L <= k THEN 0 ELSE IF L - k <= n THEN L - k ELSE n
    BY DEF Covers
  <2>2. G = F \o b
    BY FlattenAppend
  <2> HIDE DEF F, G, X
  <2>3. Len(G) = L + Len(b)
    BY <1>1, <2>2, ConcatIs
  <2> QED
    BY <1>1, <2>1, <2>3
<1>9. /\ st.full <=> L >= k + n
      /\ ~ st.full => /\ st.skip = IF L <= k THEN k - L ELSE 0
                      /\ st.max_len = n - Len(X)
  BY DEF Covers
<1> SUFFICES /\ Len(Y) = IF Len(G) <= k THEN 0 ELSE IF Len(G) - k <= n THEN Len(G) - k ELSE n
             /\ \A i \in 1 .. Len(Y) : Y[i] = G[k + i]
             /\ AddIovec(st, b).full <=> Len(G) >= k + n
             /\ ~ AddIovec(st, b).full =>
                  /\ AddIovec(st, b).skip = IF Len(G) <= k THEN k - Len(G) ELSE 0
                  /\ AddIovec(st, b).max_len = n - Len(Y)
  BY DEF Covers
<1>4. ASSUME NEW i \in 1 .. Len(X) PROVE X[i] = G[k + i]
  <2> HIDE DEF F, X, G, L
  <2>1. k + i \in 1 .. L
    BY <1>8
  <2> QED
    BY <1>2, <1>3, <2>1
<1>5. CASE st.full
  <2>1. AddIovec(st, b) = st
    BY <1>5 DEF AddIovec
  <2>2. Y = X
    BY <2>1
  <2> HIDE DEF F, X, G, L, Y
  <2>3. /\ Len(X) = IF Len(G) <= k THEN 0 ELSE IF Len(G) - k <= n THEN Len(G) - k ELSE n
        /\ Len(G) >= k + n
    BY <1>5, <1>8, <1>9
  <2> QED
    BY <1>4, <1>5, <2>1, <2>2, <2>3
<1>6. CASE ~ st.full /\ Len(b) <= st.skip
  <2>1. AddIovec(st, b) = [st EXCEPT !.skip = @ - Len(b)]
    BY <1>6 DEF AddIovec
  <2>2. /\ AddIovec(st, b).iov = st.iov /\ AddIovec(st, b).full = st.full
        /\ AddIovec(st, b).max_len = st.max_len
        /\ AddIovec(st, b).skip = st.skip - Len(b)
    BY <2>1 DEF IovState
  <2>3. Y = X
    BY <2>2
  <2> HIDE DEF F, X, G, L, Y
  <2>4. /\ Len(X) = IF Len(G) <= k THEN 0 ELSE IF Len(G) - k <= n THEN Len(G) - k ELSE n
        /\ ~ (Len(G) >= k + n)
        /\ st.skip - Len(b) = IF Len(G) <= k THEN k - Len(G) ELSE 0
        /\ st.max_len = n - Len(X)
    <3>1. ~ (L >= k + n) /\ st.max_len = n - Len(X)
          /\ st.skip = IF L <= k THEN k - L ELSE 0
      BY <1>6, <1>9
    <3>2. L < k + n /\ Len(b) <= st.skip
      BY <1>6, <1>8, <3>1
    <3>3. /\ Len(X) = IF L + Len(b) <= k THEN 0
                      ELSE IF (L + Len(b)) - k <= n THEN (L + Len(b)) - k ELSE n
          /\ ~ (L + Len(b) >= k + n)
          /\ st.skip - Len(b) = IF L + Len(b) <= k THEN k - (L + Len(b)) ELSE 0
      BY <1>8, <3>1, <3>2, RoundSkips
    <3> QED
      BY <1>8, <3>1, <3>3
  <2> QED
    BY <1>4, <1>6, <2>2, <2>3, <2>4
<1>7. CASE ~ st.full /\ ~ (Len(b) <= st.skip)
  <2> DEFINE v == limit(advance(b, st.skip), st.max_len)
  <2>1. IsCut(v, b, st.skip, st.max_len, A)
    <3>1. st.skip < Len(b)
      BY <1>1, <1>7
    <3> QED
      BY <1>1, <3>1, CutIs
  <2>2. AddIovec(st, b) = [skip |-> 0, max_len |-> st.max_len - Len(v),
                           iov |-> Append(st.iov, v), full |-> Len(v) = st.max_len]
    BY <1>7 DEF AddIovec
  <2> HIDE DEF v
  <2>3. /\ AddIovec(st, b).iov = Append(st.iov, v)
        /\ AddIovec(st, b).max_len = st.max_len - Len(v)
        /\ AddIovec(st, b).skip = 0
    BY <2>2
  <2>13. AddIovec(st, b).full <=> Len(v) = st.max_len
    <3> DEFINE hit == Len(v) = st.max_len
    <3>1. AddIovec(st, b).full = hit
      BY <2>2
    <3> QED
      BY <3>1
  <2>4. /\ v \in Seq(A)
        /\ \A i \in 1 .. Len(v) : v[i] = b[st.skip + i]
    BY <2>1 DEF IsCut
  <2>14. /\ Len(v) \in Nat
         /\ Len(v) = IF Len(b) - st.skip <= st.max_len THEN Len(b) - st.skip ELSE st.max_len
    BY <2>1 DEF IsCut
  <2>5. Y = X \o v
    BY <1>1, <2>3, <2>4, FlattenAppend
  <2> HIDE DEF F, X, G, L, Y
  <2>6. /\ \A i \in 1 .. Len(X) : Y[i] = X[i]
        /\ \A i \in 1 .. Len(v) : Y[Len(X) + i] = v[i]
    BY <1>1, <2>4, <2>5, ConcatIs
  <2>15. Len(Y) = Len(X) + Len(v)
    BY <1>1, <2>4, <2>5, ConcatIs
  <2>7. L < k + n /\ st.max_len = n - Len(X) /\ st.skip = IF L <= k THEN k - L ELSE 0
    BY <1>7, <1>8, <1>9
  <2>8. Len(X) = IF L <= k THEN 0 ELSE L - k
    BY <1>8, <2>7
  <2>9. st.skip < Len(b)
    BY <1>7, <1>8
  <2>10. /\ Len(Y) = IF Len(G) <= k THEN 0 ELSE IF Len(G) - k <= n THEN Len(G) - k ELSE n
         /\ Len(v) = st.max_len <=> Len(G) >= k + n
         /\ Len(G) > k
         /\ st.max_len - Len(v) = n - Len(Y)
    <3>1. /\ L + Len(b) > k
          /\ Len(X) + Len(v) = IF (L + Len(b)) - k <= n THEN (L + Len(b)) - k ELSE n
          /\ Len(v) = st.max_len <=> L + Len(b) >= k + n
          /\ st.max_len - Len(v) = n - (Len(X) + Len(v))
      <4> DEFINE x == Len(X)
                 w == Len(v)
                 c == Len(b)
                 p == st.skip
                 q == st.max_len
      <4>1. /\ L \in Nat /\ x \in Nat /\ w \in Nat /\ c \in Nat /\ p \in Nat /\ q \in Nat
            /\ L < k + n /\ q = n - x /\ p < c
            /\ x = IF L <= k THEN 0 ELSE L - k
            /\ p = IF L <= k THEN k - L ELSE 0
            /\ w = IF c - p <= q THEN c - p ELSE q
        BY <1>8, <2>7, <2>8, <2>9, <2>14
      <4> HIDE DEF x, w, c, p, q
      <4>2. /\ L + c > k
            /\ x + w = IF (L + c) - k <= n THEN (L + c) - k ELSE n
            /\ w = q <=> L + c >= k + n
            /\ q - w = n - (x + w)
        BY <4>1
      <4> QED
        BY <4>2 DEF x, w, c, p, q
    <3>2. ~ (L + Len(b) <= k)
      BY <1>8, <3>1
    <3> QED
      BY <1>8, <2>15, <3>1, <3>2
  <2>11. ASSUME NEW i \in 1 .. Len(Y) PROVE Y[i] = G[k + i]
    <3>1. CASE i <= Len(X)
      <4>1. i \in 1 .. Len(X)
        BY <1>8, <2>14, <2>15, <3>1
      <4> QED
        BY <1>4, <2>6, <4>1
    <3>2. CASE ~ (i <= Len(X))
      <4> DEFINE j == i - Len(X)
      <4>1. j \in 1 .. Len(v) /\ i = Len(X) + j
        BY <1>8, <2>14, <2>15, <3>2, SMTT(30)
      <4> HIDE DEF j
      <4>2. st.skip + j \in 1 .. Len(b) /\ k + i = L + (st.skip + j)
        BY <1>8, <2>7, <2>8, <2>9, <2>14, <4>1
      <4>3. Y[i] = b[st.skip + j]
        BY <2>4, <2>6, <4>1
      <4>4. G[L + (st.skip + j)] = b[st.skip + j]
        BY <1>2, <4>2
      <4> QED
        BY <4>2, <4>3, <4>4
    <3> QED
      BY <3>1, <3>2
  <2>12. ~ (Len(G) <= k)
    BY <1>8, <2>10
  <2> QED
    BY <2>3, <2>10, <2>11, <2>12, <2>13
<1> QED
  BY <1>1, <1>5, <1>6, <1>7

\* Whatever the buffers and the number of bytes done, the iovecs are the next
\* n bytes after the first k, or as many as there are, in order.
LEMMA IovecsCover ==
  ASSUME NEW A, NEW s \in Seq(Seq(A)), NEW k \in Nat, NEW n \in Nat, n > 0
  PROVE  Covers(s, IovEnd(s, k, n), k, n)
<1> DEFINE G == {q \in Seq(Seq(A)) : Covers(q, IovEnd(q, k, n), k, n)}
<1>1. <<>> \in G
  <2>1. <<>> \in Seq(Seq(A))
    BY EmptySeq
  <2>2. Covers(<<>>, IovInit(k, n), k, n)
    BY FlattenEmpty DEF Covers, IovInit
  <2> QED
    BY <2>1, <2>2, IovEmpty
<1>2. ASSUME NEW q \in Seq(Seq(A)), NEW b \in Seq(A), q \in G
      PROVE  Append(q, b) \in G
  <2>1. IovEnd(q, k, n) \in IovState(A)
    BY IovIsFold
  <2>2. Covers(Append(q, b), AddIovec(IovEnd(q, k, n), b), k, n)
    BY <1>2, <2>1, AddIovecCovers
  <2>3. Append(q, b) \in Seq(Seq(A))
    BY AppendIs
  <2> QED
    BY <2>2, <2>3, IovAppend
<1>3. Seq(Seq(A)) \subseteq G
  <2> HIDE DEF G
  <2> QED
    BY <1>1, <1>2, AllSequences
<1> QED
  BY <1>3

\* The laws of transform_to_iovecs(), in the terms of Buffers.
THEOREM IovecsAreTheWindow ==
  ASSUME NEW A, NEW s \in Seq(Seq(A)), NEW k \in Nat, NEW n \in Nat, n > 0
  PROVE  FlattenSeq(transform_to_iovecs(s, k, n)) = Window(s, k, n)
<1> DEFINE F == FlattenSeq(s)
           st == IovEnd(s, k, n)
           X == FlattenSeq(st.iov)
           e == IF k + n <= Len(F) THEN k + n ELSE Len(F)
<1>1. F \in Seq(A) /\ X \in Seq(A)
  <2>1. st \in IovState(A)
    BY IovIsFold
  <2>2. st.iov \in Seq(Seq(A))
    BY <2>1 DEF IovState
  <2> HIDE DEF st
  <2> QED
    BY <2>2, FlattenType
<1>2. /\ Len(X) = IF Len(F) <= k THEN 0 ELSE IF Len(F) - k <= n THEN Len(F) - k ELSE n
      /\ \A i \in 1 .. Len(X) : X[i] = F[k + i]
  <2>1. Covers(s, st, k, n)
    BY IovecsCover
  <2> HIDE DEF st
  <2> QED
    BY <2>1 DEF Covers
<1>3. FlattenSeq(transform_to_iovecs(s, k, n)) = X
  BY IovecsIs
<1> HIDE DEF F, X, st
<1>4. Len(F) \in Nat
  BY <1>1
<1>5. Window(s, k, n) = SubSeq(F, k + 1, e)
  <2>0. k + n \in Int /\ Len(F) \in Int
    BY <1>4
  <2>1. Min({k + n, Len(F)}) = e
    BY <2>0, MinOf
  <2> QED
    BY <2>1 DEF Window, F
<1>6. /\ SubSeq(F, k + 1, e) \in Seq(A)
      /\ Len(SubSeq(F, k + 1, e)) = Len(X)
      /\ \A i \in 1 .. Len(X) : SubSeq(F, k + 1, e)[i] = F[k + i]
  <2>1. e \in Nat /\ e <= Len(F) /\ Len(X) = IF k <= e THEN e - k ELSE 0
    BY <1>2, <1>4
  <2> HIDE DEF e
  <2>2. CASE k <= e
    BY <1>1, <1>4, <2>1, <2>2
  <2>3. CASE ~ (k <= e)
    BY <1>1, <1>4, <2>1, <2>3
  <2> QED
    BY <2>2, <2>3
<1> HIDE DEF e
<1>7. X = SubSeq(F, k + 1, e)
  BY <1>1, <1>2, <1>6
<1> QED
  BY <1>3, <1>5, <1>7

-----------------------------------------------------------------------------
(***************************************************************************)
(* Completion conditions.                                                  *)
(***************************************************************************)
Condition == [kind : {"all", "at_least", "exactly"}, n : Nat]

\* As long as a condition asks for bytes it asks for all that it allows, and
\* when it asks for none the transfer may end by its documented meaning.
THEOREM ConditionsKeepTheirWord ==
  ASSUME NEW cond \in Condition, NEW size \in Nat, NEW done \in Nat
  PROVE  /\ to_transfer(cond, size, done) \in Nat
         /\ Ceiling(cond, size) \in Nat /\ Ceiling(cond, size) <= size
         /\ to_transfer(cond, size, done) > 0 =>
              done + to_transfer(cond, size, done) = Ceiling(cond, size)
         /\ to_transfer(cond, size, done) = 0 /\ done <= Ceiling(cond, size) =>
              Fulfils(cond, size, done)
<1> DEFINE least == IF cond.n <= size THEN cond.n ELSE size
<1>1. cond.n \in Nat /\ cond.kind \in {"all", "at_least", "exactly"}
  BY DEF Condition
<1>2. Min({cond.n, size}) = least
  BY <1>1, MinOf
<1>3. least \in Nat /\ least <= size
  BY <1>1
<1> HIDE DEF least
<1>4. CASE cond.kind = "all"
  BY <1>2, <1>3, <1>4 DEF to_transfer, Ceiling, Fulfils
<1>5. CASE cond.kind = "at_least"
  BY <1>2, <1>3, <1>5 DEF to_transfer, Ceiling, Fulfils
<1>6. CASE cond.kind = "exactly"
  BY <1>2, <1>3, <1>6 DEF to_transfer, Ceiling, Fulfils
<1> QED
  BY <1>1, <1>4, <1>5, <1>6

-----------------------------------------------------------------------------
(***************************************************************************)
(* The calls.                                                              *)
(***************************************************************************)
Addresses == ((Ops \cup {"stray"}) \X Nat) \X Nat

Locals == [b_ : Seq(Seq(Addresses)), cond_ : Conds, done_sz_ : Nat,
           iov_ : Seq(Seq(Addresses))]

Returns == [ok : BOOLEAN, n : Nat]

\* TypeOK, and the types of what it leaves out.
IoType ==
  /\ seekable \in BOOLEAN
  /\ offset_ \in Nat /\ stream \in Nat
  /\ DOMAIN file = Positions /\ len \in 0 .. FileMax
  /\ stage \in [Ops -> {"new", "pending", "done"}]
  /\ kind \in [Ops -> {"read", "write"}]
  /\ blocked \subseteq {o \in Ops : stage[o] = "pending"}
  /\ locals_ \in [Ops -> Locals]
  /\ off \in [Ops -> Nat]
  /\ cqe \in [Ops -> Nat \cup {-1, NoCqe}]
  /\ answers \in [Ops -> Seq(Returns)]
  /\ bytes \in [Ops -> Seq(Addresses)]
  /\ start \in [Ops -> Nat]
  /\ last \subseteq Ops
  /\ base \in Int
  /\ aborted \in BOOLEAN

\* The iovecs of l are what its next request needs.
Asks(l) ==
  /\ Missing(l) > 0
  /\ l.iov_ = transform_to_iovecs(l.b_, l.done_sz_, Missing(l))

\* A call that is running asks for the bytes its condition still wants, and
\* gets no more; one that is not has no completion to come, and one that was
\* not made has moved nothing.
CallInv ==
  \A o \in Ops :
    /\ stage[o] = "pending" =>
         /\ Asks(locals_[o])
         /\ cqe[o] \in Nat => cqe[o] <= Missing(locals_[o])
    /\ stage[o] # "pending" => cqe[o] = NoCqe
    /\ stage[o] = "new" => locals_[o].done_sz_ = 0

\* How run() and the head of the loop of a sync call may go on from l.
Settles(o, l) ==
  \/ /\ Missing(l) = 0
     /\ complete(o, l, Success(l.done_sz_))
     /\ UNCHANGED <<off, aborted>>
     /\ blocked' = {}
  \/ /\ Missing(l) > 0
     /\ Submit(o, l, Missing(l))
     /\ blocked' \subseteq {o}
  \/ /\ aborted' = TRUE
     /\ "refused" \in Faults
     /\ UNCHANGED <<stage, locals_, off, answers>>
     /\ blocked' = {}

CallStep(o, k, shape, cond) ==
  Call(o, k, shape) /\ Settles(o, locals_t(o, shape, cond))

\* What go_on() and the loops of the sync calls do with a completion.
Rest(o) == /\ stage[o] = "pending" /\ cqe[o] # NoCqe
           /\ cqe' = [cqe EXCEPT ![o] = NoCqe]
           /\ UNCHANGED <<stream, devVars, kind, histVars>>

EndStep(o) ==
  /\ Rest(o)
  /\ \/ complete(o, locals_[o], Error)
     \/ /\ kind[o] = "read" /\ cqe[o] = 0
        /\ complete(o, locals_[o], Success(locals_[o].done_sz_))
  /\ blocked' = {}
  /\ UNCHANGED <<offset_, off, aborted>>

\* The locals after n more bytes, with the buffer sequence that is read then.
MovedOn(l, n, b) == [l EXCEPT !.done_sz_ = @ + n, !.b_ = b]

MoveStep(o, b) ==
  /\ Rest(o)
  /\ cqe[o] >= 0
  /\ feed(cqe[o])
  /\ b = locals_[o].b_ \/ (o \in Temporary /\ b \in Garbage(o))
  /\ Settles(o, MovedOn(locals_[o], cqe[o], b))

\* The steps of the specification, without the two APIs' different clothes.
Steps ==
  \/ \E o \in Ops, k \in Kinds, s \in Shapes, c \in Conds : CallStep(o, k, s, c)
  \/ \E o \in Ops : EndStep(o)
  \/ \E o \in Ops : \E b : MoveStep(o, b)
  \/ \E o \in Ops : \E n \in 0 .. FileMax : Transfer(o, n)
  \/ \E o \in Ops : Fail(o)
  \/ \E p \in Seeks : seek(p)

\* run() goes on in one of these ways.
LEMMA RunSettles ==
  ASSUME NEW o \in Ops, NEW l, run(o, l), blocked = {} PROVE Settles(o, l)
BY DEF run, Settles, Refused, Submit

\* So does the loop of a sync call.
LEMMA IterateSettles ==
  ASSUME NEW o \in Ops, NEW l, Iterate(o, l) PROVE Settles(o, l)
BY DEF Iterate, Settles

\* A sync call that blocks the thread is running.
LEMMA BlockedAlone ==
  ASSUME IoType, NEW o \in Ops, o \in blocked PROVE stage[o] = "pending"
BY DEF IoType

\* A sync call reads the buffer sequence it was given.
LEMMA SameBuffers ==
  ASSUME NEW l \in Locals, NEW n
  PROVE  [l EXCEPT !.done_sz_ = @ + n] = MovedOn(l, n, l.b_)
BY DEF Locals, MovedOn

\* Every step of the specification is one of Steps.
LEMMA NextSteps ==
  ASSUME IoType, Next
  PROVE  Steps /\ ~ aborted /\ UNCHANGED seekable
<1>1. ~ aborted /\ UNCHANGED seekable
  BY DEF Next
<1> SUFFICES Steps
  BY <1>1
<1>2. CASE \E o \in Ops, k \in Kinds, s \in Shapes, c \in Conds :
             async_call(o, k, s, c) \/ sync_call(o, k, s, c)
  <2>1. PICK o \in Ops, k \in Kinds, s \in Shapes, c \in Conds :
          async_call(o, k, s, c) \/ sync_call(o, k, s, c)
    BY <1>2
  <2>2. Call(o, k, s) /\ blocked = {}
    BY <2>1 DEF async_call, sync_call, Call
  <2>3. Settles(o, locals_t(o, s, c))
    BY <2>1, <2>2, RunSettles, IterateSettles DEF async_call, sync_call
  <2> QED
    BY <1>1, <2>2, <2>3 DEF Steps, CallStep
<1>3. ASSUME NEW o \in Ops, go_on(o) PROVE Steps
  <2>1. Rest(o) /\ blocked = {}
    BY <1>3 DEF go_on, Rest
  <2>2. CASE Failed(o)
    BY <2>1, <2>2 DEF Failed, EndStep, Steps
  <2>3. CASE Eof(o)
    BY <2>1, <2>3 DEF Eof, EndStep, Steps
  <2>4. CASE Advanced(o)
    <3>1. PICK b \in IF o \in Temporary THEN Garbage(o) ELSE {locals_[o].b_} :
            run(o, [locals_[o] EXCEPT !.done_sz_ = @ + cqe[o], !.b_ = b])
      BY <2>4, Zenon DEF Advanced
    <3>2. Settles(o, MovedOn(locals_[o], cqe[o], b))
      BY <2>1, <3>1, RunSettles DEF MovedOn
    <3>3. b = locals_[o].b_ \/ (o \in Temporary /\ b \in Garbage(o))
      OBVIOUS
    <3>4. cqe[o] >= 0 /\ feed(cqe[o])
      BY <2>4 DEF Advanced
    <3>5. MoveStep(o, b)
      BY <2>1, <3>2, <3>3, <3>4, Zenon DEF MoveStep
    <3> QED
      BY <3>5 DEF Steps
  <2> QED
    BY <1>3, <2>2, <2>3, <2>4 DEF go_on
<1>4. ASSUME NEW o \in Ops, SyscallReturns(o) PROVE Steps
  <2>1. Rest(o)
    BY <1>4, BlockedAlone DEF SyscallReturns, Rest
  <2>2. cqe[o] \in Nat \/ cqe[o] = -1
    BY <2>1 DEF IoType, Rest
  <2>3. ASSUME cqe[o] # -1, feed(cqe[o]),
               Iterate(o, [locals_[o] EXCEPT !.done_sz_ = @ + cqe[o]])
        PROVE  Steps
    <3>1. locals_[o] \in Locals
      BY DEF IoType
    <3>2. Settles(o, [locals_[o] EXCEPT !.done_sz_ = @ + cqe[o]])
      BY <2>3, IterateSettles
    <3>3. PICK b : b = locals_[o].b_
      OBVIOUS
    <3>4. Settles(o, MovedOn(locals_[o], cqe[o], b))
      BY <3>1, <3>2, <3>3, SameBuffers
    <3>5. cqe[o] >= 0
      BY <2>2, <2>3
    <3>6. MoveStep(o, b)
      BY <2>1, <2>3, <3>3, <3>4, <3>5, Zenon DEF MoveStep
    <3> QED
      BY <3>6 DEF Steps
  <2>4. CASE sync_read(o)
    <3>1. CASE cqe[o] <= 0
      <4>1. EndStep(o)
        BY <2>1, <2>2, <2>4, <3>1 DEF sync_read, EndStep
      <4> QED
        BY <4>1 DEF Steps
    <3>2. CASE cqe[o] > 0
      BY <2>2, <2>3, <2>4, <3>2 DEF sync_read
    <3> QED
      BY <2>2, <3>1, <3>2
  <2>5. CASE sync_write(o)
    <3>1. CASE cqe[o] = -1
      <4>1. EndStep(o)
        BY <2>1, <2>5, <3>1 DEF sync_write, EndStep
      <4> QED
        BY <4>1 DEF Steps
    <3>2. CASE cqe[o] # -1
      BY <2>3, <2>5, <3>2 DEF sync_write
    <3> QED
      BY <3>1, <3>2
  <2> QED
    BY <1>4, <2>4, <2>5 DEF SyscallReturns
<1>5. ASSUME NEW o \in Ops, Kernel(o) PROVE Steps
  BY <1>5 DEF Kernel, Steps
<1>6. CASE \E p \in Seeks : seek(p)
  BY <1>6 DEF Steps
<1>7. CASE \E o \in Ops : go_on(o) \/ SyscallReturns(o) \/ Kernel(o)
  BY <1>3, <1>4, <1>5, <1>7
<1> QED
  BY <1>2, <1>6, <1>7 DEF Next

-----------------------------------------------------------------------------
(***************************************************************************)
(* Types, and what a running call asks for.                                *)
(***************************************************************************)
LEMMA BufferOf ==
  ASSUME NEW o, NEW j, NEW n \in Nat
  PROVE  buffer_n([object |-> <<o, j>>, count |-> n + 1, size |-> 1], n)
           = [i \in 1 .. n |-> <<<<o, j>>, i>>]
<1> DEFINE x == [object |-> <<o, j>>, count |-> n + 1, size |-> 1]
           whole == [i \in 1 .. n + 1 |-> <<<<o, j>>, i>>]
           A == {<<<<o, j>>, i>> : i \in Nat}
<1>1. buffer(x) = whole
  <2>1. x.count * x.size = n + 1 /\ x.object = <<o, j>>
    OBVIOUS
  <2> HIDE DEF x
  <2> QED
    BY <2>1 DEF buffer
<1>2. whole \in Seq(A) /\ Len(whole) = n + 1
  <2>1. ASSUME NEW i \in 1 .. n + 1 PROVE <<<<o, j>>, i>> \in A
    OBVIOUS
  <2> HIDE DEF A
  <2> QED
    BY <2>1
<1>3. \A i \in 1 .. n + 1 : whole[i] = <<<<o, j>>, i>>
  OBVIOUS
<1> HIDE DEF whole, A, x
<1>4. /\ limit(whole, n) \in Seq(A)
      /\ Len(limit(whole, n)) = IF Len(whole) <= n THEN Len(whole) ELSE n
      /\ \A i \in 1 .. Len(limit(whole, n)) : limit(whole, n)[i] = whole[i]
  BY <1>2, LimitIs
<1>5. Len(limit(whole, n)) = n
  BY <1>2, <1>4
<1>6. ASSUME NEW i \in 1 .. n PROVE limit(whole, n)[i] = <<<<o, j>>, i>>
  <2>1. i \in 1 .. Len(limit(whole, n)) /\ i \in 1 .. n + 1
    BY <1>5
  <2>2. limit(whole, n)[i] = whole[i]
    BY <1>4, <2>1
  <2> QED
    BY <1>3, <2>1, <2>2
<1>7. limit(whole, n) = [i \in 1 .. n |-> <<<<o, j>>, i>>]
  BY <1>4, <1>5, <1>6
<1> QED
  BY <1>1, <1>7 DEF buffer_n, x

\* What the buffers of a call are.
LEMMA LayIs ==
  ASSUME NEW o, NEW shape \in Seq(Nat)
  PROVE  Lay(o, shape) = [j \in 1 .. Len(shape) |->
                            [i \in 1 .. shape[j] |-> <<<<o, j>>, i>>]]
<1>1. DOMAIN shape = 1 .. Len(shape) /\ \A j \in 1 .. Len(shape) : shape[j] \in Nat
  OBVIOUS
<1>2. \A j \in 1 .. Len(shape) :
        buffer_n([object |-> <<o, j>>, count |-> shape[j] + 1, size |-> 1], shape[j])
          = [i \in 1 .. shape[j] |-> <<<<o, j>>, i>>]
  BY <1>1, BufferOf
<1> QED
  BY <1>1, <1>2 DEF Lay

\* They are sequences of addresses.
LEMMA LayType ==
  ASSUME NEW o \in Ops, NEW shape \in Seq(Nat)
  PROVE  Lay(o, shape) \in Seq(Seq(Addresses))
<1>0. Len(shape) \in Nat /\ \A j \in 1 .. Len(shape) : shape[j] \in Nat
  OBVIOUS
<1>1. ASSUME NEW j \in 1 .. Len(shape)
      PROVE  [i \in 1 .. shape[j] |-> <<<<o, j>>, i>>] \in Seq(Addresses)
  <2>1. shape[j] \in Nat /\ j \in Nat
    BY <1>0
  <2>2. ASSUME NEW i \in 1 .. shape[j] PROVE <<<<o, j>>, i>> \in Addresses
    BY <2>1 DEF Addresses
  <2> QED
    BY <2>1, <2>2
<1> DEFINE S == Seq(Addresses)
<1>2. [j \in 1 .. Len(shape) |-> [i \in 1 .. shape[j] |-> <<<<o, j>>, i>>]] \in Seq(S)
  <2>1. \A j \in 1 .. Len(shape) : [i \in 1 .. shape[j] |-> <<<<o, j>>, i>>] \in S
    BY <1>1
  <2> HIDE DEF S
  <2> QED
    BY <1>0, <2>1
<1> QED
  BY <1>2, LayIs

\* So is what the memory of a dead buffer sequence is read as.
LEMMA GarbageType ==
  ASSUME NEW o, NEW b \in Garbage(o) PROVE b \in Seq(Seq(Addresses))
<1>1. Stray \in Addresses
  BY DEF Stray, Addresses
<1>2. <<Stray, Stray, Stray>> \in Seq(Addresses)
  BY <1>1
<1> DEFINE S == Seq(Addresses)
<1>3. <<<<Stray, Stray, Stray>>>> \in Seq(S) /\ <<>> \in Seq(S)
  <2> DEFINE v == <<Stray, Stray, Stray>>
  <2>1. v \in S
    BY <1>2
  <2> HIDE DEF S, v
  <2>2. <<v>> \in Seq(S) /\ <<>> \in Seq(S)
    BY <2>1
  <2> QED
    BY <2>2 DEF v
<1> QED
  BY <1>3 DEF Garbage

\* And what is left of them for a request.
LEMMA IovecsType ==
  ASSUME NEW A, NEW s \in Seq(Seq(A)), NEW k \in Nat, NEW n \in Nat
  PROVE  transform_to_iovecs(s, k, n) \in Seq(Seq(A))
<1>1. IovEnd(s, k, n) \in IovState(A)
  BY IovIsFold
<1>2. IovEnd(s, k, n).iov \in Seq(Seq(A))
  BY <1>1 DEF IovState
<1> QED
  BY <1>2, IovecsIs

\* What Missing() says of the bytes F of a buffer sequence.
LEMMA MissingIs ==
  ASSUME NEW l \in Locals
  PROVE  LET F == FlattenSeq(l.b_)
         IN  /\ F \in Seq(Addresses) /\ Len(F) \in Nat
             /\ Missing(l) \in Nat
             /\ Ceiling(l.cond_, Len(F)) \in Nat /\ Ceiling(l.cond_, Len(F)) <= Len(F)
             /\ Missing(l) > 0 => l.done_sz_ + Missing(l) = Ceiling(l.cond_, Len(F))
             /\ Missing(l) = 0 /\ l.done_sz_ <= Ceiling(l.cond_, Len(F)) =>
                  Fulfils(l.cond_, Len(F), l.done_sz_)
<1> DEFINE F == FlattenSeq(l.b_)
           size == Len(F)
<1>1. l.b_ \in Seq(Seq(Addresses)) /\ l.cond_ \in Condition /\ l.done_sz_ \in Nat
  BY IoAssumption DEF Locals, Condition
<1>2. F \in Seq(Addresses)
  BY <1>1, FlattenType
<1>3. buffer_size(l.b_) = size
  BY <1>1, SizeIsLength
<1> HIDE DEF F
<1>4. size \in Nat
  BY <1>2
<1>5. Missing(l) = to_transfer(l.cond_, size, l.done_sz_)
  BY <1>3 DEF Missing
<1> HIDE DEF size
<1>6. /\ to_transfer(l.cond_, size, l.done_sz_) \in Nat
      /\ Ceiling(l.cond_, size) \in Nat /\ Ceiling(l.cond_, size) <= size
      /\ to_transfer(l.cond_, size, l.done_sz_) > 0 =>
           l.done_sz_ + to_transfer(l.cond_, size, l.done_sz_) = Ceiling(l.cond_, size)
      /\ to_transfer(l.cond_, size, l.done_sz_) = 0 /\ l.done_sz_ <= Ceiling(l.cond_, size) =>
           Fulfils(l.cond_, size, l.done_sz_)
  BY <1>1, <1>4, ConditionsKeepTheirWord
<1> QED
  BY <1>2, <1>4, <1>5, <1>6 DEF F, size

\* A request that Asks() says is right is for the bytes from done_sz_ to the
\* ceiling of the condition.
LEMMA AsksForTheRest ==
  ASSUME NEW l \in Locals, Asks(l)
  PROVE  LET F == FlattenSeq(l.b_)
             I == FlattenSeq(l.iov_)
         IN  /\ I \in Seq(Addresses)
             /\ Len(I) = Missing(l)
             /\ I = SubSeq(F, l.done_sz_ + 1, Ceiling(l.cond_, Len(F)))
<1> DEFINE F == FlattenSeq(l.b_)
           I == FlattenSeq(l.iov_)
           top == Ceiling(l.cond_, Len(F))
           n == Missing(l)
<1>1. /\ F \in Seq(Addresses) /\ Len(F) \in Nat
      /\ n \in Nat /\ n > 0
      /\ top \in Nat /\ top <= Len(F)
      /\ l.done_sz_ + n = top
  BY MissingIs DEF Asks
<1>2. l.b_ \in Seq(Seq(Addresses)) /\ l.done_sz_ \in Nat
  BY DEF Locals
<1>3. l.iov_ = transform_to_iovecs(l.b_, l.done_sz_, n)
  BY DEF Asks
<1>4. I = Window(l.b_, l.done_sz_, n)
  BY <1>1, <1>2, <1>3, IovecsAreTheWindow
<1>5. Window(l.b_, l.done_sz_, n) = SubSeq(F, l.done_sz_ + 1, Min({l.done_sz_ + n, Len(F)}))
  BY DEF Window
<1> HIDE DEF F, I, n
<1>6. Min({l.done_sz_ + n, Len(F)}) = top
  <2> HIDE DEF top
  <2>1. Min({top, Len(F)}) = top
    BY <1>1, MinOf
  <2> QED
    BY <1>1, <2>1
<1>7. I = SubSeq(F, l.done_sz_ + 1, top)
  BY <1>4, <1>5, <1>6
<1> HIDE DEF top
<1>8. I \in Seq(Addresses) /\ Len(I) = n
  BY <1>1, <1>2, <1>7, SMTT(30)
<1> QED
  BY <1>7, <1>8 DEF F, I, top, n

\* The locals that Submit() leaves.
Filled(l) == [l EXCEPT !.iov_ = transform_to_iovecs(l.b_, l.done_sz_, Missing(l))]

\* Submit() makes such a request, and changes nothing but the iovecs.
LEMMA FilledAsks ==
  ASSUME NEW l \in Locals, Missing(l) > 0
  PROVE  /\ Filled(l) \in Locals /\ Asks(Filled(l)) /\ Missing(Filled(l)) = Missing(l)
         /\ Filled(l).b_ = l.b_ /\ Filled(l).cond_ = l.cond_
         /\ Filled(l).done_sz_ = l.done_sz_
<1> DEFINE iov == transform_to_iovecs(l.b_, l.done_sz_, Missing(l))
           m == [l EXCEPT !.iov_ = iov]
<1>1. l.b_ \in Seq(Seq(Addresses)) /\ l.done_sz_ \in Nat /\ Missing(l) \in Nat
  BY MissingIs DEF Locals
<1>2. iov \in Seq(Seq(Addresses))
  BY <1>1, IovecsType
<1> HIDE DEF iov
<1>3. /\ m \in Locals
      /\ m.b_ = l.b_ /\ m.cond_ = l.cond_ /\ m.done_sz_ = l.done_sz_ /\ m.iov_ = iov
  <2> DEFINE S == Seq(Seq(Addresses))
  <2>1. iov \in S /\ l \in [b_ : S, cond_ : Conds, done_sz_ : Nat, iov_ : S]
    BY <1>2 DEF Locals
  <2> HIDE DEF S
  <2>2. /\ m \in [b_ : S, cond_ : Conds, done_sz_ : Nat, iov_ : S]
        /\ m.b_ = l.b_ /\ m.cond_ = l.cond_ /\ m.done_sz_ = l.done_sz_ /\ m.iov_ = iov
    BY <2>1
  <2> QED
    BY <2>2 DEF Locals, S
<1> HIDE DEF m
<1>4. Missing(m) = Missing(l)
  BY <1>3 DEF Missing
<1>5. Asks(m)
  BY <1>3, <1>4 DEF Asks, iov
<1>6. Filled(l) = m
  BY DEF Filled, m, iov
<1> QED
  BY <1>3, <1>4, <1>5, <1>6

\* The locals a call begins with.
LEMMA CalledType ==
  ASSUME NEW o \in Ops, NEW s \in Shapes, NEW c \in Conds
  PROVE  LET l == locals_t(o, s, c)
         IN  /\ l \in Locals /\ l.done_sz_ = 0 /\ l.cond_ = c
             /\ l.b_ = Lay(o, s)
             /\ FlattenSeq(Lay(o, s)) \in Seq(Addresses)
<1>1. s \in Seq(Nat)
  BY IoAssumption
<1>2. Lay(o, s) \in Seq(Seq(Addresses))
  BY <1>1, LayType
<1>3. FlattenSeq(Lay(o, s)) \in Seq(Addresses)
  BY <1>2, FlattenType
<1> DEFINE S == Seq(Seq(Addresses))
<1>4. Lay(o, s) \in S /\ <<>> \in S
  BY <1>2, EmptySeq
<1> HIDE DEF S
<1>5. [b_ |-> Lay(o, s), cond_ |-> c, done_sz_ |-> 0, iov_ |-> <<>>]
        \in [b_ : S, cond_ : Conds, done_sz_ : Nat, iov_ : S]
  BY <1>4
<1>6. locals_t(o, s, c) \in Locals
  BY <1>5 DEF locals_t, Locals, S
<1> QED
  BY <1>3, <1>6 DEF locals_t

\* The locals after a completion.
LEMMA MovedOnType ==
  ASSUME NEW l \in Locals, NEW n \in Nat, NEW b \in Seq(Seq(Addresses))
  PROVE  /\ MovedOn(l, n, b) \in Locals
         /\ MovedOn(l, n, b).done_sz_ = l.done_sz_ + n
         /\ MovedOn(l, n, b).b_ = b /\ MovedOn(l, n, b).cond_ = l.cond_
<1> DEFINE S == Seq(Seq(Addresses))
<1>1. l \in [b_ : S, cond_ : Conds, done_sz_ : Nat, iov_ : S]
  BY DEF Locals
<1>0. b \in S
  OBVIOUS
<1> HIDE DEF S
<1> DEFINE R == [b_ : S, cond_ : Conds, done_sz_ : Nat, iov_ : S]
           k == [l EXCEPT !.done_sz_ = @ + n]
           m == [l EXCEPT !.done_sz_ = @ + n, !.b_ = b]
<1>2. k \in R /\ k.done_sz_ = l.done_sz_ + n /\ k.cond_ = l.cond_
  BY <1>1, SMTT(30)
<1>3. m = [k EXCEPT !.b_ = b]
  OBVIOUS
<1> HIDE DEF k, m
<1>4. m \in R /\ m.done_sz_ = k.done_sz_ /\ m.cond_ = k.cond_ /\ m.b_ = b
  BY <1>0, <1>2, <1>3
<1> QED
  BY <1>2, <1>4 DEF Locals, S, m, MovedOn

\* What a step of operation o leaves alone, and the types of what it sets.
Others(o) ==
  \A p \in Ops : p # o => /\ stage'[p] = stage[p] /\ locals_'[p] = locals_[p]
                          /\ answers'[p] = answers[p] /\ off'[p] = off[p]

OpType ==
  /\ stage \in [Ops -> {"new", "pending", "done"}]
  /\ blocked \subseteq {o \in Ops : stage[o] = "pending"}
  /\ locals_ \in [Ops -> Locals]
  /\ off \in [Ops -> Nat]
  /\ answers \in [Ops -> Seq(Returns)]
  /\ aborted \in BOOLEAN

\* The three ways on, one at a time.
Stops(o, l, ret) ==
  /\ Others(o)
  /\ stage'[o] = "done" /\ locals_'[o] = l /\ answers'[o] = Append(answers[o], ret)
  /\ off'[o] = off[o] /\ aborted' = aborted
GoesOn(o, l) ==
  /\ Others(o)
  /\ Missing(l) > 0
  /\ stage'[o] = "pending" /\ locals_'[o] = Filled(l) /\ answers'[o] = answers[o]
  /\ off'[o] = (IF seekable THEN offset_' ELSE 0) /\ aborted' = aborted
Dies(o) ==
  /\ "refused" \in Faults /\ aborted' = TRUE
  /\ stage' = stage /\ locals_' = locals_ /\ answers' = answers /\ off' = off

\* complete() ends the call.
LEMMA CompleteStops ==
  ASSUME OpType, NEW o \in Ops, NEW l \in Locals, NEW ret \in Returns,
         complete(o, l, ret), blocked' = {}, UNCHANGED <<off, aborted>>
  PROVE  OpType' /\ Stops(o, l, ret)
<1>1. Append(answers[o], ret) \in Seq(Returns)
  BY DEF OpType
<1>2. stage' \in [Ops -> {"new", "pending", "done"}] /\ stage'[o] = "done"
      /\ \A p \in Ops : p # o => stage'[p] = stage[p]
  BY DEF OpType, complete
<1>3. locals_' \in [Ops -> Locals] /\ locals_'[o] = l
      /\ \A p \in Ops : p # o => locals_'[p] = locals_[p]
  BY DEF OpType, complete
<1>4. answers' \in [Ops -> Seq(Returns)] /\ answers'[o] = Append(answers[o], ret)
      /\ \A p \in Ops : p # o => answers'[p] = answers[p]
  <2> DEFINE S == Seq(Returns)
  <2>1. answers \in [Ops -> S] /\ Append(answers[o], ret) \in S
    BY <1>1 DEF OpType
  <2>2. answers' = [answers EXCEPT ![o] = Append(answers[o], ret)]
    BY DEF complete
  <2> HIDE DEF S
  <2>3. answers' \in [Ops -> S] /\ answers'[o] = Append(answers[o], ret)
        /\ \A p \in Ops : p # o => answers'[p] = answers[p]
    BY <2>1, <2>2
  <2> QED
    BY <2>3 DEF S
<1> QED
  BY <1>2, <1>3, <1>4 DEF OpType, Stops, Others

\* Submit() leaves it running.
LEMMA SubmitGoesOn ==
  ASSUME OpType, NEW o \in Ops, NEW l \in Locals, Missing(l) > 0, offset_' \in Nat,
         Submit(o, l, Missing(l)), blocked' \subseteq {o}
  PROVE  OpType' /\ GoesOn(o, l)
<1>1. Filled(l) \in Locals
  BY FilledAsks
<1>2. stage' \in [Ops -> {"new", "pending", "done"}] /\ stage'[o] = "pending"
      /\ \A p \in Ops : p # o => stage'[p] = stage[p]
  BY DEF OpType, Submit
<1>3. locals_' \in [Ops -> Locals] /\ locals_'[o] = Filled(l)
      /\ \A p \in Ops : p # o => locals_'[p] = locals_[p]
  <2>1. locals_' = [locals_ EXCEPT ![o] = Filled(l)]
    BY DEF Submit, Filled
  <2> QED
    BY <1>1, <2>1 DEF OpType
<1>4. off' \in [Ops -> Nat] /\ off'[o] = (IF seekable THEN offset_' ELSE 0)
      /\ \A p \in Ops : p # o => off'[p] = off[p]
  BY DEF OpType, Submit
<1>5. answers' = answers /\ aborted' = aborted
  BY DEF Submit
<1>6. blocked' \subseteq {p \in Ops : stage'[p] = "pending"}
  BY <1>2
<1>7. OpType'
  BY <1>2, <1>3, <1>4, <1>5, <1>6 DEF OpType
<1> QED
  BY <1>2, <1>3, <1>4, <1>5, <1>7 DEF GoesOn, Others

\* The three ways of Settles(), with the types they keep.
LEMMA SettlesThree ==
  ASSUME OpType, NEW o \in Ops, NEW l \in Locals, offset_' \in Nat, Settles(o, l)
  PROVE  /\ OpType'
         /\ \/ Missing(l) = 0 /\ Stops(o, l, Success(l.done_sz_))
            \/ GoesOn(o, l)
            \/ Dies(o)
<1>1. CASE /\ Missing(l) = 0
           /\ complete(o, l, Success(l.done_sz_))
           /\ UNCHANGED <<off, aborted>>
           /\ blocked' = {}
  <2>1. Success(l.done_sz_) \in Returns
    BY DEF Success, Returns, Locals
  <2> QED
    BY <1>1, <2>1, CompleteStops
<1>2. CASE /\ Missing(l) > 0
           /\ Submit(o, l, Missing(l))
           /\ blocked' \subseteq {o}
  BY <1>2, SubmitGoesOn
<1>3. CASE /\ aborted' = TRUE
           /\ "refused" \in Faults
           /\ UNCHANGED <<stage, locals_, off, answers>>
           /\ blocked' = {}
  BY <1>3 DEF OpType, Dies
<1> QED
  BY <1>1, <1>2, <1>3 DEF Settles

\* The types of the calls, and the rest.
LEMMA TypeSplit ==
  /\ IoType => OpType
  /\ IoType' <=>
       /\ OpType'
       /\ seekable' \in BOOLEAN /\ offset_' \in Nat /\ stream' \in Nat
       /\ DOMAIN file' = Positions /\ len' \in 0 .. FileMax
       /\ kind' \in [Ops -> {"read", "write"}]
       /\ cqe' \in [Ops -> Nat \cup {-1, NoCqe}]
       /\ bytes' \in [Ops -> Seq(Addresses)]
       /\ start' \in [Ops -> Nat]
       /\ last' \subseteq Ops
       /\ base' \in Int
BY DEF IoType, OpType, Positions

\* The part of CallInv that is about one call.
Sound(o) ==
  /\ stage[o] = "pending" =>
       /\ Asks(locals_[o])
       /\ cqe[o] \in Nat => cqe[o] <= Missing(locals_[o])
  /\ stage[o] # "pending" => cqe[o] = NoCqe
  /\ stage[o] = "new" => locals_[o].done_sz_ = 0

\* CallInv, call by call.
LEMMA CallInvIs == /\ CallInv => \A o \in Ops : Sound(o)
                   /\ (\A o \in Ops : Sound(o)') => CallInv'
BY DEF CallInv, Sound

\* A step of o leaves the other calls sound.
LEMMA OneSound ==
  ASSUME CallInv, NEW o \in Ops, Others(o), Sound(o)',
         \A p \in Ops : p # o => cqe'[p] = cqe[p]
  PROVE  CallInv'
<1>1. ASSUME NEW p \in Ops, p # o PROVE Sound(p)'
  BY <1>1, CallInvIs DEF Others, Sound
<1> QED
  BY <1>1, CallInvIs

\* Each of the three ways leaves o sound once its completion is taken.
LEMMA OutcomeSound ==
  ASSUME CallInv, NEW o \in Ops, NEW l \in Locals, NEW ret, cqe'[o] = NoCqe,
         \A p \in Ops : p # o => cqe'[p] = cqe[p],
         Stops(o, l, ret) \/ GoesOn(o, l) \/ Dies(o)
  PROVE  CallInv'
<1>1. Others(o)
  BY DEF Stops, GoesOn, Dies, Others
<1>2. NoCqe \notin Nat
  BY DEF NoCqe
<1>3. CASE Stops(o, l, ret)
  <2>1. Sound(o)'
    BY <1>3 DEF Stops, Sound
  <2> QED
    BY <1>1, <2>1, OneSound
<1>4. CASE GoesOn(o, l)
  <2>1. Asks(locals_'[o])
    BY <1>4, FilledAsks DEF GoesOn
  <2>2. Sound(o)'
    BY <1>2, <1>4, <2>1 DEF GoesOn, Sound
  <2> QED
    BY <1>1, <2>2, OneSound
<1>5. CASE Dies(o)
  <2>1. Sound(o)'
    BY <1>2, <1>5, CallInvIs DEF Dies, Sound
  <2> QED
    BY <1>1, <2>1, OneSound
<1> QED
  BY <1>3, <1>4, <1>5

\* A call keeps the types and CallInv.
LEMMA CallTyped ==
  ASSUME IoType, CallInv, seekable' = seekable,
         NEW o \in Ops, NEW k \in Kinds, NEW s \in Shapes, NEW c \in Conds,
         CallStep(o, k, s, c)
  PROVE  /\ IoType' /\ CallInv'
         /\ LET l == locals_t(o, s, c)
            IN  \/ Missing(l) = 0 /\ Stops(o, l, Success(l.done_sz_))
                \/ GoesOn(o, l)
                \/ Dies(o)
<1> DEFINE l == locals_t(o, s, c)
<1>1. Call(o, k, s) /\ Settles(o, l)
  BY DEF CallStep
<1>2. l \in Locals /\ FlattenSeq(Lay(o, s)) \in Seq(Addresses)
  BY CalledType
<1> HIDE DEF l
<1>3. /\ offset_' = offset_ /\ stream' = stream /\ file' = file /\ len' = len
      /\ cqe' = cqe /\ base' = base /\ last' = {o} /\ stage[o] = "new"
      /\ kind' = [kind EXCEPT ![o] = k]
      /\ bytes' = [bytes EXCEPT ![o] = FlattenSeq(Lay(o, s))]
      /\ start' = [start EXCEPT ![o] = Position]
  BY <1>1 DEF Call, fdVars, devVars
<1>4. /\ OpType'
      /\ \/ Missing(l) = 0 /\ Stops(o, l, Success(l.done_sz_))
         \/ GoesOn(o, l)
         \/ Dies(o)
  <2>1. offset_' \in Nat /\ OpType
    BY <1>3, TypeSplit DEF IoType
  <2> QED
    BY <1>1, <1>2, <2>1, SettlesThree
<1>5. cqe[o] = NoCqe
  BY <1>3, CallInvIs DEF Sound
<1>6. CallInv'
  BY <1>2, <1>3, <1>4, <1>5, OutcomeSound
<1>7. k \in {"read", "write"} /\ Position \in Nat
  BY IoAssumption DEF Position, IoType
<1>8. bytes' \in [Ops -> Seq(Addresses)]
  <2> DEFINE S == Seq(Addresses)
  <2>1. bytes \in [Ops -> S] /\ FlattenSeq(Lay(o, s)) \in S
    BY <1>2 DEF IoType
  <2> HIDE DEF S
  <2>2. bytes' \in [Ops -> S]
    BY <1>3, <2>1
  <2> QED
    BY <2>2 DEF S
<1>9. kind' \in [Ops -> {"read", "write"}] /\ start' \in [Ops -> Nat]
  BY <1>3, <1>7 DEF IoType
<1>10. IoType'
  BY <1>3, <1>4, <1>8, <1>9, TypeSplit DEF IoType
<1> QED
  BY <1>4, <1>6, <1>10 DEF l

\* What go_on() and the loops leave alone.
LEMMA RestTyped ==
  ASSUME IoType, NEW o \in Ops, Rest(o)
  PROVE  /\ stage[o] = "pending" /\ cqe[o] # NoCqe /\ cqe[o] \in Nat \cup {-1}
         /\ cqe' \in [Ops -> Nat \cup {-1, NoCqe}] /\ cqe'[o] = NoCqe
         /\ \A p \in Ops : p # o => cqe'[p] = cqe[p]
         /\ stream' = stream /\ file' = file /\ len' = len /\ mem' = mem
         /\ kind' = kind /\ bytes' = bytes /\ start' = start /\ last' = last
         /\ base' = base
<1>1. /\ stage[o] = "pending" /\ cqe[o] # NoCqe
      /\ stream' = stream /\ file' = file /\ len' = len /\ mem' = mem
      /\ kind' = kind /\ bytes' = bytes /\ start' = start /\ last' = last
      /\ base' = base
      /\ cqe' = [cqe EXCEPT ![o] = NoCqe]
  BY DEF Rest, devVars, histVars
<1>2. cqe \in [Ops -> Nat \cup {-1, NoCqe}]
  BY DEF IoType
<1> QED
  BY <1>1, <1>2

\* So does the end of one, by an error or the end of file,
LEMMA EndTyped ==
  ASSUME IoType, CallInv, seekable' = seekable, NEW o \in Ops, EndStep(o)
  PROVE  /\ IoType' /\ CallInv'
         /\ Rest(o) /\ offset_' = offset_
         /\ \/ Stops(o, locals_[o], Error)
            \/ /\ kind[o] = "read" /\ cqe[o] = 0
               /\ Stops(o, locals_[o], Success(locals_[o].done_sz_))
<1>1. Rest(o) /\ blocked' = {} /\ offset_' = offset_ /\ off' = off /\ aborted' = aborted
  BY DEF EndStep
<1>2. locals_[o] \in Locals /\ OpType
  BY TypeSplit DEF IoType
<1>3. Error \in Returns /\ Success(locals_[o].done_sz_) \in Returns
  BY <1>2 DEF Error, Success, Returns, Locals
<1>6. /\ OpType'
      /\ \/ Stops(o, locals_[o], Error)
         \/ /\ kind[o] = "read" /\ cqe[o] = 0
            /\ Stops(o, locals_[o], Success(locals_[o].done_sz_))
  <2>1. PICK ret \in Returns : complete(o, locals_[o], ret)
             /\ (ret = Error \/ (/\ kind[o] = "read" /\ cqe[o] = 0
                                 /\ ret = Success(locals_[o].done_sz_)))
    BY <1>3 DEF EndStep
  <2>2. OpType' /\ Stops(o, locals_[o], ret)
    BY <1>1, <1>2, <2>1, CompleteStops
  <2> QED
    BY <2>1, <2>2
<1>7. CallInv'
  BY <1>1, <1>2, <1>6, RestTyped, OutcomeSound
<1>8. IoType'
  BY <1>1, <1>6, RestTyped, TypeSplit DEF IoType
<1> QED
  BY <1>1, <1>6, <1>7, <1>8

\* and a completion that moved some bytes,
LEMMA MoveTyped ==
  ASSUME IoType, CallInv, seekable' = seekable, NEW o \in Ops, NEW b, MoveStep(o, b)
  PROVE  LET l == MovedOn(locals_[o], cqe[o], b)
         IN  /\ IoType' /\ CallInv'
             /\ Rest(o) /\ cqe[o] \in Nat /\ feed(cqe[o])
             /\ l \in Locals /\ l.done_sz_ = locals_[o].done_sz_ + cqe[o]
             /\ l.cond_ = locals_[o].cond_ /\ l.b_ = b
             /\ \/ Missing(l) = 0 /\ Stops(o, l, Success(l.done_sz_))
                \/ GoesOn(o, l)
                \/ Dies(o)
<1> DEFINE l == MovedOn(locals_[o], cqe[o], b)
<1>1. /\ Rest(o) /\ cqe[o] >= 0 /\ feed(cqe[o]) /\ Settles(o, l)
      /\ b = locals_[o].b_ \/ (o \in Temporary /\ b \in Garbage(o))
  BY DEF MoveStep
<1>2. cqe[o] \in Nat
  BY <1>1, RestTyped
<1>3. locals_[o] \in Locals /\ OpType
  BY TypeSplit DEF IoType
<1>4. b \in Seq(Seq(Addresses))
  BY <1>1, <1>3, GarbageType DEF Locals
<1>5. /\ l \in Locals /\ l.done_sz_ = locals_[o].done_sz_ + cqe[o]
      /\ l.cond_ = locals_[o].cond_ /\ l.b_ = b
  BY <1>2, <1>3, <1>4, MovedOnType
<1> HIDE DEF l
<1>6. offset_' \in Nat
  BY <1>1, <1>2 DEF feed, IoType
<1>7. /\ OpType'
      /\ \/ Missing(l) = 0 /\ Stops(o, l, Success(l.done_sz_))
         \/ GoesOn(o, l)
         \/ Dies(o)
  BY <1>1, <1>3, <1>5, <1>6, SettlesThree
<1>8. CallInv'
  BY <1>1, <1>5, <1>7, RestTyped, OutcomeSound
<1>9. IoType'
  BY <1>1, <1>6, <1>7, RestTyped, TypeSplit DEF IoType
<1> QED
  BY <1>1, <1>2, <1>5, <1>7, <1>8, <1>9 DEF l

\* The locals, and the calls that are running, are the thread's: the kernel and
\* seek() leave them alone.
Untouched ==
  /\ stage' = stage /\ kind' = kind /\ blocked' = blocked /\ locals_' = locals_
  /\ off' = off /\ answers' = answers /\ bytes' = bytes /\ start' = start
  /\ aborted' = aborted

\* Types, when the calls are left alone.
LEMMA UntouchedType == ASSUME OpType, Untouched PROVE OpType'
BY DEF OpType, Untouched

\* A completion of no more than was asked for keeps CallInv.
LEMMA KernelSound ==
  ASSUME CallInv, Untouched, NEW o \in Ops, stage[o] = "pending",
         cqe'[o] \in Nat => cqe'[o] <= Missing(locals_[o]),
         \A p \in Ops : p # o => cqe'[p] = cqe[p]
  PROVE  CallInv'
<1>1. Others(o)
  BY DEF Others, Untouched
<1>2. Sound(o)'
  BY CallInvIs DEF Sound, Untouched
<1> QED
  BY <1>1, <1>2, OneSound

\* The sum is a number.
LEMMA MovedType ==
  ASSUME NEW l \in [Ops -> Locals]
  PROVE  Moved(l) \in Nat /\ Sizes(l) \in [Ops -> Nat] /\ DOMAIN l = Ops
<1>1. DOMAIN l = Ops
  OBVIOUS
<1>2. ASSUME NEW o \in Ops PROVE l[o].done_sz_ \in Nat
  BY DEF Locals
<1>3. Sizes(l) \in [Ops -> Nat]
  BY <1>2 DEF Sizes
<1>4. IsFiniteSet(Ops)
  BY IoAssumption
<1> QED
  BY <1>1, <1>3, <1>4, MovedAdds

\* and the kernel moving n bytes,
LEMMA TransferTyped ==
  ASSUME IoType, CallInv, seekable' = seekable, NEW o \in Ops, NEW n \in 0 .. FileMax,
         Transfer(o, n)
  PROVE  /\ IoType' /\ CallInv' /\ Untouched
         /\ offset_' = offset_ /\ base' = base /\ last' = last
         /\ stage[o] = "pending" /\ cqe[o] = NoCqe /\ cqe'[o] = n
         /\ \A p \in Ops : p # o => cqe'[p] = cqe[p]
         /\ stream' = (IF seekable THEN stream ELSE stream + n)
         /\ KernelAt(o) \in Nat
         /\ n <= Len(FlattenSeq(locals_[o].iov_))
         /\ n = 0 <=> kind[o] = "read" /\ KernelAt(o) >= len
<1>1. /\ Untouched /\ offset_' = offset_ /\ base' = base /\ last' = last
      /\ stage[o] = "pending" /\ cqe[o] = NoCqe
      /\ cqe' = [cqe EXCEPT ![o] = n]
      /\ stream' = (IF seekable THEN stream ELSE stream + n)
      /\ n \in 0 .. Len(FlattenSeq(locals_[o].iov_))
      /\ n = 0 <=> kind[o] = "read" /\ KernelAt(o) >= len
  BY DEF Transfer, Untouched, histVars
<1>2. n \in Nat /\ FileMax \in Nat
  BY IoAssumption
<1>3. cqe \in [Ops -> Nat \cup {-1, NoCqe}]
  BY DEF IoType
<1>4. /\ cqe' \in [Ops -> Nat \cup {-1, NoCqe}] /\ cqe'[o] = n
      /\ \A p \in Ops : p # o => cqe'[p] = cqe[p]
  BY <1>1, <1>2, <1>3
<1>5. locals_[o] \in Locals /\ Asks(locals_[o])
  BY <1>1, CallInvIs DEF IoType, Sound
<1>6. n <= Missing(locals_[o])
  <2>1. Len(FlattenSeq(locals_[o].iov_)) = Missing(locals_[o])
    BY <1>5, AsksForTheRest
  <2> QED
    BY <1>1, <1>2, <2>1
<1>7. CallInv'
  BY <1>1, <1>4, <1>6, KernelSound
<1>8. KernelAt(o) \in Nat
  BY DEF KernelAt, IoType
<1>9. DOMAIN file' = Positions /\ len' \in 0 .. FileMax
  <2> DEFINE at == KernelAt(o)
             to == FlattenSeq(locals_[o].iov_)
  <2>1. CASE kind[o] = "read"
    BY <2>1 DEF Transfer, IoType
  <2>2. CASE kind[o] = "write"
    <3>1. /\ at + n <= FileMax
          /\ file' = [p \in Positions |->
                          IF p \in at .. at + n - 1 THEN Content(to[p - at + 1])
                          ELSE file[p]]
          /\ len' = Max({len, at + n})
      BY <2>2 DEF Transfer
    <3>2. len \in Nat /\ len <= FileMax /\ at + n \in Nat
      BY <1>2, <1>8 DEF IoType
    <3> DEFINE e == at + n
    <3>3. Max({len, e}) \in {len, e}
      <4>1. len \in Int /\ e \in Int
        BY <3>2
      <4> HIDE DEF e
      <4> QED
        BY <4>1, MaxOf
    <3>4. len' \in 0 .. FileMax
      BY <3>1, <3>2, <3>3
    <3> QED
      BY <3>1, <3>4
  <2>3. kind[o] \in {"read", "write"}
    BY DEF IoType
  <2> QED
    BY <2>1, <2>2, <2>3
<1>10. OpType'
  BY <1>1, TypeSplit, UntouchedType
<1>11. stream' \in Nat
  BY <1>1, <1>2 DEF IoType
<1>12. IoType'
  BY <1>1, <1>4, <1>9, <1>10, <1>11, TypeSplit DEF IoType, Untouched
<1> QED
  BY <1>1, <1>4, <1>7, <1>8, <1>12

\* and a request that fails,
LEMMA FailTyped ==
  ASSUME IoType, CallInv, seekable' = seekable, NEW o \in Ops, Fail(o)
  PROVE  /\ IoType' /\ CallInv' /\ Untouched
         /\ offset_' = offset_ /\ base' = base /\ last' = last
         /\ stage[o] = "pending" /\ cqe[o] = NoCqe /\ cqe'[o] = -1
         /\ \A p \in Ops : p # o => cqe'[p] = cqe[p]
         /\ stream' = stream /\ file' = file /\ len' = len /\ mem' = mem
<1>1. /\ Untouched /\ offset_' = offset_ /\ base' = base /\ last' = last
      /\ stage[o] = "pending" /\ cqe[o] = NoCqe
      /\ cqe' = [cqe EXCEPT ![o] = -1]
      /\ stream' = stream /\ file' = file /\ len' = len /\ mem' = mem
  BY DEF Fail, Untouched, histVars, fdVars, devVars
<1>2. /\ cqe' \in [Ops -> Nat \cup {-1, NoCqe}] /\ cqe'[o] = -1
      /\ \A p \in Ops : p # o => cqe'[p] = cqe[p]
  BY <1>1 DEF IoType
<1>3. CallInv'
  BY <1>1, <1>2, KernelSound
<1>4. OpType'
  BY <1>1, TypeSplit, UntouchedType
<1>5. IoType'
  BY <1>1, <1>2, <1>4, TypeSplit DEF IoType, Untouched
<1> QED
  BY <1>1, <1>2, <1>3, <1>5

\* and seek().
LEMMA SeekTyped ==
  ASSUME IoType, CallInv, seekable' = seekable, NEW q \in Seeks, seek(q),
         MovedBytes \in Nat
  PROVE  /\ IoType' /\ CallInv' /\ Untouched
         /\ seekable /\ offset_' = q /\ base' = q - MovedBytes /\ last' = {}
         /\ (Overlap \/ Idle)
         /\ cqe' = cqe /\ stream' = stream /\ file' = file /\ len' = len /\ mem' = mem
<1>1. /\ Untouched
      /\ seekable /\ offset_' = q /\ base' = q - MovedBytes /\ last' = {}
      /\ (Overlap \/ Idle)
      /\ cqe' = cqe /\ stream' = stream /\ file' = file /\ len' = len /\ mem' = mem
  BY DEF seek, Untouched, opVars, devVars
<1>2. q \in Nat
  BY IoAssumption
<1>3. CallInv'
  BY <1>1 DEF CallInv, Untouched
<1>4. OpType'
  BY <1>1, TypeSplit, UntouchedType
<1>5. IoType'
  BY <1>1, <1>2, <1>4, TypeSplit, SMTT(30) DEF IoType, Untouched
<1> QED
  BY <1>1, <1>3, <1>5

\* The initial states.
LEMMA IoInit == Init => IoType /\ CallInv
<1> SUFFICES ASSUME Init PROVE IoType /\ CallInv
  OBVIOUS
<1>1. (CHOOSE c \in Conds : TRUE) \in Conds
  BY IoAssumption
<1> DEFINE some == CHOOSE c \in Conds : TRUE
           first == [b_ |-> <<>>, cond_ |-> some, done_sz_ |-> 0, iov_ |-> <<>>]
<1>2. locals_ = [o \in Ops |-> first]
  BY DEF Init
<1>3. some \in Conds
  BY <1>1
<1>4. first \in Locals
  <2> DEFINE S == Seq(Seq(Addresses))
  <2> HIDE DEF some
  <2>1. <<>> \in S
    BY EmptySeq
  <2> HIDE DEF S
  <2>2. first \in [b_ : S, cond_ : Conds, done_sz_ : Nat, iov_ : S]
    BY <1>3, <2>1
  <2> QED
    BY <2>2 DEF Locals, S
<1>5. first.done_sz_ = 0
  OBVIOUS
<1> HIDE DEF some, first
<1>6. locals_ \in [Ops -> Locals] /\ \A o \in Ops : locals_[o].done_sz_ = 0
  BY <1>2, <1>4, <1>5
<1>7. answers \in [Ops -> Seq(Returns)]
  <2> DEFINE S == Seq(Returns)
  <2>1. <<>> \in S
    BY EmptySeq
  <2> HIDE DEF S
  <2>2. answers \in [Ops -> S]
    BY <2>1 DEF Init
  <2> QED
    BY <2>2 DEF S
<1>8. bytes \in [Ops -> Seq(Addresses)]
  <2> DEFINE S == Seq(Addresses)
  <2>1. <<>> \in S
    BY EmptySeq
  <2> HIDE DEF S
  <2>2. bytes \in [Ops -> S]
    BY <2>1 DEF Init
  <2> QED
    BY <2>2 DEF S
<1>9. /\ stage \in [Ops -> {"new", "pending", "done"}]
      /\ kind \in [Ops -> {"read", "write"}]
      /\ off \in [Ops -> Nat]
      /\ cqe \in [Ops -> Nat \cup {-1, NoCqe}]
      /\ start \in [Ops -> Nat]
  BY DEF Init
<1>10. /\ seekable \in BOOLEAN /\ offset_ \in Nat /\ stream \in Nat
       /\ DOMAIN file = Positions /\ len \in 0 .. FileMax
       /\ blocked = {} /\ last = {} /\ base \in Int /\ aborted \in BOOLEAN
  <2>1. /\ seekable \in FdTypes /\ offset_ = 0 /\ stream = 0 /\ len = FileLen
        /\ blocked = {} /\ last = {} /\ base = 0 /\ aborted = FALSE
    BY DEF Init
  <2>2. DOMAIN file = Positions
    BY DEF Init
  <2>3. FdTypes \subseteq BOOLEAN /\ FileLen \in 0 .. FileMax
    BY IoAssumption
  <2>4. seekable \in BOOLEAN /\ aborted \in BOOLEAN
    BY <2>1, <2>3, Zenon
  <2>5. offset_ \in Nat /\ stream \in Nat /\ len \in 0 .. FileMax /\ base \in Int
    BY <2>1, <2>3
  <2> QED
    BY <2>1, <2>2, <2>4, <2>5
<1>11. IoType
  BY <1>6, <1>7, <1>8, <1>9, <1>10 DEF IoType
<1>12. \A o \in Ops : stage[o] = "new" /\ cqe[o] = NoCqe
  BY DEF Init
<1> QED
  BY <1>6, <1>11, <1>12 DEF CallInv

\* MovedBytes is a number.
LEMMA MovedBytesType ==
  ASSUME IoType PROVE MovedBytes \in Nat
<1>1. locals_ \in [Ops -> Locals]
  BY DEF IoType
<1> QED
  BY <1>1, MovedType, MovedBytesIsMoved

\* The inductive step of IoType and CallInv.
LEMMA IoStep ==
  ASSUME IoType, CallInv, [Next]_vars PROVE IoType' /\ CallInv'
<1>1. CASE Next
  <2>1. Steps /\ seekable' = seekable
    BY <1>1, NextSteps
  <2>2. ASSUME NEW o \in Ops, NEW k \in Kinds, NEW s \in Shapes, NEW c \in Conds,
               CallStep(o, k, s, c)
        PROVE  IoType' /\ CallInv'
    BY <2>1, <2>2, CallTyped
  <2>3. ASSUME NEW o \in Ops, EndStep(o) PROVE IoType' /\ CallInv'
    BY <2>1, <2>3, EndTyped
  <2>4. ASSUME NEW o \in Ops, NEW b, MoveStep(o, b) PROVE IoType' /\ CallInv'
    BY <2>1, <2>4, MoveTyped
  <2>5. ASSUME NEW o \in Ops, NEW n \in 0 .. FileMax, Transfer(o, n)
        PROVE  IoType' /\ CallInv'
    BY <2>1, <2>5, TransferTyped
  <2>6. ASSUME NEW o \in Ops, Fail(o) PROVE IoType' /\ CallInv'
    BY <2>1, <2>6, FailTyped
  <2>7. ASSUME NEW q \in Seeks, seek(q) PROVE IoType' /\ CallInv'
    BY <2>1, <2>7, SeekTyped, MovedBytesType
  <2> QED
    BY <2>1, <2>2, <2>3, <2>4, <2>5, <2>6, <2>7 DEF Steps
<1>2. CASE UNCHANGED vars
  <2>1. /\ seekable' = seekable /\ offset_' = offset_ /\ stream' = stream
        /\ file' = file /\ len' = len /\ stage' = stage /\ kind' = kind
        /\ blocked' = blocked /\ locals_' = locals_ /\ off' = off /\ cqe' = cqe
        /\ answers' = answers /\ bytes' = bytes /\ start' = start /\ last' = last
        /\ base' = base /\ aborted' = aborted
    BY <1>2 DEF vars, fdVars, devVars, opVars, histVars
  <2>2. IoType'
    BY <2>1 DEF IoType, Positions
  <2>3. CallInv'
    BY <2>1 DEF CallInv
  <2> QED
    BY <2>2, <2>3
<1> QED
  BY <1>1, <1>2

\* IoType and CallInv hold always.
LEMMA IoInvariant == Spec => [](IoType /\ CallInv)
<1>1. Init => IoType /\ CallInv
  BY IoInit
<1>2. IoType /\ CallInv /\ [Next]_vars => (IoType /\ CallInv)'
  BY IoStep
<1> QED
  BY <1>1, <1>2, PTL DEF Spec

\* Every variable has its type, and a running call asks for some bytes.
THEOREM IoTypeCorrect == Spec => []TypeOK
<1>1. IoType /\ CallInv => TypeOK
  <2> SUFFICES ASSUME IoType, CallInv PROVE TypeOK
    OBVIOUS
  <2>1. ASSUME NEW o \in Ops
        PROVE  /\ locals_[o].done_sz_ \in Nat /\ locals_[o].cond_ \in Conds
               /\ stage[o] = "pending" => FlattenSeq(locals_[o].iov_) # <<>>
    <3>1. locals_[o] \in Locals
      BY DEF IoType
    <3>2. locals_[o].done_sz_ \in Nat /\ locals_[o].cond_ \in Conds
      BY <3>1 DEF Locals
    <3>3. ASSUME stage[o] = "pending" PROVE FlattenSeq(locals_[o].iov_) # <<>>
      <4>1. Asks(locals_[o]) /\ Missing(locals_[o]) > 0
        BY <3>3, CallInvIs DEF Sound, Asks
      <4>2. Len(FlattenSeq(locals_[o].iov_)) > 0
        BY <3>1, <4>1, AsksForTheRest
      <4> QED
        BY <4>2
    <3> QED
      BY <3>2, <3>3
  <2> QED
    BY <2>1 DEF IoType, TypeOK
<1> QED
  BY <1>1, IoInvariant, PTL

-----------------------------------------------------------------------------
(***************************************************************************)
(* The offset.                                                             *)
(***************************************************************************)
\* The program dies only of a refused request, and until then the offset
\* counts every byte once.
Counted ==
  /\ aborted => "refused" \in Faults
  /\ aborted \/ OffsetCountsTransfers

\* MovedBytes after one call has moved n more bytes.
LEMMA MovedStep ==
  ASSUME IoType, IoType', NEW o \in Ops, NEW n \in Int, Others(o),
         locals_'[o].done_sz_ = locals_[o].done_sz_ + n
  PROVE  MovedBytes' = MovedBytes + n /\ MovedBytes \in Nat
<1>1. locals_ \in [Ops -> Locals] /\ locals_' \in [Ops -> Locals]
  BY DEF IoType
<1>2. IsFiniteSet(Ops)
  BY IoAssumption
<1> DEFINE k == locals_
           l == locals_'
<1>3. /\ DOMAIN k = Ops /\ Sizes(k) \in [Ops -> Nat]
      /\ DOMAIN l = Ops /\ Sizes(l) \in [Ops -> Nat]
  BY <1>1, MovedType
<1>4. /\ l[o].done_sz_ = k[o].done_sz_ + n
      /\ \A p \in Ops \ {o} : l[p].done_sz_ = k[p].done_sz_
  BY DEF Others
<1>5. MovedBytes = Moved(k) /\ MovedBytes' = Moved(l)
  BY MovedBytesIsMoved
<1> HIDE DEF k, l
<1>6. Moved(l) = Moved(k) + n /\ Moved(k) \in Nat
  BY <1>2, <1>3, <1>4, MovedMore
<1> QED
  BY <1>5, <1>6

\* MovedBytes when none has.
LEMMA SameMoved ==
  ASSUME locals_' = locals_ PROVE MovedBytes' = MovedBytes
BY MovedBytesIsMoved

\* The inductive step of Counted, one case for each kind of step.
LEMMA CountedStep ==
  ASSUME IoType, CallInv, Counted, IoType', [Next]_vars
  PROVE  Counted'
<1>0. MovedBytes \in Nat /\ offset_ \in Nat /\ base \in Int
  BY MovedBytesType DEF IoType
<1>1. CASE Next
  <2>1. Steps /\ seekable' = seekable /\ ~ aborted
    BY <1>1, NextSteps
  <2>0. seekable => offset_ = base + MovedBytes
    BY <2>1 DEF Counted, OffsetCountsTransfers
  \* An operation o moves n bytes and feeds the offset with them, or dies.
  <2>2. ASSUME NEW o \in Ops, NEW n \in Nat, base' = base,
               (seekable => offset_' = offset_ + n),
               Others(o), aborted' = aborted,
               locals_'[o].done_sz_ = locals_[o].done_sz_ + n
        PROVE  Counted'
    <3>1. MovedBytes' = MovedBytes + n
      BY <2>2, MovedStep
    <3>2. seekable' => offset_' = base' + MovedBytes'
      BY <1>0, <2>0, <2>1, <2>2, <3>1
    <3> QED
      BY <2>1, <2>2, <3>2 DEF Counted, OffsetCountsTransfers
  <2>3. ASSUME NEW o, Dies(o) PROVE Counted'
    BY <2>3 DEF Dies, Counted
  <2>4. ASSUME NEW o \in Ops, NEW k \in Kinds, NEW s \in Shapes, NEW c \in Conds,
               CallStep(o, k, s, c)
        PROVE  Counted'
    <3> DEFINE l == locals_t(o, s, c)
    <3>1. Stops(o, l, Success(l.done_sz_)) \/ GoesOn(o, l) \/ Dies(o)
      BY <2>1, <2>4, CallTyped
    <3>2. l \in Locals /\ l.done_sz_ = 0
      BY CalledType
    <3>3. base' = base /\ offset_' = offset_ /\ stage[o] = "new"
      BY <2>4 DEF CallStep, Call, fdVars
    <3>4. locals_[o].done_sz_ = 0
      BY <3>3, CallInvIs DEF Sound
    <3> HIDE DEF l
    <3>5. Missing(l) > 0 => Filled(l).done_sz_ = 0
      BY <3>2, FilledAsks
    <3>6. \/ Dies(o)
          \/ Others(o) /\ aborted' = aborted /\ locals_'[o].done_sz_ = 0
      BY <3>1, <3>2, <3>5 DEF Stops, GoesOn
    <3> QED
      BY <1>0, <2>2, <2>3, <3>3, <3>4, <3>6
  <2>5. ASSUME NEW o \in Ops, EndStep(o) PROVE Counted'
    <3>1. /\ Rest(o) /\ offset_' = offset_
          /\ \/ Stops(o, locals_[o], Error)
             \/ Stops(o, locals_[o], Success(locals_[o].done_sz_))
      BY <2>1, <2>5, EndTyped
    <3>2. Others(o) /\ aborted' = aborted /\ locals_'[o] = locals_[o]
      BY <3>1 DEF Stops
    <3>3. base' = base
      BY <3>1, RestTyped
    <3>4. locals_[o].done_sz_ \in Nat
      BY DEF IoType, Locals
    <3> QED
      BY <1>0, <2>2, <3>1, <3>2, <3>3, <3>4
  <2>6. ASSUME NEW o \in Ops, NEW b, MoveStep(o, b) PROVE Counted'
    <3> DEFINE l == MovedOn(locals_[o], cqe[o], b)
    <3>1. /\ Rest(o) /\ cqe[o] \in Nat /\ feed(cqe[o])
          /\ l \in Locals /\ l.done_sz_ = locals_[o].done_sz_ + cqe[o]
          /\ Stops(o, l, Success(l.done_sz_)) \/ GoesOn(o, l) \/ Dies(o)
      BY <2>1, <2>6, MoveTyped
    <3> HIDE DEF l
    <3>2. Missing(l) > 0 => Filled(l).done_sz_ = l.done_sz_
      BY <3>1, FilledAsks
    <3>3. \/ Dies(o)
          \/ Others(o) /\ aborted' = aborted /\ locals_'[o].done_sz_ = l.done_sz_
      BY <3>1, <3>2 DEF Stops, GoesOn
    <3>4. base' = base /\ (seekable => offset_' = offset_ + cqe[o])
      BY <3>1, RestTyped DEF feed
    <3> QED
      BY <2>2, <2>3, <3>1, <3>3, <3>4
  \* The locals are left alone.
  <2>7. ASSUME Untouched, (seekable => offset_' = base' + MovedBytes) PROVE Counted'
    <3>1. MovedBytes' = MovedBytes /\ aborted' = aborted
      BY <2>7, SameMoved DEF Untouched
    <3> QED
      BY <2>1, <2>7, <3>1 DEF Counted, OffsetCountsTransfers
  <2>8. ASSUME NEW o \in Ops, NEW n \in 0 .. FileMax, Transfer(o, n) PROVE Counted'
    BY <2>0, <2>1, <2>7, <2>8, TransferTyped
  <2>9. ASSUME NEW o \in Ops, Fail(o) PROVE Counted'
    BY <2>0, <2>1, <2>7, <2>9, FailTyped
  <2>10. ASSUME NEW q \in Seeks, seek(q) PROVE Counted'
    <3>1. /\ Untouched /\ offset_' = q /\ base' = q - MovedBytes
      BY <1>0, <2>1, <2>10, SeekTyped
    <3>2. q \in Nat
      BY IoAssumption
    <3>3. offset_' = base' + MovedBytes
      BY <1>0, <3>1, <3>2
    <3> QED
      BY <2>7, <3>1, <3>3
  <2> QED
    BY <2>1, <2>4, <2>5, <2>6, <2>8, <2>9, <2>10 DEF Steps
<1>2. CASE UNCHANGED vars
  <2>1. /\ seekable' = seekable /\ offset_' = offset_ /\ locals_' = locals_
        /\ base' = base /\ aborted' = aborted
    BY <1>2 DEF vars, fdVars, opVars, histVars
  <2>2. MovedBytes' = MovedBytes
    BY <2>1, SameMoved
  <2> QED
    BY <2>1, <2>2 DEF Counted, OffsetCountsTransfers
<1> QED
  BY <1>1, <1>2

\* Counted holds always.
LEMMA CountedInvariant == Spec => []Counted
<1>1. Init => Counted
  <2> SUFFICES ASSUME Init PROVE Counted
    OBVIOUS
  <2>1. \A o \in Ops : locals_[o].done_sz_ = 0
    BY DEF Init
  <2>2. DOMAIN locals_ = Ops /\ IsFiniteSet(Ops)
    BY IoAssumption DEF Init
  <2>3. MovedBytes = 0
    BY <2>1, <2>2, MovedZero, MovedBytesIsMoved
  <2>4. offset_ = 0 /\ base = 0 /\ aborted = FALSE
    BY DEF Init
  <2> QED
    BY <2>3, <2>4 DEF Counted, OffsetCountsTransfers
<1>2. (IoType /\ CallInv) /\ (IoType /\ CallInv)' /\ Counted /\ [Next]_vars => Counted'
  BY CountedStep
<1> QED
  BY <1>1, <1>2, IoInvariant, PTL DEF Spec

\* As long as no request is refused, the offset is where the seeks and the
\* bytes that were moved put it.
THEOREM OffsetsAreCounted ==
  ASSUME "refused" \notin Faults
  PROVE  Spec => []OffsetCountsTransfers
<1>1. Counted => OffsetCountsTransfers
  BY DEF Counted
<1> QED
  BY <1>1, CountedInvariant, PTL

-----------------------------------------------------------------------------
(***************************************************************************)
(* Which bytes a request is for.                                           *)
(***************************************************************************)
\* No address twice.
Distinct(s) == \A i, j \in 1 .. Len(s) : s[i] = s[j] => i = j

\* The j-th buffer of operation o, of n bytes.
Laid(o, j, n) == [i \in 1 .. n |-> <<<<o, j>>, i>>]

\* Its type, length and bytes.
LEMMA LaidType ==
  ASSUME NEW o \in Ops, NEW j \in Nat, NEW n \in Nat
  PROVE  /\ Laid(o, j, n) \in Seq(Addresses) /\ Len(Laid(o, j, n)) = n
         /\ \A i \in 1 .. n : Laid(o, j, n)[i] = <<<<o, j>>, i>>
<1>1. ASSUME NEW i \in 1 .. n PROVE <<<<o, j>>, i>> \in Addresses
  BY DEF Addresses
<1> QED
  BY <1>1 DEF Laid

\* One more size is one more buffer.
LEMMA LayAppend ==
  ASSUME NEW o \in Ops, NEW s \in Seq(Nat), NEW n \in Nat
  PROVE  Lay(o, Append(s, n)) = Append(Lay(o, s), Laid(o, Len(s) + 1, n))
<1> DEFINE t == Append(s, n)
           S == Seq(Addresses)
           b == Laid(o, Len(s) + 1, n)
<1>1. t \in Seq(Nat) /\ Len(s) \in Nat /\ Len(t) = Len(s) + 1 /\ t[Len(s) + 1] = n
      /\ \A j \in 1 .. Len(s) : t[j] = s[j]
  BY AppendIs
<1> HIDE DEF t
<1>2. b \in S
  BY <1>1, LaidType
<1>3. Lay(o, s) \in Seq(S) /\ Lay(o, t) \in Seq(S)
  BY <1>1, LayType
<1>4. Lay(o, s) = [j \in 1 .. Len(s) |-> Laid(o, j, s[j])]
  BY LayIs DEF Laid
<1>5. Lay(o, t) = [j \in 1 .. Len(t) |-> Laid(o, j, t[j])]
  BY <1>1, LayIs DEF Laid
<1> DEFINE u == Lay(o, s)
           v == Lay(o, t)
<1>6. Len(u) = Len(s) /\ \A j \in 1 .. Len(s) : u[j] = Laid(o, j, s[j])
  BY <1>1, <1>4
<1>7. Len(v) = Len(t) /\ \A j \in 1 .. Len(t) : v[j] = Laid(o, j, t[j])
  BY <1>1, <1>5
<1>8. /\ \A j \in 1 .. Len(s) : v[j] = u[j]
      /\ v[Len(s) + 1] = b
  BY <1>1, <1>6, <1>7
<1> HIDE DEF u, v, b, S
<1>9. v = Append(u, b)
  BY <1>1, <1>2, <1>3, <1>6, <1>7, <1>8 DEF u, v
<1> QED
  BY <1>9 DEF u, v, b, t

\* The buffers of a call do not overlap.
Apart(o, s) ==
  LET F == FlattenSeq(Lay(o, s))
  IN  /\ Distinct(F)
      /\ \A i \in 1 .. Len(F) : F[i][1][2] \in 1 .. Len(s)

\* By induction over the sizes.
LEMMA LayApart ==
  ASSUME NEW o \in Ops, NEW s \in Seq(Nat)
  PROVE  Apart(o, s)
<1> DEFINE G == {q \in Seq(Nat) : Apart(o, q)}
<1>1. <<>> \in G
  <2>1. <<>> \in Seq(Nat)
    BY EmptySeq
  <2>2. Lay(o, <<>>) = <<>>
    <3>1. Lay(o, <<>>) \in Seq(Seq(Addresses))
      BY <2>1, LayType
    <3>2. Lay(o, <<>>) = [j \in 1 .. 0 |-> Laid(o, j, <<>>[j])]
      BY <2>1, LayIs DEF Laid
    <3> DEFINE S == Seq(Addresses)
               v == Lay(o, <<>>)
    <3>3. v \in Seq(S) /\ DOMAIN v = 1 .. 0
      BY <3>1, <3>2
    <3> HIDE DEF v, S
    <3>4. v = <<>>
      BY <3>3
    <3> QED
      BY <3>4 DEF v
  <2>3. Apart(o, <<>>)
    <3> DEFINE F == FlattenSeq(Lay(o, <<>>))
    <3>1. F = <<>>
      BY <2>2, FlattenEmpty
    <3>2. Len(F) = 0
      BY <3>1
    <3> HIDE DEF F
    <3>3. \A i \in 1 .. Len(F) : FALSE
      BY <3>2
    <3>4. Distinct(F) /\ \A i \in 1 .. Len(F) : F[i][1][2] \in 1 .. Len(<<>>)
      BY <3>3, Zenon DEF Distinct
    <3> QED
      BY <3>4 DEF Apart, F
  <2> QED
    BY <2>1, <2>3
<1>2. ASSUME NEW q \in Seq(Nat), NEW n \in Nat, q \in G
      PROVE  Append(q, n) \in G
  <2> DEFINE F == FlattenSeq(Lay(o, q))
             b == Laid(o, Len(q) + 1, n)
             X == F \o b
             m == Len(q)
  <2>1. Lay(o, q) \in Seq(Seq(Addresses)) /\ m \in Nat
    BY LayType
  <2>2. /\ b \in Seq(Addresses) /\ Len(b) = n
        /\ \A i \in 1 .. n : b[i] = <<<<o, m + 1>>, i>>
    <3> DEFINE j == m + 1
    <3>1. j \in Nat /\ b = Laid(o, j, n)
      BY <2>1
    <3> HIDE DEF j, b
    <3>2. /\ b \in Seq(Addresses) /\ Len(b) = n
          /\ \A i \in 1 .. n : b[i] = <<<<o, j>>, i>>
      BY <3>1, LaidType
    <3> QED
      BY <3>2 DEF j
  <2>3. F \in Seq(Addresses)
    BY <2>1, FlattenType
  <2>4. FlattenSeq(Lay(o, Append(q, n))) = X
    <3>1. Lay(o, Append(q, n)) = Append(Lay(o, q), b)
      BY LayAppend
    <3> HIDE DEF b
    <3>2. FlattenSeq(Append(Lay(o, q), b)) = X
      BY <2>1, <2>2, FlattenAppend
    <3> QED
      BY <3>1, <3>2
  <2>5. Distinct(F) /\ \A i \in 1 .. Len(F) : F[i][1][2] \in 1 .. m
    BY <1>2 DEF Apart
  <2>6. Len(Append(q, n)) = m + 1 /\ Append(q, n) \in Seq(Nat)
    BY AppendIs
  <2> HIDE DEF b, F, m
  <2>7. /\ X \in Seq(Addresses) /\ Len(X) = Len(F) + n
        /\ \A i \in 1 .. Len(F) : X[i] = F[i]
        /\ \A i \in 1 .. n : X[Len(F) + i] = <<<<o, m + 1>>, i>>
    <3>0. b \in Seq(Addresses)
      BY <2>2
    <3>1. /\ X \in Seq(Addresses) /\ Len(X) = Len(F) + Len(b)
          /\ \A i \in 1 .. Len(F) : X[i] = F[i]
          /\ \A i \in 1 .. Len(b) : X[Len(F) + i] = b[i]
      BY ONLY <2>3, <3>0, ConcatIs
    <3> HIDE DEF X
    <3> QED
      BY <2>2, <3>1
  <2> HIDE DEF X
  <2>8. Len(F) \in Nat
    BY <2>3
  <2> DEFINE f == Len(F)
  <2>9. ASSUME NEW i \in 1 .. Len(X), i > f
        PROVE  X[i] = <<<<o, m + 1>>, i - f>>
    <3>1. i - f \in 1 .. n /\ f + (i - f) = i
      BY <2>7, <2>8, <2>9
    <3> DEFINE d == i - f
    <3> HIDE DEF d
    <3>2. X[f + d] = <<<<o, m + 1>>, d>>
      BY <2>7, <3>1 DEF d
    <3> QED
      BY <3>1, <3>2 DEF d
  <2>10. ASSUME NEW i \in 1 .. Len(X), ~ (i > f)
         PROVE  X[i] = F[i] /\ i \in 1 .. f /\ X[i][1][2] \in 1 .. m
    <3>1. i \in 1 .. f
      BY <2>8, <2>10
    <3> QED
      BY <2>5, <2>7, <3>1
  <2>11. ASSUME NEW i \in 1 .. Len(X) PROVE X[i][1][2] \in 1 .. m + 1
    <3>1. CASE i > f
      <4>1. X[i][1][2] = m + 1
        BY <2>9, <3>1
      <4> QED
        BY <2>1, <4>1
    <3>2. CASE ~ (i > f)
      <4>1. X[i][1][2] \in 1 .. m
        BY <2>10, <3>2
      <4> QED
        BY <2>1, <4>1
    <3> QED
      BY <3>1, <3>2
  <2>12. ASSUME NEW i \in 1 .. Len(X), NEW j \in 1 .. Len(X), X[i] = X[j]
         PROVE  i = j
    <3>1. CASE i > f /\ j > f
      <4>1. i - f = j - f
        BY <2>9, <2>12, <3>1
      <4> QED
        BY <2>8, <4>1
    <3>2. CASE ~ (i > f) /\ ~ (j > f)
      BY <2>5, <2>10, <2>12, <3>2 DEF Distinct
    <3>3. CASE i > f /\ ~ (j > f)
      <4>1. X[i][1][2] = m + 1 /\ X[j][1][2] \in 1 .. m
        BY <2>9, <2>10, <3>3
      <4> QED
        BY <2>1, <2>12, <4>1
    <3>4. CASE ~ (i > f) /\ j > f
      <4>1. X[j][1][2] = m + 1 /\ X[i][1][2] \in 1 .. m
        BY <2>9, <2>10, <3>4
      <4> QED
        BY <2>1, <2>12, <4>1
    <3> QED
      BY <3>1, <3>2, <3>3, <3>4
  <2>13. Apart(o, Append(q, n))
    BY <2>4, <2>6, <2>11, <2>12 DEF Apart, Distinct
  <2> QED
    BY <2>6, <2>13
<1>3. Seq(Nat) \subseteq G
  <2> HIDE DEF G
  <2> QED
    BY <1>1, <1>2, AllSequences
<1> QED
  BY <1>3

\* What a call changes besides the locals.
LEMMA CallFacts ==
  ASSUME IoType, NEW o \in Ops, NEW k, NEW s, NEW c, CallStep(o, k, s, c)
  PROVE  /\ stage[o] = "new" /\ (Overlap \/ Idle)
         /\ offset_' = offset_ /\ stream' = stream /\ cqe' = cqe
         /\ file' = file /\ len' = len /\ mem' = mem
         /\ bytes'[o] = FlattenSeq(Lay(o, s)) /\ start'[o] = Position /\ last' = {o}
         /\ \A p \in Ops : p # o => /\ kind'[p] = kind[p] /\ bytes'[p] = bytes[p]
                                    /\ start'[p] = start[p]
<1>1. /\ stage[o] = "new" /\ (Overlap \/ Idle)
      /\ offset_' = offset_ /\ stream' = stream /\ cqe' = cqe
      /\ file' = file /\ len' = len /\ mem' = mem /\ last' = {o}
      /\ kind' = [kind EXCEPT ![o] = k]
      /\ bytes' = [bytes EXCEPT ![o] = FlattenSeq(Lay(o, s))]
      /\ start' = [start EXCEPT ![o] = Position]
  BY DEF CallStep, Call, fdVars, devVars
<1>2. DOMAIN kind = Ops /\ DOMAIN bytes = Ops /\ DOMAIN start = Ops
  BY DEF IoType
<1> QED
  BY <1>1, <1>2

\* The locals and the history agree on what the buffers of a call are.
BytesInv ==
  \A o \in Ops : /\ stage[o] # "new" => FlattenSeq(locals_[o].b_) = bytes[o]
                 /\ Distinct(bytes[o])

\* BytesInv, when calls and history are left alone.
LEMMA SameLocalsBytes ==
  ASSUME BytesInv, bytes' = bytes, stage' = stage, locals_' = locals_
  PROVE  BytesInv'
BY DEF BytesInv

\* The inductive step of BytesInv.
LEMMA BytesStep ==
  ASSUME Temporary = {}, IoType, CallInv, BytesInv, [Next]_vars
  PROVE  BytesInv'
<1>1. CASE Next
  <2>1. Steps /\ seekable' = seekable
    BY <1>1, NextSteps
  <2>2. ASSUME NEW o \in Ops, NEW k \in Kinds, NEW s \in Shapes, NEW c \in Conds,
               CallStep(o, k, s, c)
        PROVE  BytesInv'
    <3> DEFINE l == locals_t(o, s, c)
    <3>1. Stops(o, l, Success(l.done_sz_)) \/ GoesOn(o, l) \/ Dies(o)
      BY <2>1, <2>2, CallTyped
    <3>2. l \in Locals /\ l.b_ = Lay(o, s)
      BY CalledType
    <3>3. /\ stage[o] = "new" /\ bytes'[o] = FlattenSeq(Lay(o, s))
          /\ \A p \in Ops : p # o => bytes'[p] = bytes[p]
      BY <2>2, CallFacts
    <3>4. Distinct(FlattenSeq(Lay(o, s)))
      <4>1. s \in Seq(Nat)
        BY IoAssumption
      <4> QED
        BY <4>1, LayApart DEF Apart
    <3> HIDE DEF l
    <3>5. Missing(l) > 0 => Filled(l).b_ = l.b_
      BY <3>2, FilledAsks
    <3>6. Others(o) /\ (stage'[o] = "new" \/ locals_'[o].b_ = Lay(o, s))
      BY <3>1, <3>2, <3>3, <3>5 DEF Stops, GoesOn, Dies, Others
    <3> QED
      BY <3>3, <3>4, <3>6 DEF BytesInv, Others
  <2>3. ASSUME NEW o \in Ops, bytes' = bytes, stage[o] = "pending",
               Others(o), locals_'[o].b_ = locals_[o].b_
        PROVE  BytesInv'
    BY <2>3 DEF BytesInv, Others
  <2>4. ASSUME NEW o \in Ops, EndStep(o) PROVE BytesInv'
    <3>1. Rest(o)
      BY <2>1, <2>4, EndTyped
    <3>2. Others(o) /\ locals_'[o] = locals_[o]
      BY <2>1, <2>4, EndTyped DEF Stops
    <3> QED
      BY <2>3, <3>1, <3>2, RestTyped
  <2>5. ASSUME NEW o \in Ops, NEW b, MoveStep(o, b) PROVE BytesInv'
    <3> DEFINE l == MovedOn(locals_[o], cqe[o], b)
    <3>1. /\ Rest(o) /\ l \in Locals /\ l.b_ = b
          /\ Stops(o, l, Success(l.done_sz_)) \/ GoesOn(o, l) \/ Dies(o)
      BY <2>1, <2>5, MoveTyped
    <3>2. b = locals_[o].b_
      BY <2>5 DEF MoveStep
    <3> HIDE DEF l
    <3>3. Missing(l) > 0 => Filled(l).b_ = l.b_
      BY <3>1, FilledAsks
    <3>4. Others(o) /\ locals_'[o].b_ = locals_[o].b_
      BY <3>1, <3>2, <3>3 DEF Stops, GoesOn, Dies, Others
    <3> QED
      BY <2>3, <3>1, <3>4, RestTyped
  <2>6. ASSUME Untouched PROVE BytesInv'
    BY <2>6, SameLocalsBytes DEF Untouched
  <2>7. ASSUME NEW o \in Ops, NEW n \in 0 .. FileMax, Transfer(o, n) PROVE BytesInv'
    BY <2>1, <2>6, <2>7, TransferTyped
  <2>8. ASSUME NEW o \in Ops, Fail(o) PROVE BytesInv'
    BY <2>1, <2>6, <2>8, FailTyped
  <2>9. ASSUME NEW q \in Seeks, seek(q) PROVE BytesInv'
    BY <2>1, <2>6, <2>9, SeekTyped, MovedBytesType
  <2> QED
    BY <2>1, <2>2, <2>4, <2>5, <2>7, <2>8, <2>9 DEF Steps
<1>2. CASE UNCHANGED vars
  BY <1>2, SameLocalsBytes DEF vars, opVars, histVars
<1> QED
  BY <1>1, <1>2

\* BytesInv holds always, if no buffer sequence dies before its call.
LEMMA BytesInvariant ==
  ASSUME Temporary = {} PROVE Spec => []BytesInv
<1>1. Init => BytesInv
  <2> SUFFICES ASSUME Init PROVE BytesInv
    OBVIOUS
  <2>1. \A o \in Ops : stage[o] = "new" /\ bytes[o] = <<>>
    BY DEF Init
  <2>2. Distinct(<<>>)
    BY DEF Distinct
  <2> QED
    BY <2>1, <2>2 DEF BytesInv
<1>2. (IoType /\ CallInv) /\ BytesInv /\ [Next]_vars => BytesInv'
  BY BytesStep
<1> QED
  BY <1>1, <1>2, IoInvariant, PTL DEF Spec

\* What a running call asks for, in terms of the caller's bytes.
LEMMA PendingAsks ==
  ASSUME IoType, CallInv, BytesInv, NEW o \in Ops, stage[o] = "pending"
  PROVE  LET done == locals_[o].done_sz_
             top == Ceiling(locals_[o].cond_, Len(bytes[o]))
         IN  /\ FlattenSeq(locals_[o].iov_) = SubSeq(bytes[o], done + 1, top)
             /\ done \in Nat /\ top \in Nat /\ done < top /\ top <= Len(bytes[o])
             /\ bytes[o] \in Seq(Addresses)
             /\ Missing(locals_[o]) = top - done
<1> DEFINE l == locals_[o]
<1>1. l \in Locals /\ bytes[o] \in Seq(Addresses)
  BY DEF IoType
<1>2. Asks(l) /\ FlattenSeq(l.b_) = bytes[o]
  BY CallInvIs DEF Sound, BytesInv
<1> HIDE DEF l
<1>3. l.done_sz_ \in Nat
  BY <1>1 DEF Locals
<1>4. FlattenSeq(l.iov_) = SubSeq(bytes[o], l.done_sz_ + 1, Ceiling(l.cond_, Len(bytes[o])))
  BY <1>1, <1>2, AsksForTheRest
<1>5. /\ Missing(l) \in Nat /\ Missing(l) > 0
      /\ Ceiling(l.cond_, Len(bytes[o])) \in Nat
      /\ Ceiling(l.cond_, Len(bytes[o])) <= Len(bytes[o])
      /\ l.done_sz_ + Missing(l) = Ceiling(l.cond_, Len(bytes[o]))
  BY <1>1, <1>2, MissingIs DEF Asks
<1>6. /\ l.done_sz_ < Ceiling(l.cond_, Len(bytes[o]))
      /\ Missing(l) = Ceiling(l.cond_, Len(bytes[o])) - l.done_sz_
  BY <1>3, <1>5
<1> QED
  BY <1>1, <1>3, <1>4, <1>5, <1>6 DEF l

\* However its requests are cut short, a call goes on asking for exactly the
\* bytes that are missing, provided its buffer sequence outlives it.
THEOREM RequestsAreExact ==
  ASSUME Temporary = {} PROVE Spec => []RequestsWhatIsMissing
<1>1. (IoType /\ CallInv) /\ BytesInv => RequestsWhatIsMissing
  BY PendingAsks DEF RequestsWhatIsMissing
<1> QED
  BY <1>1, IoInvariant, BytesInvariant, PTL

-----------------------------------------------------------------------------
(***************************************************************************)
(* Where a call is, with one call at a time.                               *)
(***************************************************************************)
\* Bytes that the kernel has moved and the thread does not know of.
Fetched(o) == IF cqe[o] \in Nat THEN cqe[o] ELSE 0

\* The only call that is running is the one made last.  It goes on where its
\* transfer has come to, and meets the end of the device nowhere else.
PlaceAt(o) ==
  /\ last = {o}
  /\ ~ aborted =>
       /\ seekable => /\ off[o] = start[o] + locals_[o].done_sz_
                      /\ offset_ = start[o] + locals_[o].done_sz_
       /\ ~ seekable => stream = start[o] + locals_[o].done_sz_ + Fetched(o)
  /\ kind[o] = "read" /\ cqe[o] = 0 => start[o] + locals_[o].done_sz_ >= len
PlaceInv ==
  ~ Overlap => \A o \in Ops : stage[o] = "pending" => PlaceAt(o)

\* No completion, nothing fetched.
LEMMA NoneFetched == /\ \A o \in Ops : cqe[o] = NoCqe => Fetched(o) = 0
                     /\ \A o \in Ops : cqe'[o] = NoCqe => Fetched(o)' = 0
                     /\ NoCqe # 0
BY DEF Fetched, NoCqe

\* A call that is running is the only one.
LEMMA PlaceOnly ==
  ASSUME PlaceInv, ~ Overlap, NEW o \in Ops, stage[o] = "pending"
  PROVE  /\ PlaceAt(o) /\ last = {o}
         /\ \A p \in Ops : p # o => stage[p] # "pending"
<1>1. PlaceAt(o) /\ \A p \in Ops : stage[p] = "pending" => last = {p}
  BY DEF PlaceInv, PlaceAt
<1>2. last = {o}
  BY <1>1
<1> QED
  BY <1>1, <1>2

\* So PlaceInv after a step of o is about o only.
LEMMA PlaceOne ==
  ASSUME NEW o \in Ops, Others(o), \A p \in Ops : p # o => stage[p] # "pending",
         stage'[o] = "pending" => PlaceAt(o)'
  PROVE  PlaceInv'
BY DEF PlaceInv, Others

\* The inductive step of PlaceInv.
LEMMA PlaceStep ==
  ASSUME IoType, CallInv, PlaceInv, [Next]_vars
  PROVE  PlaceInv'
<1> SUFFICES ASSUME ~ Overlap PROVE PlaceInv'
  BY DEF PlaceInv
<1>0. \A p \in Ops : /\ locals_[p] \in Locals /\ locals_[p].done_sz_ \in Nat
                     /\ start[p] \in Nat
  BY DEF IoType, Locals
<1>1. CASE Next
  <2>1. Steps /\ seekable' = seekable /\ ~ aborted /\ seekable \in BOOLEAN
    BY <1>1, NextSteps DEF IoType
  <2>2. ASSUME NEW o \in Ops, NEW k \in Kinds, NEW s \in Shapes, NEW c \in Conds,
               CallStep(o, k, s, c)
        PROVE  PlaceInv'
    <3> DEFINE l == locals_t(o, s, c)
    <3>1. Stops(o, l, Success(l.done_sz_)) \/ GoesOn(o, l) \/ Dies(o)
      BY <2>1, <2>2, CallTyped
    <3>2. l \in Locals /\ l.done_sz_ = 0
      BY CalledType
    <3>3. /\ stage[o] = "new" /\ (Overlap \/ Idle)
          /\ offset_' = offset_ /\ stream' = stream /\ cqe' = cqe
          /\ start'[o] = Position /\ last' = {o}
      BY <2>2, CallFacts
    <3>4. \A p \in Ops : stage[p] # "pending"
      BY <3>3 DEF Idle
    <3>5. cqe'[o] = NoCqe
      BY <3>3, CallInvIs DEF Sound
    <3> HIDE DEF l
    <3>6. Others(o)
      BY <3>1 DEF Stops, GoesOn, Dies, Others
    <3>7. ASSUME stage'[o] = "pending" PROVE PlaceAt(o)'
      <4>1. GoesOn(o, l)
        BY <3>1, <3>3, <3>7 DEF Stops, Dies
      <4>2. locals_'[o].done_sz_ = 0 /\ off'[o] = (IF seekable THEN offset_ ELSE 0)
        BY <3>2, <3>3, <4>1, FilledAsks DEF GoesOn
      <4>3. Position \in Nat /\ Position = (IF seekable THEN offset_ ELSE stream)
        BY DEF Position, IoType
      <4>4. Fetched(o)' = 0 /\ cqe'[o] # 0
        BY <3>5, NoneFetched
      <4> QED
        BY <2>1, <3>3, <4>2, <4>3, <4>4 DEF PlaceAt
    <3> QED
      BY <3>4, <3>6, <3>7, PlaceOne
  <2>3. ASSUME NEW o \in Ops, EndStep(o) PROVE PlaceInv'
    <3>1. Others(o) /\ stage'[o] = "done" /\ Rest(o)
      BY <2>1, <2>3, EndTyped DEF Stops
    <3> QED
      BY <3>1, RestTyped, PlaceOnly, PlaceOne
  <2>4. ASSUME NEW o \in Ops, NEW b, MoveStep(o, b) PROVE PlaceInv'
    <3> DEFINE l == MovedOn(locals_[o], cqe[o], b)
    <3>1. /\ Rest(o) /\ cqe[o] \in Nat /\ feed(cqe[o])
          /\ l \in Locals /\ l.done_sz_ = locals_[o].done_sz_ + cqe[o]
          /\ Stops(o, l, Success(l.done_sz_)) \/ GoesOn(o, l) \/ Dies(o)
      BY <2>1, <2>4, MoveTyped
    <3> HIDE DEF l
    <3>2. /\ stage[o] = "pending" /\ cqe'[o] = NoCqe /\ stream' = stream
          /\ start' = start /\ last' = last
      BY <3>1, RestTyped
    <3>3. /\ PlaceAt(o) /\ last = {o}
          /\ \A p \in Ops : p # o => stage[p] # "pending"
      BY <3>2, PlaceOnly
    <3>4. Fetched(o)' = 0 /\ cqe'[o] # 0 /\ Fetched(o) = cqe[o]
      BY <3>1, <3>2, NoneFetched DEF Fetched
    <3>5. Others(o)
      BY <3>1 DEF Stops, GoesOn, Dies, Others
    <3>6. CASE GoesOn(o, l)
      <4>1. locals_'[o].done_sz_ = locals_[o].done_sz_ + cqe[o]
            /\ off'[o] = (IF seekable THEN offset_' ELSE 0)
        BY <3>1, <3>6, FilledAsks DEF GoesOn
      <4>2. seekable => offset_' = offset_ + cqe[o]
        BY <3>1 DEF feed
      <4>3. PlaceAt(o)'
        BY <1>0, <2>1, <3>1, <3>2, <3>3, <3>4, <4>1, <4>2 DEF PlaceAt
      <4> QED
        BY <3>3, <3>5, <4>3, PlaceOne
    <3>7. CASE Dies(o)
      <4>1. PlaceAt(o)'
        BY <3>2, <3>3, <3>4, <3>7 DEF Dies, PlaceAt
      <4> QED
        BY <3>3, <3>5, <4>1, PlaceOne
    <3>8. CASE Stops(o, l, Success(l.done_sz_))
      BY <3>3, <3>5, <3>8, PlaceOne DEF Stops
    <3> QED
      BY <3>1, <3>6, <3>7, <3>8
  <2>5. ASSUME NEW o \in Ops, NEW n \in 0 .. FileMax, Transfer(o, n) PROVE PlaceInv'
    <3>1. /\ Untouched /\ offset_' = offset_ /\ last' = last
          /\ stage[o] = "pending" /\ cqe[o] = NoCqe /\ cqe'[o] = n
          /\ stream' = (IF seekable THEN stream ELSE stream + n)
          /\ n = 0 <=> kind[o] = "read" /\ KernelAt(o) >= len
      BY <2>1, <2>5, TransferTyped
    <3>2. /\ PlaceAt(o) /\ last = {o}
          /\ \A p \in Ops : p # o => stage[p] # "pending"
      BY <3>1, PlaceOnly
    <3>3. n \in Nat /\ Fetched(o) = 0 /\ Fetched(o)' = n
      BY <3>1, NoneFetched, IoAssumption DEF Fetched
    <3>4. kind[o] = "read" => len' = len
      BY <2>5 DEF Transfer
    <3>5. KernelAt(o) = start[o] + locals_[o].done_sz_
      BY <1>0, <2>1, <3>2, <3>3 DEF PlaceAt, KernelAt
    <3>6. PlaceAt(o)'
      BY <1>0, <2>1, <3>1, <3>2, <3>3, <3>4, <3>5 DEF PlaceAt, Untouched
    <3>7. Others(o)
      BY <3>1 DEF Untouched, Others
    <3> QED
      BY <3>2, <3>6, <3>7, PlaceOne
  <2>6. ASSUME NEW o \in Ops, Fail(o) PROVE PlaceInv'
    <3>1. /\ Untouched /\ offset_' = offset_ /\ last' = last /\ len' = len
          /\ stage[o] = "pending" /\ cqe[o] = NoCqe /\ cqe'[o] = -1
          /\ stream' = stream
      BY <2>1, <2>6, FailTyped
    <3>2. /\ PlaceAt(o) /\ last = {o}
          /\ \A p \in Ops : p # o => stage[p] # "pending"
      BY <3>1, PlaceOnly
    <3>3. Fetched(o) = 0 /\ Fetched(o)' = 0 /\ cqe'[o] # 0
      BY <3>1, NoneFetched DEF Fetched
    <3>4. PlaceAt(o)'
      BY <2>1, <3>1, <3>2, <3>3 DEF PlaceAt, Untouched
    <3>5. Others(o)
      BY <3>1 DEF Untouched, Others
    <3> QED
      BY <3>2, <3>4, <3>5, PlaceOne
  <2>7. ASSUME NEW q \in Seeks, seek(q) PROVE PlaceInv'
    <3>1. Untouched /\ (Overlap \/ Idle)
      BY <2>1, <2>7, SeekTyped, MovedBytesType
    <3> QED
      BY <3>1 DEF PlaceInv, Untouched, Idle
  <2> QED
    BY <2>1, <2>2, <2>3, <2>4, <2>5, <2>6, <2>7 DEF Steps
<1>2. CASE UNCHANGED vars
  <2>1. /\ seekable' = seekable /\ offset_' = offset_ /\ stream' = stream
        /\ len' = len /\ stage' = stage /\ kind' = kind /\ locals_' = locals_
        /\ off' = off /\ cqe' = cqe /\ start' = start /\ last' = last
        /\ aborted' = aborted
    BY <1>2 DEF vars, fdVars, devVars, opVars, histVars
  <2> QED
    BY <2>1 DEF PlaceInv, PlaceAt, Fetched
<1> QED
  BY <1>1, <1>2

\* PlaceInv holds always.
LEMMA PlaceInvariant == Spec => []PlaceInv
<1>1. Init => PlaceInv
  BY DEF Init, PlaceInv
<1>2. (IoType /\ CallInv) /\ PlaceInv /\ [Next]_vars => PlaceInv'
  BY PlaceStep
<1> QED
  BY <1>1, <1>2, IoInvariant, PTL DEF Spec

-----------------------------------------------------------------------------
(***************************************************************************)
(* What a call is told.                                                    *)
(***************************************************************************)
\* The number of bytes n is one that call o may succeed with.
Allowed(o, n) ==
  \/ Fulfils(locals_[o].cond_, Len(bytes[o]), n)
  \/ /\ kind[o] = "read" /\ n < Ceiling(locals_[o].cond_, Len(bytes[o]))
     /\ o \in last /\ ~ Overlap => start[o] + n >= len
Told(o, ret) == ret.ok => ret.n = locals_[o].done_sz_ /\ Allowed(o, ret.n)

\* A call is told one thing, as it ends, and that stays true.
AnswerAt(o) ==
  /\ Len(answers[o]) = (IF stage[o] = "done" THEN 1 ELSE 0)
  /\ stage[o] = "done" => Told(o, answers[o][1])
AnswerInv == \A o \in Ops : AnswerAt(o)

\* What a call was told stays true when others go on.
LEMMA SameAnswer ==
  ASSUME NEW p \in Ops, AnswerAt(p),
         stage'[p] = stage[p], locals_'[p] = locals_[p], answers'[p] = answers[p],
         kind'[p] = kind[p], bytes'[p] = bytes[p], start'[p] = start[p],
         stage[p] = "done" /\ p \in last' /\ ~ Overlap => p \in last /\ len' = len
  PROVE  AnswerAt(p)'
BY DEF AnswerAt, Told, Allowed

\* A call that ends has been told one thing.
LEMMA NewAnswer ==
  ASSUME IoType, NEW o \in Ops, AnswerAt(o), stage[o] # "done", NEW l,
         NEW ret, Stops(o, l, ret), Told(o, ret)'
  PROVE  AnswerAt(o)'
<1>1. Len(answers[o]) = 0 /\ answers[o] \in Seq(Returns)
  BY DEF AnswerAt, IoType
<1>2. answers'[o] = Append(answers[o], ret) /\ stage'[o] = "done"
  BY DEF Stops
<1>3. Len(answers'[o]) = 1 /\ answers'[o][1] = ret
  BY <1>1, <1>2
<1> QED
  BY <1>2, <1>3 DEF AnswerAt

\* An error promises nothing.
LEMMA ErrorTold == ASSUME NEW o PROVE Told(o, Error)'
BY DEF Told, Error

\* The inductive step of AnswerInv.
LEMMA AnswerStep ==
  ASSUME Temporary = {}, IoType, CallInv, BytesInv, PlaceInv, AnswerInv, BytesInv',
         [Next]_vars
  PROVE  AnswerInv'
<1>0. \A p \in Ops : AnswerAt(p)
  BY DEF AnswerInv
<1>1. CASE Next
  <2>1. Steps /\ seekable' = seekable
    BY <1>1, NextSteps
  <2>2. ASSUME NEW o \in Ops, NEW k \in Kinds, NEW s \in Shapes, NEW c \in Conds,
               CallStep(o, k, s, c)
        PROVE  AnswerInv'
    <3> DEFINE l == locals_t(o, s, c)
               F == FlattenSeq(l.b_)
    <3>1. \/ Missing(l) = 0 /\ Stops(o, l, Success(l.done_sz_))
          \/ GoesOn(o, l)
          \/ Dies(o)
      BY <2>1, <2>2, CallTyped
    <3>2. l \in Locals /\ l.done_sz_ = 0 /\ l.b_ = Lay(o, s)
      BY CalledType
    <3>3. /\ stage[o] = "new" /\ last' = {o} /\ len' = len
          /\ bytes'[o] = FlattenSeq(Lay(o, s))
          /\ \A p \in Ops : p # o => /\ kind'[p] = kind[p] /\ bytes'[p] = bytes[p]
                                     /\ start'[p] = start[p]
      BY <2>2, CallFacts
    <3> HIDE DEF l
    <3>4. Others(o)
      BY <3>1 DEF Stops, GoesOn, Dies, Others
    <3>5. ASSUME NEW p \in Ops, p # o PROVE AnswerAt(p)'
      BY <1>0, <3>3, <3>4, <3>5, SameAnswer DEF Others
    <3>6. AnswerAt(o)'
      <4>1. CASE Missing(l) = 0 /\ Stops(o, l, Success(l.done_sz_))
        <5>1. Ceiling(l.cond_, Len(F)) \in Nat
          BY <3>2, MissingIs
        <5>2. Fulfils(l.cond_, Len(F), l.done_sz_)
          BY <3>2, <4>1, <5>1, MissingIs
        <5>3. F = bytes'[o] /\ l = locals_'[o]
          BY <3>2, <3>3, <4>1 DEF Stops
        <5>4. Told(o, Success(l.done_sz_))'
          BY <5>2, <5>3 DEF Told, Allowed, Success
        <5> QED
          BY <1>0, <3>3, <4>1, <5>4, NewAnswer
      <4>2. CASE GoesOn(o, l)
        BY <1>0, <3>3, <4>2 DEF GoesOn, AnswerAt
      <4>3. CASE Dies(o)
        BY <1>0, <3>3, <4>3 DEF Dies, AnswerAt
      <4> QED
        BY <3>1, <4>1, <4>2, <4>3
    <3> QED
      BY <3>5, <3>6 DEF AnswerInv
  \* A step of o that leaves the history and the device alone.
  <2>3. ASSUME NEW o \in Ops, Rest(o), Others(o), AnswerAt(o)' PROVE AnswerInv'
    <3>1. /\ kind' = kind /\ bytes' = bytes /\ start' = start /\ last' = last
          /\ len' = len
      BY <2>3, RestTyped
    <3>2. ASSUME NEW p \in Ops, p # o PROVE AnswerAt(p)'
      BY <1>0, <2>3, <3>1, <3>2, SameAnswer DEF Others
    <3> QED
      BY <2>3, <3>2 DEF AnswerInv
  <2>4. ASSUME NEW o \in Ops, EndStep(o) PROVE AnswerInv'
    <3>1. /\ Rest(o)
          /\ \/ Stops(o, locals_[o], Error)
             \/ /\ kind[o] = "read" /\ cqe[o] = 0
                /\ Stops(o, locals_[o], Success(locals_[o].done_sz_))
      BY <2>1, <2>4, EndTyped
    <3>2. /\ stage[o] = "pending" /\ kind' = kind /\ bytes' = bytes /\ start' = start
          /\ last' = last /\ len' = len
      BY <3>1, RestTyped
    <3>3. Others(o) /\ locals_'[o] = locals_[o]
      BY <3>1 DEF Stops
    <3>4. CASE Stops(o, locals_[o], Error)
      <4>1. AnswerAt(o)'
        BY <1>0, <3>2, <3>4, ErrorTold, NewAnswer
      <4> QED
        BY <2>3, <3>1, <3>3, <4>1
    <3>5. CASE /\ kind[o] = "read" /\ cqe[o] = 0
               /\ Stops(o, locals_[o], Success(locals_[o].done_sz_))
      <4>1. locals_[o].done_sz_ < Ceiling(locals_[o].cond_, Len(bytes[o]))
        BY <3>2, PendingAsks
      <4>2. ~ Overlap => start[o] + locals_[o].done_sz_ >= len
        BY <3>2, <3>5, PlaceOnly DEF PlaceAt
      <4>3. PICK n : n = locals_[o].done_sz_
        OBVIOUS
      <4>4. Stops(o, locals_[o], Success(n))
        BY <3>5, <4>3
      <4>5. Allowed(o, n)' /\ locals_'[o].done_sz_ = n
        BY <3>2, <3>3, <3>5, <4>1, <4>2, <4>3 DEF Allowed
      <4>6. Told(o, Success(n))'
        BY <4>5 DEF Told, Success
      <4>7. AnswerAt(o)'
        BY <1>0, <3>2, <4>4, <4>6, NewAnswer
      <4> QED
        BY <2>3, <3>1, <3>3, <4>7
    <3> QED
      BY <3>1, <3>4, <3>5
  <2>5. ASSUME NEW o \in Ops, NEW b, MoveStep(o, b) PROVE AnswerInv'
    <3> DEFINE l == MovedOn(locals_[o], cqe[o], b)
               F == FlattenSeq(l.b_)
    <3>1. /\ Rest(o) /\ cqe[o] \in Nat
          /\ l \in Locals /\ l.done_sz_ = locals_[o].done_sz_ + cqe[o]
          /\ l.cond_ = locals_[o].cond_ /\ l.b_ = b
          /\ \/ Missing(l) = 0 /\ Stops(o, l, Success(l.done_sz_))
             \/ GoesOn(o, l)
             \/ Dies(o)
      BY <2>1, <2>5, MoveTyped
    <3>2. b = locals_[o].b_
      BY <2>5 DEF MoveStep
    <3> HIDE DEF l
    <3>3. stage[o] = "pending" /\ bytes' = bytes
      BY <3>1, RestTyped
    <3>4. F = bytes[o] /\ cqe[o] <= Missing(locals_[o])
      BY <3>1, <3>2, <3>3, CallInvIs DEF BytesInv, Sound
    <3>5. Others(o)
      BY <3>1 DEF Stops, GoesOn, Dies, Others
    <3>6. CASE Missing(l) = 0 /\ Stops(o, l, Success(l.done_sz_))
      <4>1. /\ locals_[o].done_sz_ \in Nat
            /\ Ceiling(l.cond_, Len(F)) \in Nat
            /\ Missing(locals_[o]) = Ceiling(l.cond_, Len(F)) - locals_[o].done_sz_
        <5>1. Ceiling(l.cond_, Len(F)) = Ceiling(locals_[o].cond_, Len(bytes[o]))
          BY <3>1, <3>4
        <5> QED
          BY <3>3, <5>1, PendingAsks
      <4>2. l.done_sz_ <= Ceiling(l.cond_, Len(F))
        <5> DEFINE top == Ceiling(l.cond_, Len(F))
                   n == cqe[o]
                   m == Missing(locals_[o])
                   d == locals_[o].done_sz_
        <5>1. /\ d \in Nat /\ top \in Nat /\ m = top - d /\ n \in Nat /\ n <= m
              /\ l.done_sz_ = d + n
          BY <3>1, <3>4, <4>1
        <5> HIDE DEF top, n, m, d
        <5>2. l.done_sz_ <= top
          BY <5>1
        <5> QED
          BY <5>2 DEF top
      <4>3. Fulfils(l.cond_, Len(F), l.done_sz_)
        BY <3>1, <3>6, <4>2, MissingIs
      <4>4. F = bytes'[o] /\ l = locals_'[o]
        BY <3>3, <3>4, <3>6 DEF Stops
      <4>5. PICK n : n = l.done_sz_
        OBVIOUS
      <4>6. Stops(o, l, Success(n))
        BY <3>6, <4>5
      <4>7. Allowed(o, n)' /\ locals_'[o].done_sz_ = n
        BY <4>3, <4>4, <4>5 DEF Allowed
      <4>8. Told(o, Success(n))'
        BY <4>7 DEF Told, Success
      <4>9. AnswerAt(o)'
        BY <1>0, <3>3, <4>6, <4>8, NewAnswer
      <4> QED
        BY <2>3, <3>1, <3>5, <4>9
    <3>7. CASE GoesOn(o, l)
      <4>1. AnswerAt(o)'
        BY <1>0, <3>3, <3>7 DEF GoesOn, AnswerAt
      <4> QED
        BY <2>3, <3>1, <3>5, <4>1
    <3>8. CASE Dies(o)
      <4>1. AnswerAt(o)'
        BY <1>0, <3>3, <3>8 DEF Dies, AnswerAt
      <4> QED
        BY <2>3, <3>1, <3>5, <4>1
    <3> QED
      BY <3>1, <3>6, <3>7, <3>8
  <2>6. ASSUME Untouched,
               \A p \in Ops : stage[p] = "done" /\ p \in last' /\ ~ Overlap =>
                                p \in last /\ len' = len
        PROVE  AnswerInv'
    BY <1>0, <2>6, SameAnswer DEF Untouched, AnswerInv
  <2>7. ASSUME NEW o \in Ops, NEW n \in 0 .. FileMax, Transfer(o, n) PROVE AnswerInv'
    <3>1. Untouched /\ last' = last /\ stage[o] = "pending"
      BY <2>1, <2>7, TransferTyped
    <3>2. ~ Overlap => last = {o}
      BY <3>1, PlaceOnly
    <3> QED
      BY <2>6, <3>1, <3>2
  <2>8. ASSUME NEW o \in Ops, Fail(o) PROVE AnswerInv'
    <3>1. Untouched /\ last' = last /\ len' = len
      BY <2>1, <2>8, FailTyped
    <3> QED
      BY <2>6, <3>1
  <2>9. ASSUME NEW q \in Seeks, seek(q) PROVE AnswerInv'
    <3>1. Untouched /\ last' = {}
      BY <2>1, <2>9, SeekTyped, MovedBytesType
    <3> QED
      BY <2>6, <3>1
  <2> QED
    BY <2>1, <2>2, <2>4, <2>5, <2>7, <2>8, <2>9 DEF Steps
<1>2. CASE UNCHANGED vars
  <2>1. /\ stage' = stage /\ locals_' = locals_ /\ answers' = answers /\ kind' = kind
        /\ bytes' = bytes /\ start' = start /\ last' = last /\ len' = len
    BY <1>2 DEF vars, devVars, opVars, histVars
  <2> QED
    BY <1>0, <2>1, SameAnswer DEF AnswerInv
<1> QED
  BY <1>1, <1>2

\* AnswerInv holds always, if no buffer sequence dies before its call.
LEMMA AnswerInvariant ==
  ASSUME Temporary = {} PROVE Spec => []AnswerInv
<1>1. Init => AnswerInv
  <2> SUFFICES ASSUME Init PROVE AnswerInv
    OBVIOUS
  <2>1. \A o \in Ops : stage[o] = "new" /\ answers[o] = <<>>
    BY DEF Init
  <2> QED
    BY <2>1 DEF AnswerInv, AnswerAt
<1>2. (IoType /\ CallInv) /\ BytesInv /\ PlaceInv /\ AnswerInv /\ BytesInv'
        /\ [Next]_vars => AnswerInv'
  BY AnswerStep
<1> QED
  BY <1>1, <1>2, IoInvariant, BytesInvariant, PlaceInvariant, PTL DEF Spec

\* A call is told once, and the truth, provided its buffer sequence outlives it.
THEOREM AnswersAreTrue ==
  ASSUME Temporary = {} PROVE Spec => []AnswerIsTrue
<1>1. (IoType /\ CallInv) /\ AnswerInv => AnswerIsTrue
  <2> SUFFICES ASSUME IoType, AnswerInv, NEW o \in Ops, answers[o] # <<>>
               PROVE  Len(answers[o]) = 1 /\ Told(o, answers[o][1])
    BY DEF AnswerIsTrue, Told, Allowed
  <2>1. answers[o] \in Seq(Returns) /\ AnswerAt(o)
    BY DEF IoType, AnswerInv
  <2>2. Len(answers[o]) # 0
    BY <2>1
  <2> QED
    BY <2>1, <2>2 DEF AnswerAt
<1> QED
  BY <1>1, IoInvariant, AnswerInvariant, PTL

-----------------------------------------------------------------------------
(***************************************************************************)
(* What a transfer has moved.                                              *)
(***************************************************************************)
\* The bytes the kernel has moved for the call made last, those included that
\* the thread does not know of, are where they belong.
MoveInv ==
  ~ Overlap => \A o \in last : \A i \in 1 .. locals_[o].done_sz_ + Fetched(o) :
    Content(bytes[o][i]) = file[start[o] + i - 1]

\* Numbers of bytes.
LEMMA FetchedType ==
  ASSUME IoType, NEW o \in Ops
  PROVE  locals_[o].done_sz_ \in Nat /\ Fetched(o) \in Nat
BY DEF IoType, Locals, Fetched

\* MoveInv, when nothing is moved and no more is counted.
LEMMA SameMove ==
  ASSUME MoveInv, IoType, IoType', last' \subseteq last, bytes' = bytes, start' = start,
         mem' = mem, file' = file,
         \A o \in last : locals_'[o].done_sz_ + Fetched(o)'
                           <= locals_[o].done_sz_ + Fetched(o)
  PROVE  MoveInv'
<1> SUFFICES ASSUME ~ Overlap, NEW o \in last',
                    NEW i \in 1 .. locals_'[o].done_sz_ + Fetched(o)'
             PROVE  Content(bytes[o][i])' = file'[start'[o] + i - 1]
  BY DEF MoveInv
<1>1. o \in last /\ o \in Ops
  BY DEF IoType
<1>2. locals_[o].done_sz_ + Fetched(o) \in Nat /\ locals_'[o].done_sz_ + Fetched(o)' \in Nat
  <2>1. locals_[o].done_sz_ \in Nat /\ Fetched(o) \in Nat
    BY <1>1, FetchedType
  <2>2. locals_'[o].done_sz_ \in Nat
    BY <1>1 DEF IoType, Locals
  <2>3. Fetched(o)' \in Nat
    BY DEF Fetched
  <2> QED
    BY <2>1, <2>2, <2>3
<1>3. i \in 1 .. locals_[o].done_sz_ + Fetched(o)
  BY <1>1, <1>2
<1>4. Content(bytes[o][i]) = file[start[o] + i - 1]
  BY <1>1, <1>3 DEF MoveInv
<1> QED
  BY <1>4 DEF Content

\* Memory m is memory x after reading n bytes of f at position at into the
\* addresses to.
Fills(m, to, n, at, f, x) ==
  m = [a \in {to[i] : i \in 1 .. n} \cup DOMAIN x |->
         IF a \in {to[i] : i \in 1 .. n}
         THEN f[at + (CHOOSE i \in 1 .. n : to[i] = a) - 1]
         ELSE x[a]]

Holds(m, to, n, at, f, x) ==
  /\ \A i \in 1 .. n : to[i] \in DOMAIN m /\ m[to[i]] = f[at + i - 1]
  /\ \A a : a \notin {to[i] : i \in 1 .. n} =>
       /\ a \in DOMAIN m <=> a \in DOMAIN x
       /\ a \in DOMAIN x => m[a] = x[a]

\* By the addresses being distinct.
LEMMA ReadInto ==
  ASSUME NEW A, NEW to \in Seq(A), NEW n \in Nat, n <= Len(to), Distinct(to), NEW at \in Nat,
         NEW m, NEW f, NEW x,
         Fills(m, to, n, at, f, x)
  PROVE  Holds(m, to, n, at, f, x)
<1> DEFINE D == {to[i] : i \in 1 .. n}
           pos(a) == CHOOSE i \in 1 .. n : to[i] = a
<1>1. m = [a \in D \cup DOMAIN x |-> IF a \in D THEN f[at + pos(a) - 1] ELSE x[a]]
  BY DEF Fills
<1>2. ASSUME NEW i \in 1 .. n PROVE pos(to[i]) = i /\ to[i] \in D
  <2>1. i \in 1 .. Len(to) /\ \A j \in 1 .. n : j \in 1 .. Len(to)
    OBVIOUS
  <2>2. \A j \in 1 .. n : to[j] = to[i] => j = i
    BY <2>1 DEF Distinct
  <2> QED
    BY <2>2
<1>3. ASSUME NEW i \in 1 .. n PROVE to[i] \in DOMAIN m /\ m[to[i]] = f[at + i - 1]
  <2>1. to[i] \in D /\ pos(to[i]) = i
    BY <1>2
  <2> HIDE DEF D, pos
  <2> QED
    BY <1>1, <2>1
<1>4. ASSUME NEW a, a \notin D
      PROVE  (a \in DOMAIN m <=> a \in DOMAIN x) /\ (a \in DOMAIN x => m[a] = x[a])
  BY <1>1, <1>4
<1> QED
  BY <1>3, <1>4 DEF Holds

\* What SubSeq() gives.
LEMMA SubSeqIs ==
  ASSUME NEW A, NEW s \in Seq(A), NEW d \in Nat, NEW e \in Nat, d <= e, e <= Len(s)
  PROVE  LET t == SubSeq(s, d + 1, e)
         IN  /\ t \in Seq(A) /\ Len(t) = e - d
             /\ \A i \in 1 .. e - d : t[i] = s[d + i]
<1> DEFINE t == SubSeq(s, d + 1, e)
<1>1. t \in Seq(A) /\ Len(t) = e - d
  OBVIOUS
<1>2. ASSUME NEW i \in 1 .. e - d PROVE t[i] = s[d + i]
  OBVIOUS
<1> QED
  BY <1>1, <1>2

\* A part of a sequence without repetitions has none.
LEMMA SubSeqDistinct ==
  ASSUME NEW A, NEW s \in Seq(A), NEW d \in Nat, NEW e \in Nat, d <= e, e <= Len(s),
         Distinct(s)
  PROVE  Distinct(SubSeq(s, d + 1, e))
<1> DEFINE t == SubSeq(s, d + 1, e)
<1>1. /\ t \in Seq(A) /\ Len(t) = e - d
      /\ \A i \in 1 .. e - d : t[i] = s[d + i]
  BY SubSeqIs
<1> HIDE DEF t
<1>2. ASSUME NEW i \in 1 .. Len(t), NEW j \in 1 .. Len(t), t[i] = t[j] PROVE i = j
  <2>1. d + i \in 1 .. Len(s) /\ d + j \in 1 .. Len(s) /\ s[d + i] = s[d + j]
    BY <1>1, <1>2
  <2>2. d + i = d + j
    BY <2>1 DEF Distinct
  <2> QED
    BY <2>2
<1> QED
  BY <1>2 DEF Distinct, t

\* The kernel puts the next bytes where they belong, and disturbs no others.
LEMMA TransferMoves ==
  ASSUME IoType, CallInv, BytesInv, PlaceInv, MoveInv, ~ Overlap, ~ aborted,
         seekable' = seekable,
         NEW o \in Ops, NEW n \in 0 .. FileMax, Transfer(o, n)
  PROVE  MoveInv'
<1> DEFINE at == KernelAt(o)
           to == FlattenSeq(locals_[o].iov_)
           d == locals_[o].done_sz_
           B == bytes[o]
           top == Ceiling(locals_[o].cond_, Len(bytes[o]))
           st == start[o]
<1>1. /\ Untouched /\ last' = last
      /\ stage[o] = "pending" /\ cqe[o] = NoCqe /\ cqe'[o] = n
      /\ n <= Len(to)
  BY TransferTyped
<1>2. PlaceAt(o) /\ last = {o}
  BY <1>1, PlaceOnly
<1>3. n \in Nat /\ d \in Nat /\ st \in Nat /\ Fetched(o) = 0 /\ Fetched(o)' = n
  BY <1>1, FetchedType, NoneFetched, IoAssumption, SMTT(30) DEF Fetched, IoType
<1>4. at = st + d /\ at \in Nat
  BY <1>2, <1>3 DEF PlaceAt, KernelAt, IoType
<1>5. /\ to = SubSeq(B, d + 1, top)
      /\ top \in Nat /\ d < top /\ top <= Len(B) /\ B \in Seq(Addresses)
  BY <1>1, PendingAsks
<1>6. Distinct(B)
  BY DEF BytesInv
<1>7. \A i \in 1 .. d : Content(B[i]) = file[st + i - 1]
  BY <1>2, <1>3 DEF MoveInv
<1>8. /\ bytes'[o] = B /\ start'[o] = st /\ locals_'[o].done_sz_ = d
  BY <1>1 DEF Untouched
<1>9. /\ \/ /\ kind[o] = "read"
            /\ mem' = [a \in {to[i] : i \in 1 .. n} \cup DOMAIN mem |->
                         IF a \in {to[i] : i \in 1 .. n}
                         THEN file[at + (CHOOSE i \in 1 .. n : to[i] = a) - 1]
                         ELSE mem[a]]
            /\ file' = file
         \/ /\ at + n <= FileMax
            /\ file' = [p \in Positions |->
                          IF p \in at .. at + n - 1 THEN Content(to[p - at + 1])
                          ELSE file[p]]
            /\ mem' = mem
  BY DEF Transfer
<1> HIDE DEF at, to, d, B, top, st
<1>10. /\ to \in Seq(Addresses) /\ Len(to) = top - d
       /\ \A i \in 1 .. top - d : to[i] = B[d + i]
  BY <1>3, <1>5, SubSeqIs
<1>11. Distinct(to)
  BY <1>3, <1>5, <1>6, SubSeqDistinct
<1> DEFINE after(a) == IF a \in DOMAIN mem' THEN mem'[a] ELSE a
<1>12. ASSUME \A i \in 1 .. d + n : after(B[i]) = file'[st + i - 1] PROVE MoveInv'
  <2>1. last' = {o}
    BY <1>1, <1>2
  <2>2. ASSUME NEW i \in 1 .. d + n
        PROVE  Content(bytes[o][i])' = file'[start'[o] + i - 1]
    BY <1>8, <1>12 DEF Content, B
  <2> QED
    BY <1>3, <1>8, <2>1, <2>2 DEF MoveInv
<1>13. ASSUME NEW i \in 1 .. d + n, i > d
       PROVE  i - d \in 1 .. n /\ B[i] = to[i - d] /\ at + (i - d) - 1 = st + i - 1
  <2> DEFINE j == i - d
  <2>1. j \in 1 .. n /\ j \in 1 .. top - d /\ d + j = i
    BY <1>1, <1>3, <1>5, <1>10, <1>13
  <2> HIDE DEF j
  <2>2. to[j] = B[i]
    BY <1>10, <2>1
  <2>3. at + j - 1 = st + i - 1
    BY <1>3, <1>4, <2>1
  <2> QED
    BY <2>1, <2>2, <2>3 DEF j
<1>14. CASE /\ mem' = [a \in {to[i] : i \in 1 .. n} \cup DOMAIN mem |->
                         IF a \in {to[i] : i \in 1 .. n}
                         THEN file[at + (CHOOSE i \in 1 .. n : to[i] = a) - 1]
                         ELSE mem[a]]
            /\ file' = file
  <2>1. /\ \A i \in 1 .. n : to[i] \in DOMAIN mem' /\ mem'[to[i]] = file[at + i - 1]
        /\ \A a : a \notin {to[i] : i \in 1 .. n} =>
             /\ a \in DOMAIN mem' <=> a \in DOMAIN mem
             /\ a \in DOMAIN mem => mem'[a] = mem[a]
    <3>1. Fills(mem', to, n, at, file, mem)
      BY <1>14 DEF Fills
    <3>2. Holds(mem', to, n, at, file, mem)
      BY <1>1, <1>3, <1>4, <1>10, <1>11, <3>1, ReadInto
    <3> QED
      BY <3>2 DEF Holds
  <2>2. ASSUME NEW i \in 1 .. d + n, i > d PROVE after(B[i]) = file'[st + i - 1]
    <3> DEFINE j == i - d
    <3>1. j \in 1 .. n /\ B[i] = to[j] /\ at + j - 1 = st + i - 1
      BY <1>13, <2>2
    <3> HIDE DEF j
    <3>2. to[j] \in DOMAIN mem' /\ mem'[to[j]] = file[at + j - 1]
      BY <2>1, <3>1
    <3> QED
      BY <1>14, <3>1, <3>2
  <2>3. ASSUME NEW i \in 1 .. d + n, ~ (i > d) PROVE after(B[i]) = file'[st + i - 1]
    <3>1. i \in 1 .. d /\ i \in 1 .. Len(B)
      BY <1>3, <1>5, <2>3
    <3>2. ASSUME NEW j \in 1 .. n PROVE to[j] # B[i]
      <4>1. /\ j \in 1 .. top - d /\ d + j \in 1 .. Len(B) /\ d + j # i
        BY <1>1, <1>3, <1>5, <1>10, <2>3
      <4>2. to[j] = B[d + j]
        BY <1>10, <4>1
      <4> QED
        BY <1>6, <3>1, <4>1, <4>2 DEF Distinct
    <3>3. after(B[i]) = Content(B[i])
      BY <2>1, <3>2 DEF Content
    <3> QED
      BY <1>7, <1>14, <3>1, <3>3
  <2> QED
    BY <1>12, <2>2, <2>3
<1>15. CASE /\ at + n <= FileMax
            /\ file' = [p \in Positions |->
                          IF p \in at .. at + n - 1 THEN Content(to[p - at + 1])
                          ELSE file[p]]
            /\ mem' = mem
  <2>0. \A a : after(a) = Content(a)
    BY <1>15 DEF Content
  <2>1. FileMax \in Nat
    BY IoAssumption
  <2>2. ASSUME NEW i \in 1 .. d + n, i > d PROVE after(B[i]) = file'[st + i - 1]
    <3> DEFINE j == i - d
               p == st + i - 1
    <3>1. j \in 1 .. n /\ B[i] = to[j] /\ at + j - 1 = p
      BY <1>13, <2>2
    <3> HIDE DEF j, p
    <3>2. p \in Positions /\ p \in at .. at + n - 1 /\ p - at + 1 = j
      BY <1>3, <1>4, <1>15, <2>1, <3>1 DEF Positions
    <3>3. file'[p] = Content(to[j])
      BY <1>15, <3>2
    <3> QED
      BY <2>0, <3>1, <3>3 DEF p
  <2>3. ASSUME NEW i \in 1 .. d + n, ~ (i > d) PROVE after(B[i]) = file'[st + i - 1]
    <3> DEFINE p == st + i - 1
    <3>1. i \in 1 .. d /\ p \in Positions /\ p \notin at .. at + n - 1
      BY <1>3, <1>4, <1>15, <2>1, <2>3 DEF Positions
    <3>2. Content(B[i]) = file[p]
      BY <1>7, <3>1
    <3> HIDE DEF p
    <3>3. file'[p] = file[p]
      BY <1>15, <3>1
    <3> QED
      BY <2>0, <3>2, <3>3 DEF p
  <2> QED
    BY <1>12, <2>2, <2>3
<1> QED
  BY <1>9, <1>14, <1>15

\* The inductive step of MoveInv.
LEMMA MoveInvStep ==
  ASSUME Temporary = {}, IoType, CallInv, BytesInv, PlaceInv, MoveInv, IoType',
         [Next]_vars
  PROVE  MoveInv'
<1> SUFFICES ASSUME ~ Overlap PROVE MoveInv'
  BY DEF MoveInv
<1>0. \A p \in Ops : locals_[p].done_sz_ \in Nat /\ Fetched(p) \in Nat
  BY FetchedType
<1>1. CASE Next
  <2>1. Steps /\ seekable' = seekable /\ ~ aborted
    BY <1>1, NextSteps
  <2>2. ASSUME NEW o \in Ops, NEW k \in Kinds, NEW s \in Shapes, NEW c \in Conds,
               CallStep(o, k, s, c)
        PROVE  MoveInv'
    <3> DEFINE l == locals_t(o, s, c)
    <3>1. Stops(o, l, Success(l.done_sz_)) \/ GoesOn(o, l) \/ Dies(o)
      BY <2>1, <2>2, CallTyped
    <3>2. l \in Locals /\ l.done_sz_ = 0
      BY CalledType
    <3>3. stage[o] = "new" /\ cqe' = cqe /\ last' = {o}
      BY <2>2, CallFacts
    <3>4. cqe'[o] = NoCqe /\ locals_[o].done_sz_ = 0
      BY <3>3, CallInvIs DEF Sound
    <3> HIDE DEF l
    <3>5. locals_'[o].done_sz_ = 0
      BY <3>1, <3>2, <3>4, FilledAsks DEF Stops, GoesOn, Dies
    <3>6. Fetched(o)' = 0
      BY <3>4, NoneFetched
    <3>7. \A i \in 1 .. locals_'[o].done_sz_ + Fetched(o)' : FALSE
      BY <3>5, <3>6
    <3> QED
      BY <3>3, <3>7 DEF MoveInv
  \* A step of o after which no more counts as moved than did.
  <2>3. ASSUME NEW o \in Ops, Rest(o),
               locals_'[o].done_sz_ <= locals_[o].done_sz_ + Fetched(o)
        PROVE  MoveInv'
    <3>1. /\ stage[o] = "pending" /\ cqe'[o] = NoCqe /\ bytes' = bytes
          /\ start' = start /\ last' = last /\ mem' = mem /\ file' = file
      BY <2>3, RestTyped
    <3>2. last = {o}
      BY <3>1, PlaceOnly
    <3>3. Fetched(o)' = 0
      BY <3>1, NoneFetched
    <3>4. locals_'[o].done_sz_ \in Nat
      BY DEF IoType, Locals
    <3>5. locals_'[o].done_sz_ + Fetched(o)' <= locals_[o].done_sz_ + Fetched(o)
      BY <2>3, <3>3, <3>4
    <3> QED
      BY <3>1, <3>2, <3>5, SameMove
  <2>4. ASSUME NEW o \in Ops, EndStep(o) PROVE MoveInv'
    <3>1. Rest(o) /\ locals_'[o] = locals_[o]
      BY <2>1, <2>4, EndTyped DEF Stops
    <3>2. locals_'[o].done_sz_ <= locals_[o].done_sz_ + Fetched(o)
      BY <1>0, <3>1
    <3> QED
      BY <2>3, <3>1, <3>2
  <2>5. ASSUME NEW o \in Ops, NEW b, MoveStep(o, b) PROVE MoveInv'
    <3> DEFINE l == MovedOn(locals_[o], cqe[o], b)
    <3>1. /\ Rest(o) /\ cqe[o] \in Nat
          /\ l \in Locals /\ l.done_sz_ = locals_[o].done_sz_ + cqe[o]
          /\ Stops(o, l, Success(l.done_sz_)) \/ GoesOn(o, l) \/ Dies(o)
      BY <2>1, <2>5, MoveTyped
    <3> HIDE DEF l
    <3>2. Fetched(o) = cqe[o]
      BY <3>1 DEF Fetched
    <3>3. \/ locals_'[o].done_sz_ = locals_[o].done_sz_ + cqe[o]
          \/ locals_'[o].done_sz_ = locals_[o].done_sz_
      BY <3>1, FilledAsks DEF Stops, GoesOn, Dies
    <3>4. locals_'[o].done_sz_ <= locals_[o].done_sz_ + Fetched(o)
      BY <1>0, <3>1, <3>2, <3>3
    <3> QED
      BY <2>3, <3>1, <3>4
  <2>6. ASSUME NEW o \in Ops, NEW n \in 0 .. FileMax, Transfer(o, n) PROVE MoveInv'
    BY <2>1, <2>6, TransferMoves
  <2>7. ASSUME NEW o \in Ops, Fail(o) PROVE MoveInv'
    <3>1. /\ Untouched /\ last' = last /\ stage[o] = "pending"
          /\ cqe[o] = NoCqe /\ cqe'[o] = -1 /\ file' = file /\ mem' = mem
      BY <2>1, <2>7, FailTyped
    <3>2. last = {o}
      BY <3>1, PlaceOnly
    <3>3. Fetched(o)' = 0 /\ Fetched(o) = 0
      BY <3>1, NoneFetched DEF Fetched
    <3>4. locals_'[o].done_sz_ + Fetched(o)' <= locals_[o].done_sz_ + Fetched(o)
      BY <1>0, <3>1, <3>3 DEF Untouched
    <3> QED
      BY <3>1, <3>2, <3>4, SameMove DEF Untouched
  <2>8. ASSUME NEW q \in Seeks, seek(q) PROVE MoveInv'
    <3>1. last' = {}
      BY <2>1, <2>8, SeekTyped, MovedBytesType
    <3> QED
      BY <3>1 DEF MoveInv
  <2> QED
    BY <2>1, <2>2, <2>4, <2>5, <2>6, <2>7, <2>8 DEF Steps
<1>2. CASE UNCHANGED vars
  <2>1. /\ locals_' = locals_ /\ cqe' = cqe /\ bytes' = bytes /\ start' = start
        /\ last' = last /\ mem' = mem /\ file' = file
    BY <1>2 DEF vars, devVars, opVars, histVars
  <2> QED
    BY <2>1 DEF MoveInv, Fetched, Content
<1> QED
  BY <1>1, <1>2

\* MoveInv holds always, if no buffer sequence dies before its call.
LEMMA MoveInvariant ==
  ASSUME Temporary = {} PROVE Spec => []MoveInv
<1>1. Init => MoveInv
  BY DEF Init, MoveInv
<1>2. (IoType /\ CallInv) /\ BytesInv /\ PlaceInv /\ MoveInv /\ (IoType /\ CallInv)'
        /\ [Next]_vars => MoveInv'
  BY MoveInvStep
<1> QED
  BY <1>1, <1>2, IoInvariant, BytesInvariant, PlaceInvariant, PTL DEF Spec

\* With one call at a time, and a buffer sequence that outlives it, the bytes a
\* call counts are those of the device from where it began.
THEOREM TransfersAreContiguous ==
  ASSUME Temporary = {} PROVE Spec => []TransferIsContiguous
<1>1. (IoType /\ CallInv) /\ MoveInv => TransferIsContiguous
  <2> SUFFICES ASSUME IoType, MoveInv, ~ Overlap, NEW o \in last,
                      NEW i \in 1 .. locals_[o].done_sz_
               PROVE  Content(bytes[o][i]) = file[start[o] + i - 1]
    BY DEF TransferIsContiguous
  <2>1. o \in Ops
    BY DEF IoType
  <2>2. locals_[o].done_sz_ \in Nat /\ Fetched(o) \in Nat
    BY <2>1, FetchedType
  <2>3. i \in 1 .. locals_[o].done_sz_ + Fetched(o)
    BY <2>2
  <2> QED
    BY <2>3 DEF MoveInv
<1> QED
  BY <1>1, IoInvariant, MoveInvariant, PTL
=============================================================================
