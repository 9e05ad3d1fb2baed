---------------------------- MODULE SumsAndLoops ----------------------------
(***************************************************************************)
(* What needs induction on a number, done once.                            *)
(*                                                                         *)
(* The sum of the weights of a sequence's elements, and what happens to it *)
(* when the sequence grows, shrinks or has its first element replaced.  A  *)
(* weight is a function to the naturals, W \in [S -> Nat], so that the     *)
(* provers can be given one.                                               *)
(*                                                                         *)
(* Loops: that a recursive function of the rounds exists, and that what    *)
(* each round keeps holds after the last.                                  *)
(***************************************************************************)
EXTENDS Integers, Sequences, SequenceTheorems, WellFoundedInduction, TLAPS

\* The weights of q's elements, added from the front.
Total(W, q) ==
  LET upTo[n \in 0 .. Len(q)] == IF n = 0 THEN 0 ELSE upTo[n - 1] + W[q[n]]
  IN upTo[Len(q)]

\* No element weighs anything.
Weightless(W, q) == \A i \in 1 .. Len(q) : W[q[i]] = 0

\* g holds the sums of q's prefixes.
Sums(g, W, q) ==
  /\ g \in [0 .. Len(q) -> Nat]
  /\ g[0] = 0
  /\ \A i \in 1 .. Len(q) : g[i] = g[i - 1] + W[q[i]]

-----------------------------------------------------------------------------
(* Induction by the least counterexample.                                  *)

\* A nonempty set of naturals has a least element.
LEMMA LeastNatural ==
  ASSUME NEW N \in SUBSET Nat, N # {}
  PROVE  \E x \in N : \A y \in N : x <= y
<1> DEFINE R == OpToRel(<, Nat)
<1>1. \E x \in N : \A y \in N : <<y, x>> \notin R
  BY NatLessThanWellFounded, WFMin
<1>2. PICK x \in N : \A y \in N : <<y, x>> \notin R
  BY <1>1
<1>3. ASSUME NEW y \in N PROVE x <= y
  <2>1. R = {ss \in Nat \X Nat : ss[1] < ss[2]}
    BY Zenon DEF OpToRel
  <2>2. x \in Nat /\ y \in Nat /\ <<y, x>> \notin R
    BY <1>2
  <2> HIDE DEF R
  <2> QED BY <2>1, <2>2
<1> QED BY <1>3

\* A set of naturals that holds 0 and the successor of each of its members
\* up to n holds everything up to n.
LEMMA UpTo ==
  ASSUME NEW n \in Nat, NEW P \in SUBSET Nat, 0 \in P,
         \A i \in 1 .. n : i - 1 \in P => i \in P
  PROVE  \A i \in 0 .. n : i \in P
<1> DEFINE Bad == {i \in 0 .. n : i \notin P}
<1> SUFFICES ASSUME Bad # {} PROVE FALSE
  OBVIOUS
<1>0. Bad \in SUBSET Nat
  OBVIOUS
<1>1. PICK i \in Bad : \A j \in Bad : i <= j
  <2> HIDE DEF Bad
  <2> QED BY <1>0, LeastNatural
<1>2. i \in 1 .. n
  OBVIOUS
<1>3. i - 1 \in P
  BY <1>1, <1>2
<1> QED BY <1>2, <1>3

\* A sequence has prefix sums.
LEMMA SumsExist ==
  ASSUME NEW S, NEW W \in [S -> Nat], NEW q \in Seq(S)
  PROVE  \E g : Sums(g, W, q)
<1> DEFINE Ok(g, n) == /\ g \in [0 .. n -> Nat] /\ g[0] = 0
                       /\ \A i \in 1 .. n : g[i] = g[i - 1] + W[q[i]]
           P == {n \in 0 .. Len(q) : \E g : Ok(g, n)}
<1>0. Len(q) \in Nat /\ \A i \in 1 .. Len(q) : q[i] \in S
  OBVIOUS
<1>1. 0 \in P
  <2>1. Ok([i \in 0 .. 0 |-> 0], 0)
    OBVIOUS
  <2>2. \E g : Ok(g, 0)
    BY <2>1
  <2>3. 0 \in 0 .. Len(q)
    BY <1>0
  <2> HIDE DEF Ok
  <2> QED BY <2>2, <2>3
<1>2. ASSUME NEW n \in 1 .. Len(q), n - 1 \in P PROVE n \in P
  <2>1. PICK g : Ok(g, n - 1)
    BY <1>2
  <2> DEFINE h == [i \in 0 .. n |-> IF i = n THEN g[n - 1] + W[q[n]] ELSE g[i]]
  <2>2. W[q[n]] \in Nat /\ g[n - 1] \in Nat
    BY <2>1, <1>0
  <2>3. h \in [0 .. n -> Nat] /\ h[0] = 0
    BY <2>1, <2>2
  <2>4. ASSUME NEW i \in 1 .. n PROVE h[i] = h[i - 1] + W[q[i]]
    BY <2>1
  <2>5. Ok(h, n)
    <3> HIDE DEF h
    <3> QED BY <2>3, <2>4
  <2>6. n \in 0 .. Len(q)
    BY <1>0
  <2> HIDE DEF Ok, h
  <2> QED BY <2>5, <2>6
<1>3. Len(q) \in P
  <2> HIDE DEF P
  <2>1. P \in SUBSET Nat
    BY <1>0 DEF P
  <2>2. \A i \in 0 .. Len(q) : i \in P
    BY <1>0, <1>1, <1>2, <2>1, UpTo
  <2> QED BY <1>0, <2>2
<1> QED BY <1>3 DEF Sums

\* Prefix sums are unique.
LEMMA SumsUnique ==
  ASSUME NEW S, NEW W \in [S -> Nat], NEW q \in Seq(S),
         NEW g, Sums(g, W, q), NEW h, Sums(h, W, q)
  PROVE  g[Len(q)] = h[Len(q)]
<1> DEFINE P == {i \in 0 .. Len(q) : g[i] = h[i]}
<1>1. 0 \in P
  BY DEF Sums
<1>2. ASSUME NEW i \in 1 .. Len(q), i - 1 \in P PROVE i \in P
  BY <1>2 DEF Sums
<1>3. \A i \in 0 .. Len(q) : i \in P
  <2>1. P \in SUBSET Nat /\ Len(q) \in Nat
    OBVIOUS
  <2> HIDE DEF P
  <2> QED BY <1>1, <1>2, <2>1, UpTo
<1> QED BY <1>3

\* The sum is the last of the prefix sums.
LEMMA SumIsLast ==
  ASSUME NEW S, NEW W \in [S -> Nat], NEW q \in Seq(S), NEW g, Sums(g, W, q)
  PROVE  Total(W, q) = g[Len(q)] /\ Total(W, q) \in Nat
<1> DEFINE Is(f) == f = [n \in 0 .. Len(q) |-> IF n = 0 THEN 0 ELSE f[n - 1] + W[q[n]]]
           f == CHOOSE f : Is(f)
<1>1. Is(g)
  <2>1. ASSUME NEW n \in 0 .. Len(q)
        PROVE  g[n] = IF n = 0 THEN 0 ELSE g[n - 1] + W[q[n]]
    BY DEF Sums
  <2>2. g = [n \in 0 .. Len(q) |-> g[n]]
    BY DEF Sums
  <2> QED BY <2>1, <2>2
<1>2. Is(f)
  BY <1>1
<1>3. Total(W, q) = f[Len(q)]
  BY DEF Total
<1> DEFINE P == {i \in 0 .. Len(q) : f[i] = g[i]}
<1>4. 0 \in P
  <2>1. f[0] = 0 /\ Len(q) \in Nat
    <3> HIDE DEF f
    <3> QED BY <1>2
  <2> HIDE DEF f
  <2> QED BY <2>1 DEF Sums
<1>5. ASSUME NEW i \in 1 .. Len(q), i - 1 \in P PROVE i \in P
  <2>1. f[i] = f[i - 1] + W[q[i]]
    <3>1. i \in 0 .. Len(q) /\ i # 0
      OBVIOUS
    <3>2. f = [n \in 0 .. Len(q) |-> IF n = 0 THEN 0 ELSE f[n - 1] + W[q[n]]]
      BY <1>2
    <3> HIDE DEF f
    <3> QED BY <3>1, <3>2
  <2> HIDE DEF f
  <2> QED BY <1>5, <2>1 DEF Sums
<1>6. f[Len(q)] = g[Len(q)]
  <2>1. P \in SUBSET Nat /\ Len(q) \in Nat
    OBVIOUS
  <2>2. \A i \in 0 .. Len(q) : i \in P
    <3> HIDE DEF P
    <3> QED BY <1>4, <1>5, <2>1, UpTo
  <2> HIDE DEF f
  <2> QED BY <2>2, <2>1
<1>7. g[Len(q)] \in Nat
  BY DEF Sums
<1> QED BY <1>3, <1>6, <1>7

\* The facts about prefix sums that the proofs below use.
LEMMA SumsFacts ==
  ASSUME NEW S, NEW W \in [S -> Nat], NEW q \in Seq(S), NEW g, Sums(g, W, q)
  PROVE  /\ Len(q) \in Nat
         /\ g[0] = 0
         /\ \A i \in 0 .. Len(q) : g[i] \in Nat
         /\ \A i \in 1 .. Len(q) :
              q[i] \in S /\ W[q[i]] \in Nat /\ g[i] = g[i - 1] + W[q[i]]
<1>1. Len(q) \in Nat /\ \A i \in 1 .. Len(q) : q[i] \in S
  OBVIOUS
<1>2. \A i \in 1 .. Len(q) : W[q[i]] \in Nat
  BY <1>1
<1> QED BY <1>1, <1>2 DEF Sums

\* g holds the sums of q's prefixes, with the facts about them.
PrefixSums(g, W, q) ==
  /\ Sums(g, W, q)
  /\ g[0] = 0
  /\ \A i \in 0 .. Len(q) : g[i] \in Nat
  /\ \A i \in 1 .. Len(q) : W[q[i]] \in Nat /\ g[i] = g[i - 1] + W[q[i]]

LEMMA PrefixSumsExist ==
  ASSUME NEW S, NEW W \in [S -> Nat], NEW q \in Seq(S)
  PROVE  \E g : PrefixSums(g, W, q)
<1>1. PICK g : Sums(g, W, q)
  BY SumsExist
<1>2. PrefixSums(g, W, q)
  BY <1>1, SumsFacts DEF PrefixSums
<1> QED BY <1>2

-----------------------------------------------------------------------------
(* What an operation on the sequence does to the sum.                      *)

LEMMA SumType ==
  ASSUME NEW S, NEW W \in [S -> Nat], NEW q \in Seq(S)
  PROVE  Total(W, q) \in Nat
BY SumsExist, SumIsLast

LEMMA SumEmpty ==
  ASSUME NEW S, NEW W \in [S -> Nat]
  PROVE  Total(W, <<>>) = 0
<1>1. <<>> \in Seq(S) /\ Len(<<>>) = 0
  OBVIOUS
<1>2. PICK g : Sums(g, W, <<>>)
  BY <1>1, SumsExist
<1>3. Total(W, <<>>) = g[0]
  BY <1>1, <1>2, SumIsLast
<1> QED BY <1>2, <1>3 DEF Sums

\* The sum of a sequence followed by one whose elements weigh nothing.
LEMMA SumConcatZero ==
  ASSUME NEW S, NEW W \in [S -> Nat], NEW q \in Seq(S), NEW z \in Seq(S),
         Weightless(W, z)
  PROVE  Total(W, q \o z) = Total(W, q)
<1>1. PICK g : PrefixSums(g, W, q)
  BY PrefixSumsExist
<1> DEFINE t == q \o z
           h == [i \in 0 .. Len(t) |-> IF i <= Len(q) THEN g[i] ELSE g[Len(q)]]
<1>2. t \in Seq(S) /\ Len(t) = Len(q) + Len(z) /\ Len(q) \in Nat /\ Len(z) \in Nat
      /\ \A i \in 1 .. Len(q) + Len(z) : t[i] = IF i <= Len(q) THEN q[i] ELSE z[i - Len(q)]
  BY ConcatProperties
<1> HIDE DEF t
<1>3. /\ g[0] = 0
      /\ \A i \in 0 .. Len(q) : g[i] \in Nat
      /\ \A i \in 1 .. Len(q) : W[q[i]] \in Nat /\ g[i] = g[i - 1] + W[q[i]]
  BY <1>1 DEF PrefixSums
<1>4. h \in [0 .. Len(t) -> Nat] /\ h[0] = 0 /\ h[Len(t)] = g[Len(q)]
  BY <1>2, <1>3
<1>5. ASSUME NEW i \in 1 .. Len(t) PROVE h[i] = h[i - 1] + W[t[i]]
  <2>0. i \in Int /\ i <= Len(q) + Len(z) /\ i >= 1 /\ i - 1 \in 0 .. Len(t)
    BY <1>2
  <2>1. CASE i <= Len(q)
    <3>0. i \in 1 .. Len(q) /\ i \in 1 .. Len(q) + Len(z)
      BY <1>2, <2>0, <2>1
    <3>1. g[i] = g[i - 1] + W[q[i]] /\ t[i] = q[i]
      <4> HIDE DEF h
      <4>1. g[i] = g[i - 1] + W[q[i]]
        BY <1>3, <3>0
      <4>2. t[i] = q[i]
        BY <1>2, <2>1, <3>0
      <4> QED BY <4>1, <4>2
    <3>2. h[i] = g[i] /\ h[i - 1] = g[i - 1]
      BY <1>2, <2>0, <2>1
    <3> QED BY <3>1, <3>2
  <2>2. CASE i > Len(q)
    <3>1. t[i] = z[i - Len(q)] /\ i - Len(q) \in 1 .. Len(z)
      BY <1>2, <2>0, <2>2
    <3>2. W[t[i]] = 0
      BY <3>1 DEF Weightless
    <3>3. h[i] = g[Len(q)]
      BY <1>2, <2>0, <2>2
    <3>4. h[i - 1] = g[Len(q)]
      <4>1. CASE i - 1 = Len(q)
        BY <4>1, <1>2, <2>0
      <4>2. CASE i - 1 > Len(q)
        BY <4>2, <1>2, <2>0
      <4> QED BY <4>1, <4>2, <1>2, <2>0, <2>2
    <3>5. g[Len(q)] \in Nat
      BY <1>2, <1>3
    <3> HIDE DEF h
    <3> QED BY <3>2, <3>3, <3>4, <3>5
  <2> QED BY <2>0, <2>1, <2>2, <1>2
<1> HIDE DEF h
<1>6. Sums(h, W, t)
  BY <1>4, <1>5 DEF Sums
<1>7. Sums(g, W, q)
  BY <1>1 DEF PrefixSums
<1>8. Total(W, t) = h[Len(t)] /\ Total(W, q) = g[Len(q)]
  BY <1>7, <1>2, <1>6, SumIsLast
<1> QED BY <1>4, <1>8 DEF t

LEMMA SumAppend ==
  ASSUME NEW S, NEW W \in [S -> Nat], NEW q \in Seq(S), NEW e \in S
  PROVE  Total(W, Append(q, e)) = Total(W, q) + W[e]
<1>1. PICK g : Sums(g, W, q)
  BY SumsExist
<1> DEFINE t == Append(q, e)
           h == [i \in 0 .. Len(t) |-> IF i <= Len(q) THEN g[i] ELSE g[Len(q)] + W[e]]
<1>2. t \in Seq(S) /\ Len(t) = Len(q) + 1 /\ Len(q) \in Nat /\ t[Len(q) + 1] = e
      /\ \A i \in 1 .. Len(q) : t[i] = q[i]
  BY AppendProperties
<1>3. /\ g[0] = 0 /\ W[e] \in Nat
      /\ \A i \in 0 .. Len(q) : g[i] \in Nat
      /\ \A i \in 1 .. Len(q) : W[q[i]] \in Nat /\ g[i] = g[i - 1] + W[q[i]]
  BY <1>1, SumsFacts
<1> HIDE DEF t
<1>4. h \in [0 .. Len(t) -> Nat] /\ h[0] = 0 /\ h[Len(t)] = g[Len(q)] + W[e]
  BY <1>2, <1>3
<1>5. ASSUME NEW i \in 1 .. Len(t) PROVE h[i] = h[i - 1] + W[t[i]]
  <2>1. CASE i <= Len(q)
    <3>1. g[i] = g[i - 1] + W[q[i]] /\ t[i] = q[i]
      BY <1>2, <1>3, <2>1
    <3>2. h[i] = g[i] /\ h[i - 1] = g[i - 1]
      BY <1>2, <2>1
    <3> QED BY <3>1, <3>2
  <2>2. CASE i = Len(q) + 1
    <3>1. h[i] = g[Len(q)] + W[e] /\ h[i - 1] = g[Len(q)] /\ t[i] = e
      BY <1>2, <2>2
    <3> QED BY <3>1
  <2> QED BY <2>1, <2>2, <1>2
<1> HIDE DEF h
<1>6. Sums(h, W, t)
  BY <1>4, <1>5 DEF Sums
<1>7. Total(W, t) = h[Len(t)] /\ Total(W, q) = g[Len(q)]
  BY <1>1, <1>2, <1>6, SumIsLast
<1> QED BY <1>4, <1>7 DEF t

LEMMA SumCons ==
  ASSUME NEW S, NEW W \in [S -> Nat], NEW q \in Seq(S), NEW e \in S
  PROVE  Total(W, <<e>> \o q) = W[e] + Total(W, q)
<1>1. PICK g : Sums(g, W, q)
  BY SumsExist
<1> DEFINE t == <<e>> \o q
           h == [i \in 0 .. Len(t) |-> IF i = 0 THEN 0 ELSE W[e] + g[i - 1]]
<1>2. t \in Seq(S) /\ Len(t) = Len(q) + 1 /\ Len(q) \in Nat
      /\ \A i \in 1 .. Len(q) + 1 : t[i] = IF i = 1 THEN e ELSE q[i - 1]
  <2>1. <<e>> \in Seq(S) /\ Len(<<e>>) = 1 /\ <<e>>[1] = e
    OBVIOUS
  <2> QED BY <2>1, ConcatProperties
<1>3. /\ g[0] = 0 /\ W[e] \in Nat
      /\ \A i \in 0 .. Len(q) : g[i] \in Nat
      /\ \A i \in 1 .. Len(q) : W[q[i]] \in Nat /\ g[i] = g[i - 1] + W[q[i]]
  BY <1>1, SumsFacts
<1> HIDE DEF t
<1>4. h \in [0 .. Len(t) -> Nat] /\ h[0] = 0 /\ h[Len(t)] = W[e] + g[Len(q)]
  <2>1. ASSUME NEW i \in 0 .. Len(t), i # 0 PROVE W[e] + g[i - 1] \in Nat
    <3>1. i - 1 \in 0 .. Len(q)
      BY <1>2, <2>1
    <3> QED BY <3>1, <1>3
  <2>2. h[0] = 0 /\ h[Len(t)] = W[e] + g[Len(q)]
    BY <1>2
  <2> QED BY <2>1, <2>2
<1>5. ASSUME NEW i \in 1 .. Len(t) PROVE h[i] = h[i - 1] + W[t[i]]
  <2>1. CASE i = 1
    <3>1. h[1] = W[e] + g[0] /\ h[0] = 0 /\ t[1] = e
      BY <1>2
    <3> HIDE DEF h
    <3> QED BY <2>1, <3>1, <1>3
  <2>2. CASE i # 1
    <3>0. i - 1 \in 1 .. Len(q) /\ i - 1 \in 0 .. Len(t) /\ i - 1 # 0 /\ i \in 1 .. Len(q) + 1
      BY <1>2, <2>2
    <3>1. t[i] = q[i - 1]
      BY <1>2, <2>2, <3>0
    <3>2. g[i - 1] = g[(i - 1) - 1] + W[q[i - 1]] /\ g[(i - 1) - 1] \in Nat
          /\ W[q[i - 1]] \in Nat
      <4>1. (i - 1) - 1 \in 0 .. Len(q)
        BY <3>0
      <4> QED BY <1>3, <3>0, <4>1
    <3>3. h[i] = W[e] + g[i - 1] /\ h[i - 1] = W[e] + g[(i - 1) - 1]
      BY <3>0
    <3> HIDE DEF h
    <3> QED BY <1>3, <3>1, <3>2, <3>3
  <2> QED BY <2>1, <2>2
<1> HIDE DEF h
<1>6. Sums(h, W, t)
  BY <1>4, <1>5 DEF Sums
<1>7. Total(W, t) = h[Len(t)] /\ Total(W, q) = g[Len(q)]
  BY <1>1, <1>2, <1>6, SumIsLast
<1> QED BY <1>4, <1>7 DEF t

LEMMA SumHeadTail ==
  ASSUME NEW S, NEW W \in [S -> Nat], NEW q \in Seq(S), q # <<>>
  PROVE  Total(W, q) = W[Head(q)] + Total(W, Tail(q))
<1>1. Head(q) \in S /\ Tail(q) \in Seq(S)
  BY HeadTailProperties
<1>2. q = <<Head(q)>> \o Tail(q)
  OBVIOUS
<1> QED BY <1>1, <1>2, SumCons

\* Replacing the first element exchanges its weight.
LEMMA SumReplaceHead ==
  ASSUME NEW S, NEW W \in [S -> Nat], NEW q \in Seq(S), q # <<>>, NEW e \in S
  PROVE  Total(W, [q EXCEPT ![1] = e]) + W[q[1]] = Total(W, q) + W[e]
<1> DEFINE t == [q EXCEPT ![1] = e]
<1>1. t \in Seq(S) /\ t # <<>> /\ Head(t) = e /\ Tail(t) = Tail(q) /\ Head(q) = q[1]
  OBVIOUS
<1>2. Total(W, t) = W[e] + Total(W, Tail(q))
  <2> HIDE DEF t
  <2>1. Total(W, t) = W[Head(t)] + Total(W, Tail(t))
    BY <1>1, SumHeadTail
  <2> QED BY <1>1, <2>1
<1>3. Total(W, q) = W[q[1]] + Total(W, Tail(q))
  BY <1>1, SumHeadTail
<1>4. Total(W, Tail(q)) \in Nat /\ W[e] \in Nat /\ W[q[1]] \in Nat
  BY <1>1, SumType, HeadTailProperties
<1> QED BY <1>2, <1>3, <1>4

\* No element weighs more than all of them.
LEMMA SumBounds ==
  ASSUME NEW S, NEW W \in [S -> Nat], NEW q \in Seq(S), NEW k \in 1 .. Len(q)
  PROVE  W[q[k]] <= Total(W, q)
<1>1. PICK g : Sums(g, W, q)
  BY SumsExist
<1>2. Total(W, q) = g[Len(q)]
  BY <1>1, SumIsLast
<1>3. /\ Len(q) \in Nat
      /\ \A i \in 0 .. Len(q) : g[i] \in Nat
      /\ \A i \in 1 .. Len(q) : W[q[i]] \in Nat /\ g[i] = g[i - 1] + W[q[i]]
  BY <1>1, SumsFacts
<1> DEFINE P == {n \in 0 .. Len(q) - k : g[k] <= g[k + n]}
<1>4. 0 \in P
  BY <1>3
<1>5. ASSUME NEW n \in 1 .. Len(q) - k, n - 1 \in P PROVE n \in P
  <2>1. k + n \in 1 .. Len(q) /\ k + (n - 1) = (k + n) - 1 /\ (k + n) - 1 \in 0 .. Len(q)
    BY <1>3
  <2>2. g[k + n] = g[(k + n) - 1] + W[q[k + n]] /\ W[q[k + n]] \in Nat
        /\ g[(k + n) - 1] \in Nat
    BY <1>3, <2>1
  <2>3. g[k] <= g[(k + n) - 1] /\ g[k] \in Nat
    BY <1>3, <1>5, <2>1
  <2> QED BY <2>2, <2>3
<1>6. Len(q) - k \in P
  <2>1. P \in SUBSET Nat /\ Len(q) - k \in Nat
    BY <1>3
  <2> HIDE DEF P
  <2>2. \A n \in 0 .. Len(q) - k : n \in P
    BY <1>4, <1>5, <2>1, UpTo
  <2> QED BY <2>1, <2>2
<1>7. g[k] <= g[Len(q)]
  <2>1. k + (Len(q) - k) = Len(q)
    BY <1>3
  <2> QED BY <1>6, <2>1
<1>8. g[k] = g[k - 1] + W[q[k]] /\ g[k - 1] \in Nat /\ W[q[k]] \in Nat /\ g[Len(q)] \in Nat
  <2>1. k - 1 \in 0 .. Len(q)
    BY <1>3
  <2> QED BY <1>3, <2>1
<1> QED BY <1>2, <1>7, <1>8

\* A sum is 0 only if every weight is, and then it is.
LEMMA SumZero ==
  ASSUME NEW S, NEW W \in [S -> Nat], NEW q \in Seq(S)
  PROVE  Total(W, q) = 0 <=> Weightless(W, q)
<1>1. ASSUME Total(W, q) = 0, NEW i \in 1 .. Len(q) PROVE W[q[i]] = 0
  <2>1. W[q[i]] \in Nat /\ W[q[i]] <= Total(W, q)
    BY SumBounds
  <2> QED BY <1>1, <2>1
<1>2. ASSUME Weightless(W, q) PROVE Total(W, q) = 0
  <2>1. <<>> \in Seq(S) /\ <<>> \o q = q
    OBVIOUS
  <2>2. Total(W, <<>> \o q) = Total(W, <<>>)
    BY <1>2, <2>1, SumConcatZero
  <2> QED BY <2>1, <2>2, SumEmpty
<1> QED BY <1>1, <1>2 DEF Weightless
\* The sum of a sequence followed by another.
LEMMA SumConcat ==
  ASSUME NEW S, NEW W \in [S -> Nat], NEW q \in Seq(S), NEW z \in Seq(S)
  PROVE  Total(W, q \o z) = Total(W, q) + Total(W, z)
<1>1. PICK g : Sums(g, W, q)
  BY SumsExist
<1>2. PICK f : Sums(f, W, z)
  BY SumsExist
<1> DEFINE t == q \o z
           h == [i \in 0 .. Len(t) |-> IF i <= Len(q) THEN g[i] ELSE g[Len(q)] + f[i - Len(q)]]
<1>3. t \in Seq(S) /\ Len(t) = Len(q) + Len(z) /\ Len(q) \in Nat /\ Len(z) \in Nat
      /\ \A i \in 1 .. Len(q) + Len(z) : t[i] = IF i <= Len(q) THEN q[i] ELSE z[i - Len(q)]
  BY ConcatProperties
<1> HIDE DEF t
<1>4. /\ g[0] = 0
      /\ \A i \in 0 .. Len(q) : g[i] \in Nat
      /\ \A i \in 1 .. Len(q) : W[q[i]] \in Nat /\ g[i] = g[i - 1] + W[q[i]]
  BY <1>1, SumsFacts
<1>5. /\ f[0] = 0
      /\ \A i \in 0 .. Len(z) : f[i] \in Nat
      /\ \A i \in 1 .. Len(z) : W[z[i]] \in Nat /\ f[i] = f[i - 1] + W[z[i]]
  BY <1>2, SumsFacts
<1>6. h \in [0 .. Len(t) -> Nat] /\ h[0] = 0 /\ h[Len(t)] = g[Len(q)] + f[Len(z)]
  <2>1. ASSUME NEW i \in 0 .. Len(t)
        PROVE  (IF i <= Len(q) THEN g[i] ELSE g[Len(q)] + f[i - Len(q)]) \in Nat
    <3>1. CASE i <= Len(q)
      BY <1>3, <1>4, <3>1
    <3>2. CASE i > Len(q)
      <4>1. i - Len(q) \in 0 .. Len(z) /\ Len(q) \in 0 .. Len(q)
        BY <1>3, <3>2
      <4>2. f[i - Len(q)] \in Nat /\ g[Len(q)] \in Nat
        BY <1>4, <1>5, <4>1
      <4>3. (IF i <= Len(q) THEN g[i] ELSE g[Len(q)] + f[i - Len(q)]) = g[Len(q)] + f[i - Len(q)]
        BY <1>3, <3>2
      <4>4. PICK x, y : x = g[Len(q)] /\ y = f[i - Len(q)]
        OBVIOUS
      <4>5. x + y \in Nat
        BY <4>2, <4>4
      <4> QED BY <4>3, <4>4, <4>5
    <3> QED BY <1>3, <3>1, <3>2
  <2>2. h[0] = 0
    BY <1>3, <1>4
  <2>3. h[Len(t)] = g[Len(q)] + f[Len(z)]
    <3>1. CASE Len(z) = 0
      <4>1. h[Len(t)] = g[Len(q)] /\ g[Len(q)] \in Nat /\ f[Len(z)] = 0
        BY <1>3, <1>4, <1>5, <3>1
      <4> HIDE DEF h
      <4> QED BY <4>1
    <3>2. CASE Len(z) # 0
      BY <1>3, <3>2
    <3> QED BY <3>1, <3>2
  <2> QED BY <2>1, <2>2, <2>3
<1>7. ASSUME NEW i \in 1 .. Len(t) PROVE h[i] = h[i - 1] + W[t[i]]
  <2>0. i \in Int /\ i <= Len(q) + Len(z) /\ i >= 1 /\ i - 1 \in 0 .. Len(t)
    BY <1>3
  <2>1. CASE i <= Len(q)
    <3>0. i \in 1 .. Len(q) /\ i \in 1 .. Len(q) + Len(z)
      BY <1>3, <2>0, <2>1
    <3>1. g[i] = g[i - 1] + W[q[i]] /\ t[i] = q[i]
      <4> HIDE DEF h
      <4> QED BY <1>3, <1>4, <2>1, <3>0
    <3>2. h[i] = g[i] /\ h[i - 1] = g[i - 1]
      BY <1>3, <2>0, <2>1
    <3> QED BY <3>1, <3>2
  <2>2. CASE i > Len(q)
    <3>0. PICK j : j = i - Len(q)
      OBVIOUS
    <3>1. t[i] = z[j] /\ j \in 1 .. Len(z) /\ j - 1 \in 0 .. Len(z) /\ Len(q) \in 0 .. Len(q)
      BY <1>3, <2>0, <2>2, <3>0
    <3>2. h[i] = g[Len(q)] + f[j]
      BY <1>3, <2>0, <2>2, <3>0
    <3>3. h[i - 1] = g[Len(q)] + f[j - 1]
      <4>1. CASE i - 1 = Len(q)
        <5>1. h[i - 1] = g[Len(q)] /\ f[j - 1] = 0 /\ g[Len(q)] \in Nat
          BY <1>3, <1>4, <1>5, <2>0, <3>0, <4>1
        <5> HIDE DEF h
        <5> QED BY <5>1
      <4>2. CASE i - 1 > Len(q)
        <5>1. j - 1 = (i - 1) - Len(q)
          BY <1>3, <2>0, <3>0
        <5> QED BY <1>3, <2>0, <4>2, <5>1
      <4>3. i - 1 = Len(q) \/ i - 1 > Len(q)
        <5> HIDE DEF h
        <5>1. PICK m : m = Len(q) /\ m \in Nat /\ i > m /\ i \in Int
          BY <1>3, <2>0, <2>2
        <5>2. i - 1 = m \/ i - 1 > m
          BY <5>1
        <5> QED BY <5>1, <5>2
      <4> QED BY <4>1, <4>2, <4>3
    <3> HIDE DEF h
    <3>4. f[j] = f[j - 1] + W[z[j]] /\ f[j - 1] \in Nat /\ W[z[j]] \in Nat /\ g[Len(q)] \in Nat
      BY <1>4, <1>5, <3>1
    <3> QED BY <3>1, <3>2, <3>3, <3>4
  <2> QED BY <1>3, <2>0, <2>1, <2>2
<1> HIDE DEF h
<1>8. Sums(h, W, t)
  BY <1>6, <1>7 DEF Sums
<1>9. Total(W, t) = h[Len(t)] /\ Total(W, q) = g[Len(q)] /\ Total(W, z) = f[Len(z)]
  BY <1>1, <1>2, <1>3, <1>8, SumIsLast
<1> QED BY <1>6, <1>9 DEF t

\* Sequences of the same weights have the same sum.
WeighsAs(W, r, q) == Len(r) = Len(q) /\ \A i \in 1 .. Len(q) : W[r[i]] = W[q[i]]
LEMMA SumSame ==
  ASSUME NEW S, NEW W \in [S -> Nat], NEW q \in Seq(S), NEW r \in Seq(S), WeighsAs(W, r, q)
  PROVE  Total(W, r) = Total(W, q)
<1>1. PICK g : Sums(g, W, q)
  BY SumsExist
<1>2. Sums(g, W, r)
  BY <1>1 DEF Sums, WeighsAs
<1>3. Total(W, q) = g[Len(q)]
  BY <1>1, SumIsLast
<1>4. Total(W, r) = g[Len(r)]
  BY <1>2, SumIsLast
<1> QED BY <1>3, <1>4 DEF WeighsAs

\* Element k is taken out of q.
Without(r, q, k) ==
    Len(r) = Len(q) - 1 /\ \A i \in 1 .. Len(q) - 1 : r[i] = IF i < k THEN q[i] ELSE q[i + 1]
LEMMA SumRemove ==
  ASSUME NEW S, NEW W \in [S -> Nat], NEW q \in Seq(S), NEW k \in 1 .. Len(q), NEW r \in Seq(S),
         Without(r, q, k)
  PROVE  Total(W, q) = Total(W, r) + W[q[k]]
<1>0. Len(r) = Len(q) - 1 /\ \A i \in 1 .. Len(r) : r[i] = IF i < k THEN q[i] ELSE q[i + 1]
  BY DEF Without
<1>1. PICK g : PrefixSums(g, W, r)
  BY PrefixSumsExist
<1> DEFINE h == [i \in 0 .. Len(q) |-> IF i < k THEN g[i] ELSE g[i - 1] + W[q[k]]]
<1>2. /\ Len(q) \in Nat /\ k \in Nat /\ W[q[k]] \in Nat
      /\ g[0] = 0
      /\ \A i \in 0 .. Len(r) : g[i] \in Nat
      /\ \A i \in 1 .. Len(r) : W[r[i]] \in Nat /\ g[i] = g[i - 1] + W[r[i]]
  <2> HIDE DEF h
  <2>1. Len(q) \in Nat /\ k \in Nat /\ q[k] \in S
    OBVIOUS
  <2>2. /\ g[0] = 0
        /\ \A i \in 0 .. Len(r) : g[i] \in Nat
        /\ \A i \in 1 .. Len(r) : W[r[i]] \in Nat /\ g[i] = g[i - 1] + W[r[i]]
    BY <1>1 DEF PrefixSums
  <2> QED BY <2>1, <2>2
<1>3. h \in [0 .. Len(q) -> Nat] /\ h[0] = 0 /\ h[Len(q)] = g[Len(r)] + W[q[k]]
  <2>1. PICK m, l, x : m = Len(q) /\ l = Len(r) /\ x = W[q[k]]
    OBVIOUS
  <2>2. m \in Nat /\ k \in 1 .. m /\ l = m - 1 /\ x \in Nat /\ g[0] = 0 /\ \A i \in 0 .. l : g[i] \in Nat
    BY <1>0, <1>2, <2>1
  <2>3. ASSUME NEW i \in 0 .. m
        PROVE  (IF i < k THEN g[i] ELSE g[i - 1] + x) \in Nat
    <3>1. CASE i < k
      <4>1. i \in 0 .. l
        BY <2>2, <3>1
      <4> QED BY <2>2, <3>1, <4>1
    <3>2. CASE ~(i < k)
      <4>1. i - 1 \in 0 .. l
        BY <2>2, <3>2
      <4>2. PICK y : y = g[i - 1]
        OBVIOUS
      <4>3. y + x \in Nat
        BY <2>2, <4>1, <4>2
      <4> QED BY <3>2, <4>2, <4>3
    <3> QED BY <3>1, <3>2
  <2>4. h[0] = 0
    BY <2>1, <2>2
  <2>5. h[Len(q)] = g[Len(r)] + W[q[k]]
    BY <2>1, <2>2
  <2>6. h \in [0 .. Len(q) -> Nat]
    BY <2>1, <2>3
  <2> QED BY <2>4, <2>5, <2>6
<1>4. ASSUME NEW i \in 1 .. Len(q) PROVE h[i] = h[i - 1] + W[q[i]]
  <2>1. CASE i < k
    <3>1. h[i] = g[i] /\ h[i - 1] = g[i - 1]
      BY <2>1
    <3>2. i \in 1 .. Len(r)
      BY <1>0, <1>2, <2>1
    <3>3. g[i] = g[i - 1] + W[r[i]] /\ r[i] = q[i]
      BY <1>0, <1>2, <2>1, <3>2
    <3> QED BY <3>1, <3>3
  <2>2. CASE i = k
    <3>1. h[i] = g[k - 1] + W[q[k]] /\ h[i - 1] = g[k - 1]
      BY <2>2
    <3> QED BY <2>2, <3>1
  <2>3. CASE i > k
    <3>1. PICK j : j = i - 1
      OBVIOUS
    <3>2. j \in 1 .. Len(r) /\ j - 1 \in 0 .. Len(r) /\ ~(j < k) /\ j + 1 = i
      <4> HIDE DEF h
      <4>1. PICK m : m = Len(q) /\ m \in Nat /\ Len(r) = m - 1 /\ i \in 1 .. m
        BY <1>0, <1>2
      <4> QED BY <1>2, <2>3, <3>1, <4>1
    <3>3. g[j] = g[j - 1] + W[r[j]] /\ r[j] = q[i] /\ g[j - 1] \in Nat /\ W[r[j]] \in Nat
      BY <1>0, <1>2, <3>2
    <3>4. h[i] = g[j] + W[q[k]] /\ h[i - 1] = g[j - 1] + W[q[k]]
      BY <1>2, <2>3, <3>1
    <3> HIDE DEF h
    <3> QED BY <1>2, <3>3, <3>4
  <2> QED BY <1>2, <2>1, <2>2, <2>3
<1> HIDE DEF h
<1>5. Sums(h, W, q)
  BY <1>0, <1>3, <1>4 DEF Sums
<1>6. Total(W, q) = h[Len(q)] /\ Total(W, r) = g[Len(r)]
  BY <1>1, <1>5, SumIsLast DEF PrefixSums
<1> QED BY <1>3, <1>6

\* Elements of weight one are counted.
LEMMA SumCounts ==
  ASSUME NEW S, NEW W \in [S -> Nat], NEW q \in Seq(S), \A i \in 1 .. Len(q) : W[q[i]] = 1
  PROVE  Total(W, q) = Len(q)
<1> DEFINE h == [i \in 0 .. Len(q) |-> i]
<1>1. Len(q) \in Nat /\ h[Len(q)] = Len(q)
  OBVIOUS
<1>2. h \in [0 .. Len(q) -> Nat] /\ h[0] = 0 /\ \A i \in 1 .. Len(q) : h[i] = h[i - 1] + W[q[i]]
  BY <1>1
<1> HIDE DEF h
<1>3. Sums(h, W, q)
  BY <1>2 DEF Sums
<1> QED BY <1>1, <1>3, SumIsLast

-----------------------------------------------------------------------------
(* Loops.                                                                  *)

\* G is what a round of a loop of n rounds makes of a state in S.
Rounds(G, S, n) == G \in [S \X (0 .. n - 1) -> S]

\* The states after each of n rounds.
Runs(g, G, S, x, n) ==
  /\ g \in [0 .. n -> S] /\ g[0] = x
  /\ \A i \in 1 .. n : g[i] = G[<<g[i - 1], i - 1>>]

LEMMA LoopExists ==
  ASSUME NEW S, NEW x \in S, NEW n \in Nat, NEW G, Rounds(G, S, n)
  PROVE  \E g : Runs(g, G, S, x, n)
<1> USE DEF Rounds
<1> DEFINE Ok(g, k) == /\ g \in [0 .. k -> S] /\ g[0] = x
                       /\ \A i \in 1 .. k : g[i] = G[<<g[i - 1], i - 1>>]
           P == {k \in 0 .. n : \E g : Ok(g, k)}
<1>1. 0 \in P
  <2>1. Ok([i \in 0 .. 0 |-> x], 0)
    OBVIOUS
  <2>2. \E g : Ok(g, 0)
    BY <2>1
  <2> HIDE DEF Ok
  <2> QED BY <2>2
<1>2. ASSUME NEW k \in 1 .. n, k - 1 \in P PROVE k \in P
  <2>1. PICK g : Ok(g, k - 1)
    BY <1>2
  <2> DEFINE y == G[<<g[k - 1], k - 1>>]
             h == [i \in 0 .. k |-> IF i = k THEN y ELSE g[i]]
  <2>2. y \in S
    <3>1. g[k - 1] \in S /\ k - 1 \in 0 .. n - 1
      BY <2>1
    <3> QED BY <3>1
  <2>3. h[k] = y /\ (\A i \in 0 .. k - 1 : h[i] = g[i])
    OBVIOUS
  <2> HIDE DEF y
  <2>4. h \in [0 .. k -> S] /\ h[0] = x
    BY <2>1, <2>2
  <2> HIDE DEF h
  <2>5. ASSUME NEW i \in 1 .. k PROVE h[i] = G[<<h[i - 1], i - 1>>]
    <3>1. CASE i = k
      <4>1. h[k - 1] = g[k - 1]
        BY <2>3
      <4> QED BY <2>3, <3>1, <4>1 DEF y
    <3>2. CASE i # k
      <4>1. i \in 1 .. k - 1 /\ h[i] = g[i] /\ h[i - 1] = g[i - 1]
        BY <2>3, <3>2
      <4> QED BY <2>1, <4>1
    <3> QED BY <3>1, <3>2
  <2>6. Ok(h, k)
    BY <2>4, <2>5
  <2> HIDE DEF Ok
  <2> QED BY <2>6
<1>3. n \in P
  <2> HIDE DEF P
  <2>1. P \in SUBSET Nat
    BY DEF P
  <2>2. \A i \in 0 .. n : i \in P
    BY <1>1, <1>2, <2>1, UpTo
  <2> QED BY <2>2
<1> QED BY <1>3 DEF Runs

\* A property that every round keeps holds after the last.
LEMMA LoopStays ==
  ASSUME NEW S, NEW f, NEW n \in Nat, f[0] \in S,
         \A i \in 1 .. n : f[i - 1] \in S => f[i] \in S
  PROVE  f[n] \in S
<1> DEFINE P == {i \in 0 .. n : f[i] \in S}
<1>1. 0 \in P
  OBVIOUS
<1>2. ASSUME NEW i \in 1 .. n, i - 1 \in P PROVE i \in P
  BY <1>2
<1>3. P \in SUBSET Nat
  OBVIOUS
<1>4. \A i \in 0 .. n : i \in P
  <2> HIDE DEF P
  <2> QED BY <1>1, <1>2, <1>3, UpTo
<1> QED BY <1>4
=============================================================================
