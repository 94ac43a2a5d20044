----------------------------- MODULE LoopsProofs -----------------------------
(***************************************************************************)
(* Lemmas about numbers and about loops of any number of rounds.           *)
(***************************************************************************)
EXTENDS Loops, SequenceTheorems, WellFoundedInduction, TLAPS

-----------------------------------------------------------------------------
(* Numbers.                                                                *)

\* A set of numbers has a least one.
LEMMA LeastNat ==
  ASSUME NEW T \in SUBSET Nat, T # {}
  PROVE  \E x \in T : \A y \in T : x <= y
<1>1. PICK x \in T : \A y \in T : ~(<<y, x>> \in OpToRel(<, Nat))
  BY NatLessThanWellFounded, WFMin, Zenon
<1>2. \A y \in T : <<y, x>> \in Nat \X Nat => ~(y < x)
  BY <1>1, Zenon DEF OpToRel
<1>3. \A y \in T : ~(y < x) /\ y \in Nat
  BY <1>2
<1> QED  BY <1>3

\* What holds at the start and after every round holds all along.
LEMMA UpTo ==
  ASSUME NEW n \in Nat, NEW G, 0 \in G, \A i \in 1 .. n : i - 1 \in G => i \in G
  PROVE  \A i \in 0 .. n : i \in G
<1> DEFINE T == {i \in 0 .. n : i \notin G}
<1> SUFFICES ASSUME T # {}  PROVE FALSE
  OBVIOUS
<1>1. T \in SUBSET Nat
  OBVIOUS
<1>2. PICK x \in T : \A y \in T : x <= y
  <2> HIDE DEF T
  <2> QED  BY <1>1, LeastNat
<1>3. x \in 1 .. n /\ x \notin G
  BY <1>2
<1>4. x - 1 \in 0 .. n /\ ~(x <= x - 1)
  BY <1>3
<1>5. x - 1 \notin T
  BY <1>2, <1>4
<1> QED  BY <1>3, <1>4, <1>5

\* Round i of a loop takes a state x of S to F[<<x, i>>], in S again.
StaysIn(S, n, F) == \A x \in S, i \in 1 .. n : F[<<x, i>>] \in S

\* There are states of S after each of the n rounds that start from q.
Runs(S, q, n, F) ==
  \E f \in [0 .. n -> S] :
    f[0] = q /\ \A i \in 1 .. n : f[i] = F[<<f[i - 1], i>>]

\* The rounds of a loop that stays within S exist, one by one.
LEMMA LoopRuns ==
  ASSUME NEW S, NEW q \in S, NEW n \in Nat, NEW F, StaysIn(S, n, F)
  PROVE  Runs(S, q, n, F)
<1> USE DEF StaysIn, Runs
<1> DEFINE G == {m \in 0 .. n : \E f \in [0 .. m -> S] :
                   f[0] = q /\ \A i \in 1 .. m : f[i] = F[<<f[i - 1], i>>]}
<1>1. 0 \in G
  <2> DEFINE f == [i \in 0 .. 0 |-> q]
  <2>1. f \in [0 .. 0 -> S] /\ f[0] = q /\ \A i \in 1 .. 0 : f[i] = F[<<f[i - 1], i>>]
    OBVIOUS
  <2> HIDE DEF f
  <2>2. \E h \in [0 .. 0 -> S] :
          h[0] = q /\ \A i \in 1 .. 0 : h[i] = F[<<h[i - 1], i>>]
    BY <2>1
  <2> QED  BY <2>2
<1>2. ASSUME NEW m \in 1 .. n, m - 1 \in G  PROVE m \in G
  <2>1. PICK f \in [0 .. m - 1 -> S] :
          f[0] = q /\ \A i \in 1 .. m - 1 : f[i] = F[<<f[i - 1], i>>]
    BY <1>2
  <2> DEFINE new == F[<<f[m - 1], m>>]
             g == [i \in 0 .. m |-> IF i = m THEN new ELSE f[i]]
  <2>2. new \in S
    <3>1. f[m - 1] \in S
      OBVIOUS
    <3> QED  BY <3>1
  <2> HIDE DEF new
  <2>3. g \in [0 .. m -> S] /\ g[0] = q
    BY <2>1, <2>2
  <2>4. ASSUME NEW i \in 1 .. m  PROVE g[i] = F[<<g[i - 1], i>>]
    <3>1. CASE i = m
      <4>1. g[i] = new /\ g[i - 1] = f[m - 1]
        BY <3>1
      <4> QED  BY <3>1, <4>1 DEF new
    <3>2. CASE i # m
      <4>1. i \in 1 .. m - 1 /\ g[i] = f[i] /\ g[i - 1] = f[i - 1]
        BY <3>2
      <4> QED  BY <2>1, <4>1
    <3> QED  BY <3>1, <3>2
  <2> HIDE DEF g
  <2> QED  BY <2>3, <2>4
<1> HIDE DEF G
<1>3. n \in G
  BY <1>1, <1>2, UpTo
<1> QED  BY <1>3 DEF G

-----------------------------------------------------------------------------
\* h is what a filter has let through after each element.
SelectsBy(h, V, l, S) ==
  /\ h \in [0 .. Len(l) -> Seq(V \intersect S)] /\ h[0] = <<>>
  /\ \A i \in 1 .. Len(l) : h[i] = IF l[i] \in S THEN Append(h[i - 1], l[i]) ELSE h[i - 1]
  /\ Selected(l, S) = h[Len(l)]

\* A filter looks at the elements one by one.
LEMMA SelectedRuns == ASSUME NEW V, NEW l \in Seq(V), NEW S  PROVE \E h : SelectsBy(h, V, l, S)
<1> DEFINE n == Len(l)
           T == Seq(V \intersect S)
           Step(x, i) == IF l[i] \in S THEN Append(x, l[i]) ELSE x
           F == [a \in T \X (1 .. n) |-> Step(a[1], a[2])]
           Rounded(h) == h = [i \in 0 .. n |-> IF i = 0 THEN <<>> ELSE Step(h[i - 1], i)]
           g == CHOOSE h : Rounded(h)
<1>1. n \in Nat /\ <<>> \in T
  OBVIOUS
<1>2. ASSUME NEW x \in T, NEW i \in 1 .. n  PROVE Step(x, i) \in T
  <2>1. l[i] \in V
    BY <1>2, ElementOfSeq
  <2> QED  BY <1>2, <2>1
<1>3. Selected(l, S) = g[n]
  BY DEF Selected, Looped
<1> HIDE DEF Step, T, n
<1>4. StaysIn(T, n, F)
  BY <1>2 DEF StaysIn
<1>5. PICK f \in [0 .. n -> T] : f[0] = <<>> /\ \A i \in 1 .. n : f[i] = F[<<f[i - 1], i>>]
  <2> HIDE DEF F
  <2>1. Runs(T, <<>>, n, F)
    BY <1>1, <1>4, LoopRuns, Zenon
  <2> QED  BY <2>1 DEF Runs
<1>6. ASSUME NEW i \in 1 .. n  PROVE f[i] = Step(f[i - 1], i)
  <2>1. i - 1 \in 0 .. n
    BY <1>1
  <2>2. f[i - 1] \in T
    BY <2>1
  <2> QED  BY <1>5, <2>2
<1>7. Rounded(f)
  BY <1>1, <1>5, <1>6
<1>8. Rounded(g)
  BY <1>7, Zenon
<1>9. g[0] = <<>> /\ \A i \in 1 .. n : g[i] = Step(g[i - 1], i)
  <2> HIDE DEF g
  <2> QED  BY <1>1, <1>8
<1> HIDE DEF g
<1>10. \A i \in 0 .. n : i \in {k \in 0 .. n : g[k] \in T}
  <2>1. \A i \in 1 .. n : i - 1 \in {k \in 0 .. n : g[k] \in T} => i \in {k \in 0 .. n : g[k] \in T}
    BY <1>1, <1>2, <1>9
  <2>2. 0 \in {k \in 0 .. n : g[k] \in T}
    BY <1>1, <1>9
  <2> QED  BY <1>1, <2>1, <2>2, UpTo
<1>11. g \in [0 .. n -> T]
  BY <1>8, <1>10
<1>12. SelectsBy(g, V, l, S)
  BY <1>3, <1>9, <1>11 DEF Step, T, n, SelectsBy
<1> QED  BY <1>12

\* What a filter lets through is in S.
LEMMA SelectedTyped ==
  ASSUME NEW V, NEW l \in Seq(V), NEW S
  PROVE  Selected(l, S) \in Seq(S) /\ Selected(l, S) \in Seq(V)
<1>1. Selected(l, S) \in Seq(V \intersect S)
  <2>1. PICK h : SelectsBy(h, V, l, S)
    BY SelectedRuns
  <2>2. Len(l) \in 0 .. Len(l)
    OBVIOUS
  <2> QED  BY <2>1, <2>2 DEF SelectsBy
<1> QED  BY <1>1, SeqMonotonic
=============================================================================
