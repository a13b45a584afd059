--------------------------- MODULE Filters_proofs ---------------------------
(***************************************************************************)
(* Induction on the natural numbers over sets, from the least element of a *)
(* set, and with it what KeepOnly returns for every sequence.              *)
(***************************************************************************)
EXTENDS Filters, FiniteSetTheorems, WellFoundedInduction, TLAPS

\* Every set of natural numbers that is not empty has a least element.
LEMMA LeastElement ==
  ASSUME NEW T \in SUBSET Nat, T # {}
  PROVE  \E n \in T : \A m \in T : n <= m
<1> DEFINE R == OpToRel(<, Nat)
<1>1. IsWellFoundedOn(R, Nat) BY NatLessThanWellFounded
<1>2. \A m, n \in Nat : m < n => <<m, n>> \in R BY DEF OpToRel
<1> HIDE DEF R
<1>3. PICK n \in T : \A m \in T : <<m, n>> \notin R BY <1>1, WFMin
<1>4. ASSUME NEW m \in T PROVE n <= m
  <2>1. m \in Nat /\ n \in Nat /\ <<m, n>> \notin R BY <1>3
  <2>2. ~(m < n) BY <1>2, <2>1
  <2> QED BY <2>1, <2>2
<1> QED BY <1>4

\* A set that has 0 and, with a number below n, its successor, has all of 0 .. n.
LEMMA UpTo ==
  ASSUME NEW n \in Nat, NEW G, 0 \in G, \A k \in 0 .. n - 1 : k \in G => k + 1 \in G
  PROVE  \A k \in 0 .. n : k \in G
<1> DEFINE Bad == {k \in 0 .. n : k \notin G}
<1> SUFFICES ASSUME Bad # {} PROVE FALSE OBVIOUS
<1>1. Bad \in SUBSET Nat OBVIOUS
<1>2. PICK k \in Bad : \A m \in Bad : k <= m
  <2> HIDE DEF Bad
  <2> QED BY <1>1, LeastElement
<1>3. k # 0 /\ k \in 0 .. n /\ k \notin G OBVIOUS
<1>4. k - 1 \in 0 .. n - 1 /\ k - 1 \notin Bad BY <1>2, <1>3
<1>5. (k - 1) + 1 \in G BY <1>4
<1>6. (k - 1) + 1 = k BY <1>3
<1> QED BY <1>3, <1>5, <1>6

\* A set that has the empty sequence and, with a sequence, each one that is an
\* element longer, has all sequences.
LEMMA AppendInduction ==
  ASSUME NEW S, NEW G, <<>> \in G,
         \A s \in Seq(S) : \A x \in S : s \in G => Append(s, x) \in G
  PROVE  \A s \in Seq(S) : s \in G
<1> TAKE s \in Seq(S)
<1> DEFINE H == {k \in Nat : SubSeq(s, 1, k) \in G}
<1>1. 0 \in H
  <2>1. SubSeq(s, 1, 0) = <<>> OBVIOUS
  <2> QED BY <2>1
<1>2. ASSUME NEW k \in 0 .. Len(s) - 1, k \in H PROVE k + 1 \in H
  <2>1. k \in Nat /\ k + 1 \in Nat /\ k + 1 \in 1 .. Len(s) /\ SubSeq(s, 1, k) \in G BY <1>2
  <2>2. SubSeq(s, 1, k) \in Seq(S) /\ s[k + 1] \in S BY <2>1
  <2>3. SubSeq(s, 1, k + 1) = Append(SubSeq(s, 1, k), s[k + 1]) BY <2>1
  <2>4. Append(SubSeq(s, 1, k), s[k + 1]) \in G BY <2>1, <2>2
  <2> QED BY <2>1, <2>3, <2>4
<1> HIDE DEF H
<1>3. Len(s) \in Nat /\ Len(s) \in 0 .. Len(s) OBVIOUS
<1>4. Len(s) \in H BY <1>1, <1>2, <1>3, UpTo
<1>5. SubSeq(s, 1, Len(s)) = s OBVIOUS
<1> QED BY <1>4, <1>5 DEF H

\* The values a loop of n turns goes through, each a step from the one before.
Loop(n, X, base, step, f) ==
  /\ f \in [0 .. n -> X] /\ f[0] = base
  /\ \A i \in 1 .. n : f[i] = step[<<f[i - 1], i>>]

\* A loop of n turns runs to its end.
LEMMA LoopRuns ==
  ASSUME NEW n \in Nat, NEW X, NEW base \in X, NEW step \in [X \X (1 .. n) -> X]
  PROVE  \E f : Loop(n, X, base, step, f)
<1> DEFINE G == {k \in Nat : \E f : Loop(k, X, base, step, f)}
<1>1. 0 \in G
  <2>1. Loop(0, X, base, step, [i \in 0 .. 0 |-> base]) BY DEF Loop
  <2> QED BY <2>1
<1>2. ASSUME NEW k \in 0 .. n - 1, k \in G PROVE k + 1 \in G
  <2>0. PICK f : Loop(k, X, base, step, f) BY <1>2
  <2>1. /\ f \in [0 .. k -> X] /\ f[0] = base
        /\ \A i \in 1 .. k : f[i] = step[<<f[i - 1], i>>]
    BY <2>0 DEF Loop
  <2>2. k \in Nat /\ k + 1 \in 1 .. n /\ k \in 0 .. k BY <1>2
  <2>3. f[k] \in X BY <2>1, <2>2
  <2> DEFINE g == [i \in 0 .. k + 1 |-> IF i = k + 1 THEN step[<<f[k], k + 1>>] ELSE f[i]]
  <2>4. step[<<f[k], k + 1>>] \in X BY <2>2, <2>3
  <2>5. g \in [0 .. k + 1 -> X] /\ g[0] = base BY <2>1, <2>2, <2>4
  <2>6. ASSUME NEW i \in 1 .. k + 1 PROVE g[i] = step[<<g[i - 1], i>>]
    <3>1. CASE i = k + 1
      <4>1. g[i - 1] = f[k] /\ g[i] = step[<<f[k], k + 1>>] BY <2>2, <3>1
      <4> QED BY <3>1, <4>1
    <3>2. CASE i # k + 1
      <4>1. i \in 1 .. k /\ g[i] = f[i] /\ g[i - 1] = f[i - 1] BY <2>2, <3>2
      <4> QED BY <2>1, <4>1
    <3> QED BY <3>1, <3>2
  <2> HIDE DEF g
  <2>7. Loop(k + 1, X, base, step, g) BY <2>5, <2>6 DEF Loop
  <2> QED BY <2>2, <2>7
<1> HIDE DEF G
<1>3. n \in 0 .. n OBVIOUS
<1>4. n \in G BY <1>1, <1>2, <1>3, UpTo
<1> QED BY <1>4 DEF G

-----------------------------------------------------------------------------
\* One turn of the recursion of KeepOnly.
Turn(s, T, f, i) ==
  IF i = 0 THEN <<>> ELSE IF s[i] \in T THEN Append(f[i - 1], s[i]) ELSE f[i - 1]
IsKept(s, T, n, f) == f = [i \in 0 .. n |-> Turn(s, T, f, i)]

\* The recursion of KeepOnly has a solution.
LEMMA KeptExists ==
  ASSUME NEW S, NEW s \in Seq(S), NEW T
  PROVE  \E f : IsKept(s, T, Len(s), f)
<1> DEFINE G == {k \in Nat : \E f : IsKept(s, T, k, f)}
<1>1. 0 \in G
  <2>1. IsKept(s, T, 0, [i \in 0 .. 0 |-> <<>>]) BY DEF IsKept, Turn
  <2> QED BY <2>1
<1>2. ASSUME NEW k \in 0 .. Len(s) - 1, k \in G PROVE k + 1 \in G
  <2>1. PICK f : IsKept(s, T, k, f) BY <1>2
  <2> DEFINE g == [i \in 0 .. k + 1 |-> IF i = k + 1 THEN Turn(s, T, f, k + 1) ELSE f[i]]
  <2>2. ASSUME NEW i \in 0 .. k + 1 PROVE g[i] = Turn(s, T, g, i)
    <3>1. CASE i = k + 1
      <4>1. g[i - 1] = f[i - 1] /\ i # 0 BY <3>1
      <4> QED BY <3>1, <4>1 DEF Turn
    <3>2. CASE i # k + 1
      <4>1. i \in 0 .. k /\ f = [j \in 0 .. k |-> Turn(s, T, f, j)] BY <2>1, <3>2 DEF IsKept
      <4>2. f[i] = Turn(s, T, f, i) BY ONLY <4>1
      <4>3. g[i] = f[i] /\ (i # 0 => g[i - 1] = f[i - 1]) BY <3>2
      <4> HIDE DEF g
      <4> QED BY <4>2, <4>3 DEF Turn
    <3> QED BY <3>1, <3>2
  <2>3. g = [i \in 0 .. k + 1 |-> g[i]] OBVIOUS
  <2> HIDE DEF g
  <2>4. IsKept(s, T, k + 1, g) BY <2>2, <2>3 DEF IsKept
  <2> QED BY <2>4
<1> HIDE DEF G
<1>3. Len(s) \in 0 .. Len(s) /\ Len(s) \in Nat OBVIOUS
<1>4. Len(s) \in G BY <1>1, <1>2, <1>3, UpTo
<1> QED BY <1>4 DEF G

\* KeepOnly is the last value of the one function that satisfies its recursion.
LEMMA KeepOnlyIs ==
  ASSUME NEW S, NEW s \in Seq(S), NEW T
  PROVE  \E f : IsKept(s, T, Len(s), f) /\ KeepOnly(s, T) = f[Len(s)]
<1> DEFINE f == CHOOSE f : IsKept(s, T, Len(s), f)
<1>1. IsKept(s, T, Len(s), f)
  <2>1. \E g : IsKept(s, T, Len(s), g) BY KeptExists
  <2> QED BY <2>1
<1>2. KeepOnly(s, T) = f[Len(s)] BY DEF KeepOnly, IsKept, Turn
<1> QED BY <1>1, <1>2

\* What it has so far is of the sequence and of the set.
LEMMA KeptType ==
  ASSUME NEW S, NEW s \in Seq(S), NEW T, NEW n \in 0 .. Len(s), NEW f, IsKept(s, T, n, f)
  PROVE  \A i \in 0 .. n : f[i] \in Seq(S \cap T)
<1> DEFINE G == {i \in Nat : f[i] \in Seq(S \cap T)}
<1>1. \A i \in 0 .. n : f[i] = Turn(s, T, f, i) BY DEF IsKept
<1>2. 0 \in G
  <2>1. f[0] = Turn(s, T, f, 0) BY <1>1
  <2>2. f[0] = <<>> /\ <<>> \in Seq(S \cap T) BY <2>1 DEF Turn
  <2> QED BY <2>2
<1>3. ASSUME NEW k \in 0 .. n - 1, k \in G PROVE k + 1 \in G
  <2>0. k \in Nat /\ k + 1 \in 0 .. n /\ k + 1 \in 1 .. Len(s)
    <3> HIDE DEF G
    <3> QED OBVIOUS
  <2>1. f[k + 1] = Turn(s, T, f, k + 1) BY <1>1, <2>0
  <2>2. s[k + 1] \in S /\ (k + 1) - 1 = k /\ k + 1 # 0
    <3> HIDE DEF G
    <3> QED BY <2>0
  <2>3. f[k] \in Seq(S \cap T) BY <1>3
  <2>4. CASE s[k + 1] \in T
    <3>1. f[k + 1] = Append(f[k], s[k + 1]) BY <2>1, <2>2, <2>4 DEF Turn
    <3>2. f[k + 1] \in Seq(S \cap T)
      <4> HIDE DEF G
      <4> QED BY <2>2, <2>3, <2>4, <3>1
    <3> QED BY <2>0, <3>2
  <2>5. CASE s[k + 1] \notin T
    <3>1. f[k + 1] = f[k] BY <2>1, <2>2, <2>5 DEF Turn
    <3> QED BY <2>0, <2>3, <3>1
  <2> QED BY <2>4, <2>5
<1> HIDE DEF G
<1>4. \A k \in 0 .. n : k \in G BY <1>2, <1>3, UpTo
<1> QED BY <1>4 DEF G

\* Two functions that satisfy the recursion agree as far as their sequences do.
LEMMA KeptUnique ==
  ASSUME NEW s, NEW u, NEW T, NEW m \in Nat, NEW n \in Nat, NEW f, NEW g,
         IsKept(s, T, m, f), IsKept(u, T, n, g), NEW l \in 0 .. m, l <= n,
         \A i \in 1 .. l : s[i] = u[i]
  PROVE  f[l] = g[l]
<1> DEFINE G == {i \in Nat : f[i] = g[i]}
<1>1. /\ \A i \in 0 .. m : f[i] = Turn(s, T, f, i)
      /\ \A i \in 0 .. n : g[i] = Turn(u, T, g, i)
  BY DEF IsKept
<1>2. 0 \in G BY <1>1 DEF Turn
<1>3. ASSUME NEW k \in 0 .. l - 1, k \in G PROVE k + 1 \in G
  <2>1. k + 1 \in 0 .. m /\ k + 1 \in 0 .. n /\ k + 1 \in 1 .. l /\ (k + 1) - 1 = k
    BY <1>3
  <2>2. f[k + 1] = Turn(s, T, f, k + 1) /\ g[k + 1] = Turn(u, T, g, k + 1) BY <1>1, <2>1
  <2>3. f[k] = g[k] /\ s[k + 1] = u[k + 1] BY <1>3, <2>1
  <2>4. f[k + 1] = g[k + 1] BY <2>1, <2>2, <2>3 DEF Turn
  <2> QED BY <2>1, <2>4
<1> HIDE DEF G
<1>4. \A k \in 0 .. l : k \in G BY <1>2, <1>3, UpTo
<1> QED BY <1>4 DEF G

-----------------------------------------------------------------------------
\* What is kept is of the sequence and of the set.
LEMMA KeepOnlyType ==
  ASSUME NEW S, NEW s \in Seq(S), NEW T
  PROVE  KeepOnly(s, T) \in Seq(S \cap T)
<1>1. PICK f : IsKept(s, T, Len(s), f) /\ KeepOnly(s, T) = f[Len(s)] BY KeepOnlyIs
<1>2. Len(s) \in 0 .. Len(s) OBVIOUS
<1> QED BY <1>1, <1>2, KeptType

\* Of nothing, nothing is kept.
LEMMA KeepOnlyEmpty == ASSUME NEW T PROVE KeepOnly(<<>>, T) = <<>>
<1>1. <<>> \in Seq({}) /\ Len(<<>>) = 0 OBVIOUS
<1>2. PICK f : IsKept(<<>>, T, Len(<<>>), f) /\ KeepOnly(<<>>, T) = f[Len(<<>>)]
  BY <1>1, KeepOnlyIs
<1>3. f[0] = Turn(<<>>, T, f, 0) BY <1>1, <1>2 DEF IsKept
<1> QED BY <1>1, <1>2, <1>3 DEF Turn

\* An element added at the end is added to what is kept, or is not kept.
LEMMA KeepOnlyAppend ==
  ASSUME NEW S, NEW s \in Seq(S), NEW x \in S, NEW T
  PROVE  KeepOnly(Append(s, x), T) =
           IF x \in T THEN Append(KeepOnly(s, T), x) ELSE KeepOnly(s, T)
<1> DEFINE u == Append(s, x)
           n == Len(s)
<1>1. u \in Seq(S) /\ Len(u) = n + 1 /\ u[n + 1] = x /\ n \in Nat
      /\ \A i \in 1 .. n : u[i] = s[i]
  OBVIOUS
<1> HIDE DEF u
<1>2. PICK f : IsKept(s, T, n, f) /\ KeepOnly(s, T) = f[n] BY KeepOnlyIs
<1>3. PICK g : IsKept(u, T, n + 1, g) /\ KeepOnly(u, T) = g[n + 1] BY <1>1, KeepOnlyIs
<1>4. f[n] = g[n]
  <2>1. n \in 0 .. n /\ n <= n + 1 /\ n + 1 \in Nat /\ \A i \in 1 .. n : s[i] = u[i] BY <1>1
  <2> HIDE DEF n
  <2> QED BY <1>1, <1>2, <1>3, <2>1, KeptUnique
<1>5. g[n + 1] = Turn(u, T, g, n + 1) BY SMTT(30), <1>1, <1>3 DEF IsKept
<1>6. g[n + 1] = IF x \in T THEN Append(g[n], x) ELSE g[n]
  BY <1>1, <1>5 DEF Turn
<1> QED BY <1>2, <1>3, <1>4, <1>6 DEF u

\* Filtering twice is filtering once.
LEMMA KeepOnlyTwice ==
  ASSUME NEW S, NEW A, NEW B
  PROVE  \A s \in Seq(S) : KeepOnly(KeepOnly(s, A), B) = KeepOnly(s, A \cap B)
<1> DEFINE G == {s \in Seq(S) : KeepOnly(KeepOnly(s, A), B) = KeepOnly(s, A \cap B)}
<1>1. <<>> \in G BY KeepOnlyEmpty
<1>2. ASSUME NEW s \in Seq(S), NEW x \in S, s \in G PROVE Append(s, x) \in G
  <2>1. KeepOnly(s, A) \in Seq(S)
    <3>1. KeepOnly(s, A) \in Seq(S \cap A) BY KeepOnlyType
    <3> QED BY <3>1
  <2>2. /\ KeepOnly(Append(s, x), A) = IF x \in A THEN Append(KeepOnly(s, A), x) ELSE KeepOnly(s, A)
        /\ KeepOnly(Append(s, x), A \cap B) =
             IF x \in A \cap B THEN Append(KeepOnly(s, A \cap B), x) ELSE KeepOnly(s, A \cap B)
        /\ KeepOnly(Append(KeepOnly(s, A), x), B) =
             IF x \in B THEN Append(KeepOnly(KeepOnly(s, A), B), x) ELSE KeepOnly(KeepOnly(s, A), B)
    BY <2>1, KeepOnlyAppend
  <2>3. KeepOnly(KeepOnly(Append(s, x), A), B) = KeepOnly(Append(s, x), A \cap B)
    <3>1. KeepOnly(KeepOnly(s, A), B) = KeepOnly(s, A \cap B) BY <1>2
    <3>2. CASE x \in A
      <4>1. x \in A \cap B <=> x \in B BY <3>2
      <4> QED BY <2>2, <3>1, <3>2, <4>1
    <3>3. CASE x \notin A BY <2>2, <3>1, <3>3
    <3> QED BY <3>2, <3>3
  <2> QED BY <2>3
<1> HIDE DEF G
<1>3. \A s \in Seq(S) : s \in G BY <1>1, <1>2, AppendInduction
<1> QED BY <1>3 DEF G
=============================================================================
