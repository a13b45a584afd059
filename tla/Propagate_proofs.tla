--------------------------- MODULE Propagate_proofs ---------------------------
(***************************************************************************)
(* The decision log for any number of entries, runs, days and tickers.     *)
(*                                                                         *)
(* The argument.  The loops of _apply_rotation, get_past_context and the   *)
(* batch are first brought to a form that can be said from the end of a    *)
(* log: what rotation keeps of a log with an entry more is what it keeps   *)
(* of the log, and that entry.  Then rotating before outcomes are put      *)
(* changes nothing of what rotating after leaves, so that a batch does     *)
(* what its outcomes do one at a time, in whichever order (OneAtATime).    *)
(*                                                                         *)
(* Of the steps: each entry that is in the log, in the text beside it or   *)
(* among the outcomes a process carries is of a decision whose final state *)
(* is on disk, whoever writes over whom (FilesInv).  With one process, the *)
(* log stays what that process has read until it writes it (RunInv).       *)
(***************************************************************************)
EXTENDS Propagate, Filters_proofs, SequenceTheorems

\* What a log is made of; that a log has an entry; that nothing in it is pending twice.
Entries == [ticker : Tickers, date : Int, held : Nat]
Has(s, e) == \E i \in DOMAIN s : s[i] = e
Once(s) == \A i, j \in DOMAIN s : IsPending(s[i]) /\ s[i] = s[j] => i = j

-----------------------------------------------------------------------------
(* The entries of a log with an outcome.                                   *)

\* An entry is of the resolved ones unless it is pending.
LEMMA Settled == \A e \in Entries : e \in Outcomes(Tickers) <=> ~IsPending(e)
BY DEF Entries, Outcomes, IsPending, Pending

\* Outcomes are entries.
LEMMA SettledAreEntries == Outcomes(Tickers) \subseteq Entries
BY DEF Entries, Outcomes

\* The resolved entries of a log are outcomes.
LEMMA ResolvedType ==
  ASSUME NEW s \in Seq(Entries)
  PROVE  Resolved(s) \in Seq(Outcomes(Tickers)) /\ Len(Resolved(s)) \in Nat
<1>1. Resolved(s) \in Seq(Entries \cap Outcomes(Tickers)) BY KeepOnlyType DEF Resolved
<1>2. Entries \cap Outcomes(Tickers) = Outcomes(Tickers) BY SettledAreEntries
<1> QED BY <1>1, <1>2

\* An empty log has none.
LEMMA ResolvedEmpty == Resolved(<<>>) = <<>> /\ Len(Resolved(<<>>)) = 0
BY KeepOnlyEmpty DEF Resolved

\* An entry at the end adds itself to the resolved ones, or is pending.
LEMMA ResolvedAppend ==
  ASSUME NEW s \in Seq(Entries), NEW e \in Entries
  PROVE  /\ Append(s, e) \in Seq(Entries)
         /\ Resolved(Append(s, e)) = IF IsPending(e) THEN Resolved(s) ELSE Append(Resolved(s), e)
         /\ Len(Resolved(Append(s, e))) =
              IF IsPending(e) THEN Len(Resolved(s)) ELSE Len(Resolved(s)) + 1
<1>1. Resolved(Append(s, e)) =
        IF e \in Outcomes(Tickers) THEN Append(Resolved(s), e) ELSE Resolved(s)
  BY KeepOnlyAppend DEF Resolved
<1>2. e \in Outcomes(Tickers) <=> ~IsPending(e) BY Settled
<1>3. Resolved(s) \in Seq(Outcomes(Tickers)) BY ResolvedType
<1>4. CASE IsPending(e) BY <1>1, <1>2, <1>4
<1>5. CASE ~IsPending(e)
  <2>1. Resolved(Append(s, e)) = Append(Resolved(s), e) BY <1>1, <1>2, <1>5
  <2> QED BY <1>2, <1>3, <1>5, <2>1
<1> QED BY <1>4, <1>5

\* What a log has, and that it has nothing pending twice, as it grows.
LEMMA HasAppend ==
  ASSUME NEW S, NEW s \in Seq(S), NEW x
  PROVE  \A e : Has(Append(s, x), e) <=> Has(s, e) \/ e = x
<1> TAKE e
<1>1. /\ DOMAIN Append(s, x) = 1 .. Len(s) + 1 /\ DOMAIN s = 1 .. Len(s) /\ Len(s) \in Nat
      /\ \A i \in 1 .. Len(s) : Append(s, x)[i] = s[i]
      /\ Append(s, x)[Len(s) + 1] = x
  OBVIOUS
<1>2. ASSUME Has(Append(s, x), e) PROVE Has(s, e) \/ e = x
  <2>1. PICK i \in 1 .. Len(s) + 1 : Append(s, x)[i] = e BY <1>1, <1>2 DEF Has
  <2>2. CASE i = Len(s) + 1 BY <1>1, <2>1, <2>2
  <2>3. CASE i # Len(s) + 1
    <3>1. i \in 1 .. Len(s) BY <1>1, <2>3
    <3> QED BY <1>1, <2>1, <3>1 DEF Has
  <2> QED BY <2>2, <2>3
<1>3. ASSUME Has(s, e) PROVE Has(Append(s, x), e)
  <2>1. PICK i \in 1 .. Len(s) : s[i] = e BY <1>1, <1>3 DEF Has
  <2> QED BY <1>1, <2>1 DEF Has
<1>4. Has(Append(s, x), x)
  <2>1. Len(s) + 1 \in 1 .. Len(s) + 1 BY <1>1
  <2> QED BY <1>1, <2>1 DEF Has
<1> QED BY <1>2, <1>3, <1>4

\* A log has nothing twice with an entry more if it had that one not pending before.
LEMMA OnceAppend ==
  ASSUME NEW S, NEW s \in Seq(S), NEW x
  PROVE  Once(Append(s, x)) <=> Once(s) /\ (IsPending(x) => ~Has(s, x))
<1> DEFINE u == Append(s, x)
           n == Len(s) + 1
<1>1. /\ DOMAIN u = 1 .. n /\ DOMAIN s = 1 .. n - 1 /\ n \in Nat \ {0}
      /\ \A i \in 1 .. n - 1 : u[i] = s[i]
      /\ u[n] = x
  OBVIOUS
<1> HIDE DEF u, n
<1>2. ASSUME Once(u) PROVE Once(s) /\ (IsPending(x) => ~Has(s, x))
  <2>1. Once(s)
    <3>1. \A i \in 1 .. n - 1 : i \in 1 .. n BY <1>1
    <3> QED BY <1>1, <1>2, <3>1 DEF Once
  <2>2. ASSUME IsPending(x), NEW i \in 1 .. n - 1, s[i] = x PROVE FALSE
    <3>1. i \in 1 .. n /\ n \in 1 .. n /\ i # n BY <1>1
    <3>2. IsPending(u[i]) /\ u[i] = u[n] BY <1>1, <2>2
    <3> QED BY <1>1, <1>2, <3>1, <3>2 DEF Once
  <2> QED BY <1>1, <2>1, <2>2 DEF Has
<1>3. ASSUME Once(s), IsPending(x) => ~Has(s, x) PROVE Once(u)
  <2> SUFFICES ASSUME NEW i \in 1 .. n, NEW j \in 1 .. n, IsPending(u[i]), u[i] = u[j]
               PROVE  i = j
    BY <1>1 DEF Once
  <2>1. CASE i # n /\ j # n
    <3>1. i \in 1 .. n - 1 /\ j \in 1 .. n - 1 BY <1>1, <2>1
    <3> QED BY <1>1, <1>3, <3>1 DEF Once
  <2>2. CASE i = n /\ j # n
    <3>1. j \in 1 .. n - 1 BY <1>1, <2>2
    <3>2. s[j] = x /\ IsPending(x) BY <1>1, <2>2, <3>1
    <3> QED BY <1>1, <1>3, <3>1, <3>2 DEF Has
  <2>3. CASE i # n /\ j = n
    <3>1. i \in 1 .. n - 1 BY <1>1, <2>3
    <3>2. s[i] = x /\ IsPending(x) BY <1>1, <2>3, <3>1
    <3> QED BY <1>1, <1>3, <3>1, <3>2 DEF Has
  <2> QED BY <2>1, <2>2, <2>3
<1> QED BY <1>2, <1>3 DEF u

-----------------------------------------------------------------------------
(* Rotation.  The loop of _apply_rotation drops the oldest entries with an *)
(* outcome; what is left is the latest of them, which can be said entry by *)
(* entry from the end.                                                     *)

\* What the loop carries: the entries kept so far, and how many are still to drop.
DropStates == [entries : Seq(Entries), toDrop : Nat]

\* One turn of the loop, its runs over a log, and where it ends.
DropTurn(e, k) ==
  IF e \in Outcomes(Tickers) /\ k.toDrop > 0 THEN [k EXCEPT !.toDrop = @ - 1]
  ELSE [k EXCEPT !.entries = Append(@, e)]
Drops(s, n, f) ==
  f = [i \in 0 .. Len(s) |-> IF i = 0 THEN [entries |-> <<>>, toDrop |-> n]
                             ELSE DropTurn(s[i], f[i - 1])]
DropEnd(s, n) == (CHOOSE f : Drops(s, n, f))[Len(s)]

\* A turn of the loop keeps its entries and its count.
LEMMA DropTurnType ==
  ASSUME NEW e \in Entries, NEW k \in DropStates PROVE DropTurn(e, k) \in DropStates
<1>1. k.entries \in Seq(Entries) /\ k.toDrop \in Nat BY DEF DropStates
<1>2. CASE e \in Outcomes(Tickers) /\ k.toDrop > 0
  <2>1. DropTurn(e, k) = [k EXCEPT !.toDrop = k.toDrop - 1] BY <1>2 DEF DropTurn
  <2>2. k.toDrop - 1 \in Nat BY <1>1, <1>2
  <2> QED BY <2>1, <2>2 DEF DropStates
<1>3. CASE ~(e \in Outcomes(Tickers) /\ k.toDrop > 0)
  <2>1. DropTurn(e, k) = [k EXCEPT !.entries = Append(k.entries, e)] BY <1>3 DEF DropTurn
  <2>2. Append(k.entries, e) \in Seq(Entries) BY <1>1
  <2> QED BY <2>1, <2>2 DEF DropStates
<1> QED BY <1>2, <1>3

\* The loop runs to its end.
LEMMA DropRuns ==
  ASSUME NEW s \in Seq(Entries), NEW n \in Nat
  PROVE  \E f : Drops(s, n, f)
<1> DEFINE step == [x \in DropStates \X (1 .. Len(s)) |-> DropTurn(s[x[2]], x[1])]
           base == [entries |-> <<>>, toDrop |-> n]
<1>1. base \in DropStates /\ Len(s) \in Nat BY DEF DropStates
<1>2. step \in [DropStates \X (1 .. Len(s)) -> DropStates]
  <2>1. \A x \in DropStates \X (1 .. Len(s)) : DropTurn(s[x[2]], x[1]) \in DropStates
    <3> TAKE x \in DropStates \X (1 .. Len(s))
    <3>1. s[x[2]] \in Entries /\ x[1] \in DropStates OBVIOUS
    <3> QED BY <3>1, DropTurnType
  <2> QED BY <2>1
<1>3. PICK f : Loop(Len(s), DropStates, base, step, f)
  <2> HIDE DEF step, base
  <2> QED BY <1>1, <1>2, LoopRuns
<1>4. ASSUME NEW i \in 1 .. Len(s) PROVE f[i] = DropTurn(s[i], f[i - 1])
  <2>1. f[i - 1] \in DropStates
    <3>1. i - 1 \in 0 .. Len(s) BY <1>1
    <3> QED BY <1>3, <3>1 DEF Loop
  <2>2. <<f[i - 1], i>> \in DropStates \X (1 .. Len(s)) BY <2>1
  <2>3. step[<<f[i - 1], i>>] = DropTurn(s[i], f[i - 1]) BY <2>2
  <2> HIDE DEF step
  <2> QED BY <1>3, <2>3 DEF Loop
<1> HIDE DEF step
<1>5. \A i \in 0 .. Len(s) : f[i] = IF i = 0 THEN base ELSE DropTurn(s[i], f[i - 1])
  <2> TAKE i \in 0 .. Len(s)
  <2>1. CASE i = 0 BY <1>3, <2>1 DEF Loop
  <2>2. CASE i # 0
    <3>1. i \in 1 .. Len(s) BY <1>1, <2>2
    <3> QED BY <1>4, <2>2, <3>1
  <2> QED BY <2>1, <2>2
<1>6. f = [i \in 0 .. Len(s) |-> f[i]] BY <1>3 DEF Loop
<1>7. Drops(s, n, f) BY <1>5, <1>6 DEF Drops
<1> QED BY <1>7

\* The loop over a log that is an entry longer takes one more turn.
LEMMA DropEndAppend ==
  ASSUME NEW s \in Seq(Entries), NEW e \in Entries, NEW n \in Nat
  PROVE  DropEnd(Append(s, e), n) = DropTurn(e, DropEnd(s, n))
<1> DEFINE u == Append(s, e)
           f == CHOOSE f : Drops(s, n, f)
           g == CHOOSE g : Drops(u, n, g)
<1>1. u \in Seq(Entries) /\ Len(u) = Len(s) + 1 /\ u[Len(u)] = e /\ Len(s) \in Nat
      /\ \A i \in 1 .. Len(s) : u[i] = s[i]
  OBVIOUS
<1>2. Drops(s, n, f)
  <2>1. \E h : Drops(s, n, h) BY DropRuns
  <2> QED BY <2>1
<1>3. Drops(u, n, g)
  <2> HIDE DEF u
  <2>1. \E h : Drops(u, n, h) BY <1>1, DropRuns
  <2> QED BY <2>1
<1> DEFINE H == {i \in Nat : f[i] = g[i]}
<1> HIDE DEF u, f, g
<1>4. \A i \in 0 .. Len(s) : f[i] = IF i = 0 THEN [entries |-> <<>>, toDrop |-> n]
                                    ELSE DropTurn(s[i], f[i - 1])
  BY <1>2 DEF Drops
<1>5. \A i \in 0 .. Len(s) + 1 : g[i] = IF i = 0 THEN [entries |-> <<>>, toDrop |-> n]
                                        ELSE DropTurn(u[i], g[i - 1])
  BY <1>1, <1>3 DEF Drops
<1>6. 0 \in H BY <1>1, <1>4, <1>5
<1>7. ASSUME NEW k \in 0 .. Len(s) - 1, k \in H PROVE k + 1 \in H
  <2>1. /\ k + 1 \in 0 .. Len(s) /\ k + 1 \in 0 .. Len(s) + 1 /\ k + 1 \in 1 .. Len(s)
        /\ k + 1 # 0 /\ (k + 1) - 1 = k /\ k + 1 \in Nat
    BY <1>1
  <2>2. f[k] = g[k] BY <1>7
  <2>3. f[k + 1] = DropTurn(s[k + 1], f[k]) BY <1>4, <2>1
  <2>4. g[k + 1] = DropTurn(u[k + 1], g[k]) BY <1>5, <2>1
  <2>5. u[k + 1] = s[k + 1] BY <1>1, <2>1
  <2> QED BY <2>1, <2>2, <2>3, <2>4, <2>5
<1>8. f[Len(s)] = g[Len(s)]
  <2>1. Len(s) \in 0 .. Len(s) BY <1>1
  <2> HIDE DEF H
  <2>2. Len(s) \in H BY <1>1, <1>6, <1>7, <2>1, UpTo
  <2> QED BY <2>2 DEF H
<1>9. g[Len(s) + 1] = DropTurn(e, g[Len(s)])
  <2>1. Len(s) + 1 \in 0 .. Len(s) + 1 /\ Len(s) + 1 # 0 /\ (Len(s) + 1) - 1 = Len(s) BY <1>1
  <2> QED BY <1>1, <1>5, <2>1
<1> QED BY <1>1, <1>8, <1>9 DEF DropEnd, u, f, g

\* Over an empty log the loop does nothing.
LEMMA DropEndEmpty ==
  ASSUME NEW n \in Nat
  PROVE  /\ DropEnd(<<>>, n) \in DropStates
         /\ DropEnd(<<>>, n).entries = <<>> /\ DropEnd(<<>>, n).toDrop = n
<1> DEFINE f == CHOOSE f : Drops(<<>>, n, f)
<1>1. <<>> \in Seq(Entries) /\ Len(<<>>) = 0 OBVIOUS
<1>2. Drops(<<>>, n, f)
  <2>1. \E h : Drops(<<>>, n, h) BY <1>1, DropRuns
  <2> QED BY <2>1
<1> HIDE DEF f
<1>3. f[0] = [entries |-> <<>>, toDrop |-> n] BY <1>1, <1>2 DEF Drops
<1>4. DropEnd(<<>>, n) = [entries |-> <<>>, toDrop |-> n] BY <1>1, <1>3 DEF DropEnd, f
<1>6. DropEnd(<<>>, n).entries = <<>> /\ DropEnd(<<>>, n).toDrop = n BY <1>4
<1>5. [entries |-> <<>>, toDrop |-> n] \in DropStates BY DEF DropStates
<1>7. DropEnd(<<>>, n) \in DropStates BY <1>4, <1>5
<1> QED BY <1>6, <1>7

\* What the loop still has to drop is what it was told less what had an outcome.
LEMMA DropEndType ==
  ASSUME NEW n \in Nat
  PROVE  \A s \in Seq(Entries) :
           /\ DropEnd(s, n) \in DropStates
           /\ DropEnd(s, n).toDrop = IF n >= Len(Resolved(s)) THEN n - Len(Resolved(s)) ELSE 0
<1> DEFINE G == {s \in Seq(Entries) :
                   /\ DropEnd(s, n) \in DropStates
                   /\ DropEnd(s, n).toDrop = IF n >= Len(Resolved(s)) THEN n - Len(Resolved(s)) ELSE 0}
<1>1. <<>> \in G 
  <2>1. <<>> \in Seq(Entries) OBVIOUS
  <2> QED BY <2>1, DropEndEmpty, ResolvedEmpty
<1>2. ASSUME NEW s \in Seq(Entries), NEW e \in Entries, s \in G PROVE Append(s, e) \in G
  <2> DEFINE k == DropEnd(s, n)
             r == Len(Resolved(s))
  <2>1. /\ k \in DropStates /\ k.toDrop = (IF n >= r THEN n - r ELSE 0)
        /\ r \in Nat
    BY <1>2, ResolvedType
  <2>2. DropEnd(Append(s, e), n) = DropTurn(e, k) BY DropEndAppend
  <2>3. DropTurn(e, k) \in DropStates BY <2>1, DropTurnType
  <2>4. DropTurn(e, k).toDrop =
          IF ~IsPending(e) /\ k.toDrop > 0 THEN k.toDrop - 1 ELSE k.toDrop
    BY <2>1, Settled DEF DropTurn, DropStates
  <2>5. Len(Resolved(Append(s, e))) = IF IsPending(e) THEN r ELSE r + 1 BY ResolvedAppend
  <2>6. Append(s, e) \in Seq(Entries) OBVIOUS
  <2> HIDE DEF k, r
  <2>7. DropTurn(e, k).toDrop = IF n >= Len(Resolved(Append(s, e)))
                                THEN n - Len(Resolved(Append(s, e))) ELSE 0
    BY <2>1, <2>4, <2>5
  <2> QED BY <2>2, <2>3, <2>6, <2>7
<1> HIDE DEF G
<1>3. \A s \in Seq(Entries) : s \in G BY <1>1, <1>2, AppendInduction
<1> QED BY <1>3 DEF G

\* The loop, entry by entry.
LEMMA DropOldestIs ==
  ASSUME NEW s \in Seq(Entries), NEW n \in Nat
  PROVE  DropOldest(s, n) = DropEnd(s, n).entries
BY DEF DropOldest, DropEnd, Drops, DropTurn

\* With an entry more at the end: it is dropped if there are too few before it.
LEMMA DropOldestAppend ==
  ASSUME NEW s \in Seq(Entries), NEW e \in Entries, NEW n \in Nat
  PROVE  /\ DropOldest(s, n) \in Seq(Entries)
         /\ DropOldest(Append(s, e), n) =
              IF ~IsPending(e) /\ n > Len(Resolved(s)) THEN DropOldest(s, n)
              ELSE Append(DropOldest(s, n), e)
<1> DEFINE k == DropEnd(s, n)
           r == Len(Resolved(s))
<1>1. /\ k \in DropStates /\ k.toDrop = (IF n >= r THEN n - r ELSE 0) /\ r \in Nat
  BY DropEndType, ResolvedType
<1>2. DropOldest(s, n) = k.entries BY DropOldestIs
<1>3. DropOldest(Append(s, e), n) = DropTurn(e, k).entries
  <2>1. Append(s, e) \in Seq(Entries) OBVIOUS
  <2> QED BY <2>1, DropOldestIs, DropEndAppend
<1>4. DropTurn(e, k).entries =
        IF ~IsPending(e) /\ k.toDrop > 0 THEN k.entries ELSE Append(k.entries, e)
  BY <1>1, Settled DEF DropTurn, DropStates
<1>5. k.toDrop > 0 <=> n > r
  <2> HIDE DEF k, r
  <2> QED BY <1>1
<1>6. k.entries \in Seq(Entries) BY <1>1 DEF DropStates
<1> HIDE DEF k
<1> QED BY <1>2, <1>3, <1>4, <1>5, <1>6

\* Of nothing, nothing is dropped.
LEMMA DropOldestEmpty == ASSUME NEW n \in Nat PROVE DropOldest(<<>>, n) = <<>>
<1>1. <<>> \in Seq(Entries) OBVIOUS
<1>2. DropOldest(<<>>, n) = DropEnd(<<>>, n).entries BY <1>1, DropOldestIs
<1> QED BY <1>2, DropEndEmpty

\* From as many as there are on, it does not matter how many are to be dropped.
LEMMA DropAll ==
  \A s \in Seq(Entries) : \A m, n \in Nat :
    m >= Len(Resolved(s)) /\ n >= Len(Resolved(s)) => DropOldest(s, m) = DropOldest(s, n)
<1> DEFINE G == {s \in Seq(Entries) : \A m, n \in Nat :
                   m >= Len(Resolved(s)) /\ n >= Len(Resolved(s))
                     => DropOldest(s, m) = DropOldest(s, n)}
<1>1. <<>> \in G BY DropOldestEmpty
<1>2. ASSUME NEW s \in Seq(Entries), NEW e \in Entries, s \in G PROVE Append(s, e) \in G
  <2> DEFINE r == Len(Resolved(s))
  <2>1. r \in Nat /\ Append(s, e) \in Seq(Entries)
        /\ Len(Resolved(Append(s, e))) = IF IsPending(e) THEN r ELSE r + 1
    BY ResolvedAppend, ResolvedType
  <2>2. ASSUME NEW m \in Nat, NEW n \in Nat, m >= Len(Resolved(Append(s, e))),
               n >= Len(Resolved(Append(s, e)))
        PROVE  DropOldest(Append(s, e), m) = DropOldest(Append(s, e), n)
    <3>1. DropOldest(s, m) = DropOldest(s, n)
      <4>1. m >= r /\ n >= r
        <5> HIDE DEF r
        <5> QED BY <2>1, <2>2
      <4> QED BY <1>2, <4>1
    <3>2. /\ DropOldest(Append(s, e), m) = (IF ~IsPending(e) /\ m > r THEN DropOldest(s, m)
                                            ELSE Append(DropOldest(s, m), e))
          /\ DropOldest(Append(s, e), n) = (IF ~IsPending(e) /\ n > r THEN DropOldest(s, n)
                                            ELSE Append(DropOldest(s, n), e))
      BY DropOldestAppend
    <3>3. ~IsPending(e) => m > r /\ n > r
      <4> HIDE DEF r
      <4> QED BY <2>1, <2>2
    <3> QED BY <3>1, <3>2, <3>3
  <2> QED BY <2>1, <2>2
<1> HIDE DEF G
<1>3. \A s \in Seq(Entries) : s \in G BY <1>1, <1>2, AppendInduction
<1> QED BY <1>3 DEF G

\* Dropping none keeps the log.
LEMMA DropNone == \A s \in Seq(Entries) : DropOldest(s, 0) = s
<1> DEFINE G == {s \in Seq(Entries) : DropOldest(s, 0) = s}
<1>1. <<>> \in G BY DropOldestEmpty
<1>2. ASSUME NEW s \in Seq(Entries), NEW e \in Entries, s \in G PROVE Append(s, e) \in G
  <2>1. Len(Resolved(s)) \in Nat BY ResolvedType
  <2>2. ~(0 > Len(Resolved(s))) BY <2>1
  <2>3. DropOldest(Append(s, e), 0) = Append(DropOldest(s, 0), e) BY <2>2, DropOldestAppend
  <2> QED BY <1>2, <2>3
<1> HIDE DEF G
<1>3. \A s \in Seq(Entries) : s \in G BY <1>1, <1>2, AppendInduction
<1> QED BY <1>3 DEF G

\* What rotation leaves under a cap of n.
Latest(s, n) ==
  IF Len(Resolved(s)) <= n THEN s ELSE DropOldest(s, Len(Resolved(s)) - n)

\* _apply_rotation keeps what is latest under memory_log_max_entries.
LEMMA RotationIsLatest ==
  ASSUME NEW s \in Seq(Entries)
  PROVE  ApplyRotation(s) = IF MaxEntries = 0 THEN s ELSE Latest(s, MaxEntries)
<1> DEFINE r == Len(Resolved(s))
<1>1. r \in Nat /\ MaxEntries \in Nat BY ResolvedType, LogAssumption
<1>2. ApplyRotation(s) =
        IF MaxEntries = 0 \/ r - MaxEntries <= 0 THEN s ELSE DropOldest(s, r - MaxEntries)
  BY DEF ApplyRotation
<1>3. Latest(s, MaxEntries) = IF r <= MaxEntries THEN s ELSE DropOldest(s, r - MaxEntries)
  BY DEF Latest
<1> HIDE DEF r
<1>4. r - MaxEntries <= 0 <=> r <= MaxEntries BY <1>1
<1> QED BY <1>2, <1>3, <1>4

\* Of nothing, nothing is latest.
LEMMA LatestEmpty == ASSUME NEW n \in Nat PROVE Latest(<<>>, n) = <<>>
BY ResolvedEmpty DEF Latest

\* An entry at the end stays, and takes a place if it has an outcome.
LEMMA LatestAppend ==
  ASSUME NEW s \in Seq(Entries), NEW e \in Entries, NEW n \in Nat
  PROVE  /\ IsPending(e) => Latest(Append(s, e), n) = Append(Latest(s, n), e)
         /\ ~IsPending(e) /\ n > 0 => Latest(Append(s, e), n) = Append(Latest(s, n - 1), e)
         /\ ~IsPending(e) /\ n = 0 => Latest(Append(s, e), n) = Latest(s, 0)
<1> DEFINE r == Len(Resolved(s))
           u == Append(s, e)
<1>1. r \in Nat BY ResolvedType
<1>2. u \in Seq(Entries) /\ Len(Resolved(u)) = IF IsPending(e) THEN r ELSE r + 1
  BY ResolvedAppend
<1>3. \A m \in Nat : Latest(s, m) = IF r <= m THEN s ELSE DropOldest(s, r - m) BY DEF Latest
<1>4. Latest(u, n) = IF Len(Resolved(u)) <= n THEN u ELSE DropOldest(u, Len(Resolved(u)) - n)
  BY DEF Latest
<1>5. \A m \in Nat : DropOldest(u, m) = IF ~IsPending(e) /\ m > r THEN DropOldest(s, m)
                                        ELSE Append(DropOldest(s, m), e)
  BY DropOldestAppend
<1>6. DropOldest(s, 0) = s BY DropNone
<1>7. DropOldest(s, r + 1) = DropOldest(s, r)
  <2>1. r + 1 \in Nat /\ r + 1 >= r /\ r >= r
    <3> HIDE DEF r
    <3> QED BY <1>1
  <2> QED BY <1>1, <2>1, DropAll
<1>8. u = Append(s, e) OBVIOUS
<1> HIDE DEF r, u
<1>9. ASSUME IsPending(e) PROVE Latest(u, n) = Append(Latest(s, n), e)
  <2>1. CASE r <= n BY <1>2, <1>3, <1>4, <1>8, <1>9, <2>1
  <2>2. CASE r > n
    <3>1. r - n \in Nat /\ ~(r <= n) BY <1>1, <2>2
    <3> QED BY <1>2, <1>3, <1>4, <1>5, <1>9, <3>1
  <2> QED BY <1>1, <2>1, <2>2
<1>10. ASSUME ~IsPending(e), n > 0 PROVE Latest(u, n) = Append(Latest(s, n - 1), e)
  <2>1. n - 1 \in Nat /\ (r + 1 <= n <=> r <= n - 1) /\ (r + 1) - n = r - (n - 1)
    BY <1>1, <1>10
  <2>2. CASE r + 1 <= n BY <1>2, <1>3, <1>4, <1>8, <1>10, <2>1, <2>2
  <2>3. CASE ~(r + 1 <= n)
    <3>1. (r + 1) - n \in Nat /\ ~((r + 1) - n > r) BY <1>1, <1>10, <2>3
    <3>2. Latest(u, n) = Append(DropOldest(s, (r + 1) - n), e)
      BY <1>2, <1>4, <1>5, <1>10, <2>3, <3>1
    <3>3. Latest(s, n - 1) = DropOldest(s, r - (n - 1)) BY <1>3, <2>1, <2>3
    <3> QED BY <2>1, <3>2, <3>3
  <2> QED BY <2>2, <2>3
<1>11. ASSUME ~IsPending(e), n = 0 PROVE Latest(u, n) = Latest(s, 0)
  <2>1. r + 1 \in Nat /\ ~(r + 1 <= 0) /\ r + 1 > r /\ (r + 1) - 0 = r + 1 BY <1>1
  <2>2. Latest(u, n) = DropOldest(s, r) BY <1>2, <1>4, <1>5, <1>7, <1>11, <2>1
  <2>3. CASE r = 0
    <3>1. Latest(s, 0) = s BY <1>3, <2>3
    <3> QED BY <1>6, <2>2, <2>3, <3>1
  <2>4. CASE r # 0
    <3>1. ~(r <= 0) /\ r - 0 = r BY <1>1, <2>4
    <3> QED BY <1>3, <2>2, <3>1
  <2> QED BY <2>3, <2>4
<1> QED BY <1>9, <1>10, <1>11 DEF u

\* Rotation adds nothing, loses nothing that is pending, makes nothing pending
\* twice, and leaves no more outcomes than its cap.
LEMMA LatestFacts ==
  ASSUME NEW s \in Seq(Entries), NEW n \in Nat
  PROVE  /\ Latest(s, n) \in Seq(Entries)
         /\ \A e : Has(Latest(s, n), e) => Has(s, e)
         /\ \A e : IsPending(e) /\ Has(s, e) => Has(Latest(s, n), e)
         /\ Once(s) => Once(Latest(s, n))
         /\ Len(Resolved(Latest(s, n))) <= n
<1> DEFINE Facts(u, m) == /\ Latest(u, m) \in Seq(Entries)
                          /\ \A e : Has(Latest(u, m), e) => Has(u, e)
                          /\ \A e : IsPending(e) /\ Has(u, e) => Has(Latest(u, m), e)
                          /\ Once(u) => Once(Latest(u, m))
                          /\ Len(Resolved(Latest(u, m))) <= m
           G == {u \in Seq(Entries) : \A m \in Nat : Facts(u, m)}
<1>1. <<>> \in G
  <2>1. <<>> \in Seq(Entries) OBVIOUS
  <2>2. ASSUME NEW m \in Nat PROVE Facts(<<>>, m)
    <3>1. 0 <= m OBVIOUS
    <3> QED BY <2>1, <3>1, LatestEmpty, ResolvedEmpty
  <2> QED BY <2>1, <2>2
<1>2. ASSUME NEW u \in Seq(Entries), NEW x \in Entries, u \in G PROVE Append(u, x) \in G
  <2>1. \A m \in Nat : Facts(u, m) BY <1>2
  <2> HIDE DEF G
  <2>2. ASSUME NEW m \in Nat PROVE Facts(Append(u, x), m)
    <3>1. CASE IsPending(x)
      <4>1. Facts(u, m) BY <2>1
      <4>2. Latest(Append(u, x), m) = Append(Latest(u, m), x) BY <3>1, LatestAppend
      <4>3. /\ \A e : Has(Append(Latest(u, m), x), e) <=> Has(Latest(u, m), e) \/ e = x
            /\ \A e : Has(Append(u, x), e) <=> Has(u, e) \/ e = x
        BY <4>1, HasAppend
      <4>4. /\ Once(Append(u, x)) <=> Once(u) /\ (IsPending(x) => ~Has(u, x))
            /\ Once(Append(Latest(u, m), x))
                 <=> Once(Latest(u, m)) /\ (IsPending(x) => ~Has(Latest(u, m), x))
        BY <4>1, OnceAppend
      <4>5. /\ Append(Latest(u, m), x) \in Seq(Entries)
            /\ Len(Resolved(Append(Latest(u, m), x))) = Len(Resolved(Latest(u, m)))
        BY <3>1, <4>1, ResolvedAppend
      <4> QED BY <4>1, <4>2, <4>3, <4>4, <4>5
    <3>2. CASE ~IsPending(x) /\ m > 0
      <4>1. m - 1 \in Nat BY <3>2
      <4>2. Facts(u, m - 1) BY <2>1, <4>1
      <4> DEFINE v == Latest(u, m - 1)
      <4>3. Latest(Append(u, x), m) = Append(v, x) BY <3>2, LatestAppend
      <4>4. /\ \A e : Has(Append(v, x), e) <=> Has(v, e) \/ e = x
            /\ \A e : Has(Append(u, x), e) <=> Has(u, e) \/ e = x
        BY <4>2, HasAppend
      <4>5. /\ Once(Append(u, x)) <=> Once(u) /\ (IsPending(x) => ~Has(u, x))
            /\ Once(Append(v, x)) <=> Once(v) /\ (IsPending(x) => ~Has(v, x))
        BY <4>2, OnceAppend
      <4>6. Append(v, x) \in Seq(Entries) /\ Len(Resolved(Append(v, x))) <= m
        <5>1. /\ Append(v, x) \in Seq(Entries) /\ Len(Resolved(v)) \in Nat
              /\ Len(Resolved(Append(v, x))) = Len(Resolved(v)) + 1
          BY <3>2, <4>2, ResolvedAppend, ResolvedType
        <5>2. Len(Resolved(v)) <= m - 1 BY <4>2
        <5> HIDE DEF v
        <5> QED BY <5>1, <5>2
      <4> HIDE DEF v
      <4>7. /\ \A e : Has(v, e) => Has(u, e)
            /\ \A e : IsPending(e) /\ Has(u, e) => Has(v, e)
            /\ Once(u) => Once(v)
        BY <4>2 DEF v
      <4> QED BY <3>2, <4>3, <4>4, <4>5, <4>6, <4>7
    <3>3. CASE ~IsPending(x) /\ m = 0
      <4>1. Facts(u, 0) BY <2>1
      <4>2. Latest(Append(u, x), m) = Latest(u, 0) BY <3>3, LatestAppend
      <4>3. \A e : Has(Append(u, x), e) <=> Has(u, e) \/ e = x BY HasAppend
      <4>4. Once(Append(u, x)) <=> Once(u) /\ (IsPending(x) => ~Has(u, x)) BY OnceAppend
      <4> QED BY <3>3, <4>1, <4>2, <4>3, <4>4
    <3> QED BY <3>1, <3>2, <3>3
  <2>3. Append(u, x) \in Seq(Entries) OBVIOUS
  <2> HIDE DEF Facts
  <2> QED BY <2>2, <2>3 DEF G
<1> HIDE DEF G, Facts
<1>3. \A u \in Seq(Entries) : u \in G BY <1>1, <1>2, AppendInduction
<1>4. Facts(s, n) BY <1>3 DEF G
<1> QED BY <1>4 DEF Facts

\* The same of _apply_rotation.
LEMMA RotationFacts ==
  ASSUME NEW s \in Seq(Entries)
  PROVE  /\ ApplyRotation(s) \in Seq(Entries)
         /\ \A e : Has(ApplyRotation(s), e) => Has(s, e)
         /\ \A e : IsPending(e) /\ Has(s, e) => Has(ApplyRotation(s), e)
         /\ Once(s) => Once(ApplyRotation(s))
         /\ MaxEntries > 0 => Len(Resolved(ApplyRotation(s))) <= MaxEntries
BY RotationIsLatest, LatestFacts, LogAssumption

-----------------------------------------------------------------------------
(* Outcomes are put where their decisions are pending.                     *)

\* The decision an outcome is of, and a batch: at most one outcome of each.
Decision(u) == Entry(u.ticker, u.date, Pending)
Batch(us) == /\ us \subseteq Outcomes(Tickers)
             /\ \A u, v \in us : Decision(u) = Decision(v) => u = v

\* The batch without rotation: each outcome goes where its decision is pending.
PutOne(e, us) ==
  IF \E u \in us : Decision(u) = e THEN CHOOSE u \in us : Decision(u) = e ELSE e
Put(s, us) == [i \in DOMAIN s |-> PutOne(s[i], us)]

\* An entry is replaced by the outcome of it in the batch, and only then.
LEMMA PutOneFacts ==
  ASSUME NEW us, Batch(us), NEW e \in Entries
  PROVE  /\ PutOne(e, us) \in Entries
         /\ ~IsPending(e) => PutOne(e, us) = e
         /\ (\A u \in us : Decision(u) # e) => PutOne(e, us) = e
         /\ \A u \in us : Decision(u) = e => PutOne(e, us) = u /\ ~IsPending(PutOne(e, us))
         /\ IsPending(PutOne(e, us)) => PutOne(e, us) = e /\ \A u \in us : Decision(u) # e
<1>1. \A u \in us : u \in Entries /\ ~IsPending(u) BY Settled, SettledAreEntries DEF Batch
<1>2. \A u : IsPending(Decision(u)) BY DEF Decision, Entry, IsPending, Pending
<1>3. CASE \E u \in us : Decision(u) = e
  <2>1. PICK u \in us : Decision(u) = e BY <1>3
  <2>2. PutOne(e, us) = CHOOSE v \in us : Decision(v) = e BY <1>3 DEF PutOne
  <2>3. PutOne(e, us) \in us /\ Decision(PutOne(e, us)) = e BY <2>1, <2>2
  <2>4. \A v \in us : Decision(v) = e => PutOne(e, us) = v BY <2>3 DEF Batch
  <2> QED BY <1>1, <1>2, <2>1, <2>3, <2>4
<1>4. CASE ~ \E u \in us : Decision(u) = e
  <2>1. PutOne(e, us) = e BY <1>4 DEF PutOne
  <2> QED BY <1>4, <2>1
<1> QED BY <1>3, <1>4

\* Putting outcomes works entry by entry.
LEMMA PutType ==
  ASSUME NEW us, Batch(us), NEW s \in Seq(Entries)
  PROVE  /\ Put(s, us) \in Seq(Entries) /\ DOMAIN Put(s, us) = DOMAIN s
         /\ \A i \in DOMAIN s : Put(s, us)[i] = PutOne(s[i], us)
<1>1. DOMAIN s = 1 .. Len(s) /\ Len(s) \in Nat /\ \A i \in 1 .. Len(s) : s[i] \in Entries OBVIOUS
<1>2. \A i \in 1 .. Len(s) : PutOne(s[i], us) \in Entries BY <1>1, PutOneFacts
<1>3. Put(s, us) = [i \in 1 .. Len(s) |-> PutOne(s[i], us)] BY <1>1 DEF Put
<1>4. Put(s, us) \in Seq(Entries) BY <1>1, <1>2, <1>3
<1> QED BY <1>1, <1>3, <1>4

\* So it can be said from the end.
LEMMA PutAppend ==
  ASSUME NEW us, Batch(us), NEW s \in Seq(Entries), NEW e \in Entries
  PROVE  Put(Append(s, e), us) = Append(Put(s, us), PutOne(e, us))
<1> DEFINE u == Append(s, e)
           n == Len(s)
<1>1. /\ n \in Nat /\ DOMAIN u = 1 .. n + 1 /\ DOMAIN s = 1 .. n /\ u[n + 1] = e
      /\ \A i \in 1 .. n : u[i] = s[i]
  OBVIOUS
<1>2. /\ Put(s, us) \in Seq(Entries) /\ DOMAIN Put(s, us) = DOMAIN s
      /\ \A i \in DOMAIN s : Put(s, us)[i] = PutOne(s[i], us)
  BY PutType
<1>3. Len(Put(s, us)) = n BY <1>1, <1>2
<1> HIDE DEF u, n
<1>4. Put(u, us) = [i \in 1 .. n + 1 |-> PutOne(u[i], us)] BY <1>1 DEF Put
<1>5. ASSUME NEW i \in 1 .. n + 1
      PROVE  PutOne(u[i], us) = IF i = n + 1 THEN PutOne(e, us) ELSE Put(s, us)[i]
  <2>1. CASE i = n + 1 BY <1>1, <2>1
  <2>2. CASE i # n + 1
    <3>1. i \in 1 .. n BY <1>1, <2>2
    <3> QED BY <1>1, <1>2, <2>2, <3>1
  <2> QED BY <2>1, <2>2
<1>6. Put(u, us) = [i \in 1 .. n + 1 |-> IF i = n + 1 THEN PutOne(e, us) ELSE Put(s, us)[i]]
  BY <1>4, <1>5
<1>7. Append(Put(s, us), PutOne(e, us)) =
        [i \in 1 .. n + 1 |-> IF i = n + 1 THEN PutOne(e, us) ELSE Put(s, us)[i]]
  <2>1. PutOne(e, us) \in Entries BY PutOneFacts
  <2> DEFINE v == Put(s, us)
             x == PutOne(e, us)
  <2>2. v \in Seq(Entries) /\ Len(v) = n /\ x \in Entries BY <1>2, <1>3, <2>1
  <2> HIDE DEF v, x
  <2>3. Append(v, x) = [i \in 1 .. n + 1 |-> IF i = n + 1 THEN x ELSE v[i]]
    <3> DEFINE w == Append(v, x)
    <3>1. /\ w \in Seq(Entries) /\ Len(w) = n + 1
          /\ \A i \in 1 .. n + 1 : w[i] = IF i = n + 1 THEN x ELSE v[i]
      BY <1>1, <2>2
    <3> HIDE DEF w
    <3>2. w = [i \in 1 .. n + 1 |-> w[i]] BY <3>1
    <3>3. w = [i \in 1 .. n + 1 |-> IF i = n + 1 THEN x ELSE v[i]] BY <3>1, <3>2
    <3> QED BY <3>3 DEF w
  <2> QED BY <2>3 DEF v, x
<1> QED BY <1>6, <1>7 DEF u

\* What a log has when outcomes have been put: its entries but for those
\* decisions, and the outcomes of decisions it had.
LEMMA PutFacts ==
  ASSUME NEW us, Batch(us), NEW s \in Seq(Entries)
  PROVE  /\ Put(s, us) \in Seq(Entries)
         /\ \A e : Has(Put(s, us), e) => Has(s, e) \/ (e \in us /\ Has(s, Decision(e)))
         /\ \A e : Has(s, e) /\ (\A u \in us : Decision(u) # e) => Has(Put(s, us), e)
         /\ Once(s) => Once(Put(s, us))
<1> DEFINE v == Put(s, us)
<1>1. /\ v \in Seq(Entries) /\ DOMAIN v = DOMAIN s
      /\ \A i \in DOMAIN s : v[i] = PutOne(s[i], us) /\ s[i] \in Entries
  BY PutType
<1> HIDE DEF v
<1>2. ASSUME NEW e, Has(v, e) PROVE Has(s, e) \/ (e \in us /\ Has(s, Decision(e)))
  <2>1. PICK i \in DOMAIN s : PutOne(s[i], us) = e /\ s[i] \in Entries BY <1>1, <1>2 DEF Has
  <2>2. CASE \A u \in us : Decision(u) # s[i]
    <3>1. e = s[i] BY <2>1, <2>2, PutOneFacts
    <3> QED BY <3>1 DEF Has
  <2>3. CASE \E u \in us : Decision(u) = s[i]
    <3>1. PICK u \in us : Decision(u) = s[i] BY <2>3
    <3>2. e = u BY <2>1, <3>1, PutOneFacts
    <3> QED BY <3>1, <3>2 DEF Has
  <2> QED BY <2>2, <2>3
<1>3. ASSUME NEW e, Has(s, e), \A u \in us : Decision(u) # e PROVE Has(v, e)
  <2>1. PICK i \in DOMAIN s : s[i] = e BY <1>3 DEF Has
  <2>2. v[i] = e BY <1>1, <1>3, <2>1, PutOneFacts
  <2> QED BY <1>1, <2>2 DEF Has
<1>4. ASSUME Once(s) PROVE Once(v)
  <2> SUFFICES ASSUME NEW i \in DOMAIN s, NEW j \in DOMAIN s, IsPending(v[i]), v[i] = v[j]
               PROVE  i = j
    BY <1>1 DEF Once
  <2>1. v[i] = s[i] /\ v[j] = s[j] /\ IsPending(s[i])
    <3>1. PutOne(s[i], us) = v[i] /\ PutOne(s[j], us) = v[j] BY <1>1
    <3>2. IsPending(PutOne(s[i], us)) /\ IsPending(PutOne(s[j], us)) BY <3>1
    <3> QED BY <1>1, <3>1, <3>2, PutOneFacts
  <2> QED BY <1>4, <2>1 DEF Once
<1> QED BY <1>1, <1>2, <1>3, <1>4 DEF v

\* Into nothing, nothing is put.
LEMMA PutEmpty == ASSUME NEW us PROVE Put(<<>>, us) = <<>>
BY DEF Put

\* Putting an outcome after others is putting all of them.
LEMMA PutPut ==
  ASSUME NEW us, NEW u, Batch(us \cup {u}), u \notin us, NEW s \in Seq(Entries)
  PROVE  Put(Put(s, us), {u}) = Put(s, us \cup {u})
<1>1. Batch(us) /\ Batch({u}) BY DEF Batch
<1>2. \A v \in us : Decision(v) # Decision(u) BY DEF Batch
<1>3. /\ Put(s, us) \in Seq(Entries) /\ DOMAIN Put(s, us) = DOMAIN s
      /\ \A i \in DOMAIN s : Put(s, us)[i] = PutOne(s[i], us) /\ s[i] \in Entries
  BY <1>1, PutType
<1>4. ASSUME NEW e \in Entries
      PROVE  PutOne(PutOne(e, us), {u}) = PutOne(e, us \cup {u})
  <2>1. CASE Decision(u) = e
    <3>1. PutOne(e, us) = e BY <1>1, <1>2, <2>1, PutOneFacts
    <3>2. PutOne(e, {u}) = u BY <1>1, <2>1, PutOneFacts
    <3>3. PutOne(e, us \cup {u}) = u BY <2>1, PutOneFacts
    <3> QED BY <3>1, <3>2, <3>3
  <2>2. CASE \E v \in us : Decision(v) = e
    <3>1. PICK v \in us : Decision(v) = e BY <2>2
    <3>2. PutOne(e, us) = v BY <1>1, <3>1, PutOneFacts
    <3>3. v \in Entries /\ ~IsPending(v) BY <1>1, Settled, SettledAreEntries DEF Batch
    <3>4. PutOne(v, {u}) = v BY <1>1, <3>3, PutOneFacts
    <3>5. PutOne(e, us \cup {u}) = v
      <4>1. v \in us \cup {u} OBVIOUS
      <4> QED BY <3>1, <4>1, PutOneFacts
    <3> QED BY <3>2, <3>4, <3>5
  <2>3. CASE \A v \in us \cup {u} : Decision(v) # e
    <3>1. PutOne(e, us) = e /\ PutOne(e, {u}) = e BY <1>1, <2>3, PutOneFacts
    <3>2. PutOne(e, us \cup {u}) = e BY <2>3, PutOneFacts
    <3> QED BY <3>1, <3>2
  <2> QED BY <2>1, <2>2, <2>3
<1>5. Put(Put(s, us), {u}) = [i \in DOMAIN s |-> PutOne(PutOne(s[i], us), {u})]
  BY <1>3 DEF Put
<1> QED BY <1>3, <1>4, <1>5 DEF Put

\* What is rotated out before outcomes are put would be rotated out after.
LEMMA LatestOfPut ==
  ASSUME NEW us, Batch(us), NEW s \in Seq(Entries), NEW a \in Nat, NEW b \in Nat, b <= a
  PROVE  Latest(Put(Latest(s, a), us), b) = Latest(Put(s, us), b)
<1> DEFINE Same(u, m, n) == Latest(Put(Latest(u, m), us), n) = Latest(Put(u, us), n)
           G == {u \in Seq(Entries) : \A m, n \in Nat : n <= m => Same(u, m, n)}
<1>1. <<>> \in G
  <2>1. <<>> \in Seq(Entries) OBVIOUS
  <2>2. \A m \in Nat : Latest(<<>>, m) = <<>> BY LatestEmpty
  <2> QED BY <2>1, <2>2
<1>2. ASSUME NEW u \in Seq(Entries), NEW e \in Entries, u \in G PROVE Append(u, e) \in G
  <2>1. \A m, n \in Nat : n <= m => Same(u, m, n) BY <1>2
  <2> HIDE DEF G
  <2> DEFINE x == PutOne(e, us)
  <2>2. x \in Entries /\ (~IsPending(e) => x = e) BY PutOneFacts
  <2>3. /\ Put(u, us) \in Seq(Entries)
        /\ Put(Append(u, e), us) = Append(Put(u, us), x)
    BY PutType, PutAppend
  <2>4. \A m \in Nat : Latest(u, m) \in Seq(Entries) BY LatestFacts
  <2>5. \A m \in Nat : /\ Put(Latest(u, m), us) \in Seq(Entries)
                       /\ Put(Append(Latest(u, m), e), us) = Append(Put(Latest(u, m), us), x)
    BY <2>4, PutType, PutAppend
  <2> HIDE DEF x
  <2>9. \A v \in Seq(Entries), n \in Nat :
          Latest(Append(v, x), n) = IF IsPending(x) THEN Append(Latest(v, n), x)
                                    ELSE IF n > 0 THEN Append(Latest(v, n - 1), x)
                                    ELSE Latest(v, 0)
    <3>1. ASSUME NEW v \in Seq(Entries), NEW n \in Nat
          PROVE  /\ IsPending(x) => Latest(Append(v, x), n) = Append(Latest(v, n), x)
                 /\ ~IsPending(x) /\ n > 0 => Latest(Append(v, x), n) = Append(Latest(v, n - 1), x)
                 /\ ~IsPending(x) /\ n = 0 => Latest(Append(v, x), n) = Latest(v, 0)
      BY <2>2, LatestAppend
    <3>2. \A n \in Nat : n > 0 \/ n = 0 OBVIOUS
    <3> QED BY <3>1, <3>2
  \* A tail that is the same stays so with an entry more.
  <2>6. ASSUME NEW m \in Nat, NEW n \in Nat, n <= m
        PROVE  Latest(Append(Put(Latest(u, m), us), x), n) = Latest(Append(Put(u, us), x), n)
    <3>1. PICK v \in Seq(Entries) : v = Put(Latest(u, m), us) BY <2>5
    <3>2. PICK w \in Seq(Entries) : w = Put(u, us) BY <2>3
    <3>3. \A k \in Nat : k <= m => Latest(v, k) = Latest(w, k) BY <2>1, <3>1, <3>2
    <3>4. Latest(v, n) = Latest(w, n) BY <2>6, <3>3
    <3>5. Latest(v, 0) = Latest(w, 0) BY <3>3
    <3>6. ASSUME n > 0 PROVE Latest(v, n - 1) = Latest(w, n - 1) BY <2>6, <3>3, <3>6
    <3>7. Latest(Append(v, x), n) = Latest(Append(w, x), n)
      <4>1. CASE IsPending(x)
        <5>1. Latest(Append(v, x), n) = Append(Latest(v, n), x) BY <2>9, <4>1
        <5>2. Latest(Append(w, x), n) = Append(Latest(w, n), x) BY <2>9, <4>1
        <5> QED BY <3>4, <5>1, <5>2
      <4>2. CASE ~IsPending(x) /\ n > 0 BY <2>9, <3>6, <4>2
      <4>3. CASE ~IsPending(x) /\ ~(n > 0) BY <2>9, <3>5, <4>3
      <4> QED BY <4>1, <4>2, <4>3
    <3> QED BY <3>1, <3>2, <3>7
  <2>7. ASSUME NEW m \in Nat, NEW n \in Nat, n <= m PROVE Same(Append(u, e), m, n)
    <3>1. CASE IsPending(e)
      <4>1. Latest(Append(u, e), m) = Append(Latest(u, m), e) BY <3>1, LatestAppend
      <4>2. Put(Latest(Append(u, e), m), us) = Append(Put(Latest(u, m), us), x)
        BY <2>5, <4>1
      <4> QED BY <2>3, <2>6, <2>7, <4>2
    <3>2. CASE ~IsPending(e) /\ m > 0
      <4>0. m - 1 \in Nat BY <3>2
      <4>1. Latest(Append(u, e), m) = Append(Latest(u, m - 1), e) BY <3>2, LatestAppend
      <4>2. Put(Latest(Append(u, e), m), us) = Append(Put(Latest(u, m - 1), us), x)
        BY <2>5, <4>0, <4>1
      <4>3. CASE n <= m - 1 BY <2>3, <2>6, <4>0, <4>2, <4>3
      <4>4. CASE n = m
        <5>1. n - 1 = m - 1 /\ n > 0 /\ x = e BY <2>2, <3>2, <4>4
        <5>2. /\ Latest(Append(Put(Latest(u, m - 1), us), x), n)
                   = Append(Latest(Put(Latest(u, m - 1), us), n - 1), x)
              /\ Latest(Append(Put(u, us), x), n) = Append(Latest(Put(u, us), n - 1), x)
          <6>1. n > 0 /\ ~IsPending(x) BY <3>2, <5>1
          <6>2. Put(Latest(u, m - 1), us) \in Seq(Entries) BY <2>5, <4>0
          <6> QED BY <2>3, <2>9, <6>1, <6>2
        <5>3. Same(u, m - 1, n - 1)
          <6>1. n - 1 \in Nat /\ n - 1 <= m - 1 BY <4>0, <5>1
          <6> QED BY <2>1, <4>0, <6>1
        <5> QED BY <2>3, <4>2, <5>2, <5>3
      <4>5. n <= m - 1 \/ n = m BY <2>7, <3>2
      <4> QED BY <4>3, <4>4, <4>5
    <3>3. CASE ~IsPending(e) /\ m = 0
      <4>1. n = 0 /\ x = e BY <2>2, <2>7, <3>3
      <4>2. Latest(Append(u, e), m) = Latest(u, 0) BY <3>3, LatestAppend
      <4>3. Latest(Append(Put(u, us), x), 0) = Latest(Put(u, us), 0)
        BY <2>2, <2>3, <3>3, <4>1, LatestAppend
      <4>4. Same(u, 0, 0) BY <2>1
      <4> QED BY <2>3, <4>1, <4>2, <4>3, <4>4
    <3> QED BY <3>1, <3>2, <3>3
  <2>8. Append(u, e) \in Seq(Entries) OBVIOUS
  <2> HIDE DEF Same
  <2> QED BY <2>7, <2>8 DEF G
<1> HIDE DEF G, Same
<1>3. \A u \in Seq(Entries) : u \in G BY <1>1, <1>2, AppendInduction
<1>4. Same(s, a, b) BY <1>3 DEF G
<1> QED BY <1>4 DEF Same

\* Rotating before outcomes are put changes nothing of what rotating after leaves.
LEMMA RotationOfPut ==
  ASSUME NEW us, Batch(us), NEW s \in Seq(Entries)
  PROVE  ApplyRotation(Put(ApplyRotation(s), us)) = ApplyRotation(Put(s, us))
<1>1. /\ Put(s, us) \in Seq(Entries)
      /\ ApplyRotation(s) \in Seq(Entries) /\ Put(ApplyRotation(s), us) \in Seq(Entries)
  BY RotationFacts, PutType
<1>2. CASE MaxEntries = 0 BY <1>1, <1>2, RotationIsLatest
<1>3. CASE MaxEntries # 0
  <2>1. MaxEntries \in Nat /\ MaxEntries <= MaxEntries BY LogAssumption
  <2>2. Latest(Put(Latest(s, MaxEntries), us), MaxEntries) = Latest(Put(s, us), MaxEntries)
    BY <2>1, LatestOfPut
  <2> QED BY <1>1, <1>3, <2>2, RotationIsLatest
<1> QED BY <1>2, <1>3

-----------------------------------------------------------------------------
(* The batch of outcomes.                                                  *)

\* Where nothing is pending twice, the first entry pending under a name is any.
LEMMA FirstPendingIs ==
  ASSUME NEW s \in Seq(Entries), Once(s), NEW t, NEW d
  PROVE  FirstPending(s, t, d) = {i \in DOMAIN s : s[i] = Entry(t, d, Pending)}
<1>1. DOMAIN s = 1 .. Len(s) /\ Len(s) \in Nat OBVIOUS
<1>2. ASSUME NEW i \in DOMAIN s, s[i] = Entry(t, d, Pending), NEW j \in 1 .. i - 1
      PROVE  s[j] # Entry(t, d, Pending)
  <2>1. j \in DOMAIN s /\ j # i BY <1>1, <1>2
  <2>2. IsPending(s[i]) BY <1>2 DEF IsPending, Entry
  <2> QED BY <1>2, <2>1, <2>2 DEF Once
<1> QED BY <1>2 DEF FirstPending

\* A batch puts its outcomes and rotates.
LEMMA BatchIs ==
  ASSUME NEW s \in Seq(Entries), Once(s), NEW us, Batch(us)
  PROVE  BatchUpdateWithOutcomes(s, us) = ApplyRotation(Put(s, us))
<1> DEFINE of(i) == {u \in us : i \in FirstPending(s, u.ticker, u.date)}
           new == [i \in DOMAIN s |-> IF of(i) # {} THEN CHOOSE u \in of(i) : TRUE ELSE s[i]]
<1>1. BatchUpdateWithOutcomes(s, us) = ApplyRotation(new) BY DEF BatchUpdateWithOutcomes
<1>2. DOMAIN s = 1 .. Len(s) /\ Len(s) \in Nat OBVIOUS
<1>3. ASSUME NEW i \in DOMAIN s
      PROVE  (IF of(i) # {} THEN CHOOSE u \in of(i) : TRUE ELSE s[i]) = PutOne(s[i], us)
  <2>1. s[i] \in Entries BY <1>2
  <2>2. of(i) = {u \in us : Decision(u) = s[i]} BY FirstPendingIs DEF Decision
  <2> HIDE DEF of
  <2>3. CASE of(i) = {}
    <3>1. \A u \in us : Decision(u) # s[i] BY <2>2, <2>3
    <3> QED BY <2>1, <2>3, <3>1, PutOneFacts
  <2>4. CASE of(i) # {}
    <3>1. PICK u : u = CHOOSE v \in of(i) : TRUE OBVIOUS
    <3>2. u \in of(i) BY <2>4, <3>1
    <3>3. u \in us /\ Decision(u) = s[i] BY <2>2, <3>2
    <3>4. PutOne(s[i], us) = u BY <2>1, <3>3, PutOneFacts
    <3> QED BY <2>4, <3>1, <3>4
  <2> QED BY <2>3, <2>4
<1>4. new = Put(s, us) BY <1>3 DEF Put
<1> QED BY <1>1, <1>4

\* An update puts its outcome and rotates.
LEMMA UpdateIs ==
  ASSUME NEW s \in Seq(Entries), Once(s), NEW u, Batch({u}), Has(s, Decision(u))
  PROVE  UpdateWithOutcome(s, u.ticker, u.date, u.held) = ApplyRotation(Put(s, {u}))
<1> DEFINE at == FirstPending(s, u.ticker, u.date)
           new == [i \in DOMAIN s |-> IF i \in at THEN Entry(u.ticker, u.date, u.held) ELSE s[i]]
<1>1. DOMAIN s = 1 .. Len(s) /\ Len(s) \in Nat OBVIOUS
<1>2. at = {i \in DOMAIN s : s[i] = Decision(u)} BY FirstPendingIs DEF Decision
<1>3. at # {} BY <1>2 DEF Has
<1>4. UpdateWithOutcome(s, u.ticker, u.date, u.held) = ApplyRotation(new)
  BY <1>3 DEF UpdateWithOutcome
<1>5. Entry(u.ticker, u.date, u.held) = u BY DEF Entry, Batch, Outcomes
<1> HIDE DEF at
<1>6. ASSUME NEW i \in DOMAIN s
      PROVE  (IF i \in at THEN Entry(u.ticker, u.date, u.held) ELSE s[i]) = PutOne(s[i], {u})
  <2>1. s[i] \in Entries BY <1>1
  <2>2. CASE i \in at
    <3>1. Decision(u) = s[i] BY <1>2, <2>2
    <3>2. PutOne(s[i], {u}) = u BY <2>1, <3>1, PutOneFacts
    <3> QED BY <1>5, <2>2, <3>2
  <2>3. CASE i \notin at
    <3>1. \A v \in {u} : Decision(v) # s[i] BY <1>2, <2>3
    <3>2. PutOne(s[i], {u}) = s[i] BY <2>1, <3>1, PutOneFacts
    <3> QED BY <2>3, <3>2
  <2> QED BY <2>2, <2>3
<1>7. new = Put(s, {u}) BY <1>6 DEF Put
<1> QED BY <1>4, <1>7

\* The loop of outcomes one at a time, over sets of them.
OneMore(u, l) == UpdateWithOutcome(l, u.ticker, u.date, u.held)
Folds(us, s, f) ==
  f = [T \in SUBSET us |-> IF T = {} THEN s
                           ELSE OneMore(CHOOSE x \in T : TRUE, f[T \ {CHOOSE x \in T : TRUE}])]

\* What the fold of PendingUntilResolved unfolds to.
LEMMA FoldIs ==
  ASSUME NEW us, NEW s
  PROVE  FoldSet(LAMBDA u, l : UpdateWithOutcome(l, u.ticker, u.date, u.held), s, us)
           = (CHOOSE f : Folds(us, s, f))[us]
BY DEF FoldSet, MapThenFoldSet, Folds, OneMore

\* A batch does what its outcomes do one at a time, in whichever order.
THEOREM OneAtATime ==
  ASSUME NEW s \in Seq(Entries), Once(s), NEW us, Batch(us), IsFiniteSet(us), us # {},
         \A u \in us : Has(s, Decision(u))
  PROVE  FoldSet(LAMBDA u, l : UpdateWithOutcome(l, u.ticker, u.date, u.held), s, us)
           = BatchUpdateWithOutcomes(s, us)
<1> DEFINE after(T) == IF T = {} THEN s ELSE ApplyRotation(Put(s, T))
           pick(T) == CHOOSE x \in T : TRUE
           f == [T \in SUBSET us |-> after(T)]
<1>1. ASSUME NEW T \in SUBSET us, NEW x \in T
      PROVE  after(T) = OneMore(x, after(T \ {x}))
  <2>1. /\ Batch({x}) /\ Batch(T \ {x}) /\ Batch((T \ {x}) \cup {x}) /\ (T \ {x}) \cup {x} = T
        /\ x \notin T \ {x}
    BY DEF Batch
  <2>2. Has(s, Decision(x)) OBVIOUS
  <2>3. CASE T \ {x} = {}
    <3>1. T = {x} BY <2>3
    <3>2. OneMore(x, s) = ApplyRotation(Put(s, {x})) BY <2>1, <2>2, UpdateIs DEF OneMore
    <3> QED BY <2>3, <3>1, <3>2
  <2>4. CASE T \ {x} # {}
    <3> DEFINE v == Put(s, T \ {x})
               l == ApplyRotation(v)
    <3>1. v \in Seq(Entries) /\ Once(v) BY <2>1, PutFacts
    <3>2. Has(v, Decision(x))
      <4>1. \A u \in T \ {x} : Decision(u) # Decision(x) BY DEF Batch
      <4> QED BY <2>1, <2>2, <4>1, PutFacts
    <3>3. IsPending(Decision(x)) BY DEF IsPending, Decision, Entry
    <3> HIDE DEF v
    <3>4. l \in Seq(Entries) /\ Once(l) /\ Has(l, Decision(x))
      BY <3>1, <3>2, <3>3, RotationFacts
    <3> HIDE DEF l
    <3>5. OneMore(x, l) = ApplyRotation(Put(l, {x})) BY <2>1, <3>4, UpdateIs DEF OneMore
    <3>6. ApplyRotation(Put(l, {x})) = ApplyRotation(Put(v, {x}))
      BY <2>1, <3>1, RotationOfPut DEF l
    <3>7. Put(v, {x}) = Put(s, T)
      <4>1. Put(Put(s, T \ {x}), {x}) = Put(s, (T \ {x}) \cup {x}) BY <2>1, PutPut
      <4> QED BY <2>1, <4>1 DEF v
    <3>8. after(T \ {x}) = l BY <2>4 DEF l, v
    <3> QED BY <3>5, <3>6, <3>7, <3>8
  <2> QED BY <2>3, <2>4
<1>2. after({}) = s OBVIOUS
<1> HIDE DEF after
<1>3. Folds(us, s, f)
  <2>1. ASSUME NEW T \in SUBSET us
        PROVE  after(T) = IF T = {} THEN s ELSE OneMore(pick(T), f[T \ {pick(T)}])
    <3>1. CASE T = {} BY <1>2, <3>1
    <3>2. CASE T # {}
      <4>1. pick(T) \in T BY <3>2
      <4> HIDE DEF pick
      <4>2. T \ {pick(T)} \in SUBSET us OBVIOUS
      <4>3. f[T \ {pick(T)}] = after(T \ {pick(T)}) BY <4>2
      <4> HIDE DEF f
      <4> QED BY <1>1, <3>2, <4>1, <4>3
    <3> QED BY <3>1, <3>2
  <2>2. f = [T \in SUBSET us |-> IF T = {} THEN s ELSE OneMore(pick(T), f[T \ {pick(T)}])]
    BY <2>1
  <2> HIDE DEF f
  <2> QED BY <2>2 DEF Folds
<1> DEFINE g == CHOOSE g : Folds(us, s, g)
<1>4. Folds(us, s, g) BY <1>3
<1> HIDE DEF g
<1>5. \A T \in SUBSET us : g[T] = IF T = {} THEN s ELSE OneMore(pick(T), g[T \ {pick(T)}])
  BY <1>4 DEF Folds
<1> DEFINE G == {k \in Nat : \A T \in SUBSET us : Cardinality(T) = k => g[T] = after(T)}
<1>6. 0 \in G
  <2>1. ASSUME NEW T \in SUBSET us, Cardinality(T) = 0 PROVE g[T] = after(T)
    <3>1. T = {} BY <2>1, FS_Subset, FS_EmptySet
    <3> QED BY <1>2, <1>5, <3>1
  <2> QED BY <2>1
<1>7. ASSUME NEW k \in 0 .. Cardinality(us) - 1, k \in G PROVE k + 1 \in G
  <2>1. k \in Nat /\ k + 1 \in Nat /\ \A T \in SUBSET us : Cardinality(T) = k => g[T] = after(T)
    BY <1>7
  <2>2. ASSUME NEW T \in SUBSET us, Cardinality(T) = k + 1 PROVE g[T] = after(T)
    <3>1. T # {} /\ IsFiniteSet(T) BY <2>1, <2>2, FS_Subset, FS_EmptySet
    <3>2. pick(T) \in T BY <3>1
    <3> HIDE DEF pick, G
    <3>3. T \ {pick(T)} \in SUBSET us OBVIOUS
    <3>4. Cardinality(T \ {pick(T)}) = k
      <4>1. Cardinality(T \ {pick(T)}) = Cardinality(T) - 1 BY <3>1, <3>2, FS_RemoveElement
      <4> QED BY <2>1, <2>2, <4>1
    <3>5. g[T \ {pick(T)}] = after(T \ {pick(T)}) BY <2>1, <3>3, <3>4
    <3>6. g[T] = OneMore(pick(T), g[T \ {pick(T)}]) BY <1>5, <3>1
    <3> QED BY <1>1, <3>2, <3>5, <3>6
  <2> QED BY <2>1, <2>2
<1>8. g[us] = after(us)
  <2>1. Cardinality(us) \in Nat /\ Cardinality(us) \in 0 .. Cardinality(us)
    BY FS_CardinalityType
  <2> HIDE DEF G
  <2>2. Cardinality(us) \in G BY <1>6, <1>7, <2>1, UpTo
  <2> QED BY <2>2 DEF G
<1>9. after(us) = BatchUpdateWithOutcomes(s, us) BY BatchIs DEF after
<1> QED BY <1>8, <1>9, FoldIs DEF g

-----------------------------------------------------------------------------
(* The lessons.                                                            *)

\* A loop from the end of a sequence that takes what is of a kind, until it
\* has n, ends with the latest n of that kind, the latest first.
LEMMA TakenFromTheEnd ==
  ASSUME NEW S, NEW s \in Seq(S), NEW T, NEW n \in Nat, NEW h, h[0] = <<>>,
         \A i \in 1 .. Len(s) :
           h[i] = IF s[Len(s) + 1 - i] \in T /\ Len(h[i - 1]) < n
                  THEN Append(h[i - 1], s[Len(s) + 1 - i]) ELSE h[i - 1]
  PROVE  h[Len(s)] = Backwards(Last(KeepOnly(s, T), n))
<1>0. PICK m : m = Len(s) /\ m \in Nat OBVIOUS
<1>1. PICK f : IsKept(s, T, m, f) /\ KeepOnly(s, T) = f[m] BY <1>0, KeepOnlyIs
<1>2. PICK A : A = f[m] OBVIOUS
<1>3. \A i \in 0 .. m : f[i] \in Seq(S \cap T)
  <2>1. m \in 0 .. Len(s) BY <1>0
  <2>2. IsKept(s, T, m, f) BY <1>1
  <2> QED BY <2>1, <2>2, KeptType
<1>15. \A i \in 0 .. m : f[i] = Turn(s, T, f, i) BY <1>1 DEF IsKept
<1>4. f[0] = <<>> BY <1>0, <1>15 DEF Turn
<1>5. \A i \in 1 .. m : f[i] = IF s[i] \in T THEN Append(f[i - 1], s[i]) ELSE f[i - 1]
  <2>1. ASSUME NEW i \in 1 .. m
        PROVE  f[i] = IF s[i] \in T THEN Append(f[i - 1], s[i]) ELSE f[i - 1]
    <3>1. i \in 0 .. m /\ i # 0 BY <1>0
    <3>2. f[i] = Turn(s, T, f, i) BY <1>15, <3>1
    <3> QED BY <3>1, <3>2 DEF Turn
  <2> QED BY <2>1
<1>6. \A i \in 0 .. m : f[i] \in Seq(S) /\ Len(f[i]) \in Nat
  <2>1. \A i \in 0 .. m : \A j \in 1 .. Len(f[i]) : f[i][j] \in S BY <1>3
  <2> QED BY <1>3, <2>1
<1>7. \A i \in 1 .. m : s[i] \in S BY <1>0
\* What is kept of a prefix is a prefix of what is kept.
<1> DEFINE P(i) == Len(f[i]) <= Len(A) /\ \A j \in 1 .. Len(f[i]) : f[i][j] = A[j]
<1>8. \A i \in 0 .. m : P(i)
  <2> DEFINE G == {k \in Nat : P(m - k)}
  <2>1. 0 \in G
    <3>1. m - 0 = m /\ m \in 0 .. m BY <1>0
    <3> QED BY <1>2, <1>6, <3>1
  <2>2. ASSUME NEW k \in 0 .. m - 1, k \in G PROVE k + 1 \in G
    <3>1. PICK i : i = m - k /\ i \in 1 .. m /\ i - 1 = m - (k + 1) /\ i - 1 \in 0 .. m
                   /\ i \in 0 .. m
      BY <1>0
    <3>2. P(i) BY <2>2, <3>1
    <3>3. CASE s[i] \in T
      <4>1. f[i] = Append(f[i - 1], s[i]) BY <1>5, <3>1, <3>3
      <4>2. f[i - 1] \in Seq(S) /\ Len(f[i - 1]) \in Nat /\ s[i] \in S BY <1>6, <1>7, <3>1
      <4>3. Len(f[i]) = Len(f[i - 1]) + 1 /\ \A j \in 1 .. Len(f[i - 1]) : f[i][j] = f[i - 1][j]
        BY <4>1, <4>2
      <4>4. Len(A) \in Nat BY <1>0, <1>2, <1>6
      <4>5. P(i - 1) BY <3>2, <4>2, <4>3, <4>4
      <4> QED BY <3>1, <4>5
    <3>4. CASE s[i] \notin T
      <4>1. f[i] = f[i - 1] BY <1>5, <3>1, <3>4
      <4> QED BY <3>1, <3>2, <4>1
    <3> QED BY <3>3, <3>4
  <2> HIDE DEF G
  <2>3. \A k \in 0 .. m : k \in G BY <1>0, <2>1, <2>2, UpTo
  <2> SUFFICES ASSUME NEW i \in 0 .. m PROVE P(i) OBVIOUS
  <2>4. m - i \in 0 .. m /\ m - (m - i) = i BY <1>0
  <2>5. m - i \in G BY <2>3, <2>4
  <2>6. P(m - (m - i)) BY <2>5 DEF G
  <2> HIDE DEF P
  <2> QED BY <2>4, <2>6
<1>9. A \in Seq(S) /\ Len(A) \in Nat BY <1>0, <1>2, <1>6
\* What the loop has after i turns.
<1> DEFINE room(i) == IF Len(A) - Len(f[m - i]) <= n THEN Len(A) - Len(f[m - i]) ELSE n
           Q(i) == /\ h[i] \in Seq(S) /\ Len(h[i]) = room(i)
                   /\ \A j \in 1 .. Len(h[i]) : h[i][j] = A[Len(A) + 1 - j]
<1>10. \A i \in 0 .. m : Q(i)
  <2> DEFINE G == {i \in Nat : Q(i)}
  <2>1. 0 \in G
    <3>1. m - 0 = m BY <1>0
    <3>2. <<>> \in Seq(S) /\ Len(<<>>) = 0 OBVIOUS
    <3>3. Len(A) - Len(f[m - 0]) = 0 BY <1>2, <1>9, <3>1
    <3>4. room(0) = 0 BY <3>3
    <3>5. Len(h[0]) = 0 /\ h[0] \in Seq(S) BY <3>2
    <3> HIDE DEF room
    <3>6. \A j \in 1 .. Len(h[0]) : h[0][j] = A[Len(A) + 1 - j] BY <3>5
    <3> QED BY <3>4, <3>5, <3>6
  <2>2. ASSUME NEW i \in 0 .. m - 1, i \in G PROVE i + 1 \in G
    <3>1. PICK k : k = m - i /\ k \in 1 .. m /\ k - 1 = m - (i + 1) /\ k - 1 \in 0 .. m
                   /\ k \in 0 .. m /\ m + 1 - (i + 1) = k /\ (i + 1) - 1 = i /\ i + 1 \in 1 .. m
                   /\ i + 1 \in Nat
      BY <1>0
    <3>2. Q(i) BY <2>2
    <3>3. h[i + 1] = IF s[k] \in T /\ Len(h[i]) < n THEN Append(h[i], s[k]) ELSE h[i]
      BY <1>0, <3>1
    <3>4. /\ Len(f[k]) \in Nat /\ Len(f[k - 1]) \in Nat /\ f[k - 1] \in Seq(S) /\ s[k] \in S
          /\ P(k) /\ P(k - 1)
      <4> HIDE DEF P
      <4> QED BY <1>6, <1>7, <1>8, <3>1
    <3>5. /\ h[i] \in Seq(S)
          /\ Len(h[i]) = IF Len(A) - Len(f[k]) <= n THEN Len(A) - Len(f[k]) ELSE n
          /\ \A j \in 1 .. Len(h[i]) : h[i][j] = A[Len(A) + 1 - j]
      BY <3>1, <3>2
    <3>9. Len(h[i]) \in Nat
      <4>1. h[i] \in Seq(S) BY <3>5
      <4> QED BY ONLY <4>1
    <3>6. ASSUME h[i + 1] \in Seq(S),
                 Len(h[i + 1]) = IF Len(A) - Len(f[k - 1]) <= n THEN Len(A) - Len(f[k - 1]) ELSE n,
                 \A j \in 1 .. Len(h[i + 1]) : h[i + 1][j] = A[Len(A) + 1 - j]
          PROVE  i + 1 \in G
      BY <3>1, <3>6
    <3> HIDE DEF G, Q, room, P
    <3>7. CASE s[k] \notin T
      <4>1. f[k] = f[k - 1] /\ h[i + 1] = h[i] BY <1>5, <3>1, <3>3, <3>7
      <4> QED BY <3>5, <3>6, <4>1
    <3>8. CASE s[k] \in T
      <4>1. f[k] = Append(f[k - 1], s[k]) BY <1>5, <3>1, <3>8
      <4>2. Len(f[k]) = Len(f[k - 1]) + 1 /\ f[k][Len(f[k])] = s[k] BY <3>4, <4>1
      <4>3. A[Len(f[k])] = s[k] /\ Len(f[k]) <= Len(A)
        <5>1. Len(f[k]) \in 1 .. Len(f[k]) BY <3>4, <4>2
        <5> QED BY <3>4, <4>2, <5>1 DEF P
      <4>4. CASE Len(h[i]) < n
        <5>1. h[i + 1] = Append(h[i], s[k]) BY <3>3, <3>8, <4>4
        <5>2. Len(h[i]) = Len(A) - Len(f[k]) /\ Len(h[i]) \in Nat
          <6>1. CASE Len(A) - Len(f[k]) <= n
            <7>1. Len(h[i]) = Len(A) - Len(f[k]) BY <3>5, <6>1
            <7> QED BY <3>9, <7>1
          <6>2. CASE ~(Len(A) - Len(f[k]) <= n)
            <7>1. Len(h[i]) = n BY <3>5, <6>2
            <7> QED BY <4>4, <7>1
          <6> QED BY <6>1, <6>2
        <5>3. /\ h[i + 1] \in Seq(S) /\ Len(h[i + 1]) = Len(h[i]) + 1
              /\ h[i + 1][Len(h[i]) + 1] = s[k]
              /\ \A j \in 1 .. Len(h[i]) : h[i + 1][j] = h[i][j]
          <6>1. h[i] \in Seq(S) /\ s[k] \in S BY <3>4, <3>5
          <6> QED BY ONLY <5>1, <6>1
        <5>4. /\ Len(h[i + 1]) = Len(A) - Len(f[k - 1]) /\ Len(A) - Len(f[k - 1]) <= n
              /\ Len(A) + 1 - (Len(h[i]) + 1) = Len(f[k])
          <6>1. PICK a, b, c, d : /\ a = Len(A) /\ b = Len(f[k]) /\ c = Len(f[k - 1]) /\ d = Len(h[i])
                                  /\ a \in Nat /\ b \in Nat /\ c \in Nat /\ d \in Nat
            BY <1>9, <3>4, <5>2
          <6>2. b = c + 1 /\ d = a - b /\ d < n /\ Len(h[i + 1]) = d + 1
            BY <4>2, <4>4, <5>2, <5>3, <6>1
          <6>3. d + 1 = a - c /\ a - c <= n /\ a + 1 - (d + 1) = b BY ONLY <6>1, <6>2, n \in Nat
          <6> QED BY <6>1, <6>2, <6>3
        <5>5. ASSUME NEW j \in 1 .. Len(h[i + 1]) PROVE h[i + 1][j] = A[Len(A) + 1 - j]
          <6>1. CASE j = Len(h[i]) + 1 BY <4>3, <5>3, <5>4, <6>1
          <6>2. CASE j # Len(h[i]) + 1
            <7>0. PICK d : d = Len(h[i]) /\ d \in Nat BY <5>2
            <7>1. j \in 1 .. Len(h[i])
              <8>1. j \in 1 .. d + 1 /\ j # d + 1 BY <5>3, <6>2, <7>0
              <8>2. j \in 1 .. d BY ONLY <7>0, <8>1
              <8> QED BY <7>0, <8>2
            <7> QED BY <3>5, <5>3, <7>1
          <6> QED BY <6>1, <6>2
        <5> QED BY <3>6, <5>3, <5>4, <5>5
      <4>5. CASE ~(Len(h[i]) < n)
        <5>1. h[i + 1] = h[i] BY <3>3, <4>5
        <5>2. PICK a \in Nat : a = Len(A) BY <1>9
        <5>3. PICK c \in Nat : c = Len(f[k - 1]) BY <3>4
        <5>4. Len(f[k]) = c + 1 BY <4>2, <5>3
        <5>5. Len(h[i]) = IF a - (c + 1) <= n THEN a - (c + 1) ELSE n BY <3>5, <5>2, <5>4
        <5>6. n <= Len(h[i]) BY <3>9, <4>5
        <5>7. Len(h[i]) = n /\ n <= a - (c + 1)
          <6>1. CASE a - (c + 1) <= n
            <7>1. Len(h[i]) = a - (c + 1) BY <5>5, <6>1
            <7>2. n <= a - (c + 1) BY <5>6, <7>1
            <7>3. a - (c + 1) = n BY <6>1, <7>2
            <7> QED BY <7>1, <7>2, <7>3
          <6>2. CASE ~(a - (c + 1) <= n)
            <7>1. Len(h[i]) = n BY <5>5, <6>2
            <7>2. n <= a - (c + 1) BY <6>2
            <7> QED BY <7>1, <7>2
          <6> QED BY <6>1, <6>2
        <5>8. ~(a - c <= n) BY <5>7
        <5>9. Len(h[i]) = IF Len(A) - Len(f[k - 1]) <= n THEN Len(A) - Len(f[k - 1]) ELSE n
          BY <5>2, <5>3, <5>7, <5>8
        <5> QED BY <3>5, <3>6, <5>1, <5>9
      <4> QED BY <4>4, <4>5
    <3> QED BY <3>7, <3>8
  <2> HIDE DEF G
  <2>3. \A i \in 0 .. m : i \in G BY <1>0, <2>1, <2>2, UpTo
  <2> QED BY <2>3 DEF G
<1> DEFINE l == IF Len(A) <= n THEN Len(A) ELSE n
<1>11. /\ h[m] \in Seq(S) /\ Len(h[m]) = l
       /\ \A j \in 1 .. l : h[m][j] = A[Len(A) + 1 - j]
  <2>1. m \in 0 .. m /\ m - m = 0 BY <1>0
  <2>2. Len(f[m - m]) = 0 /\ Len(A) - 0 = Len(A) BY <1>4, <1>9, <2>1
  <2>3. Q(m)
    <3> HIDE DEF Q
    <3> QED BY <1>10, <2>1
  <2> QED BY <2>2, <2>3
<1> HIDE DEF P, Q, room
<1>12. /\ Last(A, n) \in Seq(S) /\ Len(Last(A, n)) = l
       /\ \A j \in 1 .. l : Last(A, n)[l + 1 - j] = A[Len(A) + 1 - j]
  <2>1. CASE Len(A) <= n BY <1>9, <2>1 DEF Last
  <2>2. CASE ~(Len(A) <= n)
    <3>1. Last(A, n) = SubSeq(A, Len(A) - n + 1, Len(A)) /\ l = n BY <2>2 DEF Last
    <3>2. /\ Len(A) - n + 1 \in 1 .. Len(A) + 1 /\ Len(A) \in 0 .. Len(A)
          /\ Len(A) - (Len(A) - n + 1) + 1 = n
      BY <1>9, <2>2
    <3>3. /\ SubSeq(A, Len(A) - n + 1, Len(A)) \in Seq(S)
          /\ Len(SubSeq(A, Len(A) - n + 1, Len(A))) = n
          /\ \A j \in 1 .. n : SubSeq(A, Len(A) - n + 1, Len(A))[j] = A[Len(A) - n + j]
      BY <1>9, <2>2, <3>2
    <3>4. ASSUME NEW j \in 1 .. n
          PROVE  SubSeq(A, Len(A) - n + 1, Len(A))[n + 1 - j] = A[Len(A) + 1 - j]
      <4>1. n + 1 - j \in 1 .. n /\ Len(A) - n + (n + 1 - j) = Len(A) + 1 - j BY <1>9
      <4> QED BY <3>3, <4>1
    <3> QED BY <3>1, <3>3, <3>4
  <2> QED BY <2>1, <2>2
<1>13. Backwards(Last(A, n)) = [j \in 1 .. l |-> A[Len(A) + 1 - j]]
  <2>1. DOMAIN Last(A, n) = 1 .. l BY <1>12
  <2>2. Backwards(Last(A, n)) = [j \in 1 .. l |-> Last(A, n)[l + 1 - j]]
    BY <1>12, <2>1 DEF Backwards
  <2> HIDE DEF l
  <2> QED BY <1>12, <2>2
<1>14. h[m] = [j \in 1 .. l |-> A[Len(A) + 1 - j]]
  <2> HIDE DEF l
  <2>1. h[m] = [j \in 1 .. l |-> h[m][j]] BY <1>11
  <2> QED BY <1>11, <2>1
<1> QED BY <1>0, <1>1, <1>2, <1>13, <1>14


\* The loop of get_past_context.
Lessons == [same : Seq(Outcomes(Tickers)), cross : Seq(Outcomes(Tickers))]
Tell(e, t, c) ==
  IF e.ticker = t
  THEN IF Len(c.same) < NSame THEN [c EXCEPT !.same = Append(@, e)] ELSE c
  ELSE IF Len(c.cross) < NCross THEN [c EXCEPT !.cross = Append(@, e)] ELSE c
Tells(es, t, f) ==
  f = [i \in 0 .. Len(es) |-> IF i = 0 THEN [same |-> <<>>, cross |-> <<>>]
                              ELSE Tell(es[Len(es) + 1 - i], t, f[i - 1])]

\* What GetPastContext unfolds to.
LEMMA ContextIs ==
  ASSUME NEW s, NEW t
  PROVE  GetPastContext(s, t) = (CHOOSE f : Tells(Resolved(s), t, f))[Len(Resolved(s))]
BY DEF GetPastContext, Tells, Tell

\* A turn of the loop adds an entry to the one list or the other, or to none.
LEMMA TellIs ==
  ASSUME NEW e \in Outcomes(Tickers), NEW t, NEW c \in Lessons
  PROVE  /\ Tell(e, t, c) \in Lessons
         /\ Tell(e, t, c).same = IF e.ticker = t /\ Len(c.same) < NSame
                                 THEN Append(c.same, e) ELSE c.same
         /\ Tell(e, t, c).cross = IF e.ticker # t /\ Len(c.cross) < NCross
                                  THEN Append(c.cross, e) ELSE c.cross
<1>1. c.same \in Seq(Outcomes(Tickers)) /\ c.cross \in Seq(Outcomes(Tickers)) BY DEF Lessons
<1>2. /\ Append(c.same, e) \in Seq(Outcomes(Tickers))
      /\ Append(c.cross, e) \in Seq(Outcomes(Tickers))
  BY <1>1
<1>3. CASE e.ticker = t /\ Len(c.same) < NSame
  <2>1. Tell(e, t, c) = [c EXCEPT !.same = Append(c.same, e)] BY <1>3 DEF Tell
  <2> QED BY <1>2, <1>3, <2>1 DEF Lessons
<1>4. CASE e.ticker # t /\ Len(c.cross) < NCross
  <2>1. Tell(e, t, c) = [c EXCEPT !.cross = Append(c.cross, e)] BY <1>4 DEF Tell
  <2> QED BY <1>2, <1>4, <2>1 DEF Lessons
<1>5. CASE /\ ~(e.ticker = t /\ Len(c.same) < NSame)
           /\ ~(e.ticker # t /\ Len(c.cross) < NCross)
  <2>1. Tell(e, t, c) = c BY <1>5 DEF Tell
  <2> QED BY <1>5, <2>1
<1> QED BY <1>3, <1>4, <1>5

\* The loop runs to its end.
LEMMA TellsRun ==
  ASSUME NEW es \in Seq(Outcomes(Tickers)), NEW t
  PROVE  \E f : Tells(es, t, f)
<1> DEFINE n == Len(es)
           step == [x \in Lessons \X (1 .. n) |-> Tell(es[n + 1 - x[2]], t, x[1])]
           base == [same |-> <<>>, cross |-> <<>>]
<1>1. n \in Nat OBVIOUS
<1>2. base \in Lessons BY DEF Lessons
<1>3. step \in [Lessons \X (1 .. n) -> Lessons]
  <2>1. \A x \in Lessons \X (1 .. n) : Tell(es[n + 1 - x[2]], t, x[1]) \in Lessons
    <3> TAKE x \in Lessons \X (1 .. n)
    <3>1. n + 1 - x[2] \in 1 .. n BY <1>1
    <3>2. es[n + 1 - x[2]] \in Outcomes(Tickers) /\ x[1] \in Lessons BY <3>1
    <3> HIDE DEF n
    <3> QED BY <3>2, TellIs
  <2> QED BY <2>1
<1>4. PICK f : Loop(n, Lessons, base, step, f)
  <2> HIDE DEF step, base, n
  <2> QED BY <1>1, <1>2, <1>3, LoopRuns
<1>5. ASSUME NEW i \in 1 .. n PROVE f[i] = Tell(es[n + 1 - i], t, f[i - 1])
  <2>1. f[i - 1] \in Lessons
    <3>1. i - 1 \in 0 .. n BY <1>1
    <3> QED BY <1>4, <3>1 DEF Loop
  <2>2. <<f[i - 1], i>> \in Lessons \X (1 .. n) BY <2>1
  <2>3. step[<<f[i - 1], i>>] = Tell(es[n + 1 - i], t, f[i - 1]) BY <2>2
  <2> HIDE DEF step, n
  <2> QED BY <1>4, <2>3 DEF Loop
<1> HIDE DEF step
<1>6. \A i \in 0 .. n : f[i] = IF i = 0 THEN base ELSE Tell(es[n + 1 - i], t, f[i - 1])
  <2> TAKE i \in 0 .. n
  <2>1. CASE i = 0 BY <1>4, <2>1 DEF Loop
  <2>2. CASE i # 0
    <3>1. i \in 1 .. n BY <1>1, <2>2
    <3> QED BY <1>5, <2>2, <3>1
  <2> QED BY <2>1, <2>2
<1>7. f = [i \in 0 .. n |-> f[i]] BY <1>4 DEF Loop
<1>8. Tells(es, t, f) BY <1>6, <1>7 DEF Tells
<1> QED BY <1>8

\* The outcomes of some tickers are among the resolved entries.
LEMMA KeptOfResolved ==
  ASSUME NEW s \in Seq(Entries), NEW B \in SUBSET Tickers
  PROVE  KeepOnly(Resolved(s), Outcomes(B)) = KeepOnly(s, Outcomes(B))
<1>1. Outcomes(Tickers) \cap Outcomes(B) = Outcomes(B) BY DEF Outcomes
<1>2. KeepOnly(KeepOnly(s, Outcomes(Tickers)), Outcomes(B))
        = KeepOnly(s, Outcomes(Tickers) \cap Outcomes(B))
  BY KeepOnlyTwice
<1> QED BY <1>1, <1>2 DEF Resolved

\* The lessons of a ticker are the latest of it and of the others that have an
\* outcome, the latest first.
THEOREM LessonsAre ==
  ASSUME NEW s \in Seq(Entries), NEW t \in Tickers
  PROVE  /\ GetPastContext(s, t) \in Lessons
         /\ GetPastContext(s, t).same = Backwards(Last(KeepOnly(s, Outcomes({t})), NSame))
         /\ GetPastContext(s, t).cross =
              Backwards(Last(KeepOnly(s, Outcomes(Tickers \ {t})), NCross))
<1> DEFINE es == Resolved(s)
           f == CHOOSE f : Tells(es, t, f)
           n == Len(es)
<1>1. es \in Seq(Outcomes(Tickers)) /\ n \in Nat BY ResolvedType
<1>2. Tells(es, t, f)
  <2> HIDE DEF es
  <2>1. \E h : Tells(es, t, h) BY <1>1, TellsRun
  <2> QED BY <2>1
<1>3. GetPastContext(s, t) = f[n] BY ContextIs
<1>4. KeepOnly(es, Outcomes({t})) = KeepOnly(s, Outcomes({t}))
      /\ KeepOnly(es, Outcomes(Tickers \ {t})) = KeepOnly(s, Outcomes(Tickers \ {t}))
  BY KeptOfResolved
<1> HIDE DEF es, f
<1>5. \A i \in 0 .. n : f[i] = IF i = 0 THEN [same |-> <<>>, cross |-> <<>>]
                               ELSE Tell(es[n + 1 - i], t, f[i - 1])
  BY <1>2 DEF Tells
<1>6. \A i \in 1 .. n : n + 1 - i \in 1 .. n /\ es[n + 1 - i] \in Outcomes(Tickers)
  <2>1. \A i \in 1 .. n : n + 1 - i \in 1 .. n BY <1>1
  <2> QED BY <1>1, <2>1
<1> HIDE DEF n
<1>7. \A i \in 0 .. n : f[i] \in Lessons
  <2> DEFINE G == {i \in Nat : f[i] \in Lessons}
  <2>1. 0 \in G
    <3>0. 0 \in 0 .. n BY <1>1
    <3>1. f[0] = [same |-> <<>>, cross |-> <<>>] BY <1>5, <3>0
    <3>2. [same |-> <<>>, cross |-> <<>>] \in Lessons BY DEF Lessons
    <3> QED BY <3>1, <3>2
  <2>2. ASSUME NEW k \in 0 .. n - 1, k \in G PROVE k + 1 \in G
    <3>1. k + 1 \in 0 .. n /\ k + 1 \in 1 .. n /\ k + 1 # 0 /\ (k + 1) - 1 = k /\ k + 1 \in Nat
      BY <1>1
    <3>2. f[k + 1] = Tell(es[n + 1 - (k + 1)], t, f[k]) BY <1>5, <3>1
    <3>3. es[n + 1 - (k + 1)] \in Outcomes(Tickers) /\ f[k] \in Lessons BY <1>6, <2>2, <3>1
    <3>4. f[k + 1] \in Lessons BY <3>2, <3>3, TellIs
    <3> QED BY <3>1, <3>4
  <2> HIDE DEF G
  <2>3. \A i \in 0 .. n : i \in G BY <1>1, <2>1, <2>2, UpTo
  <2> QED BY <2>3 DEF G
<1>8. ASSUME NEW i \in 1 .. n
      PROVE  /\ f[i] = Tell(es[n + 1 - i], t, f[i - 1]) /\ f[i - 1] \in Lessons
             /\ es[n + 1 - i] \in Outcomes(Tickers)
             /\ es[n + 1 - i].ticker = t <=> es[n + 1 - i] \in Outcomes({t})
             /\ es[n + 1 - i].ticker # t <=> es[n + 1 - i] \in Outcomes(Tickers \ {t})
  <2>1. i \in 0 .. n /\ i # 0 /\ i - 1 \in 0 .. n BY <1>1
  <2>2. es[n + 1 - i] \in Outcomes(Tickers) BY <1>6
  <2>3. \A e \in Outcomes(Tickers) : /\ e.ticker = t <=> e \in Outcomes({t})
                                     /\ e.ticker # t <=> e \in Outcomes(Tickers \ {t})
    BY DEF Outcomes
  <2> QED BY <1>5, <1>7, <2>1, <2>2, <2>3
<1>9. f[n].same = Backwards(Last(KeepOnly(es, Outcomes({t})), NSame))
  <2> DEFINE h == [i \in 0 .. n |-> f[i].same]
  <2>1. h[0] = <<>> BY <1>1, <1>5
  <2>2. ASSUME NEW i \in 1 .. n
        PROVE  h[i] = IF es[n + 1 - i] \in Outcomes({t}) /\ Len(h[i - 1]) < NSame
                      THEN Append(h[i - 1], es[n + 1 - i]) ELSE h[i - 1]
    <3>1. h[i] = f[i].same /\ h[i - 1] = f[i - 1].same
      <4>1. i \in 0 .. n /\ i - 1 \in 0 .. n BY <1>1
      <4> QED BY <4>1
    <3> HIDE DEF h
    <3>2. PICK e : e = es[n + 1 - i] OBVIOUS
    <3>3. PICK c : c = f[i - 1] OBVIOUS
    <3>4. /\ e \in Outcomes(Tickers) /\ c \in Lessons /\ f[i] = Tell(e, t, c)
          /\ e.ticker = t <=> e \in Outcomes({t})
      BY <1>8, <3>2, <3>3
    <3>5. Tell(e, t, c).same = IF e.ticker = t /\ Len(c.same) < NSame
                              THEN Append(c.same, e) ELSE c.same
      BY <3>4, TellIs
    <3> QED BY <3>1, <3>2, <3>3, <3>4, <3>5
  <2>3. h[n] = f[n].same BY <1>1
  <2> HIDE DEF h
  <2>4. NSame \in Nat BY LogAssumption
  <2>5. h[Len(es)] = Backwards(Last(KeepOnly(es, Outcomes({t})), NSame))
    BY <1>1, <2>1, <2>2, <2>4, TakenFromTheEnd DEF n
  <2> QED BY <2>3, <2>5 DEF n
<1>10. f[n].cross = Backwards(Last(KeepOnly(es, Outcomes(Tickers \ {t})), NCross))
  <2> DEFINE h == [i \in 0 .. n |-> f[i].cross]
  <2>1. h[0] = <<>> BY <1>1, <1>5
  <2>2. ASSUME NEW i \in 1 .. n
        PROVE  h[i] = IF es[n + 1 - i] \in Outcomes(Tickers \ {t}) /\ Len(h[i - 1]) < NCross
                      THEN Append(h[i - 1], es[n + 1 - i]) ELSE h[i - 1]
    <3>1. h[i] = f[i].cross /\ h[i - 1] = f[i - 1].cross
      <4>1. i \in 0 .. n /\ i - 1 \in 0 .. n BY <1>1
      <4> QED BY <4>1
    <3> HIDE DEF h
    <3>2. PICK e : e = es[n + 1 - i] OBVIOUS
    <3>3. PICK c : c = f[i - 1] OBVIOUS
    <3>4. /\ e \in Outcomes(Tickers) /\ c \in Lessons /\ f[i] = Tell(e, t, c)
          /\ e.ticker # t <=> e \in Outcomes(Tickers \ {t})
      BY <1>8, <3>2, <3>3
    <3>5. Tell(e, t, c).cross = IF e.ticker # t /\ Len(c.cross) < NCross
                              THEN Append(c.cross, e) ELSE c.cross
      BY <3>4, TellIs
    <3> QED BY <3>1, <3>2, <3>3, <3>4, <3>5
  <2>3. h[n] = f[n].cross BY <1>1
  <2> HIDE DEF h
  <2>4. NCross \in Nat BY LogAssumption
  <2>5. h[Len(es)] = Backwards(Last(KeepOnly(es, Outcomes(Tickers \ {t})), NCross))
    BY <1>1, <2>1, <2>2, <2>4, TakenFromTheEnd DEF n
  <2> QED BY <2>3, <2>5 DEF n
<1>11. f[n] \in Lessons
  <2>1. n \in 0 .. n BY <1>1
  <2> QED BY <1>7, <2>1
<1> QED BY <1>3, <1>4, <1>9, <1>10, <1>11


-----------------------------------------------------------------------------
(* What every state has, however many processes there are: each entry of   *)
(* the log is of a decision whose final state is on disk, and each outcome *)
(* of prices there are already.                                            *)

\* The entries there can be, and what is known of each: its prices were there, its
\* final state is on disk.
Records == [ticker : Tickers, date : Dates \cup {ContextOf(d) : d \in ContextDates},
            held : 0 .. HoldingDays]
Known(e) == /\ e \in Records /\ e.date + e.held <= today
            /\ e.date >= 0 => <<e.ticker, e.date>> \in files
KnownLog(s) == s \in Seq(Entries) /\ \A i \in DOMAIN s : Known(s[i])

\* Where a process is that runs propagate.
RunStates == [pc : {"resolve", "replace", "prepare", "graph", "store", "append", "clear", "done"},
              ticker : Tickers, date : Dates, shape : Shapes, updates : SUBSET Records,
              context : Seq(Lessons),
              node : 0 .. GraphNodes, done : 0 .. GraphNodes]

\* A run: its updates are outcomes of decisions the log had, and from the end of
\* its graph on its final state is on disk.
RunKnown(p) ==
  \/ proc[p] = Idle
  \/ /\ proc[p] \in RunStates /\ Batch(proc[p].updates) /\ proc[p].date <= today
     /\ \A u \in proc[p].updates : Known(u) /\ u.ticker = proc[p].ticker
     /\ proc[p].pc \in {"store", "append", "clear", "done"} =>
          <<proc[p].ticker, proc[p].date>> \in files

\* The invariant of the files.
FilesInv ==
  /\ today \in FirstDay .. LastDay /\ runs \in 0 .. MaxRuns
  /\ KnownLog(log)
  /\ tmp = <<>> \/ (tmp = <<tmp[1]>> /\ KnownLog(tmp[1]))
  /\ files \subseteq Tickers \X Dates
  /\ DOMAIN threads \subseteq Tickers \X Dates \X Shapes
  /\ \A th \in DOMAIN threads : threads[th] \in 1 .. GraphNodes
  /\ DOMAIN proc = Procs /\ \A p \in Procs : RunKnown(p)

\* Trade dates are numbers.
LEMMA DatesAreDays == \A d \in Dates : d \in Nat /\ d \in Int
BY PropagateAssumption

\* What is recorded are entries with numbers for dates.
LEMMA RecordsAreEntries ==
  /\ Records \subseteq Entries
  /\ \A e \in Records : e.date \in Int /\ e.held \in Nat /\ e.date + e.held \in Int
<1>1. Dates \cup {ContextOf(d) : d \in ContextDates} \subseteq Int
  <2>1. \A d \in ContextDates : d \in Int /\ -1 - d \in Int BY PropagateAssumption
  <2>2. \A d \in ContextDates : ContextOf(d) \in Int BY <2>1 DEF ContextOf
  <2>3. Dates \subseteq Int BY PropagateAssumption
  <2> QED BY <2>2, <2>3
<1>2. 0 .. HoldingDays \subseteq Nat BY PropagateAssumption
<1>3. \A e \in Records : e.date \in Int /\ e.held \in Nat BY <1>1, <1>2 DEF Records
<1>4. Records \subseteq Entries BY <1>1, <1>2 DEF Records, Entries
<1> QED BY <1>3, <1>4

\* What is known stays known, as days pass and files are written.
LEMMA KnownStays ==
  ASSUME today \in Int, today' \in Int, today <= today', files \subseteq files', NEW e, Known(e)
  PROVE  Known(e)'
<1>1. e \in Records /\ e.date + e.held \in Int BY RecordsAreEntries DEF Known
<1>2. e.date + e.held <= today' BY <1>1 DEF Known
<1>3. e.date >= 0 => <<e.ticker, e.date>> \in files' BY DEF Known
<1> QED BY <1>1, <1>2, <1>3 DEF Known

\* So does what is known of a log.
LEMMA LogStays ==
  ASSUME today \in Int, today' \in Int, today <= today', files \subseteq files', NEW s, KnownLog(s)
  PROVE  KnownLog(s)'
<1>1. ASSUME NEW i \in DOMAIN s PROVE Known(s[i])'
  <2>1. Known(s[i]) BY DEF KnownLog
  <2> QED BY <2>1, KnownStays
<1> QED BY <1>1 DEF KnownLog

\* And of a run that takes no step.
LEMMA RunStays ==
  ASSUME today \in Int, today' \in Int, today <= today', files \subseteq files', NEW p \in Procs,
         RunKnown(p), proc'[p] = proc[p]
  PROVE  RunKnown(p)'
<1>1. CASE proc[p] = Idle BY <1>1 DEF RunKnown, Idle
<1>2. CASE proc[p] # Idle
  <2>0. proc'[p].date <= today'
    <3>1. proc[p].date \in Dates /\ proc[p].date <= today BY <1>2 DEF RunKnown, RunStates
    <3>2. proc[p].date \in Int BY <3>1, PropagateAssumption
    <3> QED BY <3>1, <3>2
  <2>1. /\ proc'[p] \in RunStates /\ Batch(proc'[p].updates)
        /\ proc'[p].pc \in {"store", "append", "clear", "done"} =>
             <<proc'[p].ticker, proc'[p].date>> \in files'
    BY <1>2 DEF RunKnown
  <2>2. ASSUME NEW u \in proc'[p].updates PROVE Known(u)' /\ u.ticker = proc'[p].ticker
    <3>1. Known(u) /\ u.ticker = proc'[p].ticker BY <1>2 DEF RunKnown
    <3> QED BY <3>1, KnownStays
  <2> QED BY <2>0, <2>1, <2>2 DEF RunKnown
<1> QED BY <1>1, <1>2

\* A log is known if all it has is.
LEMMA KnownLogHas ==
  ASSUME NEW s \in Seq(Entries)
  PROVE  KnownLog(s) <=> \A e : Has(s, e) => Known(e)
BY DEF KnownLog, Has

\* A batch adds nothing but its outcomes.
LEMMA BatchAdds ==
  ASSUME NEW s \in Seq(Entries), NEW us \in SUBSET Entries
  PROVE  /\ BatchUpdateWithOutcomes(s, us) \in Seq(Entries)
         /\ \A e : Has(BatchUpdateWithOutcomes(s, us), e) => Has(s, e) \/ e \in us
<1> DEFINE of(i) == {u \in us : i \in FirstPending(s, u.ticker, u.date)}
           put(i) == IF of(i) # {} THEN CHOOSE u \in of(i) : TRUE ELSE s[i]
           new == [i \in DOMAIN s |-> put(i)]
<1>1. BatchUpdateWithOutcomes(s, us) = ApplyRotation(new) BY DEF BatchUpdateWithOutcomes
<1>2. DOMAIN s = 1 .. Len(s) /\ Len(s) \in Nat OBVIOUS
<1>3. ASSUME NEW i \in DOMAIN s PROVE put(i) \in Entries /\ (put(i) = s[i] \/ put(i) \in us)
  <2>1. CASE of(i) = {} BY <1>2, <2>1
  <2>2. CASE of(i) # {}
    <3>1. of(i) \subseteq us OBVIOUS
    <3> HIDE DEF of
    <3>2. put(i) \in of(i) BY <2>2
    <3> QED BY <3>1, <3>2
  <2> QED BY <2>1, <2>2
<1> HIDE DEF put
<1>4. new \in Seq(Entries) BY <1>2, <1>3
<1>5. ASSUME NEW e, Has(new, e) PROVE Has(s, e) \/ e \in us
  <2>1. PICK i \in DOMAIN s : put(i) = e BY <1>5 DEF Has
  <2> QED BY <1>3, <2>1 DEF Has
<1> HIDE DEF new
<1> QED BY <1>1, <1>4, <1>5, RotationFacts

\* A batch of known outcomes leaves a known log.
LEMMA BatchKnown ==
  ASSUME NEW s, KnownLog(s), NEW us, Batch(us), \A u \in us : Known(u)
  PROVE  KnownLog(BatchUpdateWithOutcomes(s, us))
<1>1. s \in Seq(Entries) /\ us \in SUBSET Entries
  BY SettledAreEntries DEF KnownLog, Batch
<1>2. \A e : Has(s, e) => Known(e) BY <1>1, KnownLogHas
<1>3. /\ BatchUpdateWithOutcomes(s, us) \in Seq(Entries)
      /\ \A e : Has(BatchUpdateWithOutcomes(s, us), e) => Has(s, e) \/ e \in us
  BY <1>1, BatchAdds
<1> QED BY <1>2, <1>3, KnownLogHas

\* The outcomes a run fetches are of decisions that are pending in the log.
LEMMA UpdatesFacts ==
  ASSUME KnownLog(log), today \in Int, NEW t \in Tickers, NEW us \in Fetched(t)
  PROVE  /\ us \in SUBSET Records /\ Batch(us)
         /\ \A u \in us : Known(u) /\ u.ticker = t /\ Has(log, Decision(u))
<1>1. ASSUME NEW u \in us
      PROVE  /\ u \in Outcomes(Tickers) /\ Known(u) /\ u.ticker = t
             /\ Has(log, Decision(u))
  <2>1. PICK e \in PendingEntries(log, t), h \in 1 .. HoldingDays :
          u = Entry(e.ticker, e.date, h)
    BY DEF Fetched
  <2>2. PICK i \in DOMAIN log : e = log[i] BY DEF PendingEntries
  <2>3. Known(e) /\ e \in Records /\ IsPending(e) /\ e.ticker = t
    BY <2>2 DEF PendingEntries, KnownLog, Known
  <2>4. e.date \in Int /\ e.ticker \in Tickers
        /\ e.date \in Dates \cup {ContextOf(d) : d \in ContextDates}
    BY <2>3, RecordsAreEntries DEF Records
  <2>5. e = Entry(e.ticker, e.date, Pending) BY <2>3 DEF Records, Entry, IsPending, Pending
  <2>6. u.ticker = e.ticker /\ u.date = e.date /\ u.held = h BY <2>1 DEF Entry
  <2>7. Decision(u) = e BY <2>5, <2>6 DEF Decision
  <2>8. HoldingDays \in Nat BY PropagateAssumption
  <2>9. u.date >= 0 /\ u.date + u.held <= today
    <3>1. h \in FetchReturns(e.date) BY <2>6 DEF Fetched
    <3>2. h # 0 /\ h \in Int BY <2>8
    <3> QED BY <2>4, <2>6, <2>8, <3>1, <3>2 DEF FetchReturns, Pending
  <2>10. u \in Records
    <3>1. h \in 0 .. HoldingDays BY <2>8
    <3> QED BY <2>1, <2>4, <3>1 DEF Records, Entry
  <2>11. u \in Outcomes(Tickers)
    <3>1. h \in Nat \ {Pending} BY <2>8 DEF Pending
    <3> QED BY <2>1, <2>4, <3>1 DEF Outcomes, Entry
  <2>12. <<u.ticker, u.date>> \in files BY <2>3, <2>6, <2>9 DEF Known
  <2> QED BY <2>2, <2>3, <2>6, <2>7, <2>9, <2>10, <2>11, <2>12 DEF Known, Has
<1>2. us \in SUBSET Records
  <2>1. \A e : Known(e) => e \in Records BY DEF Known
  <2>2. \A u \in us : Known(u) BY <1>1
  <2> QED BY <2>1, <2>2
<1>3. \A u, v \in us : Decision(u) = Decision(v) => u = v
  <2>1. \A u, v \in us : Decision(u) = Decision(v) => u.date = v.date BY DEF Decision, Entry
  <2> QED BY <2>1 DEF Fetched
<1> QED BY <1>1, <1>2, <1>3 DEF Batch


\* What is known of a process that runs.
LEMMA NotIdle ==
  ASSUME NEW p \in Procs, RunKnown(p), ~At(p, "idle")
  PROVE  /\ proc[p] \in RunStates /\ Batch(proc[p].updates) /\ proc[p].date <= today
         /\ \A u \in proc[p].updates : Known(u) /\ u.ticker = proc[p].ticker
         /\ proc[p].pc \in {"store", "append", "clear", "done"} =>
              <<proc[p].ticker, proc[p].date>> \in files
BY DEF RunKnown, At, Idle

\* A process that goes to its next step keeps what it was called with.
LEMMA ToFacts ==
  ASSUME DOMAIN proc = Procs, NEW p \in Procs, proc[p] \in RunStates,
         NEW x \in {"resolve", "replace", "prepare", "graph", "store", "append", "clear", "done"},
         To(p, x)
  PROVE  /\ DOMAIN proc' = Procs /\ \A q \in Procs : q # p => proc'[q] = proc[q]
         /\ proc'[p] \in RunStates /\ proc'[p].pc = x
         /\ proc'[p].ticker = proc[p].ticker /\ proc'[p].date = proc[p].date
         /\ proc'[p].shape = proc[p].shape /\ proc'[p].updates = proc[p].updates
         /\ proc'[p].context = proc[p].context
<1>1. proc' = [proc EXCEPT ![p] = [proc[p] EXCEPT !.pc = x]] BY DEF To
<1>2. proc'[p] = [proc[p] EXCEPT !.pc = x] /\ DOMAIN proc' = Procs
      /\ \A q \in Procs : q # p => proc'[q] = proc[q]
  BY <1>1
<1>3. [proc[p] EXCEPT !.pc = x] \in RunStates BY DEF RunStates
<1>4. /\ proc'[p].pc = x
      /\ proc'[p].ticker = proc[p].ticker /\ proc'[p].date = proc[p].date
      /\ proc'[p].shape = proc[p].shape /\ proc'[p].updates = proc[p].updates
      /\ proc'[p].context = proc[p].context
  BY <1>2 DEF RunStates
<1> QED BY <1>2, <1>3, <1>4

\* A process that goes on for the same ticker and date stays known.
LEMMA RunGoesOn ==
  ASSUME today \in Int, today' \in Int, today <= today', files \subseteq files', NEW p \in Procs,
         RunKnown(p), ~At(p, "idle"), proc'[p] \in RunStates,
         proc'[p].ticker = proc[p].ticker, proc'[p].date = proc[p].date,
         proc'[p].updates = proc[p].updates,
         proc'[p].pc \in {"store", "append", "clear", "done"} =>
           <<proc'[p].ticker, proc'[p].date>> \in files'
  PROVE  RunKnown(p)'
<1>1. /\ Batch(proc[p].updates)
      /\ \A u \in proc[p].updates : Known(u) /\ u.ticker = proc[p].ticker
  BY DEF RunKnown, At, Idle
<1>2. \A u \in proc'[p].updates : Known(u)' /\ u.ticker = proc'[p].ticker
  <2> SUFFICES ASSUME NEW u \in proc'[p].updates PROVE Known(u)' /\ u.ticker = proc'[p].ticker
    OBVIOUS
  <2>1. Known(u) /\ u.ticker = proc[p].ticker BY <1>1
  <2> QED BY <2>1, KnownStays
<1>3. Batch(proc'[p].updates) BY <1>1
<1>4. proc'[p].date <= today'
  <2>1. proc[p].date \in Dates /\ proc[p].date <= today BY DEF RunKnown, RunStates, At, Idle
  <2>2. proc[p].date \in Int BY <2>1, PropagateAssumption
  <2> QED BY <2>1, <2>2
<1> QED BY <1>2, <1>3, <1>4 DEF RunKnown

\* The files start so.
LEMMA FilesInit == Init => FilesInv
<1> SUFFICES ASSUME Init PROVE FilesInv OBVIOUS
<1>1. today \in FirstDay .. LastDay /\ runs \in 0 .. MaxRuns BY PropagateAssumption DEF Init
<1> DEFINE R == [ticker : Tickers, date : Dates, held : 0 .. HoldingDays]
<1>2. log \in Seq(R) /\ \A i \in DOMAIN log : log[i].date + log[i].held <= today
  BY LogsAssumption DEF Init
<1>3. R \subseteq Records /\ R \subseteq Entries
  <2>1. R \subseteq Records BY DEF Records
  <2> QED BY <2>1, RecordsAreEntries
<1> HIDE DEF R
<1>4. \A i \in DOMAIN log : log[i] \in R BY <1>2
<1>5. KnownLog(log)
  <2>1. log \in Seq(Entries) BY <1>2, <1>3
  <2>2. ASSUME NEW i \in DOMAIN log PROVE Known(log[i])
    <3>1. <<log[i].ticker, log[i].date>> \in files BY DEF Init
    <3> QED BY <1>2, <1>3, <1>4, <3>1 DEF Known
  <2> QED BY <2>1, <2>2 DEF KnownLog
<1>6. files \subseteq Tickers \X Dates BY <1>4 DEF Init, R
<1>7. DOMAIN threads = {} /\ tmp = <<>> BY DEF Init
<1>8. DOMAIN proc = Procs /\ \A p \in Procs : RunKnown(p) BY DEF Init, RunKnown
<1> QED BY <1>1, <1>5, <1>6, <1>7, <1>8 DEF FilesInv

\* A step of a process that reads the files, or writes nothing but threads.
LEMMA QuietStep ==
  ASSUME FilesInv, NEW p \in Procs, ~At(p, "idle"),
         today' = today, runs' = runs, log' = log, tmp' = tmp, files' = files,
         DOMAIN threads' \subseteq Tickers \X Dates \X Shapes,
         \A th \in DOMAIN threads' : threads'[th] \in 1 .. GraphNodes,
         DOMAIN proc' = Procs, \A q \in Procs : q # p => proc'[q] = proc[q],
         \/ proc'[p] = Idle
         \/ /\ proc'[p] \in RunStates /\ proc'[p].ticker = proc[p].ticker
            /\ proc'[p].date = proc[p].date /\ proc'[p].updates = proc[p].updates
            /\ proc'[p].pc \in {"store", "append", "clear", "done"} =>
                 <<proc'[p].ticker, proc'[p].date>> \in files
  PROVE  FilesInv'
<1>1. today \in Int /\ today' \in Int /\ today <= today' /\ files \subseteq files'
  BY PropagateAssumption DEF FilesInv
<1>2. KnownLog(log) /\ \A q \in Procs : RunKnown(q) BY DEF FilesInv
<1>4. KnownLog(log)'
  <2>1. PICK s : s = log OBVIOUS
  <2>2. KnownLog(s)' BY <1>1, <1>2, <2>1, LogStays
  <2> QED BY <2>1, <2>2
<1>5. tmp' = <<>> \/ (tmp' = <<tmp'[1]>> /\ KnownLog(tmp[1])')
  <2>1. tmp = <<>> \/ (tmp = <<tmp[1]>> /\ KnownLog(tmp[1])) BY DEF FilesInv
  <2> QED BY <1>1, <2>1, LogStays
<1>6. ASSUME NEW q \in Procs PROVE RunKnown(q)'
  <2>1. CASE q # p BY <1>1, <1>2, <2>1, RunStays
  <2>2. CASE q = p /\ proc'[p] = Idle BY <2>2 DEF RunKnown, Idle
  <2>3. CASE q = p /\ proc'[p] # Idle BY <1>1, <1>2, <2>3, RunGoesOn
  <2> QED BY <2>1, <2>2, <2>3
<1> QED BY <1>4, <1>5, <1>6 DEF FilesInv


\* A step of a process that writes the log, the file beside it, or starts a run.
LEMMA WritingStep ==
  ASSUME FilesInv, NEW p \in Procs, today' = today, runs' \in 0 .. MaxRuns, files' = files,
         threads' = threads, KnownLog(log)',
         tmp' = <<>> \/ (tmp' = <<tmp[1]>>' /\ KnownLog(tmp[1])'),
         DOMAIN proc' = Procs, \A q \in Procs : q # p => proc'[q] = proc[q], RunKnown(p)'
  PROVE  FilesInv'
<1>1. today \in Int /\ today' \in Int /\ today <= today' /\ files \subseteq files'
  BY PropagateAssumption DEF FilesInv
<1>2. ASSUME NEW q \in Procs PROVE RunKnown(q)'
  <2>1. RunKnown(q) BY DEF FilesInv
  <2>2. CASE q # p BY <1>1, <2>1, <2>2, RunStays
  <2> QED BY <2>2
<1> QED BY <1>2 DEF FilesInv

\* And each step, of any process, keeps them so.
LEMMA FilesStep == FilesInv /\ [Next]_vars => FilesInv'
<1> SUFFICES ASSUME FilesInv, [Next]_vars PROVE FilesInv' OBVIOUS
<1>1. /\ today \in Int /\ FirstDay \in Nat /\ LastDay \in Nat /\ today <= LastDay
      /\ today \in FirstDay .. LastDay
  BY PropagateAssumption DEF FilesInv
<1>2. /\ KnownLog(log) /\ log \in Seq(Entries) /\ DOMAIN proc = Procs
      /\ \A p \in Procs : RunKnown(p)
      /\ DOMAIN threads \subseteq Tickers \X Dates \X Shapes
      /\ \A th \in DOMAIN threads : threads[th] \in 1 .. GraphNodes
      /\ tmp = <<>> \/ (tmp = <<tmp[1]>> /\ KnownLog(tmp[1]))
  BY DEF FilesInv, KnownLog
<1>3. CASE UNCHANGED vars
  BY <1>3 DEF vars, FilesInv, KnownLog, Known, RunKnown
<1>4. CASE NewDay
  <2>1. /\ today' \in FirstDay .. LastDay /\ today' \in Int /\ today <= today'
        /\ files \subseteq files' /\ files' = files
    BY <1>1, <1>4 DEF NewDay
  <2>2. runs' = runs /\ log' = log /\ tmp' = tmp /\ threads' = threads /\ proc' = proc
    BY <1>4 DEF NewDay
  <2>3. KnownLog(log)'
    <3>1. PICK s : s = log OBVIOUS
    <3>2. KnownLog(s)' BY <1>1, <1>2, <2>1, <3>1, LogStays
    <3> QED BY <2>2, <3>1, <3>2
  <2>4. tmp' = <<>> \/ (tmp' = <<tmp[1]>>' /\ KnownLog(tmp[1])')
    <3>1. CASE tmp = <<>> BY <2>2, <3>1
    <3>2. CASE tmp = <<tmp[1]>> /\ KnownLog(tmp[1])
      <4>1. PICK s : s = tmp[1] OBVIOUS
      <4>2. KnownLog(s)' BY <1>1, <2>1, <3>2, <4>1, LogStays
      <4> QED BY <2>2, <3>2, <4>1, <4>2
    <3> QED BY <1>2, <3>1, <3>2
  <2>5. \A p \in Procs : RunKnown(p)'
    <3> TAKE p \in Procs
    <3>1. RunKnown(p) /\ proc'[p] = proc[p] BY <1>2, <2>2
    <3> QED BY <1>1, <2>1, <3>1, RunStays
  <2> QED BY <2>1, <2>2, <2>3, <2>4, <2>5 DEF FilesInv
<1>5. ASSUME NEW p \in Procs, NEW t \in Tickers, NEW d \in ContextDates,
             InjectLongHorizonContext(p, t, d)
      PROVE  FilesInv'
  <2>1. /\ today' = today /\ runs' = runs /\ tmp' = tmp /\ files' = files /\ threads' = threads
        /\ proc' = proc /\ d <= today /\ log' = StoreDecision(log, t, ContextOf(d))
    BY <1>5 DEF InjectLongHorizonContext
  <2> DEFINE e == Entry(t, ContextOf(d), Pending)
  <2>2. Known(e)
    <3>1. d \in Nat BY PropagateAssumption
    <3>2. HoldingDays \in Nat BY PropagateAssumption
    <3>3. e.date = -1 - d /\ e.held = 0 BY DEF Entry, ContextOf, Pending
    <3>4. e \in Records
      <4>1. ContextOf(d) \in Dates \cup {ContextOf(c) : c \in ContextDates} OBVIOUS
      <4>2. Pending \in 0 .. HoldingDays BY <3>2 DEF Pending
      <4> QED BY <4>1, <4>2 DEF Records, Entry
    <3>5. e.date + e.held <= today /\ ~(e.date >= 0)
      <4>1. today >= 0 BY <1>1
      <4> HIDE DEF e
      <4> QED BY <1>1, <3>1, <3>3, <4>1
    <3> HIDE DEF e
    <3> QED BY <3>4, <3>5 DEF Known
  <2>3. e \in Entries BY <2>2, RecordsAreEntries DEF Known
  <2> HIDE DEF e
  <2>4. log' = log \/ log' = Append(log, e) BY <2>1 DEF StoreDecision, e
  <2>5. KnownLog(log')
    <3>1. CASE log' = log BY <1>2, <3>1
    <3>2. CASE log' = Append(log, e)
      <4>1. log' \in Seq(Entries) BY <1>2, <2>3, <3>2
      <4>2. \A x : Has(log', x) => Has(log, x) \/ x = e BY <1>2, <3>2, HasAppend
      <4>3. \A x : Has(log, x) => Known(x) BY <1>2, KnownLogHas
      <4> QED BY <2>2, <4>1, <4>2, <4>3, KnownLogHas
    <3> QED BY <2>4, <3>1, <3>2
  <2>6. KnownLog(log)' BY <2>1, <2>5 DEF KnownLog, Known
  <2>7. tmp' = <<>> \/ (tmp' = <<tmp[1]>>' /\ KnownLog(tmp[1])')
    BY <1>2, <2>1 DEF KnownLog, Known
  <2>8. runs' \in 0 .. MaxRuns /\ DOMAIN proc' = Procs /\ \A q \in Procs : proc'[q] = proc[q]
    BY <1>2, <2>1 DEF FilesInv
  <2>9. RunKnown(p)' BY <1>2, <2>1 DEF RunKnown, Known
  <2> QED BY <2>1, <2>6, <2>7, <2>8, <2>9, WritingStep
<1>6. ASSUME NEW p \in Procs, NEW t \in Tickers, NEW d \in Dates, NEW shape \in Shapes,
             Propagate(p, t, d, shape)
      PROVE  FilesInv'
  <2>1. PICK us \in Fetched(t) :
          /\ At(p, "idle") /\ runs < MaxRuns /\ d <= today
          /\ runs' = runs + 1
          /\ proc' = [proc EXCEPT ![p] = [pc |-> IF us = {} THEN "prepare" ELSE "resolve",
                                          ticker |-> t, date |-> d, shape |-> shape,
                                          updates |-> us, context |-> <<>>, node |-> 0,
                                          done |-> 0]]
          /\ UNCHANGED <<today, log, tmp, files, threads>>
    BY <1>6 DEF Propagate
  <2>2. us \in SUBSET Records /\ Batch(us) /\ \A u \in us : Known(u) /\ u.ticker = t
    BY <1>1, <1>2, <2>1, UpdatesFacts
  <2>3. /\ DOMAIN proc' = Procs /\ \A q \in Procs : q # p => proc'[q] = proc[q]
        /\ proc'[p] = [pc |-> IF us = {} THEN "prepare" ELSE "resolve",
                       ticker |-> t, date |-> d, shape |-> shape,
                       updates |-> us, context |-> <<>>, node |-> 0, done |-> 0]
    BY <1>2, <2>1
  <2>4. proc'[p] \in RunStates
    <3>1. 0 \in 0 .. GraphNodes BY PropagateAssumption
    <3>2. <<>> \in Seq(Lessons) OBVIOUS
    <3> QED BY <2>2, <2>3, <3>1, <3>2 DEF RunStates
  <2>5. proc'[p].updates = us /\ proc'[p].ticker = t
        /\ proc'[p].pc \notin {"store", "append", "clear", "done"}
    BY <2>3
  <2>6. RunKnown(p)'
    <3>1. proc'[p].date <= today' BY <2>1, <2>3
    <3> QED BY <2>1, <2>2, <2>4, <2>5, <3>1 DEF RunKnown, Known
  <2>7. runs' \in 0 .. MaxRuns BY <2>1, PropagateAssumption DEF FilesInv
  <2>8. KnownLog(log)' BY <1>2, <2>1 DEF KnownLog, Known
  <2>9. tmp' = <<>> \/ (tmp' = <<tmp[1]>>' /\ KnownLog(tmp[1])')
    BY <1>2, <2>1 DEF KnownLog, Known
  <2> QED BY <2>1, <2>3, <2>6, <2>7, <2>8, <2>9, WritingStep
<1>7. ASSUME NEW p \in Procs, WriteBatch(p) PROVE FilesInv'
  <2>1. /\ today' = today /\ runs' = runs /\ log' = log /\ files' = files /\ threads' = threads
        /\ tmp' = <<BatchUpdateWithOutcomes(log, proc[p].updates)>> /\ To(p, "replace")
        /\ ~At(p, "idle")
    BY <1>7 DEF WriteBatch, At
  <2>2. proc[p] \in RunStates BY <1>2, <2>1, NotIdle
  <2>3. Batch(proc[p].updates) /\ \A u \in proc[p].updates : Known(u)
    BY <1>2, <2>1, NotIdle
  <2>4. KnownLog(BatchUpdateWithOutcomes(log, proc[p].updates)) BY <1>2, <2>3, BatchKnown
  <2>5. tmp' = <<tmp[1]>>' /\ KnownLog(tmp'[1]) BY <2>1, <2>4
  <2>6. KnownLog(tmp[1])' BY <2>1, <2>5 DEF KnownLog, Known
  <2>7. KnownLog(log)' BY <1>2, <2>1 DEF KnownLog, Known
  <2>8. /\ DOMAIN proc' = Procs /\ \A q \in Procs : q # p => proc'[q] = proc[q]
        /\ proc'[p] \in RunStates /\ proc'[p].pc = "replace"
        /\ proc'[p].ticker = proc[p].ticker /\ proc'[p].date = proc[p].date
        /\ proc'[p].updates = proc[p].updates
    BY <1>2, <2>1, <2>2, ToFacts
  <2>9. RunKnown(p)'
    <3>1. files \subseteq files' /\ today' \in Int /\ today <= today' BY <1>1, <2>1
    <3>2. proc'[p].pc \notin {"store", "append", "clear", "done"} BY <2>8
    <3> QED BY <1>1, <1>2, <2>1, <2>8, <3>1, <3>2, RunGoesOn
  <2>10. runs' \in 0 .. MaxRuns BY <2>1 DEF FilesInv
  <2> QED BY <2>1, <2>5, <2>6, <2>7, <2>8, <2>9, <2>10, WritingStep
<1>8. ASSUME NEW p \in Procs, ReplaceLog(p) PROVE FilesInv'
  <2>1. /\ today' = today /\ runs' = runs /\ files' = files /\ threads' = threads
        /\ tmp' = <<>> /\ ~At(p, "idle")
        /\ IF tmp = <<>> THEN proc' = [proc EXCEPT ![p] = Idle] /\ log' = log
           ELSE log' = tmp[1] /\ To(p, "prepare")
    BY <1>8 DEF ReplaceLog, At
  <2>2. runs' \in 0 .. MaxRuns BY <2>1 DEF FilesInv
  <2>3. CASE tmp = <<>>
    <3>1. DOMAIN proc' = Procs /\ proc'[p] = Idle /\ \A q \in Procs : q # p => proc'[q] = proc[q]
      BY <1>2, <2>1, <2>3
    <3>2. RunKnown(p)' BY <3>1 DEF RunKnown, Idle
    <3>3. KnownLog(log)' BY <1>2, <2>1, <2>3 DEF KnownLog, Known
    <3> QED BY <2>1, <2>2, <3>1, <3>2, <3>3, WritingStep
  <2>4. CASE tmp # <<>>
    <3>1. KnownLog(log') BY <1>2, <2>1, <2>4
    <3>2. KnownLog(log)' BY <2>1, <3>1 DEF KnownLog, Known
    <3>3. proc[p] \in RunStates BY <1>2, <2>1, NotIdle
    <3>4. /\ DOMAIN proc' = Procs /\ \A q \in Procs : q # p => proc'[q] = proc[q]
          /\ proc'[p] \in RunStates /\ proc'[p].pc = "prepare"
          /\ proc'[p].ticker = proc[p].ticker /\ proc'[p].date = proc[p].date
        /\ proc'[p].updates = proc[p].updates
      BY <1>2, <2>1, <2>4, <3>3, ToFacts
    <3>5. RunKnown(p)'
      <4>1. files \subseteq files' /\ today' \in Int /\ today <= today' BY <1>1, <2>1
      <4>2. proc'[p].pc \notin {"store", "append", "clear", "done"} BY <3>4
      <4> QED BY <1>1, <1>2, <2>1, <3>4, <4>1, <4>2, RunGoesOn
    <3> QED BY <2>1, <2>2, <3>2, <3>4, <3>5, WritingStep
  <2> QED BY <2>3, <2>4
<1>9. ASSUME NEW p \in Procs, StartGraph(p) PROVE FilesInv'
  <2>1. /\ today' = today /\ runs' = runs /\ log' = log /\ tmp' = tmp /\ files' = files
        /\ threads' = threads /\ ~At(p, "idle")
        /\ proc' = [proc EXCEPT ![p].pc = "graph", ![p].node = 0,
                      ![p].done = IF Thread(p) \in DOMAIN threads THEN threads[Thread(p)] ELSE 0,
                      ![p].context = <<GetPastContext(log, proc[p].ticker)>>]
    BY <1>9 DEF StartGraph, At
  <2>2. proc[p] \in RunStates BY <1>2, <2>1, NotIdle
  <2> DEFINE done == IF Thread(p) \in DOMAIN threads THEN threads[Thread(p)] ELSE 0
             told == GetPastContext(log, proc[p].ticker)
  <2>3. done \in 0 .. GraphNodes /\ 0 \in 0 .. GraphNodes BY <1>2, PropagateAssumption
  <2>4. <<told>> \in Seq(Lessons)
    <3>1. proc[p].ticker \in Tickers BY <2>2 DEF RunStates
    <3>2. told \in Lessons BY <1>2, <3>1, LessonsAre
    <3> HIDE DEF told
    <3> QED BY <3>2
  <2> HIDE DEF done, told
  <2>5. /\ DOMAIN proc' = Procs /\ \A q \in Procs : q # p => proc'[q] = proc[q]
        /\ proc'[p] = [proc[p] EXCEPT !.pc = "graph", !.node = 0, !.done = done,
                                      !.context = <<told>>]
    BY <1>2, <2>1 DEF done, told
  <2>6. proc'[p] \in RunStates BY <2>2, <2>3, <2>4, <2>5 DEF RunStates
  <2>7. proc'[p].ticker = proc[p].ticker /\ proc'[p].date = proc[p].date
        /\ proc'[p].updates = proc[p].updates
        /\ proc'[p].pc \notin {"store", "append", "clear", "done"}
    BY <2>2, <2>5 DEF RunStates
  <2>8. DOMAIN threads' \subseteq Tickers \X Dates \X Shapes
        /\ \A th \in DOMAIN threads' : threads'[th] \in 1 .. GraphNodes
    BY <1>2, <2>1
  <2>9. /\ today' = today /\ runs' = runs /\ log' = log /\ tmp' = tmp /\ files' = files
        /\ ~At(p, "idle")
    BY <2>1
  <2>10. DOMAIN proc' = Procs /\ \A q \in Procs : q # p => proc'[q] = proc[q] BY <2>5
  <2> QED BY <1>2, <2>6, <2>7, <2>8, <2>9, <2>10, QuietStep
<1>10. ASSUME NEW p \in Procs, RunNode(p) PROVE FilesInv'
  <2>1. /\ today' = today /\ runs' = runs /\ log' = log /\ tmp' = tmp /\ files' = files
        /\ ~At(p, "idle") /\ At(p, "graph") /\ proc[p].node < GraphNodes
        /\ proc' = [proc EXCEPT ![p].node = @ + 1]
        /\ threads' = IF CheckpointEnabled
                      THEN [th \in DOMAIN threads \cup {Thread(p)} |->
                              IF th = Thread(p) THEN proc[p].node + 1 ELSE threads[th]]
                      ELSE threads
    BY <1>10 DEF RunNode, At
  <2>2. proc[p] \in RunStates BY <1>2, <2>1, NotIdle
  <2>3. proc[p].node + 1 \in 1 .. GraphNodes /\ proc[p].node + 1 \in 0 .. GraphNodes
    <3>1. proc[p].node \in 0 .. GraphNodes /\ GraphNodes \in Nat
      BY <2>2, PropagateAssumption DEF RunStates
    <3> QED BY <2>1, <3>1
  <2>4. Thread(p) \in Tickers \X Dates \X Shapes BY <2>2 DEF RunStates, Thread, ThreadId
  <2>5. DOMAIN threads' \subseteq Tickers \X Dates \X Shapes
        /\ \A th \in DOMAIN threads' : threads'[th] \in 1 .. GraphNodes
    BY <1>2, <2>1, <2>3, <2>4
  <2>6. /\ DOMAIN proc' = Procs /\ \A q \in Procs : q # p => proc'[q] = proc[q]
        /\ proc'[p] = [proc[p] EXCEPT !.node = proc[p].node + 1]
    BY <1>2, <2>1
  <2>7. proc'[p] \in RunStates BY <2>2, <2>3, <2>6 DEF RunStates
  <2>8. proc'[p].ticker = proc[p].ticker /\ proc'[p].date = proc[p].date
        /\ proc'[p].updates = proc[p].updates
        /\ proc'[p].pc \notin {"store", "append", "clear", "done"}
    BY <2>1, <2>2, <2>6 DEF RunStates, At
  <2> QED BY <2>1, <2>5, <2>6, <2>7, <2>8, QuietStep
<1>11. ASSUME NEW p \in Procs, LogState(p) PROVE FilesInv'
  <2>1. /\ today' = today /\ runs' = runs /\ log' = log /\ tmp' = tmp /\ threads' = threads
        /\ files' = files \cup {<<proc[p].ticker, proc[p].date>>} /\ To(p, "store")
        /\ ~At(p, "idle")
    BY <1>11 DEF LogState, At
  <2>2. proc[p] \in RunStates BY <1>2, <2>1, NotIdle
  <2>3. /\ DOMAIN proc' = Procs /\ \A q \in Procs : q # p => proc'[q] = proc[q]
        /\ proc'[p] \in RunStates /\ proc'[p].pc = "store"
        /\ proc'[p].ticker = proc[p].ticker /\ proc'[p].date = proc[p].date
        /\ proc'[p].updates = proc[p].updates
    BY <1>2, <2>1, <2>2, ToFacts
  <2>4. files \subseteq files' /\ files' \subseteq Tickers \X Dates
    <3>1. files \subseteq Tickers \X Dates BY DEF FilesInv
    <3> QED BY <2>1, <2>2, <3>1 DEF RunStates
  <2>5. today' \in Int /\ today <= today' /\ <<proc'[p].ticker, proc'[p].date>> \in files'
    BY <1>1, <2>1, <2>3
  <2>6. KnownLog(log)'
    <3>1. PICK s : s = log OBVIOUS
    <3>2. KnownLog(s)' BY <1>1, <1>2, <2>4, <2>5, <3>1, LogStays
    <3> QED BY <2>1, <3>1, <3>2
  <2>7. tmp' = <<>> \/ (tmp' = <<tmp[1]>>' /\ KnownLog(tmp[1])')
    <3>1. CASE tmp = <<>> BY <2>1, <3>1
    <3>2. CASE tmp = <<tmp[1]>> /\ KnownLog(tmp[1])
      <4>1. PICK s : s = tmp[1] OBVIOUS
      <4>2. KnownLog(s)' BY <1>1, <2>4, <2>5, <3>2, <4>1, LogStays
      <4> QED BY <2>1, <3>2, <4>1, <4>2
    <3> QED BY <1>2, <3>1, <3>2
  <2>8. \A q \in Procs : RunKnown(q)'
    <3> TAKE q \in Procs
    <3>1. CASE q # p BY <1>1, <1>2, <2>3, <2>4, <2>5, <3>1, RunStays
    <3>2. CASE q = p BY <1>1, <1>2, <2>1, <2>3, <2>4, <2>5, <3>2, RunGoesOn
    <3> QED BY <3>1, <3>2
  <2> QED BY <2>1, <2>3, <2>4, <2>6, <2>7, <2>8 DEF FilesInv
<1>12. ASSUME NEW p \in Procs, LookForDecision(p) PROVE FilesInv'
  <2> DEFINE x == IF StoreDecision(log, proc[p].ticker, proc[p].date) = log
                  THEN "clear" ELSE "append"
  <2>1. /\ today' = today /\ runs' = runs /\ log' = log /\ tmp' = tmp /\ files' = files
        /\ threads' = threads /\ ~At(p, "idle") /\ At(p, "store") /\ To(p, x)
    BY <1>12 DEF LookForDecision, At
  <2>2. x \in {"clear", "append"} OBVIOUS
  <2> HIDE DEF x
  <2>3. proc[p] \in RunStates BY <1>2, <2>1, NotIdle
  <2>4. /\ DOMAIN proc' = Procs /\ \A q \in Procs : q # p => proc'[q] = proc[q]
        /\ proc'[p] \in RunStates
        /\ proc'[p].ticker = proc[p].ticker /\ proc'[p].date = proc[p].date
        /\ proc'[p].updates = proc[p].updates
    BY <1>2, <2>1, <2>2, <2>3, ToFacts
  <2>5. <<proc'[p].ticker, proc'[p].date>> \in files
    BY <1>2, <2>1, <2>4 DEF RunKnown, At, Idle
  <2>6. DOMAIN threads' \subseteq Tickers \X Dates \X Shapes
        /\ \A th \in DOMAIN threads' : threads'[th] \in 1 .. GraphNodes
    BY <1>2, <2>1
  <2> QED BY <2>1, <2>4, <2>5, <2>6, QuietStep
<1>13. ASSUME NEW p \in Procs, AppendDecision(p) PROVE FilesInv'
  <2> DEFINE e == Entry(proc[p].ticker, proc[p].date, Pending)
  <2>1. /\ today' = today /\ runs' = runs /\ tmp' = tmp /\ files' = files /\ threads' = threads
        /\ ~At(p, "idle") /\ At(p, "append") /\ To(p, "clear") /\ log' = Append(log, e)
    BY <1>13 DEF AppendDecision, At
  <2>2. proc[p] \in RunStates /\ <<proc[p].ticker, proc[p].date>> \in files
    BY <1>2, <2>1, NotIdle DEF At
  <2>3. /\ DOMAIN proc' = Procs /\ \A q \in Procs : q # p => proc'[q] = proc[q]
        /\ proc'[p] \in RunStates
        /\ proc'[p].ticker = proc[p].ticker /\ proc'[p].date = proc[p].date
        /\ proc'[p].updates = proc[p].updates
    BY <1>2, <2>1, <2>2, ToFacts
  <2>4. Known(e)
    <3>1. e.ticker = proc[p].ticker /\ e.date = proc[p].date /\ e.held = 0
      BY DEF Entry, Pending
    <3>2. e \in Records
      <4>1. 0 \in 0 .. HoldingDays BY PropagateAssumption
      <4> QED BY <2>2, <4>1 DEF Records, Entry, RunStates, Pending
    <3>3. proc[p].date \in Int /\ proc[p].date <= today
      <4>1. proc[p].date \in Dates BY <2>2 DEF RunStates
      <4>2. proc[p].date <= today BY <1>2, <2>1, NotIdle
      <4>3. proc[p].date \in Int BY <4>1, DatesAreDays
      <4> QED BY <4>2, <4>3
    <3> HIDE DEF e
    <3> QED BY <2>2, <3>1, <3>2, <3>3 DEF Known
  <2> HIDE DEF e
  <2>5. KnownLog(log')
    <3>1. e \in Entries BY <2>4, RecordsAreEntries DEF Known
    <3>2. log' \in Seq(Entries) BY <1>2, <2>1, <3>1
    <3>3. \A x : Has(log', x) => Has(log, x) \/ x = e BY <1>2, <2>1, HasAppend
    <3>4. \A x : Has(log, x) => Known(x) BY <1>2, KnownLogHas
    <3> QED BY <2>4, <3>2, <3>3, <3>4, KnownLogHas
  <2>6. KnownLog(log)' BY <2>1, <2>5 DEF KnownLog, Known
  <2>7. tmp' = <<>> \/ (tmp' = <<tmp[1]>>' /\ KnownLog(tmp[1])')
    BY <1>2, <2>1 DEF KnownLog, Known
  <2>8. RunKnown(p)'
    <3>1. files \subseteq files' /\ today' \in Int /\ today <= today' BY <1>1, <2>1
    <3>2. <<proc'[p].ticker, proc'[p].date>> \in files' BY <2>1, <2>2, <2>3
    <3> QED BY <1>1, <1>2, <2>1, <2>3, <3>1, <3>2, RunGoesOn
  <2>9. runs' \in 0 .. MaxRuns BY <2>1 DEF FilesInv
  <2> QED BY <2>1, <2>3, <2>6, <2>7, <2>8, <2>9, WritingStep
<1>14. ASSUME NEW p \in Procs, ClearCheckpoint(p) PROVE FilesInv'
  <2>1. /\ today' = today /\ runs' = runs /\ log' = log /\ tmp' = tmp /\ files' = files
        /\ threads' = [th \in DOMAIN threads \ {Thread(p)} |-> threads[th]]
        /\ ~At(p, "idle") /\ At(p, "clear") /\ To(p, "done")
    BY <1>14 DEF ClearCheckpoint, At
  <2>2. proc[p] \in RunStates /\ <<proc[p].ticker, proc[p].date>> \in files
    BY <1>2, <2>1, NotIdle DEF At
  <2>3. /\ DOMAIN proc' = Procs /\ \A q \in Procs : q # p => proc'[q] = proc[q]
        /\ proc'[p] \in RunStates
        /\ proc'[p].ticker = proc[p].ticker /\ proc'[p].date = proc[p].date
        /\ proc'[p].updates = proc[p].updates
    BY <1>2, <2>1, <2>2, ToFacts
  <2>4. <<proc'[p].ticker, proc'[p].date>> \in files BY <2>2, <2>3
  <2>5. DOMAIN threads' \subseteq Tickers \X Dates \X Shapes
        /\ \A th \in DOMAIN threads' : threads'[th] \in 1 .. GraphNodes
    BY <1>2, <2>1
  <2> QED BY <2>1, <2>3, <2>4, <2>5, QuietStep
<1>15. ASSUME NEW p \in Procs, Return(p) \/ Crash(p) PROVE FilesInv'
  <2>1. /\ today' = today /\ runs' = runs /\ log' = log /\ tmp' = tmp /\ files' = files
        /\ threads' = threads /\ ~At(p, "idle") /\ proc' = [proc EXCEPT ![p] = Idle]
    BY <1>15 DEF Return, Crash, At
  <2>2. /\ DOMAIN proc' = Procs /\ \A q \in Procs : q # p => proc'[q] = proc[q]
        /\ proc'[p] = Idle
    BY <1>2, <2>1
  <2>3. DOMAIN threads' \subseteq Tickers \X Dates \X Shapes
        /\ \A th \in DOMAIN threads' : threads'[th] \in 1 .. GraphNodes
    BY <1>2, <2>1
  <2> QED BY <2>1, <2>2, <2>3, QuietStep
<1> QED BY <1>3, <1>4, <1>5, <1>6, <1>7, <1>8, <1>9, <1>10, <1>11, <1>12, <1>13, <1>14, <1>15
        DEF Next

\* However many processes run, die and overwrite each other's text, the entries of
\* the log, and of the text that is to replace it, are known, and so are the runs.
THEOREM FilesCorrect == Spec => []FilesInv
<1>1. FilesInv /\ [Next]_vars => FilesInv' BY FilesStep
<1> QED BY <1>1, FilesInit, PTL DEF Spec

\* Every variable keeps its type, and no outcome is of prices to come.
THEOREM TypeCorrect == Spec => []TypeOK
<1>1. FilesInv => TypeOK
  <2> SUFFICES ASSUME FilesInv PROVE TypeOK OBVIOUS
  <2>1. ASSUME NEW i \in DOMAIN log
        PROVE  /\ log[i] \in [ticker : Tickers, held : 0 .. HoldingDays,
                              date : Dates \cup {ContextOf(d) : d \in ContextDates}]
               /\ log[i].date + log[i].held <= today
    <3>1. Known(log[i]) BY DEF FilesInv, KnownLog
    <3> QED BY <3>1 DEF Known, Records
  <2>2. Len(tmp) \in 0 .. 1
    <3>1. CASE tmp = <<>> BY <3>1
    <3>2. CASE tmp = <<tmp[1]>>
      <4>1. Len(<<tmp[1]>>) = 1 OBVIOUS
      <4> QED BY <3>2, <4>1
    <3> QED BY <3>1, <3>2 DEF FilesInv
  <2>3. ASSUME NEW p \in Procs, Running(p) PROVE proc[p].node \in 0 .. GraphNodes
    <3>1. proc[p] \in RunStates BY <2>3, NotIdle DEF FilesInv, Running
    <3> QED BY <3>1 DEF RunStates
  <2> QED BY <2>1, <2>2, <2>3 DEF FilesInv, TypeOK
<1> QED BY <1>1, FilesCorrect, PTL

\* However many processes run and die, no decision is in the log, nor in the
\* text that is to replace it, without the final state it came from on disk.
StatesOnDisk ==
  /\ \A i \in DOMAIN log : log[i].date >= 0 => <<log[i].ticker, log[i].date>> \in files
  /\ tmp # <<>> => \A i \in DOMAIN tmp[1] :
                     tmp[1][i].date >= 0 => <<tmp[1][i].ticker, tmp[1][i].date>> \in files

\* A final state is on disk before its decision can be in the log, and stays there.
THEOREM NoDecisionWithoutItsState == Spec => []StatesOnDisk
<1>1. FilesInv => StatesOnDisk BY DEF FilesInv, StatesOnDisk, KnownLog, Known
<1> QED BY <1>1, FilesCorrect, PTL

-----------------------------------------------------------------------------
(* With one process on the files, what it has read stays so until it       *)
(* writes: the invariant of its steps.                                     *)

\* A second process may take away what the first has read: see PendingUntilResolved.
OneProcess == \A p, q \in Procs : p = q

\* The decision of a run.
Own(p) == Entry(proc[p].ticker, proc[p].date, Pending)

\* What the log has is what the process took from it, at each of its steps.
Undisturbed(p) ==
  /\ At(p, "resolve") \/ At(p, "replace") =>
       /\ proc[p].updates # {} /\ IsFiniteSet(proc[p].updates)
       /\ \A u \in proc[p].updates : Has(log, Decision(u))
  /\ At(p, "replace") => tmp = <<BatchUpdateWithOutcomes(log, proc[p].updates)>>
  /\ At(p, "graph") => proc[p].context = <<GetPastContext(log, proc[p].ticker)>>
  /\ At(p, "append") => ~Has(log, Own(p))
  /\ At(p, "clear") \/ At(p, "done") => Has(log, Own(p))
  /\ At(p, "done") => Thread(p) \notin DOMAIN threads

RunInv == Once(log) /\ \A p \in Procs : Undisturbed(p)

\* A run fetches finitely many outcomes.
LEMMA FetchedIsFinite ==
  ASSUME KnownLog(log), today \in Int, NEW t \in Tickers, NEW us \in Fetched(t)
  PROVE  IsFiniteSet(us)
<1>1. Batch(us) /\ \A u \in us : Has(log, Decision(u)) BY UpdatesFacts
<1> DEFINE f == [u \in us |-> CHOOSE i \in DOMAIN log : log[i] = Decision(u)]
<1>2. \A u \in us : f[u] \in DOMAIN log /\ log[f[u]] = Decision(u) BY <1>1 DEF Has
<1>3. \A u, v \in us : f[u] = f[v] => u = v BY <1>1, <1>2 DEF Batch
<1>4. f \in [us -> DOMAIN log] BY <1>2
<1> HIDE DEF f
<1>5. f \in Injection(us, DOMAIN log) BY <1>3, <1>4 DEF Injection, IsInjective
<1>6. IsFiniteSet(DOMAIN log)
  <2>1. log \in Seq(Entries) BY DEF KnownLog
  <2>2. DOMAIN log = 1 .. Len(log) /\ Len(log) \in Int BY <2>1
  <2> QED BY <2>2, FS_Interval
<1> QED BY <1>5, <1>6, FS_Injection

\* What a batch does to a log where nothing is pending twice.
LEMMA BatchFacts ==
  ASSUME NEW s \in Seq(Entries), Once(s), NEW us, Batch(us)
  PROVE  /\ Once(BatchUpdateWithOutcomes(s, us))
         /\ \A e : IsPending(e) /\ Has(s, e) /\ (\A u \in us : Decision(u) # e)
              => Has(BatchUpdateWithOutcomes(s, us), e)
         /\ MaxEntries > 0 => Len(Resolved(BatchUpdateWithOutcomes(s, us))) <= MaxEntries
<1>1. BatchUpdateWithOutcomes(s, us) = ApplyRotation(Put(s, us)) BY BatchIs
<1>2. /\ Put(s, us) \in Seq(Entries) /\ Once(Put(s, us))
      /\ \A e : Has(s, e) /\ (\A u \in us : Decision(u) # e) => Has(Put(s, us), e)
  BY PutFacts
<1> QED BY <1>1, <1>2, RotationFacts

\* store_decision leaves the log alone where the decision is pending in it.
LEMMA StoreFacts ==
  ASSUME NEW s \in Seq(Entries), NEW t, NEW d
  PROVE  /\ StoreDecision(s, t, d) = s <=> Has(s, Entry(t, d, Pending))
         /\ Once(s) => Once(StoreDecision(s, t, d))
<1>1. Len(Append(s, Entry(t, d, Pending))) = Len(s) + 1 /\ Len(s) \in Nat OBVIOUS
<1>2. Append(s, Entry(t, d, Pending)) # s BY <1>1
<1>3. Once(Append(s, Entry(t, d, Pending)))
        <=> Once(s) /\ (IsPending(Entry(t, d, Pending)) => ~Has(s, Entry(t, d, Pending)))
  BY OnceAppend
<1> QED BY <1>2, <1>3 DEF StoreDecision, Has

\* The invariant of one process holds at the start.
LEMMA RunInit == Init => RunInv
<1> SUFFICES ASSUME Init PROVE RunInv OBVIOUS
<1>1. Once(log) BY LogsAssumption DEF Init, Once
<1>2. \A p \in Procs : proc[p].pc = "idle" BY DEF Init, Idle
<1> QED BY <1>1, <1>2 DEF RunInv, Undisturbed, At

\* And each step of the one process keeps it.
LEMMA RunStep == ASSUME OneProcess PROVE FilesInv /\ RunInv /\ [Next]_vars => RunInv'
<1> SUFFICES ASSUME FilesInv, RunInv, [Next]_vars PROVE RunInv' OBVIOUS
<1>1. /\ KnownLog(log) /\ log \in Seq(Entries) /\ DOMAIN proc = Procs
      /\ \A p \in Procs : RunKnown(p)
      /\ Once(log) /\ \A p \in Procs : Undisturbed(p)
  BY DEF FilesInv, KnownLog, RunInv
<1>2. ASSUME NEW p \in Procs, Once(log'), Undisturbed(p)' PROVE RunInv'
  <2>1. \A q \in Procs : Undisturbed(q)'
    <3> TAKE q \in Procs
    <3>1. q = p BY DEF OneProcess
    <3> QED BY <1>2, <3>1
  <2> QED BY <1>2, <2>1 DEF RunInv, Once
<1>3. ASSUME log' = log, tmp' = tmp, threads' = threads, proc' = proc PROVE RunInv'
  BY <1>1, <1>3 DEF RunInv, Once, Undisturbed, At, Own, Thread, Has
<1>4. CASE UNCHANGED vars BY <1>3, <1>4 DEF vars
<1>5. CASE NewDay BY <1>3, <1>5 DEF NewDay
<1>6. ASSUME NEW p \in Procs, NEW t \in Tickers, NEW d \in ContextDates,
             InjectLongHorizonContext(p, t, d)
      PROVE  RunInv'
  <2>1. At(p, "idle") /\ proc' = proc /\ log' = StoreDecision(log, t, ContextOf(d))
    BY <1>6 DEF InjectLongHorizonContext
  <2>2. Once(log') BY <1>1, <2>1, StoreFacts
  <2>3. Undisturbed(p)' BY <2>1 DEF Undisturbed, At
  <2> QED BY <1>2, <2>2, <2>3
<1>7. ASSUME NEW p \in Procs, NEW t \in Tickers, NEW d \in Dates, NEW shape \in Shapes,
             Propagate(p, t, d, shape)
      PROVE  RunInv'
  <2>1. PICK us \in Fetched(t) :
          /\ At(p, "idle") /\ runs < MaxRuns /\ d <= today
          /\ runs' = runs + 1
          /\ proc' = [proc EXCEPT ![p] = [pc |-> IF us = {} THEN "prepare" ELSE "resolve",
                                          ticker |-> t, date |-> d, shape |-> shape,
                                          updates |-> us, context |-> <<>>, node |-> 0,
                                          done |-> 0]]
          /\ UNCHANGED <<today, log, tmp, files, threads>>
    BY <1>7 DEF Propagate
  <2>2. IsFiniteSet(us) /\ \A u \in us : Has(log, Decision(u))
    <3>1. today \in Int BY PropagateAssumption DEF FilesInv
    <3> QED BY <1>1, <3>1, FetchedIsFinite, UpdatesFacts
  <2>3. proc'[p] = [pc |-> IF us = {} THEN "prepare" ELSE "resolve",
                    ticker |-> t, date |-> d, shape |-> shape,
                    updates |-> us, context |-> <<>>, node |-> 0, done |-> 0]
    BY <1>1, <2>1
  <2>4. proc'[p].pc = (IF us = {} THEN "prepare" ELSE "resolve") /\ proc'[p].updates = us
    BY <2>3
  <2>5. Undisturbed(p)'
    <3>1. proc'[p].pc \in {"prepare", "resolve"} /\ (proc'[p].pc = "resolve" => us # {})
      BY <2>4
    <3>2. \A u \in us : Has(log', Decision(u)) BY <2>1, <2>2
    <3> QED BY <2>2, <2>4, <3>1, <3>2 DEF Undisturbed, At, Has
  <2>6. Once(log') BY <1>1, <2>1
  <2> QED BY <1>2, <2>5, <2>6
<1>8. ASSUME NEW p \in Procs, WriteBatch(p) PROVE RunInv'
  <2>1. /\ At(p, "resolve") /\ To(p, "replace") /\ log' = log
        /\ tmp' = <<BatchUpdateWithOutcomes(log, proc[p].updates)>>
    BY <1>8 DEF WriteBatch
  <2>2. proc[p] \in RunStates BY <1>1, <2>1, NotIdle DEF At
  <2>3. proc'[p].pc = "replace" /\ proc'[p].updates = proc[p].updates
    BY <1>1, <2>1, <2>2, ToFacts
  <2>4. /\ proc[p].updates # {} /\ IsFiniteSet(proc[p].updates)
        /\ \A u \in proc[p].updates : Has(log, Decision(u))
    BY <1>1, <2>1 DEF Undisturbed
  <2>5. Undisturbed(p)' BY <2>1, <2>3, <2>4 DEF Undisturbed, At, Has
  <2>6. Once(log') BY <1>1, <2>1
  <2> QED BY <1>2, <2>5, <2>6
<1>9. ASSUME NEW p \in Procs, ReplaceLog(p) PROVE RunInv'
  <2>1. At(p, "replace") /\ tmp = <<BatchUpdateWithOutcomes(log, proc[p].updates)>>
    BY <1>1, <1>9 DEF ReplaceLog, Undisturbed
  <2>2. tmp # <<>> /\ tmp[1] = BatchUpdateWithOutcomes(log, proc[p].updates) BY <2>1
  <2>3. log' = BatchUpdateWithOutcomes(log, proc[p].updates) /\ To(p, "prepare")
    BY <1>9, <2>2 DEF ReplaceLog
  <2>4. proc[p] \in RunStates /\ Batch(proc[p].updates) BY <1>1, <2>1, NotIdle DEF At
  <2>5. proc'[p].pc = "prepare" BY <1>1, <2>3, <2>4, ToFacts
  <2>6. Undisturbed(p)' BY <2>5 DEF Undisturbed, At
  <2>7. Once(log') BY <1>1, <2>3, <2>4, BatchFacts
  <2> QED BY <1>2, <2>6, <2>7
<1>10. ASSUME NEW p \in Procs, StartGraph(p) PROVE RunInv'
  <2> DEFINE told == GetPastContext(log, proc[p].ticker)
             done == IF Thread(p) \in DOMAIN threads THEN threads[Thread(p)] ELSE 0
  <2>1. /\ At(p, "prepare") /\ log' = log
        /\ proc' = [proc EXCEPT ![p].pc = "graph", ![p].node = 0, ![p].done = done,
                                ![p].context = <<told>>]
    BY <1>10 DEF StartGraph
  <2>2. proc[p] \in RunStates BY <1>1, <2>1, NotIdle DEF At
  <2> HIDE DEF done
  <2>3. proc'[p].pc = "graph" /\ proc'[p].context = <<told>> /\ proc'[p].ticker = proc[p].ticker
    <3> HIDE DEF told
    <3>1. proc'[p] = [proc[p] EXCEPT !.pc = "graph", !.node = 0, !.done = done,
                                     !.context = <<told>>]
      BY <1>1, <2>1
    <3> QED BY <2>2, <3>1 DEF RunStates
  <2>4. Undisturbed(p)' BY <2>1, <2>3 DEF Undisturbed, At
  <2>5. Once(log') BY <1>1, <2>1
  <2> QED BY <1>2, <2>4, <2>5
<1>11. ASSUME NEW p \in Procs, RunNode(p) PROVE RunInv'
  <2>1. At(p, "graph") /\ log' = log /\ proc' = [proc EXCEPT ![p].node = @ + 1]
    BY <1>11 DEF RunNode
  <2>2. proc[p] \in RunStates BY <1>1, <2>1, NotIdle DEF At
  <2>3. /\ proc'[p].pc = "graph" /\ proc'[p].context = proc[p].context
        /\ proc'[p].ticker = proc[p].ticker
    <3>1. proc'[p] = [proc[p] EXCEPT !.node = proc[p].node + 1] BY <1>1, <2>1
    <3> QED BY <2>1, <2>2, <3>1 DEF RunStates, At
  <2>4. proc[p].context = <<GetPastContext(log, proc[p].ticker)>>
    BY <1>1, <2>1 DEF Undisturbed
  <2>5. Undisturbed(p)' BY <2>1, <2>3, <2>4 DEF Undisturbed, At
  <2>6. Once(log') BY <1>1, <2>1
  <2> QED BY <1>2, <2>5, <2>6
<1>12. ASSUME NEW p \in Procs, LogState(p) PROVE RunInv'
  <2>1. At(p, "graph") /\ log' = log /\ To(p, "store") BY <1>12 DEF LogState
  <2>2. proc[p] \in RunStates BY <1>1, <2>1, NotIdle DEF At
  <2>3. proc'[p].pc = "store" BY <1>1, <2>1, <2>2, ToFacts
  <2>4. Undisturbed(p)' BY <2>3 DEF Undisturbed, At
  <2>5. Once(log') BY <1>1, <2>1
  <2> QED BY <1>2, <2>4, <2>5
<1>13. ASSUME NEW p \in Procs, LookForDecision(p) PROVE RunInv'
  <2> DEFINE x == IF StoreDecision(log, proc[p].ticker, proc[p].date) = log
                  THEN "clear" ELSE "append"
  <2>1. At(p, "store") /\ log' = log /\ To(p, x) BY <1>13 DEF LookForDecision
  <2>2. proc[p] \in RunStates BY <1>1, <2>1, NotIdle DEF At
  <2>3. x \in {"clear", "append"} /\ (x = "clear" <=> Has(log, Own(p)))
    BY <1>1, StoreFacts DEF Own
  <2> HIDE DEF x
  <2>4. proc'[p].pc = x /\ proc'[p].ticker = proc[p].ticker /\ proc'[p].date = proc[p].date
    BY <1>1, <2>1, <2>2, <2>3, ToFacts
  <2>5. Own(p)' = Own(p) BY <2>4 DEF Own
  <2>6. Has(log', Own(p)') <=> Has(log, Own(p)) BY <2>1, <2>5
  <2>7. Undisturbed(p)'
    <3>1. proc'[p].pc \in {"clear", "append"} /\ (proc'[p].pc = "clear" <=> Has(log', Own(p)'))
      BY <2>3, <2>4, <2>6
    <3> QED BY <3>1 DEF Undisturbed, At, Has
  <2>8. Once(log') BY <1>1, <2>1
  <2> QED BY <1>2, <2>7, <2>8
<1>14. ASSUME NEW p \in Procs, AppendDecision(p) PROVE RunInv'
  <2>1. At(p, "append") /\ log' = Append(log, Own(p)) /\ To(p, "clear")
    BY <1>14 DEF AppendDecision, Own
  <2>2. proc[p] \in RunStates BY <1>1, <2>1, NotIdle DEF At
  <2>3. proc'[p].pc = "clear" /\ proc'[p].ticker = proc[p].ticker /\ proc'[p].date = proc[p].date
    BY <1>1, <2>1, <2>2, ToFacts
  <2>4. ~Has(log, Own(p)) BY <1>1, <2>1 DEF Undisturbed
  <2>5. Own(p)' = Own(p) BY <2>3 DEF Own
  <2>6. Has(log', Own(p)) BY <1>1, <2>1, HasAppend
  <2>7. Has(log, Own(p))' BY <2>5, <2>6 DEF Has
  <2>8. Undisturbed(p)' BY <2>3, <2>7 DEF Undisturbed, At
  <2>9. Once(log') BY <1>1, <2>1, <2>4, OnceAppend
  <2> QED BY <1>2, <2>8, <2>9
<1>15. ASSUME NEW p \in Procs, ClearCheckpoint(p) PROVE RunInv'
  <2>1. /\ At(p, "clear") /\ log' = log /\ To(p, "done")
        /\ threads' = [th \in DOMAIN threads \ {Thread(p)} |-> threads[th]]
    BY <1>15 DEF ClearCheckpoint
  <2>2. proc[p] \in RunStates BY <1>1, <2>1, NotIdle DEF At
  <2>3. /\ proc'[p].pc = "done" /\ proc'[p].ticker = proc[p].ticker
        /\ proc'[p].date = proc[p].date /\ proc'[p].shape = proc[p].shape
    BY <1>1, <2>1, <2>2, ToFacts
  <2>4. Thread(p)' = Thread(p) /\ Own(p)' = Own(p) BY <2>3 DEF Thread, Own
  <2>5. (Thread(p) \notin DOMAIN threads)'
    <3>1. Thread(p) \notin DOMAIN threads' BY <2>1
    <3> QED BY <2>4, <3>1
  <2>6. Has(log, Own(p)) BY <1>1, <2>1 DEF Undisturbed
  <2>7. Has(log, Own(p))' BY <2>1, <2>4, <2>6 DEF Has
  <2>8. Undisturbed(p)' BY <2>3, <2>5, <2>7 DEF Undisturbed, At
  <2>9. Once(log') BY <1>1, <2>1
  <2> QED BY <1>2, <2>8, <2>9
<1>16. ASSUME NEW p \in Procs, Return(p) \/ Crash(p) PROVE RunInv'
  <2>1. log' = log /\ proc' = [proc EXCEPT ![p] = Idle] BY <1>16 DEF Return, Crash
  <2>2. proc'[p].pc = "idle" BY <1>1, <2>1 DEF Idle
  <2>3. Undisturbed(p)' BY <2>2 DEF Undisturbed, At
  <2>4. Once(log') BY <1>1, <2>1
  <2> QED BY <1>2, <2>3, <2>4
<1> QED BY <1>4, <1>5, <1>6, <1>7, <1>8, <1>9, <1>10, <1>11, <1>12, <1>13, <1>14, <1>15, <1>16
        DEF Next

\* What one process finds in the files is what it left there.
THEOREM OneRunInductive == ASSUME OneProcess PROVE Spec => [](FilesInv /\ RunInv)
<1>1. FilesInv /\ RunInv /\ [Next]_vars => (FilesInv /\ RunInv)' BY FilesStep, RunStep
<1>2. Init => FilesInv /\ RunInv BY FilesInit, RunInit
<1> QED BY <1>1, <1>2, PTL DEF Spec

\* A run that has returned has its final state on disk, its decision in the log
\* and its checkpoints cleared, and no decision is pending twice.
THEOREM RunsAreRecorded == ASSUME OneProcess PROVE Spec => []EveryRunIsRecorded
<1>1. FilesInv /\ RunInv => EveryRunIsRecorded
  <2> SUFFICES ASSUME FilesInv, RunInv PROVE EveryRunIsRecorded OBVIOUS
  <2>1. ASSUME NEW p \in Procs, At(p, "done")
        PROVE  /\ \E i \in DOMAIN log : log[i] = Entry(proc[p].ticker, proc[p].date, Pending)
               /\ Thread(p) \notin DOMAIN threads
    BY <2>1 DEF RunInv, Undisturbed, Has, Own
  <2>2. ASSUME NEW i \in DOMAIN log
        PROVE  /\ log[i].date >= 0 => <<log[i].ticker, log[i].date>> \in files
               /\ IsPending(log[i]) => Count(log, log[i]) = 1
    <3>1. Known(log[i]) BY DEF FilesInv, KnownLog
    <3>2. ASSUME IsPending(log[i]) PROVE Count(log, log[i]) = 1
      <4>1. {j \in DOMAIN log : log[j] = log[i]} = {i} BY <3>2 DEF RunInv, Once
      <4> QED BY <4>1, FS_Singleton DEF Count
    <3> QED BY <3>1, <3>2 DEF Known
  <2> QED BY <2>1, <2>2 DEF EveryRunIsRecorded
<1> QED BY <1>1, OneRunInductive, PTL

\* While the graph of a run goes on, what its agents were told are the latest
\* outcomes in the log, of its own ticker and of the others.
THEOREM LessonsAreRight == ASSUME OneProcess PROVE Spec => []LessonsAreTheLatest
<1>1. FilesInv /\ RunInv => LessonsAreTheLatest
  <2> SUFFICES ASSUME FilesInv, RunInv, NEW p \in Procs, At(p, "graph")
               PROVE  LET own == {proc[p].ticker}
                          told == proc[p].context[1]
                      IN  /\ told.same = Backwards(Last(KeepOnly(log, Outcomes(own)), NSame))
                          /\ told.cross =
                               Backwards(Last(KeepOnly(log, Outcomes(Tickers \ own)), NCross))
    BY DEF LessonsAreTheLatest
  <2>1. proc[p].context = <<GetPastContext(log, proc[p].ticker)>> BY DEF RunInv, Undisturbed
  <2>2. proc[p].context[1] = GetPastContext(log, proc[p].ticker) BY <2>1
  <2>3. log \in Seq(Entries) BY DEF FilesInv, KnownLog
  <2>4. proc[p].ticker \in Tickers
    <3>1. proc[p] \in RunStates BY NotIdle DEF FilesInv, At
    <3> QED BY <3>1 DEF RunStates
  <2>5. /\ proc[p].context[1].same =
             Backwards(Last(KeepOnly(log, Outcomes({proc[p].ticker})), NSame))
        /\ proc[p].context[1].cross =
             Backwards(Last(KeepOnly(log, Outcomes(Tickers \ {proc[p].ticker})), NCross))
    <3>1. PICK t \in Tickers : t = proc[p].ticker BY <2>4
    <3>2. PICK s \in Seq(Entries) : s = log BY <2>3
    <3>3. PICK c : c = GetPastContext(s, t) OBVIOUS
    <3>4. /\ c.same = Backwards(Last(KeepOnly(s, Outcomes({t})), NSame))
          /\ c.cross = Backwards(Last(KeepOnly(s, Outcomes(Tickers \ {t})), NCross))
      BY <3>3, LessonsAre
    <3>5. proc[p].context[1] = c BY <2>2, <3>1, <3>2, <3>3
    <3> QED BY <3>1, <3>2, <3>4, <3>5
  <2> QED BY <2>5
<1> QED BY <1>1, OneRunInductive, PTL

\* Counting none is having none.
LEMMA CountIs ==
  ASSUME NEW s \in Seq(Entries), NEW e, Count(s, e) = 0
  PROVE  ~Has(s, e)
<1>1. DOMAIN s = 1 .. Len(s) /\ Len(s) \in Int OBVIOUS
<1>2. IsFiniteSet(DOMAIN s) BY <1>1, FS_Interval
<1>3. IsFiniteSet({i \in DOMAIN s : s[i] = e})
  <2>1. {i \in DOMAIN s : s[i] = e} \in SUBSET DOMAIN s OBVIOUS
  <2> QED BY <1>2, <2>1, FS_Subset
<1>4. {i \in DOMAIN s : s[i] = e} = {} BY <1>3, FS_EmptySet DEF Count
<1> QED BY <1>4 DEF Has

\* Whenever processes die, a decision only stops to be pending, or leaves the
\* log, with its outcome; a batch does what its outcomes do one at a time, in
\* whichever order, and leaves no more of them than the cap.
THEOREM PendingStays == ASSUME OneProcess PROVE Spec => PendingUntilResolved
<1> DEFINE Stays ==
      /\ \A i \in DOMAIN log :
           IsPending(log[i]) /\ Count(log', log[i]) = 0 =>
             \E p \in Procs : At(p, "replace") /\ \E u \in proc[p].updates :
                                u.ticker = log[i].ticker /\ u.date = log[i].date
      /\ \A p \in Procs : At(p, "replace") /\ proc'[p].pc = "prepare" =>
           /\ log' = FoldSet(LAMBDA u, l : UpdateWithOutcome(l, u.ticker, u.date, u.held),
                             log, proc[p].updates)
           /\ MaxEntries > 0 => Len(Resolved(log')) <= MaxEntries
<1>1. ASSUME FilesInv, RunInv, FilesInv', Next PROVE Stays
  <2>1. /\ log \in Seq(Entries) /\ log' \in Seq(Entries) /\ Once(log) /\ DOMAIN proc = Procs
        /\ \A p \in Procs : RunKnown(p) /\ Undisturbed(p)
    BY <1>1 DEF FilesInv, KnownLog, RunInv
  <2>2. CASE \E p \in Procs : ReplaceLog(p)
    <3>1. PICK p \in Procs : ReplaceLog(p) BY <2>2
    <3> DEFINE us == proc[p].updates
    <3>2. /\ At(p, "replace") /\ tmp = <<BatchUpdateWithOutcomes(log, us)>>
          /\ us # {} /\ IsFiniteSet(us) /\ \A u \in us : Has(log, Decision(u))
      BY <2>1, <3>1 DEF ReplaceLog, Undisturbed
    <3>3. Batch(us) BY <2>1, <3>2, NotIdle DEF At
    <3>4. log' = BatchUpdateWithOutcomes(log, us) BY <3>1, <3>2 DEF ReplaceLog
    <3>5. ASSUME NEW i \in DOMAIN log, IsPending(log[i]), Count(log', log[i]) = 0
          PROVE  \E u \in us : u.ticker = log[i].ticker /\ u.date = log[i].date
      <4>1. ~Has(log', log[i]) BY <2>1, <3>5, CountIs
      <4>2. Has(log, log[i]) BY DEF Has
      <4>3. PICK u \in us : Decision(u) = log[i]
        <5> HIDE DEF us
        <5> QED BY <2>1, <3>3, <3>4, <3>5, <4>1, <4>2, BatchFacts
      <4> QED BY <4>3 DEF Decision, Entry
    <3>6. /\ log' = FoldSet(LAMBDA u, l : UpdateWithOutcome(l, u.ticker, u.date, u.held), log, us)
          /\ MaxEntries > 0 => Len(Resolved(log')) <= MaxEntries
      <4> HIDE DEF us
      <4> QED BY Zenon, <2>1, <3>2, <3>3, <3>4, OneAtATime, BatchFacts
    <3>7. \A q \in Procs : q = p BY DEF OneProcess
    <3> QED BY Zenon, <3>2, <3>5, <3>6, <3>7
  <2>3. CASE ~ \E p \in Procs : ReplaceLog(p)
    <3>1. \A e : Has(log, e) => Has(log', e)
      <4>1. CASE log' = log BY <4>1
      <4>2. ASSUME NEW e, log' = Append(log, e) PROVE \A x : Has(log, x) => Has(log', x)
        BY <2>1, <4>2, HasAppend
      <4>3. CASE \E p \in Procs, t \in Tickers, d \in ContextDates :
                   InjectLongHorizonContext(p, t, d)
        <5>1. PICK t, d : log' = StoreDecision(log, t, ContextOf(d))
          BY <4>3 DEF InjectLongHorizonContext
        <5>2. log' = log \/ log' = Append(log, Entry(t, ContextOf(d), Pending))
          BY <5>1 DEF StoreDecision
        <5> QED BY <4>1, <4>2, <5>2
      <4>4. CASE \E p \in Procs : AppendDecision(p) BY <4>2, <4>4 DEF AppendDecision
      <4>5. CASE ~ \/ \E p \in Procs, t \in Tickers, d \in ContextDates :
                        InjectLongHorizonContext(p, t, d)
                   \/ \E p \in Procs : AppendDecision(p)
        <5>1. log' = log
          BY <1>1, <2>3, <4>5 DEF Next, NewDay, Propagate, WriteBatch, StartGraph, RunNode,
             LogState, LookForDecision, ClearCheckpoint, Return, Crash
        <5> QED BY <4>1, <5>1
      <4> QED BY <4>3, <4>4, <4>5
    <3>2. ASSUME NEW i \in DOMAIN log, Count(log', log[i]) = 0 PROVE FALSE
      <4>1. ~Has(log', log[i]) BY <2>1, <3>2, CountIs
      <4>2. Has(log, log[i]) BY DEF Has
      <4> QED BY <3>1, <4>1, <4>2
    <3>3. ASSUME NEW p \in Procs, At(p, "replace"), proc'[p].pc = "prepare" PROVE FALSE
      <4>1. proc[p].pc = "replace" /\ \A q \in Procs : q = p /\ proc[q].pc = "replace"
        BY <3>3 DEF OneProcess, At
      <4>2. proc' = proc \/ proc' = [proc EXCEPT ![p] = Idle]
        BY <1>1, <2>3, <4>1 DEF Next, NewDay, InjectLongHorizonContext, Propagate, WriteBatch,
           StartGraph, RunNode, LogState, LookForDecision, AppendDecision, ClearCheckpoint, Return,
           Crash, At
      <4>3. proc'[p].pc \in {"replace", "idle"} BY <2>1, <4>1, <4>2 DEF Idle
      <4> QED BY <3>3, <4>3
    <3> QED BY Zenon, <3>2, <3>3
  <2> QED BY Zenon, <2>2, <2>3
<1>2. ASSUME FilesInv, RunInv, UNCHANGED vars PROVE [Stays]_vars BY <1>2
<1> HIDE DEF Stays
<1>3. (FilesInv /\ RunInv) /\ (FilesInv /\ RunInv)' /\ [Next]_vars => [Stays]_vars BY <1>1
<1>4. Spec => [][Stays]_vars BY <1>3, OneRunInductive, PTL DEF Spec
<1> QED BY <1>4 DEF PendingUntilResolved, Stays
=============================================================================
