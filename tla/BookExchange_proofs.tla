-------------------------- MODULE BookExchange_proofs --------------------------
(***************************************************************************)
(* Proofs about the order book and the exchange in front of it.            *)
(*                                                                         *)
(* BookInv, of the book: the queue of each price lists, eldest first, the  *)
(* limit orders open there; the heap has every level; orders_by_id has     *)
(* every open order; only the order coming in can cross another; what is   *)
(* filled has nothing left.  Every step of the book keeps it, so that what *)
(* rests are always the open limit orders, and each turn of a loop takes   *)
(* the eldest order of the best price: a Take of PriceTimeBook.            *)
(*                                                                         *)
(* ExchangeInv, of the dispatch: what was told is earlier than the trade   *)
(* at hand, or than the last of the batch before; what is to be told is    *)
(* late, told, or in the batch; and the siblings of an order are gone once *)
(* its trade is told.  The steps of the book go Onward: they bring back no *)
(* order that left, so what is settled stays settled.                      *)
(***************************************************************************)
EXTENDS BookExchange, Filters_proofs, SequenceTheorems

-----------------------------------------------------------------------------
(* What Total returns for every sequence of numbers.                       *)

Added(q, f, n) == IF n = 0 THEN 0 ELSE f[n - 1] + q[n]
IsSum(q, m, f) == f = [n \in 0 .. m |-> Added(q, f, n)]

\* Every sequence of numbers has a function of its partial sums.
LEMMA SumExists ==
  ASSUME NEW q \in Seq(Int) PROVE \E f : IsSum(q, Len(q), f)
<1> DEFINE G == {m \in Nat : \E f : IsSum(q, m, f)}
<1>1. 0 \in G
  <2>1. IsSum(q, 0, [n \in 0 .. 0 |-> 0]) BY DEF IsSum, Added
  <2> QED BY <2>1
<1>2. ASSUME NEW k \in 0 .. Len(q) - 1, k \in G PROVE k + 1 \in G
  <2>1. PICK f : IsSum(q, k, f) BY <1>2
  <2> DEFINE g == [n \in 0 .. k + 1 |-> IF n = k + 1 THEN Added(q, f, k + 1) ELSE f[n]]
  <2>2. ASSUME NEW n \in 0 .. k + 1 PROVE g[n] = Added(q, g, n)
    <3>1. CASE n = k + 1
      <4>1. g[n - 1] = f[n - 1] /\ n # 0 BY <3>1
      <4> QED BY <3>1, <4>1 DEF Added
    <3>2. CASE n # k + 1
      <4>1. f[n] = Added(q, f, n)
        <5>1. n \in 0 .. k BY <3>2
        <5> HIDE DEF g, G
        <5> QED BY <2>1, <5>1 DEF IsSum
      <4>2. g[n] = f[n] /\ (n # 0 => g[n - 1] = f[n - 1]) BY <3>2
      <4> HIDE DEF g
      <4> QED BY <4>1, <4>2 DEF Added
    <3> QED BY <3>1, <3>2
  <2>3. g = [n \in 0 .. k + 1 |-> g[n]] OBVIOUS
  <2> HIDE DEF g
  <2>4. IsSum(q, k + 1, g) BY <2>2, <2>3 DEF IsSum
  <2> QED BY <2>4
<1> HIDE DEF G
<1>3. Len(q) \in 0 .. Len(q) /\ Len(q) \in Nat OBVIOUS
<1>4. Len(q) \in G BY <1>1, <1>2, <1>3, UpTo
<1> QED BY <1>4 DEF G

\* Total is the last of them.
LEMMA TotalIs ==
  ASSUME NEW q \in Seq(Int) PROVE \E f : IsSum(q, Len(q), f) /\ Total(q) = f[Len(q)]
<1> DEFINE f == CHOOSE f : IsSum(q, Len(q), f)
<1>1. IsSum(q, Len(q), f)
  <2>1. \E g : IsSum(q, Len(q), g) BY SumExists
  <2> QED BY <2>1
<1>2. Total(q) = f[Len(q)] BY DEF Total, IsSum, Added
<1> QED BY <1>1, <1>2

\* Two sums agree as far as their sequences do.
LEMMA SumUnique ==
  ASSUME NEW q, NEW u, NEW m \in Nat, NEW n \in Nat, NEW f, NEW g,
         IsSum(q, m, f), IsSum(u, n, g), NEW l \in 0 .. m, l <= n, \A i \in 1 .. l : q[i] = u[i]
  PROVE  f[l] = g[l]
<1> DEFINE G == {i \in Nat : f[i] = g[i]}
<1>1. /\ \A i \in 0 .. m : f[i] = Added(q, f, i)
      /\ \A i \in 0 .. n : g[i] = Added(u, g, i)
  BY DEF IsSum
<1>2. 0 \in G BY <1>1 DEF Added
<1>3. ASSUME NEW k \in 0 .. l - 1, k \in G PROVE k + 1 \in G
  <2>1. k + 1 \in 0 .. m /\ k + 1 \in 0 .. n /\ k + 1 \in 1 .. l /\ (k + 1) - 1 = k
    BY <1>3
  <2>2. f[k + 1] = Added(q, f, k + 1) /\ g[k + 1] = Added(u, g, k + 1) BY <1>1, <2>1
  <2>3. f[k] = g[k] /\ q[k + 1] = u[k + 1] BY <1>3, <2>1
  <2>4. f[k + 1] = g[k + 1] BY <2>1, <2>2, <2>3 DEF Added
  <2> QED BY <2>1, <2>4
<1> HIDE DEF G
<1>4. \A k \in 0 .. l : k \in G BY <1>2, <1>3, UpTo
<1> QED BY <1>4 DEF G

\* A number put at the end adds itself to the total.
LEMMA TotalAppend ==
  ASSUME NEW q \in Seq(Int), NEW x \in Int PROVE Total(Append(q, x)) = Total(q) + x
<1> DEFINE u == Append(q, x)
           n == Len(q)
<1>1. u \in Seq(Int) /\ Len(u) = n + 1 /\ u[n + 1] = x /\ n \in Nat
      /\ \A i \in 1 .. n : u[i] = q[i]
  OBVIOUS
<1> HIDE DEF u
<1>2. PICK f : IsSum(q, n, f) /\ Total(q) = f[n] BY TotalIs
<1>3. PICK g : IsSum(u, n + 1, g) /\ Total(u) = g[n + 1] BY <1>1, TotalIs
<1>4. f[n] = g[n]
  <2>1. n \in 0 .. n /\ n <= n + 1 /\ n + 1 \in Nat /\ \A i \in 1 .. n : q[i] = u[i] BY <1>1
  <2> HIDE DEF n
  <2> QED BY <1>1, <1>2, <1>3, <2>1, SumUnique
<1>5. g[n + 1] = Added(u, g, n + 1)
  <2>1. n + 1 \in 0 .. n + 1 BY <1>1
  <2> HIDE DEF n
  <2> QED BY <1>3, <2>1 DEF IsSum
<1>6. g[n + 1] = g[n] + x BY <1>1, <1>5 DEF Added
<1> QED BY <1>2, <1>3, <1>4, <1>6 DEF u

\* A total of numbers is a number.
LEMMA TotalType == ASSUME NEW q \in Seq(Int) PROVE Total(q) \in Int
<1> DEFINE n == Len(q)
<1>1. PICK f : IsSum(q, n, f) /\ Total(q) = f[n] BY TotalIs
<1> DEFINE G == {i \in Nat : f[i] \in Int}
<1>2. n \in Nat /\ n \in 0 .. n /\ \A k \in 1 .. n : q[k] \in Int OBVIOUS
<1> HIDE DEF n
<1>3. \A i \in 0 .. n : f[i] = Added(q, f, i) BY <1>1 DEF IsSum
<1>4. 0 \in G BY <1>2, <1>3 DEF Added
<1>5. ASSUME NEW k \in 0 .. n - 1, k \in G PROVE k + 1 \in G
  <2>1. k \in Nat /\ k + 1 \in 0 .. n /\ k + 1 \in 1 .. n /\ (k + 1) - 1 = k BY <1>2
  <2>2. f[k + 1] = Added(q, f, k + 1) /\ f[k] \in Int /\ q[k + 1] \in Int BY <1>2, <1>3, <1>5, <2>1
  <2>3. f[k + 1] \in Int BY <2>1, <2>2 DEF Added
  <2> QED BY <2>1, <2>3
<1>6. n \in G
  <2> HIDE DEF G
  <2>1. \A k \in 0 .. n : k \in G BY <1>2, <1>4, <1>5, UpTo
  <2> QED BY <1>2, <2>1
<1> QED BY <1>1, <1>6

\* Zeros add up to zero.
LEMMA TotalOfNothing ==
  ASSUME NEW q \in Seq(Int), \A k \in 1 .. Len(q) : q[k] = 0 PROVE Total(q) = 0
<1> DEFINE n == Len(q)
<1>1. PICK f : IsSum(q, n, f) /\ Total(q) = f[n] BY TotalIs
<1> DEFINE G == {i \in Nat : f[i] = 0}
<1>2. n \in Nat /\ n \in 0 .. n /\ \A k \in 1 .. n : q[k] = 0 OBVIOUS
<1> HIDE DEF n
<1>3. \A i \in 0 .. n : f[i] = Added(q, f, i) BY <1>1 DEF IsSum
<1>4. 0 \in G BY <1>2, <1>3 DEF Added
<1>5. ASSUME NEW k \in 0 .. n - 1, k \in G PROVE k + 1 \in G
  <2>1. k \in Nat /\ k + 1 \in 0 .. n /\ k + 1 \in 1 .. n /\ (k + 1) - 1 = k BY <1>2
  <2>2. f[k + 1] = Added(q, f, k + 1) /\ f[k] = 0 /\ q[k + 1] = 0 BY <1>2, <1>3, <1>5, <2>1
  <2>3. f[k + 1] = 0 BY <2>1, <2>2 DEF Added
  <2> QED BY <2>1, <2>3
<1>6. n \in G
  <2> HIDE DEF G
  <2>1. \A k \in 0 .. n : k \in G BY <1>2, <1>4, <1>5, UpTo
  <2> QED BY <1>2, <2>1
<1> QED BY <1>1, <1>6

-----------------------------------------------------------------------------
(* Lists: a queue of the book lists a set of orders by their age.          *)

Ascending(q) == \A k, l \in 1 .. Len(q) : k < l => q[k] < q[l]
Lists(q, T) == q \in Seq(T) /\ T \subseteq {q[k] : k \in 1 .. Len(q)} /\ Ascending(q)

\* A list is empty when the set it lists is, and only then.
LEMMA ListsNothing ==
  ASSUME NEW T, NEW q, Lists(q, T) PROVE q = <<>> <=> T = {}
<1>1. q \in Seq(T) /\ T \subseteq {q[k] : k \in 1 .. Len(q)} BY DEF Lists
<1>2. ASSUME q = <<>> PROVE T = {} BY <1>1, <1>2
<1>3. ASSUME T = {} PROVE q = <<>>
  <2>1. \A k \in 1 .. Len(q) : q[k] \in {} BY <1>1, <1>3
  <2>2. Len(q) \in Nat BY <1>1
  <2>3. Len(q) = 0 BY <2>1, <2>2
  <2> QED BY <1>1, <2>3
<1> QED BY <1>2, <1>3

\* The empty list lists the empty set.
LEMMA NothingListed == Lists(<<>>, {})
BY DEF Lists, Ascending

\* A younger order is put at the end.
LEMMA ListsAppend ==
  ASSUME NEW T \in SUBSET Nat, NEW q, Lists(q, T), NEW n \in Nat, \A x \in T : x < n
  PROVE  Lists(Append(q, n), T \cup {n})
<1> DEFINE u == Append(q, n)
<1>1. q \in Seq(T) /\ T \subseteq {q[k] : k \in 1 .. Len(q)} /\ Ascending(q) BY DEF Lists
<1>2. q \in Seq(T \cup {n})
  <2>1. T \subseteq T \cup {n} OBVIOUS
  <2> QED BY <1>1, <2>1
<1>3. u \in Seq(T \cup {n}) /\ Len(u) = Len(q) + 1 /\ u[Len(q) + 1] = n
      /\ \A k \in 1 .. Len(q) : u[k] = q[k]
  BY <1>2
<1>4. Len(q) \in Nat /\ \A k \in 1 .. Len(q) : q[k] \in T BY <1>1
<1> HIDE DEF u
<1>5. Ascending(u)
  <2> SUFFICES ASSUME NEW k \in 1 .. Len(u), NEW l \in 1 .. Len(u), k < l PROVE u[k] < u[l]
    BY DEF Ascending
  <2>1. k \in 1 .. Len(q) /\ u[k] = q[k] /\ q[k] \in T BY <1>3, <1>4
  <2>2. CASE l = Len(q) + 1 BY <1>3, <2>1, <2>2
  <2>3. CASE l # Len(q) + 1
    <3>1. l \in 1 .. Len(q) /\ u[l] = q[l] BY <1>3, <1>4, <2>3
    <3> QED BY <1>1, <2>1, <3>1 DEF Ascending
  <2> QED BY <2>2, <2>3
<1>6. ASSUME NEW x \in T \cup {n} PROVE x \in {u[k] : k \in 1 .. Len(u)}
  <2>1. CASE x = n
    <3>1. Len(q) + 1 \in 1 .. Len(u) BY <1>3, <1>4
    <3> QED BY <1>3, <2>1, <3>1
  <2>2. CASE x \in T
    <3>1. PICK k \in 1 .. Len(q) : x = q[k] BY <1>1, <2>2
    <3>2. k \in 1 .. Len(u) /\ u[k] = x BY <1>3, <1>4, <3>1
    <3> QED BY <3>2
  <2> QED BY <2>1, <2>2
<1> QED BY <1>3, <1>5, <1>6 DEF Lists, u

\* The first is the oldest, and without it the others are listed.
LEMMA ListsTail ==
  ASSUME NEW T \in SUBSET Nat, NEW q, Lists(q, T), q # <<>>
  PROVE  /\ Head(q) \in T
         /\ \A x \in T \ {Head(q)} : Head(q) < x
         /\ Lists(Tail(q), T \ {Head(q)})
<1> DEFINE h == Head(q)
           u == Tail(q)
<1>1. q \in Seq(T) /\ T \subseteq {q[k] : k \in 1 .. Len(q)} /\ Ascending(q) BY DEF Lists
<1>2. Len(q) \in Nat /\ 1 \in 1 .. Len(q) /\ h = q[1] /\ u \in Seq(T) /\ Len(u) = Len(q) - 1
      /\ \A k \in 1 .. Len(u) : u[k] = q[k + 1]
  BY <1>1
<1> HIDE DEF h, u
<1>3. h \in T BY <1>1, <1>2
<1>4. ASSUME NEW k \in 2 .. Len(q) PROVE q[k] \in T /\ h < q[k]
  <2>1. k \in 1 .. Len(q) /\ 1 < k BY <1>2
  <2> QED BY <1>1, <1>2, <2>1 DEF Ascending
<1>5. ASSUME NEW x \in T \ {h} PROVE h < x /\ x \in {u[k] : k \in 1 .. Len(u)}
  <2>1. PICK k \in 1 .. Len(q) : x = q[k] BY <1>1
  <2>2. k # 1 BY <1>2, <2>1
  <2>3. k \in 2 .. Len(q) /\ k - 1 \in 1 .. Len(u) /\ (k - 1) + 1 = k BY <1>2, <2>2
  <2>4. u[k - 1] = q[(k - 1) + 1] BY <1>2, <2>3
  <2>5. u[k - 1] = x BY <2>1, <2>3, <2>4
  <2> QED BY <1>4, <2>1, <2>3, <2>5
<1>6. Ascending(u)
  <2> SUFFICES ASSUME NEW k \in 1 .. Len(u), NEW l \in 1 .. Len(u), k < l PROVE u[k] < u[l]
    BY DEF Ascending
  <2>1. k + 1 \in 1 .. Len(q) /\ l + 1 \in 1 .. Len(q) /\ k + 1 < l + 1 BY <1>2
  <2> QED BY <1>1, <1>2, <2>1 DEF Ascending
<1>7. u \in Seq(T \ {h})
  <2>1. \A k \in 1 .. Len(u) : u[k] \in T \ {h}
    <3> SUFFICES ASSUME NEW k \in 1 .. Len(u) PROVE u[k] \in T \ {h} OBVIOUS
    <3>1. k + 1 \in 2 .. Len(q) BY <1>2
    <3>2. q[k + 1] \in T /\ h < q[k + 1] BY <1>4, <3>1
    <3> QED BY <1>2, <1>3, <3>2
  <2> QED BY <1>2, <2>1
<1> QED BY <1>3, <1>5, <1>6, <1>7 DEF Lists, h, u

\* A comprehension keeps the order.
LEMMA ListsKept ==
  ASSUME NEW T \in SUBSET Nat, NEW q, Lists(q, T), NEW K
  PROVE  Lists(KeepOnly(q, K), T \cap K)
<1>1. q \in Seq(T) /\ T \subseteq {q[k] : k \in 1 .. Len(q)} /\ Ascending(q) BY DEF Lists
<1>2. PICK f : IsKept(q, K, Len(q), f) /\ KeepOnly(q, K) = f[Len(q)] BY <1>1, KeepOnlyIs
<1> DEFINE Seen(k) == {q[j] : j \in 1 .. k} \cap K
           n == Len(q)
           G == {k \in Nat : Lists(f[k], Seen(k))}
<1>3. \A i \in 0 .. n : f[i] = Turn(q, K, f, i) BY <1>2 DEF IsKept
<1>4. 0 \in G
  <2>1. f[0] = <<>> BY <1>1, <1>3 DEF Turn
  <2>2. Seen(0) = {} OBVIOUS
  <2> HIDE DEF Seen
  <2> QED BY <2>1, <2>2, NothingListed
<1>5. ASSUME NEW k \in 0 .. n - 1, k \in G PROVE k + 1 \in G
  <2>1. n \in Nat BY <1>1
  <2> HIDE DEF n, G
  <2>2. k \in Nat /\ k + 1 \in 0 .. n /\ k + 1 \in 1 .. n /\ (k + 1) - 1 = k /\ k + 1 # 0 BY <2>1
  <2>3. f[k + 1] = IF q[k + 1] \in K THEN Append(f[k], q[k + 1]) ELSE f[k]
    BY <1>3, <2>2 DEF Turn
  <2>4. Lists(f[k], Seen(k)) BY <1>5 DEF G
  <2>5. q[k + 1] \in Nat /\ \A j \in 1 .. k : q[j] \in Nat /\ q[j] < q[k + 1]
    <3>1. \A j \in 1 .. k : j \in 1 .. n /\ j < k + 1 BY <2>1, <2>2
    <3>2. \A j \in 1 .. n : q[j] \in Nat
      <4>1. \A j \in 1 .. Len(q) : q[j] \in T BY <1>1
      <4> QED BY <4>1 DEF n
    <3> QED BY <1>1, <2>2, <3>1, <3>2 DEF Ascending, n
  <2>6. CASE q[k + 1] \in K
    <3>1. Seen(k) \in SUBSET Nat /\ \A x \in Seen(k) : x < q[k + 1] BY <2>5
    <3>2. Seen(k + 1) = Seen(k) \cup {q[k + 1]}
      <4>1. 1 .. k + 1 = (1 .. k) \cup {k + 1} BY <2>2
      <4> QED BY <2>6, <4>1
    <3> HIDE DEF Seen
    <3>3. Lists(Append(f[k], q[k + 1]), Seen(k) \cup {q[k + 1]})
      BY <2>4, <2>5, <3>1, ListsAppend
    <3>4. Lists(f[k + 1], Seen(k + 1)) BY <2>3, <2>6, <3>2, <3>3
    <3> QED BY <2>2, <3>4 DEF G
  <2>7. CASE q[k + 1] \notin K
    <3>1. Seen(k + 1) = Seen(k)
      <4>1. 1 .. k + 1 = (1 .. k) \cup {k + 1} BY <2>2
      <4> QED BY <2>7, <4>1
    <3> HIDE DEF Seen
    <3> QED BY <2>2, <2>3, <2>4, <2>7, <3>1 DEF G
  <2> QED BY <2>6, <2>7
<1>6. n \in Nat /\ n \in 0 .. n BY <1>1
<1>7. n \in G
  <2> HIDE DEF G, n
  <2>1. \A k \in 0 .. n : k \in G BY <1>4, <1>5, <1>6, UpTo
  <2> QED BY <1>6, <2>1
<1>8. Seen(n) = T \cap K
  <2>1. \A j \in 1 .. Len(q) : q[j] \in T BY <1>1
  <2> QED BY <1>1, <2>1
<1> QED BY <1>2, <1>7, <1>8

\* A finite set of numbers has a greatest: one that the fewest are above.
LEMMA GreatestElement ==
  ASSUME NEW T \in SUBSET Nat, T # {}, IsFiniteSet(T)
  PROVE  \E n \in T : \A m \in T : m <= n
<1> DEFINE Above(n) == {m \in T : m > n}
           Counts == {Cardinality(Above(n)) : n \in T}
<1>1. \A n \in T : IsFiniteSet(Above(n)) /\ Cardinality(Above(n)) \in Nat
  <2> TAKE n \in T
  <2>1. Above(n) \subseteq T OBVIOUS
  <2> HIDE DEF Above
  <2> QED BY <2>1, FS_Subset, FS_CardinalityType
<1>2. PICK c \in Counts : \A d \in Counts : c <= d
  <2>1. Counts \in SUBSET Nat /\ Counts # {}
    <3> HIDE DEF Above
    <3> QED BY <1>1
  <2> HIDE DEF Counts
  <2> QED BY <2>1, LeastElement
<1>3. PICK n \in T : c = Cardinality(Above(n))
  <2> HIDE DEF Above
  <2> QED BY <1>2
<1>4. ASSUME NEW m \in T PROVE m <= n
  <2> SUFFICES ASSUME m > n PROVE FALSE OBVIOUS
  <2>0. m \in Nat /\ n \in Nat /\ \A x \in T : x \in Nat OBVIOUS
  <2>1. Above(m) \subseteq Above(n) /\ m \in Above(n) /\ m \notin Above(m)
    <3> HIDE DEF Counts
    <3>1. \A x \in Nat : x > m => x > n BY <2>0
    <3>2. m > n /\ ~(m > m) BY <2>0
    <3> QED BY <2>0, <3>1, <3>2
  <2>2. Cardinality(Above(m)) <= Cardinality(Above(n)) /\ Cardinality(Above(m)) # Cardinality(Above(n))
    <3> HIDE DEF Above
    <3> QED BY <1>1, <2>1, FS_Subset
  <2>3. c <= Cardinality(Above(m))
    <3> HIDE DEF Above
    <3> QED BY <1>2
  <2>4. Cardinality(Above(m)) \in Nat /\ Cardinality(Above(n)) \in Nat
    <3> HIDE DEF Above
    <3> QED BY <1>1
  <2> HIDE DEF Above
  <2> QED BY <1>3, <2>2, <2>3, <2>4
<1> QED BY <1>4

-----------------------------------------------------------------------------
(* The orders and the levels of the book.                                  *)

\* The limit orders that are open on a side at a price.
OpenAt(s, p) ==
  {i \in Received : orders[i].type = "LIMIT" /\ orders[i].side = s /\ orders[i].price = p /\ IsOpen(i)}

\* A trade of the history.
TradeRecord ==
  [price : Prices, quantity : Int, time : Nat, buy : Received, sell : Received,
   buyStatus : Statuses, sellStatus : Statuses]

\* The types, and that what is known of the orders is known of all of them.
BookType ==
  /\ now \in Nat
  /\ orders \in Seq(Request) /\ times \in Seq(Nat)
  /\ \A i \in Received : orders[i].type = "LIMIT" => orders[i].price \in Prices
  /\ remaining \in Seq(Int) /\ status \in Seq(Statuses)
  /\ Len(times) = Len(orders) /\ Len(remaining) = Len(orders) /\ Len(status) = Len(orders)
  /\ byId \subseteq Received
  /\ DOMAIN book = Sides /\ \A s \in Sides : DOMAIN book[s] \subseteq Prices
  /\ heap \in [Sides -> [Prices -> Nat]]
  /\ stops \in Seq(Received) /\ triggered \in Seq(Received)
  /\ history \in Seq(TradeRecord)
  /\ working \in Received \cup {0}
  /\ pc \in {"idle", "market", "limit", "stops", "stop"}

\* A level of the book is in the heap.
HeapInv == \A s \in Sides : \A p \in DOMAIN book[s] : heap[s][p] > 0

\* The top of a heap with levels is one of them, and no level is better.
LEMMA TopIsBest ==
  ASSUME heap \in [Sides -> [Prices -> Nat]], NEW s \in Sides, InHeap(s) # {}
  PROVE  /\ Top(s) \in InHeap(s) /\ Top(s) \in Prices /\ heap[s][Top(s)] > 0
         /\ \A q \in InHeap(s) : ~Better(s, q, Top(s))
<1>1. InHeap(s) \subseteq Prices /\ InHeap(s) \in SUBSET Nat BY PricesAssumption DEF InHeap
<1>2. IsFiniteSet(InHeap(s)) BY <1>1, PricesAssumption, FS_Subset
<1>3. \E p \in InHeap(s) : \A q \in InHeap(s) : ~Better(s, q, p)
  <2>1. CASE s = "BUY"
    <3>1. PICK n \in InHeap(s) : \A m \in InHeap(s) : m <= n BY <1>1, <1>2, GreatestElement
    <3>2. \A q \in InHeap(s) : ~Better(s, q, n) BY <1>1, <2>1, <3>1 DEF Better
    <3> QED BY <3>2
  <2>2. CASE s # "BUY"
    <3>1. PICK n \in InHeap(s) : \A m \in InHeap(s) : n <= m BY <1>1, LeastElement
    <3>2. \A q \in InHeap(s) : ~Better(s, q, n) BY <1>1, <2>2, <3>1 DEF Better
    <3> QED BY <3>2
  <2> QED BY <2>1, <2>2
<1>4. Top(s) \in InHeap(s) /\ \A q \in InHeap(s) : ~Better(s, q, Top(s)) BY <1>3 DEF Top
<1> QED BY <1>1, <1>4 DEF InHeap

\* The levels of a side and its heap fit together.
LevelsFit(levels, h) ==
  /\ h \in [Prices -> Nat] /\ DOMAIN levels \subseteq Prices
  /\ \A r \in DOMAIN levels : h[r] > 0

\* The levels m are those in levels, with queue q at price p.
IsLeft(m, levels, p, q) ==
  /\ \A r \in Prices : r # p => /\ r \in DOMAIN m <=> r \in DOMAIN levels
                                /\ r \in DOMAIN levels => m[r] = levels[r]
  /\ p \in DOMAIN m <=> q # <<>>
  /\ q # <<>> => m[p] = q

\* A level that gets the queue q, or is dropped when q is empty, fits the heap without it.
LEMMA LevelLeft ==
  ASSUME NEW levels, NEW h, LevelsFit(levels, h), NEW p \in Prices, h[p] > 0, NEW q
  PROVE  /\ LevelsFit(WithQueue(levels, p, q), HeapWithQueue(h, p, q))
         /\ IsLeft(WithQueue(levels, p, q), levels, p, q)
BY DEF WithQueue, HeapWithQueue, Restrict, LevelsFit, IsLeft

\* Leave changes the best levels given and no other.
LEMMA LeaveEffect ==
  ASSUME DOMAIN book = Sides, \A s \in Sides : DOMAIN book[s] \subseteq Prices,
         heap \in [Sides -> [Prices -> Nat]], HeapInv,
         NEW rest, Leave(rest), \A s \in Sides : s \in DOMAIN rest => InHeap(s) # {}
  PROVE  /\ DOMAIN book' = Sides /\ \A s \in Sides : DOMAIN book'[s] \subseteq Prices
         /\ heap' \in [Sides -> [Prices -> Nat]] /\ HeapInv'
         /\ \A s \in Sides : \A p \in Prices :
              Queue(s, p)' = IF s \in DOMAIN rest /\ p = Top(s) THEN rest[s] ELSE Queue(s, p)
<1>1. DOMAIN book' = Sides /\ DOMAIN heap' = Sides BY DEF Leave
<1>2. ASSUME NEW s \in Sides
      PROVE  /\ DOMAIN book'[s] \subseteq Prices /\ heap'[s] \in [Prices -> Nat]
             /\ \A p \in DOMAIN book'[s] : heap'[s][p] > 0
             /\ \A p \in Prices :
                  Queue(s, p)' = IF s \in DOMAIN rest /\ p = Top(s) THEN rest[s] ELSE Queue(s, p)
  <2>0. DOMAIN book[s] \subseteq Prices /\ heap[s] \in [Prices -> Nat]
        /\ \A r \in DOMAIN book[s] : heap[s][r] > 0
    BY DEF HeapInv
  <2>1. CASE s \notin DOMAIN rest
    <3>1. book'[s] = book[s] /\ heap'[s] = heap[s] BY <2>1 DEF Leave
    <3> QED BY <2>0, <2>1, <3>1 DEF Queue
  <2>2. CASE s \in DOMAIN rest
    <3>1. /\ book'[s] = WithQueue(book[s], Top(s), rest[s])
          /\ heap'[s] = HeapWithQueue(heap[s], Top(s), rest[s])
      BY <2>2 DEF Leave
    <3>2. Top(s) \in Prices /\ heap[s][Top(s)] > 0 BY <2>2, TopIsBest
    <3> DEFINE t == Top(s)
               q == rest[s]
    <3> HIDE DEF t, q
    <3>3. t \in Prices /\ heap[s][t] > 0 BY <3>2 DEF t
    <3>4. LevelsFit(book[s], heap[s]) BY <2>0 DEF LevelsFit
    <3>5. book'[s] = WithQueue(book[s], t, q) /\ heap'[s] = HeapWithQueue(heap[s], t, q)
      BY <3>1 DEF t, q
    <3>6. LevelsFit(book'[s], heap'[s]) /\ IsLeft(book'[s], book[s], t, q)
      BY <3>3, <3>4, <3>5, LevelLeft
    <3>7. ASSUME NEW p \in Prices PROVE Queue(s, p)' = IF p = t THEN q ELSE Queue(s, p)
      BY <3>6 DEF Queue, IsLeft
    <3>8. DOMAIN book'[s] \subseteq Prices /\ heap'[s] \in [Prices -> Nat]
          /\ \A p \in DOMAIN book'[s] : heap'[s][p] > 0
      BY <3>6 DEF LevelsFit
    <3> QED BY <2>2, <3>7, <3>8 DEF t, q
  <2> QED BY <2>1, <2>2
<1>3. heap' \in [Sides -> [Prices -> Nat]]
  <2>1. heap' = [s \in Sides |-> heap'[s]] BY DEF Leave
  <2> QED BY <1>2, <2>1
<1> QED BY <1>1, <1>2, <1>3 DEF HeapInv

\* Looking a price up puts at most an empty queue there.
LEMMA LookedUpEffect ==
  ASSUME DOMAIN book = Sides, \A s \in Sides : DOMAIN book[s] \subseteq Prices,
         heap \in [Sides -> [Prices -> Nat]], HeapInv, book' \in {book, LookedUp}, heap' = heap
  PROVE  /\ DOMAIN book' = Sides /\ \A s \in Sides : DOMAIN book'[s] \subseteq Prices
         /\ HeapInv'
         /\ \A s \in Sides : \A p \in Prices : Queue(s, p)' = Queue(s, p)
<1>1. CASE book' = book BY <1>1 DEF HeapInv, Queue
<1>2. CASE book' = LookedUp
  <2>1. DOMAIN book' = Sides BY <1>2 DEF LookedUp
  <2>2. ASSUME NEW s \in Sides
        PROVE  /\ DOMAIN book'[s] \subseteq Prices
               /\ \A p \in DOMAIN book'[s] : heap'[s][p] > 0
               /\ \A p \in Prices : Queue(s, p)' = Queue(s, p)
    <3>0. DOMAIN book[s] \subseteq Prices /\ \A r \in DOMAIN book[s] : heap[s][r] > 0 BY DEF HeapInv
    <3>1. CASE InHeap(s) = {} \/ Top(s) \in DOMAIN book[s]
      <4>1. book'[s] = book[s] BY <1>2, <3>1 DEF LookedUp
      <4> QED BY <3>0, <4>1 DEF Queue
    <3>2. CASE ~(InHeap(s) = {} \/ Top(s) \in DOMAIN book[s])
      <4>1. book'[s] = [p \in DOMAIN book[s] \cup {Top(s)} |-> Queue(s, p)]
        BY <1>2, <3>2 DEF LookedUp
      <4>2. Top(s) \in Prices /\ heap[s][Top(s)] > 0 BY <3>2, TopIsBest
      <4> DEFINE t == Top(s)
      <4> HIDE DEF t
      <4>3. book'[s] = [p \in DOMAIN book[s] \cup {t} |-> Queue(s, p)] BY <4>1 DEF t
      <4>4. t \in Prices /\ heap[s][t] > 0 BY <4>2 DEF t
      <4> QED BY <3>0, <4>3, <4>4 DEF Queue
    <3> QED BY <3>1, <3>2
  <2> QED BY <2>1, <2>2 DEF HeapInv
<1> QED BY <1>1, <1>2

-----------------------------------------------------------------------------
(* The invariant of the book.                                              *)

IsLimit(i) == orders[i].type = "LIMIT"

\* The queue of each price lists the limit orders open there, by their age.
QueueInv == \A s \in Sides : \A p \in Prices : Lists(Queue(s, p), OpenAt(s, p))

\* orders_by_id has the orders that rest and those that wait.
KnownInv ==
  /\ \A i \in Received : IsLimit(i) /\ IsOpen(i) => i \in byId
  /\ \A i \in Range(stops) : orders[i].type = "STOP" /\ (status[i] = "ACTIVE" => i \in byId)

\* What the loop at hand works on: nothing between the calls.
LoopInv ==
  /\ working = 0 <=> pc \in {"idle", "stops"}
  /\ pc \in {"market", "stop"} => orders[working].type = "MARKET"
  /\ pc = "limit" => IsLimit(working) /\ (status[working] # "FILLED" => IsOpen(working))
  /\ pc # "stop" => triggered = <<>>
  /\ \A i \in Range(triggered) : ~IsLimit(i) /\ i \notin Range(stops)

\* Limit orders that could trade with each other: only the one that is coming in can.
Meet(i, j) ==
  /\ IsLimit(i) /\ orders[i].side = "BUY" /\ IsOpen(i)
  /\ IsLimit(j) /\ orders[j].side = "SELL" /\ IsOpen(j)
  /\ orders[i].price >= orders[j].price
CrossInv == \A i, j \in Received : Meet(i, j) => pc = "limit" /\ working \in {i, j}

\* A filled order has nothing left and stays filled.
FilledInv ==
  /\ \A i \in Received : status[i] = "FILLED" => remaining[i] = 0
  /\ \A k \in DOMAIN history :
       /\ history[k].buyStatus = "FILLED" => status[history[k].buy] = "FILLED"
       /\ history[k].sellStatus = "FILLED" => status[history[k].sell] = "FILLED"

\* The invariant of the book.
BookInv ==
  /\ BookType /\ HeapInv /\ QueueInv /\ KnownInv
  /\ LoopInv /\ CrossInv /\ FilledInv /\ TradesAddUp

\* What BookType says of the orders and the trades, in the forms the steps need.
LEMMA OrderFacts ==
  ASSUME BookType
  PROVE  /\ Received = 1 .. Len(orders) /\ Len(orders) \in Nat /\ Received \in SUBSET Nat
         /\ \A i \in Received :
              /\ orders[i] \in Request /\ times[i] \in Nat /\ remaining[i] \in Int /\ status[i] \in Statuses
              /\ i \in Nat /\ i # 0 /\ i <= Len(orders)
              /\ orders[i].side \in Sides /\ orders[i].quantity \in Int
              /\ IsLimit(i) => orders[i].price \in Prices
         /\ \A k \in DOMAIN history : history[k] \in TradeRecord
         /\ DOMAIN history = 1 .. Len(history) /\ Len(history) \in Nat
<1>1. orders \in Seq(Request) /\ times \in Seq(Nat) /\ remaining \in Seq(Int) /\ status \in Seq(Statuses)
      /\ Len(times) = Len(orders) /\ Len(remaining) = Len(orders) /\ Len(status) = Len(orders)
      /\ history \in Seq(TradeRecord)
      /\ \A i \in Received : IsLimit(i) => orders[i].price \in Prices
  BY DEF BookType, IsLimit
<1>2. Received = 1 .. Len(orders) /\ Len(orders) \in Nat BY <1>1 DEF Received
<1>3. ASSUME NEW i \in Received
      PROVE  /\ orders[i] \in Request /\ times[i] \in Nat /\ remaining[i] \in Int /\ status[i] \in Statuses
             /\ i \in Nat /\ i # 0 /\ i <= Len(orders)
  BY <1>1, <1>2
<1>4. \A r \in Request : r.side \in Sides /\ r.quantity \in Int BY DEF Request
<1>5. \A k \in DOMAIN history : history[k] \in TradeRecord BY <1>1
<1>6. DOMAIN history = 1 .. Len(history) /\ Len(history) \in Nat BY <1>1
<1> HIDE DEF Received, Request, TradeRecord, IsLimit
<1>7. Received \in SUBSET Nat BY <1>3
<1> QED BY <1>1, <1>2, <1>3, <1>4, <1>5, <1>6, <1>7

\* The orders there were stay what they are, but that some may be executed.
LEMMA OpenAtKept ==
  ASSUME Received' = Received, UNCHANGED remaining,
         \A i \in Received : /\ IsLimit(i)' <=> IsLimit(i)
                             /\ IsLimit(i) => orders'[i] = orders[i]
                             /\ status'[i] = status[i],
         NEW s, NEW p
  PROVE  OpenAt(s, p)' = OpenAt(s, p)
<1>1. ASSUME NEW i \in Received
      PROVE  (/\ orders'[i].type = "LIMIT" /\ orders'[i].side = s /\ orders'[i].price = p
              /\ status'[i] \notin {"FILLED", "CANCELED"})
             <=> (/\ orders[i].type = "LIMIT" /\ orders[i].side = s /\ orders[i].price = p
                  /\ status[i] \notin {"FILLED", "CANCELED"})
  BY DEF IsLimit
<1> QED BY <1>1 DEF OpenAt, IsOpen

\* A step that leaves orders, history and what is open alone disturbs little.
LEMMA SameOrders ==
  ASSUME BookInv, UNCHANGED <<orders, times, remaining, status, history>>
  PROVE  /\ Received' = Received /\ \A s, p : OpenAt(s, p)' = OpenAt(s, p)
         /\ FilledInv' /\ TradesAddUp'
         /\ \A i, j : Meet(i, j)' <=> Meet(i, j)
         /\ \A i : (IsLimit(i)' <=> IsLimit(i)) /\ (IsOpen(i)' <=> IsOpen(i))
BY DEF BookInv, Received, OpenAt, IsOpen, FilledInv, TradesAddUp, Fills, Meet, IsLimit

-----------------------------------------------------------------------------
(* The steps of the book, one by one.                                      *)

\* add_order numbers the new order one past the last, active and with all of its quantity, and
\* leaves the others alone.
LEMMA AddingAtEnd ==
  ASSUME BookInv, NEW r \in Requests, AddOrder(r)
  PROVE  \E n : n = Len(orders) + 1
             /\ n \in Nat /\ n # 0 /\ n \notin Received /\ Received' = Received \cup {n}
             /\ r \in Request /\ (r.type = "MARKET" <=> r.price = NoPrice)
             /\ orders' \in Seq(Request) /\ times' \in Seq(Nat)
             /\ remaining' \in Seq(Int) /\ status' \in Seq(Statuses)
             /\ Len(orders') = n /\ Len(times') = n /\ Len(remaining') = n /\ Len(status') = n
             /\ orders'[n] = r /\ remaining'[n] = r.quantity /\ status'[n] = "ACTIVE"
             /\ r.quantity \in Int
             /\ \A i \in Received : /\ orders'[i] = orders[i] /\ times'[i] = times[i]
                                    /\ remaining'[i] = remaining[i] /\ status'[i] = status[i]
<1>0. PICK n : n = Len(orders) + 1 OBVIOUS
<1>1. BookType BY DEF BookInv
<1>2. Received = 1 .. Len(orders) /\ Len(orders) \in Nat BY <1>1, OrderFacts
<1>3. orders \in Seq(Request) /\ times \in Seq(Nat) /\ remaining \in Seq(Int) /\ status \in Seq(Statuses)
      /\ Len(times) = Len(orders) /\ Len(remaining) = Len(orders) /\ Len(status) = Len(orders)
      /\ now \in Nat
  BY <1>1 DEF BookType
<1>4. orders' = Append(orders, r) /\ times' = Append(times, now)
      /\ remaining' = Append(remaining, r.quantity) /\ status' = Append(status, "ACTIVE")
  BY DEF AddOrder
<1>5. r \in Request /\ (r.type = "MARKET" <=> r.price = NoPrice) BY RequestsAssumption
<1>6. r.quantity \in Int BY <1>5 DEF Request
<1>7. "ACTIVE" \in Statuses BY DEF Statuses
<1>8. n \in Nat /\ n # 0 /\ n \notin Received BY <1>0, <1>2
<1> HIDE DEF Request, Statuses
<1>9. orders' \in Seq(Request) /\ Len(orders') = n /\ orders'[n] = r
      /\ \A i \in Received : orders'[i] = orders[i]
  BY <1>0, <1>2, <1>3, <1>4, <1>5
<1>10. times' \in Seq(Nat) /\ Len(times') = n /\ \A i \in Received : times'[i] = times[i]
  BY <1>0, <1>2, <1>3, <1>4
<1>11. remaining' \in Seq(Int) /\ Len(remaining') = n /\ remaining'[n] = r.quantity
       /\ \A i \in Received : remaining'[i] = remaining[i]
  BY <1>0, <1>2, <1>3, <1>4, <1>6
<1>12. status' \in Seq(Statuses) /\ Len(status') = n /\ status'[n] = "ACTIVE"
       /\ \A i \in Received : status'[i] = status[i]
  BY <1>0, <1>2, <1>3, <1>4, <1>7
<1>13. Received' = Received \cup {n} BY <1>0, <1>2, <1>9 DEF Received
<1> QED BY <1>0, <1>5, <1>6, <1>8, <1>9, <1>10, <1>11, <1>12, <1>13

\* A sequence over a set is one over a larger set.
LEMMA SeqMore == ASSUME NEW S, NEW T, S \subseteq T, NEW q \in Seq(S) PROVE q \in Seq(T)
OBVIOUS

\* No trade has an order that is not there.
LEMMA FillsFacts ==
  ASSUME BookType, NEW i
  PROVE  /\ Fills(i) \in Seq(Int) /\ Len(Fills(i)) = Len(history)
         /\ i \notin Received => \A k \in 1 .. Len(Fills(i)) : Fills(i)[k] = 0
<1>1. history \in Seq(TradeRecord) BY DEF BookType
<1>2. DOMAIN history = 1 .. Len(history) /\ Len(history) \in Nat BY <1>1
<1>3. \A k \in DOMAIN history : history[k].quantity \in Int /\ history[k].buy \in Received
                                /\ history[k].sell \in Received
  <2>1. \A k \in DOMAIN history : history[k] \in TradeRecord BY <1>1
  <2> HIDE DEF Received
  <2> QED BY <2>1 DEF TradeRecord
<1>4. Fills(i) = [k \in 1 .. Len(history) |->
                    IF i \in {history[k].buy, history[k].sell} THEN history[k].quantity ELSE 0]
  BY <1>2 DEF Fills
<1>5. Fills(i) \in Seq(Int) /\ Len(Fills(i)) = Len(history)
  <2>1. \A k \in 1 .. Len(history) :
          (IF i \in {history[k].buy, history[k].sell} THEN history[k].quantity ELSE 0) \in Int
    BY <1>2, <1>3
  <2> QED BY <1>2, <1>4, <2>1
<1> HIDE DEF Received
<1>6. ASSUME i \notin Received, NEW k \in 1 .. Len(Fills(i)) PROVE Fills(i)[k] = 0
  BY <1>2, <1>3, <1>4, <1>5, <1>6
<1> QED BY <1>5, <1>6

\* add_order keeps the book's invariant: the new order stands last in its queue, is the youngest
\* there, and works before it can cross.
LEMMA AddOrderKeeps == ASSUME BookInv, NEW r \in Requests, AddOrder(r) PROVE BookInv'
<1>1. PICK n : n = Len(orders) + 1
      /\ n \in Nat /\ n # 0 /\ n \notin Received /\ Received' = Received \cup {n}
      /\ r \in Request /\ (r.type = "MARKET" <=> r.price = NoPrice)
      /\ orders' \in Seq(Request) /\ times' \in Seq(Nat)
      /\ remaining' \in Seq(Int) /\ status' \in Seq(Statuses)
      /\ Len(orders') = n /\ Len(times') = n /\ Len(remaining') = n /\ Len(status') = n
      /\ orders'[n] = r /\ remaining'[n] = r.quantity /\ status'[n] = "ACTIVE"
      /\ r.quantity \in Int
      /\ \A i \in Received : /\ orders'[i] = orders[i] /\ times'[i] = times[i]
                             /\ remaining'[i] = remaining[i] /\ status'[i] = status[i]
  BY AddingAtEnd
<1>2. BookType /\ HeapInv /\ QueueInv /\ KnownInv /\ LoopInv /\ CrossInv /\ FilledInv /\ TradesAddUp
  BY DEF BookInv
<1>3. Received \in SUBSET Nat /\ \A i \in Received : i < n
  <2>1. Received = 1 .. Len(orders) /\ Len(orders) \in Nat /\ Received \in SUBSET Nat
    BY <1>2, OrderFacts
  <2> QED BY <1>1, <2>1
<1>4. /\ pc = "idle" /\ byId' = byId \cup {n}
      /\ working' = IF r.type = "STOP" THEN 0 ELSE n
      /\ UNCHANGED <<now, history, triggered>>
  BY <1>1 DEF AddOrder
<1>5. r.side \in Sides /\ r.type \in Types /\ r.price \in Prices \cup {NoPrice} BY <1>1 DEF Request
<1>6. \/ r.type = "LIMIT" /\ AddLimit(r, n) /\ pc' = "limit" /\ UNCHANGED stops
      \/ r.type = "MARKET" /\ pc' = "market" /\ UNCHANGED <<bookVars, stops>>
      \/ r.type = "STOP" /\ stops' = Append(stops, n) /\ pc' = "stops" /\ UNCHANGED bookVars
  BY <1>1 DEF AddOrder
<1>7. NoPrice \notin Prices BY PricesAssumption
<1> HIDE DEF Received, Request, Statuses
<1>8. r.type = "LIMIT" => r.price \in Prices BY <1>1, <1>5
<1>9. triggered = <<>> /\ working = 0 BY <1>2, <1>4 DEF LoopInv
<1>10. \A i \in Received : /\ IsLimit(i)' <=> IsLimit(i)
                           /\ IsOpen(i)' <=> IsOpen(i)
  BY <1>1 DEF IsLimit, IsOpen
<1>11. IsOpen(n)' /\ (IsLimit(n)' <=> r.type = "LIMIT") BY <1>1 DEF IsOpen, IsLimit
<1>12. ASSUME NEW s, NEW p
       PROVE  OpenAt(s, p)' = OpenAt(s, p) \cup
                (IF r.type = "LIMIT" /\ r.side = s /\ r.price = p THEN {n} ELSE {})
  BY <1>1, <1>10, <1>11 DEF OpenAt, IsLimit
<1>13. DOMAIN book = Sides /\ (\A s \in Sides : DOMAIN book[s] \subseteq Prices)
       /\ heap \in [Sides -> [Prices -> Nat]]
  BY <1>2 DEF BookType
<1>14. /\ DOMAIN book' = Sides /\ \A s \in Sides : DOMAIN book'[s] \subseteq Prices
       /\ heap' \in [Sides -> [Prices -> Nat]] /\ HeapInv'
       /\ \A s \in Sides : \A p \in Prices :
            Queue(s, p)' = IF r.type = "LIMIT" /\ s = r.side /\ p = r.price
                           THEN Append(Queue(s, p), n) ELSE Queue(s, p)
  <2>1. CASE r.type # "LIMIT"
    <3>1. UNCHANGED bookVars BY <1>6, <2>1
    <3> QED BY <1>2, <1>13, <2>1, <3>1 DEF bookVars, HeapInv, Queue
  <2>2. CASE r.type = "LIMIT"
    <3> DEFINE p == r.price
               t == r.side
               q == Append(Queue(t, p), n)
    <3>1. /\ book' = [book EXCEPT ![t] = WithQueue(@, p, q)]
          /\ heap' = IF p \in DOMAIN book[t] THEN heap ELSE [heap EXCEPT ![t][p] = @ + 1]
      BY <1>6, <2>2 DEF AddLimit
    <3>2. p \in Prices /\ t \in Sides BY <1>5, <1>8, <2>2
    <3>3. q # <<>>
      <4>1. Queue(t, p) \in Seq(OpenAt(t, p)) BY <1>2, <3>2 DEF QueueInv, Lists
      <4> QED BY <4>1
    <3> HIDE DEF p, t, q
    <3>4. /\ DOMAIN book' = Sides
          /\ \A s \in Sides : s # t => book'[s] = book[s]
          /\ book'[t] = [x \in DOMAIN book[t] \cup {p} |-> IF x = p THEN q ELSE book[t][x]]
      BY <1>13, <3>1, <3>2, <3>3 DEF WithQueue
    <3>5. /\ heap' \in [Sides -> [Prices -> Nat]]
          /\ \A s \in Sides : \A x \in Prices : heap'[s][x] >= heap[s][x]
          /\ heap'[t][p] > 0
      <4>1. CASE p \in DOMAIN book[t]
        <5>1. heap' = heap /\ heap[t][p] > 0 BY <1>2, <3>1, <3>2, <4>1 DEF HeapInv
        <5> QED BY <1>13, <5>1
      <4>2. CASE p \notin DOMAIN book[t]
        <5>1. heap' = [heap EXCEPT ![t] = [heap[t] EXCEPT ![p] = heap[t][p] + 1]]
          BY <3>1, <4>2
        <5>2. heap[t] \in [Prices -> Nat] /\ heap[t][p] \in Nat BY <1>13, <3>2
        <5> DEFINE h == [heap[t] EXCEPT ![p] = heap[t][p] + 1]
        <5>3. h \in [Prices -> Nat] /\ h[p] = heap[t][p] + 1
              /\ \A x \in Prices : x # p => h[x] = heap[t][x]
          BY <3>2, <5>2
        <5> HIDE DEF h
        <5>4. heap' = [heap EXCEPT ![t] = h] BY <5>1 DEF h
        <5>5. heap'[t] = h /\ \A s \in Sides : s # t => heap'[s] = heap[s] BY <1>13, <3>2, <5>4
        <5>6. heap' \in [Sides -> [Prices -> Nat]] BY <1>13, <3>2, <5>3, <5>4
        <5>7. ASSUME NEW s \in Sides, NEW x \in Prices PROVE heap'[s][x] >= heap[s][x]
          <6>1. heap[s][x] \in Nat BY <1>13
          <6> QED BY <5>2, <5>3, <5>5, <6>1
        <5> QED BY <3>2, <5>2, <5>3, <5>5, <5>6, <5>7
      <4> QED BY <4>1, <4>2
    <3>6. \A s \in Sides : DOMAIN book'[s] \subseteq Prices BY <1>13, <3>2, <3>4
    <3>7. ASSUME NEW s \in Sides, NEW x \in DOMAIN book'[s] PROVE heap'[s][x] > 0
      <4>1. x \in Prices BY <3>6
      <4>2. CASE s = t /\ x = p BY <3>5, <4>2
      <4>3. CASE ~(s = t /\ x = p)
        <5>1. x \in DOMAIN book[s] BY <3>4, <4>3
        <5>2. heap[s][x] > 0 /\ heap[s][x] \in Nat /\ heap'[s][x] \in Nat
          BY <1>2, <1>13, <3>5, <4>1, <5>1 DEF HeapInv
        <5> QED BY <3>5, <4>1, <5>2
      <4> QED BY <4>2, <4>3
    <3>8. ASSUME NEW s \in Sides, NEW x \in Prices
          PROVE  Queue(s, x)' = IF s = t /\ x = p THEN Append(Queue(s, x), n) ELSE Queue(s, x)
      <4>1. q = Append(Queue(t, p), n) BY DEF q, t, p
      <4>2. CASE s = t /\ x = p BY <3>4, <4>1, <4>2 DEF Queue
      <4>3. CASE ~(s = t /\ x = p) BY <3>4, <4>3 DEF Queue
      <4> QED BY <4>2, <4>3
    <3> QED BY <2>2, <3>4, <3>5, <3>6, <3>7, <3>8 DEF HeapInv, p, t
  <2> QED BY <2>1, <2>2
<1>15. QueueInv'
  <2> SUFFICES ASSUME NEW s \in Sides, NEW p \in Prices PROVE Lists(Queue(s, p)', OpenAt(s, p)')
    BY DEF QueueInv
  <2>1. Lists(Queue(s, p), OpenAt(s, p)) /\ OpenAt(s, p) \subseteq Received
    BY <1>2 DEF QueueInv, OpenAt
  <2>2. CASE r.type = "LIMIT" /\ s = r.side /\ p = r.price
    <3>1. Queue(s, p)' = Append(Queue(s, p), n) /\ OpenAt(s, p)' = OpenAt(s, p) \cup {n}
      BY <1>12, <1>14, <2>2
    <3>2. OpenAt(s, p) \in SUBSET Nat /\ \A x \in OpenAt(s, p) : x < n BY <1>3, <2>1
    <3>3. Lists(Append(Queue(s, p), n), OpenAt(s, p) \cup {n}) BY <1>1, <2>1, <3>2, ListsAppend
    <3> QED BY <3>1, <3>3
  <2>3. CASE ~(r.type = "LIMIT" /\ s = r.side /\ p = r.price)
    BY <1>12, <1>14, <2>1, <2>3
  <2> QED BY <2>2, <2>3
<1>16. stops \in Seq(Received) /\ stops' \in Seq(Received')
       /\ Range(stops) \subseteq Received
       /\ \A i \in Range(stops') : i \in Range(stops) \/ (i = n /\ r.type = "STOP")
  <2>1. stops \in Seq(Received) BY <1>2 DEF BookType
  <2>2. stops \in Seq(Received') BY <1>1, <2>1, SeqMore
  <2>3. stops' = stops \/ (r.type = "STOP" /\ stops' = Append(stops, n)) BY <1>6
  <2>4. CASE stops' = stops BY <2>1, <2>2, <2>4 DEF Range
  <2>5. CASE r.type = "STOP" /\ stops' = Append(stops, n) BY <1>1, <2>1, <2>2, <2>5 DEF Range
  <2> QED BY <2>3, <2>4, <2>5
<1>17. BookType'
  <2>1. triggered' \in Seq(Received')
    BY <1>4, <1>9
  <2>2. history' \in Seq(TradeRecord')
    <3>1. TradeRecord \subseteq TradeRecord' BY <1>1 DEF TradeRecord
    <3>2. history \in Seq(TradeRecord) BY <1>2 DEF BookType
    <3> HIDE DEF TradeRecord
    <3> QED BY <1>4, <3>1, <3>2, SeqMore
  <2>3. \A i \in Received' : orders'[i].type = "LIMIT" => orders'[i].price \in Prices
    BY <1>1, <1>2, <1>8 DEF BookType
  <2>4. byId' \subseteq Received' /\ working' \in Received' \cup {0}
        /\ pc' \in {"idle", "market", "limit", "stops", "stop"} /\ now' \in Nat
    BY <1>1, <1>2, <1>4, <1>6 DEF BookType
  <2> HIDE DEF TradeRecord
  <2> QED BY <1>1, <1>14, <1>16, <2>1, <2>2, <2>3, <2>4 DEF BookType
<1>18. KnownInv'
  <2>1. \A i \in Received' : IsLimit(i)' /\ IsOpen(i)' => i \in byId'
    BY <1>1, <1>2, <1>4, <1>10 DEF KnownInv
  <2>2. \A i \in Range(stops') : orders'[i].type = "STOP" /\ (status'[i] = "ACTIVE" => i \in byId')
    BY ZenonT(60), <1>1, <1>2, <1>4, <1>16 DEF KnownInv
  <2> QED BY <2>1, <2>2 DEF KnownInv
<1>19. LoopInv'
  <2>1. working' = 0 <=> pc' \in {"idle", "stops"} BY <1>1, <1>4, <1>6
  <2>2. pc' \in {"market", "stop"} => orders'[working'].type = "MARKET" BY <1>1, <1>4, <1>6
  <2>3. pc' = "limit" => IsLimit(working)' /\ IsOpen(working)'
    BY <1>1, <1>4, <1>6, <1>11 DEF IsLimit, IsOpen
  <2>4. triggered' = <<>> /\ Range(triggered') = {} BY <1>4, <1>9 DEF Range
  <2> QED BY <2>1, <2>2, <2>3, <2>4 DEF LoopInv
<1>20. CrossInv'
  <2> SUFFICES ASSUME NEW i \in Received', NEW j \in Received', Meet(i, j)'
               PROVE  pc' = "limit" /\ working' \in {i, j}
    BY DEF CrossInv
  <2>1. CASE i \in Received /\ j \in Received
    <3>1. Meet(i, j) BY <1>1, <1>10, <2>1 DEF Meet
    <3> QED BY <1>2, <1>4, <2>1, <3>1 DEF CrossInv
  <2>2. CASE i = n \/ j = n
    <3>1. r.type = "LIMIT" BY <1>11, <2>2 DEF Meet
    <3> QED BY <1>4, <1>6, <2>2, <3>1
  <2> QED BY <1>1, <2>1, <2>2
<1>21. FilledInv'
  <2>1. ASSUME NEW i \in Received' PROVE status'[i] = "FILLED" => remaining'[i] = 0
    <3>1. CASE i \in Received
      <4>1. status'[i] = status[i] /\ remaining'[i] = remaining[i] BY <1>1, <3>1
      <4>2. status[i] = "FILLED" => remaining[i] = 0 BY <1>2, <3>1 DEF FilledInv
      <4> QED BY <4>1, <4>2
    <3>2. CASE i = n
      <4>1. status'[i] = "ACTIVE" /\ remaining'[i] = r.quantity BY <1>1, <3>2
      <4> QED BY <1>1, <4>1
    <3> QED BY <1>1, <3>1, <3>2
  <2>2. ASSUME NEW k \in DOMAIN history'
        PROVE  /\ history'[k].buyStatus = "FILLED" => status'[history'[k].buy] = "FILLED"
               /\ history'[k].sellStatus = "FILLED" => status'[history'[k].sell] = "FILLED"
    <3>1. k \in DOMAIN history /\ history' = history BY <1>4
    <3>2. history[k].buy \in Received /\ history[k].sell \in Received
      <4>1. history[k] \in TradeRecord BY <1>2, <3>1, OrderFacts
      <4> QED BY <4>1 DEF TradeRecord
    <3> QED BY <1>1, <1>2, <3>1, <3>2 DEF FilledInv
  <2> QED BY <2>1, <2>2 DEF FilledInv
<1>22. TradesAddUp'
  <2> SUFFICES ASSUME NEW i \in Received'
               PROVE  orders'[i].quantity = remaining'[i] + Total(Fills(i)')
    BY DEF TradesAddUp, Total
  <2>1. Fills(i)' = Fills(i) BY <1>4 DEF Fills
  <2>2. CASE i \in Received BY <1>1, <1>2, <2>1, <2>2 DEF TradesAddUp
  <2>3. CASE i = n
    <3>1. PICK q : q = Fills(i) OBVIOUS
    <3>2. i \notin Received BY <1>1, <2>3
    <3>3. q \in Seq(Int) /\ \A k \in 1 .. Len(q) : q[k] = 0 BY <1>2, <3>1, <3>2, FillsFacts
    <3>4. Total(q) = 0 BY <3>3, TotalOfNothing
    <3> QED BY <1>1, <2>1, <2>3, <3>1, <3>4
  <2> QED BY <1>1, <2>2, <2>3
<1> QED BY <1>14, <1>15, <1>17, <1>18, <1>19, <1>20, <1>21, <1>22 DEF BookInv

\* A trade takes as much from the buyer as from the seller, and fills exactly the one whose
\* quantity is used up.
LEMMA TradeEffect ==
  ASSUME BookInv, NEW b \in Received, NEW a \in Received, b # a, status[b] # "FILLED", status[a] # "FILLED",
         NEW price \in Prices, NEW time \in Nat, Trade(b, a, price, time), orders' = orders
  PROVE  /\ Received' = Received
         /\ remaining' \in Seq(Int) /\ Len(remaining') = Len(orders)
         /\ status' \in Seq(Statuses) /\ Len(status') = Len(orders)
         /\ history' \in Seq(TradeRecord') /\ FilledInv' /\ TradesAddUp'
         /\ \A i \in Received : i \notin {b, a} => remaining'[i] = remaining[i] /\ status'[i] = status[i]
         /\ \A i \in {b, a} : status'[i] # "CANCELED" /\ (status'[i] = "FILLED" <=> remaining'[i] = 0)
<1>1. BookType /\ FilledInv /\ TradesAddUp BY DEF BookInv
<1>2. Received = 1 .. Len(orders) /\ Len(orders) \in Nat
      /\ (\A i \in Received : remaining[i] \in Int /\ orders[i].quantity \in Int /\ status[i] \in Statuses)
      /\ (\A k \in DOMAIN history : history[k] \in TradeRecord)
      /\ DOMAIN history = 1 .. Len(history) /\ Len(history) \in Nat
  BY <1>1, OrderFacts
<1>3. history \in Seq(TradeRecord) /\ remaining \in Seq(Int) /\ Len(remaining) = Len(orders)
  BY <1>1 DEF BookType
<1>4. Received' = Received BY DEF Received
<1> DEFINE quantity == Traded(b, a)
           left == [remaining EXCEPT ![b] = @ - quantity, ![a] = @ - quantity]
           record == [price |-> price, quantity |-> quantity, time |-> time, buy |-> b, sell |-> a,
                      buyStatus |-> status'[b], sellStatus |-> status'[a]]
<1>5. /\ remaining' = left
      /\ status' = [i \in Received |-> IF i \notin {b, a} THEN status[i]
                                       ELSE IF left[i] = 0 THEN "FILLED" ELSE "PARTIALLY_FILLED"]
      /\ history' = Append(history, record)
  BY DEF Trade
<1>6. quantity \in Int
  BY <1>2 DEF Traded
<1> HIDE DEF Received, quantity
<1>7. /\ left \in Seq(Int) /\ Len(left) = Len(orders)
      /\ left[b] = remaining[b] - quantity /\ left[a] = remaining[a] - quantity
      /\ \A i \in Received : i \notin {b, a} => left[i] = remaining[i]
  <2> DEFINE x == remaining[b] - quantity
             y == remaining[a] - quantity
  <2>1. x \in Int /\ y \in Int BY <1>2, <1>6
  <2>2. left = [[remaining EXCEPT ![b] = x] EXCEPT ![a] = y] OBVIOUS
  <2>3. DOMAIN remaining = Received BY <1>2, <1>3
  <2>4. left[b] = x /\ left[a] = y /\ \A i \in Received : i \notin {b, a} => left[i] = remaining[i]
    BY <2>3
  <2>5. left \in Seq(Int) /\ Len(left) = Len(orders)
    <3> HIDE DEF x, y, left
    <3>1. b \in 1 .. Len(remaining) /\ a \in 1 .. Len(remaining) BY <1>2, <1>3
    <3>2. [remaining EXCEPT ![b] = x] \in Seq(Int) /\ Len([remaining EXCEPT ![b] = x]) = Len(remaining)
      BY <1>3, <2>1, <3>1
    <3>3. left \in Seq(Int) /\ Len(left) = Len(remaining) BY <2>1, <2>2, <3>1, <3>2
    <3> QED BY <1>3, <3>3
  <2> QED BY <2>4, <2>5
<1> HIDE DEF left
<1>8. \A i \in Received : status'[i] = IF i \notin {b, a} THEN status[i]
                                       ELSE IF left[i] = 0 THEN "FILLED" ELSE "PARTIALLY_FILLED"
  BY <1>5
<1>9. "FILLED" \in Statuses /\ "PARTIALLY_FILLED" \in Statuses BY DEF Statuses
<1> HIDE DEF Statuses
<1>10. status' \in Seq(Statuses) /\ Len(status') = Len(orders)
  <2>1. \A i \in Received : status'[i] \in Statuses BY <1>2, <1>8, <1>9
  <2>2. DOMAIN status' = Received BY <1>5
  <2>3. status' = [i \in 1 .. Len(orders) |-> status'[i]] BY <1>2, <1>5, <2>2
  <2> QED BY <1>2, <2>1, <2>3
<1>11. ASSUME NEW i \in {b, a}
       PROVE  status'[i] # "CANCELED" /\ (status'[i] = "FILLED" <=> remaining'[i] = 0)
  <2>1. i \in Received OBVIOUS
  <2>2. status'[i] = IF left[i] = 0 THEN "FILLED" ELSE "PARTIALLY_FILLED" BY <1>8, <2>1
  <2> QED BY <1>5, <2>2
<1>12. record \in TradeRecord
  BY <1>6, <1>2, <1>8, <1>9 DEF TradeRecord
<1>13. history' \in Seq(TradeRecord) /\ Len(history') = Len(history) + 1
       /\ history'[Len(history) + 1] = record
       /\ \A k \in DOMAIN history : history'[k] = history[k]
  <2> HIDE DEF record, TradeRecord
  <2> QED BY <1>2, <1>3, <1>5, <1>12
<1>14. history' \in Seq(TradeRecord')
  <2>1. TradeRecord' = TradeRecord BY <1>4 DEF TradeRecord
  <2> HIDE DEF TradeRecord
  <2> QED BY <1>13, <2>1
<1>15. \A i \in Received' : status'[i] = "FILLED" => remaining'[i] = 0
  BY <1>1, <1>4, <1>5, <1>7, <1>8 DEF FilledInv
<1>16. \A i \in Received : status[i] = "FILLED" => status'[i] = "FILLED"
  BY <1>8
<1>17. FilledInv'
  <2> SUFFICES ASSUME NEW k \in DOMAIN history'
        PROVE  /\ history'[k].buyStatus = "FILLED" => status'[history'[k].buy] = "FILLED"
               /\ history'[k].sellStatus = "FILLED" => status'[history'[k].sell] = "FILLED"
    BY <1>15 DEF FilledInv
  <2>1. CASE k \in DOMAIN history
    <3>1. history'[k] = history[k] /\ history[k].buy \in Received /\ history[k].sell \in Received
      <4>1. history[k] \in TradeRecord BY <1>2, <2>1
      <4> QED BY <1>13, <2>1, <4>1 DEF TradeRecord
    <3> QED BY <1>1, <1>16, <2>1, <3>1 DEF FilledInv
  <2>2. CASE k \notin DOMAIN history
    <3>1. k = Len(history) + 1 BY <1>2, <1>13, <2>2
    <3>2. history'[k] = record BY <1>13, <3>1
    <3>3. record.buyStatus = status'[b] /\ record.sellStatus = status'[a] /\ record.buy = b /\ record.sell = a
      OBVIOUS
    <3> QED BY <1>4, <1>15, <3>2, <3>3
  <2> QED BY <2>1, <2>2
<1>18. TradesAddUp'
  <2> SUFFICES ASSUME NEW i \in Received
               PROVE  orders'[i].quantity = remaining'[i] + Total(Fills(i)')
    BY <1>4 DEF TradesAddUp, Total
  <2> DEFINE x == IF i \in {b, a} THEN quantity ELSE 0
  <2>1. Fills(i) \in Seq(Int) /\ Len(Fills(i)) = Len(history) BY <1>1, FillsFacts
  <2>2. Fills(i)' = Append(Fills(i), x)
    <3>1. DOMAIN history' = 1 .. Len(history) + 1 BY <1>2, <1>13
    <3>2. Fills(i)' = [k \in 1 .. Len(history) + 1 |->
                         IF i \in {history'[k].buy, history'[k].sell} THEN history'[k].quantity ELSE 0]
      BY <3>1 DEF Fills
    <3>3. \A k \in 1 .. Len(history) : Fills(i)[k] = IF i \in {history[k].buy, history[k].sell}
                                                     THEN history[k].quantity ELSE 0
      BY <1>2 DEF Fills
    <3> DEFINE u == Append(Fills(i), x)
    <3>4. x \in Int BY <1>6
    <3>5. u = [k \in 1 .. Len(history) + 1 |-> u[k]] /\ u[Len(history) + 1] = x
          /\ \A k \in 1 .. Len(history) : u[k] = Fills(i)[k]
      <4>1. Fills(i) \in Seq(Int) /\ Len(Fills(i)) = Len(history) BY <2>1
      <4> HIDE DEF x
      <4>2. u \in Seq(Int) /\ Len(u) = Len(Fills(i)) + 1 /\ u[Len(Fills(i)) + 1] = x
            /\ \A k \in 1 .. Len(Fills(i)) : u[k] = Fills(i)[k]
        BY <3>4, <4>1
      <4> HIDE DEF u
      <4>3. DOMAIN u = 1 .. Len(history) + 1 BY <1>2, <4>1, <4>2
      <4>4. u = [k \in DOMAIN u |-> u[k]] BY <4>2
      <4> QED BY <4>1, <4>2, <4>3, <4>4
    <3> HIDE DEF u
    <3>6. ASSUME NEW k \in 1 .. Len(history) + 1
          PROVE  u[k] = IF i \in {history'[k].buy, history'[k].sell} THEN history'[k].quantity ELSE 0
      <4>1. CASE k \in 1 .. Len(history)
        <5>1. history'[k] = history[k] BY <1>2, <1>13, <4>1
        <5> QED BY <3>3, <3>5, <4>1, <5>1
      <4>2. CASE k = Len(history) + 1
        <5>1. history'[k] = record BY <1>13, <4>2
        <5>2. record.buy = b /\ record.sell = a /\ record.quantity = quantity OBVIOUS
        <5> QED BY <3>5, <4>2, <5>1, <5>2
      <4>3. k \in 1 .. Len(history) \/ k = Len(history) + 1
        <5> HIDE DEF x
        <5> QED BY <1>2
      <4> QED BY <4>1, <4>2, <4>3
    <3> HIDE DEF x
    <3>7. u = Fills(i)' BY <3>2, <3>5, <3>6
    <3> QED BY <3>7 DEF u
  <2>3. Total(Fills(i)') = Total(Fills(i)) + x
    <3>1. x \in Int BY <1>6
    <3> HIDE DEF x
    <3> QED BY <2>1, <2>2, <3>1, TotalAppend
  <2>4. orders[i].quantity = remaining[i] + Total(Fills(i)) BY <1>1 DEF TradesAddUp
  <2>5. remaining'[i] = remaining[i] - x
    <3>1. CASE i \in {b, a} BY <1>5, <1>7, <3>1
    <3>2. CASE i \notin {b, a}
      <4>1. remaining'[i] = remaining[i] /\ x = 0 /\ remaining[i] \in Int BY <1>2, <1>5, <1>7, <3>2
      <4> QED BY <4>1
    <3> QED BY <3>1, <3>2
  <2>6. Total(Fills(i)) \in Int BY <2>1, TotalType
  <2>7. x \in Int BY <1>6
  <2> HIDE DEF x
  <2> QED BY <1>2, <2>3, <2>4, <2>5, <2>6, <2>7
<1> QED BY <1>4, <1>5, <1>7, <1>10, <1>11, <1>14, <1>17, <1>18

\* At the head of the best queue stands an open limit order, the eldest at its price.
LEMMA BestIsOpen ==
  ASSUME BookInv, NEW s \in Sides, InHeap(s) # {}, BestQueue(s) # <<>>
  PROVE  /\ Top(s) \in Prices
         /\ Head(BestQueue(s)) \in OpenAt(s, Top(s)) /\ Head(BestQueue(s)) \in Received
         /\ IsOpen(Head(BestQueue(s)))
         /\ \A x \in OpenAt(s, Top(s)) \ {Head(BestQueue(s))} : Head(BestQueue(s)) < x
         /\ Lists(BestQueue(s), OpenAt(s, Top(s)))
         /\ Lists(Tail(BestQueue(s)), OpenAt(s, Top(s)) \ {Head(BestQueue(s))})
<1>1. BookType /\ QueueInv BY DEF BookInv
<1>2. Top(s) \in Prices BY <1>1, TopIsBest DEF BookType
<1>3. Lists(BestQueue(s), OpenAt(s, Top(s))) BY <1>1, <1>2 DEF QueueInv, BestQueue
<1>4. OpenAt(s, Top(s)) \subseteq Received /\ Received \in SUBSET Nat
  <2>1. Received \in SUBSET Nat BY <1>1, OrderFacts
  <2> QED BY <2>1 DEF OpenAt
<1>5. /\ Head(BestQueue(s)) \in OpenAt(s, Top(s))
      /\ \A x \in OpenAt(s, Top(s)) \ {Head(BestQueue(s))} : Head(BestQueue(s)) < x
      /\ Lists(Tail(BestQueue(s)), OpenAt(s, Top(s)) \ {Head(BestQueue(s))})
  <2> HIDE DEF OpenAt, BestQueue, Top
  <2>1. OpenAt(s, Top(s)) \in SUBSET Nat BY <1>4
  <2> QED BY <1>3, <2>1, ListsTail
<1>6. \A x \in OpenAt(s, Top(s)) : IsOpen(x) BY DEF OpenAt
<1> QED BY <1>2, <1>3, <1>4, <1>5, <1>6

\* The orders b and a trade, and the queues of the sides M, whose best orders
\* are among them, are left without those that are done.
Matches(b, a, price, time, M, rest) ==
  /\ b \in Received /\ a \in Received /\ b # a
  /\ status[b] # "FILLED" /\ status[a] # "FILLED"
  /\ price \in Prices /\ time \in Nat /\ Trade(b, a, price, time)
  /\ M \in SUBSET Sides
  /\ Leave(rest) /\ DOMAIN rest = M /\ \A s \in M : rest[s] = After(BestQueue(s))
  /\ \A s \in M : InHeap(s) # {} /\ BestQueue(s) # <<>> /\ Head(BestQueue(s)) \in {b, a}
  /\ \A i \in {b, a} : \/ orders[i].type = "MARKET"
                       \/ orders[i].side \in M /\ i = Head(BestQueue(orders[i].side))
  /\ byId' \subseteq byId
  /\ \A i \in byId \ byId' : i \in {b, a} /\ IsLimit(i) /\ remaining'[i] = 0
  /\ UNCHANGED <<now, orders, times, stops, loopVars>>

\* A match of two orders, one at the head of the best queue, keeps the invariant: a filled order
\* leaves its queue with the step that fills it.
LEMMA MatchKeeps ==
  ASSUME BookInv, NEW b, NEW a, NEW price, NEW time, NEW M, NEW rest,
         Matches(b, a, price, time, M, rest)
  PROVE  BookInv'
<1>0. /\ b \in Received /\ a \in Received /\ b # a
      /\ status[b] # "FILLED" /\ status[a] # "FILLED"
      /\ price \in Prices /\ time \in Nat /\ Trade(b, a, price, time)
      /\ M \in SUBSET Sides
      /\ Leave(rest) /\ DOMAIN rest = M /\ \A s \in M : rest[s] = After(BestQueue(s))
      /\ \A s \in M : InHeap(s) # {} /\ BestQueue(s) # <<>> /\ Head(BestQueue(s)) \in {b, a}
      /\ \A i \in {b, a} : \/ orders[i].type = "MARKET"
                           \/ orders[i].side \in M /\ i = Head(BestQueue(orders[i].side))
      /\ byId' \subseteq byId
      /\ \A i \in byId \ byId' : i \in {b, a} /\ IsLimit(i) /\ remaining'[i] = 0
      /\ UNCHANGED <<now, orders, times, stops, loopVars>>
  BY DEF Matches
<1>1. BookType /\ HeapInv /\ QueueInv /\ KnownInv /\ LoopInv /\ CrossInv /\ FilledInv
  BY DEF BookInv
<1>2. UNCHANGED <<now, orders, times, stops, pc, working, triggered>> BY <1>0 DEF loopVars
<1>3. /\ Received' = Received
      /\ remaining' \in Seq(Int) /\ Len(remaining') = Len(orders)
      /\ status' \in Seq(Statuses) /\ Len(status') = Len(orders)
      /\ history' \in Seq(TradeRecord') /\ FilledInv' /\ TradesAddUp'
      /\ \A i \in Received : i \notin {b, a} => remaining'[i] = remaining[i] /\ status'[i] = status[i]
      /\ \A i \in {b, a} : status'[i] # "CANCELED" /\ (status'[i] = "FILLED" <=> remaining'[i] = 0)
  BY <1>0, <1>2, TradeEffect
<1> HIDE DEF Received
<1>4. ASSUME NEW s \in M
      PROVE  /\ Top(s) \in Prices
             /\ Head(BestQueue(s)) \in OpenAt(s, Top(s)) /\ Head(BestQueue(s)) \in {b, a}
             /\ Lists(BestQueue(s), OpenAt(s, Top(s)))
             /\ Lists(Tail(BestQueue(s)), OpenAt(s, Top(s)) \ {Head(BestQueue(s))})
  BY <1>0, BestIsOpen
<1>5. \A i \in {b, a} : IsLimit(i) =>
        /\ orders[i].side \in M /\ i = Head(BestQueue(orders[i].side))
        /\ i \in OpenAt(orders[i].side, Top(orders[i].side)) /\ IsOpen(i)
  <2> SUFFICES ASSUME NEW i \in {b, a}, IsLimit(i)
               PROVE  /\ orders[i].side \in M /\ i = Head(BestQueue(orders[i].side))
                      /\ i \in OpenAt(orders[i].side, Top(orders[i].side)) /\ IsOpen(i)
    OBVIOUS
  <2>1. orders[i].side \in M /\ i = Head(BestQueue(orders[i].side)) BY <1>0 DEF IsLimit
  <2>2. i \in OpenAt(orders[i].side, Top(orders[i].side)) BY <1>4, <2>1
  <2> QED BY <2>1, <2>2 DEF OpenAt
<1>6. \A i \in Received : IsLimit(i)' = IsLimit(i) BY <1>2 DEF IsLimit
<1>7. \A i \in Received : IsLimit(i) =>
        /\ IsOpen(i)' => IsOpen(i)
        /\ IsOpen(i)' <=> IsOpen(i) /\ ~(i \in {b, a} /\ remaining'[i] = 0)
  BY <1>3, <1>5 DEF IsOpen
<1>8. ASSUME NEW s, NEW p
      PROVE  OpenAt(s, p)' = {i \in OpenAt(s, p) : ~(i \in {b, a} /\ remaining'[i] = 0)}
  BY <1>2, <1>3, <1>6, <1>7 DEF OpenAt, IsLimit
<1>9. DOMAIN book = Sides /\ (\A s \in Sides : DOMAIN book[s] \subseteq Prices)
      /\ heap \in [Sides -> [Prices -> Nat]]
  BY <1>1 DEF BookType
<1>10. /\ DOMAIN book' = Sides /\ \A s \in Sides : DOMAIN book'[s] \subseteq Prices
       /\ heap' \in [Sides -> [Prices -> Nat]] /\ HeapInv'
       /\ \A s \in Sides : \A p \in Prices :
            Queue(s, p)' = IF s \in M /\ p = Top(s) THEN After(BestQueue(s)) ELSE Queue(s, p)
  <2>1. DOMAIN rest = M /\ \A s \in M : rest[s] = After(BestQueue(s)) BY <1>0
  <2>2. Leave(rest) /\ \A s \in Sides : s \in DOMAIN rest => InHeap(s) # {} BY <1>0
  <2>3. /\ DOMAIN book' = Sides /\ \A s \in Sides : DOMAIN book'[s] \subseteq Prices
        /\ heap' \in [Sides -> [Prices -> Nat]] /\ HeapInv'
        /\ \A s \in Sides : \A p \in Prices :
             Queue(s, p)' = IF s \in DOMAIN rest /\ p = Top(s) THEN rest[s] ELSE Queue(s, p)
    BY <1>1, <1>9, <2>2, LeaveEffect
  <2> QED BY <2>1, <2>3
<1>11. QueueInv'
  <2> SUFFICES ASSUME NEW s \in Sides, NEW p \in Prices PROVE Lists(Queue(s, p)', OpenAt(s, p)')
    BY DEF QueueInv
  <2>0. \A i \in OpenAt(s, p) : i \in Received /\ IsLimit(i) /\ orders[i].side = s /\ orders[i].price = p
    BY DEF OpenAt, IsLimit
  <2>1. CASE s \in M /\ p = Top(s)
    <3> DEFINE q == BestQueue(s)
               f == Head(q)
    <3>1. f \in OpenAt(s, p) /\ f \in {b, a} /\ Lists(q, OpenAt(s, p)) /\ Lists(Tail(q), OpenAt(s, p) \ {f})
      BY <1>4, <2>1
    <3>2. \A i \in OpenAt(s, p) : i \in {b, a} => i = f BY <1>5, <2>0
    <3>3. Queue(s, p)' = IF remaining'[f] = 0 THEN Tail(q) ELSE q BY <1>10, <2>1 DEF After
    <3> HIDE DEF q, f
    <3>4. OpenAt(s, p)' = IF remaining'[f] = 0 THEN OpenAt(s, p) \ {f} ELSE OpenAt(s, p)
      BY <1>8, <3>1, <3>2
    <3> QED BY <3>1, <3>3, <3>4
  <2>2. CASE ~(s \in M /\ p = Top(s))
    <3>1. \A i \in OpenAt(s, p) : i \notin {b, a}
      <4> SUFFICES ASSUME NEW i \in OpenAt(s, p), i \in {b, a} PROVE FALSE OBVIOUS
      <4>1. s \in M /\ i \in OpenAt(s, Top(s)) BY <1>5, <2>0
      <4> QED BY <2>0, <2>2, <4>1 DEF OpenAt
    <3>2. OpenAt(s, p)' = OpenAt(s, p) BY <1>8, <3>1
    <3> QED BY <1>1, <1>10, <2>2, <3>2 DEF QueueInv
  <2> QED BY <2>1, <2>2
<1>12. BookType'
  <2>1. byId' \subseteq Received' /\ working' \in Received' \cup {0} /\ stops' \in Seq(Received')
        /\ triggered' \in Seq(Received')
    BY <1>0, <1>1, <1>2, <1>3 DEF BookType
  <2> HIDE DEF TradeRecord
  <2> QED BY <1>0, <1>1, <1>2, <1>3, <1>10, <2>1 DEF BookType
<1>13. KnownInv'
  <2>1. \A i \in Received' : IsLimit(i)' /\ IsOpen(i)' => i \in byId'
    BY <1>0, <1>1, <1>3, <1>6, <1>7 DEF KnownInv
  <2>2. ASSUME NEW i \in Range(stops')
        PROVE  orders'[i].type = "STOP" /\ (status'[i] = "ACTIVE" => i \in byId')
    <3>1. i \in Range(stops) /\ orders'[i] = orders[i] /\ orders[i].type = "STOP" /\ i \in Received
      BY <1>1, <1>2 DEF KnownInv, BookType, Range
    <3>2. ~IsLimit(i) BY <3>1 DEF IsLimit
    <3>3. i \notin {b, a}
      <4> SUFFICES ASSUME i \in {b, a} PROVE FALSE OBVIOUS
      <4>1. orders[i].side \in M /\ i = Head(BestQueue(orders[i].side)) BY <1>0, <3>1
      <4>2. i \in OpenAt(orders[i].side, Top(orders[i].side)) BY <1>4, <4>1
      <4> QED BY <3>2, <4>2 DEF OpenAt, IsLimit
    <3> QED BY <1>0, <1>1, <1>3, <3>1, <3>2, <3>3 DEF KnownInv
  <2> QED BY <2>1, <2>2 DEF KnownInv
<1>14. LoopInv'
  <2>1. pc = "limit" => (status'[working] # "FILLED" => IsOpen(working)')
    <3>1. pc = "limit" => working \in Received BY <1>1 DEF LoopInv, BookType
    <3> QED BY <1>1, <1>2, <1>3, <3>1 DEF LoopInv, IsOpen
  <2>2. \A i : IsLimit(i)' <=> IsLimit(i) BY <1>2 DEF IsLimit
  <2> QED BY <1>1, <1>2, <2>1, <2>2 DEF LoopInv
<1>15. CrossInv'
  <2> SUFFICES ASSUME NEW i \in Received, NEW j \in Received, Meet(i, j)'
               PROVE  pc' = "limit" /\ working' \in {i, j}
    BY <1>3 DEF CrossInv
  <2>1. Meet(i, j) BY <1>2, <1>6, <1>7 DEF Meet
  <2> QED BY <1>1, <1>2, <2>1 DEF CrossInv
<1> QED BY <1>3, <1>10, <1>11, <1>12, <1>13, <1>14, <1>15 DEF BookInv

\* An open limit order stands in its queue, and its price in the heap.
LEMMA OpenIsInHeap ==
  ASSUME BookInv, NEW i \in Received, IsLimit(i), IsOpen(i)
  PROVE  LET s == orders[i].side
             p == orders[i].price
         IN  /\ s \in Sides /\ p \in Prices /\ p \in InHeap(s) /\ Top(s) \in Prices
             /\ Top(s) \in InHeap(s) /\ ~Better(s, p, Top(s))
             /\ p \in DOMAIN book[s]
             /\ i \in OpenAt(s, p) /\ i \in Range(Queue(s, p)) /\ Queue(s, p) # <<>>
<1> DEFINE s == orders[i].side
           p == orders[i].price
<1>1. BookType /\ QueueInv /\ HeapInv BY DEF BookInv
<1>2. s \in Sides /\ p \in Prices BY <1>1, OrderFacts
<1>3. i \in OpenAt(s, p) BY DEF OpenAt, IsLimit
<1> HIDE DEF s, p
<1>4. Lists(Queue(s, p), OpenAt(s, p)) BY <1>1, <1>2 DEF QueueInv
<1>5. Queue(s, p) # <<>> BY <1>3, <1>4, ListsNothing
<1>6. p \in DOMAIN book[s] /\ heap[s][p] > 0 BY <1>1, <1>2, <1>5 DEF Queue, HeapInv
<1>7. p \in InHeap(s) BY <1>2, <1>6 DEF InHeap
<1>8. Top(s) \in Prices /\ Top(s) \in InHeap(s) /\ ~Better(s, p, Top(s))
  BY <1>1, <1>2, <1>7, TopIsBest DEF BookType
<1>9. i \in Range(Queue(s, p))
  <2>1. Queue(s, p) \in Seq(OpenAt(s, p)) /\ \E k \in 1 .. Len(Queue(s, p)) : i = Queue(s, p)[k]
    BY <1>3, <1>4 DEF Lists
  <2> QED BY <2>1 DEF Range
<1> QED BY <1>2, <1>3, <1>5, <1>6, <1>7, <1>8, <1>9 DEF s, p

\* Steps in which nothing trades and nothing comes in.
LEMMA QuietKeeps ==
  ASSUME BookInv,
         orders' \in Seq(Request), Len(orders') = Len(orders),
         \A i \in Received : /\ IsLimit(i)' <=> IsLimit(i)
                             /\ IsLimit(i) => orders'[i] = orders[i]
                             /\ orders'[i].quantity = orders[i].quantity,
         UNCHANGED <<times, remaining, status, history>>, now' \in Nat,
         DOMAIN book' = Sides, \A s \in Sides : DOMAIN book'[s] \subseteq Prices,
         heap' \in [Sides -> [Prices -> Nat]], HeapInv',
         \A s \in Sides : \A p \in Prices : Queue(s, p)' = Queue(s, p),
         byId' \subseteq byId, \A i \in byId \ byId' : ~IsLimit(i) /\ i \notin Range(stops'),
         stops' \in Seq(Received), Range(stops') \subseteq Range(stops),
         \A i \in Range(stops') : orders'[i] = orders[i],
         triggered' \in Seq(Received), working' \in Received \cup {0},
         pc' \in {"idle", "market", "limit", "stops", "stop"},
         LoopInv', CrossInv'
  PROVE  BookInv'
<1>1. BookType /\ QueueInv /\ KnownInv /\ FilledInv /\ TradesAddUp BY DEF BookInv
<1>2. Received' = Received BY <1>1, OrderFacts DEF Received
<1> HIDE DEF Received
<1>3. \A s, p : OpenAt(s, p)' = OpenAt(s, p) BY <1>2, OpenAtKept
<1>4. QueueInv' BY <1>1, <1>3 DEF QueueInv
<1>5. BookType'
  <2>1. history' \in Seq(TradeRecord')
    <3>1. TradeRecord' = TradeRecord BY <1>2 DEF TradeRecord
    <3> HIDE DEF TradeRecord
    <3> QED BY <1>1, <3>1 DEF BookType
  <2>2. \A i \in Received' : orders'[i].type = "LIMIT" => orders'[i].price \in Prices
    BY <1>1, <1>2 DEF BookType, IsLimit
  <2>3. byId' \subseteq Received' /\ stops' \in Seq(Received') /\ triggered' \in Seq(Received')
        /\ working' \in Received' \cup {0}
    BY <1>1, <1>2 DEF BookType
  <2>4. times' \in Seq(Nat) /\ remaining' \in Seq(Int) /\ status' \in Seq(Statuses)
        /\ Len(times') = Len(orders') /\ Len(remaining') = Len(orders') /\ Len(status') = Len(orders')
    BY <1>1 DEF BookType
  <2> HIDE DEF TradeRecord
  <2> QED BY <2>1, <2>2, <2>3, <2>4 DEF BookType
<1>6. KnownInv'
  <2>1. \A i \in Received : IsOpen(i)' <=> IsOpen(i) BY DEF IsOpen
  <2>2. \A i \in Received' : IsLimit(i)' /\ IsOpen(i)' => i \in byId'
    BY <1>1, <1>2, <2>1 DEF KnownInv
  <2>3. \A i \in Range(stops') : orders'[i].type = "STOP" /\ (status'[i] = "ACTIVE" => i \in byId')
    BY <1>1 DEF KnownInv
  <2> QED BY <2>2, <2>3 DEF KnownInv
<1>7. FilledInv'
  <2>1. \A k \in DOMAIN history : history[k].buy \in Received /\ history[k].sell \in Received
    <3>1. \A k \in DOMAIN history : history[k] \in TradeRecord BY <1>1, OrderFacts
    <3> QED BY <3>1 DEF TradeRecord
  <2> QED BY <1>1, <1>2, <2>1 DEF FilledInv
<1>8. TradesAddUp'
  <2> SUFFICES ASSUME NEW i \in Received
               PROVE  orders'[i].quantity = remaining'[i] + Total(Fills(i)')
    BY <1>2 DEF TradesAddUp, Total
  <2>1. Fills(i)' = Fills(i) BY DEF Fills
  <2> QED BY <1>1, <2>1 DEF TradesAddUp
<1> QED BY <1>4, <1>5, <1>6, <1>7, <1>8 DEF BookInv

\* The same where the orders stay as they are, and the stop orders wait.
LEMMA QuieterKeeps ==
  ASSUME BookInv, UNCHANGED <<orders, times, remaining, status, byId, stops, history, triggered>>,
         now' \in Nat,
         DOMAIN book' = Sides, \A s \in Sides : DOMAIN book'[s] \subseteq Prices,
         heap' \in [Sides -> [Prices -> Nat]], HeapInv',
         \A s \in Sides : \A p \in Prices : Queue(s, p)' = Queue(s, p),
         working' \in Received \cup {0},
         pc' \in {"idle", "market", "limit", "stops", "stop"},
         LoopInv', CrossInv'
  PROVE  BookInv'
<1>1. BookType BY DEF BookInv
<1>2. orders' \in Seq(Request) /\ stops' \in Seq(Received) /\ triggered' \in Seq(Received)
  BY <1>1 DEF BookType
<1>3. \A i \in Received : IsLimit(i)' <=> IsLimit(i) BY DEF IsLimit
<1> HIDE DEF Received
<1> QED BY <1>2, <1>3, QuietKeeps

\* A step that leaves the orders and the matching loop alone keeps what the invariant says of
\* them.
LEMMA SameLoop ==
  ASSUME BookInv, UNCHANGED <<orders, remaining, status, loopVars, stops>>
  PROVE  LoopInv' /\ CrossInv' /\ working' \in Received \cup {0}
         /\ pc' \in {"idle", "market", "limit", "stops", "stop"}
<1>1. LoopInv /\ CrossInv /\ BookType BY DEF BookInv
<1>2. UNCHANGED <<pc, working, triggered>> BY DEF loopVars
<1>3. LoopInv' BY <1>1, <1>2 DEF LoopInv, IsLimit, IsOpen
<1>4. CrossInv' BY <1>1, <1>2 DEF CrossInv, Meet, IsLimit, IsOpen, Received
<1> QED BY <1>1, <1>2, <1>3, <1>4 DEF BookType

\* One turn of the market order's loop keeps the invariant.
LEMMA MatchMarketKeeps == ASSUME BookInv, MatchMarket PROVE BookInv'
<1> DEFINE first == Head(BestQueue(Other))
<1>1. BookType /\ LoopInv /\ FilledInv BY DEF BookInv
<1>2. /\ pc \in {"market", "stop"} /\ remaining[working] > 0
      /\ InHeap(Other) # {} /\ BestQueue(Other) # <<>>
  BY DEF MatchMarket, Takes
<1>3. working \in Received /\ orders[working].type = "MARKET"
  BY <1>1, <1>2 DEF LoopInv, BookType
<1>4. Other \in Sides BY <1>3, <1>1, OrderFacts DEF Other, Opposite, Sides
<1>5. /\ Top(Other) \in Prices /\ first \in OpenAt(Other, Top(Other)) /\ first \in Received
      /\ IsOpen(first)
  BY <1>2, <1>4, BestIsOpen
<1>6. IsLimit(first) /\ orders[first].side = Other BY <1>5 DEF OpenAt, IsLimit
<1>7. first # working BY <1>3, <1>6 DEF IsLimit
<1>8. times[working] \in Nat BY <1>1, <1>3, OrderFacts
<1> DEFINE buy == IF Other = "BUY" THEN first ELSE working
           sell == IF Other = "BUY" THEN working ELSE first
<1>9. /\ Trade(buy, sell, Top(Other), times[working])
      /\ Leave([s \in {Other} |-> After(BestQueue(s))])
      /\ byId' = IF remaining'[first] = 0 THEN byId \ {first} ELSE byId
      /\ UNCHANGED <<now, orders, times, stops, loopVars>>
  BY DEF MatchMarket
<1>10. /\ buy \in Received /\ sell \in Received /\ buy # sell /\ {buy, sell} = {first, working}
       /\ status[buy] # "FILLED" /\ status[sell] # "FILLED"
  <2>1. status[first] # "FILLED" BY <1>5 DEF IsOpen
  <2>2. status[working] # "FILLED" BY <1>1, <1>2, <1>3 DEF FilledInv
  <2> HIDE DEF first, Received
  <2> QED BY <1>3, <1>5, <1>7, <2>1, <2>2
<1>11. first = Head(BestQueue(Other)) OBVIOUS
<1> HIDE DEF first, buy, sell, Received
<1>12. /\ byId' \subseteq byId
       /\ \A i \in byId \ byId' : i \in {buy, sell} /\ IsLimit(i) /\ remaining'[i] = 0
  BY <1>6, <1>9, <1>10
<1>13. \A i \in {buy, sell} : \/ orders[i].type = "MARKET"
                              \/ orders[i].side \in {Other} /\ i = Head(BestQueue(orders[i].side))
  BY <1>3, <1>6, <1>10, <1>11
<1>14. \A s \in {Other} : InHeap(s) # {} /\ BestQueue(s) # <<>> /\ Head(BestQueue(s)) \in {buy, sell}
  BY <1>2, <1>10, <1>11
<1>15. {Other} \in SUBSET Sides BY <1>4
<1>16. PICK rest : rest = [s \in {Other} |-> After(BestQueue(s))] OBVIOUS
<1>17. Leave(rest) /\ DOMAIN rest = {Other} /\ \A s \in {Other} : rest[s] = After(BestQueue(s))
  BY <1>9, <1>16
<1>18. Matches(buy, sell, Top(Other), times[working], {Other}, rest)
  BY <1>5, <1>8, <1>9, <1>10, <1>12, <1>13, <1>14, <1>15, <1>17 DEF Matches
<1> QED BY <1>18, MatchKeeps

\* One turn of _match_limit_order keeps the invariant.
LEMMA MatchLimitKeeps == ASSUME BookInv, MatchLimit PROVE BookInv'
<1> DEFINE bid == Head(BestQueue("BUY"))
           ask == Head(BestQueue("SELL"))
           time == times[IF orders[working].side = "BUY" THEN bid ELSE ask]
<1>1. BookType /\ LoopInv BY DEF BookInv
<1>2. /\ pc = "limit" /\ InHeap("BUY") # {} /\ InHeap("SELL") # {}
      /\ \A s \in Sides : BestQueue(s) # <<>>
  BY DEF MatchLimit, Crossed
<1>3. working \in Received BY <1>1, <1>2 DEF LoopInv, BookType
<1>4. Other \in Sides /\ "BUY" \in Sides /\ "SELL" \in Sides
  BY <1>3, <1>1, OrderFacts DEF Other, Opposite, Sides
<1>5. \A s \in Sides : InHeap(s) # {} BY <1>2 DEF Sides
<1>6. /\ Top("BUY") \in Prices /\ bid \in OpenAt("BUY", Top("BUY")) /\ bid \in Received
      /\ status[bid] # "FILLED"
  BY <1>2, <1>4, BestIsOpen DEF IsOpen
<1>7. /\ Top("SELL") \in Prices /\ ask \in OpenAt("SELL", Top("SELL")) /\ ask \in Received
      /\ status[ask] # "FILLED"
  BY <1>2, <1>4, BestIsOpen DEF IsOpen
<1>8. IsLimit(bid) /\ orders[bid].side = "BUY" /\ IsLimit(ask) /\ orders[ask].side = "SELL"
  BY <1>6, <1>7 DEF OpenAt, IsLimit
<1>9. bid # ask /\ Top(Other) \in Prices /\ time \in Nat
  <2>1. Other \in {"BUY", "SELL"} BY <1>4 DEF Sides
  <2>2. Top(Other) \in Prices BY <1>6, <1>7, <2>1
  <2>3. times[bid] \in Nat /\ times[ask] \in Nat BY <1>1, <1>6, <1>7, OrderFacts
  <2> QED BY <1>8, <2>2, <2>3
<1>10. /\ Trade(bid, ask, Top(Other), time)
       /\ Leave([s \in Sides |-> After(BestQueue(s))])
       /\ byId' = byId \ {i \in {bid, ask} : remaining'[i] = 0}
       /\ UNCHANGED <<now, orders, times, stops, loopVars>>
  BY DEF MatchLimit
<1>11. bid = Head(BestQueue("BUY")) /\ ask = Head(BestQueue("SELL")) OBVIOUS
<1> HIDE DEF bid, ask, time, Received
<1>12. /\ byId' \subseteq byId
       /\ \A i \in byId \ byId' : i \in {bid, ask} /\ IsLimit(i) /\ remaining'[i] = 0
  BY <1>8, <1>10
<1>13. \A i \in {bid, ask} : \/ orders[i].type = "MARKET"
                             \/ orders[i].side \in Sides /\ i = Head(BestQueue(orders[i].side))
  BY <1>4, <1>8, <1>11
<1>14. \A s \in Sides : InHeap(s) # {} /\ BestQueue(s) # <<>> /\ Head(BestQueue(s)) \in {bid, ask}
  BY <1>2, <1>5, <1>11 DEF Sides
<1>15. Sides \in SUBSET Sides OBVIOUS
<1>16. PICK rest : rest = [s \in Sides |-> After(BestQueue(s))] OBVIOUS
<1>17. Leave(rest) /\ DOMAIN rest = Sides /\ \A s \in Sides : rest[s] = After(BestQueue(s))
  BY <1>10, <1>16
<1>18. Matches(bid, ask, Top(Other), time, Sides, rest)
  BY <1>6, <1>7, <1>9, <1>10, <1>12, <1>13, <1>14, <1>15, <1>17 DEF Matches
<1> QED BY <1>18, MatchKeeps

\* Empty levels go, and nothing else.
LEMMA EmptyLevelKeeps ==
  ASSUME BookInv, NEW M \in SUBSET Sides, \A s \in M : InHeap(s) # {},
         NEW rest, DOMAIN rest = M, \A s \in M : rest[s] = BestQueue(s), Leave(rest),
         UNCHANGED <<now, orderVars, stops, history, loopVars>>
  PROVE  BookInv'
<1>1. BookType /\ HeapInv BY DEF BookInv
<1>2. DOMAIN book = Sides /\ (\A s \in Sides : DOMAIN book[s] \subseteq Prices)
      /\ heap \in [Sides -> [Prices -> Nat]]
  BY <1>1 DEF BookType
<1>3. /\ DOMAIN book' = Sides /\ \A s \in Sides : DOMAIN book'[s] \subseteq Prices
      /\ heap' \in [Sides -> [Prices -> Nat]] /\ HeapInv'
      /\ \A s \in Sides : \A p \in Prices :
           Queue(s, p)' = IF s \in DOMAIN rest /\ p = Top(s) THEN rest[s] ELSE Queue(s, p)
  <2>1. \A s \in Sides : s \in DOMAIN rest => InHeap(s) # {} OBVIOUS
  <2> QED BY <1>1, <1>2, <2>1, LeaveEffect
<1>4. \A s \in Sides : \A p \in Prices : Queue(s, p)' = Queue(s, p)
  BY <1>3 DEF BestQueue
<1>5. LoopInv' /\ CrossInv' /\ working' \in Received \cup {0}
      /\ pc' \in {"idle", "market", "limit", "stops", "stop"}
  BY SameLoop DEF orderVars
<1>6. now' \in Nat BY <1>1 DEF BookType
<1> QED BY <1>3, <1>4, <1>5, <1>6, QuieterKeeps DEF orderVars, loopVars

\* Passing a level with nothing in it keeps the invariant.
LEMMA SkipEmptyLevelKeeps == ASSUME BookInv, SkipEmptyLevel PROVE BookInv'
<1>1. BookType /\ LoopInv BY DEF BookInv
<1>2. /\ pc \in {"market", "stop"} /\ InHeap(Other) # {} /\ BestQueue(Other) = <<>>
      /\ Leave([s \in {Other} |-> <<>>])
      /\ UNCHANGED <<now, orderVars, stops, history, loopVars>>
  BY DEF SkipEmptyLevel, Takes
<1>3. Other \in Sides
  <2>1. working \in Received BY <1>1, <1>2 DEF LoopInv, BookType
  <2> QED BY <2>1, <1>1, OrderFacts DEF Other, Opposite, Sides
<1>4. PICK rest : rest = [s \in {Other} |-> <<>>] OBVIOUS
<1> HIDE DEF Other
<1>5. {Other} \in SUBSET Sides /\ \A s \in {Other} : InHeap(s) # {} BY <1>2, <1>3
<1>6. Leave(rest) /\ DOMAIN rest = {Other} /\ \A s \in {Other} : rest[s] = BestQueue(s)
  BY <1>2, <1>4
<1> QED BY <1>2, <1>5, <1>6, EmptyLevelKeeps

\* Dropping an empty level of a crossed book keeps the invariant.
LEMMA DropCrossedLevelKeeps == ASSUME BookInv, DropCrossedLevel PROVE BookInv'
<1>1. /\ InHeap("BUY") # {} /\ InHeap("SELL") # {}
      /\ Leave([s \in Sides |-> BestQueue(s)])
      /\ UNCHANGED <<now, orderVars, stops, history, loopVars>>
  BY DEF DropCrossedLevel, Crossed
<1>2. \A s \in Sides : InHeap(s) # {} BY <1>1 DEF Sides
<1>3. Sides \in SUBSET Sides OBVIOUS
<1>4. PICK rest : rest = [s \in Sides |-> BestQueue(s)] OBVIOUS
<1>5. Leave(rest) /\ DOMAIN rest = Sides /\ \A s \in Sides : rest[s] = BestQueue(s)
  BY <1>1, <1>4
<1> QED BY <1>1, <1>2, <1>3, <1>5, EmptyLevelKeeps

\* The book as it is.
LEMMA BookAsItIs ==
  ASSUME BookInv, book' \in {book, LookedUp}, heap' = heap
  PROVE  /\ DOMAIN book' = Sides /\ \A s \in Sides : DOMAIN book'[s] \subseteq Prices
         /\ heap' \in [Sides -> [Prices -> Nat]] /\ HeapInv'
         /\ \A s \in Sides : \A p \in Prices : Queue(s, p)' = Queue(s, p)
<1>1. DOMAIN book = Sides /\ (\A s \in Sides : DOMAIN book[s] \subseteq Prices)
      /\ heap \in [Sides -> [Prices -> Nat]] /\ HeapInv
  BY DEF BookInv, BookType
<1> QED BY <1>1, LookedUpEffect

\* The end of the market order's loop keeps the invariant: what is left of it is canceled or
\* filled.
LEMMA EndMarketKeeps == ASSUME BookInv, EndMarket PROVE BookInv'
<1>1. BookType /\ LoopInv /\ CrossInv BY DEF BookInv
<1>2. /\ pc = "market" /\ pc' = "idle" /\ working' = 0
      /\ UNCHANGED <<now, orderVars, bookVars, stops, history, triggered>>
  BY DEF EndMarket
<1>3. LoopInv'
  <2>1. triggered' = <<>> /\ Range(triggered') = {} BY <1>1, <1>2 DEF LoopInv, Range
  <2> QED BY <1>2, <2>1 DEF LoopInv
<1>4. CrossInv'
  BY <1>1, <1>2 DEF CrossInv, Meet, IsLimit, IsOpen, Received, orderVars
<1>5. book' \in {book, LookedUp} /\ heap' = heap /\ now' \in Nat BY <1>1, <1>2 DEF bookVars, BookType
<1>6. working' \in Received \cup {0} /\ pc' \in {"idle", "market", "limit", "stops", "stop"} BY <1>2
<1> QED BY <1>2, <1>3, <1>4, <1>5, <1>6, BookAsItIs, QuieterKeeps DEF orderVars

\* When the tops of the two heaps do not cross, no two open limit orders do.
LEMMA NobodyMeets == ASSUME BookInv, ~Crossed, NEW i \in Received, NEW j \in Received PROVE ~Meet(i, j)
<1> SUFFICES ASSUME Meet(i, j) PROVE FALSE OBVIOUS
<1> DEFINE p == orders[i].price
           q == orders[j].price
<1>1. /\ IsLimit(i) /\ orders[i].side = "BUY" /\ IsOpen(i)
      /\ IsLimit(j) /\ orders[j].side = "SELL" /\ IsOpen(j)
      /\ p >= q
  BY DEF Meet
<1>2. p \in Prices /\ p \in InHeap("BUY") /\ Top("BUY") \in Prices /\ ~Better("BUY", p, Top("BUY"))
  BY <1>1, OpenIsInHeap
<1>3. q \in Prices /\ q \in InHeap("SELL") /\ Top("SELL") \in Prices /\ ~Better("SELL", q, Top("SELL"))
  BY <1>1, OpenIsInHeap
<1> HIDE DEF p, q
<1>4. \A x \in Prices : x \in Nat BY PricesAssumption
<1>5. Top("BUY") >= p /\ q >= Top("SELL") BY <1>2, <1>3, <1>4 DEF Better
<1>6. Top("BUY") >= Top("SELL") BY <1>1, <1>2, <1>3, <1>4, <1>5
<1> QED BY <1>2, <1>3, <1>6 DEF Crossed

\* The end of _match_limit_order keeps the invariant: the book is no longer crossed.
LEMMA EndLimitKeeps == ASSUME BookInv, EndLimit PROVE BookInv'
<1>1. BookType /\ LoopInv /\ CrossInv BY DEF BookInv
<1>2. /\ pc = "limit" /\ ~Crossed /\ pc' = "stops" /\ working' = 0
      /\ UNCHANGED <<now, orderVars, bookVars, stops, history, triggered>>
  BY DEF EndLimit
<1>3. LoopInv'
  <2>1. triggered' = <<>> /\ Range(triggered') = {} BY <1>1, <1>2 DEF LoopInv, Range
  <2> QED BY <1>2, <2>1 DEF LoopInv
<1>4. CrossInv'
  <2>1. \A i, j \in Received : ~Meet(i, j) BY <1>2, NobodyMeets
  <2>2. \A i, j : Meet(i, j)' <=> Meet(i, j) BY <1>2 DEF Meet, IsLimit, IsOpen, orderVars
  <2>3. Received' = Received BY <1>2 DEF Received, orderVars
  <2> QED BY <2>1, <2>2, <2>3 DEF CrossInv
<1>5. book' \in {book, LookedUp} /\ heap' = heap /\ now' \in Nat BY <1>1, <1>2 DEF bookVars, BookType
<1>6. working' \in Received \cup {0} /\ pc' \in {"idle", "market", "limit", "stops", "stop"} BY <1>2
<1> QED BY <1>2, <1>3, <1>4, <1>5, <1>6, BookAsItIs, QuieterKeeps DEF orderVars

\* What KeepOnly leaves of stop orders is of them and of the set.
LEMMA KeptOf ==
  ASSUME NEW S, NEW q \in Seq(S), NEW K
  PROVE  /\ KeepOnly(q, K) \in Seq(S) /\ Range(KeepOnly(q, K)) \subseteq Range(q)
         /\ Range(KeepOnly(q, K)) \subseteq K
<1>1. q \in Seq(Range(q)) /\ Range(q) \subseteq S
  <2>1. \A k \in 1 .. Len(q) : q[k] \in Range(q) /\ q[k] \in S BY DEF Range
  <2>2. Range(q) \subseteq S BY DEF Range
  <2> HIDE DEF Range
  <2> QED BY <2>1, <2>2
<1>2. KeepOnly(q, K) \in Seq(Range(q) \cap K) BY <1>1, KeepOnlyType
<1>3. Range(KeepOnly(q, K)) \subseteq Range(q) \cap K BY <1>2 DEF Range
<1>4. KeepOnly(q, K) \in Seq(S)
  <2>1. Range(q) \cap K \subseteq S BY <1>1
  <2> QED BY <1>2, <2>1, SeqMore
<1> QED BY <1>3, <1>4

\* A stop order that is executed is a market order from then on.
LEMMA ExecuteEffect ==
  ASSUME BookInv, NEW fired \in Seq(Received), fired # <<>>,
         \A i \in Range(fired) : ~IsLimit(i), Execute(fired)
  PROVE  /\ orders' \in Seq(Request) /\ Len(orders') = Len(orders)
         /\ \A i \in Received : /\ IsLimit(i)' <=> IsLimit(i)
                                /\ orders'[i] = orders[i] \/ (i = working' /\ ~IsLimit(i))
                                /\ orders'[i].quantity = orders[i].quantity
                                /\ orders'[i].side = orders[i].side
                                /\ orders'[i].agent = orders[i].agent
                                /\ orders'[i].group = orders[i].group
         /\ working' \in Received /\ working' # 0 /\ working' \in Range(fired)
         /\ orders'[working'].type = "MARKET" /\ orders'[working'].price = NoPrice
         /\ pc' = "stop"
         /\ triggered' \in Seq(Received) /\ Range(triggered') \subseteq Range(fired)
<1> DEFINE h == Head(fired)
           m == [[orders[h] EXCEPT !.type = "MARKET"] EXCEPT !.price = NoPrice]
<1>1. /\ pc' = "stop" /\ working' = h /\ triggered' = Tail(fired)
      /\ orders' = [orders EXCEPT ![h].type = "MARKET", ![h].price = NoPrice]
  BY DEF Execute
<1>2. BookType BY DEF BookInv
<1>3. h \in Received /\ h \in Range(fired) /\ Tail(fired) \in Seq(Received)
      /\ Range(Tail(fired)) \subseteq Range(fired)
  <2> HIDE DEF Received
  <2>1. Len(fired) \in Nat /\ 1 \in 1 .. Len(fired) /\ h = fired[1] /\ Tail(fired) \in Seq(Received)
        /\ Len(Tail(fired)) = Len(fired) - 1
        /\ \A k \in 1 .. Len(Tail(fired)) : Tail(fired)[k] = fired[k + 1]
    OBVIOUS
  <2>2. Range(Tail(fired)) \subseteq Range(fired)
    <3> SUFFICES ASSUME NEW k \in 1 .. Len(Tail(fired)) PROVE Tail(fired)[k] \in Range(fired)
      BY <2>1 DEF Range
    <3>1. k + 1 \in 1 .. Len(fired) BY <2>1
    <3> QED BY <2>1, <3>1 DEF Range
  <2> QED BY <2>1, <2>2 DEF Range
<1>4. Received = 1 .. Len(orders) /\ Len(orders) \in Nat /\ orders \in Seq(Request)
      /\ h # 0 /\ orders[h] \in Request
  BY <1>2, <1>3, OrderFacts DEF BookType
<1>5. m \in Request /\ m.type = "MARKET" /\ m.price = NoPrice
      /\ m.quantity = orders[h].quantity /\ m.side = orders[h].side
      /\ m.agent = orders[h].agent /\ m.group = orders[h].group
  BY <1>4 DEF Request, Types
<1>6. orders' = [orders EXCEPT ![h] = m]
  <2>1. orders' = [[orders EXCEPT ![h].type = "MARKET"] EXCEPT ![h].price = NoPrice] BY <1>1
  <2> QED BY <1>3, <1>4, <2>1
<1>7. ~IsLimit(h) BY <1>3
<1> HIDE DEF m, h, Request, Received
<1>8. orders' \in Seq(Request) /\ Len(orders') = Len(orders) BY <1>3, <1>4, <1>5, <1>6
<1>9. orders'[h] = m /\ \A i \in Received : i # h => orders'[i] = orders[i] BY <1>3, <1>4, <1>6
<1>10. ASSUME NEW i \in Received
       PROVE  /\ IsLimit(i)' <=> IsLimit(i)
              /\ orders'[i] = orders[i] \/ (i = working' /\ ~IsLimit(i))
              /\ orders'[i].quantity = orders[i].quantity
              /\ orders'[i].side = orders[i].side
              /\ orders'[i].agent = orders[i].agent
              /\ orders'[i].group = orders[i].group
  <2>1. CASE i = h BY <1>1, <1>5, <1>7, <1>9, <2>1 DEF IsLimit
  <2>2. CASE i # h BY <1>9, <2>2 DEF IsLimit
  <2> QED BY <2>1, <2>2
<1> QED BY <1>1, <1>3, <1>4, <1>5, <1>8, <1>9, <1>10

\* What the loop invariants become when stop orders are executed.
LEMMA ExecuteKeeps ==
  ASSUME BookInv, pc \in {"stops", "stop"}, NEW fired \in Seq(Received), fired # <<>>,
         \A i \in Range(fired) : ~IsLimit(i) /\ i \notin Range(stops'), Execute(fired),
         UNCHANGED <<now, times, remaining, status, heap, history>>, book' \in {book, LookedUp},
         byId' \subseteq byId, \A i \in byId \ byId' : ~IsLimit(i) /\ i \notin Range(stops'),
         stops' \in Seq(Received), Range(stops') \subseteq Range(stops)
  PROVE  BookInv'
<1>1. BookType /\ LoopInv /\ CrossInv BY DEF BookInv
<1>2. \A i \in Range(fired) : ~IsLimit(i) OBVIOUS
<1>3. /\ orders' \in Seq(Request) /\ Len(orders') = Len(orders)
      /\ \A i \in Received : /\ IsLimit(i)' <=> IsLimit(i)
                             /\ orders'[i] = orders[i] \/ (i = working' /\ ~IsLimit(i))
                             /\ orders'[i].quantity = orders[i].quantity
      /\ working' \in Received /\ working' # 0 /\ working' \in Range(fired)
      /\ orders'[working'].type = "MARKET" /\ pc' = "stop"
      /\ triggered' \in Seq(Received) /\ Range(triggered') \subseteq Range(fired)
  BY <1>2, ExecuteEffect
<1>4. Received' = Received BY <1>1, <1>3, OrderFacts DEF Received
<1>5. Range(fired) \subseteq Received BY DEF Range
<1>6. Range(stops') \subseteq Received BY <1>1 DEF BookType, Range
<1> HIDE DEF Received
<1>7. LoopInv'
  <2>1. \A i \in Range(triggered') : ~IsLimit(i)' /\ i \notin Range(stops') BY <1>3, <1>5
  <2> QED BY <1>3, <2>1 DEF LoopInv
<1>8. CrossInv'
  <2> SUFFICES ASSUME NEW i \in Received, NEW j \in Received, Meet(i, j)' PROVE FALSE
    BY <1>4 DEF CrossInv
  <2>1. Meet(i, j)
    <3>1. IsLimit(i) /\ IsLimit(j) BY <1>3 DEF Meet
    <3>2. orders'[i] = orders[i] /\ orders'[j] = orders[j] BY <1>3, <3>1
    <3> QED BY <3>1, <3>2 DEF Meet, IsOpen
  <2>2. pc # "limit" OBVIOUS
  <2> QED BY <1>1, <2>1, <2>2 DEF CrossInv
<1>9. \A i \in Range(stops') : orders'[i] = orders[i] BY <1>3, <1>6
<1>10. \A i \in Received : IsLimit(i) => orders'[i] = orders[i] BY <1>3
<1>11. now' \in Nat BY <1>1 DEF BookType
<1>12. /\ DOMAIN book' = Sides /\ \A s \in Sides : DOMAIN book'[s] \subseteq Prices
       /\ heap' \in [Sides -> [Prices -> Nat]] /\ HeapInv'
       /\ \A s \in Sides : \A p \in Prices : Queue(s, p)' = Queue(s, p)
  BY BookAsItIs
<1> QED BY <1>3, <1>7, <1>8, <1>9, <1>10, <1>11, <1>12, QuietKeeps

\* _check_stop_triggers keeps the invariant: the orders it fires leave the list of stop orders.
LEMMA CheckStopsKeeps == ASSUME BookInv, CheckStops PROVE BookInv'
<1> DEFINE fires == {i \in Range(stops) : ~NoMarket /\ Reached(i, MarketPrice)}
           fired == KeepOnly(stops, fires)
<1>1. BookType /\ LoopInv /\ CrossInv /\ KnownInv BY DEF BookInv
<1>2. /\ pc = "stops"
      /\ book' = IF stops = <<>> THEN book ELSE LookedUp
      /\ stops' = KeepOnly(stops, Received \ fires)
      /\ \/ fired = <<>> /\ pc' = "idle" /\ UNCHANGED <<orders, working, triggered>>
         \/ fired # <<>> /\ Execute(fired)
      /\ UNCHANGED <<now, times, remaining, status, byId, heap, history>>
  BY DEF CheckStops
<1>3. stops \in Seq(Received) BY <1>1 DEF BookType
<1> HIDE DEF fires, Received
<1>4. /\ fired \in Seq(Received) /\ Range(fired) \subseteq Range(stops) /\ Range(fired) \subseteq fires
  BY <1>3, KeptOf
<1>5. /\ stops' \in Seq(Received) /\ Range(stops') \subseteq Range(stops)
      /\ Range(stops') \subseteq Received \ fires
  BY <1>2, <1>3, KeptOf
<1> HIDE DEF fired
<1>6. book' \in {book, LookedUp} BY <1>2
<1>7. CASE fired = <<>> /\ pc' = "idle" /\ UNCHANGED <<orders, working, triggered>>
  <2>1. triggered = <<>> BY <1>1, <1>2 DEF LoopInv
  <2>2. LoopInv'
    <3>1. Range(triggered') = {} BY <1>7, <2>1 DEF Range
    <3> QED BY <1>1, <1>2, <1>7, <2>1, <3>1 DEF LoopInv
  <2>3. CrossInv'
    BY <1>1, <1>2, <1>7 DEF CrossInv, Meet, IsLimit, IsOpen, Received
  <2>4. /\ DOMAIN book' = Sides /\ \A s \in Sides : DOMAIN book'[s] \subseteq Prices
        /\ heap' \in [Sides -> [Prices -> Nat]] /\ HeapInv'
        /\ \A s \in Sides : \A p \in Prices : Queue(s, p)' = Queue(s, p)
    BY <1>2, <1>6, BookAsItIs
  <2>5. orders' \in Seq(Request) /\ Len(orders') = Len(orders) /\ now' \in Nat
        /\ triggered' \in Seq(Received) /\ working' \in Received \cup {0}
    BY <1>1, <1>2, <1>7 DEF BookType
  <2>6. \A i \in Received : IsLimit(i)' <=> IsLimit(i) BY <1>7 DEF IsLimit
  <2> QED BY <1>2, <1>5, <1>7, <2>2, <2>3, <2>4, <2>5, <2>6, QuietKeeps
<1>8. CASE fired # <<>> /\ Execute(fired)
  <2>1. \A i \in Range(fired) : ~IsLimit(i) /\ i \notin Range(stops')
    BY <1>1, <1>4, <1>5 DEF KnownInv, IsLimit
  <2> QED BY <1>2, <1>4, <1>5, <1>6, <1>8, <2>1, ExecuteKeeps
<1> QED BY <1>2, <1>7, <1>8

\* The end of a fired stop order keeps the invariant.
LEMMA EndStopKeeps == ASSUME BookInv, EndStop PROVE BookInv'
<1>1. BookType /\ LoopInv /\ CrossInv /\ KnownInv BY DEF BookInv
<1>2. /\ pc = "stop"
      /\ byId' = IF remaining[working] = 0 THEN byId \ {working} ELSE byId
      /\ \/ triggered = <<>> /\ pc' = "stops" /\ working' = 0 /\ UNCHANGED <<orders, triggered>>
         \/ triggered # <<>> /\ Execute(triggered)
      /\ UNCHANGED <<now, times, remaining, status, bookVars, stops, history>>
  BY DEF EndStop
<1>3. ~IsLimit(working) /\ working \notin Range(stops)
  BY <1>1, <1>2 DEF LoopInv, KnownInv, IsLimit
<1>4. byId' \subseteq byId /\ \A i \in byId \ byId' : ~IsLimit(i) /\ i \notin Range(stops')
  BY <1>2, <1>3
<1>5. book' \in {book, LookedUp} /\ heap' = heap BY <1>2 DEF bookVars
<1>6. stops' \in Seq(Received) /\ Range(stops') \subseteq Range(stops) /\ triggered \in Seq(Received)
  BY <1>1, <1>2 DEF BookType
<1> HIDE DEF Received
<1>7. CASE triggered = <<>> /\ pc' = "stops" /\ working' = 0 /\ UNCHANGED <<orders, triggered>>
  <2>2. LoopInv'
    <3>1. Range(triggered') = {} BY <1>7 DEF Range
    <3> QED BY <1>7, <3>1 DEF LoopInv
  <2>3. CrossInv'
    BY <1>1, <1>2, <1>7 DEF CrossInv, Meet, IsLimit, IsOpen, Received
  <2>4. /\ DOMAIN book' = Sides /\ \A s \in Sides : DOMAIN book'[s] \subseteq Prices
        /\ heap' \in [Sides -> [Prices -> Nat]] /\ HeapInv'
        /\ \A s \in Sides : \A p \in Prices : Queue(s, p)' = Queue(s, p)
    BY <1>5, BookAsItIs
  <2>5. orders' \in Seq(Request) /\ Len(orders') = Len(orders) /\ now' \in Nat
        /\ triggered' \in Seq(Received) /\ working' \in Received \cup {0}
    BY <1>1, <1>2, <1>7 DEF BookType
  <2>6. \A i \in Received : IsLimit(i)' <=> IsLimit(i) BY <1>7 DEF IsLimit
  <2>7. \A i \in Range(stops') : orders'[i] = orders[i] BY <1>7
  <2>8. pc' \in {"idle", "market", "limit", "stops", "stop"} BY <1>7
  <2>9. \A i \in Received : IsLimit(i) => orders'[i] = orders[i] BY <1>7
  <2> QED BY <1>2, <1>4, <1>6, <1>7, <2>2, <2>3, <2>4, <2>5, <2>6, <2>7, <2>8, <2>9, QuietKeeps
<1>8. CASE triggered # <<>> /\ Execute(triggered)
  <2>1. \A i \in Range(triggered) : ~IsLimit(i) /\ i \notin Range(stops')
    BY <1>1, <1>2 DEF LoopInv
  <2> QED BY <1>2, <1>4, <1>5, <1>6, <1>8, <2>1, ExecuteKeeps
<1> QED BY <1>2, <1>7, <1>8

\* A quote keeps the invariant.
LEMMA QuoteKeeps == ASSUME BookInv, Quote PROVE BookInv'
<1>1. BookType BY DEF BookInv
<1>2. book' \in {book, LookedUp} /\ heap' = heap
      /\ UNCHANGED <<now, orderVars, stops, history, loopVars>>
  BY DEF Quote
<1>3. LoopInv' /\ CrossInv' /\ working' \in Received \cup {0}
      /\ pc' \in {"idle", "market", "limit", "stops", "stop"}
  BY <1>2, SameLoop DEF orderVars
<1>4. now' \in Nat BY <1>1, <1>2 DEF BookType
<1> QED BY <1>2, <1>3, <1>4, BookAsItIs, QuieterKeeps DEF orderVars, loopVars

\* The passing of time keeps the invariant.
LEMMA NewTimeKeeps == ASSUME BookInv, NewTime PROVE BookInv'
<1>1. BookType BY DEF BookInv
<1>2. book' \in {book, LookedUp} /\ heap' = heap /\ now' = now + 1
      /\ UNCHANGED <<orderVars, stops, history, loopVars>>
  BY DEF NewTime, bookVars
<1>3. LoopInv' /\ CrossInv' /\ working' \in Received \cup {0}
      /\ pc' \in {"idle", "market", "limit", "stops", "stop"}
  BY <1>2, SameLoop DEF orderVars
<1>4. now' \in Nat BY <1>1, <1>2 DEF BookType
<1> QED BY <1>2, <1>3, <1>4, BookAsItIs, QuieterKeeps DEF orderVars, loopVars

\* A canceled order goes from its queue or from the stop orders.
LEMMA CancelKeeps ==
  ASSUME BookInv, NEW i \in Received, Cancelled(i),
         DOMAIN book' = Sides, \A s \in Sides : DOMAIN book'[s] \subseteq Prices,
         heap' \in [Sides -> [Prices -> Nat]], HeapInv',
         \A s \in Sides : \A p \in Prices : Lists(Queue(s, p)', OpenAt(s, p) \ {i}),
         stops' \in Seq(Received), Range(stops') \subseteq Range(stops) \ {i}
  PROVE  BookInv'
<1>1. BookType /\ KnownInv /\ LoopInv /\ CrossInv /\ FilledInv /\ TradesAddUp BY DEF BookInv
<1>2. /\ pc = "idle" /\ i \in byId /\ status[i] \notin {"FILLED", "CANCELED"}
      /\ status' = [status EXCEPT ![i] = "CANCELED"] /\ byId' = byId \ {i}
      /\ UNCHANGED <<now, orders, times, remaining, history, pc, working, triggered>>
  BY DEF Cancelled, loopVars
<1>3. /\ Received = 1 .. Len(orders) /\ Len(orders) \in Nat /\ Received' = Received
      /\ status \in Seq(Statuses) /\ Len(status) = Len(orders)
  BY <1>1, <1>2, OrderFacts DEF BookType, Received
<1>4. "CANCELED" \in Statuses BY DEF Statuses
<1> HIDE DEF Received, Statuses
<1>5. /\ status' \in Seq(Statuses) /\ Len(status') = Len(orders) /\ status'[i] = "CANCELED"
      /\ \A j \in Received : j # i => status'[j] = status[j]
  BY <1>2, <1>3, <1>4
<1>6. \A j : IsLimit(j)' <=> IsLimit(j) BY <1>2 DEF IsLimit
<1>7. \A j \in Received : IsOpen(j)' <=> IsOpen(j) /\ j # i BY <1>2, <1>5 DEF IsOpen
<1>8. ASSUME NEW s, NEW p PROVE OpenAt(s, p)' = OpenAt(s, p) \ {i}
  BY <1>2, <1>3, <1>7 DEF OpenAt
<1>9. QueueInv' BY <1>8 DEF QueueInv
<1>10. BookType'
  <2>1. history' \in Seq(TradeRecord')
    <3>1. TradeRecord' = TradeRecord BY <1>3 DEF TradeRecord
    <3> HIDE DEF TradeRecord
    <3> QED BY <1>1, <1>2, <3>1 DEF BookType
  <2>2. byId' \subseteq Received' /\ stops' \in Seq(Received') /\ triggered' \in Seq(Received')
        /\ working' \in Received' \cup {0}
    BY <1>1, <1>2, <1>3 DEF BookType
  <2>3. /\ now' \in Nat /\ orders' \in Seq(Request) /\ times' \in Seq(Nat) /\ remaining' \in Seq(Int)
        /\ Len(times') = Len(orders') /\ Len(remaining') = Len(orders')
        /\ pc' \in {"idle", "market", "limit", "stops", "stop"}
        /\ \A j \in Received' : orders'[j].type = "LIMIT" => orders'[j].price \in Prices
    BY <1>1, <1>2, <1>3 DEF BookType
  <2> HIDE DEF TradeRecord
  <2> QED BY <1>2, <1>5, <2>1, <2>2, <2>3 DEF BookType
<1>11. KnownInv'
  <2>1. \A j \in Received' : IsLimit(j)' /\ IsOpen(j)' => j \in byId'
    BY <1>1, <1>2, <1>3, <1>6, <1>7 DEF KnownInv
  <2>2. Range(stops) \subseteq Received BY <1>1 DEF BookType, Range
  <2>3. \A j \in Range(stops') : orders'[j].type = "STOP" /\ (status'[j] = "ACTIVE" => j \in byId')
    BY <1>1, <1>2, <1>5, <2>2 DEF KnownInv
  <2> QED BY <2>1, <2>3 DEF KnownInv
<1>12. LoopInv'
  <2>1. Range(triggered') = {}
    <3>1. triggered' = <<>> BY <1>1, <1>2 DEF LoopInv
    <3> QED BY <3>1 DEF Range
  <2> QED BY <1>1, <1>2, <2>1 DEF LoopInv
<1>13. CrossInv'
  <2>1. \A j, k \in Received : ~Meet(j, k) BY <1>1, <1>2 DEF CrossInv
  <2>2. \A j, k \in Received : Meet(j, k)' => Meet(j, k) BY <1>2, <1>6, <1>7 DEF Meet
  <2> QED BY <1>3, <2>1, <2>2 DEF CrossInv
<1>14. FilledInv' /\ TradesAddUp'
  <2>1. \A j \in Received : status'[j] = "FILLED" => remaining'[j] = 0
    BY <1>1, <1>2, <1>5 DEF FilledInv
  <2>2. FilledInv' BY <1>1, <1>2, <1>3, <2>1 DEF FilledInv
  <2>3. TradesAddUp' BY ZenonT(60), <1>1, <1>2, <1>3 DEF TradesAddUp, Fills
  <2> QED BY <2>2, <2>3
<1> QED BY <1>9, <1>10, <1>11, <1>12, <1>13, <1>14 DEF BookInv

\* Canceling a stop order keeps the invariant.
LEMMA CancelStopKeeps == ASSUME BookInv, NEW i \in Received, CancelStop(i) PROVE BookInv'
<1>1. BookType /\ HeapInv /\ QueueInv /\ KnownInv BY DEF BookInv
<1>2. i \in Range(stops) /\ Cancelled(i) /\ stops' = KeepOnly(stops, Received \ {i})
      /\ UNCHANGED <<book, heap>>
  BY DEF CancelStop, bookVars
<1>3. stops' \in Seq(Received) /\ Range(stops') \subseteq Range(stops) \ {i}
  <2>1. stops \in Seq(Received) BY <1>1 DEF BookType
  <2> HIDE DEF Received
  <2> QED BY <1>2, <2>1, KeptOf
<1>4. /\ DOMAIN book' = Sides /\ \A s \in Sides : DOMAIN book'[s] \subseteq Prices
      /\ heap' \in [Sides -> [Prices -> Nat]] /\ HeapInv'
  BY <1>1, <1>2 DEF BookType, HeapInv
<1>5. \A s \in Sides : \A p \in Prices : Lists(Queue(s, p)', OpenAt(s, p) \ {i})
  <2> SUFFICES ASSUME NEW s \in Sides, NEW p \in Prices
               PROVE  Lists(Queue(s, p)', OpenAt(s, p) \ {i})
    OBVIOUS
  <2>1. orders[i].type = "STOP" BY <1>1, <1>2 DEF KnownInv
  <2>2. OpenAt(s, p) \ {i} = OpenAt(s, p) BY <2>1 DEF OpenAt
  <2>3. Queue(s, p)' = Queue(s, p) BY <1>2 DEF Queue
  <2> QED BY <1>1, <2>2, <2>3 DEF QueueInv
<1> QED BY <1>2, <1>3, <1>4, <1>5, CancelKeeps

\* Canceling a limit order keeps the invariant.
LEMMA CancelLimitKeeps == ASSUME BookInv, NEW i \in Received, CancelLimit(i) PROVE BookInv'
<1> DEFINE s == orders[i].side
           price == orders[i].price
           rest == KeepOnly(Queue(s, price), Received \ {i})
<1>1. BookType /\ HeapInv /\ QueueInv BY DEF BookInv
<1>2. /\ i \notin Range(stops) /\ i \in Range(Queue(s, price)) /\ Cancelled(i)
      /\ book' = [book EXCEPT ![s] = WithQueue(@, price, rest)]
      /\ heap' = IF rest # <<>> THEN heap
                 ELSE [heap EXCEPT ![s] = HeapWithoutEmptyTops(@, book'[s], s)]
      /\ stops' = stops
  BY DEF CancelLimit
<1>3. s \in Sides BY <1>1, OrderFacts
<1>4. /\ DOMAIN book = Sides /\ (\A t \in Sides : DOMAIN book[t] \subseteq Prices)
      /\ heap \in [Sides -> [Prices -> Nat]] /\ Received \in SUBSET Nat
      /\ stops \in Seq(Received)
  BY <1>1, OrderFacts DEF BookType
<1>5. Range(stops) \subseteq Range(stops) \ {i} BY <1>2
<1> HIDE DEF s, price, Received
<1>6. price \in DOMAIN book[s] /\ price \in Prices
  <2>1. price \in DOMAIN book[s] BY <1>2 DEF Queue, Range
  <2> QED BY <1>3, <1>4, <2>1
<1>7. Lists(Queue(s, price), OpenAt(s, price)) BY <1>1, <1>3, <1>6 DEF QueueInv
<1>8. i \in OpenAt(s, price) /\ OpenAt(s, price) \in SUBSET Nat /\ OpenAt(s, price) \subseteq Received
  <2>1. OpenAt(s, price) \subseteq Received BY DEF OpenAt
  <2>2. Queue(s, price) \in Seq(OpenAt(s, price)) BY <1>7 DEF Lists
  <2>3. i \in OpenAt(s, price) BY <1>2, <2>2 DEF Range
  <2> QED BY <1>4, <2>1, <2>3
<1>9. Lists(rest, OpenAt(s, price) \ {i})
  <2>1. Lists(rest, OpenAt(s, price) \cap (Received \ {i})) BY <1>7, <1>8, ListsKept
  <2>2. OpenAt(s, price) \cap (Received \ {i}) = OpenAt(s, price) \ {i} BY <1>8
  <2> QED BY <2>1, <2>2
<1> HIDE DEF rest
<1>10. /\ book'[s] = WithQueue(book[s], price, rest) /\ DOMAIN book' = Sides
       /\ \A t \in Sides : t # s => book'[t] = book[t] /\ heap'[t] = heap[t]
  BY <1>2, <1>3, <1>4
<1>11. LevelsFit(book[s], heap[s]) BY <1>1, <1>3, <1>4 DEF HeapInv, LevelsFit
<1>12. heap[s][price] > 0 BY <1>6, <1>11 DEF LevelsFit
<1>13. IsLeft(book'[s], book[s], price, rest) /\ DOMAIN book'[s] \subseteq DOMAIN book[s]
  <2>1. IsLeft(book'[s], book[s], price, rest) BY <1>6, <1>10, <1>11, <1>12, LevelLeft
  <2>2. DOMAIN book'[s] \subseteq DOMAIN book[s] BY <1>6, <1>10 DEF WithQueue, Restrict
  <2> QED BY <2>1, <2>2
<1>14. heap'[s] \in [Prices -> Nat] /\ \A p \in DOMAIN book'[s] : heap'[s][p] > 0
  <2>1. heap[s] \in [Prices -> Nat] /\ \A p \in DOMAIN book'[s] : p \in Prices /\ heap[s][p] > 0
    BY <1>11, <1>13 DEF LevelsFit
  <2>2. CASE rest # <<>> BY <1>2, <2>1, <2>2
  <2>3. CASE rest = <<>>
    <3>1. heap'[s] = HeapWithoutEmptyTops(heap[s], book'[s], s) BY <1>2, <1>3, <1>4, <2>3
    <3>2. \A p \in Prices : ~Better(s, p, p) BY PricesAssumption DEF Better
    <3>3. heap'[s] \in [Prices -> Nat] BY <2>1, <3>1 DEF HeapWithoutEmptyTops
    <3>4. ASSUME NEW p \in DOMAIN book'[s] PROVE heap'[s][p] = heap[s][p]
      BY <2>1, <3>1, <3>2 DEF HeapWithoutEmptyTops
    <3> QED BY <2>1, <3>3, <3>4
  <2> QED BY <2>2, <2>3
<1>15. heap' \in [Sides -> [Prices -> Nat]]
  <2>1. heap' = [t \in Sides |-> heap'[t]] BY <1>2, <1>4
  <2>2. \A t \in Sides : heap'[t] \in [Prices -> Nat] BY <1>4, <1>10, <1>14
  <2> QED BY <2>1, <2>2
<1>16. HeapInv' /\ \A t \in Sides : DOMAIN book'[t] \subseteq Prices
  <2>1. \A t \in Sides : t # s => \A p \in DOMAIN book'[t] : heap'[t][p] > 0
    BY <1>1, <1>10 DEF HeapInv
  <2>2. HeapInv' BY <1>14, <2>1 DEF HeapInv
  <2> QED BY <1>3, <1>4, <1>10, <1>13, <2>2
<1>17. ASSUME NEW t \in Sides, NEW p \in Prices PROVE Lists(Queue(t, p)', OpenAt(t, p) \ {i})
  <2>1. CASE t = s /\ p = price
    <3>1. Queue(t, p)' = rest BY <1>13, <2>1 DEF Queue, IsLeft
    <3> QED BY <1>9, <2>1, <3>1
  <2>2. CASE ~(t = s /\ p = price)
    <3>1. Queue(t, p)' = Queue(t, p)
      <4>1. CASE t # s BY <1>10, <4>1 DEF Queue
      <4>2. CASE t = s BY <1>13, <2>2, <4>2 DEF Queue, IsLeft
      <4> QED BY <4>1, <4>2
    <3>2. i \notin OpenAt(t, p) BY <2>2 DEF OpenAt, s, price
    <3>3. OpenAt(t, p) \ {i} = OpenAt(t, p) BY <3>2
    <3> QED BY <1>1, <3>1, <3>3 DEF QueueInv
  <2> QED BY <2>1, <2>2
<1> QED BY <1>2, <1>4, <1>5, <1>10, <1>15, <1>16, <1>17, CancelKeeps

-----------------------------------------------------------------------------
(* The invariant holds, and what follows from it.                          *)

\* A step that leaves the book alone keeps the invariant.
LEMMA BookStays == ASSUME BookInv, UNCHANGED vars PROVE BookInv'
<1>1. UNCHANGED <<now, orderVars, stops, history, loopVars>> /\ book' \in {book, LookedUp} /\ heap' = heap
  BY DEF vars, bookVars
<1>2. LoopInv' /\ CrossInv' /\ working' \in Received \cup {0}
      /\ pc' \in {"idle", "market", "limit", "stops", "stop"}
  BY <1>1, SameLoop DEF orderVars
<1>3. now' \in Nat BY <1>1 DEF BookType, BookInv
<1> QED BY <1>1, <1>2, <1>3, BookAsItIs, QuieterKeeps DEF orderVars, loopVars

\* The empty book has the invariant.
LEMMA BookStarts == ASSUME Init PROVE BookInv
<1>1. /\ now = 1 /\ orders = <<>> /\ times = <<>> /\ remaining = <<>> /\ status = <<>> /\ byId = {}
      /\ book = [s \in Sides |-> <<>>] /\ heap = [s \in Sides |-> [p \in Prices |-> 0]]
      /\ stops = <<>> /\ history = <<>> /\ pc = "idle" /\ working = 0 /\ triggered = <<>>
  BY DEF Init
<1>2. Received = {} BY <1>1 DEF Received
<1>3. BookType
  <2>1. history \in Seq(TradeRecord) BY <1>1
  <2>2. \A s \in Sides : DOMAIN book[s] \subseteq Prices BY <1>1
  <2> HIDE DEF TradeRecord, Received, Sides
  <2> QED BY <1>1, <1>2, <2>1, <2>2 DEF BookType
<1>4. HeapInv BY <1>1 DEF HeapInv
<1>5. QueueInv
  <2> SUFFICES ASSUME NEW s \in Sides, NEW p \in Prices PROVE Lists(Queue(s, p), OpenAt(s, p))
    BY DEF QueueInv
  <2>1. Queue(s, p) = <<>> BY <1>1 DEF Queue
  <2>2. OpenAt(s, p) = {} BY <1>2 DEF OpenAt
  <2> QED BY <2>1, <2>2, NothingListed
<1>6. KnownInv /\ LoopInv BY <1>1, <1>2 DEF KnownInv, LoopInv, Range
<1>7. CrossInv /\ FilledInv /\ TradesAddUp BY <1>1, <1>2 DEF CrossInv, FilledInv, TradesAddUp
<1> QED BY <1>3, <1>4, <1>5, <1>6, <1>7 DEF BookInv

\* Every step of the book keeps the invariant.
LEMMA BookStep == ASSUME BookInv, [Next]_vars PROVE BookInv'
<1>1. ASSUME NEW r \in Requests, AddOrder(r) PROVE BookInv' BY <1>1, AddOrderKeeps
<1>2. ASSUME NEW i \in Received, CancelOrder(i) PROVE BookInv'
  BY <1>2, CancelStopKeeps, CancelLimitKeeps DEF CancelOrder
<1>3. ASSUME Matching PROVE BookInv'
  BY <1>3, MatchMarketKeeps, SkipEmptyLevelKeeps, EndMarketKeeps, MatchLimitKeeps,
     DropCrossedLevelKeeps, EndLimitKeeps, CheckStopsKeeps, EndStopKeeps DEF Matching
<1>4. ASSUME Quote PROVE BookInv' BY <1>4, QuoteKeeps
<1>5. ASSUME NewTime PROVE BookInv' BY <1>5, NewTimeKeeps
<1>6. ASSUME UNCHANGED vars PROVE BookInv' BY <1>6, BookStays
<1> QED BY <1>1, <1>2, <1>3, <1>4, <1>5, <1>6 DEF Next

\* A step of the exchange is one of its book, or leaves the book alone.
LEMMA ExchangeStep == ASSUME ExchangeNext \/ UNCHANGED allVars PROVE [Next]_vars
<1>1. ASSUME NEW r \in Requests, HandleOrderSubmission(r) PROVE Next
  BY <1>1 DEF HandleOrderSubmission, Next
<1>2. ASSUME NEW i \in Received, HandleCancelOrder(i) PROVE Next
  BY <1>2 DEF HandleCancelOrder, Next
<1>3. ASSUME HandleSnapshotRequest PROVE Next BY <1>3 DEF HandleSnapshotRequest, Next
<1>4. ASSUME MatchOn PROVE Next BY <1>4 DEF MatchOn, Next
<1>5. ASSUME StartTick PROVE Next
  <2>1. NewTime BY <1>5 DEF StartTick, NewTime
  <2> QED BY <2>1 DEF Next
<1>6. ASSUME HandleTimeTick PROVE [Next]_vars
  <2>1. ASSUME NEW j \in Received, CancelSibling(j) PROVE Next BY <2>1 DEF CancelSibling, Next
  <2>2. ASSUME TellSeller \/ EndTelling \/ NextTrade \/ NotifyRaises \/ AnswerTick PROVE UNCHANGED vars
    BY <2>2 DEF TellSeller, EndTelling, NextTrade, NotifyRaises, AnswerTick
  <2>3. ASSUME NEW s, Notify(s) PROVE UNCHANGED vars BY <2>3 DEF Notify
  <2> QED BY <1>6, <2>1, <2>2, <2>3 DEF HandleTimeTick
<1>7. ASSUME UNCHANGED allVars \/ \E s \in Comers : Resubscribe(s) PROVE UNCHANGED vars
  BY <1>7 DEF allVars, Resubscribe
<1> QED BY <1>1, <1>2, <1>3, <1>4, <1>5, <1>6, <1>7 DEF ExchangeNext

\* BookInv is an invariant of the book on its own, whoever calls it.
THEOREM BookInductive == Spec => []BookInv
<1>1. Init => BookInv BY BookStarts
<1>2. BookInv /\ [Next]_vars => BookInv' BY BookStep
<1> QED BY <1>1, <1>2, PTL DEF Spec

\* It is one of the exchange that drives the book, too: what the exchange does to the book are
\* the book's own steps.
LEMMA ExchangeBook == ExchangeSpec => []BookInv
<1>1. ExchangeInit => BookInv BY BookStarts DEF ExchangeInit
<1>2. BookInv /\ [ExchangeNext]_allVars => BookInv' BY BookStep, ExchangeStep
<1> QED BY <1>1, <1>2, PTL DEF ExchangeSpec

\* The invariant implies the two properties of the book's state.
LEMMA BookInvHolds == ASSUME BookInv PROVE BookHoldsOpenOrders /\ NotCrossed
<1>1. BookType /\ HeapInv /\ QueueInv /\ KnownInv /\ CrossInv BY DEF BookInv
<1>2. ASSUME NEW s \in Sides, NEW i \in Received, orders[i].type = "LIMIT", orders[i].side = s, IsOpen(i)
      PROVE  i \in byId /\ i \in Range(Queue(s, orders[i].price))
  <2>1. IsLimit(i) BY <1>2 DEF IsLimit
  <2>2. i \in byId BY <1>1, <1>2, <2>1 DEF KnownInv
  <2>3. i \in Range(Queue(s, orders[i].price)) BY <1>2, <2>1, OpenIsInHeap
  <2> QED BY <2>2, <2>3
<1>3. ASSUME NEW s \in Sides, NEW p \in DOMAIN book[s]
      PROVE  /\ book[s][p] # <<>> => heap[s][p] > 0
             /\ \A k \in DOMAIN book[s][p] :
                  LET i == book[s][p][k]
                  IN  /\ orders[i].type = "LIMIT" /\ orders[i].side = s /\ orders[i].price = p
                      /\ IsOpen(i)
                      /\ k > 1 => book[s][p][k - 1] < i
  <2>1. heap[s][p] > 0 /\ p \in Prices BY <1>1 DEF HeapInv, BookType
  <2>2. PICK q : q = book[s][p] OBVIOUS
  <2>3. Lists(q, OpenAt(s, p)) BY <1>1, <2>1, <2>2 DEF QueueInv, Queue
  <2>4. q \in Seq(OpenAt(s, p)) /\ Ascending(q) BY <2>3 DEF Lists
  <2>5. ASSUME NEW k \in DOMAIN q
        PROVE  /\ orders[q[k]].type = "LIMIT" /\ orders[q[k]].side = s /\ orders[q[k]].price = p
               /\ IsOpen(q[k]) /\ (k > 1 => q[k - 1] < q[k])
    <3>1. k \in 1 .. Len(q) /\ q[k] \in OpenAt(s, p) BY <2>4
    <3>2. k > 1 => q[k - 1] < q[k]
      <4>1. k > 1 => k - 1 \in 1 .. Len(q) /\ k - 1 < k BY <3>1
      <4> QED BY <2>4, <3>1, <4>1 DEF Ascending
    <3> QED BY <3>1, <3>2 DEF OpenAt
  <2> QED BY <2>1, <2>2, <2>5
<1>4. BookHoldsOpenOrders BY <1>2, <1>3 DEF BookHoldsOpenOrders
<1>5. NotCrossed
  <2> SUFFICES ASSUME pc = "idle", NEW i \in Received, NEW j \in Received,
                      orders[i].type = "LIMIT", orders[i].side = "BUY", IsOpen(i),
                      orders[j].type = "LIMIT", orders[j].side = "SELL", IsOpen(j)
               PROVE  orders[i].price < orders[j].price
    BY DEF NotCrossed
  <2>1. ~Meet(i, j) BY <1>1 DEF CrossInv
  <2>2. ~(orders[i].price >= orders[j].price) BY <2>1 DEF Meet, IsLimit
  <2>3. orders[i].price \in Prices /\ orders[j].price \in Prices
    BY <1>1, OrderFacts DEF IsLimit
  <2>4. \A p \in Prices : p \in Nat BY PricesAssumption
  <2>5. orders[i].price \in Nat /\ orders[j].price \in Nat BY <2>3, <2>4
  <2> QED BY <2>2, <2>5
<1> QED BY <1>4, <1>5

\* Between two calls every open limit order stands in the queue of its price, by its age, with a
\* level in the heap, and nothing else stands there (OrderBook.add_order, the loops that match,
\* cancel_order).
THEOREM OpenOrdersAreHeld == ExchangeSpec => []BookHoldsOpenOrders
BY ExchangeBook, BookInvHolds, PTL

\* What an order has left and what it traded add up to its quantity: no match loses or makes
\* shares (OrderBook.record_trade, Order.fill and the loops that call them).
THEOREM NothingIsMadeOrLost == ExchangeSpec => []TradesAddUp
<1>1. BookInv => TradesAddUp BY DEF BookInv
<1> QED BY <1>1, ExchangeBook, PTL

\* Between two calls no bid is at or above an ask (OrderBook._match_limit_order).
THEOREM BookIsNotCrossed == ExchangeSpec => []NotCrossed
BY ExchangeBook, BookInvHolds, PTL

-----------------------------------------------------------------------------
(* The check of the stop orders.                                           *)

\* When _check_stop_triggers fires nothing, no stop order is left that the market has reached.
LEMMA CheckSettles ==
  ASSUME BookInv, CheckStops, pc' = "idle", ~NoMarket, NEW i \in Range(stops')
  PROVE  ~Reached(i, MarketPrice)
<1> DEFINE fires == {j \in Range(stops) : ~NoMarket /\ Reached(j, MarketPrice)}
<1>1. stops' = KeepOnly(stops, Received \ fires) /\ stops \in Seq(Received)
  BY DEF CheckStops, BookInv, BookType
<1>2. i \in Range(stops) /\ i \notin fires
  <2> HIDE DEF fires, Received
  <2> QED BY <1>1, KeptOf
<1> QED BY <1>2

\* A call that ends in its check of the stop orders leaves none that the market price has
\* reached (OrderBook._check_stop_triggers).
THEOREM StopsAreSettled == ExchangeSpec => StopsSettled
<1>1. ASSUME BookInv, ExchangeNext \/ UNCHANGED allVars, pc' = "idle", pc \in {"stops", "stop"}, ~NoMarket,
             NEW i \in Range(stops')
      PROVE  ~Reached(i, MarketPrice)
  <2>1. Next \/ UNCHANGED vars BY <1>1, ExchangeStep
  <2>2. CheckStops
    BY <1>1, <2>1 DEF Next, Matching, AddOrder, CancelOrder, CancelStop, CancelLimit, Cancelled, Quote,
       NewTime, MatchMarket, SkipEmptyLevel, EndMarket, MatchLimit, DropCrossedLevel, EndLimit, EndStop,
       Execute, loopVars, vars, Takes
  <2> QED BY <1>1, <2>2, CheckSettles
<1>2. BookInv /\ [ExchangeNext]_allVars =>
        [pc' = "idle" /\ pc \in {"stops", "stop"} /\ ~NoMarket =>
           \A i \in Range(stops') : ~Reached(i, MarketPrice)]_vars
  BY <1>1
<1> QED BY <1>2, ExchangeBook, PTL DEF ExchangeSpec, StopsSettled

-----------------------------------------------------------------------------
(* The book as PriceTimeBook sees it.                                      *)

\* The values that OrderBook substitutes for its variables.
SidesOf == [i \in Received |-> orders[i].side]
LimitsOf == [i \in Received |-> IF orders[i].type = "LIMIT" THEN orders[i].price ELSE NoPrice]
RestingOf == {i \in Received : i \in Range(Queue(orders[i].side, orders[i].price))}
TradesOf == [k \in DOMAIN history |-> [price |-> history[k].price, quantity |-> history[k].quantity,
                                       buy |-> history[k].buy, sell |-> history[k].sell]]

\* The orders that rest are the limit orders that are open.
OpenLimits == {i \in Received : IsLimit(i) /\ IsOpen(i)}

\* The orders that rest in the book are the limit orders that are open.
LEMMA RestingIs == ASSUME BookInv PROVE RestingOf = OpenLimits
<1>1. BookType /\ QueueInv BY DEF BookInv
<1>2. ASSUME NEW i \in Received, i \in Range(Queue(orders[i].side, orders[i].price))
      PROVE  IsLimit(i) /\ IsOpen(i)
  <2> DEFINE s == orders[i].side
             p == orders[i].price
  <2>1. s \in Sides BY <1>1, OrderFacts
  <2> HIDE DEF s, p
  <2>2. i \in Range(Queue(s, p)) BY <1>2 DEF s, p
  <2>3. p \in Prices
    <3>1. p \in DOMAIN book[s] BY <2>2 DEF Queue, Range
    <3> QED BY <1>1, <2>1, <3>1 DEF BookType
  <2>4. Queue(s, p) \in Seq(OpenAt(s, p)) BY <1>1, <2>1, <2>3 DEF QueueInv, Lists
  <2>5. i \in OpenAt(s, p) BY <2>2, <2>4 DEF Range
  <2> QED BY <2>5 DEF OpenAt, IsLimit
<1>3. ASSUME NEW i \in Received, IsLimit(i), IsOpen(i)
      PROVE  i \in Range(Queue(orders[i].side, orders[i].price))
  BY <1>3, OpenIsInHeap
<1> QED BY <1>2, <1>3 DEF RestingOf, OpenLimits

\* And so they are after the step.
LEMMA RestingIsNext == ASSUME BookInv' PROVE RestingOf' = OpenLimits'
<1>1. (BookInv => RestingOf = OpenLimits)' BY RestingIs, PTL
<1> QED BY <1>1

\* What order t may take from.
Within(t, r) ==
  /\ SidesOf[r] # SidesOf[t]
  /\ LimitsOf[t] = NoPrice \/ ~PriceTime!Beats(LimitsOf[r], LimitsOf[t], SidesOf[t])
\* Does the working order still take?
Wants == IF LimitsOf[working] = NoPrice THEN remaining[working] > 0 ELSE working \in RestingOf
\* Has r priority over q?
Before(r, q) ==
  \/ PriceTime!Beats(LimitsOf[r], LimitsOf[q], SidesOf[r])
  \/ LimitsOf[r] = LimitsOf[q] /\ r < q

\* A trade with the first of the orders within the limit is the abstract book's Take.
LEMMA Taking ==
  ASSUME NEW r, working # 0, Wants, r \in RestingOf, Within(working, r),
         \A q \in RestingOf : q # r /\ Within(working, q) => Before(r, q),
         NEW n, n = IF remaining[r] < remaining[working] THEN remaining[r] ELSE remaining[working],
         remaining' = [remaining EXCEPT ![r] = @ - n, ![working] = @ - n],
         RestingOf' = RestingOf \ {q \in {r, working} : remaining'[q] = 0},
         TradesOf' = Append(TradesOf, [price |-> LimitsOf[r], quantity |-> n,
                                       buy |-> IF SidesOf[r] = "BUY" THEN r ELSE working,
                                       sell |-> IF SidesOf[r] = "BUY" THEN working ELSE r]),
         SidesOf' = SidesOf, LimitsOf' = LimitsOf, working' = working
  PROVE  \E x \in RestingOf : PriceTime!Take(x)
<1>1. PriceTime!Candidates(working) = {q \in RestingOf : Within(working, q)}
  BY DEF PriceTime!Candidates, PriceTime!MayTake, PriceTime!Beats, RestingOf, Within, SidesOf, LimitsOf
<1>2. \A q \in RestingOf : PriceTime!Precedes(r, q) <=> Before(r, q)
  BY DEF PriceTime!Precedes, PriceTime!Beats, RestingOf, Before, SidesOf, LimitsOf
<1>3. PriceTime!Take(r)
  <2>1. PriceTime!Takes(working) BY DEF PriceTime!Takes, Wants, LimitsOf, RestingOf
  <2> QED BY <1>1, <1>2, <2>1 DEF PriceTime!Take, SidesOf, LimitsOf, RestingOf, TradesOf
<1> QED BY <1>3

\* An order that arrives is the abstract book's arrival, whether or not it stays to work.
LEMMA Arriving ==
  ASSUME NEW s \in Sides, NEW limit \in Prices \cup {NoPrice},
         NEW quantity \in {r.quantity : r \in Requests},
         NEW n, n = Len(SidesOf) + 1, working = 0,
         SidesOf' = Append(SidesOf, s), LimitsOf' = Append(LimitsOf, limit),
         remaining' = Append(remaining, quantity),
         RestingOf' = IF limit = NoPrice THEN RestingOf ELSE RestingOf \cup {n},
         working' \in IF limit = NoPrice THEN {0, n} ELSE {n}, TradesOf' = TradesOf
  PROVE  PriceTime!Next
<1>1. PriceTime!Arrive(s, limit, quantity)
  BY DEF PriceTime!Arrive, SidesOf, LimitsOf, RestingOf, TradesOf
<1> QED BY <1>1 DEF PriceTime!Next, Sides

\* Setting the working order aside, when it is used up or meets nobody, is a step of the
\* abstract book.
LEMMA TakingNext ==
  ASSUME working # 0 => ~Wants \/ \A q \in RestingOf : ~Within(working, q),
         working' = 0 \/ (working' \in Received /\ LimitsOf[working'] = NoPrice),
         SidesOf' = SidesOf, LimitsOf' = LimitsOf, remaining' = remaining, RestingOf' = RestingOf,
         TradesOf' = TradesOf
  PROVE  PriceTime!Next
<1>1. PriceTime!Candidates(working) = {q \in RestingOf : Within(working, q)}
  BY DEF PriceTime!Candidates, PriceTime!MayTake, PriceTime!Beats, RestingOf, Within, SidesOf, LimitsOf
<1>2. PriceTime!Orders = Received BY DEF PriceTime!Orders
<1>3. Wants <=> PriceTime!Takes(working) BY DEF PriceTime!Takes, Wants, LimitsOf, RestingOf
<1>4. PriceTime!NextTaker
  BY <1>1, <1>2, <1>3 DEF PriceTime!NextTaker, SidesOf, LimitsOf, RestingOf, TradesOf
<1> QED BY <1>4 DEF PriceTime!Next

\* Taking a resting order out is the abstract book's withdrawal.
LEMMA Withdrawing ==
  ASSUME NEW i \in RestingOf, working = 0, RestingOf' = RestingOf \ {i},
         SidesOf' = SidesOf, LimitsOf' = LimitsOf, UNCHANGED <<remaining, working>>, TradesOf' = TradesOf
  PROVE  PriceTime!Next
<1>1. PriceTime!Withdraw(i) BY DEF PriceTime!Withdraw, SidesOf, LimitsOf, RestingOf, TradesOf
<1> QED BY <1>1 DEF PriceTime!Next, RestingOf

\* A step that changes none of what the abstract book sees is a stutter there.
LEMMA Stuttering ==
  ASSUME RestingOf' = RestingOf, SidesOf' = SidesOf, LimitsOf' = LimitsOf,
         UNCHANGED <<remaining, working>>, TradesOf' = TradesOf
  PROVE  UNCHANGED PriceTime!vars
BY DEF PriceTime!vars, SidesOf, LimitsOf, RestingOf, TradesOf

\* A step as the abstract book allows it.
Abstract == PriceTime!Next \/ UNCHANGED PriceTime!vars

\* Sides and limits stay where the limit orders do.
LEMMA SameBook ==
  ASSUME Received' = Received,
         \A i \in Received : /\ IsLimit(i)' <=> IsLimit(i)
                             /\ IsLimit(i) => orders'[i] = orders[i]
                             /\ orders'[i].side = orders[i].side
  PROVE  SidesOf' = SidesOf /\ LimitsOf' = LimitsOf
<1>1. SidesOf' = SidesOf BY DEF SidesOf
<1>2. ASSUME NEW i \in Received
      PROVE  (IF orders'[i].type = "LIMIT" THEN orders'[i].price ELSE NoPrice)
             = IF orders[i].type = "LIMIT" THEN orders[i].price ELSE NoPrice
  BY DEF IsLimit
<1>3. LimitsOf' = LimitsOf BY <1>2 DEF LimitsOf
<1> QED BY <1>1, <1>3

\* The same orders rest when no order's quantity or status changes.
LEMMA SameResting ==
  ASSUME BookInv, BookInv', Received' = Received, UNCHANGED <<remaining, status>>,
         \A i \in Received : IsLimit(i)' <=> IsLimit(i)
  PROVE  RestingOf' = RestingOf
<1>1. RestingOf = OpenLimits /\ RestingOf' = OpenLimits' BY RestingIs, RestingIsNext
<1>2. \A i \in Received : IsOpen(i)' <=> IsOpen(i) BY DEF IsOpen
<1>3. OpenLimits' = OpenLimits BY <1>2 DEF OpenLimits
<1> QED BY <1>1, <1>3

\* Nothing that PriceTimeBook sees changes.
LEMMA SameView ==
  ASSUME BookInv, BookInv', UNCHANGED <<orders, remaining, status, history, working>>
  PROVE  Abstract
<1>1. Received' = Received /\ \A i : IsLimit(i)' <=> IsLimit(i) BY DEF Received, IsLimit
<1>2. RestingOf' = RestingOf BY <1>1, SameResting
<1>3. SidesOf' = SidesOf /\ LimitsOf' = LimitsOf /\ TradesOf' = TradesOf
  BY DEF SidesOf, LimitsOf, TradesOf, Received
<1> QED BY <1>2, <1>3, Stuttering DEF Abstract

\* The abstract side and limit of an order are those of its request.
LEMMA SidesLimits ==
  ASSUME BookInv, NEW i \in Received
  PROVE  /\ SidesOf[i] = orders[i].side /\ SidesOf[i] \in Sides
         /\ IsLimit(i) => LimitsOf[i] = orders[i].price /\ LimitsOf[i] \in Prices
         /\ ~IsLimit(i) => LimitsOf[i] = NoPrice
<1>1. BookType BY DEF BookInv
<1>2. orders[i].side \in Sides /\ (IsLimit(i) => orders[i].price \in Prices) BY <1>1, OrderFacts
<1> QED BY <1>2 DEF SidesOf, LimitsOf, IsLimit

\* A limit order wants more as long as it is open, another one as long as something of it is left.
LEMMA WantsIs ==
  ASSUME BookInv, working \in Received
  PROVE  Wants <=> IF IsLimit(working) THEN IsOpen(working) ELSE remaining[working] > 0
<1>1. CASE IsLimit(working)
  <2>1. LimitsOf[working] # NoPrice BY <1>1, SidesLimits, PricesAssumption
  <2>2. working \in RestingOf <=> IsOpen(working) BY <1>1, RestingIs DEF OpenLimits
  <2> QED BY <1>1, <2>1, <2>2 DEF Wants
<1>2. CASE ~IsLimit(working) BY <1>2, SidesLimits DEF Wants
<1> QED BY <1>1, <1>2

\* The head of the best queue of a side precedes all that rest there.
LEMMA HeadIsBest ==
  ASSUME BookInv, NEW s \in Sides, InHeap(s) # {}, BestQueue(s) # <<>>,
         NEW r, r = Head(BestQueue(s)),
         NEW q \in RestingOf, q # r, SidesOf[q] = s
  PROVE  Before(r, q)
<1>1. Top(s) \in Prices /\ r \in OpenAt(s, Top(s)) /\ r \in Received
      /\ \A x \in OpenAt(s, Top(s)) \ {r} : r < x
  BY BestIsOpen
<1>2. IsLimit(r) /\ orders[r].side = s /\ orders[r].price = Top(s) BY <1>1 DEF OpenAt, IsLimit
<1>3. q \in Received /\ IsLimit(q) /\ IsOpen(q) BY RestingIs DEF OpenLimits
<1>4. SidesOf[r] = s /\ LimitsOf[r] = Top(s) /\ orders[q].side = s /\ LimitsOf[q] = orders[q].price
      /\ LimitsOf[q] \in Prices
  BY <1>1, <1>2, <1>3, SidesLimits
<1>5. ~Better(s, orders[q].price, Top(s)) BY <1>3, <1>4, OpenIsInHeap
<1>6. CASE LimitsOf[q] = Top(s)
  <2>1. q \in OpenAt(s, Top(s)) BY <1>3, <1>4, <1>6 DEF OpenAt, IsLimit
  <2> QED BY <1>1, <1>4, <1>6, <2>1 DEF Before
<1>7. CASE LimitsOf[q] # Top(s)
  <2>1. LimitsOf[q] \in Nat /\ LimitsOf[r] \in Nat /\ LimitsOf[r] # LimitsOf[q]
    BY <1>1, <1>4, <1>7, PricesAssumption
  <2>2. ~Better(s, LimitsOf[q], LimitsOf[r]) BY <1>4, <1>5
  <2>3. PriceTime!Beats(LimitsOf[r], LimitsOf[q], s) BY <2>1, <2>2 DEF PriceTime!Beats, Better
  <2> QED BY <1>4, <2>3 DEF Before
<1> QED BY <1>6, <1>7

\* A trade of the incoming order with the head of the best queue.
LEMMA TradeTakes ==
  ASSUME BookInv, BookInv', NEW b, NEW a, NEW price, NEW time, Trade(b, a, price, time),
         UNCHANGED <<orders, working>>, NEW s \in Sides, InHeap(s) # {}, BestQueue(s) # <<>>,
         NEW r, r = Head(BestQueue(s)), working \in Received, working # 0, Wants,
         b = (IF s = "BUY" THEN r ELSE working), a = (IF s = "BUY" THEN working ELSE r),
         price = Top(s), s = Opposite(orders[working].side),
         IsLimit(working) => ~PriceTime!Beats(Top(s), orders[working].price, orders[working].side)
  PROVE  Abstract
<1>1. Top(s) \in Prices /\ r \in OpenAt(s, Top(s)) /\ r \in Received BY BestIsOpen
<1>2. IsLimit(r) /\ IsOpen(r) /\ orders[r].side = s /\ orders[r].price = Top(s)
  BY <1>1 DEF OpenAt, IsLimit
<1>3. BookType /\ BookType' BY DEF BookInv
<1>4. Received = 1 .. Len(orders) /\ remaining \in Seq(Int) /\ Len(remaining) = Len(orders)
      /\ remaining[r] \in Int /\ remaining[working] \in Int /\ history \in Seq(TradeRecord)
      /\ orders[working].side \in Sides
  BY <1>1, <1>3, OrderFacts DEF BookType
<1>5. orders[working].side # s /\ r # working BY <1>2, <1>4 DEF Opposite, Sides
<1>6. PICK n : n = IF remaining[r] < remaining[working] THEN remaining[r] ELSE remaining[working]
  OBVIOUS
<1>7. Traded(b, a) = n BY <1>4, <1>6 DEF Traded
<1>8. remaining' = [remaining EXCEPT ![b] = @ - n, ![a] = @ - n] BY <1>7 DEF Trade
<1>9. status' = [i \in Received |-> IF i \notin {b, a} THEN status[i]
                                    ELSE IF remaining'[i] = 0 THEN "FILLED" ELSE "PARTIALLY_FILLED"]
  BY DEF Trade
<1>10. history' = Append(history, [price |-> price, quantity |-> n, time |-> time, buy |-> b, sell |-> a,
                                  buyStatus |-> status'[b], sellStatus |-> status'[a]])
  BY <1>7 DEF Trade
<1>11. remaining' = [remaining EXCEPT ![b] = @ - n, ![a] = @ - n]
      /\ history' = Append(history, [price |-> price, quantity |-> n, time |-> time, buy |-> b, sell |-> a,
                                     buyStatus |-> status'[b], sellStatus |-> status'[a]])
      /\ status' = [i \in Received |-> IF i \notin {b, a} THEN status[i]
                                       ELSE IF remaining'[i] = 0 THEN "FILLED" ELSE "PARTIALLY_FILLED"]
  BY <1>8, <1>9, <1>10
<1> HIDE DEF Received, TradeRecord
<1>12. remaining' = [remaining EXCEPT ![r] = @ - n, ![working] = @ - n]
  BY <1>1, <1>4, <1>5, <1>11
<1>13. Received' = Received /\ SidesOf' = SidesOf /\ LimitsOf' = LimitsOf
  <2>1. Received' = Received BY DEF Received
  <2>2. \A i \in Received : IsLimit(i)' <=> IsLimit(i) BY DEF IsLimit
  <2> QED BY <2>1, <2>2, SameBook
<1>14. \A q \in Received : IsLimit(q) =>
          (IsOpen(q)' <=> IsOpen(q) /\ ~(q \in {r, working} /\ remaining'[q] = 0))
  <2> SUFFICES ASSUME NEW q \in Received, IsLimit(q)
               PROVE  IsOpen(q)' <=> IsOpen(q) /\ ~(q \in {r, working} /\ remaining'[q] = 0)
    OBVIOUS
  <2>1. CASE q \in {b, a}
    <3>1. status'[q] = IF remaining'[q] = 0 THEN "FILLED" ELSE "PARTIALLY_FILLED" BY <1>11, <2>1
    <3>2. IsOpen(q)' <=> remaining'[q] # 0 BY <3>1 DEF IsOpen
    <3>3. q \in {r, working} BY <2>1
    <3>4. IsOpen(q) BY <1>2, <3>3, WantsIs
    <3> QED BY <3>2, <3>3, <3>4
  <2>2. CASE q \notin {b, a}
    <3>1. status'[q] = status[q] BY <1>11, <2>2
    <3>2. q # r /\ q # working BY <2>2
    <3> QED BY <3>1, <3>2 DEF IsOpen
  <2> QED BY <2>1, <2>2
<1>15. RestingOf' = RestingOf \ {q \in {r, working} : remaining'[q] = 0}
  <2>1. RestingOf = OpenLimits /\ RestingOf' = OpenLimits' BY RestingIs, RestingIsNext
  <2>2. \A i : IsLimit(i)' <=> IsLimit(i) BY DEF IsLimit
  <2>3. OpenLimits' = OpenLimits \ {q \in {r, working} : remaining'[q] = 0}
    <3> HIDE DEF IsLimit, IsOpen
    <3> QED BY <1>13, <1>14, <2>2 DEF OpenLimits
  <2> QED BY <2>1, <2>3
<1>16. SidesOf[r] = s /\ LimitsOf[r] = Top(s) /\ SidesOf[working] = orders[working].side
       /\ (IsLimit(working) => LimitsOf[working] = orders[working].price)
       /\ (~IsLimit(working) => LimitsOf[working] = NoPrice)
  BY <1>1, <1>2, SidesLimits
<1>17. TradesOf' = Append(TradesOf, [price |-> LimitsOf[r], quantity |-> n,
                                     buy |-> IF SidesOf[r] = "BUY" THEN r ELSE working,
                                     sell |-> IF SidesOf[r] = "BUY" THEN working ELSE r])
  <2> DEFINE View(t) == [price |-> t.price, quantity |-> t.quantity, buy |-> t.buy, sell |-> t.sell]
  <2>1. PICK new : new = [price |-> price, quantity |-> n, time |-> time, buy |-> b, sell |-> a,
                          buyStatus |-> status'[b], sellStatus |-> status'[a]]
    OBVIOUS
  <2>2. history' = Append(history, new) BY <1>11, <2>1
  <2>3. View(new) = [price |-> LimitsOf[r], quantity |-> n,
                     buy |-> IF SidesOf[r] = "BUY" THEN r ELSE working,
                     sell |-> IF SidesOf[r] = "BUY" THEN working ELSE r]
    BY <1>16, <2>1
  <2>4. TradesOf = [k \in 1 .. Len(history) |-> View(history[k])] /\ Len(history) \in Nat
    BY <1>4 DEF TradesOf
  <2>5. TradesOf' = [k \in 1 .. Len(history) + 1 |-> View(Append(history, new)[k])]
    BY <1>4, <2>2 DEF TradesOf
  <2> HIDE DEF View
  <2>6. TradesOf' = Append(TradesOf, View(new)) BY <1>4, <2>4, <2>5
  <2> QED BY <2>3, <2>6
<1>18. Within(working, r)
  BY <1>5, <1>16 DEF Within
<1>19. \A q \in RestingOf : q # r /\ Within(working, q) => Before(r, q)
  <2> SUFFICES ASSUME NEW q \in RestingOf, q # r, Within(working, q) PROVE Before(r, q) OBVIOUS
  <2>1. q \in Received BY DEF RestingOf
  <2>2. SidesOf[q] \in Sides /\ SidesOf[q] # SidesOf[working] BY <2>1, SidesLimits DEF Within
  <2>3. SidesOf[q] = s BY <1>4, <1>16, <2>2 DEF Opposite, Sides
  <2> QED BY <2>3, HeadIsBest
<1>20. r \in RestingOf BY <1>1, <1>2, RestingIs DEF OpenLimits
<1>21. \E x \in RestingOf : PriceTime!Take(x)
  BY <1>6, <1>12, <1>13, <1>15, <1>17, <1>18, <1>19, <1>20, Taking
<1> QED BY <1>21 DEF Abstract, PriceTime!Next, RestingOf

\* add_order is an arrival in the abstract book.
LEMMA AddOrderArrives ==
  ASSUME BookInv, BookInv', NEW r \in Requests, AddOrder(r) PROVE Abstract
<1>1. PICK n : n = Len(orders) + 1
      /\ n \in Nat /\ n # 0 /\ n \notin Received /\ Received' = Received \cup {n}
      /\ r \in Request /\ (r.type = "MARKET" <=> r.price = NoPrice)
      /\ orders' \in Seq(Request) /\ remaining' \in Seq(Int) /\ status' \in Seq(Statuses)
      /\ orders'[n] = r /\ remaining'[n] = r.quantity /\ status'[n] = "ACTIVE"
      /\ r.quantity \in Int
      /\ \A i \in Received : /\ orders'[i] = orders[i] /\ remaining'[i] = remaining[i]
                             /\ status'[i] = status[i]
  BY AddingAtEnd
<1>2. BookType /\ LoopInv BY DEF BookInv
<1>3. Received = 1 .. Len(orders) /\ Len(orders) \in Nat BY <1>2, OrderFacts
<1>4. /\ pc = "idle" /\ history' = history /\ remaining' = Append(remaining, r.quantity)
      /\ working' = IF r.type = "STOP" THEN 0 ELSE n
  BY <1>1 DEF AddOrder
<1>5. working = 0 BY <1>2, <1>4 DEF LoopInv
<1>6. PICK limit : limit = IF r.type = "LIMIT" THEN r.price ELSE NoPrice OBVIOUS
<1>7. /\ r.side \in Sides /\ limit \in Prices \cup {NoPrice} /\ r.type \in Types
      /\ (limit = NoPrice <=> r.type # "LIMIT")
  BY <1>1, <1>6, PricesAssumption DEF Request, NoPrice
<1> HIDE DEF Received, Request
<1>8. SidesOf' = Append(SidesOf, r.side) /\ Len(SidesOf) + 1 = n
  <2>1. SidesOf' = [i \in 1 .. Len(orders) + 1 |-> IF i = n THEN r.side ELSE orders[i].side]
    <3> DEFINE sideOf(i) == orders'[i].side
    <3>1. SidesOf' = [i \in 1 .. Len(orders) + 1 |-> sideOf(i)] BY <1>1, <1>3 DEF SidesOf
    <3>2. ASSUME NEW i \in 1 .. Len(orders) + 1
          PROVE  sideOf(i) = IF i = n THEN r.side ELSE orders[i].side
      <4>1. CASE i = n BY <1>1, <4>1
      <4>2. CASE i # n
        <5>1. i \in Received BY <1>1, <1>3, <4>2
        <5>2. orders'[i] = orders[i] BY <1>1, <5>1
        <5> QED BY <4>2, <5>2
      <4> QED BY <4>1, <4>2
    <3> HIDE DEF sideOf
    <3> QED BY <3>1, <3>2
  <2>2. SidesOf = [i \in 1 .. Len(orders) |-> orders[i].side] BY <1>3 DEF SidesOf
  <2> QED BY <1>1, <1>3, <2>1, <2>2
<1>9. LimitsOf' = Append(LimitsOf, limit)
  <2>1. LimitsOf' = [i \in 1 .. Len(orders) + 1 |->
                       IF i = n THEN limit
                       ELSE IF orders[i].type = "LIMIT" THEN orders[i].price ELSE NoPrice]
    <3> DEFINE limitOf(i) == IF orders'[i].type = "LIMIT" THEN orders'[i].price ELSE NoPrice
    <3>1. LimitsOf' = [i \in 1 .. Len(orders) + 1 |-> limitOf(i)] BY <1>1, <1>3 DEF LimitsOf
    <3>2. ASSUME NEW i \in 1 .. Len(orders) + 1
          PROVE  limitOf(i) = IF i = n THEN limit
                              ELSE IF orders[i].type = "LIMIT" THEN orders[i].price ELSE NoPrice
      <4>1. CASE i = n BY <1>1, <1>6, <4>1
      <4>2. CASE i # n
        <5>1. i \in Received BY <1>1, <1>3, <4>2
        <5>2. orders'[i] = orders[i] BY <1>1, <5>1
        <5> QED BY <4>2, <5>2
      <4> QED BY <4>1, <4>2
    <3> HIDE DEF limitOf
    <3> QED BY <3>1, <3>2
  <2>2. LimitsOf = [i \in 1 .. Len(orders) |->
                      IF orders[i].type = "LIMIT" THEN orders[i].price ELSE NoPrice]
    BY <1>3 DEF LimitsOf
  <2> QED BY <1>1, <1>3, <2>1, <2>2
<1>10. TradesOf' = TradesOf BY <1>4 DEF TradesOf
<1>11. RestingOf' = IF limit = NoPrice THEN RestingOf ELSE RestingOf \cup {n}
  <2>1. RestingOf = OpenLimits /\ RestingOf' = OpenLimits' BY RestingIs, RestingIsNext
  <2>2. \A i \in Received : (IsLimit(i)' <=> IsLimit(i)) /\ (IsOpen(i)' <=> IsOpen(i))
    BY <1>1 DEF IsLimit, IsOpen
  <2>3. (IsLimit(n)' <=> limit # NoPrice) /\ IsOpen(n)' BY <1>1, <1>7 DEF IsLimit, IsOpen
  <2>4. OpenLimits' = IF limit = NoPrice THEN OpenLimits ELSE OpenLimits \cup {n}
    <3>1. OpenLimits' = {i \in Received \cup {n} : IsLimit(i)' /\ IsOpen(i)'}
      BY <1>1 DEF OpenLimits
    <3>2. OpenLimits = {i \in Received : IsLimit(i) /\ IsOpen(i)} BY DEF OpenLimits
    <3> HIDE DEF IsLimit, IsOpen
    <3> QED BY <1>1, <2>2, <2>3, <3>1, <3>2
  <2> QED BY <2>1, <2>4
<1>12. working' \in IF limit = NoPrice THEN {0, n} ELSE {n} BY <1>4, <1>7 DEF Types
<1>13. r.quantity \in {x.quantity : x \in Requests} OBVIOUS
<1>14. PriceTime!Next
  BY <1>4, <1>5, <1>7, <1>8, <1>9, <1>10, <1>11, <1>12, <1>13, Arriving
<1> QED BY <1>14 DEF Abstract

\* One turn of the market order's loop is a Take there.
LEMMA MatchMarketTakes == ASSUME BookInv, BookInv', MatchMarket PROVE Abstract
<1>1. BookType /\ LoopInv BY DEF BookInv
<1>2. /\ pc \in {"market", "stop"} /\ remaining[working] > 0
      /\ InHeap(Other) # {} /\ BestQueue(Other) # <<>>
      /\ UNCHANGED <<orders, working>>
  BY DEF MatchMarket, Takes, loopVars
<1>3. working \in Received /\ orders[working].type = "MARKET" /\ working # 0
  BY <1>1, <1>2 DEF LoopInv, BookType
<1>4. Other \in Sides /\ Other = Opposite(orders[working].side)
  BY <1>3, <1>1, OrderFacts DEF Other, Opposite, Sides
<1>5. PICK r : r = Head(BestQueue(Other)) OBVIOUS
<1>6. Trade(IF Other = "BUY" THEN r ELSE working, IF Other = "BUY" THEN working ELSE r,
            Top(Other), times[working])
  BY <1>5 DEF MatchMarket
<1>7. ~IsLimit(working) /\ Wants
  <2>1. ~IsLimit(working) BY <1>3 DEF IsLimit
  <2> QED BY <1>2, <1>3, <2>1, WantsIs
<1> QED BY <1>2, <1>3, <1>4, <1>5, <1>6, <1>7, TradeTakes

\* One turn of _match_limit_order is a Take there.
LEMMA MatchLimitTakes == ASSUME BookInv, BookInv', MatchLimit PROVE Abstract
<1>1. BookType /\ LoopInv /\ CrossInv BY DEF BookInv
<1>2. /\ pc = "limit" /\ \A s \in Sides : InHeap(s) # {} /\ BestQueue(s) # <<>>
      /\ Top("BUY") >= Top("SELL") /\ UNCHANGED <<orders, working>>
  BY DEF MatchLimit, Crossed, loopVars, Sides
<1>3. working \in Received /\ IsLimit(working) /\ working # 0 BY <1>1, <1>2 DEF LoopInv, BookType
<1>4. Other \in Sides /\ Other = Opposite(orders[working].side) /\ orders[working].side \in Sides
      /\ "BUY" \in Sides /\ "SELL" \in Sides
  BY <1>3, <1>1, OrderFacts DEF Other, Opposite, Sides
<1>5. PICK bid : bid = Head(BestQueue("BUY")) OBVIOUS
<1>6. PICK ask : ask = Head(BestQueue("SELL")) OBVIOUS
<1>7. \E time : Trade(bid, ask, Top(Other), time) BY <1>5, <1>6 DEF MatchLimit
<1>8. Top("BUY") \in Prices /\ bid \in OpenAt("BUY", Top("BUY")) /\ bid \in Received
      /\ IsOpen(bid)
  BY <1>2, <1>4, <1>5, BestIsOpen
<1>9. Top("SELL") \in Prices /\ ask \in OpenAt("SELL", Top("SELL")) /\ ask \in Received
      /\ IsOpen(ask)
  BY <1>2, <1>4, <1>6, BestIsOpen
<1>10. Meet(bid, ask) BY <1>2, <1>8, <1>9 DEF Meet, OpenAt, IsLimit
<1>11. working \in {bid, ask} BY <1>1, <1>8, <1>9, <1>10 DEF CrossInv
<1>12. /\ orders[bid].side = "BUY" /\ orders[bid].price = Top("BUY")
       /\ orders[ask].side = "SELL" /\ orders[ask].price = Top("SELL")
  BY <1>8, <1>9 DEF OpenAt
<1>13. Top("BUY") \in Nat /\ Top("SELL") \in Nat BY <1>8, <1>9, PricesAssumption
<1>14. CASE orders[working].side = "BUY"
  <2>1. working = bid /\ Other = "SELL" BY <1>4, <1>11, <1>12, <1>14 DEF Opposite
  <2>2. ~PriceTime!Beats(Top(Other), orders[working].price, orders[working].side)
    BY <1>2, <1>12, <1>13, <1>14, <2>1 DEF PriceTime!Beats
  <2>3. PICK time : Trade(IF Other = "BUY" THEN ask ELSE working,
                          IF Other = "BUY" THEN working ELSE ask, Top(Other), time)
    BY <1>7, <2>1
  <2>4. ask = Head(BestQueue(Other)) /\ Wants BY <1>3, <1>6, <1>8, <2>1, WantsIs
  <2> QED BY <1>2, <1>3, <1>4, <2>2, <2>3, <2>4, TradeTakes
<1>15. CASE orders[working].side # "BUY"
  <2>1. working = ask /\ Other = "BUY" BY <1>4, <1>11, <1>12, <1>15 DEF Opposite
  <2>2. ~PriceTime!Beats(Top(Other), orders[working].price, orders[working].side)
    BY <1>2, <1>12, <1>13, <1>15, <2>1 DEF PriceTime!Beats
  <2>3. PICK time : Trade(IF Other = "BUY" THEN bid ELSE working,
                          IF Other = "BUY" THEN working ELSE bid, Top(Other), time)
    BY <1>7, <2>1
  <2>4. bid = Head(BestQueue(Other)) /\ Wants BY <1>3, <1>5, <1>9, <2>1, WantsIs
  <2> QED BY <1>2, <1>3, <1>4, <2>2, <2>3, <2>4, TradeTakes
<1> QED BY <1>14, <1>15

\* A market order that has come to its end may take nothing more.
LEMMA DoneIsDone ==
  ASSUME BookInv, pc \in {"market", "stop"}, Done
  PROVE  ~Wants \/ \A q \in RestingOf : ~Within(working, q)
<1>1. BookType /\ LoopInv BY DEF BookInv
<1>2. working \in Received BY <1>1 DEF LoopInv, BookType
<1>3. ~IsLimit(working) BY <1>1 DEF LoopInv, IsLimit
<1>4. SUFFICES ASSUME remaining[working] > 0, NEW q \in RestingOf, Within(working, q) PROVE FALSE
  BY <1>2, <1>3, WantsIs
<1>5. InHeap(Other) = {} BY <1>4 DEF Done, Takes
<1>6. q \in Received /\ IsLimit(q) /\ IsOpen(q) BY RestingIs DEF OpenLimits
<1>7. SidesOf[q] = orders[q].side /\ SidesOf[q] \in Sides /\ SidesOf[working] = orders[working].side
      /\ SidesOf[working] \in Sides
  BY <1>2, <1>6, SidesLimits
<1>8. orders[q].side = Other BY <1>4, <1>7 DEF Within, Other, Opposite, Sides
<1>9. orders[q].price \in InHeap(Other) BY <1>6, <1>8, OpenIsInHeap
<1> QED BY <1>5, <1>9

\* So may a limit order when the best prices do not cross.
LEMMA UncrossedIsDone ==
  ASSUME BookInv, pc = "limit", ~Crossed
  PROVE  ~Wants \/ \A q \in RestingOf : ~Within(working, q)
<1>1. BookType /\ LoopInv BY DEF BookInv
<1>2. working \in Received /\ IsLimit(working) BY <1>1 DEF LoopInv, BookType
<1>3. SUFFICES ASSUME Wants, NEW q \in RestingOf, Within(working, q) PROVE FALSE
  OBVIOUS
<1>4. Within(working, q) BY <1>3
<1>5. IsOpen(working) BY <1>2, <1>3, WantsIs
<1>6. q \in Received /\ IsLimit(q) /\ IsOpen(q) BY RestingIs DEF OpenLimits
<1>7. SidesOf[q] = orders[q].side /\ SidesOf[q] \in Sides /\ SidesOf[working] = orders[working].side
      /\ SidesOf[working] \in Sides /\ LimitsOf[q] = orders[q].price /\ LimitsOf[q] \in Prices
      /\ LimitsOf[working] = orders[working].price /\ LimitsOf[working] \in Prices
  BY <1>2, <1>6, SidesLimits
<1>8. \A p \in Prices : p \in Nat /\ p # NoPrice BY PricesAssumption
<1>9. orders[q].side # orders[working].side
      /\ ~PriceTime!Beats(orders[q].price, orders[working].price, orders[working].side)
  BY <1>4, <1>7, <1>8 DEF Within
<1>10. /\ Top(orders[q].side) \in Prices /\ Top(orders[q].side) \in InHeap(orders[q].side)
       /\ ~Better(orders[q].side, orders[q].price, Top(orders[q].side))
  BY <1>6, OpenIsInHeap
<1>11. /\ Top(orders[working].side) \in Prices /\ Top(orders[working].side) \in InHeap(orders[working].side)
       /\ ~Better(orders[working].side, orders[working].price, Top(orders[working].side))
  BY <1>2, <1>5, OpenIsInHeap
<1>12. CASE orders[working].side = "BUY"
  <2>1. orders[q].side = "SELL" BY <1>7, <1>9, <1>12 DEF Sides
  <2>2. ~(orders[q].price > orders[working].price) BY <1>9, <1>12 DEF PriceTime!Beats
  <2>3. ~(orders[q].price < Top("SELL")) /\ ~(orders[working].price > Top("BUY"))
    BY <1>10, <1>11, <1>12, <2>1 DEF Better
  <2>4. Top("BUY") \in Nat /\ Top("SELL") \in Nat /\ orders[q].price \in Nat /\ orders[working].price \in Nat
    BY <1>7, <1>8, <1>10, <1>11, <1>12, <2>1
  <2>5. Top("BUY") >= Top("SELL") BY <2>2, <2>3, <2>4
  <2> QED BY <1>10, <1>11, <1>12, <2>1, <2>5 DEF Crossed
<1>13. CASE orders[working].side # "BUY"
  <2>1. orders[q].side = "BUY" /\ orders[working].side = "SELL" BY <1>7, <1>9, <1>13 DEF Sides
  <2>2. ~(orders[q].price < orders[working].price) BY <1>9, <1>13 DEF PriceTime!Beats
  <2>3. ~(orders[q].price > Top("BUY")) /\ ~(orders[working].price < Top("SELL"))
    BY <1>10, <1>11, <2>1 DEF Better
  <2>4. Top("BUY") \in Nat /\ Top("SELL") \in Nat /\ orders[q].price \in Nat /\ orders[working].price \in Nat
    BY <1>7, <1>8, <1>10, <1>11, <2>1
  <2>5. Top("BUY") >= Top("SELL") BY <2>2, <2>3, <2>4
  <2> QED BY <1>10, <1>11, <2>1, <2>5 DEF Crossed
<1> QED BY <1>12, <1>13

\* The next order takes, or none.
LEMMA NextTakes ==
  ASSUME BookInv, BookInv', UNCHANGED <<remaining, status, history>>, Received' = Received,
         \A i \in Received : /\ IsLimit(i)' <=> IsLimit(i)
                             /\ IsLimit(i) => orders'[i] = orders[i]
                             /\ orders'[i].side = orders[i].side,
         working # 0 => ~Wants \/ \A q \in RestingOf : ~Within(working, q),
         working' = 0 \/ (working' \in Received /\ ~IsLimit(working'))
  PROVE  Abstract
<1>1. RestingOf' = RestingOf BY SameResting
<1>2. SidesOf' = SidesOf /\ LimitsOf' = LimitsOf BY SameBook
<1>3. TradesOf' = TradesOf BY DEF TradesOf
<1>4. working' = 0 \/ (working' \in Received /\ LimitsOf[working'] = NoPrice) BY SidesLimits
<1> QED BY <1>1, <1>2, <1>3, <1>4, TakingNext DEF Abstract

\* A stop order that is executed arrives there as a market order.
LEMMA ExecutedTakes ==
  ASSUME BookInv, BookInv', UNCHANGED <<remaining, status, history>>,
         NEW fired \in Seq(Received), fired # <<>>, \A i \in Range(fired) : ~IsLimit(i), Execute(fired),
         working # 0 => ~Wants \/ \A q \in RestingOf : ~Within(working, q)
  PROVE  Abstract
<1>1. /\ orders' \in Seq(Request) /\ Len(orders') = Len(orders)
      /\ \A i \in Received : /\ IsLimit(i)' <=> IsLimit(i)
                             /\ orders'[i] = orders[i] \/ (i = working' /\ ~IsLimit(i))
                             /\ orders'[i].side = orders[i].side
      /\ working' \in Received /\ working' \in Range(fired)
  BY ExecuteEffect
<1>2. Received' = Received
  <2>1. orders \in Seq(Request) BY DEF BookInv, BookType
  <2> HIDE DEF Request
  <2> QED BY <1>1, <2>1 DEF Received
<1>3. working' \in Received /\ ~IsLimit(working') BY <1>1
<1>4. \A i \in Received : /\ IsLimit(i)' <=> IsLimit(i)
                          /\ IsLimit(i) => orders'[i] = orders[i]
                          /\ orders'[i].side = orders[i].side
  BY <1>1
<1> HIDE DEF Received, IsLimit, Within, Wants
<1> QED BY <1>2, <1>3, <1>4, NextTakes

\* A step that leaves the requests alone leaves their sides and limits alone.
LEMMA EndKeepsOrders ==
  ASSUME UNCHANGED orders
  PROVE  /\ Received' = Received
         /\ \A i \in Received : /\ IsLimit(i)' <=> IsLimit(i)
                                /\ IsLimit(i) => orders'[i] = orders[i]
                                /\ orders'[i].side = orders[i].side
BY DEF Received, IsLimit

\* The end of a loop sets the working order aside, or executes the next stop order.
LEMMA EndingTakes ==
  ASSUME BookInv, BookInv', EndMarket \/ EndLimit PROVE Abstract
<1>1. UNCHANGED <<orders, remaining, status, history>> /\ working' = 0
  BY DEF EndMarket, EndLimit, orderVars
<1>2. ~Wants \/ \A q \in RestingOf : ~Within(working, q)
  BY DoneIsDone, UncrossedIsDone DEF EndMarket, EndLimit
<1> QED BY <1>1, <1>2, EndKeepsOrders, NextTakes

\* Checking the stop orders, and ending one, are steps of the abstract book.
LEMMA StopsTake ==
  ASSUME BookInv, BookInv', CheckStops \/ EndStop PROVE Abstract
<1>1. BookType /\ LoopInv /\ KnownInv BY DEF BookInv
<1>2. ASSUME CheckStops PROVE Abstract
  <2>1. PICK fires : fires = {i \in Range(stops) : ~NoMarket /\ Reached(i, MarketPrice)} OBVIOUS
  <2>2. PICK fired : fired = KeepOnly(stops, fires) OBVIOUS
  <2>3. /\ pc = "stops" /\ UNCHANGED <<remaining, status, history>>
        /\ \/ fired = <<>> /\ UNCHANGED <<orders, working>>
           \/ fired # <<>> /\ Execute(fired)
    BY <1>2, <2>1, <2>2 DEF CheckStops
  <2>4. working = 0 BY <1>1, <2>3 DEF LoopInv
  <2>5. fired \in Seq(Received) /\ Range(fired) \subseteq Range(stops)
    <3>1. stops \in Seq(Received) BY <1>1 DEF BookType
    <3> HIDE DEF Received
    <3> QED BY <2>2, <3>1, KeptOf
  <2>6. \A i \in Range(fired) : ~IsLimit(i) BY <1>1, <2>5 DEF KnownInv, IsLimit
  <2> QED BY <2>3, <2>4, <2>5, <2>6, SameView, ExecutedTakes
<1>3. ASSUME EndStop PROVE Abstract
  <2>1. /\ pc = "stop" /\ Done /\ UNCHANGED <<remaining, status, history>>
        /\ \/ triggered = <<>> /\ working' = 0 /\ UNCHANGED orders
           \/ triggered # <<>> /\ Execute(triggered)
    BY <1>3 DEF EndStop
  <2>2. ~Wants \/ \A q \in RestingOf : ~Within(working, q) BY <2>1, DoneIsDone
  <2>3. triggered \in Seq(Received) /\ \A i \in Range(triggered) : ~IsLimit(i)
    BY <1>1 DEF BookType, LoopInv
  <2> QED BY <2>1, <2>2, <2>3, EndKeepsOrders, NextTakes, ExecutedTakes
<1> QED BY <1>2, <1>3

\* cancel_order withdraws a limit order, or changes nothing the abstract book sees.
LEMMA CancelWithdraws ==
  ASSUME BookInv, BookInv', NEW i \in Received, CancelOrder(i) PROVE Abstract
<1>1. BookType /\ LoopInv /\ KnownInv BY DEF BookInv
<1>2. /\ pc = "idle" /\ UNCHANGED <<orders, remaining, history, working>>
      /\ status' = [status EXCEPT ![i] = "CANCELED"]
  BY DEF CancelOrder, CancelStop, CancelLimit, Cancelled, loopVars
<1>3. working = 0 BY <1>1, <1>2 DEF LoopInv
<1>4. status \in Seq(Statuses) /\ Len(status) = Len(orders) /\ Received = 1 .. Len(orders)
  BY <1>1, OrderFacts DEF BookType
<1>5. SidesOf' = SidesOf /\ LimitsOf' = LimitsOf /\ TradesOf' = TradesOf
  BY <1>2 DEF SidesOf, LimitsOf, TradesOf, Received
<1>6. \A j : IsLimit(j)' <=> IsLimit(j) BY <1>2 DEF IsLimit
<1>7. Received' = Received BY <1>2 DEF Received
<1> HIDE DEF Received, Statuses
<1>8. status'[i] = "CANCELED" /\ \A j \in Received : j # i => status'[j] = status[j]
  BY <1>2, <1>4
<1>9. \A j \in Received : IsOpen(j)' <=> IsOpen(j) /\ j # i BY <1>2, <1>8 DEF IsOpen
<1>10. RestingOf' = RestingOf \ {i}
  <2>1. RestingOf = OpenLimits /\ RestingOf' = OpenLimits' BY RestingIs, RestingIsNext
  <2>2. OpenLimits' = OpenLimits \ {i}
    <3> HIDE DEF IsLimit, IsOpen
    <3> QED BY <1>6, <1>7, <1>9 DEF OpenLimits
  <2> QED BY <2>1, <2>2
<1>11. CASE i \in RestingOf
  <2>1. PriceTime!Next BY <1>2, <1>3, <1>5, <1>10, <1>11, Withdrawing
  <2> QED BY <2>1 DEF Abstract
<1>12. CASE i \notin RestingOf
  <2>1. RestingOf' = RestingOf BY <1>10, <1>12
  <2>2. UNCHANGED PriceTime!vars BY <1>2, <1>5, <2>1, Stuttering
  <2> QED BY <2>2 DEF Abstract
<1> QED BY <1>11, <1>12

\* Every step of the book is a step of the abstract one, or a stutter.
LEMMA BookTakes == ASSUME BookInv, BookInv', [Next]_vars PROVE Abstract
<1>1. ASSUME NEW r \in Requests, AddOrder(r) PROVE Abstract BY <1>1, AddOrderArrives
<1>2. ASSUME NEW i \in Received, CancelOrder(i) PROVE Abstract BY <1>2, CancelWithdraws
<1>3. ASSUME SkipEmptyLevel \/ DropCrossedLevel \/ Quote \/ NewTime \/ UNCHANGED vars PROVE Abstract
  <2>1. UNCHANGED <<orders, remaining, status, history, working>>
    BY <1>3 DEF SkipEmptyLevel, DropCrossedLevel, Quote, NewTime, vars, orderVars, loopVars
  <2> QED BY <2>1, SameView
<1>4. ASSUME Matching PROVE Abstract
  BY <1>3, <1>4, MatchMarketTakes, MatchLimitTakes, EndingTakes, StopsTake DEF Matching
<1> QED BY <1>1, <1>2, <1>3, <1>4 DEF Next

\* The empty book is an initial state of the abstract one.
LEMMA StartsEmpty == ASSUME Init PROVE PriceTime!Init
<1>1. orders = <<>> /\ remaining = <<>> /\ history = <<>> /\ working = 0 BY DEF Init
<1>2. Received = {} BY <1>1 DEF Received
<1>3. DOMAIN history = {} BY <1>1
<1> QED BY <1>1, <1>2, <1>3 DEF PriceTime!Init

\* The order book implements the abstract book, in which an arriving order takes the best price
\* first and the eldest order of it: every trade has price-time priority
\* (OrderBook._match_limit_order and _match_market_order).
THEOREM BookIsPriceTime == ExchangeSpec => PriceTimePriority
<1>1. ExchangeInit => PriceTime!Init BY StartsEmpty DEF ExchangeInit
<1>2. BookInv /\ BookInv' /\ [ExchangeNext]_allVars => [PriceTime!Next]_PriceTime!vars
  BY ExchangeStep, BookTakes DEF Abstract
<1> QED BY <1>1, <1>2, ExchangeBook, PTL DEF ExchangeSpec, PriceTimePriority, PriceTime!Spec

-----------------------------------------------------------------------------
(* The dispatch of trades.                                                 *)

Dispatching == at \in {"bought", "sold", "siblings"}

\* Where the trades of a dispatch are, and the last one before it.
DispatchType ==
  /\ at \in {"waiting", "bought", "sold", "siblings", "notifying"}
  /\ Dispatching <=> dispatching # {}
  /\ at = "siblings" => pc = "idle"
  /\ begun \in 0 .. Len(history) /\ last \in 0 .. begun
  /\ dispatching \subseteq 1 .. begun
  /\ Dispatching => newest \in dispatching
  /\ \A k \in dispatching : k = newest \/ Earlier(k, newest)
  /\ sent \in Seq([trade : DOMAIN history, side : Sides, order : Received, short : BOOLEAN])
  /\ \A m \in DOMAIN sent : sent[m].order = Party(sent[m].trade, sent[m].side)

\* What has been told is not after the trade at hand, or else the last one.
ToldInv ==
  \A m \in DOMAIN sent :
    IF Dispatching
      THEN \/ Earlier(sent[m].trade, First(dispatching))
           \/ sent[m].trade = First(dispatching) /\ (at = "bought" => sent[m].side = "BUY")
      ELSE last # 0 /\ (sent[m].trade = last \/ Earlier(sent[m].trade, last))

\* What is to be told is being told or dispatched.
ToTellInv ==
  /\ \A k \in 1 .. begun : Late(k) \/ IsTold(k) \/ k \in dispatching
  /\ Dispatching => \A side \in Sides :
       side = "BUY" \/ at # "bought" =>
         \E m \in DOMAIN sent : sent[m].trade = First(dispatching) /\ sent[m].side = side

\* Is no sibling of order i, which trade k filled, left in the book?
Settled(i, k, side) ==
  StatusOf(k, side) = "FILLED" /\ i \in byId =>
    \A j \in WereThere(k) : IsSibling(j, i) /\ status[j] = "ACTIVE" => j \notin InBook

\* What was told is settled, but for the trade at hand, whose sides are in found
\* while orders_by_id has their orders.
SettledInv ==
  /\ \A m \in DOMAIN sent : \/ Settled(sent[m].order, sent[m].trade, sent[m].side)
                            \/ Dispatching /\ sent[m].trade = First(dispatching)
  /\ Dispatching => \A side \in Sides :
       (side = "BUY" \/ at # "bought") /\ Party(First(dispatching), side) \in byId => side \in found

\* The invariant of the exchange.
ExchangeInv ==
  BookInv /\ DispatchType /\ ToldInv /\ NoDuplicateNotifications /\ ToTellInv /\ SettledInv

-----------------------------------------------------------------------------
(* What the steps of the book leave of what was told and settled.          *)

\* No step makes an order of before active again, or puts it back.
Onward ==
  /\ Len(history) <= Len(history') /\ \A k \in DOMAIN history : history'[k] = history[k]
  /\ Received \subseteq Received' /\ history' \in Seq(TradeRecord')
  /\ \A i \in Received : /\ i \in byId' => i \in byId
                         /\ status'[i] = "ACTIVE" => status[i] = "ACTIVE"
                         /\ i \in InBook' => i \in InBook
                         /\ orders'[i].group = orders[i].group /\ orders'[i].agent = orders[i].agent

\* No step puts an order that is there back to rest.
LEMMA RestingShrinks ==
  ASSUME BookInv, Abstract PROVE \A j \in Received : j \in RestingOf' => j \in RestingOf
<1>1. Received = 1 .. Len(orders) /\ Len(orders) \in Nat
  BY OrderFacts DEF BookInv
<1>2. ASSUME UNCHANGED PriceTime!vars PROVE RestingOf' = RestingOf
  BY <1>2 DEF PriceTime!vars, RestingOf
<1>3. ASSUME NEW s, NEW limit, NEW quantity, PriceTime!Arrive(s, limit, quantity)
      PROVE  RestingOf' \subseteq RestingOf \cup {Len(orders) + 1}
  <2>1. RestingOf' = IF limit = NoPrice THEN RestingOf ELSE RestingOf \cup {Len(SidesOf) + 1}
    BY <1>3 DEF PriceTime!Arrive, RestingOf, SidesOf
  <2>2. Len(SidesOf) = Len(orders)
    <3>1. SidesOf = [i \in 1 .. Len(orders) |-> orders[i].side] BY <1>1 DEF SidesOf
    <3> QED BY <1>1, <3>1
  <2> HIDE DEF RestingOf
  <2> QED BY <2>1, <2>2
<1>4. ASSUME NEW x, PriceTime!Take(x) PROVE RestingOf' \subseteq RestingOf
  BY <1>4 DEF PriceTime!Take, RestingOf
<1>5. ASSUME PriceTime!NextTaker PROVE RestingOf' = RestingOf BY <1>5 DEF PriceTime!NextTaker, RestingOf
<1>6. ASSUME NEW x, PriceTime!Withdraw(x) PROVE RestingOf' \subseteq RestingOf
  BY <1>6 DEF PriceTime!Withdraw, RestingOf
<1>7. RestingOf' \subseteq RestingOf \cup {Len(orders) + 1}
  BY <1>2, <1>3, <1>4, <1>5, <1>6 DEF Abstract, PriceTime!Next
<1> HIDE DEF RestingOf
<1> QED BY <1>1, <1>7

\* What stands in the book are the stop orders and the orders that rest.
LEMMA InBookIs == InBook = Range(stops) \cup RestingOf
BY DEF InBook, RestingOf

\* What to show of a step of the book for Onward.
LEMMA OnwardFrom ==
  ASSUME BookInv, BookInv', [Next]_vars,
         Len(history) <= Len(history'), \A k \in DOMAIN history : history'[k] = history[k],
         Received \subseteq Received',
         \A i \in Received : /\ i \in byId' => i \in byId
                             /\ status'[i] = "ACTIVE" => status[i] = "ACTIVE"
                             /\ i \in Range(stops') => i \in Range(stops)
                             /\ orders'[i].group = orders[i].group /\ orders'[i].agent = orders[i].agent
  PROVE  Onward
<1>1. \A j \in Received : j \in RestingOf' => j \in RestingOf BY BookTakes, RestingShrinks
<1>2. (InBook = Range(stops) \cup RestingOf)' BY InBookIs, PTL
<1>3. InBook = Range(stops) \cup RestingOf BY InBookIs
<1>4. history' \in Seq(TradeRecord') BY DEF BookInv, BookType
<1> HIDE DEF Received, InBook, RestingOf, TradeRecord
<1> QED BY <1>1, <1>2, <1>3, <1>4 DEF Onward

\* A trade goes onward.
LEMMA TradeOnward ==
  ASSUME BookInv, BookInv', [Next]_vars, NEW b, NEW a, NEW price, NEW time, Trade(b, a, price, time),
         UNCHANGED <<orders, stops>>, byId' \subseteq byId
  PROVE  Onward
<1>1. history \in Seq(TradeRecord) BY DEF BookInv, BookType
<1>2. PICK new : history' = Append(history, new) BY DEF Trade
<1>3. Len(history) <= Len(history') /\ \A k \in DOMAIN history : history'[k] = history[k]
  <2> HIDE DEF TradeRecord
  <2> QED BY <1>1, <1>2
<1>4. \A i \in Received : status'[i] = "ACTIVE" => status[i] = "ACTIVE"
  <2>1. PICK left : status' = [i \in Received |->
                                 IF i \notin {b, a} THEN status[i]
                                 ELSE IF left[i] = 0 THEN "FILLED" ELSE "PARTIALLY_FILLED"]
    BY DEF Trade
  <2> QED BY <2>1
<1>5. Received \subseteq Received' BY DEF Received
<1> HIDE DEF Received
<1> QED BY <1>3, <1>4, <1>5, OnwardFrom

\* A step with no trade that cancels at most goes onward.
LEMMA QuietOnward ==
  ASSUME BookInv, BookInv', [Next]_vars, UNCHANGED history, Received' = Received, byId' \subseteq byId,
         \A i \in Received : status'[i] \in {status[i], "CANCELED"}, Range(stops') \subseteq Range(stops),
         \A i \in Received : orders'[i].group = orders[i].group /\ orders'[i].agent = orders[i].agent
  PROVE  Onward
<1>1. history \in Seq(TradeRecord) BY DEF BookInv, BookType
<1>2. Len(history) <= Len(history')
  <2> HIDE DEF TradeRecord
  <2> QED BY <1>1
<1> HIDE DEF Received
<1> QED BY <1>2, OnwardFrom

\* Every step of the book goes onward.
LEMMA BookOnward == ASSUME BookInv, BookInv', [Next]_vars PROVE Onward
<1>0. BookType /\ KnownInv /\ LoopInv /\ stops \in Seq(Received) /\ history \in Seq(TradeRecord)
  BY DEF BookInv, BookType
<1>1. ASSUME NEW r \in Requests, AddOrder(r) PROVE Onward
  <2>1. PICK n : n \notin Received /\ Received' = Received \cup {n} /\ n = Len(orders) + 1
        /\ \A i \in Received : orders'[i] = orders[i] /\ status'[i] = status[i]
    BY <1>1, AddingAtEnd
  <2>2. /\ byId' = byId \cup {n} /\ history' = history
        /\ stops' = stops \/ stops' = Append(stops, n)
    BY <1>1, <2>1 DEF AddOrder
  <2>3. \A i \in Received : i \in Range(stops') => i \in Range(stops)
    <3>1. Range(Append(stops, n)) = Range(stops) \cup {n}
      <4>1. stops \in Seq(Received \cup {n}) BY <1>0, SeqMore
      <4> HIDE DEF Received
      <4>2. Len(Append(stops, n)) = Len(stops) + 1 /\ Append(stops, n)[Len(stops) + 1] = n
            /\ Len(stops) \in Nat
            /\ \A k \in 1 .. Len(stops) : Append(stops, n)[k] = stops[k]
            /\ DOMAIN Append(stops, n) = 1 .. Len(stops) + 1 /\ DOMAIN stops = 1 .. Len(stops)
        BY <4>1
      <4>3. 1 .. Len(stops) + 1 = (1 .. Len(stops)) \cup {Len(stops) + 1} BY <4>2
      <4> QED BY <4>2, <4>3 DEF Range
    <3> HIDE DEF Received
    <3> QED BY <2>1, <2>2, <3>1
  <2>4. Len(history) <= Len(history')
    <3> HIDE DEF TradeRecord
    <3> QED BY <1>0, <2>2
  <2> HIDE DEF Received
  <2> QED BY <2>1, <2>2, <2>3, <2>4, OnwardFrom
<1>2. ASSUME NEW i \in Received, CancelOrder(i) PROVE Onward
  <2>1. /\ UNCHANGED <<orders, history>> /\ status' = [status EXCEPT ![i] = "CANCELED"]
        /\ byId' \subseteq byId /\ (stops' = stops \/ stops' = KeepOnly(stops, Received \ {i}))
    BY <1>2 DEF CancelOrder, CancelStop, CancelLimit, Cancelled
  <2>2. \A j \in Received : status'[j] \in {status[j], "CANCELED"}
    <3>1. status \in Seq(Statuses) /\ Received = 1 .. Len(status)
      BY <1>0, OrderFacts DEF BookType
    <3> HIDE DEF Received, Statuses
    <3> QED BY <2>1, <3>1
  <2>3. Range(stops') \subseteq Range(stops) /\ Received' = Received
    <3>1. Received' = Received BY <2>1 DEF Received
    <3> HIDE DEF Received
    <3> QED BY <1>0, <2>1, <3>1, KeptOf
  <2> HIDE DEF Received
  <2> QED BY <2>1, <2>2, <2>3, QuietOnward
<1>3. ASSUME MatchMarket \/ MatchLimit PROVE Onward
  <2>1. UNCHANGED <<orders, stops>> /\ byId' \subseteq byId BY <1>3 DEF MatchMarket, MatchLimit
  <2>2. \E b, a, price, time : Trade(b, a, price, time) BY <1>3 DEF MatchMarket, MatchLimit
  <2> QED BY <2>1, <2>2, TradeOnward
<1>4. ASSUME UNCHANGED <<orders, status, byId, stops, history>> PROVE Onward
  <2>1. Received' = Received BY <1>4 DEF Received
  <2> QED BY <1>4, <2>1, QuietOnward
<1>5. ASSUME NEW fired \in Seq(Received), fired # <<>>, \A i \in Range(fired) : ~IsLimit(i),
             Execute(fired), UNCHANGED <<status, history>>, byId' \subseteq byId,
             Range(stops') \subseteq Range(stops)
      PROVE  Onward
  <2>1. /\ orders' \in Seq(Request) /\ Len(orders') = Len(orders)
        /\ \A i \in Received : orders'[i].group = orders[i].group /\ orders'[i].agent = orders[i].agent
    BY <1>5, ExecuteEffect
  <2>2. Received' = Received
    <3>1. orders \in Seq(Request) BY <1>0 DEF BookType
    <3> HIDE DEF Request
    <3> QED BY <2>1, <3>1 DEF Received
  <2> HIDE DEF Received
  <2> QED BY <1>5, <2>1, <2>2, QuietOnward
<1>6. ASSUME CheckStops PROVE Onward
  <2>1. PICK fires : fires = {i \in Range(stops) : ~NoMarket /\ Reached(i, MarketPrice)} OBVIOUS
  <2>2. PICK fired : fired = KeepOnly(stops, fires) OBVIOUS
  <2>3. /\ UNCHANGED <<byId, status, history>> /\ stops' = KeepOnly(stops, Received \ fires)
        /\ \/ fired = <<>> /\ UNCHANGED orders
           \/ fired # <<>> /\ Execute(fired)
    BY <1>6, <2>1, <2>2 DEF CheckStops
  <2>4. /\ fired \in Seq(Received) /\ Range(fired) \subseteq Range(stops)
        /\ Range(stops') \subseteq Range(stops)
    <3> HIDE DEF Received
    <3> QED BY <1>0, <2>2, <2>3, KeptOf
  <2>5. \A i \in Range(fired) : ~IsLimit(i) BY <1>0, <2>4 DEF KnownInv, IsLimit
  <2>6. CASE UNCHANGED orders
    <3>1. Received' = Received BY <2>6 DEF Received
    <3> QED BY <2>3, <2>4, <2>6, <3>1, QuietOnward
  <2>7. CASE fired # <<>> /\ Execute(fired) BY <1>5, <2>3, <2>4, <2>5, <2>7
  <2> QED BY <2>3, <2>6, <2>7
<1>7. ASSUME EndStop PROVE Onward
  <2>1. /\ byId' \subseteq byId /\ UNCHANGED <<status, history, stops>>
        /\ \/ UNCHANGED orders
           \/ triggered # <<>> /\ Execute(triggered)
    BY <1>7 DEF EndStop
  <2>2. triggered \in Seq(Received) /\ \A i \in Range(triggered) : ~IsLimit(i)
    BY <1>0 DEF BookType, LoopInv
  <2>3. CASE UNCHANGED orders
    <3>1. Received' = Received BY <2>3 DEF Received
    <3> QED BY <2>1, <2>3, <3>1, QuietOnward
  <2>4. CASE triggered # <<>> /\ Execute(triggered) BY <1>5, <2>1, <2>2, <2>4
  <2> QED BY <2>1, <2>3, <2>4
<1>8. ASSUME SkipEmptyLevel \/ DropCrossedLevel \/ EndMarket \/ EndLimit \/ Quote \/ NewTime \/ UNCHANGED vars
      PROVE  Onward
  BY <1>4, <1>8 DEF SkipEmptyLevel, DropCrossedLevel, EndMarket, EndLimit, Quote, NewTime, vars, orderVars
<1> QED BY <1>1, <1>2, <1>3, <1>6, <1>7, <1>8 DEF Next, Matching

\* The trades, by number.
Trades == DOMAIN history

\* What the book's invariant says of the trades.
LEMMA TradeFacts ==
  ASSUME BookInv
  PROVE  /\ Trades = 1 .. Len(history) /\ Len(history) \in Nat /\ IsFiniteSet(Trades) /\ Trades \in SUBSET Nat
         /\ \A k \in Trades : /\ history[k].time \in Nat
                              /\ history[k].buy \in Received /\ history[k].sell \in Received
<1>1. BookType BY DEF BookInv
<1>2. Trades = 1 .. Len(history) /\ Len(history) \in Nat /\ \A k \in Trades : history[k] \in TradeRecord
  BY <1>1, OrderFacts DEF Trades
<1>3. IsFiniteSet(1 .. Len(history)) BY <1>2, FS_Interval
<1>4. \A k \in Trades : /\ history[k].time \in Nat
                        /\ history[k].buy \in Received /\ history[k].sell \in Received
  <2> HIDE DEF Received
  <2> QED BY <1>2 DEF TradeRecord
<1>5. Trades \in SUBSET Nat BY <1>2
<1> QED BY <1>2, <1>3, <1>4, <1>5

\* trade_history is sorted by a total order.
LEMMA EarlierOrders ==
  ASSUME BookInv
  PROVE  \A j, k, l \in Trades : /\ ~Earlier(k, k)
                                 /\ Earlier(j, k) => ~Earlier(k, j)
                                 /\ j = k \/ Earlier(j, k) \/ Earlier(k, j)
                                 /\ Earlier(j, k) /\ Earlier(k, l) => Earlier(j, l)
<1>1. \A k \in Trades : k \in Nat /\ history[k].time \in Nat BY TradeFacts
<1> HIDE DEF Trades
<1> QED BY <1>1 DEF Earlier

\* The first of some trades is one of them and earlier than the rest.
LEMMA FirstIs ==
  ASSUME BookInv, NEW S \in SUBSET Trades, S # {}
  PROVE  First(S) \in S /\ \A j \in S \ {First(S)} : Earlier(First(S), j)
<1>1. Trades \in SUBSET Nat /\ \A k \in Trades : history[k].time \in Nat BY TradeFacts
<1> HIDE DEF Trades
<1> DEFINE T == {history[k].time : k \in S}
<1>2. PICK t \in T : \A u \in T : t <= u
  <2>1. T \in SUBSET Nat /\ T # {} BY <1>1
  <2> HIDE DEF T
  <2> QED BY <2>1, LeastElement
<1> DEFINE U == {k \in S : history[k].time = t}
<1>3. PICK k \in U : \A j \in U : k <= j
  <2>1. U \in SUBSET Nat /\ U # {} BY <1>1, <1>2
  <2> HIDE DEF U
  <2> QED BY <2>1, LeastElement
<1>4. k \in S /\ \A j \in S \ {k} : Earlier(k, j)
  <2>1. k \in S /\ history[k].time = t /\ t \in Nat /\ k \in Nat BY <1>1, <1>3
  <2>2. ASSUME NEW j \in S \ {k} PROVE Earlier(k, j)
    <3>1. t <= history[j].time /\ history[j].time \in Nat /\ j \in Nat BY <1>1, <1>2
    <3>2. history[j].time = t => k <= j /\ k # j BY <1>3
    <3> HIDE DEF T, U
    <3> QED BY <2>1, <3>1, <3>2 DEF Earlier
  <2> QED BY <2>1, <2>2
<1> QED BY <1>4 DEF First

\* The last of some trades is one of them and later than the rest.
LEMMA LastIs ==
  ASSUME BookInv, NEW S \in SUBSET Trades, S # {}
  PROVE  LastOf(S) \in S /\ \A j \in S \ {LastOf(S)} : Earlier(j, LastOf(S))
<1>1. Trades \in SUBSET Nat /\ (\A k \in Trades : history[k].time \in Nat) /\ IsFiniteSet(S)
  BY TradeFacts, FS_Subset
<1> HIDE DEF Trades
<1> DEFINE T == {history[k].time : k \in S}
<1>2. PICK t \in T : \A u \in T : u <= t
  <2>1. T \in SUBSET Nat /\ T # {} BY <1>1
  <2>2. IsFiniteSet(T)
    <3>1. [k \in S |-> history[k].time] \in Surjection(S, T) BY DEF Surjection
    <3> HIDE DEF T
    <3> QED BY <1>1, <3>1, FS_Surjection
  <2> HIDE DEF T
  <2> QED BY <2>1, <2>2, GreatestElement
<1> DEFINE U == {k \in S : history[k].time = t}
<1>3. PICK k \in U : \A j \in U : j <= k
  <2>1. U \in SUBSET Nat /\ U # {} BY <1>1, <1>2
  <2>2. U \subseteq S OBVIOUS
  <2> HIDE DEF U
  <2> QED BY <1>1, <2>1, <2>2, FS_Subset, GreatestElement
<1>4. k \in S /\ \A j \in S \ {k} : Earlier(j, k)
  <2>1. k \in S /\ history[k].time = t /\ t \in Nat /\ k \in Nat BY <1>1, <1>3
  <2>2. ASSUME NEW j \in S \ {k} PROVE Earlier(j, k)
    <3>1. history[j].time <= t /\ history[j].time \in Nat /\ j \in Nat BY <1>1, <1>2
    <3>2. history[j].time = t => j <= k /\ k # j BY <1>3
    <3> HIDE DEF T, U
    <3> QED BY <2>1, <3>1, <3>2 DEF Earlier
  <2> QED BY <2>1, <2>2
<1> QED BY <1>4 DEF LastOf

\* What is known of a trade stays known.
LEMMA TradesStay ==
  ASSUME BookInv, BookInv', Onward, NEW k \in Trades
  PROVE  /\ k \in Trades' /\ history'[k] = history[k]
         /\ \A j \in Trades : Earlier(k, j)' <=> Earlier(k, j)
         /\ Late(k)' <=> Late(k)
         /\ \A side : Party(k, side)' = Party(k, side) /\ StatusOf(k, side)' = StatusOf(k, side)
         /\ Party(k, "BUY") \in Received /\ Party(k, "SELL") \in Received
<1>1. Trades = 1 .. Len(history) /\ Len(history) \in Nat BY TradeFacts
<1>2. (Trades = 1 .. Len(history) /\ Len(history) \in Nat)'
  <2>1. (BookInv => Trades = 1 .. Len(history) /\ Len(history) \in Nat)' BY TradeFacts, PTL
  <2> QED BY <2>1
<1>3. Len(history) <= Len(history') /\ \A j \in Trades : history'[j] = history[j] BY DEF Onward, Trades
<1>4. Trades \subseteq Trades' BY <1>1, <1>2, <1>3
<1>5. \A j \in Trades : Earlier(k, j)' <=> Earlier(k, j) BY <1>3 DEF Earlier
<1>6. Late(k)' <=> Late(k)
  <2>1. \A j \in 1 .. k - 1 : j \in Trades BY <1>1
  <2>2. \A j \in 1 .. k - 1 : history'[j].time > history'[k].time <=> history[j].time > history[k].time
    BY <1>3, <2>1
  <2> QED BY <2>2 DEF Late
<1>7. Party(k, "BUY") \in Received /\ Party(k, "SELL") \in Received BY TradeFacts DEF Party
<1> QED BY <1>3, <1>4, <1>5, <1>6, <1>7 DEF Party, StatusOf

\* The orders are numbered from one.
LEMMA OrdersAre == ASSUME BookInv PROVE Received = 1 .. Len(orders) /\ Len(orders) \in Nat
BY OrderFacts DEF BookInv

\* Is f the first trade of the batch?
IsFirst(f) == f \in dispatching /\ \A j \in dispatching \ {f} : Earlier(f, j)

\* The first of the trades being told is first in the sense of IsFirst.
LEMMA FirstIsFirst ==
  ASSUME BookInv, dispatching \subseteq Trades, dispatching # {}
  PROVE  IsFirst(First(dispatching))
BY FirstIs DEF IsFirst

\* The first of the trades that are dispatched next.
LEMMA FirstNext ==
  ASSUME BookInv, BookInv', Onward, NEW S \in SUBSET Trades, S # {}, dispatching' = S
  PROVE  First(dispatching)' = First(S)
<1>1. IsFirst(First(dispatching))'
  <2>1. (BookInv /\ dispatching \subseteq Trades /\ dispatching # {} => IsFirst(First(dispatching)))'
    BY FirstIsFirst, PTL
  <2>2. S \subseteq Trades' BY TradesStay
  <2> QED BY <2>1, <2>2
<1>2. First(S) \in S /\ \A j \in S \ {First(S)} : Earlier(First(S), j) BY FirstIs
<1>3. PICK f : f = First(dispatching)' OBVIOUS
<1>4. PICK g : g = First(S) OBVIOUS
<1>5. f \in S /\ \A j \in S \ {f} : Earlier(f, j)' BY <1>1, <1>3 DEF IsFirst
<1>6. \A j \in S \ {f} : Earlier(f, j) BY <1>5, TradesStay
<1>7. g \in S /\ \A j \in S \ {g} : Earlier(g, j) BY <1>2, <1>4
<1> HIDE DEF Trades
<1>8. f = g BY <1>5, <1>6, <1>7, EarlierOrders
<1> QED BY <1>3, <1>4, <1>8

\* An order that is settled stays so: its siblings can neither come back nor become active
\* again.
LEMMA SettledStays ==
  ASSUME BookInv, BookInv', Onward, NEW k \in Trades, NEW side \in Sides, NEW i, i = Party(k, side),
         Settled(i, k, side)
  PROVE  Settled(i, k, side)'
<1>1. i \in Received BY TradesStay DEF Sides
<1>2. SUFFICES ASSUME StatusOf(k, side)' = "FILLED", i \in byId',
                      NEW j \in WereThere(k)', IsSibling(j, i)', status'[j] = "ACTIVE"
               PROVE  j \notin InBook'
  BY DEF Settled
<1>3. history'[k] = history[k] /\ StatusOf(k, side)' = StatusOf(k, side) BY TradesStay
<1>4. history[k].buy \in Received /\ history[k].sell \in Received BY TradeFacts
<1>5. j \in Received /\ j \in WereThere(k)
  <2>1. Received = 1 .. Len(orders) /\ Len(orders) \in Nat BY OrderFacts DEF BookInv
  <2>2. j \in Received' /\ (j <= history[k].buy \/ j <= history[k].sell) BY <1>2, <1>3 DEF WereThere
  <2>3. j \in Nat /\ 1 <= j
    <3>1. (BookInv => Received = 1 .. Len(orders) /\ Len(orders) \in Nat)' BY OrdersAre, PTL
    <3> QED BY <2>2, <3>1
  <2>4. j \in Received BY <1>4, <2>1, <2>2, <2>3
  <2> QED BY <2>2, <2>4 DEF WereThere
<1>6. IsSibling(j, i) BY <1>1, <1>2, <1>5 DEF Onward, IsSibling
<1>7. i \in byId /\ status[j] = "ACTIVE" BY <1>1, <1>2, <1>5 DEF Onward
<1>8. j \notin InBook BY <1>2, <1>3, <1>5, <1>6, <1>7 DEF Settled
<1> QED BY <1>5, <1>8 DEF Onward

\* What may be sent.
Messages == [trade : DOMAIN history, side : Sides, order : Received, short : BOOLEAN]

\* What the invariant says of the trades and of the messages sent.
LEMMA DispatchFacts ==
  ASSUME ExchangeInv
  PROVE  /\ begun \in Nat /\ begun <= Len(history) /\ 1 .. begun \subseteq Trades
         /\ dispatching \in SUBSET Trades
         /\ Dispatching => newest \in Trades /\ First(dispatching) \in dispatching
                           /\ \A j \in dispatching \ {First(dispatching)} : Earlier(First(dispatching), j)
         /\ last # 0 => last \in Trades
         /\ sent \in Seq(Messages)
         /\ \A m \in DOMAIN sent : /\ sent[m].trade \in Trades /\ sent[m].side \in Sides
                                   /\ sent[m].order = Party(sent[m].trade, sent[m].side)
<1>1. BookInv /\ DispatchType BY DEF ExchangeInv
<1>2. Trades = 1 .. Len(history) /\ Len(history) \in Nat BY <1>1, TradeFacts
<1>3. begun \in 0 .. Len(history) /\ last \in 0 .. begun /\ dispatching \subseteq 1 .. begun
  BY <1>1 DEF DispatchType
<1>4. 1 .. begun \subseteq Trades /\ (last # 0 => last \in Trades) BY <1>2, <1>3
<1>5. dispatching \in SUBSET Trades BY <1>3, <1>4
<1>6. Dispatching => newest \in Trades /\ First(dispatching) \in dispatching
                     /\ \A j \in dispatching \ {First(dispatching)} : Earlier(First(dispatching), j)
  <2> HIDE DEF Trades, Dispatching
  <2> QED BY <1>1, <1>5, FirstIs DEF DispatchType
<1>7. sent \in Seq(Messages) BY <1>1 DEF DispatchType, Messages
<1>8. \A m \in DOMAIN sent : sent[m] \in Messages
  <2> HIDE DEF Messages
  <2> QED BY <1>7
<1>9. \A m \in DOMAIN sent : /\ sent[m].trade \in Trades /\ sent[m].side \in Sides
                             /\ sent[m].order = Party(sent[m].trade, sent[m].side)
  <2>1. \A x \in Messages : x.trade \in Trades /\ x.side \in Sides
    <3> HIDE DEF Received
    <3> QED BY DEF Messages, Trades
  <2> HIDE DEF Messages
  <2> QED BY <1>1, <1>8, <2>1 DEF DispatchType
<1> QED BY <1>2, <1>3, <1>4, <1>5, <1>6, <1>7, <1>9

\* Messages of before are messages still.
LEMMA MessagesStay == ASSUME Onward, Trades \subseteq Trades' PROVE sent \in Seq(Messages) => sent \in Seq(Messages')
<1>1. Messages \subseteq Messages'
  <2>1. Received \subseteq Received' BY DEF Onward
  <2> HIDE DEF Received
  <2> QED BY <2>1 DEF Messages, Trades
<1> HIDE DEF Messages
<1> QED BY <1>1, SeqMore

\* The book goes on while the exchange awaits.
LEMMA OnwardKeeps ==
  ASSUME ExchangeInv, BookInv', Onward, UNCHANGED <<at, dispatchVars>>, at = "siblings" => pc' = "idle"
  PROVE  ExchangeInv'
<1>1. BookInv /\ DispatchType /\ ToldInv /\ NoDuplicateNotifications /\ ToTellInv /\ SettledInv
  BY DEF ExchangeInv
<1>2. /\ begun \in Nat /\ begun <= Len(history) /\ 1 .. begun \subseteq Trades
      /\ dispatching \in SUBSET Trades
      /\ Dispatching => newest \in Trades /\ First(dispatching) \in dispatching
      /\ last # 0 => last \in Trades
      /\ sent \in Seq(Messages)
      /\ \A m \in DOMAIN sent : /\ sent[m].trade \in Trades /\ sent[m].side \in Sides
                                /\ sent[m].order = Party(sent[m].trade, sent[m].side)
  BY DispatchFacts
<1>3. /\ at' = at /\ dispatching' = dispatching /\ newest' = newest /\ last' = last /\ found' = found
      /\ sent' = sent /\ begun' = begun
  BY DEF dispatchVars
<1>4. \A k \in Trades : /\ k \in Trades'
                        /\ \A j \in Trades : Earlier(k, j)' <=> Earlier(k, j)
                        /\ Late(k)' <=> Late(k)
                        /\ \A side : Party(k, side)' = Party(k, side)
  BY <1>1, TradesStay
<1>5. Dispatching => First(dispatching)' = First(dispatching)
  BY <1>1, <1>2, <1>3, FirstNext DEF DispatchType
<1>6. Dispatching' <=> Dispatching BY <1>3 DEF Dispatching
<1>7. Len(history) \in Nat /\ Len(history') \in Nat /\ Len(history) <= Len(history')
  <2>1. (BookInv => Len(history) \in Nat)' BY TradeFacts, PTL
  <2> QED BY <1>1, <2>1, TradeFacts DEF Onward
<1>8. sent \in Seq(Messages') /\ begun \in 0 .. Len(history')
  <2>1. Trades \subseteq Trades' BY <1>4
  <2> HIDE DEF Messages, Trades
  <2> QED BY <1>2, <1>7, <2>1, MessagesStay
<1> HIDE DEF Trades, Dispatching, Received
<1>9. DispatchType'
  <2>1. \A m \in DOMAIN sent : sent[m].order = Party(sent[m].trade, sent[m].side)'
    BY <1>2, <1>3, <1>4
  <2>2. \A k \in dispatching : k = newest \/ Earlier(k, newest)'
    <3> SUFFICES ASSUME NEW k \in dispatching PROVE k = newest \/ Earlier(k, newest)' OBVIOUS
    <3>1. Dispatching /\ newest \in Trades /\ k \in Trades BY <1>1, <1>2 DEF DispatchType
    <3> QED BY <1>1, <1>3, <1>4, <3>1 DEF DispatchType
  <2> QED BY <1>1, <1>3, <1>6, <1>8, <2>1, <2>2 DEF DispatchType, Messages
<1>10. ToldInv'
  <2> SUFFICES ASSUME NEW m \in DOMAIN sent
               PROVE  (IF Dispatching
                         THEN \/ Earlier(sent[m].trade, First(dispatching))
                              \/ sent[m].trade = First(dispatching) /\ (at = "bought" => sent[m].side = "BUY")
                         ELSE last # 0 /\ (sent[m].trade = last \/ Earlier(sent[m].trade, last)))'
    BY <1>3 DEF ToldInv
  <2>1. PICK k : k = sent[m].trade OBVIOUS
  <2>2. k \in Trades BY <1>2, <2>1
  <2>3. CASE Dispatching
    <3>1. PICK f : f = First(dispatching) OBVIOUS
    <3>2. f \in Trades /\ First(dispatching)' = f BY <1>2, <1>5, <2>3, <3>1
    <3>3. Earlier(k, f) \/ (k = f /\ (at = "bought" => sent[m].side = "BUY"))
      BY <1>1, <2>1, <2>3, <3>1 DEF ToldInv
    <3>4. Earlier(k, f)' \/ (k = f /\ (at = "bought" => sent[m].side = "BUY"))
      BY <1>4, <2>2, <3>2, <3>3
    <3> QED BY <1>3, <1>6, <2>1, <2>3, <3>2, <3>4
  <2>4. CASE ~Dispatching
    <3>1. last # 0 /\ (k = last \/ Earlier(k, last)) BY <1>1, <2>1, <2>4 DEF ToldInv
    <3>2. k = last \/ Earlier(k, last)' BY <1>2, <1>3, <1>4, <2>2, <3>1
    <3> QED BY <1>3, <1>6, <2>1, <2>4, <3>1, <3>2
  <2> QED BY <2>3, <2>4
<1>11. NoDuplicateNotifications' BY <1>1, <1>3 DEF NoDuplicateNotifications
<1>12. ToTellInv'
  <2>1. \A k \in 1 .. begun : Late(k)' \/ IsTold(k)' \/ k \in dispatching
    <3>1. \A k : IsTold(k)' <=> IsTold(k) BY <1>3 DEF IsTold
    <3> QED BY <1>1, <1>2, <1>4, <3>1 DEF ToTellInv
  <2>2. Dispatching => \A side \in Sides : side = "BUY" \/ at # "bought" =>
          \E m \in DOMAIN sent : sent[m].trade = First(dispatching)' /\ sent[m].side = side
    BY <1>1, <1>5 DEF ToTellInv
  <2> QED BY <1>3, <1>6, <2>1, <2>2 DEF ToTellInv
<1>13. SettledInv'
  <2>1. ASSUME NEW m \in DOMAIN sent
        PROVE  \/ Settled(sent[m].order, sent[m].trade, sent[m].side)'
               \/ Dispatching' /\ sent[m].trade = First(dispatching)'
    <3>1. PICK i : i = sent[m].order OBVIOUS
    <3>2. PICK k : k = sent[m].trade OBVIOUS
    <3>3. PICK side : side = sent[m].side OBVIOUS
    <3>4. k \in Trades /\ side \in Sides /\ i = Party(k, side) BY <1>2, <2>1, <3>1, <3>2, <3>3
    <3>5. CASE Settled(i, k, side)
      <4>1. Settled(i, k, side)' BY <1>1, <3>4, <3>5, SettledStays
      <4> QED BY <1>3, <3>1, <3>2, <3>3, <4>1
    <3>6. CASE ~Settled(i, k, side)
      <4>1. Dispatching /\ k = First(dispatching) BY <1>1, <2>1, <3>1, <3>2, <3>3, <3>6 DEF SettledInv
      <4> QED BY <1>5, <1>6, <3>2, <4>1
    <3> QED BY <3>5, <3>6
  <2>2. ASSUME Dispatching', NEW side \in Sides, side = "BUY" \/ at' # "bought",
               Party(First(dispatching), side)' \in byId'
        PROVE  side \in found'
    <3>1. PICK f : f = First(dispatching) OBVIOUS
    <3>2. f \in Trades /\ First(dispatching)' = f /\ Dispatching BY <1>2, <1>5, <1>6, <2>2, <3>1
    <3>3. Party(f, side)' = Party(f, side) /\ Party(f, side) \in Received
      <4>1. Party(f, "BUY") \in Received /\ Party(f, "SELL") \in Received BY <1>1, <3>2, TradesStay
      <4> QED BY <1>4, <3>2, <4>1 DEF Sides
    <3>4. Party(f, side)' \in byId' BY <2>2, <3>2
    <3>5. Party(f, side) \in byId BY <3>3, <3>4 DEF Onward
    <3> QED BY <1>1, <1>3, <2>2, <3>1, <3>2, <3>5 DEF SettledInv
  <2> QED BY <1>3, <2>1, <2>2 DEF SettledInv
<1> QED BY <1>9, <1>10, <1>11, <1>12, <1>13 DEF ExchangeInv

\* The orders and the trades stay as they are while something is told.
Still == UNCHANGED <<orders, status, byId, book, stops, history>>

\* While the book is still, nothing said of its trades changes.
LEMMA StillSame ==
  ASSUME Still
  PROVE  /\ Trades' = Trades /\ Messages' = Messages /\ Received' = Received
         /\ \A j, k : Earlier(j, k)' <=> Earlier(j, k)
         /\ \A k : Late(k)' <=> Late(k)
         /\ \A k, side : Party(k, side)' = Party(k, side)
         /\ \A i, k, side : Settled(i, k, side)' <=> Settled(i, k, side)
<1>1. UNCHANGED <<orders, status, byId, book, stops, history>> BY DEF Still
<1>2. Trades' = Trades /\ Received' = Received BY <1>1 DEF Trades, Received
<1>3. Messages' = Messages BY <1>1, <1>2 DEF Messages
<1>4. \A j, k : Earlier(j, k)' <=> Earlier(j, k) BY <1>1 DEF Earlier
<1>5. \A k : Late(k)' <=> Late(k) BY <1>1 DEF Late
<1>6. \A k, side : Party(k, side)' = Party(k, side) BY <1>1 DEF Party
<1>7. \A k, side : StatusOf(k, side)' = StatusOf(k, side) BY <1>1 DEF StatusOf
<1>8. \A s, p : Queue(s, p)' = Queue(s, p) BY <1>1 DEF Queue
<1>9. InBook' = InBook BY <1>1, <1>2, <1>8 DEF InBook
<1>10. \A k : WereThere(k)' = WereThere(k) BY <1>1, <1>2 DEF WereThere
<1>11. \A j, i : IsSibling(j, i)' <=> IsSibling(j, i) BY <1>1 DEF IsSibling
<1>12. \A i, k, side : Settled(i, k, side)' <=> Settled(i, k, side)
  BY <1>1, <1>7, <1>9, <1>10, <1>11 DEF Settled
<1> QED BY <1>2, <1>3, <1>4, <1>5, <1>6, <1>12

\* Telling a side appends one message.
LEMMA SentGrows ==
  ASSUME sent \in Seq(Messages), NEW msg \in Messages, sent' = Append(sent, msg), Messages' = Messages
  PROVE  /\ sent' \in Seq(Messages')
         /\ \E n : /\ n \notin DOMAIN sent /\ DOMAIN sent' = DOMAIN sent \cup {n} /\ sent'[n] = msg
                   /\ \A m \in DOMAIN sent : sent'[m] = sent[m]
<1> HIDE DEF Messages
<1>1. sent' \in Seq(Messages') OBVIOUS
<1>2. PICK n : n = Len(sent) + 1 OBVIOUS
<1>3. DOMAIN sent = 1 .. Len(sent) /\ DOMAIN sent' = 1 .. Len(sent) + 1 /\ Len(sent) \in Nat /\ sent'[n] = msg
      /\ \A m \in DOMAIN sent : sent'[m] = sent[m]
  BY <1>2
<1>4. n \notin DOMAIN sent /\ DOMAIN sent' = DOMAIN sent \cup {n} BY <1>2, <1>3
<1> QED BY <1>1, <1>3, <1>4

\* One party is told of a trade.
LEMMA TellEffect ==
  ASSUME BookInv, sent \in Seq(Messages), Still, NEW k \in Trades, NEW side \in Sides, Tell(k, side)
  PROVE  /\ sent' \in Seq(Messages')
         /\ found' = (IF side = "BUY" THEN {} ELSE found) \cup (IF Party(k, side) \in byId THEN {side} ELSE {})
         /\ \E n : /\ n \notin DOMAIN sent /\ DOMAIN sent' = DOMAIN sent \cup {n}
                   /\ sent'[n].trade = k /\ sent'[n].side = side /\ sent'[n].order = Party(k, side)
                   /\ \A m \in DOMAIN sent : sent'[m] = sent[m]
         /\ \A j : IsTold(j) => IsTold(j)'
<1> DEFINE i == Party(k, side)
           msg == [trade |-> k, side |-> side, order |-> i, short |-> i \in byId /\ orders[i].short]
<1>1. sent' = Append(sent, msg)
      /\ found' = (IF side = "BUY" THEN {} ELSE found) \cup (IF i \in byId THEN {side} ELSE {})
  BY DEF Tell
<1>2. i \in Received BY TradeFacts DEF Party
<1>3. (i \in byId /\ orders[i].short) \in BOOLEAN OBVIOUS
<1> HIDE DEF i, Received
<1>4. msg \in Messages BY <1>2, <1>3 DEF Messages, Trades
<1>5. msg.trade = k /\ msg.side = side /\ msg.order = i OBVIOUS
<1> HIDE DEF msg, Messages
<1>6. Messages' = Messages BY StillSame
<1>7. sent' \in Seq(Messages') BY <1>1, <1>4, <1>6, SentGrows
<1>8. PICK n : /\ n \notin DOMAIN sent /\ DOMAIN sent' = DOMAIN sent \cup {n} /\ sent'[n] = msg
               /\ \A m \in DOMAIN sent : sent'[m] = sent[m]
  BY <1>1, <1>4, <1>6, SentGrows
<1>9. \A j : IsTold(j) => IsTold(j)' BY <1>8 DEF IsTold
<1> QED BY <1>1, <1>5, <1>7, <1>8, <1>9 DEF i

\* A trade is taken up when all that was told is before it.
LEMMA DispatchKeeps ==
  ASSUME ExchangeInv, BookInv', Still, Onward,
         NEW S \in SUBSET Trades, S # {}, DispatchFirst(S),
         begun' \in 0 .. Len(history), last' = last, last \in 0 .. begun', S \subseteq 1 .. begun',
         newest' \in S, \A k \in S : k = newest' \/ Earlier(k, newest'),
         \A m \in DOMAIN sent : /\ Earlier(sent[m].trade, First(S))
                                /\ Settled(sent[m].order, sent[m].trade, sent[m].side),
         \A k \in 1 .. begun' : Late(k) \/ IsTold(k) \/ k \in S
  PROVE  ExchangeInv'
<1>1. BookInv /\ NoDuplicateNotifications BY DEF ExchangeInv
<1>2. at' = "bought" /\ dispatching' = S /\ Tell(First(S), "BUY") BY DEF DispatchFirst
<1>3. PICK f : f = First(S) OBVIOUS
<1>4. f \in S /\ f \in Trades BY <1>1, <1>3, FirstIs
<1>5. First(dispatching)' = f BY <1>1, <1>2, <1>3, FirstNext
<1>6. sent \in Seq(Messages)
      /\ \A m \in DOMAIN sent : /\ sent[m].trade \in Trades
                                /\ sent[m].order = Party(sent[m].trade, sent[m].side)
  BY DispatchFacts
<1>7. /\ Messages' = Messages
      /\ \A j, k : Earlier(j, k)' <=> Earlier(j, k)
      /\ \A k : Late(k)' <=> Late(k)
      /\ \A k, side : Party(k, side)' = Party(k, side)
      /\ \A i, k, side : Settled(i, k, side)' <=> Settled(i, k, side)
  BY StillSame
<1>8. "BUY" \in Sides /\ Len(history') = Len(history) BY DEF Sides, Still
<1> HIDE DEF Messages, Trades
<1>9. /\ sent' \in Seq(Messages')
      /\ found' = {} \cup (IF Party(f, "BUY") \in byId THEN {"BUY"} ELSE {})
      /\ \A j : IsTold(j) => IsTold(j)'
  BY <1>1, <1>2, <1>3, <1>4, <1>6, <1>8, TellEffect
<1>10. PICK n : /\ n \notin DOMAIN sent /\ DOMAIN sent' = DOMAIN sent \cup {n}
                /\ sent'[n].trade = f /\ sent'[n].side = "BUY" /\ sent'[n].order = Party(f, "BUY")
                /\ \A m \in DOMAIN sent : sent'[m] = sent[m]
  BY <1>1, <1>2, <1>3, <1>4, <1>6, <1>8, TellEffect
<1>11. Dispatching' BY <1>2 DEF Dispatching
<1>12. DispatchType'
  <2>1. (\A m \in DOMAIN sent : sent[m].order = Party(sent[m].trade, sent[m].side))'
    <3> SUFFICES ASSUME NEW m \in DOMAIN sent'
                 PROVE  (sent[m].order = Party(sent[m].trade, sent[m].side))'
      OBVIOUS
    <3>1. sent'[m].order = Party(sent'[m].trade, sent'[m].side) BY <1>6, <1>10
    <3> QED BY <3>1 DEF Party, Still
  <2>2. \A k \in S : k = newest' \/ Earlier(k, newest)' BY DEF Earlier, Still
  <2>3. sent' \in Seq([trade : DOMAIN history, side : Sides, order : Received, short : BOOLEAN]')
    BY <1>9 DEF Messages
  <2> QED BY <1>2, <1>8, <1>11, <2>1, <2>2, <2>3 DEF DispatchType
<1>13. ToldInv'
  <2> SUFFICES ASSUME NEW m \in DOMAIN sent'
               PROVE  Earlier(sent[m].trade, f)' \/ (sent'[m].trade = f /\ sent'[m].side = "BUY")
    BY <1>5, <1>11 DEF ToldInv
  <2>1. CASE m = n BY <1>10, <2>1
  <2>2. CASE m \in DOMAIN sent
    <3>1. Earlier(sent[m].trade, f) /\ sent'[m] = sent[m] BY <1>3, <1>10, <2>2
    <3> QED BY <3>1 DEF Earlier, Still
  <2> QED BY <1>10, <2>1, <2>2
<1>14. NoDuplicateNotifications'
  <2>1. \A m \in DOMAIN sent : sent[m].trade # f
    <3>1. ~Earlier(f, f) BY <1>1, <1>4, EarlierOrders
    <3> QED BY <1>3, <3>1
  <2> QED BY <1>1, <1>10, <2>1 DEF NoDuplicateNotifications
<1>15. ToTellInv'
  <2>1. \A k \in 1 .. begun' : Late(k)' \/ IsTold(k)' \/ k \in S BY <1>7, <1>9
  <2>2. n \in DOMAIN sent' /\ sent'[n].trade = f /\ sent'[n].side = "BUY" BY <1>10
  <2> QED BY <1>2, <1>5, <2>1, <2>2 DEF ToTellInv
<1>16. SettledInv'
  <2>1. ASSUME NEW m \in DOMAIN sent'
        PROVE  Settled(sent[m].order, sent[m].trade, sent[m].side)' \/ sent'[m].trade = f
    <3>1. CASE m = n BY <1>10, <3>1
    <3>2. CASE m \in DOMAIN sent
      <4>1. PICK i : i = sent[m].order OBVIOUS
      <4>2. PICK k : k = sent[m].trade OBVIOUS
      <4>3. PICK side : side = sent[m].side OBVIOUS
      <4>4. Settled(i, k, side)' BY <1>7, <3>2, <4>1, <4>2, <4>3
      <4>5. sent'[m].order = i /\ sent'[m].trade = k /\ sent'[m].side = side
        BY <1>10, <3>2, <4>1, <4>2, <4>3
      <4> QED BY <4>4, <4>5
    <3> QED BY <1>10, <3>1, <3>2
  <2>2. Party(f, "BUY")' \in byId' => "BUY" \in found' BY <1>7, <1>9 DEF Still
  <2> QED BY <1>2, <1>5, <1>11, <2>1, <2>2 DEF SettledInv
<1> QED BY <1>12, <1>13, <1>14, <1>15, <1>16 DEF ExchangeInv

\* Telling the seller keeps the exchange's invariant.
LEMMA TellSellerKeeps == ASSUME ExchangeInv, BookInv', Onward, TellSeller PROVE ExchangeInv'
<1>1. BookInv /\ DispatchType /\ ToldInv /\ NoDuplicateNotifications /\ ToTellInv /\ SettledInv
  BY DEF ExchangeInv
<1>2. /\ at = "bought" /\ pc = "idle" /\ at' = "sold" /\ Tell(First(dispatching), "SELL")
      /\ UNCHANGED <<vars, dispatching, newest, last, begun>>
  BY DEF TellSeller
<1>3. Still BY <1>2 DEF Still, vars, orderVars, bookVars
<1>4. Dispatching /\ Dispatching' BY <1>2 DEF Dispatching
<1>5. PICK f : f = First(dispatching) OBVIOUS
<1>6. /\ sent \in Seq(Messages) /\ f \in Trades /\ dispatching \in SUBSET Trades /\ dispatching # {}
      /\ \A m \in DOMAIN sent : /\ sent[m].trade \in Trades
                                /\ sent[m].order = Party(sent[m].trade, sent[m].side)
  BY <1>1, <1>4, <1>5, DispatchFacts DEF DispatchType
<1>7. First(dispatching)' = f BY <1>1, <1>2, <1>5, <1>6, FirstNext
<1>8. /\ Messages' = Messages
      /\ \A k : Late(k)' <=> Late(k)
      /\ \A k, side : Party(k, side)' = Party(k, side)
      /\ \A i, k, side : Settled(i, k, side)' <=> Settled(i, k, side)
  BY <1>3, StillSame
<1>9. "SELL" \in Sides /\ Len(history') = Len(history) BY <1>3 DEF Sides, Still
<1> HIDE DEF Messages, Trades
<1>10. /\ sent' \in Seq(Messages')
       /\ found' = found \cup (IF Party(f, "SELL") \in byId THEN {"SELL"} ELSE {})
       /\ \A j : IsTold(j) => IsTold(j)'
  BY <1>1, <1>2, <1>3, <1>5, <1>6, <1>9, TellEffect
<1>11. PICK n : /\ n \notin DOMAIN sent /\ DOMAIN sent' = DOMAIN sent \cup {n}
                /\ sent'[n].trade = f /\ sent'[n].side = "SELL" /\ sent'[n].order = Party(f, "SELL")
                /\ \A m \in DOMAIN sent : sent'[m] = sent[m]
  BY <1>1, <1>2, <1>3, <1>5, <1>6, <1>9, TellEffect
<1>12. \A m \in DOMAIN sent : Earlier(sent[m].trade, f) \/ (sent[m].trade = f /\ sent[m].side = "BUY")
  BY <1>1, <1>2, <1>4, <1>5 DEF ToldInv
<1>13. DispatchType'
  <2>1. (\A m \in DOMAIN sent : sent[m].order = Party(sent[m].trade, sent[m].side))'
    <3> SUFFICES ASSUME NEW m \in DOMAIN sent'
                 PROVE  (sent[m].order = Party(sent[m].trade, sent[m].side))'
      OBVIOUS
    <3>1. sent'[m].order = Party(sent'[m].trade, sent'[m].side) BY <1>6, <1>11
    <3> QED BY <1>3, <3>1 DEF Party, Still
  <2>2. (\A k \in dispatching : k = newest \/ Earlier(k, newest))'
    BY <1>1, <1>2, <1>3 DEF DispatchType, Earlier, Still
  <2>3. sent' \in Seq([trade : DOMAIN history, side : Sides, order : Received, short : BOOLEAN]')
    BY <1>10 DEF Messages
  <2> QED BY <1>1, <1>2, <1>4, <1>9, <2>1, <2>2, <2>3 DEF DispatchType
<1>14. ToldInv'
  <2> SUFFICES ASSUME NEW m \in DOMAIN sent'
               PROVE  Earlier(sent[m].trade, f)' \/ sent'[m].trade = f
    BY <1>2, <1>4, <1>7 DEF ToldInv
  <2>1. CASE m = n BY <1>11, <2>1
  <2>2. CASE m \in DOMAIN sent
    <3>1. (Earlier(sent[m].trade, f) \/ sent[m].trade = f) /\ sent'[m] = sent[m] BY <1>11, <1>12, <2>2
    <3> QED BY <1>3, <3>1 DEF Earlier, Still
  <2> QED BY <1>11, <2>1, <2>2
<1>15. NoDuplicateNotifications'
  <2>1. \A m \in DOMAIN sent : sent[m].trade = f => sent[m].side # "SELL"
    <3>1. ~Earlier(f, f) BY <1>1, <1>6, EarlierOrders
    <3> QED BY <1>12, <3>1
  <2> QED BY <1>1, <1>11, <2>1 DEF NoDuplicateNotifications
<1>16. ToTellInv'
  <2>1. \A k \in 1 .. begun' : Late(k)' \/ IsTold(k)' \/ k \in dispatching'
    BY <1>1, <1>2, <1>8, <1>10 DEF ToTellInv
  <2>2. n \in DOMAIN sent' /\ sent'[n].trade = f /\ sent'[n].side = "SELL" BY <1>11
  <2>3. \E m \in DOMAIN sent' : sent'[m].trade = f /\ sent'[m].side = "BUY"
    <3>1. "BUY" \in Sides BY DEF Sides
    <3>2. PICK m \in DOMAIN sent : sent[m].trade = f /\ sent[m].side = "BUY"
      BY <1>1, <1>4, <1>5, <3>1 DEF ToTellInv
    <3> QED BY <1>11, <3>2
  <2> QED BY <1>7, <2>1, <2>2, <2>3 DEF ToTellInv, Sides
<1>17. SettledInv'
  <2>1. ASSUME NEW m \in DOMAIN sent'
        PROVE  Settled(sent[m].order, sent[m].trade, sent[m].side)' \/ sent'[m].trade = f
    <3>1. CASE m = n BY <1>11, <3>1
    <3>2. CASE m \in DOMAIN sent
      <4>1. PICK i : i = sent[m].order OBVIOUS
      <4>2. PICK k : k = sent[m].trade OBVIOUS
      <4>3. PICK side : side = sent[m].side OBVIOUS
      <4>4. Settled(i, k, side) \/ k = f BY <1>1, <1>5, <3>2, <4>1, <4>2, <4>3 DEF SettledInv
      <4>5. Settled(i, k, side)' \/ k = f BY <1>8, <4>4
      <4>6. sent'[m].order = i /\ sent'[m].trade = k /\ sent'[m].side = side
        BY <1>11, <3>2, <4>1, <4>2, <4>3
      <4> QED BY <4>5, <4>6
    <3> QED BY <1>11, <3>1, <3>2
  <2>2. \A side \in Sides : Party(f, side)' \in byId' => side \in found'
    <3>1. Party(f, "BUY") \in byId => "BUY" \in found
      <4>1. "BUY" \in Sides BY DEF Sides
      <4> QED BY <1>1, <1>4, <1>5, <4>1 DEF SettledInv
    <3> QED BY <1>3, <1>8, <1>10, <3>1 DEF Still, Sides
  <2> QED BY <1>4, <1>7, <2>1, <2>2 DEF SettledInv
<1> QED BY <1>13, <1>14, <1>15, <1>16, <1>17 DEF ExchangeInv

\* Steps in which only the place of the exchange changes.
LEMMA PlaceKeeps ==
  ASSUME ExchangeInv, BookInv', UNCHANGED <<vars, dispatchVars>>,
         \/ at = "sold" /\ at' = "siblings" /\ pc = "idle"
         \/ at = "notifying" /\ at' = "waiting"
  PROVE  ExchangeInv'
<1>1. BookInv /\ DispatchType /\ ToldInv /\ NoDuplicateNotifications /\ ToTellInv /\ SettledInv
  BY DEF ExchangeInv
<1>2. UNCHANGED <<dispatching, newest, last, found, sent, begun, pc>> BY DEF dispatchVars, vars, loopVars
<1>3. Still BY DEF Still, vars, orderVars, bookVars
<1>4. Dispatching' <=> Dispatching BY DEF Dispatching
<1>5. UNCHANGED <<orders, status, byId, book, stops, history>> BY <1>3 DEF Still
<1>6. First(dispatching)' = First(dispatching)
  BY <1>2, <1>5 DEF First, Earlier
<1>7. DispatchType' BY <1>1, <1>2, <1>4, <1>5 DEF DispatchType, Party, Earlier, Received
<1>8. ToldInv'
  <2> SUFFICES ASSUME NEW m \in DOMAIN sent
               PROVE  (IF Dispatching
                         THEN \/ Earlier(sent[m].trade, First(dispatching))
                              \/ sent[m].trade = First(dispatching) /\ (at = "bought" => sent[m].side = "BUY")
                         ELSE last # 0 /\ (sent[m].trade = last \/ Earlier(sent[m].trade, last)))'
    BY <1>2 DEF ToldInv
  <2>1. Earlier(sent[m].trade, First(dispatching))' <=> Earlier(sent[m].trade, First(dispatching))
    BY <1>2, <1>5, <1>6 DEF Earlier
  <2>2. Earlier(sent[m].trade, last)' <=> Earlier(sent[m].trade, last) BY <1>2, <1>5 DEF Earlier
  <2> QED BY <1>1, <1>2, <1>4, <1>6, <2>1, <2>2 DEF ToldInv
<1>9. NoDuplicateNotifications' BY <1>1, <1>2 DEF NoDuplicateNotifications
<1>10. ToTellInv'
  <2>1. \A k : (Late(k)' <=> Late(k)) /\ (IsTold(k)' <=> IsTold(k)) BY <1>2, <1>5 DEF Late, IsTold
  <2>2. Dispatching => at = "sold" /\ at' = "siblings" BY DEF Dispatching
  <2> QED BY <1>1, <1>2, <1>4, <1>6, <2>1, <2>2 DEF ToTellInv
<1>11. SettledInv'
  <2>1. \A i, k, side : Settled(i, k, side)' <=> Settled(i, k, side) BY <1>3, StillSame
  <2>2. \A k, side : Party(k, side)' = Party(k, side) BY <1>3, StillSame
  <2>3. Dispatching => at = "sold" /\ at' = "siblings" BY DEF Dispatching
  <2>4. ASSUME NEW m \in DOMAIN sent
        PROVE  \/ Settled(sent[m].order, sent[m].trade, sent[m].side)'
               \/ Dispatching' /\ sent[m].trade = First(dispatching)'
    <3>1. Settled(sent[m].order, sent[m].trade, sent[m].side) \/ (Dispatching /\ sent[m].trade = First(dispatching))
      BY <1>1, <2>4 DEF SettledInv
    <3>2. PICK i : i = sent[m].order OBVIOUS
    <3>3. PICK k : k = sent[m].trade OBVIOUS
    <3>4. PICK side : side = sent[m].side OBVIOUS
    <3>5. Settled(i, k, side)' \/ (Dispatching' /\ k = First(dispatching)')
      BY <1>4, <1>6, <2>1, <3>1, <3>2, <3>3, <3>4
    <3> QED BY <1>2, <3>2, <3>3, <3>4, <3>5
  <2>5. ASSUME Dispatching, NEW side \in Sides, Party(First(dispatching), side)' \in byId'
        PROVE  side \in found'
    <3>1. Party(First(dispatching), side)' = Party(First(dispatching), side)
      BY <1>5, <1>6 DEF Party
    <3> QED BY <1>1, <1>2, <1>5, <2>3, <2>5, <3>1 DEF SettledInv
  <2> QED BY <1>2, <1>4, <2>4, <2>5 DEF SettledInv
<1> QED BY <1>7, <1>8, <1>9, <1>10, <1>11 DEF ExchangeInv

\* The dispatch ends, or there is nothing to dispatch.
LEMMA NotifyingKeeps ==
  ASSUME ExchangeInv, BookInv', Still, sent' = sent, at' = "notifying", dispatching' = {},
         begun' \in 0 .. Len(history), last' \in 0 .. begun',
         \A m \in DOMAIN sent : /\ last' # 0 /\ (sent[m].trade = last' \/ Earlier(sent[m].trade, last'))
                                /\ Settled(sent[m].order, sent[m].trade, sent[m].side),
         \A k \in 1 .. begun' : Late(k) \/ IsTold(k)
  PROVE  ExchangeInv'
<1>1. BookInv /\ DispatchType /\ NoDuplicateNotifications BY DEF ExchangeInv
<1>2. ~Dispatching' BY DEF Dispatching
<1>3. UNCHANGED <<orders, status, byId, book, stops, history>> BY DEF Still
<1>4. DispatchType' BY <1>1, <1>2, <1>3 DEF DispatchType, Party, Received
<1>5. ToldInv'
  <2> SUFFICES ASSUME NEW m \in DOMAIN sent
               PROVE  (last # 0 /\ (sent[m].trade = last \/ Earlier(sent[m].trade, last)))'
    BY <1>2 DEF ToldInv
  <2>1. Earlier(sent[m].trade, last') => Earlier(sent[m].trade, last)' BY <1>3 DEF Earlier
  <2> QED BY <2>1
<1>6. NoDuplicateNotifications' BY <1>1 DEF NoDuplicateNotifications
<1>7. ToTellInv'
  <2>1. \A k : (Late(k)' <=> Late(k)) /\ (IsTold(k)' <=> IsTold(k)) BY <1>3 DEF Late, IsTold
  <2> QED BY <1>2, <2>1 DEF ToTellInv
<1>8. SettledInv'
  <2>1. \A i, k, side : Settled(i, k, side)' <=> Settled(i, k, side) BY StillSame
  <2>2. ASSUME NEW m \in DOMAIN sent PROVE Settled(sent[m].order, sent[m].trade, sent[m].side)'
    <3>1. PICK i : i = sent[m].order OBVIOUS
    <3>2. PICK k : k = sent[m].trade OBVIOUS
    <3>3. PICK side : side = sent[m].side OBVIOUS
    <3>4. Settled(i, k, side)' BY <2>1, <2>2, <3>1, <3>2, <3>3
    <3> QED BY <3>1, <3>2, <3>3, <3>4
  <2> QED BY <1>2, <2>2 DEF SettledInv
<1> QED BY <1>4, <1>5, <1>6, <1>7, <1>8 DEF ExchangeInv

\* When no sibling is left to cancel, the orders of the trade are settled.
LEMMA FirstSettles ==
  ASSUME ExchangeInv, at = "siblings", SiblingsToCancel = {}, NEW side \in Sides
  PROVE  Settled(Party(First(dispatching), side), First(dispatching), side)
<1>1. BookInv /\ DispatchType /\ SettledInv BY DEF ExchangeInv
<1>2. KnownInv BY <1>1 DEF BookInv
<1>3. PICK f : f = First(dispatching) OBVIOUS
<1>4. PICK i : i = Party(f, side) OBVIOUS
<1>5. SUFFICES ASSUME StatusOf(f, side) = "FILLED", i \in byId,
                      NEW j \in WereThere(f), IsSibling(j, i), status[j] = "ACTIVE", j \in InBook
               PROVE  FALSE
  BY <1>3, <1>4 DEF Settled
<1>6. side \in found BY <1>1, <1>3, <1>4, <1>5 DEF SettledInv, Dispatching
<1>7. j \in Received BY DEF WereThere
<1>8. j \in byId
  <2>1. CASE j \in Range(stops) BY <1>2, <1>5, <2>1 DEF KnownInv
  <2>2. CASE j \in RestingOf
    <3>1. IsLimit(j) /\ IsOpen(j) BY <1>1, <2>2, RestingIs DEF OpenLimits
    <3> QED BY <1>2, <1>7, <3>1 DEF KnownInv
  <2> QED BY <1>5, <2>1, <2>2, InBookIs
<1>9. j \in SiblingsToCancel
  <2>1. j \in Range(stops) \cup Range(Queue(orders[j].side, orders[j].price))
    BY <1>5 DEF InBook
  <2> QED BY <1>3, <1>4, <1>5, <1>6, <1>8, <2>1 DEF SiblingsToCancel
<1> QED BY <1>9

\* Going on to the next trade of the batch, once the siblings are gone, keeps the exchange's
\* invariant: the trade at hand becomes a told one, with both of its orders settled.
LEMMA NextTradeKeeps == ASSUME ExchangeInv, BookInv', Onward, NextTrade PROVE ExchangeInv'
<1>1. BookInv /\ DispatchType /\ ToldInv /\ ToTellInv /\ SettledInv BY DEF ExchangeInv
<1>2. PICK f : f = First(dispatching) OBVIOUS
<1>3. PICK rest : rest = dispatching \ {f} OBVIOUS
<1>4. /\ at = "siblings" /\ SiblingsToCancel = {} /\ UNCHANGED <<vars, newest, begun>>
      /\ \/ rest # {} /\ DispatchFirst(rest) /\ last' = last
         \/ rest = {} /\ at' = "notifying" /\ dispatching' = {} /\ last' = newest /\ sent' = sent
  BY <1>2, <1>3 DEF NextTrade, StartNotifying
<1>5. Dispatching /\ Still BY <1>4 DEF Dispatching, Still, vars, orderVars, bookVars
<1>6. /\ f \in dispatching /\ \A j \in dispatching \ {f} : Earlier(f, j)
      /\ dispatching \in SUBSET Trades /\ begun \in Nat /\ 1 .. begun \subseteq Trades
      /\ \A m \in DOMAIN sent : /\ sent[m].trade \in Trades /\ sent[m].side \in Sides
                                /\ sent[m].order = Party(sent[m].trade, sent[m].side)
  BY <1>2, <1>5, DispatchFacts
<1>7. /\ begun' \in 0 .. Len(history) /\ last \in 0 .. begun' /\ dispatching \subseteq 1 .. begun'
      /\ newest \in dispatching /\ \A k \in dispatching : k = newest \/ Earlier(k, newest)
  BY <1>1, <1>4, <1>5 DEF DispatchType
<1> HIDE DEF Trades
<1>8. ASSUME NEW m \in DOMAIN sent
      PROVE  /\ sent[m].trade = f \/ Earlier(sent[m].trade, f)
             /\ Settled(sent[m].order, sent[m].trade, sent[m].side)
  <2>1. sent[m].trade = f \/ Earlier(sent[m].trade, f) BY <1>1, <1>2, <1>5, <1>8 DEF ToldInv
  <2>2. ASSUME sent[m].trade = f PROVE Settled(sent[m].order, sent[m].trade, sent[m].side)
    BY <1>2, <1>4, <1>6, <1>8, <2>2, FirstSettles
  <2>3. ASSUME sent[m].trade # f PROVE Settled(sent[m].order, sent[m].trade, sent[m].side)
    <3>1. \/ Settled(sent[m].order, sent[m].trade, sent[m].side)
          \/ sent[m].trade = First(dispatching)
      BY <1>1, <1>8 DEF SettledInv
    <3> QED BY <1>2, <2>3, <3>1
  <2> QED BY <2>1, <2>2, <2>3
<1>9. \A k \in 1 .. begun' : Late(k) \/ IsTold(k) \/ k \in rest
  <2>1. IsTold(f) BY <1>1, <1>2, <1>4, <1>5 DEF ToTellInv, IsTold
  <2> QED BY <1>1, <1>3, <1>4, <2>1 DEF ToTellInv
<1>10. CASE rest # {} /\ DispatchFirst(rest) /\ last' = last
  <2>1. rest \in SUBSET Trades /\ rest \subseteq 1 .. begun' BY <1>3, <1>6, <1>7
  <2>2. newest \in rest /\ \A k \in rest : k = newest \/ Earlier(k, newest)
    <3>1. newest # f
      <4>1. PICK k : k \in rest BY <1>10
      <4>2. Earlier(f, k) /\ (k = newest \/ Earlier(k, newest)) /\ k \in Trades /\ f \in Trades
        BY <1>3, <1>6, <1>7, <4>1
      <4> QED BY <1>1, <4>2, EarlierOrders
    <3> QED BY <1>3, <1>7, <3>1
  <2>3. \A m \in DOMAIN sent : Earlier(sent[m].trade, First(rest))
    <3>1. First(rest) \in rest BY <1>1, <1>10, <2>1, FirstIs DEF Trades
    <3>2. PICK g : g = First(rest) OBVIOUS
    <3>3. Earlier(f, g) /\ g \in Trades /\ f \in Trades BY <1>3, <1>6, <2>1, <3>1, <3>2
    <3>4. \A m \in DOMAIN sent : Earlier(sent[m].trade, g) BY <1>1, <1>6, <1>8, <3>3, EarlierOrders
    <3> QED BY <3>2, <3>4
  <2>4. newest' \in rest /\ \A k \in rest : k = newest' \/ Earlier(k, newest') BY <1>4, <2>2
  <2> QED BY <1>5, <1>7, <1>8, <1>9, <1>10, <2>1, <2>3, <2>4, DispatchKeeps DEF Trades
<1>11. CASE rest = {} /\ at' = "notifying" /\ dispatching' = {} /\ last' = newest /\ sent' = sent
  <2>1. newest = f BY <1>3, <1>7, <1>11
  <2>2. f # 0 /\ f \in 0 .. begun' BY <1>6, <1>7
  <2> QED BY <1>5, <1>7, <1>8, <1>9, <1>11, <2>1, <2>2, NotifyingKeeps
<1> QED BY <1>4, <1>10, <1>11

\* The start of a tick keeps the exchange's invariant.
LEMMA StartTickKeeps == ASSUME ExchangeInv, BookInv', Onward, StartTick PROVE ExchangeInv'
<1>1. BookInv /\ DispatchType /\ ToldInv /\ ToTellInv /\ SettledInv BY DEF ExchangeInv
<1>2. PICK new : new = NewTrades OBVIOUS
<1>3. /\ at = "waiting" /\ begun' = Len(history) /\ last' = last
      /\ UNCHANGED <<orderVars, bookVars, stops, history>>
      /\ \/ new = {} /\ at' = "notifying" /\ UNCHANGED <<dispatching, sent>>
         \/ new # {} /\ DispatchFirst(new) /\ newest' = LastOf(new)
  BY <1>2 DEF StartTick, StartNotifying
<1>4. Still /\ ~Dispatching BY <1>3 DEF Still, orderVars, bookVars, Dispatching
<1>5. dispatching = {} BY <1>1, <1>4 DEF DispatchType
<1>6. /\ begun \in Nat /\ begun <= Len(history) /\ Trades = 1 .. Len(history) /\ Len(history) \in Nat
      /\ (last # 0 => last \in Trades) /\ last \in 0 .. begun
      /\ \A k \in Trades : history[k].time \in Nat
      /\ \A m \in DOMAIN sent : sent[m].trade \in Trades
  BY <1>1, DispatchFacts, TradeFacts DEF DispatchType
<1>7. new \in SUBSET Trades /\ \A k \in Trades : k \in new <=> last = 0 \/ Earlier(last, k)
  BY <1>2 DEF NewTrades, Trades
<1> HIDE DEF Trades
<1>8. \A m \in DOMAIN sent : /\ last # 0 /\ (sent[m].trade = last \/ Earlier(sent[m].trade, last))
                             /\ Settled(sent[m].order, sent[m].trade, sent[m].side)
  BY <1>1, <1>4 DEF ToldInv, SettledInv
<1>9. \A k \in 1 .. begun' : Late(k) \/ IsTold(k) \/ k \in new
  <2> SUFFICES ASSUME NEW k \in 1 .. begun', ~Late(k), k \notin new PROVE IsTold(k) OBVIOUS
  <2>1. k \in Trades /\ k \in Nat /\ 1 <= k BY <1>3, <1>6
  <2>2. CASE k <= begun
    <3>1. k \in 1 .. begun BY <1>6, <2>1, <2>2
    <3> QED BY <1>1, <1>5, <3>1 DEF ToTellInv
  <2>3. CASE k > begun
    <3>1. last # 0 /\ ~Earlier(last, k) BY <1>7, <2>1
    <3>2. last \in Trades /\ last \in 1 .. k - 1 BY <1>6, <2>1, <2>3, <3>1
    <3>3. ~(history[last].time > history[k].time) BY <3>2 DEF Late
    <3>4. history[last].time \in Nat /\ history[k].time \in Nat /\ last < k BY <1>6, <2>1, <3>2
    <3> QED BY <3>1, <3>3, <3>4 DEF Earlier
  <2> QED BY <1>6, <2>1, <2>2, <2>3
<1>10. begun' \in 0 .. Len(history) /\ last \in 0 .. begun' BY <1>3, <1>6
<1>11. CASE new = {} /\ at' = "notifying" /\ UNCHANGED <<dispatching, sent>>
  BY <1>3, <1>4, <1>5, <1>8, <1>9, <1>10, <1>11, NotifyingKeeps
<1>12. CASE new # {} /\ DispatchFirst(new) /\ newest' = LastOf(new)
  <2>1. newest' \in new /\ \A k \in new : k = newest' \/ Earlier(k, newest')
    BY <1>1, <1>7, <1>12, LastIs DEF Trades
  <2>2. \A m \in DOMAIN sent : Earlier(sent[m].trade, First(new))
    <3>1. First(new) \in new BY <1>1, <1>7, <1>12, FirstIs DEF Trades
    <3>2. PICK g : g = First(new) OBVIOUS
    <3>3. g \in Trades /\ (last = 0 \/ Earlier(last, g)) BY <1>7, <3>1, <3>2
    <3>4. \A m \in DOMAIN sent : Earlier(sent[m].trade, g) BY <1>1, <1>6, <1>8, <3>3, EarlierOrders
    <3> QED BY <3>2, <3>4
  <2>3. new \subseteq 1 .. begun' BY <1>3, <1>6, <1>7
  <2> QED BY <1>3, <1>4, <1>7, <1>8, <1>9, <1>10, <1>12, <2>1, <2>2, <2>3, DispatchKeeps DEF Trades
<1> QED BY <1>3, <1>11, <1>12

\* The exchange starts with its invariant.
LEMMA ExchangeStarts == ASSUME ExchangeInit PROVE ExchangeInv
<1>1. BookInv BY BookStarts DEF ExchangeInit
<1>2. /\ at = "waiting" /\ dispatching = {} /\ newest = 0 /\ last = 0 /\ found = {} /\ sent = <<>>
      /\ begun = 0 /\ history = <<>>
  BY DEF ExchangeInit, Init
<1>3. ~Dispatching /\ DOMAIN sent = {} /\ Len(history) = 0 BY <1>2 DEF Dispatching
<1>4. sent \in Seq(Messages)
  <2> HIDE DEF Messages
  <2> QED BY <1>2
<1>5. DispatchType BY <1>2, <1>3, <1>4 DEF DispatchType, Messages
<1>6. ToldInv /\ NoDuplicateNotifications /\ SettledInv
  BY <1>3 DEF ToldInv, NoDuplicateNotifications, SettledInv
<1>7. ToTellInv BY <1>2, <1>3 DEF ToTellInv
<1> QED BY <1>1, <1>5, <1>6, <1>7 DEF ExchangeInv

\* Every step of the exchange keeps its invariant.
LEMMA ExchangeKeeps == ASSUME ExchangeInv, [ExchangeNext]_allVars PROVE ExchangeInv'
<1>1. BookInv /\ DispatchType BY DEF ExchangeInv
<1>2. [Next]_vars BY ExchangeStep
<1>3. BookInv' BY <1>1, <1>2, BookStep
<1>4. Onward BY <1>1, <1>2, <1>3, BookOnward
<1>5. ASSUME \/ \E r \in Requests : HandleOrderSubmission(r)
             \/ \E i \in Received : HandleCancelOrder(i)
             \/ HandleSnapshotRequest
      PROVE  ExchangeInv'
  <2>1. at # "siblings" /\ UNCHANGED <<at, dispatchVars>>
    BY <1>5 DEF HandleOrderSubmission, HandleCancelOrder, HandleSnapshotRequest, Awaiting, exchangeVars
  <2> QED BY <1>3, <1>4, <2>1, OnwardKeeps
<1>6. ASSUME MatchOn PROVE ExchangeInv'
  <2>1. pc # "idle" /\ UNCHANGED <<at, dispatchVars>>
    BY <1>6 DEF MatchOn, exchangeVars, Matching, MatchMarket, SkipEmptyLevel, Takes, EndMarket, MatchLimit,
                DropCrossedLevel, EndLimit, CheckStops, EndStop
  <2> QED BY <1>1, <1>3, <1>4, <2>1, OnwardKeeps DEF DispatchType
<1>7. ASSUME NEW j \in Received, CancelSibling(j) PROVE ExchangeInv'
  <2>1. pc' = pc /\ UNCHANGED <<at, dispatchVars>>
    BY <1>7 DEF CancelSibling, CancelOrder, CancelStop, CancelLimit, Cancelled, loopVars, exchangeVars
  <2> QED BY <1>1, <1>3, <1>4, <2>1, OnwardKeeps DEF DispatchType
<1>8. ASSUME \/ UNCHANGED allVars
             \/ \E s \in Comers : Resubscribe(s)
             \/ \E s \in FirstSubscribers \cup Comers : Notify(s)
      PROVE  ExchangeInv'
  <2>1. UNCHANGED <<vars, at, dispatchVars>>
    <3>1. CASE UNCHANGED allVars BY <3>1 DEF allVars, exchangeVars
    <3>2. ASSUME NEW s, Resubscribe(s) \/ Notify(s) PROVE UNCHANGED <<vars, at, dispatchVars>>
      BY <3>2 DEF Resubscribe, Notify
    <3> QED BY <1>8, <3>1, <3>2
  <2>2. pc' = pc BY <2>1 DEF vars, loopVars
  <2> QED BY <1>1, <1>3, <1>4, <2>1, <2>2, OnwardKeeps DEF DispatchType
<1>9. ASSUME StartTick PROVE ExchangeInv' BY <1>3, <1>4, <1>9, StartTickKeeps
<1>10. ASSUME TellSeller PROVE ExchangeInv' BY <1>3, <1>4, <1>10, TellSellerKeeps
<1>11. ASSUME NextTrade PROVE ExchangeInv' BY <1>3, <1>4, <1>11, NextTradeKeeps
<1>12. ASSUME EndTelling \/ NotifyRaises \/ AnswerTick PROVE ExchangeInv'
  BY <1>3, <1>12, PlaceKeeps DEF EndTelling, NotifyRaises, AnswerTick, LoopIsOver
<1> QED BY <1>5, <1>6, <1>7, <1>8, <1>9, <1>10, <1>11, <1>12 DEF ExchangeNext, HandleTimeTick

\* ExchangeInv is an invariant of the exchange.
THEOREM ExchangeInductive == ExchangeSpec => []ExchangeInv
<1>1. ExchangeInit => ExchangeInv BY ExchangeStarts
<1>2. ExchangeInv /\ [ExchangeNext]_allVars => ExchangeInv' BY ExchangeKeeps
<1> QED BY <1>1, <1>2, PTL DEF ExchangeSpec

\* No side is told a trade twice, though trades come in during the dispatch
\* (_dispatch_new_trades and its last_dispatched_trade_key).
THEOREM NobodyIsToldTwice == ExchangeSpec => []NoDuplicateNotifications
<1>1. ExchangeInv => NoDuplicateNotifications BY DEF ExchangeInv
<1> QED BY <1>1, ExchangeInductive, PTL

\* The invariant implies the two properties of what is told and canceled.
LEMMA InvTells == ASSUME ExchangeInv PROVE TimelyTradesAreTold /\ SiblingsOfMarketOrdersAreCanceled
<1>1. DispatchType /\ ToTellInv /\ SettledInv BY DEF ExchangeInv
<1>2. at = "notifying" => ~Dispatching /\ dispatching = {} BY <1>1 DEF DispatchType, Dispatching
<1>3. TimelyTradesAreTold BY <1>1, <1>2 DEF TimelyTradesAreTold, ToTellInv
<1>4. SiblingsOfMarketOrdersAreCanceled
  <2> SUFFICES ASSUME at = "notifying", NEW m \in DOMAIN sent,
                      StatusOf(sent[m].trade, sent[m].side) = "FILLED", sent[m].order \in byId,
                      NEW j \in WereThere(sent[m].trade), IsSibling(j, sent[m].order), status[j] = "ACTIVE"
               PROVE  j \notin InBook
    BY DEF SiblingsOfMarketOrdersAreCanceled
  <2>1. Settled(sent[m].order, sent[m].trade, sent[m].side) BY <1>1, <1>2 DEF SettledInv
  <2> QED BY <2>1 DEF Settled
<1> QED BY <1>3, <1>4

\* When the notifications of a tick are done, every trade made before it has been told to both
\* of its sides, but for those recorded after one with a later time stamp (_dispatch_new_trades
\* looks behind last_dispatched_trade_key, in the order of the time stamps).
THEOREM TradesAreTold == ExchangeSpec => []TimelyTradesAreTold
BY ExchangeInductive, InvTells, PTL

\* When the notifications are done, no sibling, received before the trade, of a filled order
\* that orders_by_id still has is active in the book (_cancel_oco_siblings).
THEOREM SiblingsGo == ExchangeSpec => []SiblingsOfMarketOrdersAreCanceled
BY ExchangeInductive, InvTells, PTL

\* An order is canceled while siblings are looked for only when a sibling of it is filled.
LEMMA SiblingsWait ==
  ASSUME ExchangeInv, ExchangeNext \/ UNCHANGED allVars, at = "siblings",
         NEW j \in Received, status[j] # "CANCELED", status'[j] = "CANCELED"
  PROVE  \E i \in Received : IsSibling(j, i) /\ status[i] = "FILLED"
<1>1. BookInv /\ DispatchType BY DEF ExchangeInv
<1>2. pc = "idle" BY <1>1 DEF DispatchType
<1>3. PICK i \in Received : CancelSibling(i)
  <2>1. ~MatchOn
    BY <1>2 DEF MatchOn, Matching, MatchMarket, SkipEmptyLevel, Takes, EndMarket, MatchLimit,
                DropCrossedLevel, EndLimit, CheckStops, EndStop
  <2>2. status' # status OBVIOUS
  <2> QED BY <2>1, <2>2
    DEF ExchangeNext, HandleOrderSubmission, HandleCancelOrder, HandleSnapshotRequest, Awaiting,
        Resubscribe, StartTick, HandleTimeTick, TellSeller, EndTelling, NextTrade, Notify, NotifyRaises,
        AnswerTick, allVars, vars, orderVars
<1>4. status' = [status EXCEPT ![i] = "CANCELED"]
  BY <1>3 DEF CancelSibling, CancelOrder, CancelStop, CancelLimit, Cancelled
<1>5. i = j
  <2>1. status \in Seq(Statuses) /\ Received = 1 .. Len(status)
    BY <1>1, OrderFacts DEF BookInv, BookType
  <2> HIDE DEF Received, Statuses
  <2> QED BY <1>4, <2>1
<1>6. PICK side \in found : /\ StatusOf(First(dispatching), side) = "FILLED"
                            /\ IsSibling(j, Party(First(dispatching), side))
  BY <1>3, <1>5 DEF CancelSibling, SiblingsToCancel
<1>7. PICK f : f = First(dispatching) OBVIOUS
<1>8. f \in Trades BY <1>1, <1>7, DispatchFacts DEF Dispatching
<1>9. history[f].buy \in Received /\ history[f].sell \in Received BY <1>1, <1>8, TradeFacts
<1>10. Party(f, side) \in Received /\ status[Party(f, side)] = "FILLED"
  BY <1>1, <1>6, <1>7, <1>8, <1>9 DEF BookInv, FilledInv, Party, StatusOf, Trades
<1> QED BY <1>6, <1>7, <1>10

\* While siblings are canceled, an order is only for a sibling that is filled, never for a
\* partial fill (_cancel_oco_siblings).
THEOREM SiblingsAreSpared == ExchangeSpec => SiblingsWaitForTheFill
<1>1. ExchangeInv /\ [ExchangeNext]_allVars =>
        [at = "siblings" =>
           \A j \in Received : status[j] # "CANCELED" /\ status'[j] = "CANCELED" =>
             \E i \in Received : IsSibling(j, i) /\ status[i] = "FILLED"]_allVars
  BY SiblingsWait
<1> QED BY <1>1, ExchangeInductive, PTL DEF ExchangeSpec, SiblingsWaitForTheFill
=============================================================================
