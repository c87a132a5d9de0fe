-------------------------- MODULE StockRow_proofs ---------------------------
(***************************************************************************)
(* What the UPDATE statements of StockRow do to a row, and how sums over a *)
(* finite set of documents or lines change: the facts every proof about a  *)
(* component that moves stock rests on.                                    *)
(***************************************************************************)
EXTENDS StockRow, Integers, FiniteSets, Functions, FiniteSetTheorems,
        WellFoundedInduction, TLAPS

\* Every UPDATE but one ends in a bump of the optimistic lock.
LEMMA BumpRow ==
    ASSUME NEW s \in Row
    PROVE  /\ Bump(s) \in Row
           /\ Bump(s).version = s.version + 1
           /\ Available(Bump(s)) = Available(s)
  BY DEF Row, Bump, Available

\* Each statement the sales side issues leaves a well-formed row, moves the
\* version on by one and changes `available` by what it says it does
\* (services/inventory.py).
LEMMA ReserveRow ==
    ASSUME NEW s \in Row, NEW q \in Nat
    PROVE  /\ Reserve(s, q) \in Row
           /\ Reserve(s, q).version = s.version + 1
           /\ Available(Reserve(s, q)) = Available(s) - q
<1>. DEFINE e == [s EXCEPT !.reserved = @ + q]
<1>1. e \in Row /\ e.version = s.version /\ Available(e) = Available(s) - q
  BY DEF Row, Available
<1>. HIDE DEF e
<1>. QED  BY <1>1, BumpRow DEF Reserve, Row, e

\* Releasing what is reserved.
LEMMA UnreserveRow ==
    ASSUME NEW s \in Row, NEW q \in Nat, UnreserveOK(s, q)
    PROVE  /\ Unreserve(s, q) \in Row
           /\ Unreserve(s, q).version = s.version + 1
           /\ Available(Unreserve(s, q)) = Available(s) + q
<1>. DEFINE e == [s EXCEPT !.reserved = @ - q]
<1>1. e \in Row /\ e.version = s.version /\ Available(e) = Available(s) + q
  BY DEF Row, Available, UnreserveOK
<1>. HIDE DEF e
<1>. QED  BY <1>1, BumpRow DEF Unreserve, e

\* Shipping what is reserved.
LEMMA SalesOutRow ==
    ASSUME NEW s \in Row, NEW q \in Nat, NEW v, SalesOutOK(s, v, q)
    PROVE  /\ SalesOut(s, q) \in Row
           /\ SalesOut(s, q).version = s.version + 1
           /\ Available(SalesOut(s, q)) = Available(s)
<1>. DEFINE d == [s EXCEPT !.on_hand = @ - q]
            e == [d EXCEPT !.reserved = s.reserved - q]
<1>1. d \in Row /\ d.version = s.version /\ Available(d) = Available(s) - q
      /\ d.reserved = s.reserved
  BY DEF Row, Available, SalesOutOK
<1>. HIDE DEF d
<1>2. e \in Row /\ e.version = s.version /\ Available(e) = Available(s)
  BY <1>1 DEF Row, Available, SalesOutOK
<1>. HIDE DEF e
<1>. QED  BY <1>1, <1>2, BumpRow DEF SalesOut, d, e

\* Receiving what was ordered (or more: `incoming` may become negative).
LEMMA PurchaseInRow ==
    ASSUME NEW s \in Row, NEW q \in Nat
    PROVE  /\ PurchaseIn(s, q) \in Row
           /\ PurchaseIn(s, q).version = s.version + 1
           /\ Available(PurchaseIn(s, q)) = Available(s) + q
<1>. DEFINE d == [s EXCEPT !.on_hand = @ + q]
            e == [d EXCEPT !.incoming = s.incoming - q]
<1>1. d \in Row /\ d.version = s.version /\ Available(d) = Available(s) + q
      /\ d.incoming = s.incoming
  BY DEF Row, Available
<1>. HIDE DEF d
<1>2. e \in Row /\ e.version = s.version /\ Available(e) = Available(s) + q
  BY <1>1 DEF Row, Available
<1>. HIDE DEF e
<1>. QED  BY <1>1, <1>2, BumpRow DEF PurchaseIn, d, e

\* _adjust_incoming touches neither the goods nor the lock.
LEMMA AdjustIncomingRow ==
    ASSUME NEW s \in Row, NEW d \in Int
    PROVE  /\ AdjustIncoming(s, d) \in Row
           /\ AdjustIncoming(s, d).version = s.version
           /\ Available(AdjustIncoming(s, d)) = Available(s)
  BY DEF AdjustIncoming, Row, Available

\* Goods that come back or are found raise `available`.
LEMMA SalesReturnRow ==
    ASSUME NEW s \in Row, NEW q \in Nat
    PROVE  /\ SalesReturn(s, q) \in Row
           /\ SalesReturn(s, q).version = s.version + 1
           /\ Available(SalesReturn(s, q)) = Available(s) + q
<1>. DEFINE e == [s EXCEPT !.on_hand = @ + q]
<1>1. e \in Row /\ e.version = s.version /\ Available(e) = Available(s) + q
  BY DEF Row, Available
<1>. HIDE DEF e
<1>. QED  BY <1>1, BumpRow DEF SalesReturn, Row, e

\* The same statement, for a stock-take gain.
LEMMA IncreaseRow ==
    ASSUME NEW s \in Row, NEW q \in Nat
    PROVE  /\ Increase(s, q) \in Row
           /\ Increase(s, q).version = s.version + 1
           /\ Available(Increase(s, q)) = Available(s) + q
  BY SalesReturnRow DEF SalesReturn, Increase

\* The statements that take goods away look at on_hand alone: the row stays
\* well-formed, but `available` falls by q and may become negative.
LEMMA DecreaseRow ==
    ASSUME NEW s \in Row, NEW q \in Nat, NEW v, DecreaseOK(s, v, q)
    PROVE  /\ Decrease(s, q) \in Row
           /\ Decrease(s, q).version = s.version + 1
           /\ Available(Decrease(s, q)) = Available(s) - q
<1>. DEFINE e == [s EXCEPT !.on_hand = @ - q]
<1>1. e \in Row /\ e.version = s.version /\ Available(e) = Available(s) - q
  BY DEF Row, Available, DecreaseOK
<1>. HIDE DEF e
<1>. QED  BY <1>1, BumpRow DEF Decrease, e

\* The same statement, for the sending end of a transfer.
LEMMA ShipOutRow ==
    ASSUME NEW s \in Row, NEW q \in Nat, NEW v, ShipOutOK(s, v, q)
    PROVE  /\ ShipOut(s, q) \in Row
           /\ ShipOut(s, q).version = s.version + 1
           /\ Available(ShipOut(s, q)) = Available(s) - q
  BY DecreaseRow DEF DecreaseOK, Decrease, ShipOutOK, ShipOut

\* The same statement, for a credit note that is cancelled.
LEMMA SalesReturnReverseRow ==
    ASSUME NEW s \in Row, NEW q \in Nat, NEW v, SalesReturnReverseOK(s, v, q)
    PROVE  /\ SalesReturnReverse(s, q) \in Row
           /\ SalesReturnReverse(s, q).version = s.version + 1
           /\ Available(SalesReturnReverse(s, q)) = Available(s) - q
  BY DecreaseRow DEF DecreaseOK, Decrease, SalesReturnReverseOK, SalesReturnReverse

\* The receiving end of a transfer.
LEMMA ShipInRow ==
    ASSUME NEW s \in Row, NEW q \in Nat
    PROVE  /\ ShipIn(s, q) \in Row
           /\ ShipIn(s, q).version = s.version + 1
           /\ Available(ShipIn(s, q)) = Available(s)
<1>. DEFINE e == [s EXCEPT !.in_transit = @ + q]
<1>1. e \in Row /\ e.version = s.version /\ Available(e) = Available(s)
  BY DEF Row, Available
<1>. HIDE DEF e
<1>. QED  BY <1>1, BumpRow DEF ShipIn, Row, e

\* Goods in transit that land.
LEMMA ReceiveRow ==
    ASSUME NEW s \in Row, NEW q \in Nat, NEW v, ReceiveOK(s, v, q)
    PROVE  /\ Receive(s, q) \in Row
           /\ Receive(s, q).version = s.version + 1
           /\ Available(Receive(s, q)) = Available(s) + q
<1>. DEFINE d == [s EXCEPT !.on_hand = @ + q]
            e == [d EXCEPT !.in_transit = s.in_transit - q]
<1>1. d \in Row /\ d.version = s.version /\ Available(d) = Available(s) + q
      /\ d.in_transit = s.in_transit
  BY DEF Row, Available
<1>. HIDE DEF d
<1>2. e \in Row /\ e.version = s.version /\ Available(e) = Available(s) + q
  BY <1>1 DEF Row, Available, ReceiveOK
<1>. HIDE DEF e
<1>. QED  BY <1>1, <1>2, BumpRow DEF Receive, d, e

\* What the statements do to `reserved`.
LEMMA ReservedMoves ==
    ASSUME NEW s \in Row, NEW q \in Nat
    PROVE  /\ Reserve(s, q).reserved = s.reserved + q
           /\ Unreserve(s, q).reserved = s.reserved - q
           /\ SalesOut(s, q).reserved = s.reserved - q
           /\ PurchaseIn(s, q).reserved = s.reserved
  BY DEF Row, Bump, Reserve, Unreserve, SalesOut, PurchaseIn

\* What the statements do to `incoming`.
LEMMA IncomingMoves ==
    ASSUME NEW s \in Row, NEW q \in Nat, NEW d \in Int
    PROVE  /\ AdjustIncoming(s, d).incoming = s.incoming + d
           /\ PurchaseIn(s, q).incoming = s.incoming - q
  BY DEF Row, Bump, AdjustIncoming, PurchaseIn

\* What the statements do to the goods there and on their way.
LEMMA GoodsMove ==
    ASSUME NEW s \in Row, NEW q \in Nat
    PROVE  /\ ShipOut(s, q).on_hand = s.on_hand - q
           /\ ShipOut(s, q).in_transit = s.in_transit
           /\ ShipIn(s, q).on_hand = s.on_hand
           /\ ShipIn(s, q).in_transit = s.in_transit + q
           /\ Receive(s, q).on_hand = s.on_hand + q
           /\ Receive(s, q).in_transit = s.in_transit - q
  BY DEF Row, Bump, ShipOut, ShipIn, Receive

-----------------------------------------------------------------------------
(* Sums over finite sets *)

\* Induction over the subsets of a finite set, with a set for the predicate.
LEMMA SubsetInduction ==
    ASSUME NEW S, IsFiniteSet(S), NEW Good,
           \A X \in SUBSET S : (\A Y \in SUBSET X : Y # X => Y \in Good) => X \in Good
    PROVE  \A X \in SUBSET S : X \in Good
<1>. DEFINE Bad == (SUBSET S) \ Good
<1>1. SUFFICES ASSUME Bad # {} PROVE FALSE
  OBVIOUS
<1>2. IsWellFoundedOn(StrictSubsetOrdering(S), FiniteSubsetsOf(S))
  BY FS_StrictSubsetOrderingWellFounded
<1>3. Bad \subseteq FiniteSubsetsOf(S)
  BY FS_FiniteSubsetsOfFinite
<1>. HIDE DEF Bad
<1>4. PICK X \in Bad : \A Y \in Bad : <<Y, X>> \notin StrictSubsetOrdering(S)
  BY <1>1, <1>2, <1>3, WFMin
<1>5. \A Y \in SUBSET X : Y # X => Y \in Good
  BY <1>4 DEF Bad, StrictSubsetOrdering
<1>. QED BY <1>4, <1>5 DEF Bad

Some(s) == CHOOSE x \in s : TRUE

LEMMA SomeIn ==
    ASSUME NEW s, s # {}
    PROVE  Some(s) \in s
BY DEF Some

\* g is the partial sums of f over the subsets of S.
Sums(g, f, S) ==
    g = [s \in SUBSET S |-> IF s = {} THEN 0 ELSE f[Some(s)] + g[s \ {Some(s)}]]

LEMMA SumsAgree ==
    ASSUME NEW S, IsFiniteSet(S), NEW f, NEW T, NEW g, NEW h,
           Sums(g, f, S), Sums(h, f, T), S \subseteq T
    PROVE  \A s \in SUBSET S : g[s] = h[s]
<1>. DEFINE Good == {s \in SUBSET S : g[s] = h[s]}
<1>1. ASSUME NEW X \in SUBSET S, \A Y \in SUBSET X : Y # X => Y \in Good
      PROVE  X \in Good
  <2>1. g[X] = IF X = {} THEN 0 ELSE f[Some(X)] + g[X \ {Some(X)}]
    BY DEF Sums
  <2>2. h[X] = IF X = {} THEN 0 ELSE f[Some(X)] + h[X \ {Some(X)}]
    BY DEF Sums
  <2>3. X # {} => g[X \ {Some(X)}] = h[X \ {Some(X)}]
    BY <1>1, SomeIn
  <2>. QED BY <2>1, <2>2, <2>3
<1>. HIDE DEF Good
<1>2. \A X \in SUBSET S : X \in Good
  BY <1>1, SubsetInduction
<1>. QED BY <1>2 DEF Good

LEMMA SumsUnique ==
    ASSUME NEW S, IsFiniteSet(S), NEW f, NEW g, NEW h, Sums(g, f, S), Sums(h, f, S)
    PROVE  g = h
<1>1. g = [s \in SUBSET S |-> g[s]] /\ h = [s \in SUBSET S |-> h[s]]
  BY Zenon DEF Sums
<1>2. \A s \in SUBSET S : g[s] = h[s]
  BY SumsAgree
<1>. QED BY <1>1, <1>2, Zenon

LEMMA SumsExist ==
    ASSUME NEW S, IsFiniteSet(S), NEW f
    PROVE  \E g : Sums(g, f, S)
<1>. DEFINE Good == {X \in SUBSET S : \E g : Sums(g, f, X)}
<1>1. ASSUME NEW X \in SUBSET S, \A Y \in SUBSET X : Y # X => Y \in Good
      PROVE  X \in Good
  <2>. DEFINE G(Y) == CHOOSE g : Sums(g, f, Y)
              x == Some(X)
              h == [s \in SUBSET X |->
                      IF s # X THEN G(s)[s]
                      ELSE IF X = {} THEN 0 ELSE f[x] + G(X \ {x})[X \ {x}]]
  <2>1. \A Y \in SUBSET X : Y # X => Sums(G(Y), f, Y)
    BY <1>1
  <2>2. \A Y \in SUBSET X : IsFiniteSet(Y)
    BY FS_Subset
  <2>. HIDE DEF G
  <2>3. ASSUME NEW s \in SUBSET X
        PROVE  h[s] = IF s = {} THEN 0 ELSE f[Some(s)] + h[s \ {Some(s)}]
    <3>1. CASE s # X /\ s # {}
      <4>1. Some(s) \in s
        BY <3>1, SomeIn
      <4>2. s \ {Some(s)} \in SUBSET X /\ s \ {Some(s)} # X /\ s \ {Some(s)} \subseteq s
        BY <4>1
      <4>3. Sums(G(s), f, s) /\ Sums(G(s \ {Some(s)}), f, s \ {Some(s)})
        BY <2>1, <3>1, <4>2
      <4>4. G(s \ {Some(s)})[s \ {Some(s)}] = G(s)[s \ {Some(s)}]
        BY <2>2, <4>2, <4>3, SumsAgree
      <4>5. G(s)[s] = f[Some(s)] + G(s)[s \ {Some(s)}]
        BY <3>1, <4>3 DEF Sums
      <4>. QED BY <3>1, <4>2, <4>4, <4>5
    <3>2. CASE s # X /\ s = {}
      <4>1. G(s)[s] = 0
        BY <2>1, <3>2 DEF Sums
      <4>. QED BY <3>2, <4>1
    <3>3. CASE s = X /\ s # {}
      <4>1. x \in X /\ x = Some(s)
        BY <3>3, SomeIn
      <4>2. s \ {Some(s)} \in SUBSET X /\ s \ {Some(s)} # X
        BY <3>3, <4>1
      <4>. QED BY <3>3, <4>1, <4>2
    <3>4. CASE s = X /\ s = {}
      BY <3>4
    <3>. QED BY <3>1, <3>2, <3>3, <3>4
  <2>4. h = [s \in SUBSET X |-> h[s]]
    OBVIOUS
  <2>. HIDE DEF h
  <2>5. Sums(h, f, X)
    BY <2>3, <2>4, Zenon DEF Sums
  <2>. QED BY <2>5
<1>. HIDE DEF Good
<1>2. \A X \in SUBSET S : X \in Good
  BY <1>1, SubsetInduction
<1>. QED BY <1>2 DEF Good

LEMMA SumIs ==
    ASSUME NEW S, IsFiniteSet(S), NEW f, NEW g, Sums(g, f, S)
    PROVE  SumFunctionOnSet(f, S) = g[S]
<1>1. g = CHOOSE h : Sums(h, f, S)
  BY SumsUnique, Zenon
<1>2. SumFunctionOnSet(f, S) = (CHOOSE h : Sums(h, f, S))[S]
  BY Zenon DEF SumFunctionOnSet, FoldFunctionOnSet, MapThenFoldSet, Sums, Some
<1>. QED BY <1>1, <1>2

LEMMA SumOfNothing ==
    ASSUME NEW f
    PROVE  SumFunctionOnSet(f, {}) = 0
<1>1. IsFiniteSet({})
  BY FS_EmptySet
<1>2. PICK g : Sums(g, f, {})
  BY <1>1, SumsExist
<1>. QED BY ZenonT(40), <1>1, <1>2, SumIs DEF Sums

LEMMA SumSome ==
    ASSUME NEW S, IsFiniteSet(S), S # {}, NEW f
    PROVE  SumFunctionOnSet(f, S) = f[Some(S)] + SumFunctionOnSet(f, S \ {Some(S)})
<1>. DEFINE R == S \ {Some(S)}
<1>1. R \subseteq S /\ IsFiniteSet(R) /\ R \in SUBSET R
  BY FS_Subset
<1>2. PICK g : Sums(g, f, S)
  BY SumsExist
<1>3. PICK h : Sums(h, f, R)
  BY <1>1, SumsExist
<1>4. h[R] = g[R]
  BY <1>1, <1>2, <1>3, SumsAgree
<1>5. g[S] = f[Some(S)] + g[R]
  BY <1>2 DEF Sums
<1>. QED BY <1>1, <1>2, <1>3, <1>4, <1>5, SumIs

\* Sums of integers are integers, and any element may be taken out first.
LEMMA SumSplit ==
    ASSUME NEW S, IsFiniteSet(S), NEW f, \A x \in S : f[x] \in Int
    PROVE  /\ SumFunctionOnSet(f, S) \in Int
           /\ \A x \in S : SumFunctionOnSet(f, S) = f[x] + SumFunctionOnSet(f, S \ {x})
<1>. DEFINE Sum(X) == SumFunctionOnSet(f, X)
            Good == {X \in SUBSET S : /\ Sum(X) \in Int
                                      /\ \A x \in X : Sum(X) = f[x] + Sum(X \ {x})}
<1>1. ASSUME NEW X \in SUBSET S, \A Y \in SUBSET X : Y # X => Y \in Good
      PROVE  X \in Good
  <2>1. IsFiniteSet(X)
    BY FS_Subset
  <2>2. CASE X = {}
    BY <2>2, SumOfNothing
  <2>3. CASE X # {}
    <3>. DEFINE y == Some(X)
    <3>0. y \in X
      BY <2>3, SomeIn
    <3>1. Sum(X) = f[y] + Sum(X \ {y})
      BY <2>1, <2>3, SumSome
    <3>. HIDE DEF y, Sum
    <3>2. \A Y \in SUBSET X : Y # X => Sum(Y) \in Int /\ \A x \in Y : Sum(Y) = f[x] + Sum(Y \ {x})
      BY <1>1
    <3>3. \A x \in X : X \ {x} \in SUBSET X /\ X \ {x} # X
      OBVIOUS
    <3>4. Sum(X \ {y}) \in Int /\ Sum(X) \in Int
      BY <3>0, <3>1, <3>2, <3>3
    <3>5. ASSUME NEW x \in X, x # y
          PROVE  Sum(X) = f[x] + Sum(X \ {x})
      <4>1. x \in X \ {y} /\ y \in X \ {x} /\ (X \ {y}) \ {x} = (X \ {x}) \ {y}
        BY <3>0, <3>5
      <4>2. Sum(X \ {y}) = f[x] + Sum((X \ {x}) \ {y})
        BY <3>0, <3>2, <3>3, <4>1
      <4>3. Sum(X \ {x}) = f[y] + Sum((X \ {x}) \ {y})
        BY <3>2, <3>3, <4>1
      <4>4. (X \ {x}) \ {y} \in SUBSET X /\ (X \ {x}) \ {y} # X
        BY <3>0
      <4>5. Sum((X \ {x}) \ {y}) \in Int
        BY <3>2, <4>4
      <4>6. f[x] \in Int /\ f[y] \in Int
        BY <3>0
      <4>. DEFINE a == f[x]
                  b == f[y]
                  c == Sum((X \ {x}) \ {y})
      <4>7. Sum(X) = b + (a + c) /\ Sum(X \ {x}) = b + c /\ a \in Int /\ b \in Int /\ c \in Int
        BY <3>1, <4>2, <4>3, <4>5, <4>6, Zenon
      <4>. HIDE DEF a, b, c
      <4>8. Sum(X) = a + Sum(X \ {x})
        BY <4>7
      <4>. QED BY <4>8 DEF a
    <3>6. \A x \in X : Sum(X) = f[x] + Sum(X \ {x})
      BY <3>1, <3>5
    <3>. QED BY <3>4, <3>6
  <2>. QED BY <2>2, <2>3
<1>. HIDE DEF Good
<1>2. \A X \in SUBSET S : X \in Good
  BY <1>1, SubsetInduction
<1>. QED BY <1>2 DEF Good

LEMMA SumSame ==
    ASSUME NEW S, IsFiniteSet(S), NEW f, NEW g,
           \A x \in S : f[x] \in Int /\ g[x] = f[x]
    PROVE  SumFunctionOnSet(g, S) = SumFunctionOnSet(f, S)
<1>. DEFINE Good == {X \in SUBSET S : SumFunctionOnSet(g, X) = SumFunctionOnSet(f, X)}
<1>1. ASSUME NEW X \in SUBSET S, \A Y \in SUBSET X : Y # X => Y \in Good
      PROVE  X \in Good
  <2>1. IsFiniteSet(X)
    BY FS_Subset
  <2>2. CASE X = {}
    BY <2>2, SumOfNothing
  <2>3. CASE X # {}
    <3>1. Some(X) \in X /\ X \ {Some(X)} \in SUBSET X /\ X \ {Some(X)} # X
      BY <2>3, SomeIn
    <3>2. SumFunctionOnSet(g, X \ {Some(X)}) = SumFunctionOnSet(f, X \ {Some(X)})
      BY <1>1, <3>1
    <3>3. g[Some(X)] = f[Some(X)]
      BY <3>1
    <3>. QED BY <2>1, <2>3, <3>2, <3>3, SumSome
  <2>. QED BY <2>2, <2>3
<1>. HIDE DEF Good
<1>2. \A X \in SUBSET S : X \in Good
  BY <1>1, SubsetInduction
<1>. QED BY <1>2 DEF Good

\* Two sums that differ in one element.
LEMMA SumChange ==
    ASSUME NEW S, IsFiniteSet(S), NEW f, NEW g, NEW x \in S,
           \A y \in S : f[y] \in Int /\ g[y] \in Int,
           \A y \in S : y # x => g[y] = f[y]
    PROVE  /\ SumFunctionOnSet(f, S) \in Int
           /\ SumFunctionOnSet(g, S) \in Int
           /\ SumFunctionOnSet(g, S) = SumFunctionOnSet(f, S) + (g[x] - f[x])
<1>1. IsFiniteSet(S \ {x})
  BY FS_Subset
<1>2. SumFunctionOnSet(g, S \ {x}) = SumFunctionOnSet(f, S \ {x})
  BY <1>1, SumSame
<1>3. /\ SumFunctionOnSet(f, S) = f[x] + SumFunctionOnSet(f, S \ {x})
      /\ SumFunctionOnSet(g, S) = g[x] + SumFunctionOnSet(g, S \ {x})
      /\ SumFunctionOnSet(f, S) \in Int /\ SumFunctionOnSet(g, S) \in Int
  BY SumSplit
<1>4. SumFunctionOnSet(f, S \ {x}) \in Int
  BY <1>1, SumSplit
<1>5. f[x] \in Int /\ g[x] \in Int
  OBVIOUS
<1>. QED BY <1>2, <1>3, <1>4, <1>5

\* Moving a quantity from one element to another leaves the sum alone.
LEMMA SumMoved ==
    ASSUME NEW S, IsFiniteSet(S), NEW f, NEW g, NEW a \in S, NEW b \in S, NEW q \in Int,
           a # b, \A x \in S : f[x] \in Int,
           g[a] = f[a] - q, g[b] = f[b] + q,
           \A x \in S : x \notin {a, b} => g[x] = f[x]
    PROVE  SumFunctionOnSet(g, S) = SumFunctionOnSet(f, S)
<1>. DEFINE R == (S \ {a}) \ {b}
<1>1. /\ IsFiniteSet(S \ {a}) /\ IsFiniteSet(R)
      /\ b \in S \ {a} /\ R \subseteq S
  BY FS_Subset
<1>2. \A x \in S : g[x] \in Int
  OBVIOUS
<1>3. /\ SumFunctionOnSet(f, S) = f[a] + SumFunctionOnSet(f, S \ {a})
      /\ SumFunctionOnSet(f, S \ {a}) = f[b] + SumFunctionOnSet(f, R)
  BY <1>1, SumSplit
<1>4. /\ SumFunctionOnSet(g, S) = g[a] + SumFunctionOnSet(g, S \ {a})
      /\ SumFunctionOnSet(g, S \ {a}) = g[b] + SumFunctionOnSet(g, R)
  BY <1>1, <1>2, SumSplit
<1>5. SumFunctionOnSet(f, R) \in Int
  BY <1>1, SumSplit
<1>6. SumFunctionOnSet(g, R) = SumFunctionOnSet(f, R)
  BY <1>1, SumSame
<1>. HIDE DEF R
<1>. QED BY <1>3, <1>4, <1>5, <1>6

LEMMA SumNonNegative ==
    ASSUME NEW S, IsFiniteSet(S), NEW f, \A x \in S : f[x] \in Nat
    PROVE  SumFunctionOnSet(f, S) \in Nat
<1>. DEFINE Good == {X \in SUBSET S : SumFunctionOnSet(f, X) \in Nat}
<1>1. ASSUME NEW X \in SUBSET S, \A Y \in SUBSET X : Y # X => Y \in Good
      PROVE  X \in Good
  <2>1. IsFiniteSet(X)
    BY FS_Subset
  <2>2. CASE X = {}
    BY <2>2, SumOfNothing
  <2>3. CASE X # {}
    <3>1. Some(X) \in X /\ X \ {Some(X)} \in SUBSET X /\ X \ {Some(X)} # X
      BY <2>3, SomeIn
    <3>2. SumFunctionOnSet(f, X \ {Some(X)}) \in Nat /\ f[Some(X)] \in Nat
      BY <1>1, <3>1
    <3>. QED BY <2>1, <2>3, <3>2, SumSome
  <2>. QED BY <2>2, <2>3
<1>. HIDE DEF Good
<1>2. \A X \in SUBSET S : X \in Good
  BY <1>1, SubsetInduction
<1>. QED BY <1>2 DEF Good

\* Nothing adds up to nothing.
LEMMA SumOfZeros ==
    ASSUME NEW S, IsFiniteSet(S), NEW f, \A x \in S : f[x] = 0
    PROVE  SumFunctionOnSet(f, S) = 0
<1>. DEFINE Good == {X \in SUBSET S : SumFunctionOnSet(f, X) = 0}
<1>1. ASSUME NEW X \in SUBSET S, \A Y \in SUBSET X : Y # X => Y \in Good
      PROVE  X \in Good
  <2>1. IsFiniteSet(X)
    BY FS_Subset
  <2>2. CASE X = {}
    BY <2>2, SumOfNothing
  <2>3. CASE X # {}
    <3>1. Some(X) \in X /\ X \ {Some(X)} \in SUBSET X /\ X \ {Some(X)} # X
      BY <2>3, SomeIn
    <3>2. SumFunctionOnSet(f, X \ {Some(X)}) = 0 /\ f[Some(X)] = 0
      BY <1>1, <3>1
    <3>. QED BY <2>1, <2>3, <3>2, SumSome
  <2>. QED BY <2>2, <2>3
<1>. HIDE DEF Good
<1>2. \A X \in SUBSET S : X \in Good
  BY <1>1, SubsetInduction
<1>. QED BY <1>2 DEF Good

LEMMA SumOfConstant ==
    ASSUME NEW S, IsFiniteSet(S), NEW f, NEW k \in Int, \A x \in S : f[x] = k
    PROVE  SumFunctionOnSet(f, S) = k * Cardinality(S)
<1>. DEFINE Good == {X \in SUBSET S : SumFunctionOnSet(f, X) = k * Cardinality(X)}
<1>1. ASSUME NEW X \in SUBSET S, \A Y \in SUBSET X : Y # X => Y \in Good
      PROVE  X \in Good
  <2>1. IsFiniteSet(X) /\ Cardinality(X) \in Nat
    BY FS_Subset, FS_CardinalityType
  <2>2. CASE X = {}
    <3>1. Cardinality(X) = 0 /\ SumFunctionOnSet(f, X) = 0
      BY <2>2, SumOfNothing, FS_EmptySet
    <3>. QED BY <3>1
  <2>3. CASE X # {}
    <3>. DEFINE R == X \ {Some(X)}
                n == Cardinality(X)
    <3>1. Some(X) \in X /\ R \in SUBSET X /\ R # X
      BY <2>3, SomeIn
    <3>2. Cardinality(R) = n - 1
      BY <2>1, <3>1, FS_RemoveElement
    <3>3. SumFunctionOnSet(f, R) = k * (n - 1)
      BY <1>1, <3>1, <3>2
    <3>4. SumFunctionOnSet(f, X) = f[Some(X)] + SumFunctionOnSet(f, R) /\ f[Some(X)] = k
      BY <2>1, <2>3, <3>1, SumSome
    <3>. HIDE DEF R, n
    <3>5. n \in Nat
      BY <2>1 DEF n
    <3>6. k + k * (n - 1) = k * n
      BY <3>5
    <3>7. SumFunctionOnSet(f, X) = k * n
      BY <3>3, <3>4, <3>6
    <3>. QED BY <3>7 DEF n
  <2>. QED BY <2>2, <2>3
<1>. HIDE DEF Good
<1>2. \A X \in SUBSET S : X \in Good
  BY <1>1, SubsetInduction
<1>. QED BY <1>2 DEF Good
=============================================================================
