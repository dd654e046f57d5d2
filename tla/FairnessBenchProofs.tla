--------------------------- MODULE FairnessBenchProofs ---------------------------
(***************************************************************************)
(* Proofs about FairnessBench, for every finite set of workers, every      *)
(* chunk and every width of the counters.                                  *)
(*                                                                         *)
(* CountsAgree speaks of the end alone, when every worker is joined.  What *)
(* holds at every step is that the payload's total is the sum of what the  *)
(* workers have counted and of what they have done of a chunk they are in, *)
(* modulo the width (Accounted); that a worker's relaxed count is written  *)
(* by nobody else and ends at its n (OwnCount, Published); and that the    *)
(* join orders it for main (Known).                                        *)
(*                                                                         *)
(* The sum is over a finite set.  What is claimed of every subset is shown *)
(* by its least counterexample (LeastSet).                                 *)
(***************************************************************************)
EXTENDS FairnessBench, FiniteSetTheorems, WellFoundedInduction, TLAPS

--------------------------------------------------------------------------------
(* The induction the proofs below make: a nonempty set of finite sets has  *)
(* a least member.                                                         *)
LEMMA LeastSet ==
    ASSUME NEW S, IsFiniteSet(S), NEW Bad \in SUBSET (SUBSET S), Bad # {}
    PROVE  \E s \in Bad : \A u \in Bad : ~(u \subseteq s /\ u # s)
<1>1. Bad \subseteq FiniteSubsetsOf(S)
  BY FS_Subset DEF FiniteSubsetsOf
<1>2. IsWellFoundedOn(StrictSubsetOrdering(S), FiniteSubsetsOf(S))
  BY FS_StrictSubsetOrderingWellFounded
<1>3. \E s \in Bad : \A u \in Bad : ~(<<u, s>> \in StrictSubsetOrdering(S))
  BY <1>1, <1>2, WFMin
<1> QED BY <1>3 DEF StrictSubsetOrdering

(* g adds f up over every subset of S.                                     *)
AddsUp(g, f, S) ==
    g = [s \in SUBSET S |->
            IF s = {} THEN 0
            ELSE LET x == CHOOSE x \in s : TRUE IN f[x] + g[s \ {x}]]

Any(s) == CHOOSE x \in s : TRUE

LEMMA AnyIsIn == \A s : s # {} => Any(s) \in s
  BY DEF Any

LEMMA SumIs ==
    ASSUME NEW f, NEW S
    PROVE  SumFunctionOnSet(f, S) = (CHOOSE g : AddsUp(g, f, S))[S]
  BY DEF SumFunctionOnSet, FoldFunctionOnSet, MapThenFoldSet, AddsUp

LEMMA Equation ==
    ASSUME NEW f, NEW S, NEW g, AddsUp(g, f, S), NEW s \in SUBSET S
    PROVE  g[s] = IF s = {} THEN 0 ELSE f[Any(s)] + g[s \ {Any(s)}]
  BY DEF AddsUp, Any

(* On a finite set there is one such g at most ...                         *)
LEMMA OneWay ==
    ASSUME NEW f, NEW S, NEW T \in SUBSET S, IsFiniteSet(T),
           NEW g, AddsUp(g, f, S), NEW h, AddsUp(h, f, T)
    PROVE  \A s \in SUBSET T : g[s] = h[s]
<1> DEFINE Bad == {s \in SUBSET T : g[s] # h[s]}
<1> SUFFICES ASSUME Bad # {} PROVE FALSE
  OBVIOUS
<1>1. PICK s \in Bad : \A u \in Bad : ~(u \subseteq s /\ u # s)
  <2>1. Bad \in SUBSET (SUBSET T)
    OBVIOUS
  <2> HIDE DEF Bad
  <2> QED BY <2>1, LeastSet
<1>2. s # {}
  <2>1. s \in SUBSET T /\ s \in SUBSET S /\ g[s] # h[s]
    BY <1>1
  <2>2. s = {} => g[s] = 0
    BY <2>1, Equation
  <2>3. s = {} => h[s] = 0
    BY <2>1, Equation
  <2> QED BY <2>1, <2>2, <2>3
<1>3. Any(s) \in s
  BY <1>2, AnyIsIn
<1>4. s \ {Any(s)} \in SUBSET T /\ g[s \ {Any(s)}] = h[s \ {Any(s)}]
  BY <1>1, <1>3
<1>5. g[s] = f[Any(s)] + g[s \ {Any(s)}]
  BY <1>1, <1>2, Equation
<1>6. h[s] = f[Any(s)] + h[s \ {Any(s)}]
  BY <1>1, <1>2, Equation
<1> QED BY <1>1, <1>4, <1>5, <1>6

(* ... and at least one, so that the sum is what its definition says.      *)
LEMMA SomeWay ==
    ASSUME NEW f, NEW S, IsFiniteSet(S)
    PROVE  \E g : AddsUp(g, f, S)
<1> DEFINE Bad == {s \in SUBSET S : ~\E g : AddsUp(g, f, s)}
<1> SUFFICES ASSUME Bad # {} PROVE FALSE
  OBVIOUS
<1>1. PICK s \in Bad : \A u \in Bad : ~(u \subseteq s /\ u # s)
  <2>1. Bad \in SUBSET (SUBSET S)
    OBVIOUS
  <2> HIDE DEF Bad
  <2> QED BY <2>1, LeastSet
<1> DEFINE G(u) == CHOOSE g : AddsUp(g, f, u)
<1>2. ASSUME NEW u \in SUBSET s, u # s PROVE AddsUp(G(u), f, u)
  <2>1. \E g : AddsUp(g, f, u)
    BY <1>1, <1>2
  <2> QED BY <2>1
<1> DEFINE Body(u) == IF u = {} THEN 0 ELSE f[Any(u)] + G(u \ {Any(u)})[u \ {Any(u)}]
           g == [u \in SUBSET s |-> Body(u)]
<1>3. ASSUME NEW u \in SUBSET s, u # {}
      PROVE  g[u \ {Any(u)}] = G(u \ {Any(u)})[u \ {Any(u)}]
  <2> DEFINE v == u \ {Any(u)}
  <2>1. v \in SUBSET s /\ v # s
    BY <1>3, AnyIsIn
  <2>2. AddsUp(G(v), f, v)
    BY <1>2, <2>1
  <2>3. G(v)[v] = IF v = {} THEN 0 ELSE f[Any(v)] + G(v)[v \ {Any(v)}]
    <3>1. v \in SUBSET v
      OBVIOUS
    <3> HIDE DEF v, G
    <3> QED BY <2>2, <3>1, Equation
  <2>4. ASSUME v # {} PROVE G(v)[v \ {Any(v)}] = G(v \ {Any(v)})[v \ {Any(v)}]
    <3> DEFINE w == v \ {Any(v)}
    <3>1. w \in SUBSET v /\ w \in SUBSET s /\ w # s /\ IsFiniteSet(w)
      BY <2>1, <2>4, AnyIsIn, FS_Subset
    <3>2. AddsUp(G(w), f, w)
      BY <1>2, <3>1
    <3> HIDE DEF G, w
    <3>3. \A x \in SUBSET w : G(v)[x] = G(w)[x]
      BY <2>2, <3>1, <3>2, OneWay
    <3>4. G(v)[w] = G(w)[w]
      BY <3>3
    <3> QED BY <3>4 DEF w
  <2> HIDE DEF G
  <2>5. g[v] = Body(v)
    BY <2>1
  <2> QED BY <2>3, <2>4, <2>5
<1> HIDE DEF G
<1>4. \A u \in SUBSET s : g[u] = Body(u)
  OBVIOUS
<1>5. g = [u \in SUBSET s |-> IF u = {} THEN 0 ELSE f[Any(u)] + g[u \ {Any(u)}]]
  <2> HIDE DEF g
  <2>1. \A u \in SUBSET s : g[u] = IF u = {} THEN 0 ELSE f[Any(u)] + g[u \ {Any(u)}]
    BY <1>3, <1>4
  <2> QED BY <2>1 DEF g
<1>6. AddsUp(g, f, s)
  <2> HIDE DEF g
  <2> QED BY <1>5 DEF AddsUp, Any
<1> QED BY <1>1, <1>6

LEMMA SumOfNone == \A f : SumFunctionOnSet(f, {}) = 0
<1> SUFFICES ASSUME NEW f PROVE SumFunctionOnSet(f, {}) = 0
  OBVIOUS
<1>1. AddsUp(CHOOSE g : AddsUp(g, f, {}), f, {})
  BY SomeWay, FS_EmptySet
<1>2. {} \in SUBSET {}
  OBVIOUS
<1>3. (CHOOSE g : AddsUp(g, f, {}))[{}] = 0
  BY <1>1, <1>2, Equation
<1> QED BY <1>3, SumIs

LEMMA SumOfSome ==
    ASSUME NEW f, NEW S, IsFiniteSet(S), S # {}
    PROVE  /\ Any(S) \in S
           /\ SumFunctionOnSet(f, S) = f[Any(S)] + SumFunctionOnSet(f, S \ {Any(S)})
<1> DEFINE T == S \ {Any(S)}
           g == CHOOSE g : AddsUp(g, f, S)
           h == CHOOSE h : AddsUp(h, f, T)
<1>1. T \in SUBSET S /\ IsFiniteSet(T) /\ S \in SUBSET S /\ T \in SUBSET T
  BY FS_Subset
<1>2. AddsUp(g, f, S) /\ AddsUp(h, f, T)
  BY <1>1, SomeWay
<1>3. SumFunctionOnSet(f, S) = g[S] /\ SumFunctionOnSet(f, T) = h[T]
  BY SumIs
<1> HIDE DEF g, h, T
<1>4. g[S] = IF S = {} THEN 0 ELSE f[Any(S)] + g[S \ {Any(S)}]
  BY <1>1, <1>2, Equation
<1>5. g[T] = h[T]
  BY <1>1, <1>2, OneWay
<1> QED BY <1>3, <1>4, <1>5, AnyIsIn DEF T

LEMMA SumIsNat ==
    ASSUME NEW f, NEW S, IsFiniteSet(S), \A x \in S : f[x] \in Nat
    PROVE  SumFunctionOnSet(f, S) \in Nat
<1> DEFINE Bad == {s \in SUBSET S : SumFunctionOnSet(f, s) \notin Nat}
<1> SUFFICES ASSUME Bad # {} PROVE FALSE
  OBVIOUS
<1>1. PICK s \in Bad : \A u \in Bad : ~(u \subseteq s /\ u # s)
  <2>1. Bad \in SUBSET (SUBSET S)
    OBVIOUS
  <2> HIDE DEF Bad
  <2> QED BY <2>1, LeastSet
<1>2. s \in SUBSET S /\ SumFunctionOnSet(f, s) \notin Nat
  BY <1>1
<1>3. s # {} /\ IsFiniteSet(s)
  <2>1. IsFiniteSet(s)
    BY <1>2, FS_Subset
  <2>2. s # {}
    <3> SUFFICES ASSUME s = {} PROVE FALSE
      OBVIOUS
    <3>1. SumFunctionOnSet(f, s) = 0
      BY SumOfNone
    <3> QED BY <1>2, <3>1
  <2> QED BY <2>1, <2>2
<1>4. Any(s) \in s /\ SumFunctionOnSet(f, s) = f[Any(s)] + SumFunctionOnSet(f, s \ {Any(s)})
  BY <1>3, SumOfSome
<1>5. SumFunctionOnSet(f, s \ {Any(s)}) \in Nat
  BY <1>1, <1>2, <1>4
<1> QED BY <1>2, <1>4, <1>5

LEMMA SumOfZeros ==
    ASSUME NEW f, NEW S, IsFiniteSet(S), \A x \in S : f[x] = 0
    PROVE  SumFunctionOnSet(f, S) = 0
<1> DEFINE Bad == {s \in SUBSET S : SumFunctionOnSet(f, s) # 0}
<1> SUFFICES ASSUME Bad # {} PROVE FALSE
  <2>1. S \in SUBSET S
    OBVIOUS
  <2> QED BY <2>1
<1>1. PICK s \in Bad : \A u \in Bad : ~(u \subseteq s /\ u # s)
  <2>1. Bad \in SUBSET (SUBSET S)
    OBVIOUS
  <2> HIDE DEF Bad
  <2> QED BY <2>1, LeastSet
<1>2. s \in SUBSET S /\ SumFunctionOnSet(f, s) # 0
  BY <1>1
<1>3. s # {} /\ IsFiniteSet(s)
  BY <1>2, SumOfNone, FS_Subset
<1>4. Any(s) \in s /\ SumFunctionOnSet(f, s) = f[Any(s)] + SumFunctionOnSet(f, s \ {Any(s)})
  BY <1>3, SumOfSome
<1>5. SumFunctionOnSet(f, s \ {Any(s)}) = 0
  BY <1>1, <1>2, <1>4
<1> QED BY <1>2, <1>4, <1>5

(* Any member may be added first.                                          *)
LEMMA SumFrom ==
    ASSUME NEW f, NEW S, IsFiniteSet(S), \A y \in S : f[y] \in Nat
    PROVE  \A x \in S : SumFunctionOnSet(f, S) = f[x] + SumFunctionOnSet(f, S \ {x})
<1> DEFINE Sum(s) == SumFunctionOnSet(f, s)
           Bad == {s \in SUBSET S : \E x \in s : Sum(s) # f[x] + Sum(s \ {x})}
<1>1. SUFFICES ASSUME Bad # {} PROVE FALSE
  <2>1. S \in SUBSET S
    OBVIOUS
  <2> QED BY <2>1
<1>2. PICK s \in Bad : \A u \in Bad : ~(u \subseteq s /\ u # s)
  <2>1. Bad \in SUBSET (SUBSET S)
    OBVIOUS
  <2> HIDE DEF Bad
  <2> QED BY <1>1, <2>1, LeastSet
<1>3. PICK x \in s : Sum(s) # f[x] + Sum(s \ {x})
  BY <1>2
<1> DEFINE a == Any(s)
<1>4. \A u \in SUBSET S : IsFiniteSet(u) /\ Sum(u) \in Nat
  <2> TAKE u \in SUBSET S
  <2>1. IsFiniteSet(u) /\ \A y \in u : f[y] \in Nat
    BY FS_Subset
  <2> QED BY <2>1, SumIsNat
<1>5. s \in SUBSET S /\ s # {} /\ x \in S
  BY <1>2, <1>3
<1>6. a \in s /\ Sum(s) = f[a] + Sum(s \ {a})
  BY <1>4, <1>5, SumOfSome
<1> HIDE DEF a
<1>7. a # x
  BY <1>3, <1>6
<1>8. ASSUME NEW y \in s, NEW z \in s \ {y}
      PROVE  Sum(s \ {y}) = f[z] + Sum((s \ {y}) \ {z})
  <2>1. s \ {y} \in SUBSET S /\ s \ {y} \subseteq s /\ s \ {y} # s
    BY <1>5
  <2>2. s \ {y} \notin Bad
    BY <1>2, <2>1
  <2> HIDE DEF Sum
  <2> QED BY <2>1, <2>2
<1>9. x \in s \ {a} /\ a \in s \ {x}
  BY <1>3, <1>6, <1>7
<1>10. Sum(s \ {a}) = f[x] + Sum((s \ {a}) \ {x}) /\ Sum(s \ {x}) = f[a] + Sum((s \ {x}) \ {a})
  <2> HIDE DEF Sum
  <2>1. Sum(s \ {a}) = f[x] + Sum((s \ {a}) \ {x})
    BY <1>6, <1>8, <1>9
  <2>2. Sum(s \ {x}) = f[a] + Sum((s \ {x}) \ {a})
    BY <1>3, <1>8, <1>9
  <2> QED BY <2>1, <2>2
<1>11. (s \ {a}) \ {x} = (s \ {x}) \ {a} /\ (s \ {x}) \ {a} \in SUBSET S
  BY <1>5
<1>12. Sum((s \ {x}) \ {a}) \in Nat /\ f[a] \in Nat /\ f[x] \in Nat
  BY <1>4, <1>5, <1>6, <1>11
<1>13. Sum((s \ {a}) \ {x}) = Sum((s \ {x}) \ {a})
  BY <1>11
<1> HIDE DEF Sum
<1>14. Sum(s) = f[x] + Sum(s \ {x})
  BY <1>6, <1>10, <1>12, <1>13
<1> QED BY <1>3, <1>14

LEMMA SumOfSame ==
    ASSUME NEW f, NEW h, NEW S, IsFiniteSet(S), \A x \in S : f[x] = h[x]
    PROVE  SumFunctionOnSet(f, S) = SumFunctionOnSet(h, S)
<1> DEFINE Bad == {s \in SUBSET S : SumFunctionOnSet(f, s) # SumFunctionOnSet(h, s)}
<1> SUFFICES ASSUME Bad # {} PROVE FALSE
  <2>1. S \in SUBSET S
    OBVIOUS
  <2> QED BY <2>1
<1>1. PICK s \in Bad : \A u \in Bad : ~(u \subseteq s /\ u # s)
  <2>1. Bad \in SUBSET (SUBSET S)
    OBVIOUS
  <2> HIDE DEF Bad
  <2> QED BY <2>1, LeastSet
<1>2. s # {} /\ IsFiniteSet(s) /\ s \in SUBSET S
  BY <1>1, SumOfNone, FS_Subset
<1>3. Any(s) \in s /\ SumFunctionOnSet(f, s) = f[Any(s)] + SumFunctionOnSet(f, s \ {Any(s)})
  BY <1>2, SumOfSome
<1>4. SumFunctionOnSet(h, s) = h[Any(s)] + SumFunctionOnSet(h, s \ {Any(s)})
  BY <1>2, SumOfSome
<1>5. SumFunctionOnSet(f, s \ {Any(s)}) = SumFunctionOnSet(h, s \ {Any(s)})
  BY <1>1, <1>3
<1> QED BY <1>1, <1>2, <1>3, <1>4, <1>5

(* A sum changes as its one term that does.                                *)
LEMMA SumOfChanged ==
    ASSUME NEW f, NEW h, NEW S, IsFiniteSet(S), NEW x \in S,
           \A y \in S : f[y] \in Nat /\ h[y] \in Nat,
           \A y \in S \ {x} : f[y] = h[y]
    PROVE  \E rest \in Nat : /\ SumFunctionOnSet(f, S) = rest + f[x]
                            /\ SumFunctionOnSet(h, S) = rest + h[x]
<1> DEFINE rest == SumFunctionOnSet(f, S \ {x})
<1>1. IsFiniteSet(S \ {x})
  BY FS_RemoveElement
<1>2. rest \in Nat /\ rest = SumFunctionOnSet(h, S \ {x})
  BY <1>1, SumIsNat, SumOfSame
<1>3. SumFunctionOnSet(f, S) = f[x] + rest
  BY SumFrom
<1>4. SumFunctionOnSet(h, S) = h[x] + rest
  BY <1>2, SumFrom
<1> HIDE DEF rest
<1> QED BY <1>2, <1>3, <1>4

--------------------------------------------------------------------------------
(* Arithmetic modulo w.                                                    *)

LEMMA Division ==
    ASSUME NEW a \in Nat, NEW w \in Nat \ {0}
    PROVE  a \div w \in Nat /\ a % w \in 0 .. (w - 1) /\ a = w * (a \div w) + (a % w)
  OBVIOUS

LEMMA RemainderIs ==
    ASSUME NEW a \in Nat, NEW w \in Nat \ {0},
           NEW q \in Int, NEW r \in 0 .. (w - 1), a = w * q + r
    PROVE  a % w = r
  OBVIOUS

(* Wrapping around is nothing that a sum modulo w can tell.                *)
LEMMA ModuloOfSum ==
    ASSUME NEW a \in Nat, NEW b \in Nat, NEW w \in Nat \ {0}
    PROVE  (a + (b % w)) % w = (a + b) % w
<1> DEFINE r == b % w
           q == b \div w
           c == a + r
           p == c \div w
           s == c % w
<1>1. q \in Nat /\ r \in 0 .. (w - 1) /\ b = w * q + r
  BY Division
<1>2. p \in Nat /\ s \in 0 .. (w - 1) /\ c = w * p + s
  <2>1. c \in Nat
    BY <1>1
  <2> QED BY <2>1, Division
<1>3. c = a + r /\ s = (a + (b % w)) % w
  OBVIOUS
<1> HIDE DEF r, q, c, p, s
<1>4. a + b = w * (q + p) + s
  <2>1. w * (q + p) = w * q + w * p
    BY <1>1, <1>2
  <2>2. w * q \in Int /\ w * p \in Int
    BY <1>1, <1>2
  <2> QED BY <1>1, <1>2, <1>3, <2>1, <2>2
<1>5. a + b \in Nat /\ q + p \in Int
  BY <1>1, <1>2
<1>6. (a + b) % w = s
  BY <1>2, <1>4, <1>5, RemainderIs
<1> QED BY <1>3, <1>6

--------------------------------------------------------------------------------
(* The invariant.                                                          *)

Values == Nat \cup BOOLEAN

Labels ==
    {"barrier", "waiting", "check", "chunk", "publish", "ended", "joined",
     "sleep", "join", "row"}

TypeOK ==
    /\ pc \in [Processes -> Labels]
    /\ bumps \in [Workers -> 0 .. Chunk]
    /\ n \in [Workers -> Nat]
    /\ acquisitions \in Nat

(* What each worker has done and main has yet to be told of, or has been.  *)
Shares == [w \in Workers |-> n[w] + IF pc[w] = "chunk" THEN Chunk - bumps[w] ELSE 0]

(* Every acquisition is in somebody's share.                               *)
Accounted == SumFunctionOnSet(Shares, Workers) % Width = acquisitions

(* Nobody but the worker writes its count, which is in the end its n.      *)
OwnCount == \A w \in Workers : InOrder(w, Count(w))
Published == \A w \in Workers : pc[w] \in {"ended", "joined"} => ValueOf(Count(w)) = n[w]
Known == \A w \in Workers : pc[w] = "joined" => InOrder(Main, Count(w))

IInv ==
    /\ TypeOK
    /\ MemoryOK(Values)
    /\ Accounted
    /\ OwnCount
    /\ Published
    /\ Known

LEMMA CellsDiffer ==
    /\ Stop \in Cells
    /\ \A w \in Workers : Count(w) \in Cells /\ Count(w) # Stop
    /\ \A v, w \in Workers : Count(v) = Count(w) => v = w
    /\ \A w \in Workers : w \in Processes /\ w # Main
    /\ Main \in Processes
  BY MainAssumption DEF Cells, Stop, Count, Processes

LEMMA Initially == Init => IInv
<1> SUFFICES ASSUME Init PROVE IInv
  OBVIOUS
<1> DEFINE made == [x \in Cells |-> 1]
<1>1. TypeOK
  BY ChunkAssumption DEF Init, TypeOK, Labels
<1>2. ASSUME NEW x \in Cells
      PROVE  /\ written[x] \in Seq([val : Values, view : [Cells -> Nat]])
             /\ Newest(x) = 1
             /\ written[x][1].view = made
             /\ x # Stop => ValueOf(x) = 0
  <2> DEFINE v == IF x = Stop THEN FALSE ELSE 0
             e == [val |-> v, view |-> made]
  <2>1. written[x] = <<e>>
    BY <1>2 DEF Init
  <2>2. v \in Values
    BY DEF Values
  <2>3. e \in [val : Values, view : [Cells -> Nat]] /\ e.view = made /\ e.val = v
    BY <2>2
  <2>4. x # Stop => v = 0
    OBVIOUS
  <2> HIDE DEF v, e, made
  <2> QED BY <2>1, <2>3, <2>4 DEF Newest, ValueOf
<1>3. \A p \in Processes, x \in Cells : view[p][x] = 1
  BY DEF Init
<1>4. MemoryOK(Values)
  <2>1. written \in [Cells -> Seq([val : Values, view : [Cells -> Nat]])]
    BY <1>2 DEF Init
  <2>2. view \in [Processes -> [Cells -> Nat]]
    BY DEF Init
  <2>3. \A x \in Cells : \A i \in DOMAIN written[x] : \A y \in Cells :
           written[x][i].view[y] <= Newest(y)
    <3> TAKE x \in Cells
    <3>1. DOMAIN written[x] = 1 .. 1
      BY <1>2 DEF Newest
    <3> QED BY <1>2, <3>1
  <2>4. \A p \in Processes, x \in Cells : view[p][x] <= Newest(x)
    BY <1>2, <1>3
  <2> QED BY <2>1, <2>2, <2>3, <2>4 DEF MemoryOK
<1>5. OwnCount /\ Published /\ Known
  BY <1>2, <1>3, CellsDiffer DEF Init, OwnCount, Published, Known, InOrder
<1>6. Accounted
  <2>1. \A w \in Workers : Shares[w] = 0
    BY CellsDiffer DEF Init, Shares
  <2>2. SumFunctionOnSet(Shares, Workers) = 0
    BY <2>1, WorkersAssumption, SumOfZeros
  <2> QED BY <2>2, WidthAssumption DEF Accounted, Init
<1> QED BY <1>1, <1>4, <1>5, <1>6 DEF IInv

(* A step that leaves every share alone is to leave the total alone.       *)
LEMMA SharesStay ==
    ASSUME \A w \in Workers : Shares'[w] = Shares[w], UNCHANGED acquisitions, Accounted
    PROVE  Accounted'
<1>1. SumFunctionOnSet(Shares', Workers) = SumFunctionOnSet(Shares, Workers)
  BY WorkersAssumption, SumOfSame
<1> QED BY <1>1 DEF Accounted

(* A step of w that adds to its share what it adds to the total, modulo    *)
(* Width, leaves them in agreement.                                        *)
LEMMA ShareGrows ==
    ASSUME NEW w \in Workers, NEW d \in Nat, Accounted,
           \A v \in Workers : Shares[v] \in Nat /\ Shares'[v] \in Nat,
           \A v \in Workers \ {w} : Shares'[v] = Shares[v],
           Shares'[w] = Shares[w] + d,
           acquisitions' = (acquisitions + d) % Width
    PROVE  Accounted'
<1> DEFINE old == SumFunctionOnSet(Shares, Workers)
           new == SumFunctionOnSet(Shares', Workers)
           a == Shares[w]
<1>1. PICK rest \in Nat : old = rest + a /\ new = rest + Shares'[w]
  BY WorkersAssumption, SumOfChanged
<1>2. old % Width = acquisitions /\ a \in Nat /\ Shares'[w] \in Nat
  BY DEF Accounted
<1> HIDE DEF old, new, a
<1>3. old \in Nat /\ Width \in Nat \ {0}
  BY <1>1, <1>2, WidthAssumption
<1>4. (old + d) % Width = ((old % Width) + d) % Width
  <2>1. (d + (old % Width)) % Width = (d + old) % Width
    BY <1>3, ModuloOfSum
  <2>2. old % Width \in Nat
    BY <1>3
  <2>3. d + (old % Width) = (old % Width) + d /\ d + old = old + d
    BY <1>3, <2>2
  <2> QED BY <2>1, <2>3
<1>5. new = old + d
  BY <1>1, <1>2 DEF a
<1>6. new % Width = (old + d) % Width
  BY <1>5
<1>7. new % Width = acquisitions'
  BY <1>2, <1>4, <1>6
<1> QED BY <1>7 DEF Accounted, new

(* A share that wraps around does not disturb the agreement.               *)
LEMMA ShareWraps ==
    ASSUME NEW w \in Workers, Accounted, UNCHANGED acquisitions,
           \A v \in Workers : Shares[v] \in Nat /\ Shares'[v] \in Nat,
           \A v \in Workers \ {w} : Shares'[v] = Shares[v],
           Shares'[w] = Shares[w] % Width
    PROVE  Accounted'
<1> DEFINE old == SumFunctionOnSet(Shares, Workers)
           new == SumFunctionOnSet(Shares', Workers)
           a == Shares[w]
<1>1. PICK rest \in Nat : old = rest + a /\ new = rest + Shares'[w]
  BY WorkersAssumption, SumOfChanged
<1>2. a \in Nat /\ Shares'[w] = a % Width
  OBVIOUS
<1> HIDE DEF old, new, a
<1>3. new % Width = old % Width
  <2>1. (rest + (a % Width)) % Width = (rest + a) % Width
    BY <1>1, <1>2, WidthAssumption, ModuloOfSum
  <2>2. new = rest + (a % Width)
    BY <1>1, <1>2
  <2> QED BY <1>1, <2>1, <2>2
<1> QED BY <1>3 DEF Accounted, old, new

LEMMA TypeCorrect == TypeOK /\ [Next]_vars => TypeOK'
<1> SUFFICES ASSUME TypeOK, [Next]_vars PROVE TypeOK'
  OBVIOUS
<1> USE ChunkAssumption, WidthAssumption, CellsDiffer DEF TypeOK, Labels
<1>1. \A i, j \in Nat : Plus(i, j) \in Nat
  BY DEF Plus
<1>2. ASSUME NEW p \in Processes, Arrive(p) \/ Pass(p) PROVE TypeOK'
  BY <1>2 DEF Arrive, Pass, Goto
<1>3. ASSUME NEW w \in Workers, WorkerStep(w) PROVE TypeOK'
  <2>1. CASE Arrive(w) \/ Pass(w)  BY <1>2, <2>1
  <2>2. CASE SeesGo(w)             BY <2>2 DEF SeesGo, Goto
  <2>3. CASE SeesStop(w)           BY <2>3 DEF SeesStop, Goto
  <2>4. CASE Bump(w)
    <3>1. bumps[w] - 1 \in 0 .. Chunk
      BY <2>4 DEF Bump
    <3>2. Plus(acquisitions, 1) \in Nat
      BY <1>1
    <3> QED BY <2>4, <3>1, <3>2 DEF Bump
  <2>5. CASE ChunkEnds(w)
    <3>1. Plus(n[w], Chunk) \in Nat
      BY <1>1
    <3> QED BY <2>5, <3>1 DEF ChunkEnds, Goto
  <2>6. CASE Publish(w)            BY <2>6 DEF Publish, Goto
  <2> QED BY <1>3, <2>1, <2>2, <2>3, <2>4, <2>5, <2>6 DEF WorkerStep
<1>4. CASE MainStep
  <2>1. CASE Arrive(Main) \/ Pass(Main)  BY <1>2, <2>1
  <2>2. CASE RaiseStop                   BY <2>2 DEF RaiseStop, Goto
  <2>3. CASE MakeRow                     BY <2>3 DEF MakeRow, Goto
  <2>4. ASSUME NEW w \in Workers, JoinOne(w) PROVE TypeOK'
    BY <2>4 DEF JoinOne, Goto
  <2> QED BY <1>4, <2>1, <2>2, <2>3, <2>4 DEF MainStep
<1>5. CASE UNCHANGED vars
  BY <1>5 DEF vars
<1> QED BY <1>3, <1>4, <1>5 DEF Next

(* What the shares are before and after a step, worker by worker.          *)
LEMMA SharesAre ==
    ASSUME TypeOK, TypeOK'
    PROVE  \A w \in Workers :
              /\ Shares[w] \in Nat /\ Shares'[w] \in Nat
              /\ Shares[w] = n[w] + IF pc[w] = "chunk" THEN Chunk - bumps[w] ELSE 0
              /\ Shares'[w] = n'[w] + IF pc'[w] = "chunk" THEN Chunk - bumps'[w] ELSE 0
<1> USE ChunkAssumption
<1>1. \A w \in Workers :
         /\ n[w] \in Nat /\ n'[w] \in Nat
         /\ bumps[w] \in 0 .. Chunk /\ bumps'[w] \in 0 .. Chunk
  BY DEF TypeOK
<1>2. \A w \in Workers :
         /\ Shares[w] = n[w] + IF pc[w] = "chunk" THEN Chunk - bumps[w] ELSE 0
         /\ Shares'[w] = n'[w] + IF pc'[w] = "chunk" THEN Chunk - bumps'[w] ELSE 0
  BY DEF Shares
<1> QED BY <1>1, <1>2

LEMMA AccountKept == IInv /\ TypeOK' /\ [Next]_vars => Accounted'
<1> SUFFICES ASSUME IInv, TypeOK', [Next]_vars PROVE Accounted'
  OBVIOUS
<1> USE CellsDiffer, ChunkAssumption
<1>1. TypeOK /\ Accounted
  BY DEF IInv
<1> DEFINE Share(v) == n[v] + IF pc[v] = "chunk" THEN Chunk - bumps[v] ELSE 0
           Share2(v) == n'[v] + IF pc'[v] = "chunk" THEN Chunk - bumps'[v] ELSE 0
<1>2. \A v \in Workers : /\ Shares[v] \in Nat /\ Shares'[v] \in Nat
                         /\ Shares[v] = Share(v) /\ Shares'[v] = Share2(v)
  BY <1>1, SharesAre
<1>3. \A v \in Workers : /\ n[v] \in Nat /\ n'[v] \in Nat
                         /\ bumps[v] \in 0 .. Chunk /\ bumps'[v] \in 0 .. Chunk
  BY <1>1 DEF TypeOK
<1>4. ASSUME UNCHANGED acquisitions, \A v \in Workers : Share(v) = Share2(v)
      PROVE  Accounted'
  BY <1>1, <1>2, <1>4, SharesStay
<1>5. ASSUME UNCHANGED <<bumps, n, acquisitions>>,
             \A v \in Workers : pc[v] = "chunk" <=> pc'[v] = "chunk"
      PROVE  Accounted'
  BY <1>4, <1>5
<1>6. ASSUME NEW p \in Processes, Arrive(p) \/ Pass(p) PROVE Accounted'
  BY <1>1, <1>5, <1>6 DEF TypeOK, Arrive, Pass, Goto
<1>7. ASSUME NEW w \in Workers, WorkerStep(w) PROVE Accounted'
  <2>1. CASE Arrive(w) \/ Pass(w)  BY <1>6, <2>1
  <2>2. CASE SeesGo(w)
    <3>1. \A v \in Workers : Share(v) = Share2(v)
      BY <1>1, <1>3, <2>2 DEF TypeOK, SeesGo, Goto
    <3> QED BY <1>4, <2>2, <3>1 DEF SeesGo
  <2>3. CASE SeesStop(w)
    BY <1>1, <1>5, <2>3 DEF TypeOK, SeesStop, Goto
  <2>4. CASE Bump(w)
    <3>1. Share2(w) = Share(w) + 1 /\ \A v \in Workers \ {w} : Share2(v) = Share(v)
      BY <1>1, <1>3, <2>4 DEF TypeOK, Bump
    <3>2. acquisitions' = (acquisitions + 1) % Width
      BY <2>4 DEF Bump, Plus
    <3> HIDE DEF Share, Share2
    <3> QED BY <1>1, <1>2, <3>1, <3>2, ShareGrows
  <2>5. CASE ChunkEnds(w)
    <3>1. /\ Share(w) = n[w] + Chunk /\ Share2(w) = n'[w]
          /\ n'[w] = (n[w] + Chunk) % Width
      BY <1>1, <1>3, <2>5 DEF TypeOK, ChunkEnds, Goto, Plus
    <3>2. \A v \in Workers \ {w} : Share2(v) = Share(v)
      BY <1>1, <2>5 DEF TypeOK, ChunkEnds, Goto
    <3>3. UNCHANGED acquisitions /\ Share2(w) = Share(w) % Width
      BY <2>5, <3>1 DEF ChunkEnds
    <3> HIDE DEF Share, Share2
    <3> QED BY <1>1, <1>2, <3>2, <3>3, ShareWraps
  <2>6. CASE Publish(w)
    BY <1>1, <1>5, <2>6 DEF TypeOK, Publish, Goto
  <2> QED BY <1>7, <2>1, <2>2, <2>3, <2>4, <2>5, <2>6 DEF WorkerStep
<1>8. CASE MainStep
  <2>1. CASE Arrive(Main) \/ Pass(Main)  BY <1>6, <2>1
  <2>2. CASE RaiseStop   BY <1>1, <1>5, <2>2 DEF TypeOK, RaiseStop, Goto
  <2>3. CASE MakeRow     BY <1>1, <1>5, <2>3 DEF TypeOK, MakeRow, Goto
  <2>4. ASSUME NEW w \in Workers, JoinOne(w) PROVE Accounted'
    BY <1>1, <1>5, <2>4 DEF TypeOK, JoinOne, Goto
  <2> QED BY <1>8, <2>1, <2>2, <2>3, <2>4 DEF MainStep
<1>9. CASE UNCHANGED vars
  BY <1>5, <1>9 DEF vars
<1> QED BY <1>7, <1>8, <1>9 DEF Next

--------------------------------------------------------------------------------
(* What main knows of the counts.                                          *)

LEMMA MemoryKept ==
    IInv /\ TypeOK' /\ [Next]_vars
        => (MemoryOK(Values) /\ OwnCount /\ Published /\ Known)'
<1> SUFFICES ASSUME IInv, TypeOK', [Next]_vars
             PROVE  (MemoryOK(Values) /\ OwnCount /\ Published /\ Known)'
  OBVIOUS
<1> USE CellsDiffer
<1> DEFINE Goal == MemoryOK(Values) /\ OwnCount /\ Published /\ Known
<1>1. TypeOK /\ MemoryOK(Values) /\ OwnCount /\ Published /\ Known
  BY DEF IInv
<1>2. ASSUME UNCHANGED <<written, view>>,
             \A v \in Workers : \/ pc'[v] \in {"ended", "joined"} /\ pc'[v] = pc[v] /\ n'[v] = n[v]
                                \/ pc'[v] \notin {"ended", "joined"}
      PROVE  Goal'
  <2>1. MemoryOK(Values)'
    BY <1>1, <1>2 DEF MemoryOK, Newest
  <2>2. (OwnCount /\ Published /\ Known)'
    BY <1>1, <1>2 DEF OwnCount, Published, Known, InOrder, Newest, ValueOf
  <2> QED BY <2>1, <2>2
<1>3. ASSUME NEW p \in Processes, Arrive(p) \/ Pass(p) PROVE Goal'
  BY <1>1, <1>2, <1>3 DEF TypeOK, Arrive, Pass, Goto
<1>4. ASSUME NEW w \in Workers, NEW i \in DOMAIN written[Stop], Read(w, Stop, i, Relaxed),
             UNCHANGED n, \A v \in Workers : \/ pc'[v] = pc[v]
                                             \/ pc'[v] \notin {"ended", "joined"}
      PROVE  Goal'
  <2>1. /\ MemoryOK(Values)'
        /\ UNCHANGED written
        /\ \A q \in Processes \ {w} : view'[q] = view[q]
        /\ \A y \in Cells : view[w][y] <= view'[w][y]
    BY <1>1, <1>4, ReadLearns
  <2>2. OwnCount'
    <3> SUFFICES ASSUME NEW v \in Workers PROVE view'[v][Count(v)] = Newest(Count(v))'
      BY DEF OwnCount, InOrder
    <3>1. view[v][Count(v)] = Newest(Count(v)) /\ Newest(Count(v))' = Newest(Count(v))
      BY <1>1, <2>1 DEF OwnCount, InOrder, Newest
    <3>2. CASE v = w
      <4>1. view'[w][Count(w)] \in Nat /\ view'[w][Count(w)] <= Newest(Count(w))'
        BY <2>1 DEF MemoryOK
      <4>2. view[w][Count(w)] <= view'[w][Count(w)]
        BY <2>1
      <4>3. view[w][Count(w)] \in Nat
        BY <1>1 DEF MemoryOK
      <4> QED BY <3>1, <3>2, <4>1, <4>2, <4>3
    <3>3. CASE v # w
      BY <2>1, <3>1, <3>3
    <3> QED BY <3>2, <3>3
  <2>3. (Published /\ Known)'
    BY <1>1, <1>4, <2>1 DEF Published, Known, InOrder, Newest, ValueOf
  <2> QED BY <2>1, <2>2, <2>3
<1>5. ASSUME NEW w \in Workers, WorkerStep(w) PROVE Goal'
  <2>1. CASE Arrive(w) \/ Pass(w)  BY <1>3, <2>1
  <2>2. CASE SeesGo(w)
    <3>1. PICK i \in DOMAIN written[Stop] : Read(w, Stop, i, Relaxed)
      BY <2>2 DEF SeesGo
    <3>2. \A v \in Workers : pc'[v] = pc[v] \/ pc'[v] \notin {"ended", "joined"}
      BY <1>1, <2>2 DEF TypeOK, SeesGo, Goto
    <3> QED BY <1>4, <2>2, <3>1, <3>2 DEF SeesGo
  <2>3. CASE SeesStop(w)
    <3>1. PICK i \in DOMAIN written[Stop] : Read(w, Stop, i, Relaxed)
      BY <2>3 DEF SeesStop
    <3>2. \A v \in Workers : pc'[v] = pc[v] \/ pc'[v] \notin {"ended", "joined"}
      BY <1>1, <2>3 DEF TypeOK, SeesStop, Goto
    <3> QED BY <1>4, <2>3, <3>1, <3>2 DEF SeesStop
  <2>4. CASE Bump(w)       BY <1>1, <1>2, <2>4 DEF TypeOK, Bump
  <2>5. CASE ChunkEnds(w)  BY <1>1, <1>2, <2>5 DEF TypeOK, ChunkEnds, Goto
  <2>6. CASE Publish(w)
    <3> DEFINE vals == [x \in {Count(w)} |-> n[w]]
    <3>1. Write(w, vals, Relaxed)
      BY <2>6 DEF Publish
    <3>2. DOMAIN vals = {Count(w)} /\ vals[Count(w)] = n[w] /\ n[w] \in Values
      BY <1>1 DEF TypeOK, Values
    <3> HIDE DEF vals
    <3>3. /\ MemoryOK(Values)'
          /\ \A q \in Processes \ {w} : view'[q] = view[q]
          /\ \A x \in Cells \ {Count(w)} : written'[x] = written[x] /\ view'[w][x] = view[w][x]
          /\ ValueOf(Count(w))' = n[w] /\ view'[w][Count(w)] = Newest(Count(w))'
      BY <1>1, <3>1, <3>2, WriteAppends
    <3>4. /\ pc'[w] = "ended" /\ UNCHANGED n
          /\ \A v \in Workers \ {w} : pc'[v] = pc[v]
      BY <1>1, <2>6 DEF TypeOK, Publish, Goto
    <3>5. \A v \in Workers \ {w} : Count(v) # Count(w) /\ written'[Count(v)] = written[Count(v)]
      BY <3>3
    <3>6. OwnCount'
      BY <1>1, <3>3, <3>5 DEF OwnCount, InOrder, Newest
    <3>7. Published' /\ Known'
      BY <1>1, <3>3, <3>4, <3>5 DEF Published, Known, InOrder, Newest, ValueOf
    <3> QED BY <3>3, <3>6, <3>7
  <2> QED BY <1>5, <2>1, <2>2, <2>3, <2>4, <2>5, <2>6 DEF WorkerStep
<1>6. CASE MainStep
  <2>1. CASE Arrive(Main) \/ Pass(Main)  BY <1>3, <2>1
  <2>2. CASE RaiseStop
    <3> DEFINE vals == [x \in {Stop} |-> TRUE]
    <3>1. Write(Main, vals, Relaxed)
      BY <2>2 DEF RaiseStop
    <3>2. DOMAIN vals = {Stop} /\ \A x \in DOMAIN vals : vals[x] \in Values
      BY DEF Values
    <3> HIDE DEF vals
    <3>3. /\ MemoryOK(Values)'
          /\ \A q \in Processes \ {Main} : view'[q] = view[q]
          /\ \A x \in Cells \ {Stop} : written'[x] = written[x] /\ view'[Main][x] = view[Main][x]
      BY <1>1, <3>1, <3>2, WriteAppends
    <3>4. UNCHANGED n /\ \A v \in Workers : pc'[v] = pc[v]
      BY <1>1, <2>2 DEF TypeOK, RaiseStop, Goto
    <3>5. \A v \in Workers : written'[Count(v)] = written[Count(v)]
      BY <3>3
    <3>6. (OwnCount /\ Published /\ Known)'
      BY <1>1, <3>3, <3>4, <3>5 DEF OwnCount, Published, Known, InOrder, Newest, ValueOf
    <3> QED BY <3>3, <3>6
  <2>3. CASE MakeRow     BY <1>1, <1>2, <2>3 DEF TypeOK, MakeRow, Goto
  <2>4. ASSUME NEW w \in Workers, JoinOne(w) PROVE Goal'
    <3>1. /\ MemoryOK(Values)'
          /\ UNCHANGED written
          /\ \A r \in Processes \ {Main} : view'[r] = view[r]
          /\ \A x \in Cells : view[Main][x] <= view'[Main][x] /\ view[w][x] <= view'[Main][x]
      BY <1>1, <2>4, JoinHandsOver DEF JoinOne
    <3>2. /\ UNCHANGED n /\ pc[w] = "ended" /\ pc'[w] = "joined"
          /\ \A v \in Workers \ {w} : pc'[v] = pc[v]
      BY <1>1, <2>4 DEF TypeOK, JoinOne, Goto
    <3>3. OwnCount' /\ Published'
      BY <1>1, <3>1, <3>2 DEF OwnCount, Published, InOrder, Newest, ValueOf
    <3>4. Known'
      <4> SUFFICES ASSUME NEW v \in Workers, pc'[v] = "joined"
                   PROVE  view'[Main][Count(v)] = Newest(Count(v))'
        BY DEF Known, InOrder
      <4>1. view[v][Count(v)] = Newest(Count(v)) /\ Newest(Count(v))' = Newest(Count(v))
        BY <1>1, <3>1 DEF OwnCount, InOrder, Newest
      <4>2. v # w => view[Main][Count(v)] = Newest(Count(v))
        BY <1>1, <3>2 DEF Known, InOrder
      <4>3. /\ view'[Main][Count(v)] \in Nat /\ view'[Main][Count(v)] <= Newest(Count(v))'
        BY <3>1 DEF MemoryOK
      <4>4. view[Main][Count(v)] \in Nat /\ view[v][Count(v)] \in Nat
        BY <1>1 DEF MemoryOK
      <4>5. /\ view[Main][Count(v)] <= view'[Main][Count(v)]
            /\ v = w => view[v][Count(v)] <= view'[Main][Count(v)]
        BY <3>1
      <4> QED BY <4>1, <4>2, <4>3, <4>4, <4>5
    <3> QED BY <3>1, <3>3, <3>4
  <2> QED BY <1>6, <2>1, <2>2, <2>3, <2>4 DEF MainStep
<1>7. CASE UNCHANGED vars
  BY <1>1, <1>2, <1>7 DEF vars
<1> QED BY <1>5, <1>6, <1>7 DEF Next

--------------------------------------------------------------------------------

(* No step of a worker or of main loses an acquisition.                    *)
THEOREM Invariance == Spec => []IInv
<1>1. IInv /\ [Next]_vars => IInv'
  BY TypeCorrect, AccountKept, MemoryKept DEF IInv
<1> QED BY <1>1, Initially, PTL DEF Spec

(* However many workers there are, in however many chunks: main is shown   *)
(* the counts that were published, and they add up to the payload's total. *)
THEOREM TotalsAgree == Spec => []CountsAgree
<1>1. IInv => CountsAgree
  <2> SUFFICES ASSUME IInv, AllJoined PROVE CountsAgree
    BY DEF CountsAgree
  <2> DEFINE counts == [w \in Workers |-> ValueOf(Count(w))]
  <2>1. \A w \in Workers : pc[w] = "joined"
    BY DEF AllJoined
  <2>2. \A w \in Workers : InOrder(Main, Count(w)) /\ ValueOf(Count(w)) = n[w] /\ n[w] \in Nat
    BY <2>1 DEF IInv, Known, Published, TypeOK
  <2>3. \A w \in Workers : counts[w] = Shares[w]
    BY <2>1, <2>2 DEF Shares
  <2>4. DOMAIN counts = Workers
    OBVIOUS
  <2> HIDE DEF counts
  <2>5. SumFunctionOnSet(counts, Workers) = SumFunctionOnSet(Shares, Workers)
    BY <2>3, WorkersAssumption, SumOfSame
  <2>6. SumFunction(counts) % Width = acquisitions
    BY <2>4, <2>5 DEF SumFunction, IInv, Accounted
  <2> QED BY <2>2, <2>6 DEF CountsAgree, counts
<1> QED BY <1>1, Invariance, PTL

=============================================================================
