------------------------------- MODULE ViewMemory -------------------------------
(***************************************************************************)
(* Memory as Rust's std::sync::atomic gives it to the program, for the     *)
(* fragment that the locks use: loads, stores and read-modify-writes that  *)
(* are Relaxed, Acquire, Release or AcqRel.                                *)
(*                                                                         *)
(* written[x] is the modification order of the cell x.  A process may      *)
(* still be shown any value of a cell that is not older than the one it    *)
(* has to have seen already; view[p][x] is the place of that value.  What  *)
(* is written with Release carries the writer's view, and an Acquire that  *)
(* reads it takes that view over: this, and nothing else, makes one        *)
(* process's writes visible to another.                                    *)
(*                                                                         *)
(* A write goes to the end of the modification order.  That is what the    *)
(* hardware must do only if the writer knows the present end; a            *)
(* specification over this memory says so of its plain stores (InOrder).   *)
(***************************************************************************)
EXTENDS Naturals, Sequences

CONSTANTS
    Processes,  \* the threads, main included
    Cells       \* the words of memory, atomic and plain

VARIABLES
    written,    \* written[x]: what was written to x, with the views attached
    view        \* view[p][x]: the oldest entry of written[x] that p may read

Relaxed == {}
Acquire == {"Acquire"}
Release == {"Release"}
AcqRel  == {"Acquire", "Release"}

Blank == [x \in Cells |-> 0]

Join(v, w) == [x \in Cells |-> IF v[x] < w[x] THEN w[x] ELSE v[x]]

Newest(x) == Len(written[x])
ValueOf(x) == written[x][Newest(x)].val

(* No entry that p has yet to hear of comes before what p writes to x.     *)
InOrder(p, x) == view[p][x] = Newest(x)

(* What p knows once it has read entry i of x.                             *)
Learned(p, x, i, ord) ==
    LET at == [view[p] EXCEPT ![x] = i]
    IN  IF "Acquire" \in ord THEN Join(at, written[x][i].view) ELSE at

(* p reads entry i of x: a load, or a compare_exchange that fails.         *)
Read(p, x, i, ord) ==
    /\ i \in view[p][x] .. Newest(x)
    /\ view' = [view EXCEPT ![p] = Learned(p, x, i, ord)]
    /\ UNCHANGED written

(* p writes vals[x] to every cell x of DOMAIN vals.                        *)
Write(p, vals, ord) ==
    LET at == [x \in Cells |-> IF x \in DOMAIN vals THEN Newest(x) + 1 ELSE view[p][x]]
        carried == IF "Release" \in ord THEN at ELSE Blank
    IN  /\ view' = [view EXCEPT ![p] = at]
        /\ written' = [x \in Cells |->
               IF x \in DOMAIN vals
                 THEN Append(written[x], [val |-> vals[x], view |-> carried])
                 ELSE written[x]]

(* p replaces the newest value of x, whatever it is, in one step; what the *)
(* replaced entry carried is carried on (a release sequence).              *)
Exchange(p, x, val, ord) ==
    LET at == [Learned(p, x, Newest(x), ord) EXCEPT ![x] = Newest(x) + 1]
        carried == Join(IF "Release" \in ord THEN at ELSE Blank,
                        written[x][Newest(x)].view)
    IN  /\ view' = [view EXCEPT ![p] = at]
        /\ written' = [written EXCEPT ![x] =
               Append(@, [val |-> val, view |-> carried])]

(* std::thread: what a thread starts with, and what a join makes known.    *)
Spawn(p, children) ==
    /\ view' = [q \in Processes |-> IF q \in children THEN view[p] ELSE view[q]]
    /\ UNCHANGED written

JoinThread(p, q) ==
    /\ view' = [view EXCEPT ![p] = Join(@, view[q])]
    /\ UNCHANGED written

--------------------------------------------------------------------------------
(* What the locks' proofs use of this memory.                              *)

(* Nobody has seen what is not written, values are of V.                   *)
MemoryOK(V) ==
    /\ written \in [Cells -> Seq([val : V, view : [Cells -> Nat]])]
    /\ view \in [Processes -> [Cells -> Nat]]
    /\ \A p \in Processes, x \in Cells : view[p][x] <= Newest(x)
    /\ \A x \in Cells : \A i \in DOMAIN written[x] : \A y \in Cells :
          written[x][i].view[y] <= Newest(y)

(* A join knows what either view knows, and no more.                       *)
LEMMA JoinIsMax ==
    ASSUME NEW v \in [Cells -> Nat], NEW w \in [Cells -> Nat]
    PROVE  /\ Join(v, w) \in [Cells -> Nat]
           /\ \A x \in Cells : v[x] <= Join(v, w)[x] /\ w[x] <= Join(v, w)[x]
           /\ \A x \in Cells : Join(v, w)[x] \in {v[x], w[x]}
  BY DEF Join

(* The entries of a cell are numbered, and carry what has been written.    *)
LEMMA Entries ==
    ASSUME NEW V, MemoryOK(V), NEW x \in Cells
    PROVE  /\ Newest(x) \in Nat /\ DOMAIN written[x] = 1 .. Newest(x)
           /\ \A i \in 1 .. Newest(x) :
                 /\ written[x][i].val \in V
                 /\ written[x][i].view \in [Cells -> Nat]
                 /\ \A y \in Cells : written[x][i].view[y] <= Newest(y)
           /\ \A p \in Processes : view[p][x] \in Nat /\ view[p][x] <= Newest(x)
<1> DEFINE E == [val : V, view : [Cells -> Nat]]
<1>1. written[x] \in Seq(E)
  BY DEF MemoryOK
<1> HIDE DEF E
<1>2. Len(written[x]) \in Nat /\ DOMAIN written[x] = 1 .. Len(written[x])
  BY <1>1
<1>3. \A i \in 1 .. Len(written[x]) : written[x][i] \in E
  BY <1>1
<1>4. \A p \in Processes : view[p][x] \in Nat /\ view[p][x] <= Newest(x)
  BY DEF MemoryOK
<1>5. \A i \in DOMAIN written[x] : \A y \in Cells : written[x][i].view[y] <= Newest(y)
  BY DEF MemoryOK
<1>6. \A e \in E : e.val \in V /\ e.view \in [Cells -> Nat]
  BY DEF E
<1> QED BY <1>2, <1>3, <1>4, <1>5, <1>6 DEF Newest

(* A load makes its process know more, and changes nothing else.           *)
LEMMA ReadLearns ==
    ASSUME NEW V, MemoryOK(V), NEW p \in Processes, NEW x \in Cells, NEW ord,
           NEW i \in DOMAIN written[x], Read(p, x, i, ord)
    PROVE  /\ MemoryOK(V)'
           /\ UNCHANGED written
           /\ \A q \in Processes \ {p} : view'[q] = view[q]
           /\ \A y \in Cells : view[p][y] <= view'[p][y]
           /\ i <= view'[p][x]
           /\ "Acquire" \in ord =>
                 \A y \in Cells : written[x][i].view[y] <= view'[p][y]
<1> DEFINE at == [view[p] EXCEPT ![x] = i]
           new == Learned(p, x, i, ord)
           e == written[x][i].view
<1>0. \A y \in Cells : Newest(y) \in Nat /\ view[p][y] \in Nat /\ view[p][y] <= Newest(y)
  BY Entries
<1>1. i \in 1 .. Newest(x) /\ view[p][x] <= i /\ i <= Newest(x)
  BY Entries, <1>0 DEF Read
<1>2. e \in [Cells -> Nat] /\ \A y \in Cells : e[y] <= Newest(y)
  BY <1>1, Entries
<1>3. view[p] \in [Cells -> Nat]
  BY DEF MemoryOK
<1> HIDE DEF e
<1>4. at \in [Cells -> Nat] /\ \A y \in Cells : view[p][y] <= at[y] /\ at[y] <= Newest(y)
  BY <1>0, <1>1, <1>3
<1>a. at[x] = i
  BY <1>3
<1> HIDE DEF at
<1>5. /\ new \in [Cells -> Nat]
      /\ \A y \in Cells : at[y] <= new[y] /\ new[y] <= Newest(y)
      /\ "Acquire" \in ord => \A y \in Cells : e[y] <= new[y]
  <2>1. CASE "Acquire" \in ord
    <3>1. new = Join(at, e)
      BY <2>1 DEF Learned, at, e
    <3>2. \A y \in Cells : Join(at, e)[y] \in {at[y], e[y]}
      BY <1>2, <1>4, JoinIsMax
    <3> QED BY <1>2, <1>4, <2>1, <3>1, <3>2, JoinIsMax
  <2>2. CASE "Acquire" \notin ord
    <3>1. new = at
      BY <2>2 DEF Learned, at
    <3>2. \A y \in Cells : at[y] \in Nat
      BY <1>4
    <3> QED BY <1>4, <2>2, <3>1, <3>2
  <2> QED BY <2>1, <2>2
<1>6. view' = [view EXCEPT ![p] = new] /\ written' = written
  BY DEF Read
<1> HIDE DEF new
<1>7. view'[p] = new /\ \A q \in Processes \ {p} : view'[q] = view[q]
  BY <1>6 DEF MemoryOK
<1>8. MemoryOK(V)'
  <2>1. view' \in [Processes -> [Cells -> Nat]]
    BY <1>5, <1>6 DEF MemoryOK
  <2>2. \A q \in Processes, y \in Cells : view'[q][y] <= Newest(y)
    BY <1>5, <1>7 DEF MemoryOK
  <2> QED BY <1>6, <2>1, <2>2 DEF MemoryOK, Newest
<1>9. \A y \in Cells : view[p][y] <= new[y]
  BY <1>0, <1>4, <1>5
<1>10. i <= new[x]
  BY <1>5, <1>a
<1> QED BY <1>5, <1>6, <1>7, <1>8, <1>9, <1>10 DEF e

(* What an entry added to x makes of the memory: the lemma under the two   *)
(* that write.                                                             *)
Adds(x, v, c) == written'[x] = Append(written[x], [val |-> v, view |-> c])

LEMMA AppendOK ==
    ASSUME NEW V, MemoryOK(V), NEW x \in Cells, NEW v \in V,
           NEW c \in [Cells -> Nat], Adds(x, v, c)
    PROVE  /\ written'[x] \in Seq([val : V, view : [Cells -> Nat]])
           /\ Newest(x)' = Newest(x) + 1
           /\ ValueOf(x)' = v
           /\ written'[x][Newest(x)'].view = c
           /\ DOMAIN written'[x] = DOMAIN written[x] \cup {Newest(x)'}
           /\ \A i \in DOMAIN written[x] : written'[x][i] = written[x][i]
<1> DEFINE E == [val : V, view : [Cells -> Nat]]
           e == [val |-> v, view |-> c]
<1>1. e \in E /\ e.val = v /\ e.view = c
  OBVIOUS
<1>2. written[x] \in Seq(E)
  BY DEF MemoryOK
<1> HIDE DEF e, E
<1>3. /\ Append(written[x], e) \in Seq(E)
      /\ Len(Append(written[x], e)) = Len(written[x]) + 1
      /\ Append(written[x], e)[Len(written[x]) + 1] = e
      /\ \A i \in DOMAIN written[x] : Append(written[x], e)[i] = written[x][i]
  BY <1>1, <1>2
<1>4. DOMAIN Append(written[x], e) = DOMAIN written[x] \cup {Len(written[x]) + 1}
  BY <1>1, <1>2
<1>5. written'[x] = Append(written[x], e)
  BY DEF e, Adds
<1> QED BY <1>1, <1>3, <1>4, <1>5 DEF Newest, ValueOf, E

(* A store is the newest entry of its cells; its process knows it, and if  *)
(* it is a Release, whoever acquires it knows all that its process does.   *)
LEMMA WriteAppends ==
    ASSUME NEW V, MemoryOK(V), NEW p \in Processes, NEW vals, NEW ord,
           DOMAIN vals \subseteq Cells, \A x \in DOMAIN vals : vals[x] \in V,
           Write(p, vals, ord)
    PROVE  /\ MemoryOK(V)'
           /\ \A q \in Processes \ {p} : view'[q] = view[q]
           /\ \A x \in Cells \ DOMAIN vals :
                 written'[x] = written[x] /\ view'[p][x] = view[p][x]
           /\ \A x \in DOMAIN vals :
                 /\ Newest(x)' = Newest(x) + 1
                 /\ ValueOf(x)' = vals[x]
                 /\ view'[p][x] = Newest(x)'
                 /\ \A i \in DOMAIN written[x] : written'[x][i] = written[x][i]
                 /\ "Release" \in ord =>
                       \A y \in Cells : written'[x][Newest(x)'].view[y] = view'[p][y]
<1> DEFINE at == [x \in Cells |-> IF x \in DOMAIN vals THEN Newest(x) + 1 ELSE view[p][x]]
           carried == IF "Release" \in ord THEN at ELSE Blank
<1>1. \A x \in Cells : Newest(x) \in Nat /\ view[p][x] \in Nat /\ view[p][x] <= Newest(x)
  BY Entries
<1>2. at \in [Cells -> Nat] /\ carried \in [Cells -> Nat]
  BY <1>1 DEF Blank
<1>3. \A x \in Cells : written'[x] = IF x \in DOMAIN vals
                              THEN Append(written[x], [val |-> vals[x], view |-> carried])
                              ELSE written[x]
  BY DEF Write
<1>4. /\ view' = [view EXCEPT ![p] = at]
      /\ written' = [x \in Cells |-> written'[x]]
  BY DEF Write
<1>5. \A x \in Cells :
        /\ at[x] = IF x \in DOMAIN vals THEN Newest(x) + 1 ELSE view[p][x]
        /\ carried[x] <= at[x]
  BY <1>1 DEF Blank
<1>6. "Release" \in ord => carried = at
  OBVIOUS
<1> HIDE DEF at, carried
<1>7. \A x \in DOMAIN vals :
        /\ written'[x] \in Seq([val : V, view : [Cells -> Nat]])
        /\ Newest(x)' = Newest(x) + 1
        /\ ValueOf(x)' = vals[x]
        /\ written'[x][Newest(x)'].view = carried
        /\ DOMAIN written'[x] = DOMAIN written[x] \cup {Newest(x)'}
        /\ \A i \in DOMAIN written[x] : written'[x][i] = written[x][i]
  <2> TAKE x \in DOMAIN vals
  <2>1. x \in Cells /\ vals[x] \in V
    OBVIOUS
  <2>2. Adds(x, vals[x], carried)
    BY <1>3, <2>1 DEF Adds
  <2> QED BY <1>2, <2>1, <2>2, AppendOK
<1>8. \A x \in Cells \ DOMAIN vals : written'[x] = written[x] /\ Newest(x)' = Newest(x)
  BY <1>3 DEF Newest
<1>9. view'[p] = at /\ \A q \in Processes \ {p} : view'[q] = view[q]
  BY <1>4 DEF MemoryOK
<1>10. \A x \in Cells : /\ Newest(x)' \in Nat /\ at[x] \in Nat
                        /\ Newest(x) <= Newest(x)' /\ at[x] <= Newest(x)'
                        /\ carried[x] \in Nat /\ carried[x] <= Newest(x)'
  <2> TAKE x \in Cells
  <2>1. at[x] \in Nat /\ carried[x] \in Nat
    BY <1>2
  <2>2. CASE x \in DOMAIN vals
    BY <1>1, <1>5, <1>7, <2>1, <2>2
  <2>3. CASE x \notin DOMAIN vals
    BY <1>1, <1>5, <1>8, <2>1, <2>3
  <2> QED BY <2>2, <2>3
<1>11. MemoryOK(V)'
  <2>1. written' \in [Cells -> Seq([val : V, view : [Cells -> Nat]])]
    <3>1. \A x \in Cells : written'[x] \in Seq([val : V, view : [Cells -> Nat]])
      BY <1>7, <1>8 DEF MemoryOK
    <3> QED BY <1>4, <3>1
  <2>2. view' \in [Processes -> [Cells -> Nat]]
    BY <1>2, <1>4 DEF MemoryOK
  <2>3. ASSUME NEW q \in Processes, NEW x \in Cells
        PROVE  view'[q][x] <= Newest(x)'
    <3>1. CASE q = p
      BY <1>9, <1>10, <3>1
    <3>2. CASE q # p
      <4>1. view[q][x] \in Nat /\ view[q][x] <= Newest(x) /\ view'[q] = view[q]
        BY <1>9, <3>2, Entries
      <4> QED BY <1>1, <1>10, <4>1
    <3> QED BY <3>1, <3>2
  <2>4. ASSUME NEW x \in Cells, NEW i \in DOMAIN written'[x], NEW y \in Cells
        PROVE  written'[x][i].view[y] <= Newest(y)'
    <3>1. CASE i \in DOMAIN written[x]
      <4>1. written'[x][i] = written[x][i]
        BY <1>7, <1>8, <3>1
      <4>2. i \in 1 .. Newest(x)
        BY <3>1, Entries
      <4>3. written[x][i].view[y] <= Newest(y) /\ written[x][i].view[y] \in Nat
        BY <4>2, Entries
      <4> QED BY <1>1, <1>10, <4>1, <4>3
    <3>2. CASE i \notin DOMAIN written[x]
      <4>1. x \in DOMAIN vals /\ i = Newest(x)'
        BY <1>7, <1>8, <3>2
      <4>2. written'[x][i].view = carried
        BY <1>7, <4>1
      <4> QED BY <1>10, <4>2
    <3> QED BY <3>1, <3>2
  <2> QED BY <2>1, <2>2, <2>3, <2>4 DEF MemoryOK, Newest
<1>12. \A x \in DOMAIN vals : view'[p][x] = Newest(x)'
  BY <1>5, <1>7, <1>9
<1>13. \A x \in Cells \ DOMAIN vals : view'[p][x] = view[p][x]
  BY <1>5, <1>9
<1> QED BY <1>6, <1>7, <1>8, <1>9, <1>11, <1>12, <1>13

(* A read-modify-write does both: it adds the newest entry, from which     *)
(* whoever acquires it learns what the entry before it carried, too.       *)
LEMMA ExchangeAppends ==
    ASSUME NEW V, MemoryOK(V), NEW p \in Processes, NEW x \in Cells, NEW v \in V,
           NEW ord, Newest(x) > 0, Exchange(p, x, v, ord)
    PROVE  /\ MemoryOK(V)'
           /\ \A q \in Processes \ {p} : view'[q] = view[q]
           /\ \A y \in Cells \ {x} : written'[y] = written[y]
           /\ \A y \in Cells : view[p][y] <= view'[p][y]
           /\ Newest(x)' = Newest(x) + 1
           /\ ValueOf(x)' = v
           /\ view'[p][x] = Newest(x)'
           /\ \A i \in DOMAIN written[x] : written'[x][i] = written[x][i]
           /\ "Acquire" \in ord =>
                 \A y \in Cells : written[x][Newest(x)].view[y] <= view'[p][y]
           /\ "Release" \in ord =>
                 \A y \in Cells : view'[p][y] <= written'[x][Newest(x)'].view[y]
           /\ \A y \in Cells :
                 written[x][Newest(x)].view[y] <= written'[x][Newest(x)'].view[y]
<1> DEFINE e == written[x][Newest(x)].view
           old == [view[p] EXCEPT ![x] = Newest(x)]
           learnt == Learned(p, x, Newest(x), ord)
           at == [learnt EXCEPT ![x] = Newest(x) + 1]
           own == IF "Release" \in ord THEN at ELSE Blank
           carried == Join(own, e)
<1>1. \A y \in Cells : Newest(y) \in Nat /\ view[p][y] \in Nat /\ view[p][y] <= Newest(y)
  BY Entries
<1>2. e \in [Cells -> Nat] /\ \A y \in Cells : e[y] \in Nat /\ e[y] <= Newest(y)
  BY <1>1, Entries
<1>3. view[p] \in [Cells -> Nat]
  BY DEF MemoryOK
<1>4. view' = [view EXCEPT ![p] = at]
      /\ written' = [written EXCEPT ![x] = Append(@, [val |-> v, view |-> carried])]
  BY DEF Exchange
<1> HIDE DEF e
<1>5. old \in [Cells -> Nat] /\ \A y \in Cells : view[p][y] <= old[y] /\ old[y] <= Newest(y)
  BY <1>1, <1>3
<1>6. /\ learnt \in [Cells -> Nat]
      /\ \A y \in Cells : view[p][y] <= learnt[y] /\ learnt[y] <= Newest(y)
      /\ "Acquire" \in ord => \A y \in Cells : e[y] <= learnt[y]
  <2> HIDE DEF old
  <2>0. \A y \in Cells : old[y] \in Nat
    BY <1>5
  <2>1. CASE "Acquire" \in ord
    <3>1. learnt = Join(old, e) /\ \A y \in Cells : learnt[y] = Join(old, e)[y]
      BY <2>1 DEF Learned, old, e
    <3> HIDE DEF learnt
    <3>2. /\ Join(old, e) \in [Cells -> Nat]
          /\ \A y \in Cells : old[y] <= Join(old, e)[y] /\ e[y] <= Join(old, e)[y]
          /\ \A y \in Cells : Join(old, e)[y] \in {old[y], e[y]}
      BY <1>2, <1>5, JoinIsMax
    <3>3. \A y \in Cells : learnt[y] \in Nat
      BY <3>1, <3>2
    <3>4. learnt \in [Cells -> Nat] /\ \A y \in Cells : e[y] <= learnt[y]
      BY <3>1, <3>2
    <3>5. \A y \in Cells : view[p][y] <= learnt[y] /\ learnt[y] <= Newest(y)
      <4> TAKE y \in Cells
      <4>1. old[y] <= learnt[y] /\ learnt[y] \in {old[y], e[y]}
        BY <3>1, <3>2
      <4> QED BY <1>1, <1>2, <1>5, <2>0, <3>3, <4>1
    <3> QED BY <3>4, <3>5
  <2>2. CASE "Acquire" \notin ord
    <3>1. learnt = old
      BY <2>2 DEF Learned, old
    <3> QED BY <1>5, <2>2, <3>1
  <2> QED BY <2>1, <2>2
<1> HIDE DEF learnt
<1>7. /\ at \in [Cells -> Nat]
      /\ at[x] = Newest(x) + 1
      /\ \A y \in Cells \ {x} : at[y] = learnt[y]
  BY <1>1, <1>6
<1> HIDE DEF at
<1>8. \A y \in Cells : view[p][y] <= at[y] /\ at[y] \in Nat
  <2> TAKE y \in Cells
  <2>1. at[y] \in Nat /\ learnt[y] \in Nat
    BY <1>6, <1>7
  <2>2. CASE y = x
    BY <1>1, <1>7, <2>1, <2>2
  <2>3. CASE y # x
    BY <1>6, <1>7, <2>1, <2>3
  <2> QED BY <2>2, <2>3
<1>9. "Acquire" \in ord => \A y \in Cells : e[y] <= at[y]
  <2> SUFFICES ASSUME "Acquire" \in ord, NEW y \in Cells
               PROVE  e[y] <= at[y]
    OBVIOUS
  <2>1. CASE y = x
    BY <1>1, <1>2, <1>7, <2>1
  <2>2. CASE y # x
    BY <1>6, <1>7, <2>2
  <2> QED BY <2>1, <2>2
<1>10. own \in [Cells -> Nat] /\ \A y \in Cells : own[y] <= at[y] /\ own[y] \in Nat
  BY <1>7, <1>8 DEF Blank
<1>11. "Release" \in ord => \A y \in Cells : own[y] = at[y]
  OBVIOUS
<1> HIDE DEF own
<1>12. /\ carried \in [Cells -> Nat]
       /\ \A y \in Cells : own[y] <= carried[y] /\ e[y] <= carried[y]
       /\ \A y \in Cells : carried[y] \in {own[y], e[y]}
  BY <1>2, <1>10, JoinIsMax
<1> HIDE DEF carried
<1>13. /\ written'[x] = Append(written[x], [val |-> v, view |-> carried])
       /\ \A y \in Cells \ {x} : written'[y] = written[y]
       /\ view'[p] = at /\ \A q \in Processes \ {p} : view'[q] = view[q]
       /\ DOMAIN written' = Cells
  BY <1>4 DEF MemoryOK
<1>14. /\ written'[x] \in Seq([val : V, view : [Cells -> Nat]])
       /\ Newest(x)' = Newest(x) + 1
       /\ ValueOf(x)' = v
       /\ written'[x][Newest(x)'].view = carried
       /\ DOMAIN written'[x] = DOMAIN written[x] \cup {Newest(x)'}
       /\ \A i \in DOMAIN written[x] : written'[x][i] = written[x][i]
  <2>1. Adds(x, v, carried)
    BY <1>13 DEF Adds
  <2> QED BY <1>12, <2>1, AppendOK
<1>15. \A y \in Cells \ {x} : Newest(y)' = Newest(y)
  BY <1>13 DEF Newest
<1>16. \A y \in Cells : /\ Newest(y)' \in Nat /\ Newest(y) <= Newest(y)'
                        /\ at[y] <= Newest(y)' /\ carried[y] <= Newest(y)'
  <2> TAKE y \in Cells
  <2>0. /\ carried[y] \in Nat /\ own[y] \in Nat /\ own[y] <= at[y]
        /\ carried[y] \in {own[y], e[y]}
        /\ at[y] \in Nat /\ e[y] \in Nat /\ e[y] <= Newest(y) /\ Newest(y) \in Nat
    BY <1>1, <1>2, <1>8, <1>10, <1>12
  <2>1. CASE y = x
    <3>1. at[y] = Newest(y) + 1 /\ Newest(y)' = Newest(y) + 1
      BY <1>7, <1>14, <2>1
    <3> QED BY <2>0, <3>1
  <2>2. CASE y # x
    <3>1. at[y] = learnt[y] /\ at[y] <= Newest(y)
      BY <1>6, <1>7, <2>2
    <3>2. Newest(y)' = Newest(y)
      BY <1>15, <2>2
    <3> QED BY <2>0, <3>1, <3>2
  <2> QED BY <2>1, <2>2
<1>17. MemoryOK(V)'
  <2>1. written' \in [Cells -> Seq([val : V, view : [Cells -> Nat]])]
    BY <1>4, <1>13, <1>14 DEF MemoryOK
  <2>2. view' \in [Processes -> [Cells -> Nat]]
    BY <1>4, <1>7 DEF MemoryOK
  <2>3. ASSUME NEW q \in Processes, NEW y \in Cells
        PROVE  view'[q][y] <= Newest(y)'
    <3>1. CASE q = p
      BY <1>13, <1>16, <3>1
    <3>2. CASE q # p
      <4>1. view[q][y] \in Nat /\ view[q][y] <= Newest(y) /\ view'[q] = view[q]
        BY <1>13, <3>2, Entries
      <4> QED BY <1>1, <1>16, <4>1
    <3> QED BY <3>1, <3>2
  <2>4. ASSUME NEW z \in Cells, NEW i \in DOMAIN written'[z], NEW y \in Cells
        PROVE  written'[z][i].view[y] <= Newest(y)'
    <3>1. CASE i \in DOMAIN written[z]
      <4>1. written'[z][i] = written[z][i]
        BY <1>13, <1>14, <3>1
      <4>2. i \in 1 .. Newest(z)
        BY <3>1, Entries
      <4>3. written[z][i].view[y] <= Newest(y) /\ written[z][i].view[y] \in Nat
        BY <4>2, Entries
      <4> QED BY <1>1, <1>16, <4>1, <4>3
    <3>2. CASE i \notin DOMAIN written[z]
      <4>1. z = x /\ i = Newest(x)'
        BY <1>13, <1>14, <3>2
      <4> QED BY <1>14, <1>16, <4>1
    <3> QED BY <3>1, <3>2
  <2> QED BY <2>1, <2>2, <2>3, <2>4 DEF MemoryOK, Newest
<1>18. \A y \in Cells : written[x][Newest(x)].view[y] <= written'[x][Newest(x)'].view[y]
  BY <1>12, <1>14 DEF e
<1>19. "Release" \in ord => \A y \in Cells : view'[p][y] <= written'[x][Newest(x)'].view[y]
  <2>1. "Release" \in ord => \A y \in Cells : at[y] <= carried[y]
    BY <1>11, <1>12
  <2> QED BY <1>13, <1>14, <2>1
<1>20. "Acquire" \in ord => \A y \in Cells : written[x][Newest(x)].view[y] <= view'[p][y]
  BY <1>9, <1>13 DEF e
<1>21. view'[p][x] = Newest(x)' /\ \A y \in Cells : view[p][y] <= view'[p][y]
  BY <1>7, <1>8, <1>13, <1>14
<1> QED BY <1>13, <1>14, <1>17, <1>18, <1>19, <1>20, <1>21

(* A thread starts with its parent's view.                                 *)
LEMMA SpawnHandsOver ==
    ASSUME NEW V, MemoryOK(V), NEW p \in Processes, NEW children, Spawn(p, children)
    PROVE  /\ MemoryOK(V)'
           /\ UNCHANGED written
           /\ \A q \in Processes : view'[q] = IF q \in children THEN view[p] ELSE view[q]
<1>1. UNCHANGED written
  BY DEF Spawn
<1>2. \A q \in Processes : view'[q] = IF q \in children THEN view[p] ELSE view[q]
  BY DEF Spawn
<1>3. view' \in [Processes -> [Cells -> Nat]]
  BY DEF MemoryOK, Spawn
<1>4. \A q \in Processes, x \in Cells : view'[q][x] <= Newest(x)
  BY <1>2 DEF MemoryOK
<1> QED BY <1>1, <1>2, <1>3, <1>4 DEF MemoryOK, Newest

(* Whoever joins a thread knows what it knew.                              *)
LEMMA JoinHandsOver ==
    ASSUME NEW V, MemoryOK(V), NEW p \in Processes, NEW q \in Processes, JoinThread(p, q)
    PROVE  /\ MemoryOK(V)'
           /\ UNCHANGED written
           /\ \A r \in Processes \ {p} : view'[r] = view[r]
           /\ \A x \in Cells : view[p][x] <= view'[p][x] /\ view[q][x] <= view'[p][x]
<1> DEFINE new == Join(view[p], view[q])
<1>0. view[p] \in [Cells -> Nat] /\ view[q] \in [Cells -> Nat]
  BY DEF MemoryOK
<1>1. view' = [view EXCEPT ![p] = new] /\ written' = written
  BY DEF JoinThread
<1>2. /\ new \in [Cells -> Nat]
      /\ \A x \in Cells : view[p][x] <= new[x] /\ view[q][x] <= new[x]
      /\ \A x \in Cells : new[x] \in {view[p][x], view[q][x]}
  BY <1>0, JoinIsMax
<1> HIDE DEF new
<1>3. view'[p] = new /\ \A r \in Processes \ {p} : view'[r] = view[r]
  BY <1>1 DEF MemoryOK
<1>4. view' \in [Processes -> [Cells -> Nat]]
  BY <1>1, <1>2 DEF MemoryOK
<1>5. ASSUME NEW r \in Processes, NEW x \in Cells
      PROVE  view'[r][x] <= Newest(x)
  <2>1. \A s \in Processes : view[s][x] \in Nat /\ view[s][x] <= Newest(x)
    BY Entries
  <2>2. CASE r = p
    BY <1>2, <1>3, <2>1, <2>2
  <2>3. CASE r # p
    BY <1>3, <2>1, <2>3
  <2> QED BY <2>2, <2>3
<1>6. MemoryOK(V)'
  BY <1>1, <1>4, <1>5 DEF MemoryOK, Newest
<1>7. \A x \in Cells : view[p][x] <= view'[p][x] /\ view[q][x] <= view'[p][x]
  BY <1>2, <1>3
<1> QED BY <1>1, <1>3, <1>6, <1>7

================================================================================
