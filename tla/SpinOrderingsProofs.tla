--------------------------- MODULE SpinOrderingsProofs ---------------------------
(***************************************************************************)
(* The Orderings of Spinlock are strong enough, for every number of        *)
(* threads and of iterations: a holder knows the newest entry of every     *)
(* cell, is shown no torn value, and main finds every increment.           *)
(*                                                                         *)
(* None of this follows from exclusion alone.  What makes it inductive is  *)
(* where the knowledge is when nobody holds the lock: in the entry that    *)
(* the last drop made, for those who do not have it already (LockCarries); *)
(* and, for main, in the threads it has not joined (SomebodyKnows).        *)
(***************************************************************************)
EXTENDS SpinOrderings, TLAPS

Alone == pc[Main] \in {"owner", "scope"}   \* no other thread exists yet
Free  == \A t \in Threads : ~Holding(t)

Knows(p) == \A x \in Cells : InOrder(p, x)

TypeOK ==
    /\ MemoryOK(BOOLEAN \cup Nat)
    /\ \A x \in Cells : Newest(x) > 0
    /\ pc \in [Processes -> {"owner", "scope", "join", "consumed",
                             "unborn", "idle", "load", "cas", "trycas", "guard",
                             "first", "second", "drop", "ended", "joined"}]
    /\ pc[Main] \in {"owner", "scope", "join", "consumed"}
    /\ seen \in [Threads -> [Fields -> Nat]]
    /\ todo \in [Threads -> Nat]
    /\ taken \in Nat

Births ==
    /\ \A t \in Threads : pc[t] = "unborn" <=> Alone
    /\ pc[Main] = "consumed" => AllJoined

OneHolder == \A t, u \in Threads : Holding(t) /\ Holding(u) => t = u

FlagTells ==
    /\ Free => ValueOf("locked") = FALSE
    /\ ~Free => ValueOf("locked") = TRUE

HolderKnows ==
    /\ \A t \in Threads : Holding(t) => Knows(t)
    /\ Alone => Knows(Main)

LockCarries ==
    Free /\ ~Alone =>
        \A t \in Threads, x \in Cells :
            \/ InOrder(t, x)
            \/ written["locked"][Newest("locked")].view[x] = Newest(x)

SomebodyKnows ==
    ~Alone => \A x \in Cells :
        \/ InOrder(Main, x)
        \/ \E t \in Threads : pc[t] # "joined" /\ InOrder(t, x)

(* taken runs ahead of the fields by what the holder has yet to write.     *)
Counted(t, f) ==
    IF pc[t] = "drop" \/ (pc[t] = "second" /\ f = "first") THEN 1 + taken ELSE taken

Values ==
    /\ pc[Main] = "owner" => taken = 0 /\ \A f \in Fields : ValueOf(f) = 0
    /\ pc[Main] # "owner" /\ Free => \A f \in Fields : ValueOf(f) = 1 + taken
    /\ \A t \in Threads : Holding(t) => \A f \in Fields : ValueOf(f) = Counted(t, f)
    /\ \A t \in Threads : pc[t] \in Fields => \A f \in Fields : seen[t][f] = taken

IInv ==
    /\ TypeOK
    /\ Births
    /\ OneHolder
    /\ FlagTells
    /\ HolderKnows
    /\ LockCarries
    /\ SomebodyKnows
    /\ Values

--------------------------------------------------------------------------------
(* What every proof below uses of the types and of Newest.                 *)
LEMMA Basics ==
    ASSUME IInv
    PROVE  /\ MemoryOK(BOOLEAN \cup Nat)
           /\ Main \in Processes /\ Main \notin Threads /\ Threads \subseteq Processes
           /\ Fields \subseteq Cells /\ "locked" \in Cells
           /\ \A x \in Cells : Newest(x) \in Nat /\ Newest(x) > 0
                            /\ Newest(x) \in DOMAIN written[x]
           /\ \A x \in Cells, p \in Processes : view[p][x] \in Nat /\ view[p][x] <= Newest(x)
<1>1. MemoryOK(BOOLEAN \cup Nat)
  BY DEF IInv, TypeOK
<1>2. \A x \in Cells : /\ Newest(x) \in Nat /\ DOMAIN written[x] = 1 .. Newest(x)
                    /\ \A p \in Processes : view[p][x] \in Nat /\ view[p][x] <= Newest(x)
  BY <1>1, Entries
<1>3. \A x \in Cells : Newest(x) \in DOMAIN written[x]
  BY <1>2 DEF IInv, TypeOK
<1> QED BY <1>1, <1>2, <1>3, MainAssumption DEF IInv, TypeOK, Processes, Cells, Fields

(* Memory is only read, and what was known stays known.                    *)
MemoryKept ==
    /\ MemoryOK(BOOLEAN \cup Nat)'
    /\ UNCHANGED written
    /\ \A p \in Processes, x \in Cells : InOrder(p, x) => InOrder(p, x)'

LEMMA GrowingViewsKeep ==
    ASSUME IInv, UNCHANGED written, MemoryOK(BOOLEAN \cup Nat)',
           \A p \in Processes, x \in Cells : view[p][x] <= view'[p][x]
    PROVE  MemoryKept
<1> SUFFICES ASSUME NEW p \in Processes, NEW x \in Cells, InOrder(p, x)
             PROVE  InOrder(p, x)'
  BY DEF MemoryKept
<1>1. Newest(x)' = Newest(x) /\ view'[p][x] \in Nat /\ view'[p][x] <= Newest(x)'
  <2>1. Newest(x)' = Newest(x)
    BY DEF Newest
  <2>2. view' \in [Processes -> [Cells -> Nat]] /\ view'[p][x] <= Newest(x)'
    BY DEF MemoryOK
  <2> QED BY <2>1, <2>2
<1>2. view[p][x] = Newest(x) /\ view[p][x] \in Nat /\ view[p][x] <= view'[p][x]
  BY Basics DEF InOrder
<1> QED BY <1>1, <1>2 DEF InOrder

LEMMA UnchangedMemoryKept ==
    ASSUME IInv, UNCHANGED <<written, view>>
    PROVE  MemoryKept
<1>1. MemoryOK(BOOLEAN \cup Nat)'
  BY Basics DEF MemoryOK, Newest
<1>2. \A p \in Processes, x \in Cells : view[p][x] <= view'[p][x]
  BY Basics
<1> QED BY <1>1, <1>2, GrowingViewsKeep

LEMMA ReadKeeps ==
    ASSUME IInv, NEW p \in Processes, NEW x \in Cells, NEW ord, NEW i \in DOMAIN written[x],
           Read(p, x, i, ord)
    PROVE  MemoryKept
<1>1. /\ MemoryOK(BOOLEAN \cup Nat)'
      /\ UNCHANGED written
      /\ \A q \in Processes \ {p} : view'[q] = view[q]
      /\ \A y \in Cells : view[p][y] <= view'[p][y]
  BY Basics, ReadLearns
<1>2. \A q \in Processes, y \in Cells : view[q][y] <= view'[q][y]
  <2> TAKE q \in Processes, y \in Cells
  <2>1. view[q][y] \in Nat
    BY Basics
  <2> QED BY <1>1, <2>1
<1> QED BY <1>1, <1>2, GrowingViewsKeep

(* With its memory kept, what is left of an entry is the same.             *)
LEMMA KeptFacts ==
    ASSUME IInv, MemoryKept
    PROVE  /\ \A x \in Cells : Newest(x)' = Newest(x) /\ ValueOf(x)' = ValueOf(x)
           /\ \A p \in Processes : Knows(p) => Knows(p)'
           /\ \A x \in Cells : written'["locked"][Newest("locked")'].view[x]
                               = written["locked"][Newest("locked")].view[x]
  BY Basics DEF MemoryKept, Newest, ValueOf, Knows

(* The step of a thread that neither gets nor gives up the lock, neither   *)
(* starts nor ends, and writes nothing: its loads, and its decisions.      *)
LEMMA QuietStep ==
    ASSUME IInv, MemoryKept, NEW t \in Threads, NEW label,
           pc[t] \in {"idle", "load", "cas", "trycas"},
           label \in {"idle", "load", "cas", "trycas"},
           pc' = [pc EXCEPT ![t] = label],
           todo' \in [Threads -> Nat], UNCHANGED <<seen, taken>>
    PROVE  IInv'
<1>1. /\ Main \in Processes /\ Main # t /\ t \in Processes /\ Threads \subseteq Processes
      /\ MemoryOK(BOOLEAN \cup Nat)
  BY Basics
<1>2. /\ pc'[t] = label /\ pc'[Main] = pc[Main] /\ (Alone' <=> Alone)
      /\ \A u \in Threads \ {t} : pc'[u] = pc[u]
  BY <1>1 DEF IInv, TypeOK, Alone
<1>3. /\ ~Holding(t) /\ ~Holding(t)'
      /\ \A u \in Threads : Holding(u)' <=> Holding(u)
      /\ Free' <=> Free
  BY <1>2 DEF Holding, Free
<1>4. \A x \in Cells : Newest(x)' = Newest(x) /\ ValueOf(x)' = ValueOf(x)
  BY KeptFacts
<1>a. \A p \in Processes : Knows(p) => Knows(p)'
  BY KeptFacts
<1>5. TypeOK'
  BY <1>1, <1>4 DEF IInv, TypeOK, MemoryKept
<1>6. Births'
  BY <1>2 DEF IInv, Births, AllJoined
<1>7. OneHolder'
  BY <1>3 DEF IInv, OneHolder
<1>8. FlagTells'
  BY <1>3, <1>4, Basics DEF IInv, FlagTells
<1>9. HolderKnows'
  BY <1>1, <1>2, <1>3, <1>a DEF IInv, HolderKnows
<1>10. LockCarries'
  <2> SUFFICES ASSUME Free, ~Alone, NEW u \in Threads, NEW x \in Cells
               PROVE  (InOrder(u, x) \/ written["locked"][Newest("locked")].view[x] = Newest(x))'
    BY <1>2, <1>3 DEF LockCarries
  <2>1. InOrder(u, x) \/ written["locked"][Newest("locked")].view[x] = Newest(x)
    BY DEF IInv, LockCarries
  <2> QED BY <1>1, <1>4, <2>1, KeptFacts DEF MemoryKept
<1>11. SomebodyKnows'
  <2> SUFFICES ASSUME ~Alone, NEW x \in Cells
               PROVE  \/ InOrder(Main, x)'
                      \/ \E u \in Threads : pc'[u] # "joined" /\ InOrder(u, x)'
    BY <1>2 DEF SomebodyKnows
  <2>1. InOrder(Main, x) \/ \E u \in Threads : pc[u] # "joined" /\ InOrder(u, x)
    BY DEF IInv, SomebodyKnows
  <2> QED BY <1>1, <1>2, <2>1 DEF MemoryKept
<1>12. Values'
  <2>1. \A f \in Fields : ValueOf(f)' = ValueOf(f)
    BY <1>4 DEF Cells
  <2>2. pc'[Main] = "owner" => taken' = 0 /\ \A f \in Fields : ValueOf(f)' = 0
    BY <1>2, <2>1 DEF IInv, Values
  <2>3. pc'[Main] # "owner" /\ Free' => \A f \in Fields : ValueOf(f)' = 1 + taken'
    BY <1>2, <1>3, <2>1 DEF IInv, Values
  <2>4. ASSUME NEW u \in Threads, Holding(u)', NEW f \in Fields
        PROVE  ValueOf(f)' = Counted(u, f)'
    BY <1>2, <1>3, <2>1, <2>4 DEF IInv, Values, Counted
  <2>5. ASSUME NEW u \in Threads, pc'[u] \in Fields, NEW f \in Fields
        PROVE  seen'[u][f] = taken'
    BY <1>2, <2>5 DEF IInv, Values, Fields
  <2> QED BY <2>2, <2>3, <2>4, <2>5 DEF Values
<1> QED BY <1>5, <1>6, <1>7, <1>8, <1>9, <1>10, <1>11, <1>12 DEF IInv
--------------------------------------------------------------------------------
(* The steps of the holder.                                                *)

(* A compare_exchange that succeeds finds the lock free; what it acquires, *)
(* with what the thread knew, is the newest entry of every cell.           *)
LEMMA WinStep ==
    ASSUME IInv, NEW t \in Threads, NEW ord, "Acquire" \in ord,
           pc[t] \in {"cas", "trycas"}, Win(t, ord)
    PROVE  IInv'
<1>1. /\ Main \in Processes /\ Main # t /\ t \in Processes /\ Threads \subseteq Processes
      /\ MemoryOK(BOOLEAN \cup Nat) /\ "locked" \in Cells /\ Fields \subseteq Cells
      /\ "locked" \notin Fields
  BY Basics DEF Fields
<1>2. /\ pc'[t] = "guard" /\ pc'[Main] = pc[Main] /\ (Alone' <=> Alone)
      /\ \A u \in Threads \ {t} : pc'[u] = pc[u]
  BY <1>1 DEF IInv, TypeOK, Alone, Win, Goto
<1>3. Free /\ ~Alone
  <2>1. Free
    <3>1. ~ValueOf("locked")
      BY DEF Win
    <3>2. ~Free => ValueOf("locked") = TRUE
      BY DEF IInv, FlagTells
    <3> QED BY <3>1, <3>2, Zenon
  <2> QED BY <2>1 DEF IInv, Births
<1>4. /\ Holding(t)' /\ ~Free'
      /\ \A u \in Threads : Holding(u)' => u = t
  BY <1>2, <1>3 DEF Holding, Free
<1>5. /\ MemoryOK(BOOLEAN \cup Nat)'
      /\ \A q \in Processes \ {t} : view'[q] = view[q]
      /\ \A y \in Cells \ {"locked"} : written'[y] = written[y]
      /\ \A y \in Cells : view[t][y] <= view'[t][y]
      /\ Newest("locked")' = Newest("locked") + 1
      /\ ValueOf("locked")' = TRUE
      /\ view'[t]["locked"] = Newest("locked")'
      /\ \A y \in Cells : written["locked"][Newest("locked")].view[y] <= view'[t][y]
  <2>1. Exchange(t, "locked", TRUE, ord) /\ Newest("locked") > 0
    BY <1>1, Basics DEF Win
  <2> DEFINE V == BOOLEAN \cup Nat
             v == TRUE
  <2>2. v \in V /\ MemoryOK(V)
    BY <1>1
  <2>3. Exchange(t, "locked", v, ord)
    BY <2>1
  <2> HIDE DEF v, V
  <2>4. /\ MemoryOK(V)'
        /\ \A q \in Processes \ {t} : view'[q] = view[q]
        /\ \A y \in Cells \ {"locked"} : written'[y] = written[y]
        /\ \A y \in Cells : view[t][y] <= view'[t][y]
        /\ Newest("locked")' = Newest("locked") + 1
        /\ ValueOf("locked")' = v
        /\ view'[t]["locked"] = Newest("locked")'
        /\ \A y \in Cells : written["locked"][Newest("locked")].view[y] <= view'[t][y]
    BY <1>1, <2>1, <2>2, <2>3, ExchangeAppends
  <2> QED BY <2>4 DEF v, V
<1>6. \A y \in Cells \ {"locked"} : Newest(y)' = Newest(y) /\ ValueOf(y)' = ValueOf(y)
  BY <1>5 DEF Newest, ValueOf
<1>7. Knows(t)'
  <2> SUFFICES ASSUME NEW x \in Cells
               PROVE  view'[t][x] = Newest(x)'
    BY DEF Knows, InOrder
  <2>1. view'[t][x] \in Nat /\ view'[t][x] <= Newest(x)'
    BY <1>1, <1>5 DEF MemoryOK
  <2>2. CASE x = "locked"
    BY <1>5, <2>2
  <2>3. CASE x # "locked"
    <3>1. view[t][x] = Newest(x) \/ written["locked"][Newest("locked")].view[x] = Newest(x)
      BY <1>3 DEF IInv, LockCarries, InOrder
    <3>2. Newest(x) <= view'[t][x]
      BY <1>5, <3>1
    <3> QED BY <1>6, <2>1, <2>3, <3>2, Basics
  <2> QED BY <2>2, <2>3
<1>8. TypeOK'
  <2>1. \A x \in Cells : Newest(x)' > 0
    BY <1>5, <1>6, Basics DEF IInv, TypeOK
  <2> QED BY <1>1, <1>2, <1>5, <2>1 DEF IInv, TypeOK, Win, Goto
<1>9. Births'
  BY <1>2, <1>3 DEF IInv, Births, AllJoined, Win
<1>10. OneHolder' /\ FlagTells' /\ HolderKnows' /\ LockCarries'
  BY <1>2, <1>3, <1>4, <1>5, <1>7 DEF OneHolder, FlagTells, HolderKnows, LockCarries
<1>11. SomebodyKnows'
  BY <1>2, <1>7 DEF SomebodyKnows, Knows
<1>12. Values'
  <2>1. taken \in Nat /\ taken' = taken + 1 /\ seen' = seen
    BY DEF IInv, TypeOK, Win
  <2>2. \A f \in Fields : ValueOf(f)' = 1 + taken
    BY <1>1, <1>3, <1>6 DEF IInv, Values, Alone
  <2>3. pc'[Main] # "owner"
    BY <1>2, <1>3 DEF Alone
  <2>4. ASSUME NEW u \in Threads, Holding(u)', NEW f \in Fields
        PROVE  ValueOf(f)' = Counted(u, f)'
    BY <1>2, <1>4, <2>1, <2>2, <2>4 DEF Counted
  <2>5. ASSUME NEW u \in Threads, pc'[u] \in Fields, NEW f \in Fields
        PROVE  seen'[u][f] = taken'
    BY <1>2, <1>4, <2>5 DEF Fields, Holding
  <2> QED BY <1>4, <2>3, <2>4, <2>5 DEF Values
<1> QED BY <1>8, <1>9, <1>10, <1>11, <1>12 DEF IInv

(* The holder can only be shown the newest entry of each field.            *)
LEMMA ReadFieldsStep ==
    ASSUME IInv, NEW t \in Threads, ReadFields(t)
    PROVE  IInv'
<1>1. /\ Main \in Processes /\ Main # t /\ t \in Processes /\ Threads \subseteq Processes
      /\ MemoryOK(BOOLEAN \cup Nat) /\ Fields \subseteq Cells
  BY Basics
<1>2. /\ pc[t] = "guard" /\ pc'[t] = "first" /\ pc'[Main] = pc[Main] /\ (Alone' <=> Alone)
      /\ \A u \in Threads \ {t} : pc'[u] = pc[u]
  BY <1>1 DEF IInv, TypeOK, Alone, ReadFields, Goto
<1>3. Holding(t) /\ Knows(t) /\ ~Free
  BY <1>2 DEF IInv, HolderKnows, Holding, Free
<1>4. PICK first \in view[t]["first"] .. Newest("first"),
           second \in view[t]["second"] .. Newest("second") :
          LET at == [f \in Fields |-> IF f = "first" THEN first ELSE second]
          IN  /\ seen' = [seen EXCEPT ![t] = [f \in Fields |-> written[f][at[f]].val]]
              /\ view' = [view EXCEPT ![t] = [x \in Cells |->
                             IF x \in Fields THEN at[x] ELSE @[x]]]
  BY DEF ReadFields
<1>5. first = Newest("first") /\ second = Newest("second")
  BY <1>1, <1>3, Basics DEF Knows, InOrder, Fields
<1>6. seen' = [seen EXCEPT ![t] = [f \in Fields |-> ValueOf(f)]]
  BY <1>4, <1>5 DEF ValueOf, Fields
<1>7. view'[t] = view[t] /\ \A q \in Processes \ {t} : view'[q] = view[q]
  <2>1. view[t] \in [Cells -> Nat] /\ view \in [Processes -> [Cells -> Nat]]
    BY <1>1 DEF MemoryOK
  <2>2. \A x \in Cells : view[t][x] = Newest(x)
    BY <1>3 DEF Knows, InOrder
  <2>3. [x \in Cells |-> IF x \in Fields
                          THEN [f \in Fields |-> IF f = "first" THEN first ELSE second][x]
                          ELSE view[t][x]] = view[t]
    BY <1>5, <2>1, <2>2 DEF Fields
  <2>4. view' = [view EXCEPT ![t] = view[t]]
    BY <1>4, <2>3
  <2> QED BY <2>1, <2>4
<1>8. MemoryKept
  <2>1. written' = written /\ view' = view
    BY <1>1, <1>4, <1>7 DEF MemoryOK, ReadFields
  <2> QED BY <2>1, UnchangedMemoryKept
<1>9. \A u \in Threads : Holding(u)' <=> Holding(u)
  BY <1>2 DEF Holding
<1>10. \A f \in Fields : ValueOf(f) = taken
  BY <1>2, <1>3 DEF IInv, Values, Counted
<1>11. /\ seen'[t] = [f \in Fields |-> taken]
       /\ \A u \in Threads \ {t} : seen'[u] = seen[u]
       /\ seen' \in [Threads -> [Fields -> Nat]]
  BY <1>6, <1>10 DEF IInv, TypeOK
<1>12. TypeOK'
  BY <1>1, <1>2, <1>8, <1>11, KeptFacts DEF IInv, TypeOK, MemoryKept, ReadFields, Goto
<1>13. Births' /\ OneHolder'
  BY <1>2, <1>9 DEF IInv, Births, AllJoined, OneHolder
<1>14. FlagTells' /\ LockCarries'
  <2>1. ~Free' /\ ValueOf("locked")' = ValueOf("locked")
    BY <1>3, <1>8, <1>9, KeptFacts, Basics DEF Free
  <2> QED BY <1>3, <2>1 DEF IInv, FlagTells, LockCarries
<1>15. HolderKnows'
  BY <1>1, <1>2, <1>8, <1>9, KeptFacts DEF IInv, HolderKnows
<1>16. SomebodyKnows'
  BY <1>1, <1>2, <1>3, <1>8, KeptFacts DEF SomebodyKnows, Knows
<1>17. Values'
  <2>1. (\A f \in Fields : ValueOf(f)' = taken') /\ taken' = taken
    BY <1>1, <1>8, <1>10, KeptFacts DEF ReadFields
  <2>2. pc'[Main] # "owner"
    BY <1>2 DEF IInv, Births, Alone
  <2>3. ~Free'
    BY <1>3, <1>9 DEF Free
  <2>4. ASSUME NEW u \in Threads, Holding(u)', NEW f \in Fields
        PROVE  ValueOf(f)' = Counted(u, f)'
    <3>1. u = t
      BY <1>3, <1>9, <2>4 DEF IInv, OneHolder
    <3> QED BY <1>2, <2>1, <3>1 DEF Counted
  <2>5. ASSUME NEW u \in Threads, pc'[u] \in Fields, NEW f \in Fields
        PROVE  seen'[u][f] = taken'
    BY <1>2, <1>11, <2>1, <2>5 DEF IInv, Values
  <2> QED BY <2>2, <2>3, <2>4, <2>5 DEF Values
<1> QED BY <1>12, <1>13, <1>14, <1>15, <1>16, <1>17 DEF IInv
(* It knows the entry that it writes after, and so the one it makes.       *)
LEMMA WriteFieldStep ==
    ASSUME IInv, NEW t \in Threads, WriteField(t)
    PROVE  IInv'
<1>0. PICK f \in Fields : f = pc[t]
  BY DEF WriteField
<1>1. /\ Main \in Processes /\ Main # t /\ t \in Processes /\ Threads \subseteq Processes
      /\ MemoryOK(BOOLEAN \cup Nat) /\ Fields \subseteq Cells
      /\ f \in Fields /\ "locked" \in Cells /\ "locked" \notin Fields
  BY <1>0, Basics DEF Fields
<1>2. /\ pc'[t] = (IF f = "first" THEN "second" ELSE "drop")
      /\ pc'[Main] = pc[Main] /\ (Alone' <=> Alone)
      /\ \A u \in Threads \ {t} : pc'[u] = pc[u]
  BY <1>0, <1>1 DEF IInv, TypeOK, Alone, WriteField, Goto
<1>3. /\ Holding(t) /\ Knows(t) /\ ~Free
      /\ \A u \in Threads \ {t} : ~Holding(u)
  BY <1>0 DEF IInv, HolderKnows, OneHolder, Holding, Free, Fields
<1>4. \A u \in Threads : Holding(u)' <=> Holding(u)
  BY <1>2, <1>3 DEF Holding
<1>5. seen[t][f] = taken /\ taken \in Nat
  BY <1>0 DEF IInv, Values, TypeOK
<1>6. /\ MemoryOK(BOOLEAN \cup Nat)'
      /\ \A q \in Processes \ {t} : view'[q] = view[q]
      /\ \A x \in Cells \ {f} : written'[x] = written[x] /\ view'[t][x] = view[t][x]
      /\ Newest(f)' = Newest(f) + 1
      /\ ValueOf(f)' = taken + 1
      /\ view'[t][f] = Newest(f)'
  <2> DEFINE vals == [g \in {pc[t]} |-> seen[t][g] + 1]
  <2>1. DOMAIN vals = {f} /\ vals[f] = taken + 1 /\ Write(t, vals, Relaxed)
    BY <1>0, <1>5 DEF WriteField
  <2> HIDE DEF vals
  <2>2. DOMAIN vals \subseteq Cells /\ \A x \in DOMAIN vals : vals[x] \in BOOLEAN \cup Nat
    BY <1>1, <1>5, <2>1
  <2>3. /\ MemoryOK(BOOLEAN \cup Nat)'
        /\ \A q \in Processes \ {t} : view'[q] = view[q]
        /\ \A x \in Cells \ DOMAIN vals :
              written'[x] = written[x] /\ view'[t][x] = view[t][x]
        /\ \A x \in DOMAIN vals :
              /\ Newest(x)' = Newest(x) + 1
              /\ ValueOf(x)' = vals[x]
              /\ view'[t][x] = Newest(x)'
    BY <1>1, <2>1, <2>2, WriteAppends
  <2> QED BY <2>1, <2>3
<1>7. \A x \in Cells \ {f} : Newest(x)' = Newest(x) /\ ValueOf(x)' = ValueOf(x)
  BY <1>6 DEF Newest, ValueOf
<1>8. Knows(t)'
  BY <1>3, <1>6, <1>7 DEF Knows, InOrder
<1>9. TypeOK'
  <2>1. \A x \in Cells : Newest(x)' > 0
    BY <1>6, <1>7, Basics DEF IInv, TypeOK
  <2> QED BY <1>0, <1>1, <1>2, <1>6, <2>1 DEF IInv, TypeOK, WriteField, Goto
<1>10. Births' /\ OneHolder'
  BY <1>0, <1>1, <1>2, <1>4 DEF IInv, Births, AllJoined, OneHolder, Fields
<1>11. FlagTells' /\ LockCarries'
  <2>1. ~Free' /\ ValueOf("locked")' = ValueOf("locked")
    BY <1>1, <1>3, <1>4, <1>7 DEF Free
  <2> QED BY <1>3, <2>1 DEF IInv, FlagTells, LockCarries
<1>12. HolderKnows'
  <2>1. ~Alone'
    BY <1>0, <1>1, <1>2 DEF IInv, Births, Fields
  <2> QED BY <1>3, <1>4, <1>8, <2>1 DEF HolderKnows
<1>13. SomebodyKnows'
  BY <1>0, <1>1, <1>2, <1>8 DEF SomebodyKnows, Knows
<1>14. Values'
  <2>1. pc'[Main] # "owner"
    BY <1>0, <1>1, <1>2 DEF IInv, Births, Alone, Fields
  <2>2. ~Free' /\ taken' = taken /\ seen' = seen
    BY <1>3, <1>4 DEF Free, WriteField
  <2>3. ASSUME NEW g \in Fields
        PROVE  ValueOf(g)' = Counted(t, g)'
    <3>1. ValueOf(g) = Counted(t, g)
      BY <1>3 DEF IInv, Values
    <3>2. CASE g = f
      BY <1>0, <1>1, <1>2, <1>5, <1>6, <2>2, <3>2 DEF Counted, Fields
    <3>3. CASE g # f
      <4>1. ValueOf(g)' = ValueOf(g)
        BY <1>1, <1>7, <3>3
      <4> QED BY <1>0, <1>1, <1>2, <2>2, <3>1, <3>3, <4>1 DEF Counted, Fields
    <3> QED BY <3>2, <3>3
  <2>4. ASSUME NEW u \in Threads, pc'[u] \in Fields, NEW g \in Fields
        PROVE  seen'[u][g] = taken'
    <3>1. pc[u] \in Fields
      BY <1>0, <1>1, <1>2, <2>4
    <3> QED BY <2>2, <3>1 DEF IInv, Values
  <2> QED BY <1>3, <1>4, <2>1, <2>2, <2>3, <2>4 DEF Values
<1> QED BY <1>9, <1>10, <1>11, <1>12, <1>13, <1>14 DEF IInv

(* The drop's Release leaves in the flag all that the holder knew.         *)
LEMMA DropStep ==
    ASSUME IInv, NEW t \in Threads, Drop(t)
    PROVE  IInv'
<1>1. /\ Main \in Processes /\ Main # t /\ t \in Processes /\ Threads \subseteq Processes
      /\ MemoryOK(BOOLEAN \cup Nat) /\ "locked" \in Cells
      /\ Fields \subseteq Cells /\ "locked" \notin Fields
  BY Basics DEF Fields
<1>2. /\ pc[t] = "drop" /\ pc'[t] \in {"ended", "idle"}
      /\ pc'[Main] = pc[Main] /\ (Alone' <=> Alone)
      /\ \A u \in Threads \ {t} : pc'[u] = pc[u]
  BY <1>1 DEF IInv, TypeOK, Alone, Drop, Goto
<1>3. /\ Holding(t) /\ Knows(t) /\ ~Free /\ ~Alone
      /\ \A u \in Threads \ {t} : ~Holding(u)
  BY <1>2 DEF IInv, HolderKnows, OneHolder, Holding, Free, Births
<1>4. Free' /\ \A u \in Threads : ~Holding(u)'
  BY <1>2, <1>3 DEF Holding, Free
<1>5. /\ MemoryOK(BOOLEAN \cup Nat)'
      /\ \A q \in Processes \ {t} : view'[q] = view[q]
      /\ \A x \in Cells \ {"locked"} : written'[x] = written[x] /\ view'[t][x] = view[t][x]
      /\ Newest("locked")' = Newest("locked") + 1
      /\ ValueOf("locked")' = FALSE
      /\ view'[t]["locked"] = Newest("locked")'
      /\ \A y \in Cells : written'["locked"][Newest("locked")'].view[y] = view'[t][y]
  <2> DEFINE vals == [x \in {"locked"} |-> FALSE]
  <2>1. DOMAIN vals = {"locked"} /\ vals["locked"] = FALSE /\ Write(t, vals, DropOrder)
    BY DEF Drop
  <2> HIDE DEF vals
  <2>2. DOMAIN vals \subseteq Cells /\ \A x \in DOMAIN vals : vals[x] \in BOOLEAN \cup Nat
    BY <1>1, <2>1
  <2>3. "Release" \in DropOrder
    BY DEF DropOrder, Release
  <2>4. /\ MemoryOK(BOOLEAN \cup Nat)'
        /\ \A q \in Processes \ {t} : view'[q] = view[q]
        /\ \A x \in Cells \ DOMAIN vals :
              written'[x] = written[x] /\ view'[t][x] = view[t][x]
        /\ \A x \in DOMAIN vals :
              /\ Newest(x)' = Newest(x) + 1
              /\ ValueOf(x)' = vals[x]
              /\ view'[t][x] = Newest(x)'
              /\ \A y \in Cells : written'[x][Newest(x)'].view[y] = view'[t][y]
    BY <1>1, <2>1, <2>2, <2>3, WriteAppends
  <2> QED BY <2>1, <2>4
<1>6. \A x \in Cells \ {"locked"} : Newest(x)' = Newest(x) /\ ValueOf(x)' = ValueOf(x)
  BY <1>5 DEF Newest, ValueOf
<1>7. Knows(t)'
  BY <1>3, <1>5, <1>6 DEF Knows, InOrder
<1>8. TypeOK'
  <2>1. \A x \in Cells : Newest(x)' > 0
    BY <1>5, <1>6, Basics DEF IInv, TypeOK
  <2> QED BY <1>1, <1>2, <1>5, <2>1 DEF IInv, TypeOK, Drop, Goto
<1>9. Births' /\ OneHolder'
  BY <1>2, <1>4 DEF IInv, Births, AllJoined, OneHolder
<1>10. FlagTells' /\ HolderKnows'
  BY <1>2, <1>3, <1>4, <1>5 DEF FlagTells, HolderKnows
<1>11. LockCarries'
  BY <1>1, <1>5, <1>7 DEF LockCarries, Knows, InOrder
<1>12. SomebodyKnows'
  BY <1>2, <1>7 DEF SomebodyKnows, Knows
<1>13. Values'
  <2>1. pc'[Main] # "owner"
    BY <1>2, <1>3 DEF Alone
  <2>2. taken' = taken /\ seen' = seen
    BY DEF Drop
  <2>3. \A f \in Fields : ValueOf(f)' = 1 + taken
    BY <1>1, <1>2, <1>3, <1>6 DEF IInv, Values, Counted
  <2>4. ASSUME NEW u \in Threads, pc'[u] \in Fields, NEW f \in Fields
        PROVE  seen'[u][f] = taken'
    BY <1>2, <1>4, <2>4 DEF Holding, Fields
  <2> QED BY <1>4, <2>1, <2>2, <2>3, <2>4 DEF Values
<1> QED BY <1>8, <1>9, <1>10, <1>11, <1>12, <1>13 DEF IInv
--------------------------------------------------------------------------------
(* The steps of main.                                                      *)

LEMMA GetMutStep ==
    ASSUME IInv, GetMut
    PROVE  IInv'
<1>1. /\ Main \in Processes /\ Main \notin Threads /\ Threads \subseteq Processes
      /\ MemoryOK(BOOLEAN \cup Nat) /\ "locked" \in Cells
      /\ Fields \subseteq Cells /\ "locked" \notin Fields
  BY Basics DEF Fields
<1>2. /\ pc[Main] = "owner" /\ pc'[Main] = "scope" /\ Alone /\ Alone'
      /\ \A u \in Threads : pc'[u] = pc[u] /\ pc[u] = "unborn"
  BY <1>1 DEF IInv, TypeOK, Births, Alone, GetMut, Goto
<1>3. Free /\ Free' /\ \A u \in Threads : ~Holding(u)'
  BY <1>2 DEF Holding, Free
<1>4. /\ MemoryOK(BOOLEAN \cup Nat)'
      /\ \A x \in Cells \ Fields : written'[x] = written[x] /\ view'[Main][x] = view[Main][x]
      /\ \A f \in Fields : /\ Newest(f)' = Newest(f) + 1
                           /\ ValueOf(f)' = 1
                           /\ view'[Main][f] = Newest(f)'
  <2> DEFINE vals == [f \in Fields |-> ValueOf(f) + 1]
  <2>1. DOMAIN vals = Fields /\ Write(Main, vals, Relaxed)
    BY DEF GetMut
  <2>2. \A f \in Fields : vals[f] = 1
    BY <1>2 DEF IInv, Values
  <2> HIDE DEF vals
  <2>3. DOMAIN vals \subseteq Cells /\ \A x \in DOMAIN vals : vals[x] \in BOOLEAN \cup Nat
    BY <1>1, <2>1, <2>2
  <2>4. /\ MemoryOK(BOOLEAN \cup Nat)'
        /\ \A x \in Cells \ DOMAIN vals :
              written'[x] = written[x] /\ view'[Main][x] = view[Main][x]
        /\ \A x \in DOMAIN vals :
              /\ Newest(x)' = Newest(x) + 1
              /\ ValueOf(x)' = vals[x]
              /\ view'[Main][x] = Newest(x)'
    BY <1>1, <2>1, <2>3, WriteAppends
  <2> QED BY <2>1, <2>2, <2>4
<1>5. \A x \in Cells \ Fields : Newest(x)' = Newest(x) /\ ValueOf(x)' = ValueOf(x)
  BY <1>4 DEF Newest, ValueOf
<1>6. TypeOK'
  <2>1. \A x \in Cells : Newest(x)' > 0
    BY <1>1, <1>4, <1>5, Basics DEF IInv, TypeOK
  <2> QED BY <1>1, <1>2, <1>4, <2>1 DEF IInv, TypeOK, GetMut, Goto
<1>7. Births' /\ OneHolder' /\ SomebodyKnows' /\ LockCarries'
  BY <1>2, <1>3 DEF Births, OneHolder, SomebodyKnows, LockCarries, Alone
<1>8. FlagTells'
  BY <1>1, <1>3, <1>5 DEF IInv, FlagTells
<1>9. HolderKnows'
  <2>1. \A x \in Cells : view[Main][x] = Newest(x)
    BY <1>2 DEF IInv, HolderKnows, Knows, InOrder
  <2>2. \A x \in Cells : view'[Main][x] = Newest(x)'
    BY <1>4, <1>5, <2>1
  <2> QED BY <1>3, <2>2 DEF HolderKnows, Knows, InOrder
<1>10. Values'
  <2>1. taken' = 0
    BY <1>2 DEF IInv, Values, GetMut
  <2>2. \A f \in Fields : ValueOf(f)' = 1 + taken'
    BY <1>4, <2>1
  <2> QED BY <1>2, <1>3, <2>2 DEF Values, Fields
<1> QED BY <1>6, <1>7, <1>8, <1>9, <1>10 DEF IInv

LEMMA SpawnStep ==
    ASSUME IInv, SpawnAll
    PROVE  IInv'
<1>1. /\ Main \in Processes /\ Main \notin Threads /\ Threads \subseteq Processes
      /\ MemoryOK(BOOLEAN \cup Nat) /\ "locked" \in Cells /\ Fields \subseteq Cells
  BY Basics
<1>2. /\ pc[Main] = "scope" /\ pc'[Main] = "join" /\ Alone /\ ~Alone'
      /\ \A u \in Threads : pc[u] = "unborn" /\ pc'[u] \in {"ended", "idle"}
  BY <1>1 DEF IInv, TypeOK, Births, Alone, SpawnAll
<1>3. Free /\ Free' /\ \A u \in Threads : ~Holding(u)'
  BY <1>2 DEF Holding, Free
<1>4. /\ MemoryOK(BOOLEAN \cup Nat)' /\ UNCHANGED written
      /\ \A q \in Processes : view'[q] = IF q \in Threads THEN view[Main] ELSE view[q]
  BY <1>1, SpawnHandsOver DEF SpawnAll
<1>5. \A x \in Cells : Newest(x)' = Newest(x) /\ ValueOf(x)' = ValueOf(x)
  BY <1>4 DEF Newest, ValueOf
<1>6. Knows(Main) /\ Knows(Main)' /\ \A t \in Threads : Knows(t)'
  BY <1>1, <1>2, <1>4, <1>5 DEF IInv, HolderKnows, Knows, InOrder
<1>7. TypeOK'
  BY <1>1, <1>2, <1>4, <1>5 DEF IInv, TypeOK, SpawnAll
<1>8. Births' /\ OneHolder' /\ HolderKnows'
  BY <1>2, <1>3 DEF Births, OneHolder, HolderKnows
<1>9. FlagTells'
  BY <1>1, <1>3, <1>5 DEF IInv, FlagTells
<1>10. LockCarries' /\ SomebodyKnows'
  BY <1>6 DEF LockCarries, SomebodyKnows, Knows
<1>11. Values'
  <2>1. taken' = taken /\ \A f \in Fields : ValueOf(f)' = 1 + taken
    BY <1>1, <1>2, <1>3, <1>5 DEF IInv, Values, SpawnAll
  <2> QED BY <1>2, <1>3, <2>1 DEF Values, Fields
<1> QED BY <1>7, <1>8, <1>9, <1>10, <1>11 DEF IInv

(* Whatever a joined thread was alone to know, main knows now.             *)
LEMMA JoinStep ==
    ASSUME IInv, NEW t \in Threads, JoinOne(t)
    PROVE  IInv'
<1>1. /\ Main \in Processes /\ Main # t /\ t \in Processes /\ Threads \subseteq Processes
      /\ MemoryOK(BOOLEAN \cup Nat) /\ "locked" \in Cells /\ Fields \subseteq Cells
  BY Basics
<1>2. /\ pc[t] = "ended" /\ pc'[t] = "joined" /\ pc[Main] = "join" /\ pc'[Main] = "join"
      /\ ~Alone /\ ~Alone'
      /\ \A u \in Threads \ {t} : pc'[u] = pc[u]
  BY <1>1 DEF IInv, TypeOK, Alone, JoinOne, Goto
<1>3. (\A u \in Threads : Holding(u)' <=> Holding(u)) /\ (Free' <=> Free)
  BY <1>2 DEF Holding, Free
<1>4. /\ MemoryOK(BOOLEAN \cup Nat)' /\ UNCHANGED written
      /\ \A r \in Processes \ {Main} : view'[r] = view[r]
      /\ \A x \in Cells : view[Main][x] <= view'[Main][x] /\ view[t][x] <= view'[Main][x]
  BY <1>1, JoinHandsOver DEF JoinOne
<1>5. MemoryKept
  <2>1. \A q \in Processes, x \in Cells : view[q][x] <= view'[q][x]
    <3> TAKE q \in Processes, x \in Cells
    <3>1. view[q][x] \in Nat
      BY Basics
    <3> QED BY <1>4, <3>1
  <2> QED BY <1>4, <2>1, GrowingViewsKeep
<1>6. \A x \in Cells : Newest(x)' = Newest(x) /\ ValueOf(x)' = ValueOf(x)
  BY <1>5, KeptFacts
<1>7. TypeOK'
  BY <1>1, <1>2, <1>4, <1>6 DEF IInv, TypeOK, JoinOne, Goto
<1>8. Births' /\ OneHolder'
  BY <1>2, <1>3 DEF IInv, Births, OneHolder
<1>9. FlagTells'
  BY <1>1, <1>3, <1>6 DEF IInv, FlagTells
<1>10. HolderKnows'
  BY <1>1, <1>2, <1>3, <1>5, KeptFacts DEF IInv, HolderKnows
<1>11. LockCarries'
  <2> SUFFICES ASSUME Free, NEW u \in Threads, NEW x \in Cells
               PROVE  (InOrder(u, x) \/ written["locked"][Newest("locked")].view[x] = Newest(x))'
    BY <1>3 DEF LockCarries
  <2>1. InOrder(u, x) \/ written["locked"][Newest("locked")].view[x] = Newest(x)
    BY <1>2 DEF IInv, LockCarries
  <2> QED BY <1>1, <1>5, <1>6, <2>1, KeptFacts DEF MemoryKept
<1>12. SomebodyKnows'
  <2> SUFFICES ASSUME NEW x \in Cells
               PROVE  \/ InOrder(Main, x)'
                      \/ \E u \in Threads : pc'[u] # "joined" /\ InOrder(u, x)'
    BY DEF SomebodyKnows
  <2>1. InOrder(Main, x) \/ \E u \in Threads : pc[u] # "joined" /\ InOrder(u, x)
    BY <1>2 DEF IInv, SomebodyKnows
  <2>2. CASE InOrder(t, x)
    <3>1. view'[Main][x] \in Nat /\ view'[Main][x] <= Newest(x)'
      BY <1>1, <1>4 DEF MemoryOK
    <3>2. Newest(x) <= view'[Main][x]
      BY <1>4, <2>2 DEF InOrder
    <3> QED BY <1>6, <3>1, <3>2, Basics DEF InOrder
  <2>3. CASE ~InOrder(t, x)
    BY <1>1, <1>2, <1>5, <2>1, <2>3 DEF MemoryKept
  <2> QED BY <2>2, <2>3
<1>13. Values'
  <2>1. taken' = taken /\ seen' = seen /\ \A f \in Fields : ValueOf(f)' = ValueOf(f)
    BY <1>1, <1>6 DEF JoinOne
  <2>2. pc'[Main] # "owner" /\ (Free' => \A f \in Fields : ValueOf(f)' = 1 + taken')
    BY <1>2, <1>3, <2>1 DEF IInv, Values
  <2>3. ASSUME NEW u \in Threads, Holding(u)', NEW f \in Fields
        PROVE  ValueOf(f)' = Counted(u, f)'
    <3>1. Holding(u) /\ pc'[u] = pc[u]
      BY <1>2, <1>3, <2>3 DEF Holding
    <3> QED BY <2>1, <3>1 DEF IInv, Values, Counted
  <2>4. ASSUME NEW u \in Threads, pc'[u] \in Fields, NEW f \in Fields
        PROVE  seen'[u][f] = taken'
    BY <1>2, <2>1, <2>4 DEF IInv, Values, Fields
  <2> QED BY <2>2, <2>3, <2>4 DEF Values
<1> QED BY <1>7, <1>8, <1>9, <1>10, <1>11, <1>12, <1>13 DEF IInv

LEMMA IntoInnerStep ==
    ASSUME IInv, IntoInner
    PROVE  IInv'
<1>1. /\ Main \in Processes /\ Main \notin Threads /\ Threads \subseteq Processes
      /\ MemoryOK(BOOLEAN \cup Nat) /\ "locked" \in Cells /\ Fields \subseteq Cells
  BY Basics
<1>2. /\ pc[Main] = "join" /\ pc'[Main] = "consumed" /\ ~Alone /\ ~Alone'
      /\ \A u \in Threads : pc'[u] = pc[u] /\ pc'[u] = "joined"
  BY <1>1 DEF IInv, TypeOK, Alone, IntoInner, AllJoined, Goto
<1>3. Free /\ Free' /\ \A u \in Threads : ~Holding(u)'
  BY <1>2 DEF Holding, Free
<1>4. MemoryKept /\ taken' = taken
  BY UnchangedMemoryKept DEF IntoInner
<1>5. TypeOK'
  BY <1>1, <1>2, <1>4, KeptFacts DEF IInv, TypeOK, IntoInner, Goto, MemoryKept
<1>6. Births' /\ OneHolder' /\ HolderKnows'
  BY <1>2, <1>3 DEF Births, OneHolder, HolderKnows, AllJoined
<1>7. FlagTells'
  BY <1>1, <1>3, <1>4, KeptFacts DEF IInv, FlagTells
<1>8. LockCarries'
  BY <1>1, <1>2, <1>3, <1>4, KeptFacts DEF IInv, LockCarries, MemoryKept
<1>9. SomebodyKnows'
  BY <1>1, <1>2, <1>4 DEF IInv, SomebodyKnows, MemoryKept
<1>10. Values'
  <2>1. \A f \in Fields : ValueOf(f)' = 1 + taken'
    BY <1>1, <1>2, <1>3, <1>4, KeptFacts DEF IInv, Values
  <2> QED BY <1>2, <1>3, <2>1 DEF Values, Fields
<1> QED BY <1>5, <1>6, <1>7, <1>8, <1>9, <1>10 DEF IInv
--------------------------------------------------------------------------------

LEMMA InitIInv == Init => IInv
<1> SUFFICES ASSUME Init
             PROVE  IInv
  OBVIOUS
<1> DEFINE made == [x \in Cells |-> 1]
           first(x) == [val |-> IF x = "locked" THEN FALSE ELSE 0, view |-> made]
           V == BOOLEAN \cup Nat
           E == [val : V, view : [Cells -> Nat]]
<1>1. /\ Main \in Processes /\ Main \notin Threads /\ Threads \subseteq Processes
      /\ "locked" \in Cells /\ Fields \subseteq Cells /\ "locked" \notin Fields
  BY MainAssumption DEF Processes, Cells, Fields
<1>2. /\ written = [x \in Cells |-> <<first(x)>>]
      /\ view = [p \in Processes |-> IF p = Main THEN made ELSE Blank]
      /\ pc = [p \in Processes |-> IF p = Main THEN "owner" ELSE "unborn"]
      /\ seen = [t \in Threads |-> [f \in Fields |-> 0]] /\ todo = Rounds /\ taken = 0
  BY DEF Init
<1>3. made \in [Cells -> Nat] /\ Blank \in [Cells -> Nat] /\ \A x \in Cells : made[x] = 1 /\ Blank[x] = 0
  BY DEF Blank
<1>4. \A x \in Cells : /\ first(x) \in E /\ first(x).view = made
                       /\ x # "locked" => first(x).val = 0
  BY <1>3
<1>a. first("locked").val = FALSE
  OBVIOUS
<1> HIDE DEF first, E, made
<1>5. \A x \in Cells : /\ written[x] \in Seq(E) /\ Len(written[x]) = 1
                       /\ written[x][1] = first(x) /\ DOMAIN written[x] = {1}
  <2> TAKE x \in Cells
  <2>1. written[x] = <<first(x)>> /\ first(x) \in E
    BY <1>2, <1>4
  <2> QED BY <2>1
<1>6. \A x \in Cells : Newest(x) = 1 /\ ValueOf(x) = first(x).val
  BY <1>5 DEF Newest, ValueOf
<1>7. MemoryOK(V)
  <2>1. written \in [Cells -> Seq(E)]
    BY <1>2, <1>5
  <2>2. view \in [Processes -> [Cells -> Nat]]
    BY <1>2, <1>3
  <2>3. \A p \in Processes, x \in Cells : view[p][x] <= Newest(x)
    <3> TAKE p \in Processes, x \in Cells
    <3>1. view[p] = made \/ view[p] = Blank
      BY <1>2
    <3>2. view[p][x] = 1 \/ view[p][x] = 0
      BY <1>3, <3>1
    <3> QED BY <1>6, <3>2
  <2>4. \A x \in Cells : \A i \in DOMAIN written[x] : \A y \in Cells :
            written[x][i].view[y] <= Newest(y)
    <3> TAKE x \in Cells
    <3> TAKE i \in DOMAIN written[x]
    <3>1. written[x][i].view = made
      BY <1>4, <1>5
    <3> QED BY <1>3, <1>6, <3>1
  <2> QED BY <2>1, <2>2, <2>3, <2>4 DEF MemoryOK, E
<1>8. pc[Main] = "owner" /\ Alone /\ \A t \in Threads : pc[t] = "unborn"
  BY <1>1, <1>2 DEF Alone
<1>9. Free /\ \A t \in Threads : ~Holding(t)
  BY <1>8 DEF Free, Holding
<1>10. TypeOK
  <2>1. \A x \in Cells : Newest(x) > 0
    BY <1>6
  <2> QED BY <1>1, <1>2, <1>7, <1>8, <2>1, RoundsAssumption DEF TypeOK
<1>11. Births /\ OneHolder /\ LockCarries /\ SomebodyKnows
  BY <1>8, <1>9 DEF Births, OneHolder, LockCarries, SomebodyKnows
<1>12. FlagTells
  BY <1>1, <1>6, <1>9, <1>a DEF FlagTells
<1>13. HolderKnows
  BY <1>1, <1>2, <1>3, <1>6, <1>9 DEF HolderKnows, Knows, InOrder
<1>14. Values
  BY <1>1, <1>2, <1>4, <1>6, <1>8, <1>9 DEF Values, Fields
<1> QED BY <1>10, <1>11, <1>12, <1>13, <1>14 DEF IInv

LEMMA NextIInv == IInv /\ [Next]_vars => IInv'
<1> SUFFICES ASSUME IInv, [Next]_vars
             PROVE  IInv'
  OBVIOUS
<1>1. CASE UNCHANGED vars
  <2>1. MemoryKept
    BY <1>1, UnchangedMemoryKept DEF vars
  <2> QED BY <1>1, <2>1 DEF vars, MemoryKept, IInv, TypeOK, Births, OneHolder, FlagTells,
             HolderKnows, LockCarries, SomebodyKnows, Values, Counted, Alone, Free, Knows,
             Holding, AllJoined, InOrder, Newest, ValueOf
<1>2. CASE GetMut
  BY <1>2, GetMutStep
<1>3. CASE SpawnAll
  BY <1>3, SpawnStep
<1>4. CASE IntoInner
  BY <1>4, IntoInnerStep
<1>5. CASE Over
  BY <1>1, <1>5 DEF Over
<1>6. ASSUME NEW t \in Threads, Step(t)
      PROVE  IInv'
  <2>0. seen \in [Threads -> [Fields -> Nat]] /\ todo \in [Threads -> Nat]
    BY DEF IInv, TypeOK
  <2>1. CASE Begin(t)
    <3>1. MemoryKept
      BY <2>1, UnchangedMemoryKept DEF Begin
    <3>2. todo' \in [Threads -> Nat]
      BY <2>0, <2>1 DEF Begin
    <3>3. PICK label \in {"load", "trycas"} : pc' = [pc EXCEPT ![t] = label]
      BY <2>1 DEF Begin, Goto
    <3> QED BY <2>1, <3>1, <3>2, <3>3, QuietStep DEF Begin
  <2>2. ASSUME NEW ord, NEW values, NEW label \in {"idle", "load", "cas", "trycas"},
               pc[t] \in {"idle", "load", "cas", "trycas"},
               ReadSome(t, "locked", ord, values),
               pc' = [pc EXCEPT ![t] = label], UNCHANGED <<seen, todo, taken>>
        PROVE  IInv'
    <3>1. PICK i \in DOMAIN written["locked"] : Read(t, "locked", i, ord)
      BY <2>2 DEF ReadSome
    <3>2. MemoryKept
      BY <3>1, ReadKeeps, Basics
    <3> QED BY <2>0, <2>2, <3>2, QuietStep
  <2>3. CASE LoadFree(t)
    BY <2>2, <2>3 DEF LoadFree, Goto
  <2>4. CASE CasLoses(t)
    BY <2>2, <2>4 DEF CasLoses, Goto
  <2>5. CASE TryLoses(t)
    <3>1. pc' = [pc EXCEPT ![t] = "trycas"]
      BY <2>5 DEF TryLoses, IInv, TypeOK
    <3> QED BY <2>2, <2>5, <3>1 DEF TryLoses
  <2>6. CASE CasWins(t)
    BY <2>6, WinStep DEF CasWins, CasOrder, Acquire
  <2>7. CASE TryWins(t)
    BY <2>7, WinStep DEF TryWins, TryOrder, Acquire
  <2> QED BY <1>6, <2>1, <2>3, <2>4, <2>5, <2>6, <2>7, ReadFieldsStep, WriteFieldStep,
             DropStep, JoinStep DEF Step
<1> QED BY <1>1, <1>2, <1>3, <1>4, <1>5, <1>6 DEF Next

(* The invariant holds at every step of the two tests.                     *)
THEOREM Invariance == Spec => []IInv
  BY InitIInv, NextIInv, PTL DEF Spec

(* "every write made inside the critical section happens-before the next   *)
(* thread's successful acquire".                                           *)
THEOREM HoldersUpToDate == Spec => []HolderUpToDate
<1>1. ASSUME IInv
      PROVE  HolderUpToDate
  <2>1. AllJoined => Knows(Main)
    BY <1>1 DEF IInv, HolderKnows, SomebodyKnows, AllJoined, Knows
  <2> QED BY <1>1, <2>1 DEF IInv, HolderKnows, HolderUpToDate, Knows
<1> QED BY <1>1, Invariance, PTL

(* A new holder is shown one value of each field, and the two are equal.   *)
THEOREM NoTornSection == Spec => []NeverTorn
<1>1. ASSUME IInv
      PROVE  NeverTorn
  <2> SUFFICES ASSUME NEW t \in Threads, pc[t] = "guard",
                      NEW i \in view[t]["first"] .. Newest("first"),
                      NEW j \in view[t]["second"] .. Newest("second")
               PROVE  written["first"][i].val = written["second"][j].val
    BY DEF NeverTorn
  <2>1. t \in Processes /\ \A f \in Fields : f \in Cells
    BY <1>1, Basics
  <2>2. Knows(t) /\ \A f \in Fields : ValueOf(f) = taken
    BY <1>1 DEF IInv, HolderKnows, Values, Counted, Holding
  <2>3. i = Newest("first") /\ j = Newest("second")
    BY <1>1, <2>1, <2>2, Basics DEF Knows, InOrder, Fields
  <2> QED BY <2>2, <2>3 DEF ValueOf, Fields
<1> QED BY <1>1, Invariance, PTL

(* into_inner finds main's increment and one for every guard handed out.   *)
THEOREM NothingIsLost == Spec => []NothingLost
<1>1. ASSUME IInv
      PROVE  NothingLost
  <2> SUFFICES ASSUME pc[Main] = "consumed", NEW f \in Fields,
                      NEW i \in view[Main][f] .. Newest(f)
               PROVE  written[f][i].val = 1 + taken
    BY DEF NothingLost
  <2>1. AllJoined /\ ~Alone /\ f \in Cells /\ Main \in Processes
    BY <1>1, Basics DEF IInv, Births, Alone
  <2>2. InOrder(Main, f)
    BY <1>1, <2>1 DEF IInv, SomebodyKnows, AllJoined
  <2>3. i = Newest(f)
    BY <1>1, <2>1, <2>2, Basics DEF InOrder
  <2>4. ValueOf(f) = 1 + taken
    BY <1>1, <2>1 DEF IInv, Values, AllJoined, Free, Holding
  <2> QED BY <2>3, <2>4 DEF ValueOf
<1> QED BY <1>1, Invariance, PTL

LEMMA StepRefines == IInv /\ [Next]_vars => [Exclusive!Next]_Holders
<1> SUFFICES ASSUME IInv, [Next]_vars
             PROVE  [Exclusive!Next]_Holders
  OBVIOUS
<1>0. /\ Main \in Processes /\ Main \notin Threads /\ Threads \subseteq Processes
      /\ pc \in [Processes -> {"owner", "scope", "join", "consumed",
                           "unborn", "idle", "load", "cas", "trycas", "guard",
                           "first", "second", "drop", "ended", "joined"}]
  BY Basics DEF IInv, TypeOK
<1>1. ASSUME \A t \in Threads : Holding(t)' <=> Holding(t)
      PROVE  UNCHANGED Holders
  BY <1>1 DEF Holders
<1>2. ASSUME NEW t \in Threads, NEW ord, pc[t] \in {"cas", "trycas"}, Win(t, ord)
      PROVE  Exclusive!Acquire(Main, t)
  <2>1. ~ValueOf("locked")
    BY <1>2 DEF Win
  <2>2. ~Free => ValueOf("locked") = TRUE
    BY <1>2 DEF IInv, FlagTells
  <2>3. Free
    BY <2>1, <2>2, Zenon
  <2>4. pc'[t] = "guard" /\ \A u \in Threads \ {t} : pc'[u] = pc[u]
    BY <1>0, <1>2 DEF Win, Goto
  <2>5. \A u \in Threads : Holding(u)' <=> u = t
    BY <2>3, <2>4 DEF Free, Holding
  <2> QED BY <2>3, <2>5 DEF Exclusive!Acquire, Free, Holders, TheLock
<1>3. ASSUME NEW t \in Threads, Drop(t)
      PROVE  Exclusive!Release(Main, t)
  <2>1. pc[t] = "drop" /\ pc'[t] \in {"ended", "idle"}
        /\ \A u \in Threads \ {t} : pc'[u] = pc[u]
    BY <1>0, <1>3 DEF Drop, Goto
  <2>2. Holding(t) /\ \A u \in Threads : Holding(u)' <=> Holding(u) /\ u # t
    BY <2>1 DEF Holding
  <2> QED BY <2>2 DEF Exclusive!Release, Holders, TheLock
<1>4. ASSUME NEW t \in Threads, NEW label, pc' = [pc EXCEPT ![t] = label],
             pc[t] \in {"guard", "first", "second", "drop"}
             <=> label \in {"guard", "first", "second", "drop"}
      PROVE  UNCHANGED Holders
  <2>1. \A u \in Threads : Holding(u)' <=> Holding(u)
    BY <1>0, <1>4 DEF Holding
  <2> QED BY <1>1, <2>1
<1>5. ASSUME NEW t \in Threads, Step(t)
      PROVE  Exclusive!Next \/ UNCHANGED Holders
  <2>1. CASE Begin(t)
    BY <1>4, <2>1 DEF Begin, Goto
  <2>2. CASE LoadFree(t) \/ CasLoses(t)
    BY <1>4, <2>2 DEF LoadFree, CasLoses, Goto
  <2>3. CASE TryLoses(t)
    BY <1>1, <2>3 DEF TryLoses, Holding
  <2>4. CASE CasWins(t) \/ TryWins(t)
    BY <1>2, <2>4 DEF CasWins, TryWins, Exclusive!Next, TheLock
  <2>5. CASE ReadFields(t)
    BY <1>4, <2>5 DEF ReadFields, Goto
  <2>6. CASE WriteField(t)
    BY <1>4, <2>6 DEF WriteField, Goto, Fields
  <2>7. CASE Drop(t)
    BY <1>3, <2>7 DEF Exclusive!Next, TheLock
  <2>8. CASE JoinOne(t)
    BY <1>4, <2>8 DEF JoinOne, Goto
  <2> QED BY <1>5, <2>1, <2>2, <2>3, <2>4, <2>5, <2>6, <2>7, <2>8 DEF Step
<1>6. CASE GetMut \/ IntoInner
  BY <1>0, <1>1, <1>6 DEF GetMut, IntoInner, Goto, Holding
<1>7. CASE SpawnAll
  <2>1. \A t \in Threads : ~Holding(t)
    BY <1>7 DEF SpawnAll, IInv, Births, Alone, Holding
  <2>2. \A t \in Threads : ~Holding(t)'
    BY <1>0, <1>7 DEF SpawnAll, Holding
  <2> QED BY <1>1, <2>1, <2>2
<1>8. CASE Over \/ UNCHANGED vars
  BY <1>1, <1>8 DEF Over, vars, Holding
<1> QED BY <1>5, <1>6, <1>7, <1>8 DEF Next

(* Stale loads and spurious failures included, it is an exclusive lock: a  *)
(* successful compare_exchange acquires, the drop's store releases, and    *)
(* every other step is a stutter.                                          *)
THEOREM Refinement == Spec => ImplementsExclusiveLock
<1>1. Init => Exclusive!Init
  BY MainAssumption DEF Init, Exclusive!Init, Holders, Holding, TheLock, Processes
<1> QED
  BY <1>1, StepRefines, Invariance, PTL DEF Spec, Exclusive!Spec, ImplementsExclusiveLock

================================================================================
