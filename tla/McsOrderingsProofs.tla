--------------------------- MODULE McsOrderingsProofs ---------------------------
(***************************************************************************)
(* The Orderings of McsSpinlock are strong enough, for every number of     *)
(* threads and of iterations: whoever has the lock has every access to the *)
(* value behind it, no store to a node overtakes another, a node is freed  *)
(* after every access to it, main finds every increment, and the lock is   *)
(* granted in the order of the swaps.                                      *)
(*                                                                         *)
(* What makes this inductive is where each piece of knowledge travels: the *)
(* value goes down the queue in LockedOf and from one queue to the next in *)
(* TailOf (DataKnown); a node is made known to the thread behind it in     *)
(* TailOf and to the thread ahead of it in NextOf (OthersKnown), and to    *)
(* its owner again in its own NextOf and LockedOf (OwnKnown).              *)
(***************************************************************************)
EXTENDS McsOrderings, SequenceTheorems, TLAPS

Processes == Threads \cup {Main}

Alone == pc[Main] \in {"owner", "scope"}   \* no other thread exists yet

Holds(t)  == pc[t] \in {"guard", "derefmut", "relload", "relcas", "relwait", "handoff"}
Waits(t)  == pc[t] \in {"link", "spin"}
Queued(t) == Waits(t) \/ Holds(t)
Fresh(t)  == pc[t] \in {"swap", "trycas"}   \* reset, and not yet published

(* The queue as its neighbours see it.                                     *)
Size == Len(queue)
Member(t)    == \E i \in 1 .. Size : queue[i] = t
First(t)     == Size > 0 /\ queue[1] = t
Final(t)     == Size > 0 /\ queue[Size] = t
Behind(t, u) == \E i \in 1 .. Size : i < Size /\ queue[i] = t /\ queue[i + 1] = u

LinkTo(t, u) == Behind(t, u) /\ pc[u] # "link"   \* and u has told t so
Unaware(t)   == pc[t] = "spin" /\ First(t)       \* granted, and yet to see it

(* Whoever acquires the newest entry of x knows the newest of y.           *)
Carries(x, y) == written[x][Newest(x)].view[y] = Newest(y)

Words == BOOLEAN \cup Nat \cup Threads \cup {Null}

Labels == {"owner", "scope", "join", "consumed", "unborn", "idle", "swap", "trycas",
           "link", "spin", "guard", "derefmut", "relload", "relcas", "relwait",
           "handoff", "ended", "joined"}

LocalsOK ==
    /\ pc \in [Processes -> Labels]
    /\ pc[Main] \in {"owner", "scope", "join", "consumed"}
    /\ pred \in [Threads -> Threads \cup {Null}]
    /\ succ \in [Threads -> Words]
    /\ seen \in [Threads -> Words]
    /\ todo \in [Threads -> Nat]
    /\ queue \in Seq(Threads)
    /\ taken \in Nat

TypeOK ==
    /\ MemoryOK(Words)
    /\ Newest(TailOf) > 0 /\ Newest(Data) > 0
    /\ LocalsOK

Births ==
    /\ \A t \in Threads : pc[t] = "unborn" <=> Alone
    /\ pc[Main] = "consumed" => AllJoined

QueueMembers ==
    /\ \A i, j \in 1 .. Size : queue[i] = queue[j] => i = j
    /\ \A t \in Threads : Queued(t) <=> Member(t)
    /\ \A t \in Threads : Holds(t) => First(t)
    /\ \A t \in Threads : pc[t] = "link" =>
          \E p \in Threads : pred[t] = p /\ Behind(p, t)

TailIsLast ==
    /\ Size = 0 => ValueOf(TailOf) = Null
    /\ \A t \in Threads : Final(t) => ValueOf(TailOf) = t /\ InOrder(t, TailOf)

NextIsBehind ==
    /\ \A t, u \in Threads : LinkTo(t, u) => ValueOf(NextOf(t)) = u
    /\ \A t \in Threads :
          Member(t) /\ (\A u \in Threads : ~LinkTo(t, u)) => ValueOf(NextOf(t)) = Null

ReleaserSees ==
    \A t \in Threads :
        /\ pc[t] = "relwait" => ~Final(t)
        /\ pc[t] = "handoff" => \E u \in Threads : succ[t] = u /\ LinkTo(t, u)

(* What a thread may be shown of its own node, besides the newest.         *)
OldNull(t) ==
    /\ view[t][NextOf(t)] > 0
    /\ \A i \in view[t][NextOf(t)] .. Newest(NextOf(t)) - 1 :
          written[NextOf(t)][i].val = Null

OldRaised(t) ==
    /\ view[t][LockedOf(t)] > 0
    /\ \A i \in view[t][LockedOf(t)] .. Newest(LockedOf(t)) - 1 :
          written[LockedOf(t)][i].val = TRUE

NextShown ==
    \A t \in Threads : Fresh(t) \/ Queued(t) =>
        /\ OldNull(t)
        /\ Fresh(t) => ValueOf(NextOf(t)) = Null

LockedShown ==
    \A t \in Threads : Fresh(t) \/ Waits(t) =>
        /\ OldRaised(t)
        /\ ~Unaware(t) => ValueOf(LockedOf(t)) = TRUE

DataKnown ==
    /\ \A t \in Threads : Holds(t) => InOrder(t, Data)
    /\ \A t \in Threads : Unaware(t) => Carries(LockedOf(t), Data)
    /\ Size = 0 /\ ~Alone => \A t \in Threads : InOrder(t, Data) \/ Carries(TailOf, Data)
    /\ Alone => \A x \in Cells : InOrder(Main, x)
    /\ ~Alone => \/ InOrder(Main, Data)
                 \/ \E t \in Threads : pc[t] # "joined" /\ InOrder(t, Data)

OwnKnown ==
    \A t \in Threads :
        /\ ~Unaware(t) => InOrder(t, LockedOf(t)) /\ InOrder(t, GrantMark(t))
        /\ Unaware(t)  => Carries(LockedOf(t), GrantMark(t))
        /\ \/ InOrder(t, NextOf(t)) /\ InOrder(t, LinkMark(t))
           \/ /\ Queued(t) /\ pc[t] # "handoff"
              /\ ValueOf(NextOf(t)) # Null
              /\ Carries(NextOf(t), LinkMark(t))

OthersKnown ==
    /\ \A t \in Threads : Final(t) =>
          Carries(TailOf, NextOf(t)) /\ Carries(TailOf, LinkMark(t))
    /\ \A t, p \in Threads : pc[t] = "link" /\ Behind(p, t) =>
          InOrder(t, NextOf(p)) /\ InOrder(t, LinkMark(p))
    /\ \A t, u \in Threads : LinkTo(t, u) =>
          Carries(NextOf(t), LockedOf(u)) /\ Carries(NextOf(t), GrantMark(u))
    /\ \A t, u \in Threads : pc[t] = "handoff" /\ LinkTo(t, u) =>
          InOrder(t, LockedOf(u)) /\ InOrder(t, GrantMark(u))

(* taken runs ahead of the value by what the holder has yet to write.      *)
Reading(t) == pc[t] \in {"guard", "derefmut"}

Values ==
    /\ pc[Main] = "owner" => taken = 0 /\ ValueOf(Data) = 0
    /\ pc[Main] # "owner" /\ (\A t \in Threads : ~Reading(t)) => ValueOf(Data) = 1 + taken
    /\ \A t \in Threads : Reading(t) => ValueOf(Data) = taken
    /\ \A t \in Threads : pc[t] = "derefmut" => seen[t] = taken

IInv ==
    /\ TypeOK
    /\ Births
    /\ QueueMembers
    /\ TailIsLast
    /\ NextIsBehind
    /\ ReleaserSees
    /\ NextShown
    /\ LockedShown
    /\ DataKnown
    /\ OwnKnown
    /\ OthersKnown
    /\ Values
--------------------------------------------------------------------------------
(* The words of memory are different words.                                *)

LEMMA WordsDiffer ==
    /\ TailOf \in Cells /\ Data \in Cells /\ TailOf # Data
    /\ \A t \in Threads :
          /\ NextOf(t) \in Cells /\ LockedOf(t) \in Cells
          /\ LinkMark(t) \in Cells /\ GrantMark(t) \in Cells
          /\ Node(t) = {NextOf(t), LockedOf(t)}
    /\ \A t \in Threads :
          /\ TailOf # NextOf(t) /\ TailOf # LockedOf(t)
          /\ TailOf # LinkMark(t) /\ TailOf # GrantMark(t)
          /\ Data # NextOf(t) /\ Data # LockedOf(t)
          /\ Data # LinkMark(t) /\ Data # GrantMark(t)
    /\ \A t, u \in Threads :
          /\ NextOf(t) # LockedOf(u) /\ NextOf(t) # LinkMark(u) /\ NextOf(t) # GrantMark(u)
          /\ LockedOf(t) # LinkMark(u) /\ LockedOf(t) # GrantMark(u)
          /\ LinkMark(t) # GrantMark(u)
    /\ \A t, u \in Threads : t # u =>
          /\ NextOf(t) # NextOf(u) /\ LockedOf(t) # LockedOf(u)
          /\ LinkMark(t) # LinkMark(u) /\ GrantMark(t) # GrantMark(u)
<1>1. TailOf \in Cells /\ Data \in Cells /\ TailOf # Data
  BY DEF Cells, TailOf, Data
<1>2. ASSUME NEW t \in Threads
      PROVE  /\ NextOf(t) \in Cells /\ LockedOf(t) \in Cells
             /\ LinkMark(t) \in Cells /\ GrantMark(t) \in Cells
             /\ Node(t) = {NextOf(t), LockedOf(t)}
  BY DEF Cells, Node, Marks
<1>3. ASSUME NEW t \in Threads
      PROVE  /\ TailOf # NextOf(t) /\ TailOf # LockedOf(t)
             /\ TailOf # LinkMark(t) /\ TailOf # GrantMark(t)
             /\ Data # NextOf(t) /\ Data # LockedOf(t)
             /\ Data # LinkMark(t) /\ Data # GrantMark(t)
  BY DEF TailOf, Data, NextOf, LockedOf, LinkMark, GrantMark
<1>4. ASSUME NEW t \in Threads, NEW u \in Threads
      PROVE  /\ NextOf(t) # LockedOf(u) /\ NextOf(t) # LinkMark(u) /\ NextOf(t) # GrantMark(u)
             /\ LockedOf(t) # LinkMark(u) /\ LockedOf(t) # GrantMark(u)
             /\ LinkMark(t) # GrantMark(u)
  BY DEF NextOf, LockedOf, LinkMark, GrantMark
<1>5. ASSUME NEW t \in Threads, NEW u \in Threads, t # u
      PROVE  /\ NextOf(t) # NextOf(u) /\ LockedOf(t) # LockedOf(u)
             /\ LinkMark(t) # LinkMark(u) /\ GrantMark(t) # GrantMark(u)
  BY <1>5 DEF NextOf, LockedOf, LinkMark, GrantMark
<1> QED BY <1>1, <1>2, <1>3, <1>4, <1>5

--------------------------------------------------------------------------------
(* The queue as its neighbours see it.                                     *)

QueueOK ==
    /\ queue \in Seq(Threads)
    /\ \A i, j \in 1 .. Size : queue[i] = queue[j] => i = j

LEMMA Neighbours ==
    ASSUME QueueOK
    PROVE  /\ Size \in Nat /\ (Size = 0 <=> \A t \in Threads : ~Member(t))
           /\ \A t \in Threads : First(t) => Member(t)
           /\ \A t \in Threads : Final(t) => Member(t)
           /\ \A t, u \in Threads : First(t) /\ First(u) => t = u
           /\ \A t, u \in Threads : Final(t) /\ Final(u) => t = u
           /\ \A t, u \in Threads : Behind(t, u) =>
                 Member(t) /\ Member(u) /\ t # u /\ ~Final(t) /\ ~First(u)
           /\ \A t, u, v \in Threads : Behind(t, u) /\ Behind(t, v) => u = v
           /\ \A t, u, v \in Threads : Behind(u, t) /\ Behind(v, t) => u = v
           /\ \A t \in Threads : Member(t) /\ ~Final(t) => \E u \in Threads : Behind(t, u)
           /\ Size > 0 => \E t \in Threads : Final(t)
           /\ Size > 0 => \E t \in Threads : First(t)
<1>1. Size \in Nat /\ \A i \in 1 .. Size : queue[i] \in Threads
  BY DEF QueueOK, Size
<1>2. Size = 0 <=> \A t \in Threads : ~Member(t)
  <2>1. CASE Size = 0
    BY <2>1 DEF Member
  <2>2. CASE Size > 0
    <3>1. 1 \in 1 .. Size /\ queue[1] \in Threads
      BY <1>1, <2>2
    <3> QED BY <2>2, <3>1 DEF Member
  <2> QED BY <1>1, <2>1, <2>2
<1>3. \A t \in Threads : (First(t) => Member(t)) /\ (Final(t) => Member(t))
  <2>1. Size > 0 => 1 \in 1 .. Size /\ Size \in 1 .. Size
    BY <1>1
  <2> QED BY <2>1 DEF First, Final, Member
<1>4. \A t, u \in Threads : (First(t) /\ First(u) => t = u) /\ (Final(t) /\ Final(u) => t = u)
  BY DEF First, Final
<1>5. ASSUME NEW t \in Threads, NEW u \in Threads, Behind(t, u)
      PROVE  Member(t) /\ Member(u) /\ t # u /\ ~Final(t) /\ ~First(u)
  <2>1. PICK i \in 1 .. Size : i < Size /\ queue[i] = t /\ queue[i + 1] = u
    BY <1>5 DEF Behind
  <2>2. i + 1 \in 1 .. Size /\ Size \in 1 .. Size /\ 1 \in 1 .. Size /\ i # i + 1
        /\ i # Size /\ 1 # i + 1
    BY <1>1, <2>1
  <2> QED BY <2>1, <2>2 DEF QueueOK, Member, Final, First
<1>6. ASSUME NEW t \in Threads, NEW u \in Threads, NEW v \in Threads
      PROVE  /\ Behind(t, u) /\ Behind(t, v) => u = v
             /\ Behind(u, t) /\ Behind(v, t) => u = v
  <2>1. ASSUME Behind(t, u), Behind(t, v) PROVE u = v
    <3>1. PICK i \in 1 .. Size : i < Size /\ queue[i] = t /\ queue[i + 1] = u
      BY <2>1 DEF Behind
    <3>2. PICK j \in 1 .. Size : j < Size /\ queue[j] = t /\ queue[j + 1] = v
      BY <2>1 DEF Behind
    <3>3. i = j
      BY <3>1, <3>2 DEF QueueOK
    <3> QED BY <3>1, <3>2, <3>3
  <2>2. ASSUME Behind(u, t), Behind(v, t) PROVE u = v
    <3>1. PICK i \in 1 .. Size : i < Size /\ queue[i] = u /\ queue[i + 1] = t
      BY <2>2 DEF Behind
    <3>2. PICK j \in 1 .. Size : j < Size /\ queue[j] = v /\ queue[j + 1] = t
      BY <2>2 DEF Behind
    <3>3. i + 1 \in 1 .. Size /\ j + 1 \in 1 .. Size
      BY <1>1, <3>1, <3>2
    <3>4. i + 1 = j + 1
      BY <3>1, <3>2, <3>3 DEF QueueOK
    <3>5. i = j
      BY <1>1, <3>4
    <3> QED BY <3>1, <3>2, <3>5
  <2> QED BY <2>1, <2>2
<1>7. ASSUME NEW t \in Threads, Member(t), ~Final(t)
      PROVE  \E u \in Threads : Behind(t, u)
  <2>1. PICK i \in 1 .. Size : queue[i] = t
    BY <1>7 DEF Member
  <2>2. i < Size /\ i + 1 \in 1 .. Size
    BY <1>1, <1>7, <2>1 DEF Final
  <2> QED BY <1>1, <2>1, <2>2 DEF Behind
<1>8. Size > 0 => (\E t \in Threads : Final(t)) /\ (\E t \in Threads : First(t))
  <2>1. Size > 0 => queue[1] \in Threads /\ queue[Size] \in Threads
    BY <1>1
  <2> QED BY <2>1 DEF First, Final
<1> QED BY <1>1, <1>2, <1>3, <1>4, <1>5, <1>6, <1>7, <1>8

(* A swap puts its thread behind the last one.                             *)
LEMMA Joined ==
    ASSUME QueueOK, NEW t \in Threads, ~Member(t), queue' = Append(queue, t)
    PROVE  /\ QueueOK' /\ Size' = Size + 1
           /\ \A u \in Threads : Member(u)' <=> Member(u) \/ u = t
           /\ \A u \in Threads : First(u)' <=> First(u) \/ (Size = 0 /\ u = t)
           /\ \A u \in Threads : Final(u)' <=> u = t
           /\ \A p, u \in Threads : Behind(p, u)' <=> Behind(p, u) \/ (Final(p) /\ u = t)
<1>1. Size \in Nat /\ \A i \in 1 .. Size : queue[i] \in Threads
  BY DEF QueueOK, Size
<1>2. /\ queue' \in Seq(Threads) /\ Size' = Size + 1 /\ queue'[Size + 1] = t
      /\ \A i \in 1 .. Size : queue'[i] = queue[i]
  BY DEF QueueOK, Size
<1>3. \A i \in 1 .. Size : queue[i] # t
  BY DEF Member
<1>4. \A i \in 1 .. Size + 1 : i \in 1 .. Size \/ i = Size + 1
  BY <1>1
<1>5. QueueOK'
  <2>1. \A i, j \in 1 .. Size + 1 : queue'[i] = queue'[j] => i = j
    BY <1>2, <1>3, <1>4 DEF QueueOK
  <2> QED BY <1>2, <2>1 DEF QueueOK
<1>6. ASSUME NEW u \in Threads
      PROVE  Member(u)' <=> Member(u) \/ u = t
  <2>1. 1 .. Size \subseteq 1 .. Size + 1 /\ Size + 1 \in 1 .. Size + 1
    BY <1>1
  <2> QED BY <1>2, <1>4, <2>1 DEF Member
<1>7. ASSUME NEW u \in Threads
      PROVE  First(u)' <=> First(u) \/ (Size = 0 /\ u = t)
  BY <1>1, <1>2 DEF First
<1>8. ASSUME NEW u \in Threads
      PROVE  Final(u)' <=> u = t
  BY <1>1, <1>2 DEF Final
<1>9. ASSUME NEW p \in Threads, NEW u \in Threads
      PROVE  Behind(p, u)' <=> Behind(p, u) \/ (Final(p) /\ u = t)
  <2>1. ASSUME NEW i \in 1 .. Size + 1, i < Size + 1, queue'[i] = p, queue'[i + 1] = u
        PROVE  Behind(p, u) \/ (Final(p) /\ u = t)
    <3>1. CASE i = Size
      <4>1. Size > 0 /\ Size \in 1 .. Size
        BY <1>1, <3>1
      <4>2. queue'[Size] = queue[Size]
        BY <1>2, <4>1
      <4>3. queue'[Size] = p /\ queue'[Size + 1] = u
        BY <2>1, <3>1
      <4> QED BY <1>2, <4>1, <4>2, <4>3 DEF Final
    <3>2. CASE i < Size
      <4>1. i \in 1 .. Size /\ i + 1 \in 1 .. Size
        BY <1>1, <3>2
      <4> QED BY <1>2, <2>1, <3>2, <4>1 DEF Behind
    <3> QED BY <1>1, <2>1, <3>1, <3>2
  <2>2. ASSUME Behind(p, u)
        PROVE  Behind(p, u)'
    <3>1. PICK i \in 1 .. Size : i < Size /\ queue[i] = p /\ queue[i + 1] = u
      BY <2>2 DEF Behind
    <3>2. i + 1 \in 1 .. Size /\ i \in 1 .. Size + 1 /\ i < Size + 1
      BY <1>1, <3>1
    <3> QED BY <1>2, <3>1, <3>2 DEF Behind
  <2>3. ASSUME Final(p), u = t
        PROVE  Behind(p, u)'
    <3>1. Size \in 1 .. Size /\ Size \in 1 .. Size + 1 /\ Size < Size + 1
      BY <1>1, <2>3 DEF Final
    <3> QED BY <1>2, <2>3, <3>1 DEF Behind, Final
  <2> QED BY <1>2, <2>1, <2>2, <2>3 DEF Behind
<1> QED BY <1>2, <1>5, <1>6, <1>7, <1>8, <1>9

(* A release takes its thread from the front.                              *)
LEMMA Departed ==
    ASSUME QueueOK, NEW t \in Threads, First(t), queue' = Tail(queue)
    PROVE  /\ QueueOK' /\ (Size' = 0 <=> Final(t))
           /\ \A u \in Threads : Member(u)' <=> Member(u) /\ u # t
           /\ \A u \in Threads : First(u)' <=> Behind(t, u)
           /\ \A u \in Threads : Final(u)' <=> Final(u) /\ u # t
           /\ \A p, u \in Threads : Behind(p, u)' <=> Behind(p, u) /\ p # t
<1>1. Size \in Nat /\ Size > 0 /\ queue[1] = t /\ 1 \in 1 .. Size /\ Size \in 1 .. Size
  BY DEF QueueOK, Size, First
<1>2. /\ queue' \in Seq(Threads) /\ Size' = Size - 1 /\ Size - 1 \in Nat
      /\ \A i \in 1 .. Size - 1 : queue'[i] = queue[i + 1]
  BY <1>1 DEF QueueOK, Size
<1>3. \A i \in 1 .. Size - 1 : i + 1 \in 1 .. Size /\ i \in 1 .. Size
  BY <1>1
<1>4. \A i \in 1 .. Size : queue[i] = t => i = 1
  BY <1>1 DEF QueueOK
<1>5. QueueOK'
  <2>1. ASSUME NEW i \in 1 .. Size - 1, NEW j \in 1 .. Size - 1, queue'[i] = queue'[j]
        PROVE  i = j
    <3>1. i + 1 = j + 1
      BY <1>2, <1>3, <2>1 DEF QueueOK
    <3> QED BY <1>1, <3>1
  <2> QED BY <1>2, <2>1 DEF QueueOK
<1>6. Size' = 0 <=> Final(t)
  BY <1>1, <1>2, <1>4 DEF Final
<1>7. ASSUME NEW u \in Threads
      PROVE  Member(u)' <=> Member(u) /\ u # t
  <2>1. ASSUME NEW i \in 1 .. Size - 1, queue'[i] = u
        PROVE  Member(u) /\ u # t
    <3>0. i + 1 \in 1 .. Size /\ i + 1 # 1
      BY <1>1, <1>3
    <3>1. queue[i + 1] = u
      BY <1>2, <2>1
    <3> QED BY <1>4, <3>0, <3>1 DEF Member
  <2>2. ASSUME NEW i \in 1 .. Size, queue[i] = u, u # t
        PROVE  Member(u)'
    <3>1. i # 1
      BY <1>1, <2>2
    <3>2. i - 1 \in 1 .. Size - 1 /\ (i - 1) + 1 = i
      BY <1>1, <3>1
    <3> QED BY <1>2, <2>2, <3>2 DEF Member
  <2> QED BY <1>2, <2>1, <2>2 DEF Member
<1>8. ASSUME NEW u \in Threads
      PROVE  First(u)' <=> Behind(t, u)
  <2>1. ASSUME First(u)'
        PROVE  Behind(t, u)
    <3>0. Size' > 0 /\ queue'[1] = u
      BY <2>1 DEF First
    <3>a. 1 \in 1 .. Size - 1 /\ 1 < Size
      BY <1>1, <1>2, <3>0
    <3>1. 1 \in 1 .. Size - 1 /\ 1 < Size /\ queue[1 + 1] = u
      BY <1>2, <3>0, <3>a
    <3> QED BY <1>1, <3>1 DEF Behind
  <2>2. ASSUME Behind(t, u)
        PROVE  First(u)'
    <3>1. PICK i \in 1 .. Size : i < Size /\ queue[i] = t /\ queue[i + 1] = u
      BY <2>2 DEF Behind
    <3>2. i = 1
      BY <1>4, <3>1
    <3>3. 1 \in 1 .. Size - 1 /\ Size - 1 > 0
      BY <1>1, <3>1, <3>2
    <3> QED BY <1>2, <3>1, <3>2, <3>3 DEF First
  <2> QED BY <2>1, <2>2
<1>9. ASSUME NEW u \in Threads
      PROVE  Final(u)' <=> Final(u) /\ u # t
  <2>1. CASE Size = 1
    BY <1>1, <1>2, <2>1 DEF Final
  <2>2. CASE Size > 1
    <3>1. Size - 1 \in 1 .. Size - 1 /\ Size - 1 > 0 /\ (Size - 1) + 1 = Size
      BY <1>1, <2>2
    <3>2. queue'[Size'] = queue[Size] /\ Size' > 0
      BY <1>2, <3>1
    <3>3. queue[Size] # t
      BY <1>1, <1>4, <2>2
    <3> QED BY <1>1, <3>2, <3>3 DEF Final
  <2> QED BY <1>1, <2>1, <2>2
<1>10. ASSUME NEW p \in Threads, NEW u \in Threads
       PROVE  Behind(p, u)' <=> Behind(p, u) /\ p # t
  <2>1. ASSUME NEW i \in 1 .. Size - 1, i < Size - 1, queue'[i] = p, queue'[i + 1] = u
        PROVE  Behind(p, u) /\ p # t
    <3>1. i + 1 \in 1 .. Size - 1 /\ i + 1 \in 1 .. Size /\ i + 1 < Size /\ i + 1 # 1
      BY <1>1, <2>1
    <3>2. queue[i + 1] = p /\ queue[(i + 1) + 1] = u
      BY <1>2, <2>1, <3>1
    <3> QED BY <1>4, <3>1, <3>2 DEF Behind
  <2>2. ASSUME NEW i \in 1 .. Size, i < Size, queue[i] = p, queue[i + 1] = u, p # t
        PROVE  Behind(p, u)'
    <3>1. i # 1
      BY <1>1, <2>2
    <3>2. i - 1 \in 1 .. Size - 1 /\ i - 1 < Size - 1 /\ (i - 1) + 1 = i /\ i \in 1 .. Size - 1
      BY <1>1, <2>2, <3>1
    <3>3. queue'[i - 1] = p /\ queue'[(i - 1) + 1] = u
      BY <1>2, <2>2, <3>2
    <3> QED BY <1>2, <3>2, <3>3 DEF Behind
  <2> QED BY <1>2, <2>1, <2>2 DEF Behind
<1> QED BY <1>5, <1>6, <1>7, <1>8, <1>9, <1>10
--------------------------------------------------------------------------------
(* What a step leaves as it is.                                            *)

LEMMA Basics ==
    ASSUME IInv
    PROVE  /\ MemoryOK(Words) /\ QueueOK
           /\ Main \in Processes /\ Main \notin Threads /\ Threads \subseteq Processes
           /\ Null \notin Threads /\ Null \in Words /\ Threads \subseteq Words
           /\ Nat \subseteq Words /\ TRUE \in Words /\ FALSE \in Words
           /\ \A x \in Cells : Newest(x) \in Nat
           /\ \A x \in Cells : Newest(x) > 0 => Newest(x) \in DOMAIN written[x]
           /\ \A x \in Cells, p \in Processes : view[p][x] \in Nat /\ view[p][x] <= Newest(x)
<1>1. MemoryOK(Words)
  BY DEF IInv, TypeOK
<1>2. \A x \in Cells : /\ Newest(x) \in Nat /\ DOMAIN written[x] = 1 .. Newest(x)
                    /\ \A p \in Processes : view[p][x] \in Nat /\ view[p][x] <= Newest(x)
  BY <1>1, Entries DEF Processes
<1>3. QueueOK
  BY DEF IInv, TypeOK, LocalsOK, QueueMembers, QueueOK
<1>4. \A x \in Cells : Newest(x) > 0 => Newest(x) \in DOMAIN written[x]
  BY <1>2
<1>5. TRUE \in Words /\ FALSE \in Words
  BY DEF Words
<1> QED BY <1>1, <1>2, <1>3, <1>4, <1>5, MainAssumption, NullAssumption DEF Processes, Words

(* Only the cells of W are written, and no process forgets any other.      *)
Frame(W) ==
    /\ MemoryOK(Words)'
    /\ \A x \in Cells \ W :
          written'[x] = written[x] /\ Newest(x)' = Newest(x) /\ ValueOf(x)' = ValueOf(x)
    /\ \A q \in Processes, x \in Cells \ W : InOrder(q, x) => InOrder(q, x)'
    /\ \A x, y \in Cells \ W : Carries(x, y) => Carries(x, y)'
    /\ \A t \in Threads : NextOf(t) \notin W /\ OldNull(t) => OldNull(t)'
    /\ \A t \in Threads : LockedOf(t) \notin W /\ OldRaised(t) => OldRaised(t)'

LEMMA FrameOf ==
    ASSUME IInv, NEW W, MemoryOK(Words)',
           \A x \in Cells \ W : written'[x] = written[x],
           \A q \in Processes, x \in Cells \ W : view[q][x] <= view'[q][x]
    PROVE  Frame(W)
<1>1. \A x \in Cells \ W :
          written'[x] = written[x] /\ Newest(x)' = Newest(x) /\ ValueOf(x)' = ValueOf(x)
  BY DEF Newest, ValueOf
<1>2. \A q \in Processes, x \in Cells : view'[q][x] \in Nat /\ view'[q][x] <= Newest(x)'
  BY DEF MemoryOK, Processes
<1>3. ASSUME NEW q \in Processes, NEW x \in Cells \ W, InOrder(q, x)
      PROVE  InOrder(q, x)'
  <2>1. view[q][x] = Newest(x) /\ view[q][x] \in Nat /\ view[q][x] <= view'[q][x]
    BY <1>3, Basics DEF InOrder
  <2>2. view'[q][x] \in Nat /\ view'[q][x] <= Newest(x) /\ Newest(x)' = Newest(x)
    BY <1>1, <1>2
  <2>3. view'[q][x] = Newest(x)
    BY <2>1, <2>2
  <2> QED BY <2>2, <2>3 DEF InOrder
<1>4. ASSUME NEW x \in Cells \ W, NEW y \in Cells \ W, Carries(x, y)
      PROVE  Carries(x, y)'
  BY <1>1, <1>4 DEF Carries
<1>5. ASSUME NEW t \in Threads, NextOf(t) \notin W, OldNull(t)
      PROVE  OldNull(t)'
  <2> DEFINE x == NextOf(t)
  <2>1. x \in Cells \ W /\ t \in Processes
    BY <1>5, WordsDiffer, Basics
  <2>2. /\ view[t][x] \in Nat /\ view'[t][x] \in Nat /\ view[t][x] <= view'[t][x]
        /\ Newest(x) \in Nat /\ Newest(x)' = Newest(x) /\ written'[x] = written[x]
    BY <1>1, <1>2, <2>1, Basics
  <2>3. view'[t][x] .. Newest(x) - 1 \subseteq view[t][x] .. Newest(x) - 1
    BY <2>2
  <2> QED BY <1>5, <2>2, <2>3 DEF OldNull
<1>6. ASSUME NEW t \in Threads, LockedOf(t) \notin W, OldRaised(t)
      PROVE  OldRaised(t)'
  <2> DEFINE x == LockedOf(t)
  <2>1. x \in Cells \ W /\ t \in Processes
    BY <1>6, WordsDiffer, Basics
  <2>2. /\ view[t][x] \in Nat /\ view'[t][x] \in Nat /\ view[t][x] <= view'[t][x]
        /\ Newest(x) \in Nat /\ Newest(x)' = Newest(x) /\ written'[x] = written[x]
    BY <1>1, <1>2, <2>1, Basics
  <2>3. view'[t][x] .. Newest(x) - 1 \subseteq view[t][x] .. Newest(x) - 1
    BY <2>2
  <2> QED BY <1>6, <2>2, <2>3 DEF OldRaised
<1> QED BY <1>1, <1>3, <1>4, <1>5, <1>6 DEF Frame

LEMMA SameMemory ==
    ASSUME IInv, UNCHANGED memory
    PROVE  Frame({})
<1>1. written' = written /\ view' = view
  BY DEF memory
<1>2. MemoryOK(Words)'
  BY <1>1, Basics DEF MemoryOK, Newest
<1>3. \A q \in Processes, x \in Cells : view[q][x] <= view'[q][x]
  BY <1>1, Basics
<1> QED BY <1>1, <1>2, <1>3, FrameOf

LEMMA ReadFrame ==
    ASSUME IInv, NEW p \in Processes, NEW x \in Cells, NEW ord,
           NEW i \in DOMAIN written[x], Read(p, x, i, ord)
    PROVE  /\ Frame({})
           /\ view[p][x] <= i /\ i <= Newest(x) /\ i \in Nat
           /\ i = Newest(x) => InOrder(p, x)'
           /\ "Acquire" \in ord /\ i = Newest(x) =>
                 \A y \in Cells : Carries(x, y) => InOrder(p, y)'
<1>1. /\ MemoryOK(Words)'
      /\ UNCHANGED written
      /\ \A q \in Processes \ {p} : view'[q] = view[q]
      /\ \A y \in Cells : view[p][y] <= view'[p][y]
      /\ i <= view'[p][x]
      /\ "Acquire" \in ord => \A y \in Cells : written[x][i].view[y] <= view'[p][y]
  BY Basics, ReadLearns DEF Processes
<1>2. \A q \in Processes, y \in Cells : view[q][y] <= view'[q][y]
  <2> TAKE q \in Processes, y \in Cells
  <2>1. view[q][y] \in Nat
    BY Basics
  <2> QED BY <1>1, <2>1
<1>3. Frame({})
  BY <1>1, <1>2, FrameOf
<1>4. \A y \in Cells : /\ Newest(y)' = Newest(y) /\ Newest(y) \in Nat
                       /\ view'[p][y] \in Nat /\ view'[p][y] <= Newest(y)
  <2> TAKE y \in Cells
  <2>1. Newest(y)' = Newest(y) /\ Newest(y) \in Nat
    BY <1>3, Basics DEF Frame
  <2>2. view'[p][y] \in Nat /\ view'[p][y] <= Newest(y)'
    BY <1>1 DEF MemoryOK, Processes
  <2> QED BY <2>1, <2>2
<1>5. view[p][x] <= i /\ i <= Newest(x) /\ i \in Nat
  <2>1. i \in view[p][x] .. Newest(x)
    BY DEF Read
  <2> QED BY <1>4, <2>1, Basics
<1>6. ASSUME i = Newest(x)
      PROVE  InOrder(p, x)'
  BY <1>1, <1>4, <1>6 DEF InOrder
<1>7. ASSUME "Acquire" \in ord, i = Newest(x), NEW y \in Cells, Carries(x, y)
      PROVE  InOrder(p, y)'
  <2>1. Newest(y) <= view'[p][y]
    BY <1>1, <1>7 DEF Carries
  <2> QED BY <1>4, <2>1 DEF InOrder
<1> QED BY <1>3, <1>5, <1>6, <1>7

LEMMA WriteFrame ==
    ASSUME IInv, NEW p \in Processes, NEW vals, NEW W, NEW ord, DOMAIN vals = W,
           W \subseteq Cells, \A x \in W : vals[x] \in Words, Write(p, vals, ord)
    PROVE  /\ Frame(W)
           /\ \A q \in Processes \ {p} : view'[q] = view[q]
           /\ \A y \in Cells : InOrder(p, y) => InOrder(p, y)'
           /\ \A x \in W :
                 /\ Newest(x)' = Newest(x) + 1
                 /\ ValueOf(x)' = vals[x]
                 /\ InOrder(p, x)'
                 /\ \A i \in DOMAIN written[x] : written'[x][i] = written[x][i]
                 /\ "Release" \in ord => \A y \in Cells : InOrder(p, y)' => Carries(x, y)'
<1>1. /\ MemoryOK(Words)'
      /\ \A q \in Processes \ {p} : view'[q] = view[q]
      /\ \A x \in Cells \ W : written'[x] = written[x] /\ view'[p][x] = view[p][x]
      /\ \A x \in W :
            /\ Newest(x)' = Newest(x) + 1
            /\ ValueOf(x)' = vals[x]
            /\ view'[p][x] = Newest(x)'
            /\ \A i \in DOMAIN written[x] : written'[x][i] = written[x][i]
            /\ "Release" \in ord =>
                  \A y \in Cells : written'[x][Newest(x)'].view[y] = view'[p][y]
  BY Basics, WriteAppends DEF Processes
<1>2. \A q \in Processes, y \in Cells \ W : view[q][y] <= view'[q][y]
  <2> TAKE q \in Processes, y \in Cells \ W
  <2>1. view[q][y] \in Nat /\ view'[q][y] = view[q][y]
    BY <1>1, Basics
  <2> QED BY <2>1
<1>3. Frame(W)
  BY <1>1, <1>2, FrameOf
<1>4. \A x \in W : InOrder(p, x)'
  BY <1>1 DEF InOrder
<1>5. \A y \in Cells : InOrder(p, y) => InOrder(p, y)'
  BY <1>3, <1>4 DEF Frame
<1>6. ASSUME NEW x \in W, "Release" \in ord, NEW y \in Cells, InOrder(p, y)'
      PROVE  Carries(x, y)'
  BY <1>1, <1>6 DEF InOrder, Carries
<1> QED BY <1>1, <1>3, <1>4, <1>5, <1>6

LEMMA ExchangeFrame ==
    ASSUME IInv, NEW p \in Processes, NEW x \in Cells, NEW v \in Words, NEW ord,
           Newest(x) > 0, Exchange(p, x, v, ord)
    PROVE  /\ Frame({x})
           /\ \A q \in Processes \ {p} : view'[q] = view[q]
           /\ \A y \in Cells : InOrder(p, y) => InOrder(p, y)'
           /\ Newest(x)' = Newest(x) + 1
           /\ ValueOf(x)' = v
           /\ InOrder(p, x)'
           /\ "Acquire" \in ord => \A y \in Cells \ {x} : Carries(x, y) => InOrder(p, y)'
           /\ "Release" \in ord => \A y \in Cells : InOrder(p, y)' => Carries(x, y)'
<1>1. /\ MemoryOK(Words)'
      /\ \A q \in Processes \ {p} : view'[q] = view[q]
      /\ \A y \in Cells \ {x} : written'[y] = written[y]
      /\ \A y \in Cells : view[p][y] <= view'[p][y]
      /\ Newest(x)' = Newest(x) + 1
      /\ ValueOf(x)' = v
      /\ view'[p][x] = Newest(x)'
      /\ "Acquire" \in ord =>
            \A y \in Cells : written[x][Newest(x)].view[y] <= view'[p][y]
      /\ "Release" \in ord =>
            \A y \in Cells : view'[p][y] <= written'[x][Newest(x)'].view[y]
  BY Basics, ExchangeAppends DEF Processes
<1>2. \A q \in Processes, y \in Cells \ {x} : view[q][y] <= view'[q][y]
  <2> TAKE q \in Processes, y \in Cells \ {x}
  <2>1. view[q][y] \in Nat
    BY Basics
  <2> QED BY <1>1, <2>1
<1>3. Frame({x})
  BY <1>1, <1>2, FrameOf
<1>4. InOrder(p, x)' /\ \A y \in Cells : InOrder(p, y) => InOrder(p, y)'
  BY <1>1, <1>3 DEF InOrder, Frame
<1>5. ASSUME "Acquire" \in ord, NEW y \in Cells \ {x}, Carries(x, y)
      PROVE  InOrder(p, y)'
  <2>1. Newest(y)' = Newest(y) /\ Newest(y) \in Nat
    BY <1>3, Basics DEF Frame
  <2>2. view'[p][y] \in Nat /\ view'[p][y] <= Newest(y)'
    BY <1>1 DEF MemoryOK, Processes
  <2>3. Newest(y) <= view'[p][y]
    BY <1>1, <1>5 DEF Carries
  <2> QED BY <2>1, <2>2, <2>3 DEF InOrder
<1>6. ASSUME "Release" \in ord, NEW y \in Cells, InOrder(p, y)'
      PROVE  Carries(x, y)'
  <2> DEFINE c == written'[x][Newest(x)'].view[y]
  <2>1. Newest(x)' \in 1 .. Newest(x)' /\ Newest(y)' \in Nat
    <3>1. Newest(x) \in Nat /\ \A z \in Cells \ {x} : Newest(z)' = Newest(z) /\ Newest(z) \in Nat
      BY <1>3, Basics DEF Frame
    <3> QED BY <1>1, <3>1
  <2>2. c \in Nat /\ c <= Newest(y)'
    <3>1. written'[x] \in Seq([val : Words, view : [Cells -> Nat]])
      BY <1>1 DEF MemoryOK
    <3>2. Newest(x)' \in DOMAIN written'[x]
      <4> DEFINE E == [val : Words, view : [Cells -> Nat]]
      <4> HIDE DEF E
      <4>1. written'[x] \in Seq(E)
        BY <3>1 DEF E
      <4>2. DOMAIN written'[x] = 1 .. Len(written'[x])
        BY <4>1
      <4>3. Newest(x)' = Len(written'[x])
        BY DEF Newest
      <4> QED BY <2>1, <4>2, <4>3
    <3>3. written'[x][Newest(x)'] \in [val : Words, view : [Cells -> Nat]]
      <4> DEFINE E == [val : Words, view : [Cells -> Nat]]
      <4> HIDE DEF E
      <4>1. written'[x] \in Seq(E)
        BY <3>1 DEF E
      <4>2. written'[x][Newest(x)'] \in E
        BY <3>2, <4>1
      <4> QED BY <4>2 DEF E
    <3>4. c \in Nat
      BY <3>3
    <3>5. c <= Newest(y)'
      BY <1>1, <3>2 DEF MemoryOK
    <3> QED BY <3>4, <3>5
  <2>3. Newest(y)' <= c
    BY <1>1, <1>6 DEF InOrder
  <2> HIDE DEF c
  <2>4. c = Newest(y)'
    BY <2>1, <2>2, <2>3
  <2> QED BY <2>4 DEF Carries, c
<1> QED BY <1>1, <1>3, <1>4, <1>5, <1>6

(* A queue that stays has the same neighbours.                             *)
LEMMA SameQueue ==
    ASSUME QueueOK, UNCHANGED queue
    PROVE  /\ QueueOK' /\ Size' = Size
           /\ \A t \in Threads : /\ Member(t)' <=> Member(t)
                                 /\ First(t)' <=> First(t)
                                 /\ Final(t)' <=> Final(t)
           /\ \A t, u \in Threads : Behind(t, u)' <=> Behind(t, u)
  BY DEF QueueOK, Size, Member, First, Final, Behind

--------------------------------------------------------------------------------
(* The steps that leave the queue and everybody's part in it as they are.  *)

SameRoles ==
    /\ UNCHANGED <<queue, pred>>
    /\ \A u \in Threads : /\ Holds(u)' <=> Holds(u)
                          /\ pc'[u] = "link" <=> pc[u] = "link"
                          /\ pc'[u] = "spin" <=> pc[u] = "spin"

LEMMA RolesKept ==
    ASSUME QueueOK, SameRoles
    PROVE  /\ QueueOK' /\ Size' = Size
           /\ \A t \in Threads : /\ Member(t)' <=> Member(t)
                                 /\ First(t)' <=> First(t)
                                 /\ Final(t)' <=> Final(t)
                                 /\ Waits(t)' <=> Waits(t)
                                 /\ Queued(t)' <=> Queued(t)
                                 /\ Unaware(t)' <=> Unaware(t)
           /\ \A t, u \in Threads : /\ Behind(t, u)' <=> Behind(t, u)
                                    /\ LinkTo(t, u)' <=> LinkTo(t, u)
<1>1. /\ QueueOK' /\ Size' = Size
      /\ \A t \in Threads : /\ Member(t)' <=> Member(t)
                            /\ First(t)' <=> First(t)
                            /\ Final(t)' <=> Final(t)
      /\ \A t, u \in Threads : Behind(t, u)' <=> Behind(t, u)
  BY SameQueue DEF SameRoles
<1>2. \A t \in Threads : /\ Waits(t)' <=> Waits(t)
                         /\ Queued(t)' <=> Queued(t)
                         /\ Unaware(t)' <=> Unaware(t)
  BY <1>1 DEF SameRoles, Waits, Queued, Unaware
<1>3. \A t, u \in Threads : LinkTo(t, u)' <=> LinkTo(t, u)
  BY <1>1 DEF SameRoles, LinkTo
<1> QED BY <1>1, <1>2, <1>3

(* t's node has just been reset.                                           *)
Reset(t) ==
    /\ OldNull(t) /\ ValueOf(NextOf(t)) = Null
    /\ OldRaised(t) /\ ValueOf(LockedOf(t)) = TRUE

(* What t knows of the two nodes before it gives the lock to u.            *)
Prepared(t, u) ==
    /\ InOrder(t, NextOf(t)) /\ InOrder(t, LinkMark(t))
    /\ InOrder(t, LockedOf(u)) /\ InOrder(t, GrantMark(u))

LEMMA QuietStep ==
    ASSUME IInv, NEW W, Frame(W), SameRoles,
           LocalsOK', Births', DataKnown', Values',
           TailOf \notin W, Newest(Data)' > 0,
           \A u \in Threads : LinkMark(u) \notin W /\ GrantMark(u) \notin W,
           \A u \in Threads : Member(u) => NextOf(u) \notin W /\ LockedOf(u) \notin W,
           \A u \in Threads : Fresh(u)' =>
               Reset(u)' \/ (Fresh(u) /\ NextOf(u) \notin W /\ LockedOf(u) \notin W),
           \A u \in Threads : \A x \in Node(u) : InOrder(u, x) => InOrder(u, x)',
           \A u \in Threads : pc'[u] = "relwait" => pc[u] = "relwait" \/ ~Final(u),
           \A u \in Threads : pc'[u] = "handoff" =>
               \/ pc[u] = "handoff" /\ succ'[u] = succ[u]
               \/ \E v \in Threads : succ'[u] = v /\ LinkTo(u, v) /\ Prepared(u, v)'
    PROVE  IInv'
<1>1. /\ Size' = Size
      /\ \A t \in Threads : /\ Member(t)' <=> Member(t)
                            /\ First(t)' <=> First(t)
                            /\ Final(t)' <=> Final(t)
                            /\ Waits(t)' <=> Waits(t)
                            /\ Holds(t)' <=> Holds(t)
                            /\ Queued(t)' <=> Queued(t)
                            /\ Unaware(t)' <=> Unaware(t)
                            /\ pc'[t] = "link" <=> pc[t] = "link"
      /\ \A t, u \in Threads : /\ Behind(t, u)' <=> Behind(t, u)
                               /\ LinkTo(t, u)' <=> LinkTo(t, u)
  BY Basics, RolesKept DEF SameRoles
<1>2. \A t, u \in Threads : /\ Behind(t, u) => Member(t) /\ Member(u)
                            /\ LinkTo(t, u) => Member(t) /\ Member(u)
                            /\ First(t) => Member(t)
                            /\ Final(t) => Member(t)
                            /\ Queued(t) => Member(t)
                            /\ Unaware(t) => Member(t)
  BY Basics, Neighbours DEF LinkTo, Unaware, IInv, QueueMembers
<1>3. \A u \in Threads : Member(u) =>
          \A x \in {NextOf(u), LockedOf(u), LinkMark(u), GrantMark(u), TailOf} :
             x \in Cells \ W
  BY WordsDiffer
<1>4. TypeOK'
  <2>1. Newest(TailOf)' = Newest(TailOf)
    BY WordsDiffer DEF Frame
  <2> QED BY <2>1 DEF Frame, IInv, TypeOK
<1>5. QueueMembers'
  <2>1. \A i, j \in 1 .. Size' : queue'[i] = queue'[j] => i = j
    BY <1>1 DEF SameRoles, IInv, QueueMembers
  <2>2. \A t \in Threads : pc'[t] = "link" =>
           \E p \in Threads : pred'[t] = p /\ Behind(p, t)'
    BY <1>1 DEF SameRoles, IInv, QueueMembers
  <2> QED BY <1>1, <2>1, <2>2 DEF SameRoles, IInv, QueueMembers
<1>6. TailIsLast'
  <2>1. ValueOf(TailOf)' = ValueOf(TailOf)
    BY WordsDiffer DEF Frame
  <2>2. \A t \in Threads : InOrder(t, TailOf) => InOrder(t, TailOf)'
    BY WordsDiffer, Basics DEF Frame
  <2> QED BY <1>1, <2>1, <2>2 DEF IInv, TailIsLast
<1>7. NextIsBehind'
  <2>1. \A t \in Threads : Member(t) => ValueOf(NextOf(t))' = ValueOf(NextOf(t))
    BY <1>3 DEF Frame
  <2> QED BY <1>1, <1>2, <2>1 DEF IInv, NextIsBehind
<1>8. ReleaserSees'
  BY <1>1 DEF IInv, ReleaserSees
<1>9. NextShown'
  <2> SUFFICES ASSUME NEW t \in Threads, Fresh(t)' \/ Queued(t)'
               PROVE  /\ OldNull(t)'
                      /\ Fresh(t)' => ValueOf(NextOf(t))' = Null
    BY DEF NextShown
  <2>1. CASE Reset(t)'
    BY <2>1 DEF Reset
  <2>2. CASE ~Reset(t)'
    <3>1. NextOf(t) \in Cells \ W /\ (Fresh(t) \/ Queued(t)) /\ (Fresh(t)' => Fresh(t))
      BY <1>1, <1>2, <1>3, <2>2, WordsDiffer DEF Queued, Holds, Waits, Fresh
    <3>2. OldNull(t) /\ (Fresh(t) => ValueOf(NextOf(t)) = Null)
      BY <3>1 DEF IInv, NextShown
    <3>3. ValueOf(NextOf(t))' = ValueOf(NextOf(t)) /\ OldNull(t)'
      BY <3>1, <3>2 DEF Frame
    <3> QED BY <3>1, <3>2, <3>3
  <2> QED BY <2>1, <2>2
<1>10. LockedShown'
  <2> SUFFICES ASSUME NEW t \in Threads, Fresh(t)' \/ Waits(t)'
               PROVE  /\ OldRaised(t)'
                      /\ ~Unaware(t)' => ValueOf(LockedOf(t))' = TRUE
    BY DEF LockedShown
  <2>1. CASE Reset(t)'
    BY <2>1 DEF Reset
  <2>2. CASE ~Reset(t)'
    <3>1. LockedOf(t) \in Cells \ W /\ (Fresh(t) \/ Waits(t))
      BY <1>1, <1>2, <1>3, <2>2, WordsDiffer DEF Queued
    <3>2. OldRaised(t) /\ (~Unaware(t) => ValueOf(LockedOf(t)) = TRUE)
      BY <3>1 DEF IInv, LockedShown
    <3>3. ValueOf(LockedOf(t))' = ValueOf(LockedOf(t)) /\ OldRaised(t)'
      BY <3>1, <3>2 DEF Frame
    <3> QED BY <1>1, <3>2, <3>3
  <2> QED BY <2>1, <2>2
<1>11. OwnKnown'
  <2> SUFFICES ASSUME NEW t \in Threads
               PROVE  /\ ~Unaware(t)' => InOrder(t, LockedOf(t))' /\ InOrder(t, GrantMark(t))'
                      /\ Unaware(t)'  => Carries(LockedOf(t), GrantMark(t))'
                      /\ \/ InOrder(t, NextOf(t))' /\ InOrder(t, LinkMark(t))'
                         \/ /\ Queued(t)' /\ pc'[t] # "handoff"
                            /\ ValueOf(NextOf(t))' # Null
                            /\ Carries(NextOf(t), LinkMark(t))'
    BY DEF OwnKnown
  <2>1. /\ ~Unaware(t) => InOrder(t, LockedOf(t)) /\ InOrder(t, GrantMark(t))
        /\ Unaware(t)  => Carries(LockedOf(t), GrantMark(t))
        /\ \/ InOrder(t, NextOf(t)) /\ InOrder(t, LinkMark(t))
           \/ /\ Queued(t) /\ pc[t] # "handoff"
              /\ ValueOf(NextOf(t)) # Null
              /\ Carries(NextOf(t), LinkMark(t))
    BY DEF IInv, OwnKnown
  <2>2. \A x \in {NextOf(t), LockedOf(t), LinkMark(t), GrantMark(t)} :
           InOrder(t, x) => InOrder(t, x)'
    BY WordsDiffer, Basics DEF Frame
  <2>3. ASSUME Queued(t)
        PROVE  /\ ValueOf(NextOf(t))' = ValueOf(NextOf(t))
               /\ Carries(NextOf(t), LinkMark(t)) => Carries(NextOf(t), LinkMark(t))'
               /\ Carries(LockedOf(t), GrantMark(t)) => Carries(LockedOf(t), GrantMark(t))'
    BY <1>2, <1>3, <2>3 DEF Frame
  <2>4. Unaware(t) => Queued(t)
    BY DEF Unaware, Queued, Waits
  <2>5. pc'[t] = "handoff" =>
           pc[t] = "handoff" \/ (InOrder(t, NextOf(t))' /\ InOrder(t, LinkMark(t))')
    BY DEF Prepared
  <2> QED BY <1>1, <2>1, <2>2, <2>3, <2>4, <2>5
<1>12. OthersKnown'
  <2>1. ASSUME NEW t \in Threads, Final(t)'
        PROVE  Carries(TailOf, NextOf(t))' /\ Carries(TailOf, LinkMark(t))'
    BY <1>1, <1>2, <1>3, <2>1 DEF IInv, OthersKnown, Frame
  <2>2. ASSUME NEW t \in Threads, NEW p \in Threads, pc'[t] = "link", Behind(p, t)'
        PROVE  InOrder(t, NextOf(p))' /\ InOrder(t, LinkMark(p))'
    BY <1>1, <1>2, <1>3, <2>2, Basics DEF IInv, OthersKnown, Frame
  <2>3. ASSUME NEW t \in Threads, NEW u \in Threads, LinkTo(t, u)'
        PROVE  Carries(NextOf(t), LockedOf(u))' /\ Carries(NextOf(t), GrantMark(u))'
    BY <1>1, <1>2, <1>3, <2>3 DEF IInv, OthersKnown, Frame
  <2>4. ASSUME NEW t \in Threads, NEW u \in Threads, pc'[t] = "handoff", LinkTo(t, u)'
        PROVE  InOrder(t, LockedOf(u))' /\ InOrder(t, GrantMark(u))'
    <3>1. CASE pc[t] = "handoff"
      BY <1>1, <1>2, <1>3, <2>4, <3>1, Basics DEF IInv, OthersKnown, Frame
    <3>2. CASE pc[t] # "handoff"
      <4>1. PICK v \in Threads : LinkTo(t, v) /\ Prepared(t, v)'
        BY <2>4, <3>2
      <4>2. u = v
        BY <1>1, <2>4, <4>1, Basics, Neighbours DEF LinkTo
      <4> QED BY <4>1, <4>2 DEF Prepared
    <3> QED BY <3>1, <3>2
  <2> QED BY <2>1, <2>2, <2>3, <2>4 DEF OthersKnown
<1> QED BY <1>4, <1>5, <1>6, <1>7, <1>8, <1>9, <1>10, <1>11, <1>12 DEF IInv

(* What is known of the value stays known if it is not written,            *)
LEMMA QuietData ==
    ASSUME IInv, NEW W, Frame(W), SameRoles, TailOf \notin W, Data \notin W,
           \A u \in Threads : Member(u) => LockedOf(u) \notin W,
           Alone' <=> Alone, Alone => W = {},
           \A u \in Threads : pc'[u] = "joined" => pc[u] = "joined"
    PROVE  DataKnown'
<1>1. /\ Size' = Size
      /\ \A t \in Threads : Holds(t)' <=> Holds(t)
      /\ \A t \in Threads : Unaware(t)' <=> Unaware(t)
      /\ \A t \in Threads : Unaware(t) => LockedOf(t) \in Cells \ W
  BY Basics, RolesKept, Neighbours, WordsDiffer DEF SameRoles, Unaware
<1>2. Data \in Cells \ W /\ TailOf \in Cells \ W /\ Main \in Processes
  BY WordsDiffer, Basics
<1>3. \A q \in Processes : InOrder(q, Data) => InOrder(q, Data)'
  BY <1>2 DEF Frame
<1>4. \A x \in Cells \ W : Carries(x, Data) => Carries(x, Data)'
  BY <1>2 DEF Frame
<1>5. Alone' => \A x \in Cells : InOrder(Main, x)'
  BY <1>2 DEF Frame, IInv, DataKnown
<1>6. \A t \in Threads : Holds(t)' => InOrder(t, Data)'
  BY <1>1, <1>3, Basics DEF IInv, DataKnown
<1>7. \A t \in Threads : Unaware(t)' => Carries(LockedOf(t), Data)'
  BY <1>1, <1>4 DEF IInv, DataKnown
<1>8. Size' = 0 /\ ~Alone' => \A t \in Threads : InOrder(t, Data)' \/ Carries(TailOf, Data)'
  BY <1>1, <1>2, <1>3, <1>4, Basics DEF IInv, DataKnown
<1>9. ~Alone' => \/ InOrder(Main, Data)'
                 \/ \E t \in Threads : pc'[t] # "joined" /\ InOrder(t, Data)'
  BY <1>2, <1>3, Basics DEF IInv, DataKnown
<1> QED BY <1>5, <1>6, <1>7, <1>8, <1>9 DEF DataKnown

(* and so does what is known of its count.                                 *)
LEMMA QuietValues ==
    ASSUME IInv, NEW W, Frame(W), Data \notin W, taken' = taken,
           pc'[Main] = "owner" <=> pc[Main] = "owner",
           \A u \in Threads : Reading(u)' <=> Reading(u),
           \A u \in Threads : pc'[u] = "derefmut" =>
               pc[u] = "derefmut" /\ seen'[u] = seen[u]
    PROVE  Values'
<1>1. ValueOf(Data)' = ValueOf(Data)
  BY WordsDiffer DEF Frame
<1> QED BY <1>1 DEF IInv, Values

(* A step of t's takes t from one label to another.                        *)
LEMMA Moves ==
    ASSUME IInv, NEW t \in Threads, NEW l \in Labels \ {"unborn"},
           pc[t] \notin {"unborn", "joined"}, Goto(t, l)
    PROVE  /\ pc' \in [Processes -> Labels]
           /\ pc'[t] = l
           /\ \A p \in Processes \ {t} : pc'[p] = pc[p]
           /\ \A u \in Threads \ {t} : pc'[u] = pc[u]
           /\ pc'[Main] = pc[Main] /\ pc[Main] \notin {"owner", "scope", "consumed"}
           /\ ~Alone /\ ~Alone'
           /\ Births'
<1>1. pc \in [Processes -> Labels] /\ t \in Processes /\ t # Main
  BY Basics DEF IInv, TypeOK, LocalsOK
<1>2. /\ pc' \in [Processes -> Labels] /\ pc'[t] = l
      /\ \A p \in Processes \ {t} : pc'[p] = pc[p]
  BY <1>1 DEF Goto
<1>3. pc'[Main] = pc[Main] /\ \A u \in Threads \ {t} : pc'[u] = pc[u]
  BY <1>1, <1>2, Basics
<1>4. ~Alone /\ pc[Main] # "consumed"
  BY DEF IInv, Births, AllJoined
<1>5. ~Alone'
  BY <1>3, <1>4 DEF Alone
<1>6. Births'
  BY <1>2, <1>3, <1>4, <1>5 DEF IInv, Births
<1> QED BY <1>2, <1>3, <1>4, <1>5, <1>6 DEF Alone

--------------------------------------------------------------------------------
(* The steps of a thread outside the lock.                                 *)

LEMMA BeginStep ==
    ASSUME IInv, NEW t \in Threads, NEW l \in {"swap", "trycas"}, Begin(t, l)
    PROVE  IInv'
<1> DEFINE vals == [x \in Node(t) |-> IF x = LockedOf(t) THEN TRUE ELSE Null]
           W == Node(t)
<1>1. /\ pc[t] = "idle" /\ todo[t] > 0 /\ todo' = [todo EXCEPT ![t] = @ - 1]
      /\ Write(t, vals, ResetOrder) /\ Goto(t, l)
      /\ UNCHANGED <<pred, succ, seen, queue, taken>>
  BY DEF Begin
<1>2. /\ pc' \in [Processes -> Labels] /\ pc'[t] = l
      /\ \A u \in Threads \ {t} : pc'[u] = pc[u]
      /\ pc'[Main] = pc[Main] /\ pc[Main] \notin {"owner", "scope", "consumed"}
      /\ ~Alone /\ ~Alone' /\ Births'
  BY <1>1, Moves DEF Labels
<1>3. /\ W \subseteq Cells /\ NextOf(t) \in W /\ LockedOf(t) \in W
      /\ vals[NextOf(t)] = Null /\ vals[LockedOf(t)] = TRUE
      /\ \A x \in W : vals[x] \in Words
      /\ TailOf \notin W /\ Data \notin W
      /\ \A u \in Threads : LinkMark(u) \notin W /\ GrantMark(u) \notin W
      /\ \A u \in Threads \ {t} : NextOf(u) \notin W /\ LockedOf(u) \notin W
  BY WordsDiffer, Basics
<1>4. /\ Frame(W)
      /\ \A y \in Cells : InOrder(t, y) => InOrder(t, y)'
      /\ \A x \in W : Newest(x)' = Newest(x) + 1 /\ ValueOf(x)' = vals[x] /\ InOrder(t, x)'
  <2>1. DOMAIN vals = W /\ t \in Processes
    BY Basics
  <2> HIDE DEF vals, W
  <2> QED BY <1>1, <1>3, <2>1, WriteFrame
<1> HIDE DEF vals, W
<1>5. Reset(t)'
  <2>1. \A x \in W : Newest(x) \in Nat /\ Newest(x)' = Newest(x) + 1 /\ view'[t][x] = Newest(x)'
    BY <1>3, <1>4, Basics DEF InOrder
  <2>2. \A x \in W : view'[t][x] > 0 /\ view'[t][x] .. Newest(x)' - 1 = {}
    BY <2>1
  <2>3. OldNull(t)' /\ OldRaised(t)'
    BY <1>3, <2>2 DEF OldNull, OldRaised
  <2>4. ValueOf(NextOf(t))' = Null /\ ValueOf(LockedOf(t))' = TRUE
    BY <1>3, <1>4
  <2> QED BY <2>3, <2>4 DEF Reset
<1>6. ~Member(t)
  BY <1>1 DEF IInv, QueueMembers, Queued, Holds, Waits
<1>7. SameRoles
  BY <1>1, <1>2 DEF SameRoles, Holds
<1>8. LocalsOK'
  <2>1. todo' \in [Threads -> Nat]
    BY <1>1 DEF IInv, TypeOK, LocalsOK
  <2> QED BY <1>1, <1>2, <2>1 DEF IInv, TypeOK, LocalsOK
<1>9. DataKnown'
  <2>1. \A u \in Threads : pc'[u] = "joined" => pc[u] = "joined"
    BY <1>2
  <2> QED BY <1>2, <1>3, <1>4, <1>6, <1>7, <2>1, QuietData
<1>10. Values'
  BY <1>1, <1>2, <1>3, <1>4, QuietValues DEF Reading
<1>11. Newest(Data)' > 0
  BY <1>3, <1>4, WordsDiffer DEF Frame, IInv, TypeOK
<1>12. \A u \in Threads : Fresh(u)' =>
          Reset(u)' \/ (Fresh(u) /\ NextOf(u) \notin W /\ LockedOf(u) \notin W)
  BY <1>2, <1>3, <1>5 DEF Fresh
<1>13. \A u \in Threads : \A x \in Node(u) : InOrder(u, x) => InOrder(u, x)'
  BY <1>3, <1>4, WordsDiffer, Basics DEF Frame
<1> QED BY <1>1, <1>2, <1>3, <1>4, <1>6, <1>7, <1>8, <1>9, <1>10, <1>11, <1>12, <1>13, QuietStep

--------------------------------------------------------------------------------
(* The steps that write nothing and leave the queue and their thread's     *)
(* part in it: try_lock's failure, the loads of the critical section and   *)
(* of the release, the end of a thread.                                    *)

LEMMA SilentStep ==
    ASSUME IInv, NEW t \in Threads,
           NEW l \in {"idle", "derefmut", "relcas", "relwait", "handoff", "ended"},
           pc[t] \in {"trycas", "guard", "relload", "relcas", "relwait", "idle"},
           Goto(t, l), Frame({}),
           UNCHANGED <<pred, todo, queue, taken>>,
           succ' \in [Threads -> Words], seen' \in [Threads -> Words],
           \A u \in Threads \ {t} : succ'[u] = succ[u] /\ seen'[u] = seen[u],
           Holds(t)' <=> Holds(t), Reading(t)' <=> Reading(t),
           l = "derefmut" => seen'[t] = ValueOf(Data),
           l = "relwait" => ~Final(t),
           l = "handoff" =>
               \E v \in Threads : succ'[t] = v /\ LinkTo(t, v) /\ Prepared(t, v)'
    PROVE  IInv'
<1>1. /\ pc' \in [Processes -> Labels] /\ pc'[t] = l
      /\ \A u \in Threads \ {t} : pc'[u] = pc[u]
      /\ pc'[Main] = pc[Main] /\ pc[Main] \notin {"owner", "scope", "consumed"}
      /\ ~Alone /\ ~Alone' /\ Births'
  BY Moves DEF Labels
<1>2. SameRoles
  <2>1. ASSUME NEW u \in Threads
        PROVE  /\ Holds(u)' <=> Holds(u)
               /\ pc'[u] = "link" <=> pc[u] = "link"
               /\ pc'[u] = "spin" <=> pc[u] = "spin"
    <3>1. CASE u = t
      BY <1>1, <3>1
    <3>2. CASE u # t
      BY <1>1, <3>2 DEF Holds
    <3> QED BY <3>1, <3>2
  <2> QED BY <2>1 DEF SameRoles
<1>3. LocalsOK'
  BY <1>1 DEF IInv, TypeOK, LocalsOK
<1>4. DataKnown'
  <2>1. \A u \in Threads : pc'[u] = "joined" => pc[u] = "joined"
    BY <1>1
  <2> QED BY <1>1, <1>2, <2>1, QuietData
<1>5. Newest(Data)' = Newest(Data) /\ ValueOf(Data)' = ValueOf(Data)
  BY WordsDiffer DEF Frame
<1>6. Values'
  <2>1. \A u \in Threads : Reading(u)' <=> Reading(u)
    BY <1>1 DEF Reading
  <2>2. ASSUME NEW u \in Threads, pc'[u] = "derefmut"
        PROVE  seen'[u] = taken
    <3>1. CASE u = t
      <4>1. Reading(t)
        BY <2>1, <2>2, <3>1 DEF Reading
      <4> QED BY <1>1, <2>2, <3>1, <4>1 DEF IInv, Values
    <3>2. CASE u # t
      BY <1>1, <2>2, <3>2 DEF IInv, Values
    <3> QED BY <3>1, <3>2
  <2> QED BY <1>1, <1>5, <2>1, <2>2 DEF IInv, Values
<1>7. \A u \in Threads : Fresh(u)' => Fresh(u)
  BY <1>1 DEF Fresh
<1>8. \A u \in Threads : \A x \in Node(u) : InOrder(u, x) => InOrder(u, x)'
  BY WordsDiffer, Basics DEF Frame
<1>9. \A u \in Threads : pc'[u] = "relwait" => pc[u] = "relwait" \/ ~Final(u)
  BY <1>1
<1>10. \A u \in Threads : pc'[u] = "handoff" =>
          \/ pc[u] = "handoff" /\ succ'[u] = succ[u]
          \/ \E v \in Threads : succ'[u] = v /\ LinkTo(u, v) /\ Prepared(u, v)'
  BY <1>1
<1>11. Newest(Data)' > 0
  BY <1>5 DEF IInv, TypeOK
<1> QED BY <1>1, <1>2, <1>3, <1>4, <1>6, <1>7, <1>8, <1>9, <1>10, <1>11, QuietStep

LEMMA TryCasFails ==
    ASSUME IInv, NEW t \in Threads, NEW i \in DOMAIN written[TailOf], pc[t] = "trycas",
           Read(t, TailOf, i, TryFailOrder), Goto(t, "idle"),
           UNCHANGED <<pred, succ, seen, todo, queue, taken>>
    PROVE  IInv'
<1>1. Frame({})
  BY ReadFrame, WordsDiffer, Basics
<1>2. pc'[t] = "idle"
  BY Moves DEF Labels
<1> QED BY <1>1, <1>2, SilentStep DEF IInv, TypeOK, LocalsOK, Holds, Reading

LEMMA ReadDataStep ==
    ASSUME IInv, NEW t \in Threads, ReadData(t)
    PROVE  IInv'
<1>1. PICK i \in DOMAIN written[Data] :
          Read(t, Data, i, Relaxed) /\ seen' = [seen EXCEPT ![t] = written[Data][i].val]
  BY DEF ReadData
<1>2. pc[t] = "guard" /\ Goto(t, "derefmut") /\ UNCHANGED <<pred, succ, todo, queue, taken>>
  BY DEF ReadData
<1>3. /\ Frame({}) /\ view[t][Data] <= i /\ i <= Newest(Data) /\ i \in Nat
  BY <1>1, ReadFrame, WordsDiffer, Basics
<1>4. i = Newest(Data)
  <2>1. view[t][Data] = Newest(Data) /\ Newest(Data) \in Nat
    BY <1>2, WordsDiffer, Basics DEF IInv, DataKnown, Holds, InOrder
  <2> QED BY <1>3, <2>1
<1>5. written[Data][i].val = ValueOf(Data)
  BY <1>4 DEF ValueOf
<1>6. written[Data][i].val \in Words
  <2>1. i \in 1 .. Newest(Data)
    BY WordsDiffer, Basics, Entries DEF Processes
  <2> QED BY <2>1, WordsDiffer, Basics, Entries DEF Processes
<1>7. /\ seen' \in [Threads -> Words] /\ seen'[t] = ValueOf(Data)
      /\ \A u \in Threads \ {t} : seen'[u] = seen[u]
  <2>1. seen \in [Threads -> Words]
    BY DEF IInv, TypeOK, LocalsOK
  <2> QED BY <1>1, <1>5, <1>6, <2>1
<1>8. pc'[t] = "derefmut"
  BY <1>2, Moves DEF Labels
<1>9. succ' \in [Threads -> Words] /\ \A u \in Threads \ {t} : succ'[u] = succ[u]
  BY <1>2 DEF IInv, TypeOK, LocalsOK
<1>10. (Holds(t)' <=> Holds(t)) /\ (Reading(t)' <=> Reading(t))
  BY <1>2, <1>8 DEF Holds, Reading
<1> QED BY <1>2, <1>3, <1>7, <1>9, <1>10, SilentStep

(* Whoever is shown a successor of t's knows both nodes.                   *)
LEMMA NextLoaded ==
    ASSUME IInv, NEW t \in Threads, Holds(t), pc[t] # "handoff",
           NEW i \in DOMAIN written[NextOf(t)], LoadNext(t, i)
    PROVE  /\ Frame({})
           /\ succ' \in [Threads -> Words] /\ succ'[t] = written[NextOf(t)][i].val
           /\ \A u \in Threads \ {t} : succ'[u] = succ[u]
           /\ succ'[t] # Null =>
                 \E v \in Threads : succ'[t] = v /\ LinkTo(t, v) /\ Prepared(t, v)'
<1> DEFINE x == NextOf(t)
           val == written[x][i].val
<1>1. Read(t, x, i, NextOrder) /\ succ' = [succ EXCEPT ![t] = val]
  BY DEF LoadNext
<1>2. x \in Cells /\ t \in Processes
  BY WordsDiffer, Basics
<1>3. i \in 1 .. Newest(x) /\ val \in Words
  BY <1>2, Basics, Entries DEF Processes
<1> HIDE DEF x, val
<1>4. /\ succ' \in [Threads -> Words] /\ succ'[t] = val
      /\ \A u \in Threads \ {t} : succ'[u] = succ[u]
  BY <1>1, <1>3 DEF IInv, TypeOK, LocalsOK
<1>5. /\ Frame({})
      /\ view[t][x] <= i /\ i <= Newest(x) /\ i \in Nat
      /\ i = Newest(x) => InOrder(t, x)'
      /\ i = Newest(x) => \A y \in Cells : Carries(x, y) => InOrder(t, y)'
  <2>1. i \in DOMAIN written[x]
    BY DEF x
  <2> QED BY <1>1, <1>2, <2>1, ReadFrame DEF NextOrder, Acquire
<1>6. ASSUME val # Null
      PROVE  \E v \in Threads : val = v /\ LinkTo(t, v) /\ Prepared(t, v)'
  <2>1. i = Newest(x)
    <3>1. OldNull(t)
      BY DEF IInv, NextShown, Queued
    <3>2. i \notin view[t][x] .. Newest(x) - 1
      BY <1>6, <3>1 DEF OldNull, x, val
    <3>3. view[t][x] \in Nat /\ Newest(x) \in Nat
      BY <1>2, Basics
    <3> QED BY <1>5, <3>2, <3>3
  <2>2. val = ValueOf(x)
    BY <2>1 DEF val, ValueOf
  <2>3. Member(t)
    BY DEF IInv, QueueMembers, Queued
  <2>4. PICK v \in Threads : LinkTo(t, v)
    BY <1>6, <2>2, <2>3 DEF IInv, NextIsBehind, x
  <2>5. val = v
    BY <2>2, <2>4 DEF IInv, NextIsBehind, x
  <2>6. InOrder(t, x)' /\ \A y \in Cells : Carries(x, y) => InOrder(t, y)'
    BY <1>5, <2>1
  <2>7. InOrder(t, LockedOf(v))' /\ InOrder(t, GrantMark(v))'
    <3>1. Carries(x, LockedOf(v)) /\ Carries(x, GrantMark(v))
      BY <2>4 DEF IInv, OthersKnown, x
    <3> QED BY <2>6, <3>1, WordsDiffer
  <2>8. InOrder(t, LinkMark(t))'
    <3>1. InOrder(t, LinkMark(t)) \/ Carries(x, LinkMark(t))
      BY DEF IInv, OwnKnown, x
    <3>2. LinkMark(t) \in Cells
      BY WordsDiffer
    <3>3. InOrder(t, LinkMark(t)) => InOrder(t, LinkMark(t))'
      BY <1>2, <1>5, <3>2 DEF Frame
    <3> QED BY <2>6, <3>1, <3>2, <3>3
  <2> QED BY <2>4, <2>5, <2>6, <2>7, <2>8 DEF Prepared, x
<1> QED BY <1>4, <1>5, <1>6 DEF x, val

LEMMA RelLoadStep ==
    ASSUME IInv, NEW t \in Threads, RelLoad(t)
    PROVE  IInv'
<1>1. pc[t] = "relload" /\ Holds(t) /\ UNCHANGED <<pred, seen, todo, queue, taken>>
  BY DEF RelLoad, Holds
<1>2. PICK i \in DOMAIN written[NextOf(t)] :
          /\ LoadNext(t, i)
          /\ Goto(t, IF written[NextOf(t)][i].val = Null THEN "relcas" ELSE "handoff")
  BY DEF RelLoad
<1>3. /\ Frame({})
      /\ succ' \in [Threads -> Words] /\ succ'[t] = written[NextOf(t)][i].val
      /\ \A u \in Threads \ {t} : succ'[u] = succ[u]
      /\ succ'[t] # Null =>
            \E v \in Threads : succ'[t] = v /\ LinkTo(t, v) /\ Prepared(t, v)'
  BY <1>1, <1>2, NextLoaded
<1>4. seen' \in [Threads -> Words] /\ \A u \in Threads : seen'[u] = seen[u]
  BY <1>1 DEF IInv, TypeOK, LocalsOK
<1>5. PICK l \in {"relcas", "handoff"} :
          Goto(t, l) /\ (l = "handoff" => succ'[t] # Null)
  BY <1>2, <1>3
<1>6. (Holds(t)' <=> Holds(t)) /\ (Reading(t)' <=> Reading(t))
  <2>1. pc'[t] = l
    BY <1>1, <1>5, Moves DEF Labels
  <2> QED BY <1>1, <1>5, <2>1 DEF Holds, Reading
<1> QED BY <1>1, <1>3, <1>4, <1>5, <1>6, SilentStep

LEMMA RelWaitStep ==
    ASSUME IInv, NEW t \in Threads, RelWait(t)
    PROVE  IInv'
<1>1. /\ pc[t] = "relwait" /\ Holds(t) /\ UNCHANGED <<pred, seen, todo, queue, taken>>
      /\ Goto(t, "handoff")
  BY DEF RelWait, Holds
<1>2. PICK i \in DOMAIN written[NextOf(t)] :
          LoadNext(t, i) /\ written[NextOf(t)][i].val # Null
  BY DEF RelWait
<1>3. /\ Frame({})
      /\ succ' \in [Threads -> Words]
      /\ \A u \in Threads \ {t} : succ'[u] = succ[u]
      /\ \E v \in Threads : succ'[t] = v /\ LinkTo(t, v) /\ Prepared(t, v)'
  BY <1>1, <1>2, NextLoaded
<1>4. seen' \in [Threads -> Words] /\ \A u \in Threads : seen'[u] = seen[u]
  BY <1>1 DEF IInv, TypeOK, LocalsOK
<1>5. (Holds(t)' <=> Holds(t)) /\ (Reading(t)' <=> Reading(t))
  <2>1. pc'[t] = "handoff"
    BY <1>1, Moves DEF Labels
  <2> QED BY <1>1, <2>1 DEF Holds, Reading
<1> QED BY <1>1, <1>3, <1>4, <1>5, SilentStep

(* A compare_exchange on the tail that fails has somebody behind its node. *)
LEMMA RelCasFails ==
    ASSUME IInv, NEW t \in Threads, NEW i \in DOMAIN written[TailOf], pc[t] = "relcas",
           written[TailOf][i].val # t,
           Read(t, TailOf, i, EmptyFailOrder), Goto(t, "relwait"),
           UNCHANGED <<pred, succ, seen, todo, queue, taken>>
    PROVE  IInv'
<1>1. Frame({}) /\ view[t][TailOf] <= i /\ i <= Newest(TailOf) /\ i \in Nat
  BY ReadFrame, WordsDiffer, Basics
<1>2. ~Final(t)
  <2> SUFFICES ASSUME Final(t) PROVE FALSE
    OBVIOUS
  <2>1. ValueOf(TailOf) = t /\ view[t][TailOf] = Newest(TailOf)
    BY DEF IInv, TailIsLast, InOrder
  <2>2. Newest(TailOf) \in Nat
    BY WordsDiffer, Basics
  <2>3. i = Newest(TailOf)
    BY <1>1, <2>1, <2>2
  <2> QED BY <2>1, <2>3 DEF ValueOf
<1>3. pc'[t] = "relwait"
  BY Moves DEF Labels
<1> QED BY <1>1, <1>2, <1>3, SilentStep DEF IInv, TypeOK, LocalsOK, Holds, Reading

LEMMA PoolDropStep ==
    ASSUME IInv, NEW t \in Threads, PoolDrop(t)
    PROVE  IInv'
<1>1. /\ pc[t] = "idle" /\ Goto(t, "ended") /\ Frame({})
      /\ UNCHANGED <<pred, succ, seen, todo, queue, taken>>
  BY SameMemory DEF PoolDrop
<1>2. pc'[t] = "ended"
  BY <1>1, Moves DEF Labels
<1> QED BY <1>1, <1>2, SilentStep DEF IInv, TypeOK, LocalsOK, Holds, Reading

LEMMA WriteDataStep ==
    ASSUME IInv, NEW t \in Threads, WriteData(t)
    PROVE  IInv'
<1> DEFINE vals == [x \in {Data} |-> seen[t] + 1]
<1>1. /\ pc[t] = "derefmut" /\ Write(t, vals, Relaxed) /\ Goto(t, "relload")
      /\ UNCHANGED <<pred, succ, seen, todo, queue, taken>>
  BY DEF WriteData
<1>2. /\ pc' \in [Processes -> Labels] /\ pc'[t] = "relload"
      /\ \A u \in Threads \ {t} : pc'[u] = pc[u]
      /\ pc'[Main] = pc[Main] /\ pc[Main] \notin {"owner", "scope", "consumed"}
      /\ ~Alone /\ ~Alone' /\ Births'
  BY <1>1, Moves DEF Labels
<1>3. seen[t] = taken /\ taken \in Nat
  BY <1>1 DEF IInv, TypeOK, LocalsOK, Values
<1>4. /\ Frame({Data})
      /\ Newest(Data)' = Newest(Data) + 1
      /\ ValueOf(Data)' = taken + 1
      /\ InOrder(t, Data)'
      /\ \A y \in Cells : InOrder(t, y) => InOrder(t, y)'
  <2>1. /\ DOMAIN vals = {Data} /\ {Data} \subseteq Cells /\ t \in Processes
        /\ \A x \in {Data} : vals[x] \in Words
    BY <1>3, WordsDiffer, Basics
  <2>2. vals[Data] = taken + 1
    BY <1>3
  <2> HIDE DEF vals
  <2> QED BY <1>1, <2>1, <2>2, WriteFrame
<1>5. /\ \A x \in Cells : x # Data => x \in Cells \ {Data}
      /\ TailOf \notin {Data}
      /\ \A u \in Threads : NextOf(u) \notin {Data} /\ LockedOf(u) \notin {Data}
      /\ \A u \in Threads : LinkMark(u) \notin {Data} /\ GrantMark(u) \notin {Data}
  BY WordsDiffer
<1>6. SameRoles
  <2>1. ASSUME NEW u \in Threads
        PROVE  /\ Holds(u)' <=> Holds(u)
               /\ pc'[u] = "link" <=> pc[u] = "link"
               /\ pc'[u] = "spin" <=> pc[u] = "spin"
    <3>1. CASE u = t
      BY <1>1, <1>2, <3>1 DEF Holds
    <3>2. CASE u # t
      BY <1>2, <3>2 DEF Holds
    <3> QED BY <3>1, <3>2
  <2> QED BY <1>1, <2>1 DEF SameRoles
<1>7. LocalsOK'
  BY <1>1, <1>2 DEF IInv, TypeOK, LocalsOK
<1>8. Holds(t) /\ Member(t) /\ First(t)
  BY <1>1 DEF Holds, Queued, IInv, QueueMembers
<1>9. \A u \in Threads \ {t} : ~Holds(u) /\ ~First(u)
  BY <1>8, Basics, Neighbours DEF IInv, QueueMembers
<1>10. DataKnown'
  <2>1. /\ Size' = Size /\ Size # 0
        /\ \A u \in Threads : Unaware(u)' <=> Unaware(u)
    BY <1>6, <1>8, Basics, RolesKept, Neighbours
  <2>2. \A u \in Threads : Holds(u)' => InOrder(u, Data)'
    BY <1>4, <1>6, <1>9 DEF SameRoles
  <2>3. \A u \in Threads : ~Unaware(u)'
    BY <1>1, <1>9, <2>1 DEF Unaware
  <2>4. pc'[t] # "joined" /\ InOrder(t, Data)'
    BY <1>2, <1>4
  <2> QED BY <1>2, <2>1, <2>2, <2>3, <2>4 DEF DataKnown
<1>11. Values'
  <2>1. ~Reading(t)' /\ \A u \in Threads \ {t} : ~Reading(u)' /\ pc'[u] # "derefmut"
    BY <1>2, <1>9 DEF Reading, Holds
  <2>2. pc'[Main] # "owner" /\ pc'[t] # "derefmut"
    BY <1>2
  <2>3. ValueOf(Data)' = 1 + taken'
    BY <1>1, <1>3, <1>4
  <2> QED BY <2>1, <2>2, <2>3 DEF Values
<1>12. \A u \in Threads : Fresh(u)' => Fresh(u)
  BY <1>2 DEF Fresh
<1>13. \A u \in Threads : \A x \in Node(u) : InOrder(u, x) => InOrder(u, x)'
  BY <1>4, <1>5, WordsDiffer, Basics DEF Frame
<1>14. Newest(Data)' > 0
  BY <1>4, WordsDiffer, Basics
<1>15. \A u \in Threads : /\ pc'[u] = "relwait" => pc[u] = "relwait"
                          /\ pc'[u] = "handoff" => pc[u] = "handoff" /\ succ'[u] = succ[u]
  BY <1>1, <1>2
<1> QED BY <1>2, <1>4, <1>5, <1>6, <1>7, <1>10, <1>11, <1>12, <1>13, <1>14, <1>15, QuietStep

(* Main learns what the thread it joins knew, of the value above all.      *)
LEMMA JoinOneStep ==
    ASSUME IInv, NEW t \in Threads, JoinOne(t)
    PROVE  IInv'
<1>1. /\ pc[Main] = "join" /\ pc[t] = "ended"
      /\ JoinThread(Main, t) /\ Goto(t, "joined")
      /\ UNCHANGED <<pred, succ, seen, todo, queue, taken>>
  BY DEF JoinOne
<1>2. /\ pc' \in [Processes -> Labels] /\ pc'[t] = "joined"
      /\ \A u \in Threads \ {t} : pc'[u] = pc[u]
      /\ pc'[Main] = pc[Main] /\ pc[Main] \notin {"owner", "scope", "consumed"}
      /\ ~Alone /\ ~Alone' /\ Births'
  BY <1>1, Moves DEF Labels
<1>3. /\ MemoryOK(Words)' /\ UNCHANGED written
      /\ \A r \in Processes \ {Main} : view'[r] = view[r]
      /\ \A x \in Cells : view[Main][x] <= view'[Main][x] /\ view[t][x] <= view'[Main][x]
  BY <1>1, Basics, JoinHandsOver DEF Processes
<1>4. Frame({})
  <2>1. \A q \in Processes, x \in Cells : view[q][x] <= view'[q][x]
    <3> TAKE q \in Processes, x \in Cells
    <3>1. view[q][x] \in Nat
      BY Basics
    <3> QED BY <1>3, <3>1
  <2> QED BY <1>3, <2>1, FrameOf
<1>5. InOrder(t, Data) => InOrder(Main, Data)'
  <2>1. /\ view[t][Data] <= view'[Main][Data] /\ view[t][Data] \in Nat
        /\ Newest(Data)' = Newest(Data)
    BY <1>3, <1>4, WordsDiffer, Basics DEF Frame
  <2>2. view'[Main][Data] \in Nat /\ view'[Main][Data] <= Newest(Data)'
    BY <1>3, WordsDiffer, Basics DEF MemoryOK, Processes
  <2> QED BY <2>1, <2>2 DEF InOrder
<1>6. SameRoles
  <2>1. ASSUME NEW u \in Threads
        PROVE  /\ Holds(u)' <=> Holds(u)
               /\ pc'[u] = "link" <=> pc[u] = "link"
               /\ pc'[u] = "spin" <=> pc[u] = "spin"
    <3>1. CASE u = t
      BY <1>1, <1>2, <3>1 DEF Holds
    <3>2. CASE u # t
      BY <1>2, <3>2 DEF Holds
    <3> QED BY <3>1, <3>2
  <2> QED BY <1>1, <2>1 DEF SameRoles
<1>7. LocalsOK'
  BY <1>1, <1>2 DEF IInv, TypeOK, LocalsOK
<1>8. Newest(Data)' = Newest(Data) /\ ValueOf(Data)' = ValueOf(Data)
  BY <1>4, WordsDiffer DEF Frame
<1>9. DataKnown'
  <2>1. /\ Size' = Size
        /\ \A u \in Threads : Unaware(u)' <=> Unaware(u)
    BY <1>6, Basics, RolesKept
  <2>2. \A q \in Processes : InOrder(q, Data) => InOrder(q, Data)'
    BY <1>4, WordsDiffer DEF Frame
  <2>3. \A x \in Cells : Carries(x, Data) => Carries(x, Data)'
    BY <1>4, WordsDiffer DEF Frame
  <2>4. \A u \in Threads : Holds(u)' => InOrder(u, Data)'
    BY <1>6, <2>2, Basics DEF SameRoles, IInv, DataKnown
  <2>5. \A u \in Threads : Unaware(u)' => Carries(LockedOf(u), Data)'
    BY <2>1, <2>3, WordsDiffer DEF IInv, DataKnown
  <2>6. Size' = 0 => \A u \in Threads : InOrder(u, Data)' \/ Carries(TailOf, Data)'
    BY <1>2, <2>1, <2>2, <2>3, WordsDiffer, Basics DEF IInv, DataKnown
  <2>7. \/ InOrder(Main, Data)'
        \/ \E u \in Threads : pc'[u] # "joined" /\ InOrder(u, Data)'
    <3>1. CASE InOrder(Main, Data)
      BY <2>2, <3>1, Basics
    <3>2. CASE ~InOrder(Main, Data)
      <4>1. PICK u \in Threads : pc[u] # "joined" /\ InOrder(u, Data)
        BY <1>2, <3>2 DEF IInv, DataKnown
      <4>2. CASE u = t
        BY <1>5, <4>1, <4>2
      <4>3. CASE u # t
        BY <1>2, <2>2, <4>1, <4>3, Basics
      <4> QED BY <4>2, <4>3
    <3> QED BY <3>1, <3>2
  <2> QED BY <1>2, <2>4, <2>5, <2>6, <2>7 DEF DataKnown
<1>10. Values'
  BY <1>1, <1>2, <1>4, QuietValues DEF Reading
<1>11. \A u \in Threads : Fresh(u)' => Fresh(u)
  BY <1>2 DEF Fresh
<1>12. \A u \in Threads : \A x \in Node(u) : InOrder(u, x) => InOrder(u, x)'
  BY <1>4, WordsDiffer, Basics DEF Frame
<1>13. Newest(Data)' > 0
  BY <1>8 DEF IInv, TypeOK
<1>14. \A u \in Threads : /\ pc'[u] = "relwait" => pc[u] = "relwait"
                          /\ pc'[u] = "handoff" => pc[u] = "handoff" /\ succ'[u] = succ[u]
  BY <1>1, <1>2
<1> QED BY <1>2, <1>4, <1>6, <1>7, <1>9, <1>10, <1>11, <1>12, <1>13, <1>14, QuietStep

--------------------------------------------------------------------------------
(* Main's own steps: the threads wait for it, or it for them.              *)

LEMMA MainAlone ==
    ASSUME IInv, Alone
    PROVE  /\ \A u \in Threads : /\ pc[u] = "unborn"
                                 /\ ~Member(u) /\ ~Holds(u) /\ ~Waits(u) /\ ~Fresh(u)
           /\ Size = 0
<1>1. \A u \in Threads : pc[u] = "unborn" /\ ~Holds(u) /\ ~Waits(u) /\ ~Fresh(u)
  BY DEF IInv, Births, Holds, Waits, Fresh
<1>2. \A u \in Threads : ~Member(u)
  BY <1>1 DEF IInv, QueueMembers, Queued
<1> QED BY <1>1, <1>2, Basics, Neighbours

LEMMA GetMutStep ==
    ASSUME IInv, GetMut
    PROVE  IInv'
<1> DEFINE vals == [x \in {Data} |-> ValueOf(Data) + 1]
<1>1. /\ pc[Main] = "owner" /\ Write(Main, vals, Relaxed) /\ Goto(Main, "scope")
      /\ UNCHANGED <<pred, succ, seen, todo, queue, taken>>
  BY DEF GetMut
<1>2. Alone /\ taken = 0 /\ ValueOf(Data) = 0
  BY <1>1 DEF Alone, IInv, Values
<1>3. /\ pc' \in [Processes -> Labels] /\ pc'[Main] = "scope"
      /\ \A u \in Threads : pc'[u] = pc[u]
  <2>1. pc \in [Processes -> Labels]
    BY DEF IInv, TypeOK, LocalsOK
  <2> QED BY <1>1, <2>1, Basics DEF Goto, Labels
<1>4. /\ Frame({Data})
      /\ Newest(Data)' = Newest(Data) + 1
      /\ ValueOf(Data)' = 1
      /\ \A y \in Cells : InOrder(Main, y) => InOrder(Main, y)'
  <2>1. /\ DOMAIN vals = {Data} /\ {Data} \subseteq Cells
        /\ \A x \in {Data} : vals[x] \in Words
        /\ vals[Data] = 1
    BY <1>2, WordsDiffer, Basics
  <2> HIDE DEF vals
  <2> QED BY <1>1, <2>1, Basics, WriteFrame
<1>5. /\ TailOf \notin {Data}
      /\ \A u \in Threads : NextOf(u) \notin {Data} /\ LockedOf(u) \notin {Data}
      /\ \A u \in Threads : LinkMark(u) \notin {Data} /\ GrantMark(u) \notin {Data}
  BY WordsDiffer
<1>6. /\ \A u \in Threads : /\ pc[u] = "unborn" /\ pc'[u] = "unborn"
                            /\ ~Member(u) /\ ~Holds(u) /\ ~Waits(u) /\ ~Fresh(u)
      /\ Size = 0
  BY <1>2, <1>3, MainAlone
<1>7. \A u \in Threads : ~Holds(u)' /\ ~Fresh(u)'
  BY <1>6 DEF Holds, Fresh
<1>8. SameRoles
  BY <1>1, <1>6, <1>7 DEF SameRoles
<1>9. LocalsOK' /\ Births'
  BY <1>1, <1>3, <1>6 DEF IInv, TypeOK, LocalsOK, Births, Alone
<1>10. DataKnown'
  <2>1. \A x \in Cells : InOrder(Main, x)'
    BY <1>2, <1>4 DEF IInv, DataKnown
  <2>2. \A u \in Threads : ~Unaware(u)'
    BY <1>6 DEF Unaware
  <2>3. Alone'
    BY <1>3 DEF Alone
  <2> QED BY <1>7, <2>1, <2>2, <2>3 DEF DataKnown
<1>11. Values'
  BY <1>1, <1>2, <1>3, <1>4, <1>6 DEF Values, Reading
<1>12. \A u \in Threads : \A x \in Node(u) : InOrder(u, x) => InOrder(u, x)'
  BY <1>4, <1>5, WordsDiffer, Basics DEF Frame
<1>13. Newest(Data)' > 0
  BY <1>4, WordsDiffer, Basics
<1>14. \A u \in Threads : pc'[u] # "relwait" /\ pc'[u] # "handoff"
  BY <1>6
<1> QED BY <1>4, <1>5, <1>7, <1>8, <1>9, <1>10, <1>11, <1>12, <1>13, <1>14, QuietStep

LEMMA SpawnStep ==
    ASSUME IInv, SpawnAll
    PROVE  IInv'
<1>1. /\ pc[Main] = "scope" /\ Spawn(Main, Threads)
      /\ pc' = [p \in Threads \cup {Main} |-> IF p = Main THEN "join" ELSE "idle"]
      /\ UNCHANGED <<pred, succ, seen, todo, queue, taken>>
  BY DEF SpawnAll
<1>2. Alone /\ \A x \in Cells : InOrder(Main, x)
  BY <1>1 DEF Alone, IInv, DataKnown
<1>3. /\ pc' \in [Processes -> Labels] /\ pc'[Main] = "join"
      /\ \A u \in Threads : pc'[u] = "idle"
  BY <1>1, Basics DEF Processes, Labels
<1>4. /\ MemoryOK(Words)' /\ UNCHANGED written
      /\ \A q \in Processes : view'[q] = view[Main]
  <2>1. /\ MemoryOK(Words)' /\ UNCHANGED written
        /\ \A q \in Processes : view'[q] = IF q \in Threads THEN view[Main] ELSE view[q]
    BY <1>1, Basics, SpawnHandsOver DEF Processes
  <2> QED BY <2>1, Basics DEF Processes
<1>5. Frame({})
  <2>1. ASSUME NEW q \in Processes, NEW x \in Cells
        PROVE  view[q][x] <= view'[q][x]
    <3>1. view'[q][x] = Newest(x) /\ view[q][x] <= Newest(x)
      BY <1>2, <1>4, Basics DEF InOrder
    <3> QED BY <3>1
  <2> QED BY <1>4, <2>1, FrameOf
<1>6. \A q \in Processes, x \in Cells : InOrder(q, x)'
  <2> TAKE q \in Processes, x \in Cells
  <2>1. Newest(x)' = Newest(x) /\ view'[q][x] = Newest(x)
    BY <1>2, <1>4, <1>5 DEF Frame, InOrder
  <2> QED BY <2>1 DEF InOrder
<1>7. /\ \A u \in Threads : /\ pc[u] = "unborn"
                            /\ ~Member(u) /\ ~Holds(u) /\ ~Waits(u) /\ ~Fresh(u)
      /\ Size = 0
  BY <1>2, MainAlone
<1>8. \A u \in Threads : ~Holds(u)' /\ ~Fresh(u)'
  BY <1>3 DEF Holds, Fresh
<1>9. SameRoles
  BY <1>1, <1>3, <1>7, <1>8 DEF SameRoles
<1>10. LocalsOK' /\ Births' /\ ~Alone'
  BY <1>1, <1>3 DEF IInv, TypeOK, LocalsOK, Births, Alone
<1>11. DataKnown'
  <2>1. \A u \in Threads : ~Unaware(u)'
    BY <1>3 DEF Unaware
  <2> QED BY <1>6, <1>8, <1>10, <2>1, WordsDiffer, Basics DEF DataKnown
<1>12. Newest(Data)' = Newest(Data) /\ ValueOf(Data)' = ValueOf(Data)
  BY <1>5, WordsDiffer DEF Frame
<1>13. Values'
  <2>1. ValueOf(Data) = 1 + taken
    BY <1>1, <1>7 DEF IInv, Values, Reading
  <2> QED BY <1>1, <1>3, <1>12, <2>1 DEF Values, Reading
<1>14. Newest(Data)' > 0
  BY <1>12 DEF IInv, TypeOK
<1>15. \A u \in Threads : \A x \in Node(u) : InOrder(u, x)'
  BY <1>6, WordsDiffer, Basics
<1>16. \A u \in Threads : pc'[u] # "relwait" /\ pc'[u] # "handoff"
  BY <1>3
<1> QED BY <1>5, <1>8, <1>9, <1>10, <1>11, <1>13, <1>14, <1>15, <1>16, QuietStep

(* The end: main consumes the lock, or nothing is left to do.              *)
LEMMA IdleStep ==
    ASSUME IInv, UNCHANGED <<memory, pred, succ, seen, todo, queue, taken>>,
           pc' \in [Processes -> Labels], \A u \in Threads : pc'[u] = pc[u],
           pc'[Main] = pc[Main] \/ (pc[Main] = "join" /\ pc'[Main] = "consumed" /\ AllJoined)
    PROVE  IInv'
<1>1. Frame({})
  BY SameMemory
<1>2. SameRoles
  BY DEF SameRoles, Holds
<1>3. Alone' <=> Alone
  BY DEF Alone
<1>4. Births'
  BY <1>3 DEF IInv, Births, AllJoined
<1>5. LocalsOK'
  BY DEF IInv, TypeOK, LocalsOK
<1>6. DataKnown'
  BY <1>1, <1>2, <1>3, QuietData
<1>7. Values'
  BY <1>1, QuietValues DEF Reading
<1>8. Newest(Data)' = Newest(Data)
  BY <1>1, WordsDiffer DEF Frame
<1>9. Newest(Data)' > 0
  BY <1>8 DEF IInv, TypeOK
<1>10. \A u \in Threads : \A x \in Node(u) : InOrder(u, x) => InOrder(u, x)'
  BY <1>1, WordsDiffer, Basics DEF Frame
<1>11. \A u \in Threads : /\ Fresh(u)' => Fresh(u)
                          /\ pc'[u] = "relwait" => pc[u] = "relwait"
                          /\ pc'[u] = "handoff" => pc[u] = "handoff" /\ succ'[u] = succ[u]
  BY DEF Fresh
<1> QED BY <1>1, <1>2, <1>4, <1>5, <1>6, <1>7, <1>9, <1>10, <1>11, QuietStep

LEMMA IntoInnerStep ==
    ASSUME IInv, IntoInner
    PROVE  IInv'
<1>1. /\ pc[Main] = "join" /\ AllJoined /\ Goto(Main, "consumed")
      /\ UNCHANGED <<memory, pred, succ, seen, todo, queue, taken>>
  BY DEF IntoInner, AllJoined
<1>2. pc \in [Processes -> Labels]
  BY DEF IInv, TypeOK, LocalsOK
<1>3. /\ pc' \in [Processes -> Labels] /\ pc'[Main] = "consumed"
      /\ \A u \in Threads : pc'[u] = pc[u]
  BY <1>1, <1>2, Basics DEF Goto, Labels
<1> QED BY <1>1, <1>3, IdleStep

LEMMA Stutter ==
    ASSUME IInv, UNCHANGED vars
    PROVE  IInv'
  BY IdleStep DEF vars, locals, memory, IInv, TypeOK, LocalsOK

--------------------------------------------------------------------------------
(* The steps that change somebody's part in the queue.                     *)

(* Who is where in the queue.                                              *)
LEMMA Relations ==
    ASSUME IInv
    PROVE  /\ \A t, u \in Threads : Behind(t, u) =>
                 Member(t) /\ Member(u) /\ t # u /\ ~Final(t) /\ ~First(u)
           /\ \A t, u \in Threads : LinkTo(t, u) => Behind(t, u) /\ pc[u] # "link"
           /\ \A t, u, v \in Threads : Behind(t, u) /\ Behind(t, v) => u = v
           /\ \A t, u, v \in Threads : Behind(u, t) /\ Behind(v, t) => u = v
           /\ \A t \in Threads : First(t) \/ Final(t) \/ Queued(t) => Member(t)
           /\ \A t \in Threads : Holds(t) => Member(t) /\ First(t)
           /\ \A t \in Threads : Waits(t) \/ Unaware(t) => Member(t)
           /\ \A t \in Threads : Unaware(t) => First(t) /\ pc[t] = "spin"
           /\ \A t, u \in Threads : First(t) /\ First(u) => t = u
           /\ \A t, u \in Threads : Final(t) /\ Final(u) => t = u
<1>1. \A t \in Threads : /\ Holds(t) => Queued(t) /\ First(t)
                         /\ Waits(t) => Queued(t)
                         /\ Queued(t) => Member(t)
                         /\ Unaware(t) => Waits(t) /\ First(t) /\ pc[t] = "spin"
  BY DEF IInv, QueueMembers, Queued, Unaware, Waits
<1>2. \A t, u \in Threads : LinkTo(t, u) => Behind(t, u) /\ pc[u] # "link"
  BY DEF LinkTo
<1> QED BY <1>1, <1>2, Basics, Neighbours

(* A tail that is null is that of an empty queue.                          *)
LEMMA TailTells ==
    ASSUME IInv
    PROVE  /\ ValueOf(TailOf) = Null <=> Size = 0
           /\ ValueOf(TailOf) # Null => \E p \in Threads : Final(p) /\ ValueOf(TailOf) = p
           /\ \A t \in Threads : ValueOf(TailOf) = t => Final(t)
<1>1. Size \in Nat /\ (Size > 0 => \E p \in Threads : Final(p))
  BY Basics, Neighbours
<1>2. Size = 0 => ValueOf(TailOf) = Null
  BY DEF IInv, TailIsLast
<1>3. \A p \in Threads : Final(p) => ValueOf(TailOf) = p
  BY DEF IInv, TailIsLast
<1> QED BY <1>1, <1>2, <1>3, Basics

(* What the atomic operation on the tail that enters the queue does.       *)
LEMMA TailSwapped ==
    ASSUME IInv, NEW t \in Threads, Fresh(t), Exchange(t, TailOf, t, AcqRel),
           queue' = Append(queue, t)
    PROVE  /\ Frame({TailOf})
           /\ \A y \in Cells : InOrder(t, y) => InOrder(t, y)'
           /\ \A y \in Cells \ {TailOf} : Carries(TailOf, y) => InOrder(t, y)'
           /\ \A y \in Cells : InOrder(t, y)' => Carries(TailOf, y)'
           /\ ValueOf(TailOf)' = t /\ InOrder(t, TailOf)'
           /\ Newest(TailOf)' > 0 /\ Newest(Data)' > 0
           /\ \A u \in Threads : /\ NextOf(u) \in Cells \ {TailOf}
                                 /\ LockedOf(u) \in Cells \ {TailOf}
                                 /\ LinkMark(u) \in Cells \ {TailOf}
                                 /\ GrantMark(u) \in Cells \ {TailOf}
           /\ Data \in Cells \ {TailOf}
           /\ ~Member(t) /\ QueueOK' /\ Size' = Size + 1 /\ Size' # 0
           /\ \A u \in Threads : Member(u)' <=> Member(u) \/ u = t
           /\ \A u \in Threads : First(u)' <=> First(u) \/ (Size = 0 /\ u = t)
           /\ \A u \in Threads : Final(u)' <=> u = t
           /\ \A p, u \in Threads : Behind(p, u)' <=> Behind(p, u) \/ (Final(p) /\ u = t)
           /\ InOrder(t, NextOf(t))' /\ InOrder(t, LinkMark(t))'
           /\ InOrder(t, LockedOf(t))' /\ InOrder(t, GrantMark(t))'
<1>1. /\ TailOf \in Cells /\ Newest(TailOf) > 0 /\ t \in Processes /\ t \in Words
  BY WordsDiffer, Basics DEF IInv, TypeOK
<1>2. /\ Frame({TailOf})
      /\ \A y \in Cells : InOrder(t, y) => InOrder(t, y)'
      /\ Newest(TailOf)' = Newest(TailOf) + 1
      /\ ValueOf(TailOf)' = t
      /\ InOrder(t, TailOf)'
      /\ \A y \in Cells \ {TailOf} : Carries(TailOf, y) => InOrder(t, y)'
      /\ \A y \in Cells : InOrder(t, y)' => Carries(TailOf, y)'
  <2>1. "Acquire" \in AcqRel /\ "Release" \in AcqRel
    BY DEF AcqRel
  <2> QED BY <1>1, <2>1, ExchangeFrame
<1>3. ~Queued(t) /\ ~Unaware(t)
  BY DEF Fresh, Queued, Waits, Holds, Unaware
<1>4. ~Member(t)
  BY <1>3 DEF IInv, QueueMembers
<1>5. /\ QueueOK' /\ Size' = Size + 1
      /\ \A u \in Threads : Member(u)' <=> Member(u) \/ u = t
      /\ \A u \in Threads : First(u)' <=> First(u) \/ (Size = 0 /\ u = t)
      /\ \A u \in Threads : Final(u)' <=> u = t
      /\ \A p, u \in Threads : Behind(p, u)' <=> Behind(p, u) \/ (Final(p) /\ u = t)
  BY <1>4, Basics, Joined
<1>6. /\ \A u \in Threads : /\ NextOf(u) \in Cells \ {TailOf}
                            /\ LockedOf(u) \in Cells \ {TailOf}
                            /\ LinkMark(u) \in Cells \ {TailOf}
                            /\ GrantMark(u) \in Cells \ {TailOf}
      /\ Data \in Cells \ {TailOf}
  BY WordsDiffer
<1>7. Newest(Data)' = Newest(Data)
  BY <1>2, <1>6 DEF Frame
<1>8. Newest(TailOf)' > 0 /\ Newest(Data)' > 0 /\ Size' # 0
  <2>1. Newest(TailOf) \in Nat /\ Size \in Nat
    BY <1>1, Basics, Neighbours
  <2> QED BY <1>1, <1>2, <1>5, <1>7, <2>1 DEF IInv, TypeOK
<1>9. /\ InOrder(t, NextOf(t)) /\ InOrder(t, LinkMark(t))
      /\ InOrder(t, LockedOf(t)) /\ InOrder(t, GrantMark(t))
  BY <1>3 DEF IInv, OwnKnown
<1> QED BY <1>2, <1>4, <1>5, <1>6, <1>8, <1>9, WordsDiffer

(* A thread that finds the queue empty has the lock.                       *)
LEMMA EnterStep ==
    ASSUME IInv, NEW t \in Threads, Fresh(t), ValueOf(TailOf) = Null,
           Exchange(t, TailOf, t, AcqRel), queue' = Append(queue, t), Granted(t),
           pred' \in [Threads -> Threads \cup {Null}],
           UNCHANGED <<succ, seen, todo>>
    PROVE  IInv'
<1>1. /\ Frame({TailOf})
      /\ \A y \in Cells : InOrder(t, y) => InOrder(t, y)'
      /\ \A y \in Cells \ {TailOf} : Carries(TailOf, y) => InOrder(t, y)'
      /\ \A y \in Cells : InOrder(t, y)' => Carries(TailOf, y)'
      /\ ValueOf(TailOf)' = t /\ InOrder(t, TailOf)'
      /\ Newest(TailOf)' > 0 /\ Newest(Data)' > 0
      /\ InOrder(t, NextOf(t))' /\ InOrder(t, LinkMark(t))'
      /\ InOrder(t, LockedOf(t))' /\ InOrder(t, GrantMark(t))'
  BY TailSwapped
<1>2. /\ \A u \in Threads : /\ NextOf(u) \in Cells \ {TailOf}
                            /\ LockedOf(u) \in Cells \ {TailOf}
                            /\ LinkMark(u) \in Cells \ {TailOf}
                            /\ GrantMark(u) \in Cells \ {TailOf}
      /\ Data \in Cells \ {TailOf}
  BY TailSwapped
<1>3. /\ pc' \in [Processes -> Labels] /\ pc'[t] = "guard"
      /\ \A u \in Threads \ {t} : pc'[u] = pc[u]
      /\ pc'[Main] = pc[Main] /\ pc[Main] \notin {"owner", "scope", "consumed"}
      /\ ~Alone /\ ~Alone' /\ Births'
      /\ taken' = taken + 1
  BY Moves DEF Granted, Labels, Fresh
<1>4. Size = 0 /\ \A u \in Threads : ~Member(u)
  BY TailTells, Basics, Neighbours
<1>5. \A u \in Threads : ~Holds(u) /\ ~Waits(u) /\ ~First(u) /\ ~Final(u) /\ ~Queued(u)
  BY <1>4, Relations
<1>6. /\ QueueOK' /\ Size' # 0
      /\ \A u \in Threads : Member(u)' <=> u = t
      /\ \A u \in Threads : First(u)' <=> u = t
      /\ \A u \in Threads : Final(u)' <=> u = t
      /\ \A p, u \in Threads : ~Behind(p, u)'
  BY <1>4, <1>5, TailSwapped, Relations
<1>7. /\ Holds(t)' /\ Queued(t)' /\ Reading(t)' /\ ~Fresh(t)' /\ ~Waits(t)'
      /\ \A u \in Threads \ {t} : /\ ~Holds(u)' /\ ~Waits(u)' /\ ~Queued(u)'
                                  /\ ~Reading(u)' /\ (Fresh(u)' => Fresh(u))
      /\ \A u \in Threads : ~Unaware(u)'
  BY <1>3, <1>5 DEF Holds, Waits, Queued, Reading, Fresh, Unaware
<1>8. TypeOK'
  <2>1. queue' \in Seq(Threads)
    BY <1>6 DEF QueueOK
  <2> QED BY <1>1, <1>3, <2>1 DEF IInv, TypeOK, LocalsOK, Frame
<1>9. QueueMembers'
  BY <1>6, <1>7 DEF QueueMembers, QueueOK, Waits
<1>10. TailIsLast'
  BY <1>1, <1>6 DEF TailIsLast
<1>11. \A u \in Threads : Fresh(u) => OldNull(u)' /\ ValueOf(NextOf(u))' = Null
  BY <1>1, <1>2 DEF IInv, NextShown, Frame
<1>12. NextIsBehind'
  BY <1>6, <1>11 DEF NextIsBehind, LinkTo
<1>13. ReleaserSees'
  BY <1>3, <1>7 DEF ReleaserSees, Holds
<1>14. NextShown'
  BY <1>7, <1>11 DEF NextShown
<1>15. LockedShown'
  <2>1. \A u \in Threads : Fresh(u) => OldRaised(u)' /\ ValueOf(LockedOf(u))' = TRUE
    BY <1>1, <1>2 DEF IInv, LockedShown, Frame, Unaware, Fresh
  <2> QED BY <1>7, <2>1 DEF LockedShown
<1>16. InOrder(t, Data)'
  BY <1>1, <1>2, <1>3, <1>4 DEF IInv, DataKnown
<1>17. DataKnown'
  BY <1>3, <1>6, <1>7, <1>16 DEF DataKnown
<1>18. OwnKnown'
  <2>1. \A u \in Threads : /\ InOrder(u, LockedOf(u)) /\ InOrder(u, GrantMark(u))
                           /\ InOrder(u, NextOf(u)) /\ InOrder(u, LinkMark(u))
    BY <1>5 DEF IInv, OwnKnown, Unaware
  <2>2. \A u \in Threads : /\ InOrder(u, LockedOf(u))' /\ InOrder(u, GrantMark(u))'
                           /\ InOrder(u, NextOf(u))' /\ InOrder(u, LinkMark(u))'
    BY <1>1, <1>2, <2>1, Basics DEF Frame
  <2> QED BY <1>7, <2>2 DEF OwnKnown
<1>19. OthersKnown'
  <2>1. Carries(TailOf, NextOf(t))' /\ Carries(TailOf, LinkMark(t))'
    BY <1>1, <1>2
  <2> QED BY <1>6, <2>1 DEF OthersKnown, LinkTo
<1>20. Values'
  <2>1. ValueOf(Data)' = ValueOf(Data)
    BY <1>1, <1>2 DEF Frame
  <2>2. ValueOf(Data) = 1 + taken /\ taken \in Nat
    <3>1. \A u \in Threads : ~Reading(u)
      BY <1>5 DEF Reading, Holds
    <3> QED BY <1>3, <3>1 DEF IInv, Values, TypeOK, LocalsOK
  <2>3. \A u \in Threads : pc'[u] # "derefmut"
    BY <1>3, <1>7 DEF Reading
  <2> QED BY <1>3, <1>7, <2>1, <2>2, <2>3 DEF Values
<1> QED BY <1>3, <1>8, <1>9, <1>10, <1>12, <1>13, <1>14, <1>15, <1>17, <1>18, <1>19, <1>20 DEF IInv

(* A thread that finds somebody in the tail is behind it, and learns from  *)
(* the tail what it has to know of that thread's node.                     *)
LEMMA EnqueueStep ==
    ASSUME IInv, NEW t \in Threads, Fresh(t), ValueOf(TailOf) # Null,
           Exchange(t, TailOf, t, AcqRel), queue' = Append(queue, t), Goto(t, "link"),
           pred' = [pred EXCEPT ![t] = ValueOf(TailOf)],
           UNCHANGED <<succ, seen, todo, taken>>
    PROVE  IInv'
<1>1. /\ Frame({TailOf})
      /\ \A y \in Cells : InOrder(t, y) => InOrder(t, y)'
      /\ \A y \in Cells \ {TailOf} : Carries(TailOf, y) => InOrder(t, y)'
      /\ \A y \in Cells : InOrder(t, y)' => Carries(TailOf, y)'
      /\ ValueOf(TailOf)' = t /\ InOrder(t, TailOf)'
      /\ Newest(TailOf)' > 0 /\ Newest(Data)' > 0
      /\ InOrder(t, NextOf(t))' /\ InOrder(t, LinkMark(t))'
      /\ InOrder(t, LockedOf(t))' /\ InOrder(t, GrantMark(t))'
  BY TailSwapped
<1>2. /\ \A u \in Threads : /\ NextOf(u) \in Cells \ {TailOf}
                            /\ LockedOf(u) \in Cells \ {TailOf}
                            /\ LinkMark(u) \in Cells \ {TailOf}
                            /\ GrantMark(u) \in Cells \ {TailOf}
      /\ Data \in Cells \ {TailOf}
  BY TailSwapped
<1>3. /\ pc' \in [Processes -> Labels] /\ pc'[t] = "link"
      /\ \A u \in Threads \ {t} : pc'[u] = pc[u]
      /\ pc'[Main] = pc[Main] /\ pc[Main] \notin {"owner", "scope", "consumed"}
      /\ ~Alone /\ ~Alone' /\ Births'
  BY Moves DEF Labels, Fresh
<1>4. PICK p \in Threads : Final(p) /\ ValueOf(TailOf) = p
  BY TailTells
<1>5. Size # 0
  BY TailTells
<1>6. /\ pred' \in [Threads -> Threads \cup {Null}] /\ pred'[t] = p
      /\ \A u \in Threads \ {t} : pred'[u] = pred[u]
  BY <1>4 DEF IInv, TypeOK, LocalsOK
<1>7. /\ ~Member(t) /\ QueueOK' /\ Size' # 0
      /\ \A u \in Threads : Member(u)' <=> Member(u) \/ u = t
      /\ \A u \in Threads : First(u)' <=> First(u)
      /\ \A u \in Threads : Final(u)' <=> u = t
      /\ \A a, u \in Threads : Behind(a, u)' <=> Behind(a, u) \/ (a = p /\ u = t)
  BY <1>4, <1>5, TailSwapped, Relations
<1>8. /\ ~Holds(t)' /\ Waits(t)' /\ Queued(t)' /\ ~Fresh(t)' /\ ~Reading(t)'
      /\ \A u \in Threads \ {t} : /\ Holds(u)' <=> Holds(u)
                                  /\ Waits(u)' <=> Waits(u)
                                  /\ Queued(u)' <=> Queued(u)
                                  /\ Reading(u)' <=> Reading(u)
                                  /\ Fresh(u)' <=> Fresh(u)
      /\ ~Holds(t) /\ ~Waits(t) /\ ~Queued(t) /\ ~Reading(t) /\ ~Unaware(t)
  BY <1>3 DEF Holds, Waits, Queued, Reading, Fresh, Unaware
<1>9. /\ \A u \in Threads : Unaware(u)' <=> Unaware(u)
      /\ \A a, u \in Threads : LinkTo(a, u)' <=> LinkTo(a, u)
  <2>1. ~Unaware(t)' /\ \A a \in Threads : ~LinkTo(a, t)' /\ ~LinkTo(a, t)
    BY <1>3, <1>7, Relations DEF Unaware, LinkTo
  <2>2. \A u \in Threads \ {t} : Unaware(u)' <=> Unaware(u)
    BY <1>3, <1>7 DEF Unaware
  <2>3. \A a \in Threads, u \in Threads \ {t} : LinkTo(a, u)' <=> LinkTo(a, u)
    BY <1>3, <1>7 DEF LinkTo
  <2> QED BY <1>8, <2>1, <2>2, <2>3
<1>10. TypeOK'
  <2>1. queue' \in Seq(Threads)
    BY <1>7 DEF QueueOK
  <2> QED BY <1>1, <1>3, <1>6, <2>1 DEF IInv, TypeOK, LocalsOK, Frame
<1>11. QueueMembers'
  <2>1. \A u \in Threads : Queued(u)' <=> Member(u)'
    BY <1>7, <1>8 DEF IInv, QueueMembers
  <2>2. \A u \in Threads : Holds(u)' => First(u)'
    BY <1>7, <1>8 DEF IInv, QueueMembers
  <2>3. ASSUME NEW u \in Threads, pc'[u] = "link"
        PROVE  \E a \in Threads : pred'[u] = a /\ Behind(a, u)'
    <3>1. CASE u = t
      BY <1>4, <1>6, <1>7, <3>1
    <3>2. CASE u # t
      <4>1. PICK a \in Threads : pred'[u] = a /\ Behind(a, u)
        BY <1>3, <1>6, <2>3, <3>2 DEF IInv, QueueMembers
      <4> QED BY <1>7, <4>1
    <3> QED BY <3>1, <3>2
  <2> QED BY <1>7, <2>1, <2>2, <2>3 DEF QueueMembers, QueueOK
<1>12. TailIsLast'
  BY <1>1, <1>7 DEF TailIsLast
<1>13. /\ \A u \in Threads : ValueOf(NextOf(u))' = ValueOf(NextOf(u))
       /\ \A u \in Threads : ValueOf(LockedOf(u))' = ValueOf(LockedOf(u))
       /\ \A u \in Threads : OldNull(u) => OldNull(u)'
       /\ \A u \in Threads : OldRaised(u) => OldRaised(u)'
       /\ \A q \in Processes, y \in Cells \ {TailOf} : InOrder(q, y) => InOrder(q, y)'
       /\ \A x, y \in Cells \ {TailOf} : Carries(x, y) => Carries(x, y)'
  BY <1>1, <1>2 DEF Frame
<1>14. NextIsBehind'
  <2>1. ValueOf(NextOf(t)) = Null
    BY DEF IInv, NextShown
  <2>2. \A a, u \in Threads : LinkTo(a, u)' => ValueOf(NextOf(a))' = u
    BY <1>9, <1>13 DEF IInv, NextIsBehind
  <2>3. \A a \in Threads : Member(a)' /\ (\A u \in Threads : ~LinkTo(a, u)')
                              => ValueOf(NextOf(a))' = Null
    BY <1>7, <1>9, <1>13, <2>1 DEF IInv, NextIsBehind
  <2> QED BY <2>2, <2>3 DEF NextIsBehind
<1>15. ReleaserSees'
  <2>1. \A u \in Threads : pc'[u] = "relwait" => ~Final(u)'
    BY <1>3, <1>7
  <2>2. \A u \in Threads : pc'[u] = "handoff" =>
           \E v \in Threads : succ'[u] = v /\ LinkTo(u, v)'
    BY <1>3, <1>9 DEF IInv, ReleaserSees
  <2> QED BY <2>1, <2>2 DEF ReleaserSees
<1>16. NextShown'
  BY <1>8, <1>13 DEF IInv, NextShown
<1>17. LockedShown'
  BY <1>8, <1>9, <1>13 DEF IInv, LockedShown
<1>18. DataKnown'
  <2>1. \A q \in Processes : InOrder(q, Data) => InOrder(q, Data)'
    BY <1>2, <1>13
  <2>2. \A u \in Threads : Holds(u)' => InOrder(u, Data)'
    BY <1>8, <2>1, Basics DEF IInv, DataKnown
  <2>3. \A u \in Threads : Unaware(u)' => Carries(LockedOf(u), Data)'
    BY <1>2, <1>9, <1>13 DEF IInv, DataKnown
  <2>4. \/ InOrder(Main, Data)'
        \/ \E u \in Threads : pc'[u] # "joined" /\ InOrder(u, Data)'
    BY <1>3, <2>1, Basics DEF IInv, DataKnown
  <2> QED BY <1>3, <1>7, <2>2, <2>3, <2>4 DEF DataKnown
<1>19. OwnKnown'
  <2> SUFFICES ASSUME NEW u \in Threads
               PROVE  /\ ~Unaware(u)' => InOrder(u, LockedOf(u))' /\ InOrder(u, GrantMark(u))'
                      /\ Unaware(u)'  => Carries(LockedOf(u), GrantMark(u))'
                      /\ \/ InOrder(u, NextOf(u))' /\ InOrder(u, LinkMark(u))'
                         \/ /\ Queued(u)' /\ pc'[u] # "handoff"
                            /\ ValueOf(NextOf(u))' # Null
                            /\ Carries(NextOf(u), LinkMark(u))'
    BY DEF OwnKnown
  <2>1. CASE u = t
    BY <1>1, <1>8, <1>9, <2>1
  <2>2. CASE u # t
    <3>1. \A y \in {NextOf(u), LockedOf(u), LinkMark(u), GrantMark(u)} :
             InOrder(u, y) => InOrder(u, y)'
      BY <1>2, <1>13, Basics
    <3>2. /\ Carries(LockedOf(u), GrantMark(u)) => Carries(LockedOf(u), GrantMark(u))'
          /\ Carries(NextOf(u), LinkMark(u)) => Carries(NextOf(u), LinkMark(u))'
      BY <1>2, <1>13
    <3> QED BY <1>3, <1>8, <1>9, <1>13, <2>2, <3>1, <3>2 DEF IInv, OwnKnown
  <2> QED BY <2>1, <2>2
<1>20. OthersKnown'
  <2>1. ASSUME NEW u \in Threads, Final(u)'
        PROVE  Carries(TailOf, NextOf(u))' /\ Carries(TailOf, LinkMark(u))'
    BY <1>1, <1>2, <1>7, <2>1
  <2>2. ASSUME NEW u \in Threads, NEW a \in Threads, pc'[u] = "link", Behind(a, u)'
        PROVE  InOrder(u, NextOf(a))' /\ InOrder(u, LinkMark(a))'
    <3>1. CASE u = t
      <4>1. a = p
        BY <1>7, <2>2, <3>1, Relations
      <4>2. Carries(TailOf, NextOf(p)) /\ Carries(TailOf, LinkMark(p))
        BY <1>4 DEF IInv, OthersKnown
      <4> QED BY <1>1, <1>2, <3>1, <4>1, <4>2
    <3>2. CASE u # t
      <4>1. InOrder(u, NextOf(a)) /\ InOrder(u, LinkMark(a))
        BY <1>3, <1>7, <2>2, <3>2 DEF IInv, OthersKnown
      <4> QED BY <1>2, <1>13, <4>1, Basics
    <3> QED BY <3>1, <3>2
  <2>3. \A a, u \in Threads : LinkTo(a, u)' =>
           Carries(NextOf(a), LockedOf(u))' /\ Carries(NextOf(a), GrantMark(u))'
    BY <1>2, <1>9, <1>13 DEF IInv, OthersKnown
  <2>4. \A a, u \in Threads : pc'[a] = "handoff" /\ LinkTo(a, u)' =>
           InOrder(a, LockedOf(u))' /\ InOrder(a, GrantMark(u))'
    BY <1>2, <1>3, <1>9, <1>13, Basics DEF IInv, OthersKnown
  <2> QED BY <2>1, <2>2, <2>3, <2>4 DEF OthersKnown
<1>21. Values'
  BY <1>1, <1>2, <1>3, <1>8, QuietValues
<1> QED BY <1>3, <1>10, <1>11, <1>12, <1>14, <1>15, <1>16, <1>17, <1>18, <1>19, <1>20, <1>21 DEF IInv

LEMMA SwapStep ==
    ASSUME IInv, NEW t \in Threads, Swap(t)
    PROVE  IInv'
<1>1. /\ Fresh(t) /\ Exchange(t, TailOf, t, AcqRel) /\ queue' = Append(queue, t)
      /\ pred' = [pred EXCEPT ![t] = ValueOf(TailOf)]
      /\ UNCHANGED <<succ, seen, todo>>
      /\ IF ValueOf(TailOf) = Null THEN Granted(t)
                                   ELSE Goto(t, "link") /\ UNCHANGED taken
  BY DEF Swap, SwapOrder, Fresh
<1>2. ValueOf(TailOf) \in Threads \cup {Null}
  BY TailTells
<1>3. pred' \in [Threads -> Threads \cup {Null}]
  BY <1>1, <1>2 DEF IInv, TypeOK, LocalsOK
<1>4. CASE ValueOf(TailOf) = Null
  BY <1>1, <1>3, <1>4, EnterStep
<1>5. CASE ValueOf(TailOf) # Null
  BY <1>1, <1>5, EnqueueStep
<1> QED BY <1>4, <1>5

LEMMA TryCasStep ==
    ASSUME IInv, NEW t \in Threads, TryCas(t)
    PROVE  IInv'
<1>1. pc[t] = "trycas" /\ Fresh(t) /\ UNCHANGED <<pred, succ, seen, todo>>
  BY DEF TryCas, Fresh
<1>2. CASE /\ ValueOf(TailOf) = Null
           /\ Exchange(t, TailOf, t, TryOrder)
           /\ queue' = Append(queue, t)
           /\ Granted(t)
  BY <1>1, <1>2, EnterStep DEF TryOrder, IInv, TypeOK, LocalsOK
<1>3. CASE /\ \E i \in DOMAIN written[TailOf] : Read(t, TailOf, i, TryFailOrder)
           /\ Goto(t, "idle")
           /\ UNCHANGED <<queue, taken>>
  BY <1>1, <1>3, TryCasFails
<1> QED BY <1>2, <1>3 DEF TryCas

(* The thread behind p stores itself in p's node, and with it what p has   *)
(* to know of its own.                                                     *)
LEMMA LinkStep ==
    ASSUME IInv, NEW t \in Threads, Link(t)
    PROVE  IInv'
<1>1. /\ pc[t] = "link" /\ Goto(t, "spin")
      /\ Write(t, [x \in {NextOf(pred[t]), LinkMark(pred[t])} |-> t], LinkOrder)
      /\ UNCHANGED <<pred, succ, seen, todo, queue, taken>>
  BY DEF Link
<1>2. PICK p \in Threads : pred[t] = p /\ Behind(p, t)
  BY <1>1 DEF IInv, QueueMembers
<1> DEFINE W == {NextOf(p), LinkMark(p)}
           vals == [x \in W |-> t]
<1>3. Write(t, vals, LinkOrder)
  BY <1>1, <1>2
<1>4. /\ pc' \in [Processes -> Labels] /\ pc'[t] = "spin"
      /\ \A u \in Threads \ {t} : pc'[u] = pc[u]
      /\ pc'[Main] = pc[Main] /\ pc[Main] \notin {"owner", "scope", "consumed"}
      /\ ~Alone /\ ~Alone' /\ Births'
  BY <1>1, Moves DEF Labels
<1>5. /\ Frame(W)
      /\ \A q \in Processes \ {t} : view'[q] = view[q]
      /\ \A y \in Cells : InOrder(t, y) => InOrder(t, y)'
      /\ \A x \in W : /\ Newest(x)' = Newest(x) + 1
                      /\ ValueOf(x)' = t
                      /\ \A i \in DOMAIN written[x] : written'[x][i] = written[x][i]
                      /\ InOrder(t, x)'
                      /\ \A y \in Cells : InOrder(t, y)' => Carries(x, y)'
  <2>1. DOMAIN vals = W /\ W \subseteq Cells /\ \A x \in W : vals[x] = t /\ vals[x] \in Words
    BY WordsDiffer, Basics
  <2>2. t \in Processes /\ "Release" \in LinkOrder
    BY Basics DEF LinkOrder, Release
  <2> HIDE DEF vals, W
  <2> QED BY <1>3, <2>1, <2>2, WriteFrame
<1>6. /\ NextOf(p) \in W /\ LinkMark(p) \in W /\ NextOf(p) \in Cells /\ LinkMark(p) \in Cells
      /\ TailOf \in Cells \ W /\ Data \in Cells \ W
      /\ \A u \in Threads : LockedOf(u) \in Cells \ W /\ GrantMark(u) \in Cells \ W
      /\ \A u \in Threads \ {p} : NextOf(u) \in Cells \ W /\ LinkMark(u) \in Cells \ W
  BY WordsDiffer
<1> HIDE DEF vals, W
<1>7. /\ p # t /\ Member(p) /\ Member(t) /\ ~Final(p) /\ ~First(t)
      /\ \A u \in Threads : ~LinkTo(p, u)
      /\ \A u \in Threads : Behind(u, t) => u = p
      /\ \A u \in Threads : Behind(p, u) => u = t
  BY <1>1, <1>2, Relations
<1>8. /\ ValueOf(NextOf(p)) = Null /\ pc[p] # "handoff"
  BY <1>7 DEF IInv, NextIsBehind, ReleaserSees
<1>9. Queued(p) /\ ~Fresh(p) /\ OldNull(p)
  <2>1. Queued(p)
    BY <1>7 DEF IInv, QueueMembers
  <2> QED BY <2>1 DEF IInv, NextShown, Queued, Waits, Holds, Fresh
<1>10. /\ QueueOK' /\ Size' = Size
       /\ \A u \in Threads : Member(u)' <=> Member(u)
       /\ \A u \in Threads : First(u)' <=> First(u)
       /\ \A u \in Threads : Final(u)' <=> Final(u)
       /\ \A a, u \in Threads : Behind(a, u)' <=> Behind(a, u)
  BY <1>1, Basics, SameQueue
<1>11. /\ \A u \in Threads : Holds(u)' <=> Holds(u)
       /\ \A u \in Threads : Waits(u)' <=> Waits(u)
       /\ \A u \in Threads : Queued(u)' <=> Queued(u)
       /\ \A u \in Threads : Fresh(u)' <=> Fresh(u)
       /\ \A u \in Threads : Reading(u)' <=> Reading(u)
  BY <1>1, <1>4 DEF Holds, Waits, Queued, Fresh, Reading
<1>12. \A u \in Threads : Unaware(u)' <=> Unaware(u)
  BY <1>4, <1>7, <1>10 DEF Unaware
<1>13. \A a, u \in Threads : LinkTo(a, u)' <=> LinkTo(a, u) \/ (a = p /\ u = t)
  <2> TAKE a \in Threads, u \in Threads
  <2>1. CASE u = t
    BY <1>1, <1>2, <1>4, <1>7, <1>10, <2>1 DEF LinkTo
  <2>2. CASE u # t
    BY <1>4, <1>10, <2>2 DEF LinkTo
  <2> QED BY <2>1, <2>2
<1>14. /\ \A x \in Cells \ W : Newest(x)' = Newest(x) /\ ValueOf(x)' = ValueOf(x)
       /\ \A q \in Processes, x \in Cells \ W : InOrder(q, x) => InOrder(q, x)'
       /\ \A x, y \in Cells \ W : Carries(x, y) => Carries(x, y)'
  BY <1>5 DEF Frame
<1>15. TypeOK'
  <2>1. Newest(TailOf)' > 0 /\ Newest(Data)' > 0 /\ MemoryOK(Words)'
    BY <1>5, <1>6, <1>14 DEF IInv, TypeOK, Frame
  <2> QED BY <1>1, <1>4, <2>1 DEF IInv, TypeOK, LocalsOK
<1>16. QueueMembers'
  <2>1. \A u \in Threads : pc'[u] = "link" =>
           \E a \in Threads : pred'[u] = a /\ Behind(a, u)'
    BY <1>1, <1>4, <1>10 DEF IInv, QueueMembers
  <2>2. \A u \in Threads : (Queued(u)' <=> Member(u)') /\ (Holds(u)' => First(u)')
    BY <1>10, <1>11 DEF IInv, QueueMembers
  <2> QED BY <1>10, <2>1, <2>2 DEF QueueMembers, QueueOK
<1>17. TailIsLast'
  BY <1>6, <1>10, <1>14, Basics DEF IInv, TailIsLast
<1>18. NextIsBehind'
  <2>1. \A a, u \in Threads : LinkTo(a, u)' => ValueOf(NextOf(a))' = u
    <3> TAKE a \in Threads, u \in Threads
    <3>1. CASE a = p
      BY <1>5, <1>6, <1>7, <1>13, <3>1
    <3>2. CASE a # p
      BY <1>6, <1>13, <1>14, <3>2 DEF IInv, NextIsBehind
    <3> QED BY <3>1, <3>2
  <2>2. \A a \in Threads : Member(a)' /\ (\A u \in Threads : ~LinkTo(a, u)')
                              => ValueOf(NextOf(a))' = Null
    <3>1. LinkTo(p, t)'
      BY <1>13
    <3>2. \A a \in Threads \ {p} : Member(a) /\ (\A u \in Threads : ~LinkTo(a, u))
                                       => ValueOf(NextOf(a))' = Null
      BY <1>6, <1>14 DEF IInv, NextIsBehind
    <3> QED BY <1>10, <1>13, <3>1, <3>2
  <2> QED BY <2>1, <2>2 DEF NextIsBehind
<1>19. ReleaserSees'
  <2>1. \A u \in Threads : pc'[u] = "relwait" => ~Final(u)'
    BY <1>4, <1>10 DEF IInv, ReleaserSees
  <2>2. \A u \in Threads : pc'[u] = "handoff" =>
           \E v \in Threads : succ'[u] = v /\ LinkTo(u, v)'
    BY <1>1, <1>4, <1>13 DEF IInv, ReleaserSees
  <2> QED BY <2>1, <2>2 DEF ReleaserSees
<1>20. OldNull(p)'
  <2> DEFINE x == NextOf(p)
  <2>1. /\ view'[p][x] = view[p][x] /\ view[p][x] \in Nat /\ view[p][x] > 0
        /\ Newest(x) \in Nat /\ Newest(x)' = Newest(x) + 1
        /\ DOMAIN written[x] = 1 .. Newest(x)
        /\ \A i \in DOMAIN written[x] : written'[x][i] = written[x][i]
    <3>1. view[p][x] > 0
      BY <1>9 DEF OldNull
    <3>2. DOMAIN written[x] = 1 .. Newest(x)
      BY <1>6, Basics, Entries
    <3> QED BY <1>5, <1>6, <1>7, <3>1, <3>2, Basics
  <2>2. ASSUME NEW i \in view[p][x] .. Newest(x)
        PROVE  written'[x][i].val = Null
    <3>1. i \in 1 .. Newest(x) /\ (i = Newest(x) \/ i \in view[p][x] .. Newest(x) - 1)
      BY <2>1
    <3>2. written[x][i].val = Null
      BY <1>8, <1>9, <3>1 DEF OldNull, ValueOf
    <3> QED BY <2>1, <3>1, <3>2
  <2>3. (Newest(x) + 1) - 1 = Newest(x)
    BY <2>1
  <2> QED BY <2>1, <2>2, <2>3 DEF OldNull
<1>21. NextShown'
  <2> SUFFICES ASSUME NEW u \in Threads, Fresh(u)' \/ Queued(u)'
               PROVE  OldNull(u)' /\ (Fresh(u)' => ValueOf(NextOf(u))' = Null)
    BY DEF NextShown
  <2>1. CASE u = p
    BY <1>9, <1>11, <1>20, <2>1
  <2>2. CASE u # p
    <3>1. OldNull(u) /\ (Fresh(u) => ValueOf(NextOf(u)) = Null)
      BY <1>11 DEF IInv, NextShown
    <3>2. OldNull(u)'
      BY <1>5, <1>6, <2>2, <3>1 DEF Frame
    <3> QED BY <1>6, <1>11, <1>14, <2>2, <3>1, <3>2
  <2> QED BY <2>1, <2>2
<1>22. LockedShown'
  <2>1. \A u \in Threads : OldRaised(u) => OldRaised(u)'
    BY <1>5, <1>6 DEF Frame
  <2> QED BY <1>6, <1>11, <1>12, <1>14, <2>1 DEF IInv, LockedShown
<1>23. DataKnown'
  <2>1. \A q \in Processes : InOrder(q, Data) => InOrder(q, Data)'
    BY <1>6, <1>14
  <2>2. \A u \in Threads : Holds(u)' => InOrder(u, Data)'
    BY <1>11, <2>1, Basics DEF IInv, DataKnown
  <2>3. \A u \in Threads : Unaware(u)' => Carries(LockedOf(u), Data)'
    BY <1>6, <1>12, <1>14 DEF IInv, DataKnown
  <2>4. \/ InOrder(Main, Data)'
        \/ \E u \in Threads : pc'[u] # "joined" /\ InOrder(u, Data)'
    BY <1>4, <2>1, Basics DEF IInv, DataKnown
  <2>5. Size' # 0
    BY <1>7, <1>10, Basics, Neighbours
  <2> QED BY <1>4, <2>2, <2>3, <2>4, <2>5 DEF DataKnown
<1>24. OwnKnown'
  <2> SUFFICES ASSUME NEW u \in Threads
               PROVE  /\ ~Unaware(u)' => InOrder(u, LockedOf(u))' /\ InOrder(u, GrantMark(u))'
                      /\ Unaware(u)'  => Carries(LockedOf(u), GrantMark(u))'
                      /\ \/ InOrder(u, NextOf(u))' /\ InOrder(u, LinkMark(u))'
                         \/ /\ Queued(u)' /\ pc'[u] # "handoff"
                            /\ ValueOf(NextOf(u))' # Null
                            /\ Carries(NextOf(u), LinkMark(u))'
    BY DEF OwnKnown
  <2>1. /\ ~Unaware(u)' => InOrder(u, LockedOf(u))' /\ InOrder(u, GrantMark(u))'
        /\ Unaware(u)'  => Carries(LockedOf(u), GrantMark(u))'
    BY <1>6, <1>12, <1>14, Basics DEF IInv, OwnKnown
  <2>2. CASE u = p
    <3>1. Carries(NextOf(p), LinkMark(p))' /\ ValueOf(NextOf(p))' = t /\ t # Null
      BY <1>5, <1>6, Basics
    <3>2. Queued(p)' /\ pc'[p] # "handoff"
      BY <1>4, <1>7, <1>8, <1>9, <1>11
    <3> QED BY <2>1, <2>2, <3>1, <3>2
  <2>3. CASE u # p
    <3>1. /\ InOrder(u, NextOf(u)) => InOrder(u, NextOf(u))'
          /\ InOrder(u, LinkMark(u)) => InOrder(u, LinkMark(u))'
          /\ Carries(NextOf(u), LinkMark(u)) => Carries(NextOf(u), LinkMark(u))'
          /\ ValueOf(NextOf(u))' = ValueOf(NextOf(u))
      BY <1>6, <1>14, <2>3, Basics
    <3>2. pc[u] # "handoff" => pc'[u] # "handoff"
      BY <1>4
    <3> QED BY <1>11, <2>1, <3>1, <3>2 DEF IInv, OwnKnown
  <2> QED BY <2>2, <2>3
<1>25. OthersKnown'
  <2>1. ASSUME NEW u \in Threads, Final(u)'
        PROVE  Carries(TailOf, NextOf(u))' /\ Carries(TailOf, LinkMark(u))'
    BY <1>6, <1>7, <1>10, <1>14, <2>1 DEF IInv, OthersKnown
  <2>2. ASSUME NEW u \in Threads, NEW a \in Threads, pc'[u] = "link", Behind(a, u)'
        PROVE  InOrder(u, NextOf(a))' /\ InOrder(u, LinkMark(a))'
    <3>1. u # t /\ a # p
      BY <1>4, <1>7, <1>10, <2>2
    <3>2. InOrder(u, NextOf(a)) /\ InOrder(u, LinkMark(a))
      BY <1>4, <1>10, <2>2, <3>1 DEF IInv, OthersKnown
    <3> QED BY <1>6, <1>14, <3>1, <3>2, Basics
  <2>3. ASSUME NEW a \in Threads, NEW u \in Threads, LinkTo(a, u)'
        PROVE  Carries(NextOf(a), LockedOf(u))' /\ Carries(NextOf(a), GrantMark(u))'
    <3>1. CASE a = p
      <4>1. u = t
        BY <1>7, <1>13, <2>3, <3>1
      <4>2. ~Unaware(t)
        BY <1>7 DEF Unaware
      <4>3. InOrder(t, LockedOf(t))' /\ InOrder(t, GrantMark(t))'
        BY <1>5, <1>6, <4>2 DEF IInv, OwnKnown
      <4> QED BY <1>5, <1>6, <3>1, <4>1, <4>3
    <3>2. CASE a # p
      BY <1>6, <1>13, <1>14, <2>3, <3>2 DEF IInv, OthersKnown
    <3> QED BY <3>1, <3>2
  <2>4. ASSUME NEW a \in Threads, NEW u \in Threads, pc'[a] = "handoff", LinkTo(a, u)'
        PROVE  InOrder(a, LockedOf(u))' /\ InOrder(a, GrantMark(u))'
    <3>1. pc[a] = "handoff" /\ a # p /\ LinkTo(a, u)
      BY <1>4, <1>7, <1>8, <1>13, <2>4
    <3> QED BY <1>6, <1>14, <3>1, Basics DEF IInv, OthersKnown
  <2> QED BY <2>1, <2>2, <2>3, <2>4 DEF OthersKnown
<1>26. Values'
  BY <1>1, <1>4, <1>5, <1>6, <1>11, QuietValues
<1> QED BY <1>4, <1>15, <1>16, <1>17, <1>18, <1>19, <1>21, <1>22, <1>23, <1>24, <1>25, <1>26 DEF IInv

(* The spin ends on the store of the predecessor, and with it comes all    *)
(* that the predecessor knew of the value.                                 *)
LEMMA SpinSees ==
    ASSUME IInv, NEW t \in Threads, SpinEnd(t)
    PROVE  /\ Frame({}) /\ Unaware(t)
           /\ InOrder(t, LockedOf(t))' /\ InOrder(t, GrantMark(t))' /\ InOrder(t, Data)'
<1> DEFINE x == LockedOf(t)
<1>1. pc[t] = "spin"
  BY DEF SpinEnd
<1>2. PICK i \in DOMAIN written[x] : ~written[x][i].val /\ Read(t, x, i, SpinOrder)
  BY DEF SpinEnd
<1>3. x \in Cells /\ t \in Processes /\ "Acquire" \in SpinOrder
  BY WordsDiffer, Basics DEF SpinOrder, Acquire
<1>4. OldRaised(t) /\ (~Unaware(t) => ValueOf(x) = TRUE)
  BY <1>1 DEF IInv, LockedShown, Waits
<1>5. /\ \A j \in view[t][x] .. Newest(x) - 1 : written[x][j].val = TRUE
      /\ view[t][x] \in Nat /\ Newest(x) \in Nat
  BY <1>3, <1>4, Basics DEF OldRaised
<1> HIDE DEF x
<1>6. /\ Frame({})
      /\ view[t][x] <= i /\ i <= Newest(x) /\ i \in Nat
      /\ i = Newest(x) => InOrder(t, x)'
      /\ i = Newest(x) => \A y \in Cells : Carries(x, y) => InOrder(t, y)'
  BY <1>2, <1>3, ReadFrame
<1>7. written[x][i].val # TRUE
  BY <1>2
<1>8. i = Newest(x)
  <2>1. i \notin view[t][x] .. Newest(x) - 1
    BY <1>5, <1>7
  <2> QED BY <1>5, <1>6, <2>1
<1>9. Unaware(t)
  BY <1>4, <1>7, <1>8 DEF ValueOf
<1>10. Carries(x, Data) /\ Carries(x, GrantMark(t))
  BY <1>9 DEF IInv, DataKnown, OwnKnown, x
<1> QED BY <1>6, <1>8, <1>9, <1>10, WordsDiffer DEF x

LEMMA SpinEndStep ==
    ASSUME IInv, NEW t \in Threads, SpinEnd(t)
    PROVE  IInv'
<1>1. /\ pc[t] = "spin" /\ Granted(t)
      /\ UNCHANGED <<pred, succ, seen, todo, queue>>
  BY DEF SpinEnd
<1>2. /\ Frame({}) /\ Unaware(t) /\ First(t) /\ Member(t)
      /\ InOrder(t, LockedOf(t))' /\ InOrder(t, GrantMark(t))' /\ InOrder(t, Data)'
  BY SpinSees, Relations
<1>3. /\ pc' \in [Processes -> Labels] /\ pc'[t] = "guard"
      /\ \A u \in Threads \ {t} : pc'[u] = pc[u]
      /\ pc'[Main] = pc[Main] /\ pc[Main] \notin {"owner", "scope", "consumed"}
      /\ ~Alone /\ ~Alone' /\ Births'
      /\ taken' = taken + 1
  BY <1>1, Moves DEF Granted, Labels
<1>4. /\ \A x \in Cells : Newest(x)' = Newest(x) /\ ValueOf(x)' = ValueOf(x)
      /\ \A q \in Processes, x \in Cells : InOrder(q, x) => InOrder(q, x)'
      /\ \A x, y \in Cells : Carries(x, y) => Carries(x, y)'
      /\ \A u \in Threads : OldNull(u) => OldNull(u)'
      /\ \A u \in Threads : OldRaised(u) => OldRaised(u)'
  BY <1>2 DEF Frame
<1>5. /\ QueueOK' /\ Size' = Size
      /\ \A u \in Threads : Member(u)' <=> Member(u)
      /\ \A u \in Threads : First(u)' <=> First(u)
      /\ \A u \in Threads : Final(u)' <=> Final(u)
      /\ \A a, u \in Threads : Behind(a, u)' <=> Behind(a, u)
  BY <1>1, Basics, SameQueue
<1>6. \A u \in Threads : ~Holds(u)
  <2>1. ~Holds(t)
    BY <1>1 DEF Holds
  <2> QED BY <1>2, <2>1, Relations
<1>7. \A u \in Threads \ {t} : ~Unaware(u)
  BY <1>2, Relations
<1>8. /\ Holds(t)' /\ ~Waits(t)' /\ Queued(t)' /\ Queued(t) /\ ~Fresh(t)' /\ Reading(t)'
      /\ \A u \in Threads \ {t} : /\ ~Holds(u)' /\ ~Reading(u)'
                                  /\ Waits(u)' <=> Waits(u)
                                  /\ Queued(u)' <=> Queued(u)
                                  /\ Fresh(u)' <=> Fresh(u)
      /\ \A u \in Threads : ~Unaware(u)'
  BY <1>1, <1>3, <1>5, <1>6, <1>7 DEF Holds, Waits, Queued, Fresh, Reading, Unaware
<1>9. \A a, u \in Threads : LinkTo(a, u)' <=> LinkTo(a, u)
  BY <1>1, <1>3, <1>5 DEF LinkTo
<1>10. TypeOK'
  <2>1. Newest(TailOf)' > 0 /\ Newest(Data)' > 0 /\ MemoryOK(Words)'
    BY <1>2, <1>4, WordsDiffer DEF IInv, TypeOK, Frame
  <2> QED BY <1>1, <1>3, <2>1 DEF IInv, TypeOK, LocalsOK
<1>11. QueueMembers'
  <2>1. \A u \in Threads : pc'[u] = "link" =>
           \E a \in Threads : pred'[u] = a /\ Behind(a, u)'
    BY <1>1, <1>3, <1>5 DEF IInv, QueueMembers
  <2>2. \A u \in Threads : (Queued(u)' <=> Member(u)') /\ (Holds(u)' => First(u)')
    BY <1>2, <1>5, <1>8 DEF IInv, QueueMembers
  <2> QED BY <1>5, <2>1, <2>2 DEF QueueMembers, QueueOK
<1>12. TailIsLast'
  BY <1>4, <1>5, WordsDiffer, Basics DEF IInv, TailIsLast
<1>13. NextIsBehind'
  BY <1>4, <1>5, <1>9, WordsDiffer DEF IInv, NextIsBehind
<1>14. ReleaserSees'
  BY <1>3, <1>8 DEF ReleaserSees, Holds
<1>15. NextShown'
  BY <1>4, <1>8, WordsDiffer DEF IInv, NextShown
<1>16. LockedShown'
  BY <1>4, <1>7, <1>8, WordsDiffer DEF IInv, LockedShown
<1>17. DataKnown'
  <2>1. Size' # 0
    BY <1>2, <1>5, Basics, Neighbours
  <2>2. pc'[t] # "joined"
    BY <1>3
  <2> QED BY <1>2, <1>3, <1>8, <2>1, <2>2 DEF DataKnown
<1>18. OwnKnown'
  <2> SUFFICES ASSUME NEW u \in Threads
               PROVE  /\ InOrder(u, LockedOf(u))' /\ InOrder(u, GrantMark(u))'
                      /\ \/ InOrder(u, NextOf(u))' /\ InOrder(u, LinkMark(u))'
                         \/ /\ Queued(u)' /\ pc'[u] # "handoff"
                            /\ ValueOf(NextOf(u))' # Null
                            /\ Carries(NextOf(u), LinkMark(u))'
    BY <1>8 DEF OwnKnown
  <2>1. InOrder(u, LockedOf(u))' /\ InOrder(u, GrantMark(u))'
    <3>1. CASE u = t
      BY <1>2, <3>1
    <3>2. CASE u # t
      BY <1>4, <1>7, <3>2, WordsDiffer, Basics DEF IInv, OwnKnown
    <3> QED BY <3>1, <3>2
  <2>2. /\ InOrder(u, NextOf(u)) => InOrder(u, NextOf(u))'
        /\ InOrder(u, LinkMark(u)) => InOrder(u, LinkMark(u))'
        /\ Carries(NextOf(u), LinkMark(u)) => Carries(NextOf(u), LinkMark(u))'
        /\ ValueOf(NextOf(u))' = ValueOf(NextOf(u))
    BY <1>4, WordsDiffer, Basics
  <2>3. (Queued(u) => Queued(u)') /\ (pc[u] # "handoff" => pc'[u] # "handoff")
    BY <1>3, <1>8
  <2> QED BY <2>1, <2>2, <2>3 DEF IInv, OwnKnown
<1>19. OthersKnown'
  <2>1. ASSUME NEW u \in Threads, Final(u)'
        PROVE  Carries(TailOf, NextOf(u))' /\ Carries(TailOf, LinkMark(u))'
    BY <1>4, <1>5, <2>1, WordsDiffer DEF IInv, OthersKnown
  <2>2. ASSUME NEW u \in Threads, NEW a \in Threads, pc'[u] = "link", Behind(a, u)'
        PROVE  InOrder(u, NextOf(a))' /\ InOrder(u, LinkMark(a))'
    <3>1. InOrder(u, NextOf(a)) /\ InOrder(u, LinkMark(a))
      BY <1>3, <1>5, <2>2 DEF IInv, OthersKnown
    <3> QED BY <1>4, <3>1, WordsDiffer, Basics
  <2>3. ASSUME NEW a \in Threads, NEW u \in Threads, LinkTo(a, u)'
        PROVE  Carries(NextOf(a), LockedOf(u))' /\ Carries(NextOf(a), GrantMark(u))'
    BY <1>4, <1>9, <2>3, WordsDiffer DEF IInv, OthersKnown
  <2>4. \A a \in Threads : pc'[a] # "handoff"
    BY <1>3, <1>8 DEF Holds
  <2> QED BY <2>1, <2>2, <2>3, <2>4 DEF OthersKnown
<1>20. Values'
  <2>1. ValueOf(Data)' = 1 + taken /\ taken \in Nat
    <3>1. \A u \in Threads : ~Reading(u)
      BY <1>6 DEF Reading, Holds
    <3> QED BY <1>3, <1>4, <3>1, WordsDiffer DEF IInv, Values, TypeOK, LocalsOK
  <2>2. \A u \in Threads : pc'[u] # "derefmut"
    BY <1>3, <1>8 DEF Reading
  <2> QED BY <1>3, <1>8, <2>1, <2>2 DEF Values
<1> QED BY <1>3, <1>10, <1>11, <1>12, <1>13, <1>14, <1>15, <1>16, <1>17, <1>18, <1>19, <1>20 DEF IInv

(* A holder that is the last in the queue is all of it.                    *)
LEMMA OnlyOne ==
    ASSUME QueueOK, NEW t \in Threads, First(t), Final(t)
    PROVE  /\ Size = 1 /\ Tail(queue) = <<>>
           /\ \A u \in Threads : Member(u) => u = t
<1>1. Size \in Nat /\ Size > 0 /\ queue[1] = t /\ queue[Size] = t
  BY DEF QueueOK, Size, First, Final
<1>2. Size = 1
  BY <1>1 DEF QueueOK
<1>3. Tail(queue) = <<>>
  <2>1. queue # <<>> /\ Len(queue) = 1
    BY <1>2, EmptySeq DEF QueueOK, Size
  <2>2. Tail(queue) \in Seq(Threads) /\ Len(Tail(queue)) = 0
    BY <2>1, HeadTailProperties DEF QueueOK
  <2> QED BY <2>2, EmptySeq
<1> QED BY <1>1, <1>2, <1>3 DEF Member

LEMMA RelCasWins ==
    ASSUME IInv, NEW t \in Threads, pc[t] = "relcas", ValueOf(TailOf) = t,
           Exchange(t, TailOf, Null, EmptyOrder), queue' = <<>>, Goto(t, "idle"),
           UNCHANGED <<pred, succ, seen, todo, taken>>
    PROVE  IInv'
<1>1. /\ pc' \in [Processes -> Labels] /\ pc'[t] = "idle"
      /\ \A u \in Threads \ {t} : pc'[u] = pc[u]
      /\ pc'[Main] = pc[Main] /\ pc[Main] \notin {"owner", "scope", "consumed"}
      /\ ~Alone /\ ~Alone' /\ Births'
  BY Moves DEF Labels
<1>2. /\ Frame({TailOf})
      /\ \A y \in Cells : InOrder(t, y) => InOrder(t, y)'
      /\ Newest(TailOf)' = Newest(TailOf) + 1
      /\ ValueOf(TailOf)' = Null
      /\ \A y \in Cells : InOrder(t, y)' => Carries(TailOf, y)'
  <2>1. /\ TailOf \in Cells /\ Newest(TailOf) > 0 /\ t \in Processes /\ Null \in Words
        /\ "Release" \in EmptyOrder
    BY WordsDiffer, Basics DEF IInv, TypeOK, EmptyOrder, Release
  <2> QED BY <2>1, ExchangeFrame
<1>3. /\ \A u \in Threads : /\ NextOf(u) \in Cells \ {TailOf}
                            /\ LockedOf(u) \in Cells \ {TailOf}
                            /\ LinkMark(u) \in Cells \ {TailOf}
                            /\ GrantMark(u) \in Cells \ {TailOf}
      /\ Data \in Cells \ {TailOf}
  BY WordsDiffer
<1>4. /\ Holds(t) /\ First(t) /\ Final(t) /\ Member(t)
      /\ \A u \in Threads \ {t} : ~Member(u)
  BY TailTells, Relations, Basics, OnlyOne DEF Holds
<1>5. \A u \in Threads \ {t} : ~Holds(u) /\ ~Waits(u) /\ ~Queued(u)
  BY <1>4, Relations
<1>6. Size' = 0 /\ \A u \in Threads : ~Member(u)' /\ ~First(u)' /\ ~Final(u)'
  BY DEF Size, Member, First, Final
<1>7. \A a, u \in Threads : ~Behind(a, u)' /\ ~LinkTo(a, u)'
  <2>1. \A a, u \in Threads : ~Behind(a, u)'
    BY DEF Behind, Size
  <2> QED BY <2>1 DEF LinkTo
<1>8. \A u \in Threads : /\ ~Holds(u)' /\ ~Waits(u)' /\ ~Queued(u)' /\ ~Unaware(u)'
                         /\ ~Reading(u)' /\ ~Reading(u) /\ ~Unaware(u)
                         /\ (Fresh(u)' => Fresh(u))
  BY <1>1, <1>5 DEF Holds, Waits, Queued, Unaware, Reading, Fresh
<1>9. TypeOK'
  <2>1. Newest(TailOf)' > 0 /\ Newest(Data)' > 0 /\ MemoryOK(Words)'
    <3>1. Newest(TailOf) \in Nat
      BY WordsDiffer, Basics
    <3> QED BY <1>2, <1>3, <3>1 DEF IInv, TypeOK, Frame
  <2> QED BY <1>1, <2>1 DEF IInv, TypeOK, LocalsOK
<1>10. QueueMembers'
  <2>1. \A u \in Threads : pc'[u] # "link"
    BY <1>8 DEF Waits
  <2>2. 1 .. Size' = {}
    BY <1>6
  <2> QED BY <1>6, <1>8, <2>1, <2>2 DEF QueueMembers
<1>11. TailIsLast'
  BY <1>2, <1>6 DEF TailIsLast
<1>12. NextIsBehind'
  BY <1>6, <1>7 DEF NextIsBehind
<1>13. ReleaserSees'
  BY <1>8 DEF ReleaserSees, Holds
<1>14. NextShown'
  <2>1. \A u \in Threads : Fresh(u) => OldNull(u)' /\ ValueOf(NextOf(u))' = Null
    BY <1>2, <1>3 DEF IInv, NextShown, Frame
  <2> QED BY <1>8, <2>1 DEF NextShown
<1>15. LockedShown'
  <2>1. \A u \in Threads : Fresh(u) => OldRaised(u)' /\ ValueOf(LockedOf(u))' = TRUE
    BY <1>2, <1>3, <1>8 DEF IInv, LockedShown, Frame
  <2> QED BY <1>8, <2>1 DEF LockedShown
<1>16. InOrder(t, Data)' /\ Carries(TailOf, Data)'
  BY <1>2, <1>3, <1>4 DEF IInv, DataKnown
<1>17. DataKnown'
  BY <1>1, <1>8, <1>16 DEF DataKnown
<1>18. OwnKnown'
  <2>1. \A u \in Threads : /\ InOrder(u, LockedOf(u)) /\ InOrder(u, GrantMark(u))
                           /\ InOrder(u, NextOf(u)) /\ InOrder(u, LinkMark(u))
    <3>1. ValueOf(NextOf(t)) = Null
      BY <1>4, Relations DEF IInv, NextIsBehind
    <3> QED BY <1>5, <1>8, <3>1 DEF IInv, OwnKnown
  <2>2. \A u \in Threads : /\ InOrder(u, LockedOf(u))' /\ InOrder(u, GrantMark(u))'
                           /\ InOrder(u, NextOf(u))' /\ InOrder(u, LinkMark(u))'
    BY <1>2, <1>3, <2>1, Basics DEF Frame
  <2> QED BY <1>8, <2>2 DEF OwnKnown
<1>19. OthersKnown'
  BY <1>6, <1>7 DEF OthersKnown
<1>20. Values'
  <2>1. \A u \in Threads : pc'[u] # "derefmut"
    BY <1>8 DEF Reading
  <2>2. Reading(t)' <=> Reading(t)
    BY <1>8
  <2> QED BY <1>1, <1>2, <1>3, <1>8, <2>1, QuietValues
<1> QED BY <1>1, <1>9, <1>10, <1>11, <1>12, <1>13, <1>14, <1>15, <1>17, <1>18, <1>19, <1>20 DEF IInv

LEMMA RelCasStep ==
    ASSUME IInv, NEW t \in Threads, RelCas(t)
    PROVE  IInv'
<1>1. pc[t] = "relcas" /\ UNCHANGED <<pred, succ, seen, todo, taken>>
  BY DEF RelCas
<1>2. CASE /\ ValueOf(TailOf) = t
           /\ Exchange(t, TailOf, Null, EmptyOrder)
           /\ queue' = <<>>
           /\ Goto(t, "idle")
  BY <1>1, <1>2, RelCasWins
<1>3. CASE /\ \E i \in DOMAIN written[TailOf] :
                 written[TailOf][i].val # t /\ Read(t, TailOf, i, EmptyFailOrder)
           /\ Goto(t, "relwait")
           /\ UNCHANGED queue
  BY <1>1, <1>3, RelCasFails
<1> QED BY <1>2, <1>3 DEF RelCas

(* The releaser hands the lock, and all it knows of the value, to the      *)
(* thread behind it.                                                       *)
LEMMA HandoffStep ==
    ASSUME IInv, NEW t \in Threads, Handoff(t)
    PROVE  IInv'
<1>1. /\ pc[t] = "handoff" /\ Goto(t, "idle") /\ queue' = Tail(queue)
      /\ Write(t, [x \in {LockedOf(succ[t]), GrantMark(succ[t])} |-> FALSE], HandoffOrder)
      /\ UNCHANGED <<pred, succ, seen, todo, taken>>
  BY DEF Handoff
<1>2. PICK v \in Threads : succ[t] = v /\ LinkTo(t, v)
  BY <1>1 DEF IInv, ReleaserSees
<1> DEFINE W == {LockedOf(v), GrantMark(v)}
           vals == [x \in W |-> FALSE]
<1>3. Write(t, vals, HandoffOrder)
  BY <1>1, <1>2
<1>4. /\ pc' \in [Processes -> Labels] /\ pc'[t] = "idle"
      /\ \A u \in Threads \ {t} : pc'[u] = pc[u]
      /\ pc'[Main] = pc[Main] /\ pc[Main] \notin {"owner", "scope", "consumed"}
      /\ ~Alone /\ ~Alone' /\ Births'
  BY <1>1, Moves DEF Labels
<1>5. /\ Frame(W)
      /\ \A q \in Processes \ {t} : view'[q] = view[q]
      /\ \A y \in Cells : InOrder(t, y) => InOrder(t, y)'
      /\ \A x \in W : /\ Newest(x)' = Newest(x) + 1
                      /\ \A i \in DOMAIN written[x] : written'[x][i] = written[x][i]
                      /\ \A y \in Cells : InOrder(t, y)' => Carries(x, y)'
  <2>1. DOMAIN vals = W /\ W \subseteq Cells /\ \A x \in W : vals[x] \in Words
    BY WordsDiffer, Basics
  <2>2. t \in Processes /\ "Release" \in HandoffOrder
    BY Basics DEF HandoffOrder, Release
  <2> HIDE DEF vals, W
  <2> QED BY <1>3, <2>1, <2>2, WriteFrame
<1>6. /\ LockedOf(v) \in W /\ GrantMark(v) \in W
      /\ LockedOf(v) \in Cells /\ GrantMark(v) \in Cells
      /\ TailOf \in Cells \ W /\ Data \in Cells \ W
      /\ \A u \in Threads : NextOf(u) \in Cells \ W /\ LinkMark(u) \in Cells \ W
      /\ \A u \in Threads \ {v} : LockedOf(u) \in Cells \ W /\ GrantMark(u) \in Cells \ W
  BY WordsDiffer
<1> HIDE DEF vals, W
<1>7. /\ Holds(t) /\ First(t) /\ Member(t) /\ Behind(t, v) /\ pc[v] # "link"
      /\ v # t /\ Member(v) /\ ~First(v) /\ ~Final(t)
      /\ \A u \in Threads : Behind(t, u) => u = v
      /\ \A u \in Threads : Behind(u, v) => u = t
      /\ \A u \in Threads \ {t} : ~First(u) /\ ~Holds(u)
  BY <1>1, <1>2, Relations DEF Holds
<1>8. /\ pc[v] = "spin" /\ Waits(v)
      /\ \A u \in Threads : ~Unaware(u)
  <2>1. Queued(v) /\ ~Holds(v)
    BY <1>7 DEF IInv, QueueMembers
  <2>2. \A u \in Threads : ~Unaware(u)
    BY <1>1, <1>7 DEF Unaware
  <2> QED BY <1>7, <2>1, <2>2 DEF Queued, Waits
<1>9. /\ QueueOK' /\ Size' # 0
      /\ \A u \in Threads : Member(u)' <=> Member(u) /\ u # t
      /\ \A u \in Threads : First(u)' <=> u = v
      /\ \A u \in Threads : Final(u)' <=> Final(u)
      /\ \A a, u \in Threads : Behind(a, u)' <=> Behind(a, u) /\ a # t
  <2>1. /\ QueueOK' /\ (Size' = 0 <=> Final(t))
        /\ \A u \in Threads : Member(u)' <=> Member(u) /\ u # t
        /\ \A u \in Threads : First(u)' <=> Behind(t, u)
        /\ \A u \in Threads : Final(u)' <=> Final(u) /\ u # t
        /\ \A a, u \in Threads : Behind(a, u)' <=> Behind(a, u) /\ a # t
    BY <1>1, <1>7, Basics, Departed
  <2> QED BY <1>7, <2>1
<1>10. /\ ~Holds(t)' /\ ~Waits(t)' /\ ~Waits(t) /\ ~Queued(t)' /\ ~Fresh(t)' /\ ~Fresh(t)
       /\ ~Reading(t)' /\ ~Reading(t)
       /\ \A u \in Threads \ {t} : /\ ~Holds(u)'
                                   /\ Waits(u)' <=> Waits(u)
                                   /\ Queued(u)' <=> Queued(u)
                                   /\ Fresh(u)' <=> Fresh(u)
                                   /\ Reading(u)' <=> Reading(u)
  BY <1>1, <1>4, <1>7 DEF Holds, Waits, Queued, Fresh, Reading
<1>11. \A u \in Threads : Unaware(u)' <=> u = v
  BY <1>4, <1>7, <1>8, <1>9 DEF Unaware
<1>12. \A a, u \in Threads : LinkTo(a, u)' => LinkTo(a, u) /\ a # t /\ u # v
  <2> SUFFICES ASSUME NEW a \in Threads, NEW u \in Threads, LinkTo(a, u)'
               PROVE  LinkTo(a, u) /\ a # t /\ u # v
    OBVIOUS
  <2>1. Behind(a, u) /\ a # t /\ pc'[u] # "link"
    BY <1>9 DEF LinkTo
  <2>2. u # v
    BY <1>7, <2>1
  <2>3. pc[u] # "link"
    BY <1>1, <1>4, <2>1
  <2> QED BY <2>1, <2>2, <2>3 DEF LinkTo
<1>13. \A a, u \in Threads : LinkTo(a, u) /\ a # t => LinkTo(a, u)'
  <2> SUFFICES ASSUME NEW a \in Threads, NEW u \in Threads, LinkTo(a, u), a # t
               PROVE  LinkTo(a, u)'
    OBVIOUS
  <2>1. Behind(a, u)' /\ pc[u] # "link"
    BY <1>9 DEF LinkTo
  <2>2. pc'[u] # "link"
    BY <1>4, <2>1
  <2> QED BY <2>1, <2>2 DEF LinkTo
<1>14. /\ \A x \in Cells \ W : Newest(x)' = Newest(x) /\ ValueOf(x)' = ValueOf(x)
       /\ \A q \in Processes, x \in Cells \ W : InOrder(q, x) => InOrder(q, x)'
       /\ \A x, y \in Cells \ W : Carries(x, y) => Carries(x, y)'
       /\ \A u \in Threads : OldNull(u) => OldNull(u)'
       /\ \A u \in Threads \ {v} : OldRaised(u) => OldRaised(u)'
  BY <1>5, <1>6 DEF Frame
<1>15. TypeOK'
  <2>1. Newest(TailOf)' > 0 /\ Newest(Data)' > 0 /\ MemoryOK(Words)'
    BY <1>5, <1>6, <1>14 DEF IInv, TypeOK, Frame
  <2>2. queue' \in Seq(Threads)
    BY <1>9 DEF QueueOK
  <2> QED BY <1>1, <1>4, <2>1, <2>2 DEF IInv, TypeOK, LocalsOK
<1>16. QueueMembers'
  <2>1. ASSUME NEW u \in Threads, pc'[u] = "link"
        PROVE  \E a \in Threads : pred'[u] = a /\ Behind(a, u)'
    <3>1. u # t /\ u # v /\ pc[u] = "link"
      BY <1>4, <1>7, <1>8, <2>1
    <3>2. PICK a \in Threads : pred[u] = a /\ Behind(a, u)
      BY <3>1 DEF IInv, QueueMembers
    <3>3. a # t
      BY <1>7, <3>1, <3>2
    <3> QED BY <1>1, <1>9, <3>2, <3>3
  <2>2. \A u \in Threads : (Queued(u)' <=> Member(u)') /\ ~Holds(u)'
    BY <1>9, <1>10 DEF IInv, QueueMembers
  <2> QED BY <1>9, <2>1, <2>2 DEF QueueMembers, QueueOK
<1>17. TailIsLast'
  BY <1>6, <1>9, <1>14, Basics DEF IInv, TailIsLast
<1>18. NextIsBehind'
  <2>1. \A a, u \in Threads : LinkTo(a, u)' => ValueOf(NextOf(a))' = u
    BY <1>6, <1>12, <1>14 DEF IInv, NextIsBehind
  <2>2. \A a \in Threads : Member(a)' /\ (\A u \in Threads : ~LinkTo(a, u)')
                              => ValueOf(NextOf(a))' = Null
    BY <1>6, <1>9, <1>13, <1>14 DEF IInv, NextIsBehind
  <2> QED BY <2>1, <2>2 DEF NextIsBehind
<1>19. ReleaserSees'
  BY <1>4, <1>10 DEF ReleaserSees, Holds
<1>20. NextShown'
  BY <1>6, <1>10, <1>14 DEF IInv, NextShown
<1>21. OldRaised(v)'
  <2> DEFINE x == LockedOf(v)
  <2>1. OldRaised(v) /\ ValueOf(x) = TRUE
    BY <1>8 DEF IInv, LockedShown
  <2>2. /\ view'[v][x] = view[v][x] /\ view[v][x] \in Nat /\ view[v][x] > 0
        /\ Newest(x) \in Nat /\ Newest(x)' = Newest(x) + 1
        /\ DOMAIN written[x] = 1 .. Newest(x)
        /\ \A i \in DOMAIN written[x] : written'[x][i] = written[x][i]
    <3>1. view[v][x] > 0
      BY <2>1 DEF OldRaised
    <3>2. DOMAIN written[x] = 1 .. Newest(x)
      BY <1>6, Basics, Entries
    <3> QED BY <1>5, <1>6, <1>7, <3>1, <3>2, Basics
  <2>3. ASSUME NEW i \in view[v][x] .. Newest(x)
        PROVE  written'[x][i].val = TRUE
    <3>1. i \in 1 .. Newest(x) /\ (i = Newest(x) \/ i \in view[v][x] .. Newest(x) - 1)
      BY <2>2
    <3>2. written[x][i].val = TRUE
      <4>1. CASE i = Newest(x)
        BY <2>1, <4>1 DEF ValueOf
      <4>2. CASE i \in view[v][x] .. Newest(x) - 1
        BY <2>1, <4>2 DEF OldRaised
      <4> QED BY <3>1, <4>1, <4>2
    <3>3. written'[x][i] = written[x][i]
      BY <2>2, <3>1
    <3> QED BY <3>2, <3>3
  <2>4. (Newest(x) + 1) - 1 = Newest(x)
    BY <2>2
  <2> QED BY <2>2, <2>3, <2>4 DEF OldRaised
<1>22. LockedShown'
  <2> SUFFICES ASSUME NEW u \in Threads, Fresh(u)' \/ Waits(u)'
               PROVE  OldRaised(u)' /\ (~Unaware(u)' => ValueOf(LockedOf(u))' = TRUE)
    BY DEF LockedShown
  <2>1. CASE u = v
    BY <1>11, <1>21, <2>1
  <2>2. CASE u # v
    <3>1. OldRaised(u) /\ ValueOf(LockedOf(u)) = TRUE
      BY <1>8, <1>10 DEF IInv, LockedShown
    <3> QED BY <1>6, <1>14, <2>2, <3>1
  <2> QED BY <2>1, <2>2
<1>23. InOrder(t, Data) /\ InOrder(t, Data)'
  BY <1>5, <1>6, <1>7 DEF IInv, DataKnown
<1>24. DataKnown'
  <2>1. Carries(LockedOf(v), Data)'
    BY <1>5, <1>6, <1>23
  <2>2. pc'[t] # "joined"
    BY <1>4
  <2>3. \A u \in Threads : ~Holds(u)'
    BY <1>10
  <2> QED BY <1>4, <1>9, <1>11, <1>23, <2>1, <2>2, <2>3 DEF DataKnown
<1>25. InOrder(t, GrantMark(v))'
  BY <1>1, <1>2, <1>5, <1>6 DEF IInv, OthersKnown
<1>26. OwnKnown'
  <2> SUFFICES ASSUME NEW u \in Threads
               PROVE  /\ ~Unaware(u)' => InOrder(u, LockedOf(u))' /\ InOrder(u, GrantMark(u))'
                      /\ Unaware(u)'  => Carries(LockedOf(u), GrantMark(u))'
                      /\ \/ InOrder(u, NextOf(u))' /\ InOrder(u, LinkMark(u))'
                         \/ /\ Queued(u)' /\ pc'[u] # "handoff"
                            /\ ValueOf(NextOf(u))' # Null
                            /\ Carries(NextOf(u), LinkMark(u))'
    BY DEF OwnKnown
  <2>1. ~Unaware(u)' => InOrder(u, LockedOf(u))' /\ InOrder(u, GrantMark(u))'
    BY <1>6, <1>8, <1>11, <1>14, Basics DEF IInv, OwnKnown
  <2>2. Unaware(u)' => Carries(LockedOf(u), GrantMark(u))'
    BY <1>5, <1>6, <1>11, <1>25
  <2>3. /\ InOrder(u, NextOf(u)) => InOrder(u, NextOf(u))'
        /\ InOrder(u, LinkMark(u)) => InOrder(u, LinkMark(u))'
        /\ Carries(NextOf(u), LinkMark(u)) => Carries(NextOf(u), LinkMark(u))'
        /\ ValueOf(NextOf(u))' = ValueOf(NextOf(u))
    BY <1>6, <1>14, Basics
  <2>4. CASE u = t
    <3>1. InOrder(t, NextOf(t)) /\ InOrder(t, LinkMark(t))
      BY <1>1 DEF IInv, OwnKnown
    <3> QED BY <2>1, <2>2, <2>3, <2>4, <3>1
  <2>5. CASE u # t
    <3>1. (Queued(u)' <=> Queued(u)) /\ pc'[u] = pc[u]
      BY <1>4, <1>10, <2>5
    <3> QED BY <2>1, <2>2, <2>3, <3>1 DEF IInv, OwnKnown
  <2> QED BY <2>4, <2>5
<1>27. OthersKnown'
  <2>1. ASSUME NEW u \in Threads, Final(u)'
        PROVE  Carries(TailOf, NextOf(u))' /\ Carries(TailOf, LinkMark(u))'
    BY <1>6, <1>9, <1>14, <2>1 DEF IInv, OthersKnown
  <2>2. ASSUME NEW u \in Threads, NEW a \in Threads, pc'[u] = "link", Behind(a, u)'
        PROVE  InOrder(u, NextOf(a))' /\ InOrder(u, LinkMark(a))'
    <3>1. u # t
      BY <1>4, <2>2
    <3>2. InOrder(u, NextOf(a)) /\ InOrder(u, LinkMark(a))
      BY <1>4, <1>9, <2>2, <3>1 DEF IInv, OthersKnown
    <3> QED BY <1>6, <1>14, <3>2, Basics
  <2>3. ASSUME NEW a \in Threads, NEW u \in Threads, LinkTo(a, u)'
        PROVE  Carries(NextOf(a), LockedOf(u))' /\ Carries(NextOf(a), GrantMark(u))'
    BY <1>6, <1>12, <1>14, <2>3 DEF IInv, OthersKnown
  <2>4. \A a \in Threads : pc'[a] # "handoff"
    BY <1>4, <1>10 DEF Holds
  <2> QED BY <2>1, <2>2, <2>3, <2>4 DEF OthersKnown
<1>28. Values'
  <2>1. \A u \in Threads : Reading(u)' <=> Reading(u)
    BY <1>10
  <2>2. \A u \in Threads : pc'[u] = "derefmut" => pc[u] = "derefmut" /\ seen'[u] = seen[u]
    BY <1>1, <1>4
  <2> QED BY <1>1, <1>4, <1>5, <1>6, <2>1, <2>2, QuietValues
<1> QED BY <1>4, <1>15, <1>16, <1>17, <1>18, <1>19, <1>20, <1>22, <1>24, <1>26, <1>27, <1>28 DEF IInv

--------------------------------------------------------------------------------
(* The invariant, and what it says.                                        *)

LEMMA InitIInv ==
    ASSUME Init
    PROVE  IInv
<1> DEFINE made == [x \in Cells |-> IF x \in {TailOf, Data} THEN 1 ELSE 0]
<1>1. /\ pc = [p \in Processes |-> IF p = Main THEN "owner" ELSE "unborn"]
      /\ pred = [t \in Threads |-> Null] /\ succ = [t \in Threads |-> Null]
      /\ seen = [t \in Threads |-> 0] /\ todo = Rounds /\ queue = <<>> /\ taken = 0
      /\ view = [p \in Processes |-> IF p = Main THEN made ELSE Blank]
      /\ written = [x \in Cells |->
             IF x = TailOf THEN <<Entry(Null, made)>>
             ELSE IF x = Data THEN <<Entry(0, made)>>
             ELSE <<>>]
  BY DEF Init, Processes
<1>2. /\ TailOf \in Cells /\ Data \in Cells /\ TailOf # Data
      /\ Main \in Processes /\ Main \notin Threads /\ Threads \subseteq Processes
      /\ Null \notin Threads /\ Null \in Words /\ 0 \in Words
  BY WordsDiffer, MainAssumption, NullAssumption DEF Processes, Words
<1>3. /\ made \in [Cells -> Nat] /\ Blank \in [Cells -> Nat]
      /\ made[TailOf] = 1 /\ made[Data] = 1 /\ \A x \in Cells \ {TailOf, Data} : made[x] = 0
      /\ \A x \in Cells : Blank[x] = 0
  BY <1>2 DEF Blank
<1> HIDE DEF made
<1>4. /\ written[TailOf] = <<Entry(Null, made)>> /\ written[Data] = <<Entry(0, made)>>
      /\ \A x \in Cells \ {TailOf, Data} : written[x] = <<>>
      /\ view[Main] = made /\ \A p \in Processes \ {Main} : view[p] = Blank
  BY <1>1, <1>2
<1>5. /\ Entry(Null, made).view = made /\ Entry(0, made).view = made
      /\ Entry(Null, made).val = Null /\ Entry(0, made).val = 0
      /\ Entry(Null, made) \in [val : Words, view : [Cells -> Nat]]
      /\ Entry(0, made) \in [val : Words, view : [Cells -> Nat]]
  BY <1>2, <1>3 DEF Entry
<1>6. /\ Newest(TailOf) = 1 /\ Newest(Data) = 1
      /\ \A x \in Cells \ {TailOf, Data} : Newest(x) = 0
      /\ ValueOf(TailOf) = Null /\ ValueOf(Data) = 0
  BY <1>4, <1>5 DEF Newest, ValueOf
<1>7. MemoryOK(Words)
  <2> DEFINE E == [val : Words, view : [Cells -> Nat]]
  <2>1. Entry(Null, made) \in E /\ Entry(0, made) \in E
    BY <1>5
  <2> HIDE DEF E
  <2>2. written \in [Cells -> Seq(E)]
    <3>1. \A e \in E : <<e>> \in Seq(E)
      OBVIOUS
    <3>2. <<>> \in Seq(E)
      OBVIOUS
    <3> QED BY <1>1, <2>1, <3>1, <3>2
  <2>3. view \in [Processes -> [Cells -> Nat]]
    BY <1>1, <1>3
  <2>4. \A p \in Processes, x \in Cells : view[p][x] <= Newest(x)
    <3> TAKE p \in Processes, x \in Cells
    <3>1. view[p][x] = made[x] \/ view[p][x] = 0
      BY <1>3, <1>4
    <3>2. made[x] = Newest(x) /\ Newest(x) \in Nat
      BY <1>3, <1>6
    <3> QED BY <3>1, <3>2
  <2>5. ASSUME NEW x \in Cells, NEW i \in DOMAIN written[x], NEW y \in Cells
        PROVE  written[x][i].view[y] <= Newest(y)
    <3>1. x \in {TailOf, Data}
      <4>1. DOMAIN <<>> = {}
        OBVIOUS
      <4> QED BY <1>4, <2>5, <4>1
    <3>2. written[x][i].view = made
      BY <1>4, <1>5, <2>5, <3>1
    <3>3. made[y] = Newest(y) /\ Newest(y) \in Nat
      BY <1>3, <1>6
    <3> QED BY <3>2, <3>3
  <2> QED BY <2>2, <2>3, <2>4, <2>5 DEF MemoryOK, E, Processes
<1>8. TypeOK
  <2>1. LocalsOK
    <3>1. pc \in [Processes -> Labels] /\ pc[Main] = "owner"
      BY <1>1, <1>2 DEF Labels
    <3>2. succ \in [Threads -> Words] /\ seen \in [Threads -> Words]
          /\ pred \in [Threads -> Threads \cup {Null}]
      BY <1>1, <1>2
    <3>3. queue \in Seq(Threads)
      BY <1>1
    <3>4. todo \in [Threads -> Nat]
      BY <1>1, RoundsAssumption
    <3> QED BY <1>1, <3>1, <3>2, <3>3, <3>4 DEF LocalsOK
  <2> QED BY <1>6, <1>7, <2>1 DEF TypeOK
<1>9. Alone /\ pc[Main] = "owner" /\ \A t \in Threads : pc[t] = "unborn"
  BY <1>1, <1>2 DEF Alone
<1>10. \A t \in Threads : /\ ~Holds(t) /\ ~Waits(t) /\ ~Queued(t) /\ ~Fresh(t)
                          /\ ~Reading(t) /\ ~Unaware(t)
  BY <1>9 DEF Holds, Waits, Queued, Fresh, Reading, Unaware
<1>11. /\ Size = 0 /\ 1 .. Size = {}
       /\ \A t \in Threads : ~Member(t) /\ ~First(t) /\ ~Final(t)
       /\ \A t, u \in Threads : ~Behind(t, u) /\ ~LinkTo(t, u)
  BY <1>1 DEF Size, Member, First, Final, Behind, LinkTo
<1>12. Births
  BY <1>9 DEF Births
<1>13. QueueMembers
  BY <1>9, <1>10, <1>11 DEF QueueMembers
<1>14. TailIsLast /\ NextIsBehind /\ ReleaserSees
  BY <1>6, <1>9, <1>11 DEF TailIsLast, NextIsBehind, ReleaserSees
<1>15. NextShown /\ LockedShown
  BY <1>10 DEF NextShown, LockedShown
<1>16. \A x \in Cells : InOrder(Main, x)
  BY <1>3, <1>4, <1>6 DEF InOrder
<1>17. DataKnown
  BY <1>9, <1>10, <1>16 DEF DataKnown
<1>18. OwnKnown
  <2>1. \A t \in Threads, x \in Cells \ {TailOf, Data} : InOrder(t, x)
    BY <1>2, <1>3, <1>4, <1>6 DEF InOrder
  <2> QED BY <1>10, <2>1, WordsDiffer DEF OwnKnown
<1>19. OthersKnown
  BY <1>9, <1>11 DEF OthersKnown
<1>20. Values
  BY <1>1, <1>6, <1>9, <1>10 DEF Values
<1> QED BY <1>8, <1>12, <1>13, <1>14, <1>15, <1>17, <1>18, <1>19, <1>20 DEF IInv

LEMMA NextIInv ==
    ASSUME IInv, [Next]_vars
    PROVE  IInv'
<1>1. CASE GetMut
  BY <1>1, GetMutStep
<1>2. CASE SpawnAll
  BY <1>2, SpawnStep
<1>3. CASE IntoInner
  BY <1>3, IntoInnerStep
<1>4. CASE UNCHANGED vars
  BY <1>4, Stutter
<1>5. ASSUME NEW t \in Threads, Step(t)
      PROVE  IInv'
  <2>1. CASE LockBegin(t)
    BY <2>1, BeginStep DEF LockBegin
  <2>2. CASE TryLockBegin(t)
    BY <2>2, BeginStep DEF TryLockBegin
  <2>3. CASE Swap(t)
    BY <2>3, SwapStep
  <2>4. CASE Link(t)
    BY <2>4, LinkStep
  <2>5. CASE SpinEnd(t)
    BY <2>5, SpinEndStep
  <2>6. CASE TryCas(t)
    BY <2>6, TryCasStep
  <2>7. CASE ReadData(t)
    BY <2>7, ReadDataStep
  <2>8. CASE WriteData(t)
    BY <2>8, WriteDataStep
  <2>9. CASE RelLoad(t)
    BY <2>9, RelLoadStep
  <2>10. CASE RelCas(t)
    BY <2>10, RelCasStep
  <2>11. CASE RelWait(t)
    BY <2>11, RelWaitStep
  <2>12. CASE Handoff(t)
    BY <2>12, HandoffStep
  <2>13. CASE PoolDrop(t)
    BY <2>13, PoolDropStep
  <2>14. CASE JoinOne(t)
    BY <2>14, JoinOneStep
  <2> QED BY <1>5, <2>1, <2>2, <2>3, <2>4, <2>5, <2>6, <2>7, <2>8, <2>9, <2>10, <2>11,
             <2>12, <2>13, <2>14 DEF Step
<1> QED BY <1>1, <1>2, <1>3, <1>4, <1>5 DEF Next, Over

(* The invariant holds of every behaviour.                                 *)
THEOREM Invariance == Spec => []IInv
<1>1. Init => IInv
  BY InitIInv
<1>2. IInv /\ [Next]_vars => IInv'
  BY NextIInv
<1> QED BY <1>1, <1>2, PTL DEF Spec

(* "everything written inside the critical section is visible to the next  *)
(* holder", and all of it to main when it has joined the threads.          *)
THEOREM AccessesOrdered == Spec => []ValueOrdered
<1>1. ASSUME IInv
      PROVE  ValueOrdered
  <2>1. ASSUME NEW t \in Threads, pc[t] \in {"guard", "derefmut"}
        PROVE  InOrder(t, Data)
    BY <1>1, <2>1 DEF IInv, DataKnown, Holds
  <2>2. ASSUME AllJoined
        PROVE  InOrder(Main, Data)
    BY <1>1, <2>2, WordsDiffer DEF IInv, DataKnown, AllJoined
  <2> QED BY <2>1, <2>2 DEF ValueOrdered
<1> QED BY <1>1, Invariance, PTL

(* "any node reachable from tail is fully initialised": neither a thread   *)
(* that resets its node nor one that links itself to another's or hands it *)
(* the lock undoes a store that it does not know of.                       *)
THEOREM StoresKeepOrder == Spec => []StoresInOrder
<1>1. ASSUME IInv
      PROVE  StoresInOrder
  <2>1. ASSUME NEW t \in Threads, pc[t] = "link"
        PROVE  InOrder(t, NextOf(pred[t])) /\ InOrder(t, LinkMark(pred[t]))
    <3>1. PICK p \in Threads : pred[t] = p /\ Behind(p, t)
      BY <1>1, <2>1 DEF IInv, QueueMembers
    <3> QED BY <1>1, <2>1, <3>1 DEF IInv, OthersKnown
  <2>2. ASSUME NEW t \in Threads, pc[t] = "handoff"
        PROVE  InOrder(t, LockedOf(succ[t])) /\ InOrder(t, GrantMark(succ[t]))
    <3>1. PICK u \in Threads : succ[t] = u /\ LinkTo(t, u)
      BY <1>1, <2>2 DEF IInv, ReleaserSees
    <3> QED BY <1>1, <2>2, <3>1 DEF IInv, OthersKnown
  <2>3. ASSUME NEW t \in Threads, pc[t] = "idle"
        PROVE  \A x \in Node(t) : InOrder(t, x)
    <3>1. ~Unaware(t) /\ ~Queued(t)
      BY <2>3 DEF Unaware, Queued, Waits, Holds
    <3>2. InOrder(t, LockedOf(t)) /\ InOrder(t, NextOf(t))
      BY <1>1, <3>1 DEF IInv, OwnKnown
    <3> QED BY <3>2 DEF Node
  <2> QED BY <2>1, <2>2, <2>3, Zenon DEF StoresInOrder
<1> QED BY <1>1, Invariance, PTL

(* The safety comments of return_node and of Drop for Pool: a thread that  *)
(* ends has behind it every access that others made to the node it frees.  *)
THEOREM FreesKeepOrder == Spec => []FreedInOrder
<1>1. ASSUME IInv
      PROVE  FreedInOrder
  <2> SUFFICES ASSUME NEW t \in Threads, pc[t] = "idle"
               PROVE  \A x \in Marks(t) : InOrder(t, x)
    BY DEF FreedInOrder
  <2>1. ~Unaware(t) /\ ~Queued(t)
    BY DEF Unaware, Queued, Waits, Holds
  <2>2. InOrder(t, GrantMark(t)) /\ InOrder(t, LinkMark(t))
    BY <1>1, <2>1 DEF IInv, OwnKnown
  <2> QED BY <2>2 DEF Marks
<1> QED BY <1>1, Invariance, PTL

(* into_inner finds main's increment and one for every guard handed out.   *)
THEOREM NothingIsLost == Spec => []NothingLost
<1>1. ASSUME IInv
      PROVE  NothingLost
  <2> SUFFICES ASSUME pc[Main] = "consumed",
                      NEW i \in view[Main][Data] .. Newest(Data)
               PROVE  written[Data][i].val = 1 + taken
    BY DEF NothingLost
  <2>1. /\ AllJoined /\ ~Alone /\ Data \in Cells /\ Main \in Processes
        /\ Newest(Data) \in Nat
    BY <1>1, Basics, WordsDiffer DEF IInv, Births, Alone
  <2>2. InOrder(Main, Data)
    BY <1>1, <2>1 DEF IInv, DataKnown, AllJoined
  <2>3. i = Newest(Data)
    BY <2>1, <2>2 DEF InOrder
  <2>4. ValueOf(Data) = 1 + taken
    BY <1>1, <2>1 DEF IInv, Values, AllJoined, Reading
  <2> QED BY <2>3, <2>4 DEF ValueOf
<1> QED BY <1>1, Invariance, PTL

--------------------------------------------------------------------------------
(* The line of the abstract lock is the queue, and who holds it is here.   *)

LEMMA LineOf ==
    ASSUME IInv
    PROVE  /\ Line[Main] = queue /\ Held[Main] = Holders
           /\ \A t \in Threads : Fifo!InLine(t) <=> Member(t)
           /\ queue = <<>> <=> Size = 0
           /\ Size > 0 => Head(queue) = queue[1]
           /\ \A t \in Threads : t \in Holders <=> Holds(t)
<1>1. queue \in Seq(Threads) /\ DOMAIN queue = 1 .. Size
  BY Basics DEF QueueOK, Size
<1>2. Line[Main] = queue /\ Held[Main] = Holders
  BY DEF Line, Held, TheLock
<1>3. \A t \in Threads : Fifo!InLine(t) <=> Member(t)
  BY <1>1, <1>2 DEF Fifo!InLine, Member, TheLock
<1>4. queue = <<>> <=> Size = 0
  BY <1>1, EmptySeq DEF Size
<1>5. Size > 0 => Head(queue) = queue[1]
  BY <1>1, <1>4, HeadTailProperties
<1> QED BY <1>2, <1>3, <1>4, <1>5 DEF Holders, Holds

(* A step that moves one thread, and neither into the lock nor out of it.  *)
LEMMA LockKept ==
    ASSUME IInv, NEW t \in Threads, NEW label, Goto(t, label),
           LET inside == {"guard", "derefmut", "relload", "relcas", "relwait", "handoff"}
           IN  pc[t] \in inside <=> label \in inside
    PROVE  UNCHANGED Held
<1>1. pc'[t] = label /\ \A u \in Threads \ {t} : pc'[u] = pc[u]
  BY Basics DEF IInv, TypeOK, LocalsOK, Goto
<1>2. UNCHANGED Holders
  BY <1>1 DEF Holders
<1> QED BY <1>2 DEF Held

(* What each step that moves somebody in or out of the lock does to it.    *)

LEMMA EnqueueRefines ==
    ASSUME IInv, NEW t \in Threads, pc[t] = "swap", ValueOf(TailOf) # Null,
           queue' = Append(queue, t), Goto(t, "link")
    PROVE  Fifo!Enqueue(Main, t)
<1>1. ~Member(t)
  BY DEF IInv, QueueMembers, Queued, Waits, Holds
<1>2. ~Fifo!InLine(t) /\ Line[Main] # <<>>
  BY <1>1, LineOf, TailTells
<1>3. Line' = [Line EXCEPT ![Main] = Append(@, t)]
  BY DEF Line, TheLock
<1>4. UNCHANGED Held
  BY LockKept
<1> QED BY <1>2, <1>3, <1>4 DEF Fifo!Enqueue

LEMMA EnterRefines ==
    ASSUME IInv, NEW t \in Threads, pc[t] \in {"swap", "trycas"}, ValueOf(TailOf) = Null,
           queue' = Append(queue, t), Goto(t, "guard")
    PROVE  Fifo!Enter(Main, t)
<1>1. ~Member(t)
  BY DEF IInv, QueueMembers, Queued, Waits, Holds
<1>2. queue = <<>> /\ ~Fifo!InLine(t) /\ Line[Main] = <<>>
  BY <1>1, LineOf, TailTells
<1>3. queue' = <<t>>
  BY <1>2
<1>4. Line' = [Line EXCEPT ![Main] = <<t>>]
  BY <1>3 DEF Line, TheLock
<1>5. \A u \in Threads : pc'[u] \in {"guard", "derefmut", "relload", "relcas", "relwait",
                                     "handoff"} <=> u = t
  <2>1. \A u \in Threads : ~Holds(u)
    BY <1>2, LineOf, Relations, Neighbours, Basics
  <2>2. pc'[t] = "guard" /\ \A u \in Threads \ {t} : pc'[u] = pc[u]
    BY Basics DEF IInv, TypeOK, LocalsOK, Goto
  <2> QED BY <2>1, <2>2 DEF Holds
<1>6. Holders' = {t}
  BY <1>5 DEF Holders
<1>7. Held' = [Held EXCEPT ![Main] = {t}]
  BY <1>6 DEF Held, TheLock
<1> QED BY <1>2, <1>4, <1>7 DEF Fifo!Enter

LEMMA GrantRefines ==
    ASSUME IInv, NEW t \in Threads, SpinEnd(t)
    PROVE  Fifo!Grant(Main)
<1>1. Unaware(t) /\ pc[t] = "spin" /\ First(t)
  BY SpinSees DEF Unaware
<1>2. queue # <<>> /\ Head(queue) = t
  BY <1>1, LineOf, Basics, Neighbours DEF First
<1>3. \A u \in Threads : ~Holds(u)
  BY <1>1, Relations DEF Holds
<1>4. Holders = {}
  BY <1>3 DEF Holders, Holds
<1>5. Holders' = {t}
  <2>1. pc'[t] = "guard" /\ \A u \in Threads \ {t} : pc'[u] = pc[u]
    BY Basics DEF IInv, TypeOK, LocalsOK, SpinEnd, Granted, Goto
  <2> QED BY <1>3, <2>1 DEF Holders, Holds
<1>6. Held' = [Held EXCEPT ![Main] = {t}]
  BY <1>5 DEF Held, TheLock
<1>7. UNCHANGED Line
  BY DEF Line, SpinEnd
<1> QED BY <1>2, <1>4, <1>6, <1>7, LineOf DEF Fifo!Grant

LEMMA ReleaseRefines ==
    ASSUME IInv, NEW t \in Threads, Holds(t), queue' = Tail(queue), Goto(t, "idle")
    PROVE  Fifo!Release(Main)
<1>1. First(t) /\ \A u \in Threads : Holds(u) => u = t
  BY Relations
<1>2. queue # <<>> /\ Head(queue) = t
  BY <1>1, LineOf, Basics, Neighbours DEF First
<1>3. t \in Holders
  BY LineOf
<1>4. Holders' = Holders \ {t}
  <2>1. pc'[t] = "idle" /\ \A u \in Threads \ {t} : pc'[u] = pc[u]
    BY Basics DEF IInv, TypeOK, LocalsOK, Goto
  <2> QED BY <1>1, <2>1 DEF Holders, Holds
<1>5. Held' = [Held EXCEPT ![Main] = @ \ {t}]
  BY <1>4 DEF Held, TheLock
<1>6. Line' = [Line EXCEPT ![Main] = Tail(@)]
  BY DEF Line, TheLock
<1> QED BY <1>2, <1>3, <1>5, <1>6, LineOf DEF Fifo!Release

LEMMA StepRefines == IInv /\ [Next]_vars => [Fifo!Next]_<<Line, Held>>
<1> SUFFICES ASSUME IInv, [Next]_vars
             PROVE  [Fifo!Next]_<<Line, Held>>
  OBVIOUS
<1>0. pc \in [Processes -> Labels] /\ QueueOK
  BY Basics DEF IInv, TypeOK, LocalsOK
<1>1. ASSUME UNCHANGED queue
      PROVE  UNCHANGED Line
  BY <1>1 DEF Line
<1>2. ASSUME NEW t \in Threads, NEW label, pc[t] \notin {"guard", "derefmut", "relload",
                 "relcas", "relwait", "handoff"},
             label \notin {"guard", "derefmut", "relload", "relcas", "relwait", "handoff"},
             Goto(t, label)
      PROVE  UNCHANGED Held
  BY <1>2, LockKept
<1>3. ASSUME NEW t \in Threads, NEW label, pc[t] \in {"guard", "derefmut", "relload",
                 "relcas", "relwait", "handoff"},
             label \in {"guard", "derefmut", "relload", "relcas", "relwait", "handoff"},
             Goto(t, label)
      PROVE  UNCHANGED Held
  BY <1>3, LockKept
<1>4. ASSUME NEW t \in Threads, Step(t)
      PROVE  Fifo!Next \/ UNCHANGED <<Line, Held>>
  <2>1. CASE LockBegin(t) \/ TryLockBegin(t)
    BY <1>1, <1>2, <2>1 DEF LockBegin, TryLockBegin, Begin
  <2>2. CASE Swap(t)
    <3>1. CASE ValueOf(TailOf) = Null
      <4>1. Fifo!Enter(Main, t)
        BY <2>2, <3>1, EnterRefines DEF Swap, Granted
      <4> QED BY <4>1 DEF Fifo!Next, TheLock
    <3>2. CASE ValueOf(TailOf) # Null
      <4>1. Fifo!Enqueue(Main, t)
        BY <2>2, <3>2, EnqueueRefines DEF Swap
      <4> QED BY <4>1 DEF Fifo!Next, TheLock
    <3> QED BY <3>1, <3>2
  <2>3. CASE Link(t)
    BY <1>1, <1>2, <2>3 DEF Link
  <2>4. CASE SpinEnd(t)
    BY <2>4, GrantRefines DEF Fifo!Next, TheLock
  <2>5. CASE TryCas(t)
    <3>1. CASE ValueOf(TailOf) = Null /\ queue' = Append(queue, t) /\ Granted(t)
      <4>1. Fifo!Enter(Main, t)
        BY <2>5, <3>1, EnterRefines DEF TryCas, Granted
      <4> QED BY <4>1 DEF Fifo!Next, TheLock
    <3>2. CASE Goto(t, "idle") /\ UNCHANGED queue
      BY <1>1, <1>2, <2>5, <3>2 DEF TryCas
    <3> QED BY <2>5, <3>1, <3>2 DEF TryCas
  <2>6. CASE ReadData(t)
    BY <1>1, <1>3, <2>6 DEF ReadData
  <2>7. CASE WriteData(t)
    BY <1>1, <1>3, <2>7 DEF WriteData
  <2>8. CASE RelLoad(t)
    <3>1. PICK label \in {"relcas", "handoff"} : Goto(t, label)
      BY <2>8 DEF RelLoad
    <3> QED BY <1>1, <1>3, <2>8, <3>1 DEF RelLoad
  <2>9. CASE RelCas(t)
    <3>0. Holds(t)
      BY <2>9 DEF RelCas, Holds
    <3>1. CASE ValueOf(TailOf) = t /\ queue' = <<>> /\ Goto(t, "idle")
      <4>1. First(t) /\ Final(t)
        BY <3>0, <3>1, Relations, TailTells
      <4>2. queue' = Tail(queue)
        BY <1>0, <3>1, <4>1, OnlyOne
      <4>3. Fifo!Release(Main)
        BY <3>0, <3>1, <4>2, ReleaseRefines
      <4> QED BY <4>3 DEF Fifo!Next, TheLock
    <3>2. CASE Goto(t, "relwait") /\ UNCHANGED queue
      BY <1>1, <1>3, <2>9, <3>2 DEF RelCas
    <3> QED BY <2>9, <3>1, <3>2 DEF RelCas
  <2>10. CASE RelWait(t)
    BY <1>1, <1>3, <2>10 DEF RelWait
  <2>11. CASE Handoff(t)
    <3>1. Fifo!Release(Main)
      BY <2>11, ReleaseRefines DEF Handoff, Holds
    <3> QED BY <3>1 DEF Fifo!Next, TheLock
  <2>12. CASE PoolDrop(t)
    BY <1>1, <1>2, <2>12 DEF PoolDrop
  <2>13. CASE JoinOne(t)
    BY <1>1, <1>2, <2>13 DEF JoinOne
  <2> QED BY <1>4, <2>1, <2>2, <2>3, <2>4, <2>5, <2>6, <2>7, <2>8, <2>9, <2>10, <2>11,
             <2>12, <2>13 DEF Step
<1>5. CASE GetMut \/ IntoInner
  <2>1. \A t \in Threads : pc'[t] = pc[t]
    BY <1>0, <1>5, Basics DEF GetMut, IntoInner, Goto
  <2>2. UNCHANGED Held
    BY <2>1 DEF Held, Holders
  <2> QED BY <1>1, <1>5, <2>2 DEF GetMut, IntoInner
<1>6. CASE SpawnAll
  <2>1. \A t \in Threads : pc[t] = "unborn" /\ pc'[t] = "idle"
    BY <1>6, Basics DEF SpawnAll, IInv, Births, Alone
  <2>2. UNCHANGED Held
    BY <2>1 DEF Held, Holders
  <2> QED BY <1>1, <1>6, <2>2 DEF SpawnAll
<1>7. CASE UNCHANGED vars
  BY <1>7 DEF vars, locals, Line, Held, Holders
<1> QED BY <1>4, <1>5, <1>6, <1>7 DEF Next, Over

(* Stale loads included, the lock is granted to one thread at a time, in   *)
(* the order of the swaps: a swap or a compare_exchange that finds the     *)
(* tail null enters, any other swap enqueues, the end of the spin is the   *)
(* grant, and both ends of release release.                                *)
THEOREM Refinement == Spec => ImplementsFifoLock
<1>1. ASSUME Init
      PROVE  Fifo!Init
  <2>1. queue = <<>> /\ \A t \in Threads : pc[t] = "unborn"
    BY <1>1, MainAssumption DEF Init
  <2>2. Holders = {}
    BY <2>1 DEF Holders
  <2> QED BY <2>1, <2>2 DEF Fifo!Init, Line, Held
<1> QED
  BY <1>1, StepRefines, Invariance, PTL DEF Spec, Fifo!Spec, Fifo!vars, ImplementsFifoLock

================================================================================
