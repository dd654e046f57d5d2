----------------------------- MODULE NodePoolProofs -----------------------------
(***************************************************************************)
(* The free list of NodePool is what its history variable says, its nodes  *)
(* are each in one place, and so it does what NodeSupply promises.         *)
(***************************************************************************)
EXTENDS NodePool, FiniteSetTheorems, SequenceTheorems, TLAPS

(* Sequences at their front.                                               *)

LEMMA PushedSeq ==
    ASSUME NEW s \in Seq(Nodes), NEW n \in Nodes
    PROVE  /\ <<n>> \o s \in Seq(Nodes)
           /\ Len(<<n>> \o s) = Len(s) + 1
           /\ \A i \in 1..Len(s) + 1 : (<<n>> \o s)[i] = IF i = 1 THEN n ELSE s[i - 1]
  OBVIOUS

LEMMA PoppedSeq ==
    ASSUME NEW s \in Seq(Nodes), s # <<>>
    PROVE  /\ Rest(s) \in Seq(Nodes)
           /\ Len(s) > 0 /\ Len(Rest(s)) = Len(s) - 1
           /\ \A i \in 1..Len(s) - 1 : Rest(s)[i] = s[i + 1]
<1>1. Len(s) \in Nat /\ Len(s) > 0 /\ \A i \in 2..Len(s) : s[i] \in Nodes
  OBVIOUS
<1>2. /\ Rest(s) \in Seq(Nodes)
      /\ Len(Rest(s)) = IF 2 <= Len(s) THEN Len(s) - 2 + 1 ELSE 0
      /\ \A i \in 1..Len(s) - 2 + 1 : Rest(s)[i] = s[2 + i - 1]
  BY <1>1, SubSeqProperties DEF Rest
<1>3. Len(s) - 2 + 1 = Len(s) - 1 /\ \A i \in 1..Len(s) - 1 : 2 + i - 1 = i + 1
  BY <1>1
<1>4. \A i \in 1..Len(s) - 1 : Rest(s)[i] = s[i + 1]
  BY <1>2, <1>3, Zenon
<1>5. Len(Rest(s)) = Len(s) - 1
  <2>1. ASSUME NEW l, NEW k \in Nat, k > 0, l = IF 2 <= k THEN k - 2 + 1 ELSE 0
        PROVE  l = k - 1
    BY <2>1
  <2> QED BY <1>1, <1>2, <2>1, Zenon
<1> QED BY <1>1, <1>2, <1>4, <1>5

(* The first of a list that is not empty, and what is at its front.        *)
LEMMA FrontIsFirst ==
    ASSUME IInv, NEW t \in Threads, Front(t) # Null
    PROVE  /\ list[t] # <<>> /\ list[t][1] = Front(t) /\ Front(t) \in Listed(t)
           /\ poolNext[Front(t)] = NodeAt(t, 2)
<1>1. list[t] \in Seq(Nodes)
  BY DEF IInv, TypeOK
<1>2. Front(t) = NodeAt(t, 1)
  BY DEF IInv, ListIsLinked
<1>3. 1 \in DOMAIN list[t] /\ list[t][1] = Front(t)
  BY <1>2 DEF NodeAt
<1>4. poolNext[list[t][1]] = NodeAt(t, 1 + 1)
  BY <1>3 DEF IInv, ListIsLinked
<1> QED BY <1>1, <1>3, <1>4 DEF Listed

LEMMA EmptyWithoutFront ==
    ASSUME IInv, NEW t \in Threads, Front(t) = Null
    PROVE  list[t] = <<>>
<1>1. list[t] \in Seq(Nodes)
  BY DEF IInv, TypeOK
<1>2. NodeAt(t, 1) = Null
  BY DEF IInv, ListIsLinked
<1>3. 1 \notin DOMAIN list[t]
  BY <1>1, <1>2, NullAssumption DEF NodeAt
<1> QED BY <1>1, <1>3

--------------------------------------------------------------------------------
(* The list of one thread.                                                 *)

LinkedFor(t) ==
    /\ Front(t) = NodeAt(t, 1)
    /\ \A i \in DOMAIN list[t] : poolNext[list[t][i]] = NodeAt(t, i + 1)
    /\ stage[t] = "free" => node[t] # Null /\ nx[t] = NodeAt(t, 2)
    /\ stage[t] = "gone" => list[t] = <<>>
    /\ stage[t] # "alive" => head[t] = Null

Distinct(t) == \A i, j \in DOMAIN list[t] : list[t][i] = list[t][j] => i = j

(* A step that touches neither its pointers nor the links of its nodes.    *)
LEMMA LinkedStays ==
    ASSUME NEW u \in Threads, LinkedFor(u),
           list'[u] = list[u], head'[u] = head[u], node'[u] = node[u],
           nx'[u] = nx[u], stage'[u] = stage[u],
           \A n \in Listed(u) : poolNext'[n] = poolNext[n]
    PROVE  LinkedFor(u)' /\ Listed(u)' = Listed(u) /\ (Distinct(u) => Distinct(u)')
  BY DEF LinkedFor, NodeAt, Front, Listed, Distinct

(* Taking the first node off.                                              *)
LEMMA LinkedPop ==
    ASSUME IInv, NEW t \in Threads, Front(t) # Null,
           list'[t] = Rest(list[t]),
           \A n \in Nodes : n # Front(t) => poolNext'[n] = poolNext[n],
           Front(t)' = NodeAt(t, 2), stage'[t] \in {"alive", "read"},
           stage'[t] = "read" => head'[t] = Null
    PROVE  LinkedFor(t)' /\ Distinct(t)' /\ Listed(t)' = Listed(t) \ {Front(t)}
<1> DEFINE s == list[t]
<1>1. s \in Seq(Nodes) /\ s # <<>> /\ s[1] = Front(t)
  BY FrontIsFirst DEF IInv, TypeOK
<1>2. /\ list'[t] = Rest(s) /\ Len(s) > 0
      /\ DOMAIN list'[t] = 1..Len(s) - 1
      /\ \A i \in 1..Len(s) - 1 : list'[t][i] = s[i + 1]
  BY <1>1, PoppedSeq
<1>3. \A i, j \in 1..Len(s) : s[i] = s[j] => i = j
  BY <1>1 DEF IInv, OnePlace
<1>4. \A i \in 1..Len(s) : s[i] \in Nodes
  BY <1>1
<1>5. \A i \in 1..Len(s) - 1 : s[i + 1] # s[1]
  BY <1>2, <1>3
<1>6. \A i \in 1..Len(s) : NodeAt(t, i)' = NodeAt(t, i + 1)
  BY <1>1, <1>2 DEF NodeAt
<1>7. Front(t)' = NodeAt(t, 1)'
  BY <1>2, <1>6
<1>8. \A i \in DOMAIN list'[t] : poolNext'[list'[t][i]] = NodeAt(t, i + 1)'
  <2>1. SUFFICES ASSUME NEW i \in 1..Len(s) - 1
                 PROVE  poolNext'[s[i + 1]] = NodeAt(t, i + 2)
    BY <1>1, <1>2, <1>6
  <2>2. poolNext'[s[i + 1]] = poolNext[s[i + 1]]
    BY <1>1, <1>2, <1>4, <1>5
  <2>3. i + 1 \in DOMAIN list[t]
    BY <1>1
  <2>4. poolNext[s[i + 1]] = NodeAt(t, (i + 1) + 1)
    BY <2>3 DEF IInv, ListIsLinked
  <2> QED BY <2>2, <2>4
<1>9. Listed(t)' = Listed(t) \ {Front(t)}
  <2>1. \A n : n \in Listed(t) <=> \E i \in 1..Len(s) : s[i] = n
    BY <1>1 DEF Listed
  <2>2. \A n : n \in Listed(t)' <=> \E i \in 1..Len(s) - 1 : s[i + 1] = n
    BY <1>2 DEF Listed
  <2>3. \A n : n \in Listed(t)' => n \in Listed(t) /\ n # s[1]
    BY <1>2, <1>5, <2>1, <2>2
  <2>4. ASSUME NEW n \in Listed(t), n # s[1] PROVE n \in Listed(t)'
    <3>1. PICK i \in 1..Len(s) : s[i] = n
      BY <2>1
    <3>2. i - 1 \in 1..Len(s) - 1 /\ s[(i - 1) + 1] = n
      BY <1>2, <2>4, <3>1
    <3> QED BY <2>2, <3>2
  <2> QED BY <1>1, <2>3, <2>4
<1>10. Distinct(t)'
  <2>1. \A i, j \in 1..Len(s) - 1 : s[i + 1] = s[j + 1] => i = j
    BY <1>1, <1>3
  <2> QED BY <1>2, <2>1 DEF Distinct
<1> QED BY <1>7, <1>8, <1>9, <1>10 DEF LinkedFor

(* Putting a node in front.                                                *)
LEMMA LinkedPush ==
    ASSUME IInv, NEW t \in Threads, NEW n \in Nodes, Push(t, n)
    PROVE  LinkedFor(t)' /\ Distinct(t)' /\ Listed(t)' = Listed(t) \cup {n}
<1> DEFINE s == list[t]
<1>1. s \in Seq(Nodes) /\ list'[t] = <<n>> \o s /\ stage[t] = "alive" /\ stage'[t] = "alive"
  BY DEF IInv, TypeOK, Push
<1>2. /\ DOMAIN list'[t] = 1..Len(s) + 1
      /\ \A i \in 1..Len(s) + 1 : list'[t][i] = IF i = 1 THEN n ELSE s[i - 1]
  BY <1>1, PushedSeq
<1>3. /\ head'[t] = n
      /\ \A m \in Nodes : poolNext'[m] = IF m = n THEN head[t] ELSE poolNext[m]
  BY DEF IInv, TypeOK, Push
<1>4. n \notin Listed(t)
  BY DEF IInv, OnePlace, Push, LetGo
<1>5. \A i \in 1..Len(s) : s[i] \in Nodes /\ s[i] # n
  BY <1>1, <1>4 DEF Listed
<1>6. \A i \in 1..Len(s) + 1 : NodeAt(t, i + 1)' = NodeAt(t, i)
  BY <1>1, <1>2 DEF NodeAt
<1>7. Front(t)' = NodeAt(t, 1)'
  BY <1>1, <1>2, <1>3 DEF Front, NodeAt
<1>8. \A i \in DOMAIN list'[t] : poolNext'[list'[t][i]] = NodeAt(t, i + 1)'
  <2>1. head[t] = NodeAt(t, 1)
    BY <1>1 DEF IInv, ListIsLinked, Front
  <2>2. SUFFICES ASSUME NEW i \in 1..Len(s) + 1
                 PROVE  poolNext'[list'[t][i]] = NodeAt(t, i)
    BY <1>2, <1>6
  <2>3. CASE i = 1
    BY <1>2, <1>3, <2>1, <2>3
  <2>4. CASE i # 1
    <3>1. i - 1 \in DOMAIN list[t] /\ list'[t][i] = s[i - 1]
      BY <1>1, <1>2, <2>4
    <3>2. poolNext[s[i - 1]] = NodeAt(t, (i - 1) + 1)
      BY <3>1 DEF IInv, ListIsLinked
    <3> QED BY <1>1, <1>3, <1>5, <3>1, <3>2
  <2> QED BY <2>3, <2>4
<1>9. Listed(t)' = Listed(t) \cup {n}
  <2>1. \A m : m \in Listed(t) <=> \E i \in 1..Len(s) : s[i] = m
    <3>1. DOMAIN list[t] = 1..Len(s)
      BY <1>1
    <3> QED BY <3>1 DEF Listed
  <2>2. \A m : m \in Listed(t)' <=> \E i \in 1..Len(s) + 1 : list'[t][i] = m
    BY <1>2 DEF Listed
  <2>3. \A m : m \in Listed(t)' => m \in Listed(t) \cup {n}
    <3>1. \A i \in 1..Len(s) + 1 : i = 1 \/ i - 1 \in 1..Len(s)
      BY <1>1
    <3> QED BY <1>2, <2>1, <2>2, <3>1
  <2>4. n \in Listed(t)'
    <3>1. 1 \in 1..Len(s) + 1
      BY <1>1
    <3> QED BY <1>2, <2>2, <3>1
  <2>5. \A m \in Listed(t) : m \in Listed(t)'
    <3>1. \A i \in 1..Len(s) : i + 1 \in 1..Len(s) + 1 /\ list'[t][i + 1] = s[i]
      BY <1>1, <1>2
    <3> QED BY <2>1, <2>2, <3>1
  <2> QED BY <2>3, <2>4, <2>5
<1>10. Distinct(t)'
  <2>1. \A i, j \in 1..Len(s) : s[i] = s[j] => i = j
    BY <1>1 DEF IInv, OnePlace
  <2>2. \A i \in 1..Len(s) + 1 : i # 1 => i - 1 \in 1..Len(s)
    BY <1>1
  <2>3. ASSUME NEW i \in 1..Len(s) + 1, NEW j \in 1..Len(s) + 1, list'[t][i] = list'[t][j]
        PROVE  i = j
    <3>1. CASE i = 1 \/ j = 1
      BY <1>2, <1>5, <2>2, <2>3, <3>1
    <3>2. CASE i # 1 /\ j # 1
      <4>1. i - 1 = j - 1
        BY <1>2, <2>1, <2>2, <2>3, <3>2
      <4> QED BY <4>1
    <3> QED BY <3>1, <3>2
  <2> QED BY <1>2, <2>3 DEF Distinct
<1> QED BY <1>1, <1>7, <1>8, <1>9, <1>10 DEF LinkedFor


--------------------------------------------------------------------------------
(* The invariant.                                                          *)

LEMMA InitInv == Init => IInv
<1> SUFFICES ASSUME Init PROVE IInv
  OBVIOUS
<1>1. TypeOK
  BY DEF Init, TypeOK, Stages
<1>2. \A t \in Threads : LinkedFor(t) /\ Listed(t) = {}
  BY DEF Init, LinkedFor, Front, NodeAt, Listed
<1>3. HeldIsFinite
  BY FS_EmptySet DEF Init, HeldIsFinite
<1> QED BY <1>1, <1>2, <1>3 DEF Init, IInv, ListIsLinked, LinkedFor, UnlinkedWhileHeld, OnePlace

(* What holds of one thread by itself, and of two.                         *)
Sound(t) ==
    /\ LinkedFor(t)
    /\ Distinct(t)
    /\ \A n \in held[t] : poolNext[n] = Null
    /\ Listed(t) \cup held[t] \subseteq heap
    /\ Listed(t) \cap held[t] = {}
    /\ IsFiniteSet(held[t])

Apart(t, u) == (Listed(t) \cup held[t]) \cap (Listed(u) \cup held[u]) = {}

LEMMA IInvParts ==
    IInv <=> /\ TypeOK
             /\ \A t \in Threads : Sound(t)
             /\ \A t, u \in Threads : t # u => Apart(t, u)
  BY DEF IInv, Sound, Apart, LinkedFor, Distinct,
         ListIsLinked, UnlinkedWhileHeld, OnePlace, HeldIsFinite

(* A step of t disturbs no other thread, if all it writes to is a node     *)
(* that is not theirs, and all it gains is such a node.                    *)
LEMMA OthersSound ==
    ASSUME IInv, TypeOK', NEW t \in Threads, NEW n, Sound(t)',
           \A u \in Threads \ {t} :
               /\ n \notin Listed(u) \cup held[u]
               /\ list'[u] = list[u] /\ head'[u] = head[u] /\ node'[u] = node[u]
               /\ nx'[u] = nx[u] /\ stage'[u] = stage[u] /\ held'[u] = held[u],
           \A m \in Nodes : m # n => poolNext'[m] = poolNext[m],
           heap \ {n} \subseteq heap',
           Listed(t)' \cup held'[t] \subseteq Listed(t) \cup held[t] \cup {n}
    PROVE  IInv'
<1>1. \A u \in Threads : Sound(u)
  BY IInvParts
<1>2. ASSUME NEW u \in Threads \ {t} PROVE Sound(u)' /\ Listed(u)' = Listed(u)
  <2>1. Listed(u) \subseteq Nodes /\ held[u] \subseteq Nodes
    BY DEF IInv, TypeOK, Listed
  <2>2. LinkedFor(u)' /\ Listed(u)' = Listed(u) /\ Distinct(u)'
    BY <1>1, <2>1, LinkedStays DEF Sound
  <2> QED BY <1>1, <2>1, <2>2 DEF Sound
<1>3. \A u, v \in Threads : u # v => Apart(u, v)'
  <2>1. \A u, v \in Threads \ {t} : u # v => Apart(u, v)'
    BY <1>2, IInvParts DEF Apart
  <2>2. \A u \in Threads \ {t} : Apart(t, u)' /\ Apart(u, t)'
    BY <1>2, IInvParts DEF Apart
  <2> QED BY <2>1, <2>2
<1>4. IInv' <=> /\ TypeOK'
                /\ \A u \in Threads : Sound(u)'
                /\ \A u, v \in Threads : u # v => Apart(u, v)'
  BY DEF IInv, Sound, Apart, LinkedFor, Distinct,
         ListIsLinked, UnlinkedWhileHeld, OnePlace, HeldIsFinite
<1> QED BY <1>2, <1>3, <1>4


LEMMA Elsewhere ==
    ASSUME IInv, NEW t \in Threads, NEW n \in Listed(t) \cup held[t]
    PROVE  n \in heap /\ \A u \in Threads \ {t} : n \notin Listed(u) \cup held[u]
  BY IInvParts DEF Sound, Apart

LEMMA Holding ==
    ASSUME IInv, NEW t \in Threads, NEW n \in Nodes, Hold(t, n)
    PROVE  /\ held' \in [Threads -> SUBSET Nodes]
           /\ peak' \in [Threads -> Nat]
           /\ \A u \in Threads : held'[u] = IF u = t THEN held[t] \cup {n} ELSE held[u]
           /\ IsFiniteSet(held'[t])
           /\ (Cardinality(held[t]) <= peak[t] => Cardinality(held'[t]) <= peak'[t])
           /\ peak[t] <= peak'[t]
<1>1. /\ held' \in [Threads -> SUBSET Nodes]
      /\ \A u \in Threads : held'[u] = IF u = t THEN held[t] \cup {n} ELSE held[u]
  BY DEF IInv, TypeOK, Hold
<1>2. /\ IsFiniteSet(held[t]) /\ Cardinality(held[t]) \in Nat
      /\ IsFiniteSet(held'[t]) /\ Cardinality(held'[t]) \in Nat
      /\ Cardinality(held[t]) <= Cardinality(held'[t])
      /\ Cardinality(held'[t]) <= Cardinality(held[t]) + 1
  <2> DEFINE h == held[t]
  <2>1. IsFiniteSet(h) /\ held'[t] = h \cup {n}
    BY <1>1 DEF IInv, HeldIsFinite
  <2>2. /\ IsFiniteSet(h \cup {n})
        /\ Cardinality(h \cup {n}) = IF n \in h THEN Cardinality(h) ELSE Cardinality(h) + 1
    BY <2>1, FS_AddElement
  <2>3. Cardinality(h) \in Nat
    BY <2>1, FS_CardinalityType
  <2> HIDE DEF h
  <2>4. /\ IsFiniteSet(held'[t]) /\ Cardinality(held'[t]) \in Nat
        /\ Cardinality(h) <= Cardinality(held'[t])
        /\ Cardinality(held'[t]) <= Cardinality(h) + 1
    BY <2>1, <2>2, <2>3
  <2> QED BY <2>1, <2>3, <2>4 DEF h
<1>3. peak' = [peak EXCEPT ![t] =
                  IF peak[t] > Cardinality(held[t]) THEN peak[t] ELSE Cardinality(held'[t])]
  BY DEF Hold
<1>4. peak \in [Threads -> Nat]
  BY DEF IInv, TypeOK
<1>5. peak' \in [Threads -> Nat]
  BY <1>2, <1>3, <1>4
<1>6. peak'[t] = IF peak[t] > Cardinality(held[t]) THEN peak[t] ELSE Cardinality(held'[t])
  BY <1>3, <1>4
<1> QED BY <1>1, <1>2, <1>4, <1>5, <1>6

LEMMA StepRecycle ==
    ASSUME IInv, NEW t \in Threads, Recycle(t)
    PROVE  IInv' /\ Listed(t)' = Listed(t) \ {head[t]} /\ head[t] \in Listed(t)
<1> DEFINE n == head[t]
<1>1. n \in Nodes /\ Front(t) = n /\ Front(t) # Null
  BY DEF IInv, TypeOK, Recycle, Front
<1>2. list[t] # <<>> /\ n \in Listed(t) /\ poolNext[n] = NodeAt(t, 2)
  BY <1>1, FrontIsFirst
<1>3. /\ head' = [head EXCEPT ![t] = poolNext[n]]
      /\ poolNext' = [poolNext EXCEPT ![n] = Null]
      /\ list' = [list EXCEPT ![t] = Rest(list[t])]
      /\ Hold(t, n)
      /\ stage[t] = "alive" /\ UNCHANGED <<heap, stage, node, nx>>
  BY DEF Recycle
<1>4. n \in heap /\ \A u \in Threads \ {t} : n \notin Listed(u) \cup held[u]
  BY <1>2, Elsewhere
<1>5. TypeOK'
  <2>1. Rest(list[t]) \in Seq(Nodes)
    BY <1>2, PoppedSeq DEF IInv, TypeOK
  <2> QED BY <1>1, <1>3, <2>1, Holding DEF IInv, TypeOK
<1>6. LinkedFor(t)' /\ Distinct(t)' /\ Listed(t)' = Listed(t) \ {n}
  <2>1. list'[t] = Rest(list[t]) /\ head'[t] = poolNext[n]
    BY <1>3 DEF IInv, TypeOK
  <2>2. \A m \in Nodes : m # n => poolNext'[m] = poolNext[m]
    BY <1>3 DEF IInv, TypeOK
  <2>3. Front(t)' = NodeAt(t, 2) /\ stage'[t] = "alive"
    BY <1>2, <1>3, <2>1 DEF Front
  <2> QED BY <1>1, <2>1, <2>2, <2>3, LinkedPop
<1>7. /\ \A u \in Threads : held'[u] = IF u = t THEN held[t] \cup {n} ELSE held[u]
      /\ IsFiniteSet(held'[t])
  BY <1>1, <1>3, Holding
<1>8. Sound(t)'
  <2>1. \A m \in held'[t] : poolNext'[m] = Null
    BY <1>1, <1>3, <1>7, IInvParts DEF Sound, TypeOK
  <2>2. Sound(t)
    BY IInvParts
  <2> QED BY <1>3, <1>4, <1>6, <1>7, <2>1, <2>2 DEF Sound
<1>9. \A u \in Threads \ {t} :
          /\ list'[u] = list[u] /\ head'[u] = head[u] /\ node'[u] = node[u]
          /\ nx'[u] = nx[u] /\ stage'[u] = stage[u] /\ held'[u] = held[u]
  BY <1>3, <1>7 DEF IInv, TypeOK
<1>10. \A m \in Nodes : m # n => poolNext'[m] = poolNext[m]
  BY <1>3 DEF IInv, TypeOK
<1>11. IInv'
  BY <1>3, <1>4, <1>5, <1>6, <1>7, <1>8, <1>9, <1>10, OthersSound
<1> QED BY <1>2, <1>6, <1>11

LEMMA StepAllocate ==
    ASSUME IInv, NEW t \in Threads, NEW n \in Nodes, Allocate(t, n)
    PROVE  IInv'
<1>1. /\ n \notin heap /\ heap' = heap \cup {n}
      /\ poolNext' = [poolNext EXCEPT ![n] = Null]
      /\ Hold(t, n)
      /\ UNCHANGED <<head, stage, node, nx, list>>
  BY DEF Allocate
<1>2. \A u \in Threads : n \notin Listed(u) \cup held[u] /\ Sound(u)
  BY <1>1, IInvParts DEF Sound
<1>3. TypeOK'
  BY <1>1, Holding DEF IInv, TypeOK
<1>4. \A m \in Nodes : m # n => poolNext'[m] = poolNext[m]
  BY <1>1 DEF IInv, TypeOK
<1>5. /\ \A u \in Threads : held'[u] = IF u = t THEN held[t] \cup {n} ELSE held[u]
      /\ IsFiniteSet(held'[t])
  BY <1>1, Holding
<1>6. LinkedFor(t)' /\ Distinct(t)' /\ Listed(t)' = Listed(t)
  <2>1. Listed(t) \subseteq Nodes
    BY DEF IInv, TypeOK, Listed
  <2> QED BY <1>1, <1>2, <1>4, <2>1, LinkedStays DEF Sound
<1>7. Sound(t)'
  <2>1. \A m \in held'[t] : poolNext'[m] = Null
    BY <1>1, <1>2, <1>5, IInvParts DEF Sound, TypeOK
  <2> QED BY <1>1, <1>2, <1>5, <1>6, <2>1 DEF Sound
<1> QED BY <1>1, <1>2, <1>3, <1>4, <1>5, <1>6, <1>7, OthersSound


(* A thread stops using one of its nodes.                                  *)
LEMMA LettingGo ==
    ASSUME IInv, NEW t \in Threads, NEW n \in Nodes, LetGo(t, n)
    PROVE  /\ n \in held[t]
           /\ held' \in [Threads -> SUBSET Nodes]
           /\ \A u \in Threads : held'[u] = IF u = t THEN held[t] \ {n} ELSE held[u]
           /\ IsFiniteSet(held'[t])
           /\ Cardinality(held'[t]) = Cardinality(held[t]) - 1
<1>1. /\ n \in held[t] /\ IsFiniteSet(held[t])
      /\ held' \in [Threads -> SUBSET Nodes]
      /\ \A u \in Threads : held'[u] = IF u = t THEN held[t] \ {n} ELSE held[u]
  BY DEF IInv, TypeOK, HeldIsFinite, LetGo
<1> DEFINE h == held[t]
<1>2. /\ IsFiniteSet(h \ {n})
      /\ Cardinality(h \ {n}) = IF n \in h THEN Cardinality(h) - 1 ELSE Cardinality(h)
  BY <1>1, FS_RemoveElement
<1> QED BY <1>1, <1>2

LEMMA StepPush ==
    ASSUME IInv, NEW t \in Threads, NEW n \in Nodes, Push(t, n)
    PROVE  IInv' /\ Listed(t)' = Listed(t) \cup {n}
<1>1. /\ LetGo(t, n)
      /\ poolNext' = [poolNext EXCEPT ![n] = head[t]]
      /\ head' = [head EXCEPT ![t] = n]
      /\ list' = [list EXCEPT ![t] = <<n>> \o list[t]]
      /\ UNCHANGED <<heap, stage, node, nx, peak>>
  BY DEF Push
<1>2. /\ n \in held[t] /\ held' \in [Threads -> SUBSET Nodes]
      /\ \A u \in Threads : held'[u] = IF u = t THEN held[t] \ {n} ELSE held[u]
      /\ IsFiniteSet(held'[t])
  BY <1>1, LettingGo
<1>3. n \in heap /\ \A u \in Threads \ {t} : n \notin Listed(u) \cup held[u]
  BY <1>2, Elsewhere
<1>4. TypeOK'
  <2>1. <<n>> \o list[t] \in Seq(Nodes)
    BY PushedSeq DEF IInv, TypeOK
  <2> QED BY <1>1, <1>2, <2>1 DEF IInv, TypeOK
<1>5. LinkedFor(t)' /\ Distinct(t)' /\ Listed(t)' = Listed(t) \cup {n}
  BY LinkedPush
<1>6. \A m \in Nodes : m # n => poolNext'[m] = poolNext[m]
  BY <1>1 DEF IInv, TypeOK
<1>7. Sound(t)'
  <2>1. Sound(t) /\ held[t] \subseteq Nodes
    BY IInvParts DEF TypeOK
  <2>2. \A m \in held'[t] : poolNext'[m] = Null
    BY <1>2, <1>6, <2>1 DEF Sound
  <2>3. Listed(t)' \cup held'[t] \subseteq heap' /\ Listed(t)' \cap held'[t] = {}
    BY <1>1, <1>2, <1>3, <1>5, <2>1 DEF Sound
  <2> QED BY <1>2, <1>5, <2>2, <2>3 DEF Sound
<1>8. \A u \in Threads \ {t} :
          /\ list'[u] = list[u] /\ head'[u] = head[u] /\ node'[u] = node[u]
          /\ nx'[u] = nx[u] /\ stage'[u] = stage[u] /\ held'[u] = held[u]
  BY <1>1, <1>2 DEF IInv, TypeOK
<1>9. /\ heap \ {n} \subseteq heap'
      /\ Listed(t)' \cup held'[t] \subseteq Listed(t) \cup held[t] \cup {n}
  BY <1>1, <1>2, <1>5
<1>10. IInv'
  BY <1>3, <1>4, <1>6, <1>7, <1>8, <1>9, OthersSound
<1> QED BY <1>5, <1>10

LEMMA StepFreeOneOff ==
    ASSUME IInv, NEW t \in Threads, NEW n \in Nodes, FreeOneOff(t, n)
    PROVE  IInv'
<1>1. /\ LetGo(t, n)
      /\ heap' = heap \ {n}
      /\ poolNext' = [poolNext EXCEPT ![n] = Null]
      /\ UNCHANGED <<head, stage, node, nx, list, peak>>
  BY DEF FreeOneOff, Free
<1>2. /\ n \in held[t] /\ held' \in [Threads -> SUBSET Nodes]
      /\ \A u \in Threads : held'[u] = IF u = t THEN held[t] \ {n} ELSE held[u]
      /\ IsFiniteSet(held'[t])
  BY <1>1, LettingGo
<1>3. n \in heap /\ \A u \in Threads \ {t} : n \notin Listed(u) \cup held[u]
  BY <1>2, Elsewhere
<1>4. TypeOK'
  BY <1>1, <1>2 DEF IInv, TypeOK
<1>5. \A m \in Nodes : m # n => poolNext'[m] = poolNext[m]
  BY <1>1 DEF IInv, TypeOK
<1>6. Sound(t) /\ held[t] \subseteq Nodes /\ Listed(t) \subseteq Nodes
  BY IInvParts DEF TypeOK, Listed
<1>7. LinkedFor(t)' /\ Distinct(t)' /\ Listed(t)' = Listed(t)
  <2>1. n \notin Listed(t)
    BY <1>2, <1>6 DEF Sound
  <2> QED BY <1>1, <1>5, <1>6, <2>1, LinkedStays DEF Sound
<1>8. Sound(t)'
  <2>1. \A m \in held'[t] : poolNext'[m] = Null
    BY <1>2, <1>5, <1>6 DEF Sound
  <2>2. Listed(t)' \cup held'[t] \subseteq heap' /\ Listed(t)' \cap held'[t] = {}
    BY <1>1, <1>2, <1>6, <1>7 DEF Sound
  <2> QED BY <1>2, <1>7, <2>1, <2>2 DEF Sound
<1>9. \A u \in Threads \ {t} :
          /\ list'[u] = list[u] /\ head'[u] = head[u] /\ node'[u] = node[u]
          /\ nx'[u] = nx[u] /\ stage'[u] = stage[u] /\ held'[u] = held[u]
  BY <1>1, <1>2 DEF IInv, TypeOK
<1> QED BY <1>1, <1>2, <1>3, <1>4, <1>5, <1>7, <1>8, <1>9, OthersSound

LEMMA StepForget ==
    ASSUME IInv, NEW t \in Threads, NEW n \in Nodes, Forget(t, n)
    PROVE  IInv'
<1>1. LetGo(t, n) /\ UNCHANGED <<head, poolNext, heap, stage, node, nx, list, peak>>
  BY DEF Forget
<1>2. /\ n \in held[t] /\ held' \in [Threads -> SUBSET Nodes]
      /\ \A u \in Threads : held'[u] = IF u = t THEN held[t] \ {n} ELSE held[u]
      /\ IsFiniteSet(held'[t])
  BY <1>1, LettingGo
<1>3. n \in heap /\ \A u \in Threads \ {t} : n \notin Listed(u) \cup held[u]
  BY <1>2, Elsewhere
<1>4. TypeOK'
  BY <1>1, <1>2 DEF IInv, TypeOK
<1>5. Sound(t)
  BY IInvParts
<1>6. LinkedFor(t)' /\ Distinct(t)' /\ Listed(t)' = Listed(t)
  BY <1>1, <1>5, LinkedStays DEF Sound
<1>7. Sound(t)'
  BY <1>1, <1>2, <1>5, <1>6 DEF Sound
<1> QED BY <1>1, <1>2, <1>3, <1>4, <1>6, <1>7, OthersSound


(* The steps of Pool's drop.                                               *)

LEMMA NullIsNoNode ==
    ASSUME IInv, NEW u \in Threads
    PROVE  Null \notin Listed(u) \cup held[u]
  BY NullAssumption DEF IInv, TypeOK, Listed

LEMMA StepDropBegin ==
    ASSUME IInv, NEW t \in Threads, DropBegin(t)
    PROVE  IInv'
<1>1. /\ stage[t] = "alive"
      /\ stage' = [stage EXCEPT ![t] = "read"]
      /\ node' = [node EXCEPT ![t] = head[t]]
      /\ head' = [head EXCEPT ![t] = Null]
      /\ UNCHANGED <<poolNext, heap, nx, held, list, peak>>
  BY DEF DropBegin
<1>2. TypeOK'
  BY <1>1 DEF IInv, TypeOK, Stages
<1>3. Sound(t)
  BY IInvParts
<1>4. Front(t)' = Front(t) /\ stage'[t] = "read" /\ head'[t] = Null
  BY <1>1 DEF IInv, TypeOK, Front
<1>5. LinkedFor(t)' /\ Distinct(t)' /\ Listed(t)' = Listed(t)
  BY <1>1, <1>3, <1>4 DEF Sound, LinkedFor, Distinct, NodeAt, Listed
<1>6. Sound(t)'
  BY <1>1, <1>3, <1>5 DEF Sound
<1>7. \A u \in Threads \ {t} :
          /\ list'[u] = list[u] /\ head'[u] = head[u] /\ node'[u] = node[u]
          /\ nx'[u] = nx[u] /\ stage'[u] = stage[u] /\ held'[u] = held[u]
  BY <1>1 DEF IInv, TypeOK
<1> QED BY <1>1, <1>2, <1>5, <1>6, <1>7, NullIsNoNode, OthersSound

LEMMA StepDropRead ==
    ASSUME IInv, NEW t \in Threads, DropRead(t)
    PROVE  IInv'
<1>1. stage[t] = "read" /\ UNCHANGED <<head, poolNext, heap, node, held, list, peak>>
  BY DEF DropRead
<1>2. Sound(t) /\ Front(t) = node[t]
  BY <1>1, IInvParts DEF Front
<1>3. TypeOK' /\ LinkedFor(t)' /\ stage' = [stage EXCEPT ![t] = stage'[t]]
              /\ nx' = [nx EXCEPT ![t] = nx'[t]]
  <2>1. CASE node[t] = Null
    <3>1. stage' = [stage EXCEPT ![t] = "gone"] /\ nx' = nx
      BY <2>1 DEF DropRead
    <3>2. list[t] = <<>>
      BY <1>2, <2>1, EmptyWithoutFront
    <3>3. stage'[t] = "gone" /\ Front(t)' = Front(t)
      BY <1>1, <3>1 DEF IInv, TypeOK, Front
    <3>4. TypeOK' /\ nx' = [nx EXCEPT ![t] = nx'[t]]
      BY <1>1, <3>1 DEF IInv, TypeOK, Stages
    <3> QED BY <1>1, <1>2, <3>1, <3>2, <3>3, <3>4 DEF Sound, LinkedFor, NodeAt
  <2>2. CASE node[t] # Null
    <3>1. /\ stage' = [stage EXCEPT ![t] = "free"]
          /\ nx' = [nx EXCEPT ![t] = poolNext[node[t]]]
      BY <2>2 DEF DropRead
    <3>2. poolNext[node[t]] = NodeAt(t, 2)
      BY <1>2, <2>2, FrontIsFirst
    <3>3. /\ stage'[t] = "free" /\ Front(t)' = Front(t)
          /\ nx'[t] = NodeAt(t, 2) /\ node[t] \in Nodes
      BY <1>1, <2>2, <3>1, <3>2 DEF IInv, TypeOK, Front
    <3>4. TypeOK'
      BY <1>1, <3>1, <3>3 DEF IInv, TypeOK, Stages
    <3> QED BY <1>1, <1>2, <2>2, <3>1, <3>3, <3>4 DEF Sound, LinkedFor, NodeAt, IInv, TypeOK
  <2> QED BY <2>1, <2>2
<1>4. Distinct(t)' /\ Listed(t)' = Listed(t)
  BY <1>1, <1>2 DEF Sound, Distinct, Listed
<1>5. Sound(t)'
  BY <1>1, <1>2, <1>3, <1>4 DEF Sound
<1>6. \A u \in Threads \ {t} :
          /\ list'[u] = list[u] /\ head'[u] = head[u] /\ node'[u] = node[u]
          /\ nx'[u] = nx[u] /\ stage'[u] = stage[u] /\ held'[u] = held[u]
  BY <1>1, <1>3 DEF IInv, TypeOK
<1> QED BY <1>1, <1>3, <1>4, <1>5, <1>6, NullIsNoNode, OthersSound

LEMMA StepDropFree ==
    ASSUME IInv, NEW t \in Threads, DropFree(t)
    PROVE  IInv' /\ Listed(t)' = Listed(t) \ {node[t]}
<1> DEFINE n == node[t]
<1>1. /\ stage[t] = "free"
      /\ heap' = heap \ {n}
      /\ poolNext' = [poolNext EXCEPT ![n] = Null]
      /\ stage' = [stage EXCEPT ![t] = "read"]
      /\ node' = [node EXCEPT ![t] = nx[t]]
      /\ nx' = [nx EXCEPT ![t] = Null]
      /\ list' = [list EXCEPT ![t] = Rest(list[t])]
      /\ UNCHANGED <<head, held, peak>>
  BY DEF DropFree, Free
<1>2. Sound(t)
  BY IInvParts
<1>3. n # Null /\ nx[t] = NodeAt(t, 2) /\ head[t] = Null /\ Front(t) = n
  BY <1>1, <1>2 DEF Sound, LinkedFor, Front
<1>4. list[t] # <<>> /\ n \in Listed(t) /\ n \in Nodes
  BY <1>3, FrontIsFirst DEF IInv, TypeOK
<1>5. n \in heap /\ \A u \in Threads \ {t} : n \notin Listed(u) \cup held[u]
  BY <1>4, Elsewhere
<1>6. TypeOK'
  <2>1. Rest(list[t]) \in Seq(Nodes)
    BY <1>4, PoppedSeq DEF IInv, TypeOK
  <2> QED BY <1>1, <2>1 DEF IInv, TypeOK, Stages
<1>7. \A m \in Nodes : m # n => poolNext'[m] = poolNext[m]
  BY <1>1 DEF IInv, TypeOK
<1>8. LinkedFor(t)' /\ Distinct(t)' /\ Listed(t)' = Listed(t) \ {n}
  <2>1. /\ list'[t] = Rest(list[t]) /\ stage'[t] = "read"
        /\ node'[t] = nx[t] /\ head'[t] = Null
    BY <1>1, <1>3 DEF IInv, TypeOK
  <2>2. Front(t)' = NodeAt(t, 2)
    BY <1>3, <2>1 DEF Front
  <2> QED BY <1>3, <1>7, <2>1, <2>2, LinkedPop
<1>9. Sound(t)'
  <2>1. held'[t] = held[t] /\ held[t] \subseteq Nodes /\ n \notin held[t]
    BY <1>1, <1>2, <1>4 DEF IInv, TypeOK, Sound
  <2>2. \A m \in held'[t] : poolNext'[m] = Null
    BY <1>2, <1>7, <2>1 DEF Sound
  <2> QED BY <1>1, <1>2, <1>8, <2>1, <2>2 DEF Sound
<1>10. \A u \in Threads \ {t} :
          /\ list'[u] = list[u] /\ head'[u] = head[u] /\ node'[u] = node[u]
          /\ nx'[u] = nx[u] /\ stage'[u] = stage[u] /\ held'[u] = held[u]
  BY <1>1 DEF IInv, TypeOK
<1>11. IInv'
  BY <1>1, <1>5, <1>6, <1>7, <1>8, <1>9, <1>10, OthersSound
<1> QED BY <1>8, <1>11

LEMMA StepThreadExit ==
    ASSUME IInv, NEW t \in Threads, ThreadExit(t)
    PROVE  IInv'
<1>1. /\ stage[t] = "gone"
      /\ stage' = [stage EXCEPT ![t] = "alive"]
      /\ peak' = [peak EXCEPT ![t] = 0]
      /\ UNCHANGED <<head, poolNext, heap, node, nx, held, list>>
  BY DEF ThreadExit
<1>2. TypeOK'
  BY <1>1 DEF IInv, TypeOK, Stages
<1>3. Sound(t)
  BY IInvParts
<1>4. list[t] = <<>> /\ head[t] = Null /\ stage'[t] = "alive"
  BY <1>1, <1>3 DEF Sound, LinkedFor, IInv, TypeOK
<1>5. LinkedFor(t)' /\ Distinct(t)' /\ Listed(t)' = Listed(t)
  BY <1>1, <1>3, <1>4 DEF Sound, LinkedFor, Distinct, NodeAt, Listed, Front
<1>6. Sound(t)'
  BY <1>1, <1>3, <1>5 DEF Sound
<1>7. \A u \in Threads \ {t} :
          /\ list'[u] = list[u] /\ head'[u] = head[u] /\ node'[u] = node[u]
          /\ nx'[u] = nx[u] /\ stage'[u] = stage[u] /\ held'[u] = held[u]
  BY <1>1 DEF IInv, TypeOK
<1> QED BY <1>1, <1>2, <1>5, <1>6, <1>7, NullIsNoNode, OthersSound

LEMMA StepInv == IInv /\ [Next]_vars => IInv'
<1> SUFFICES ASSUME IInv, [Next]_vars PROVE IInv'
  OBVIOUS
<1>1. CASE UNCHANGED vars
  <2>1. /\ UNCHANGED <<head, poolNext, heap, stage, node, nx, held, list, peak>>
        /\ \A t \in Threads : Front(t)' = Front(t) /\ Listed(t)' = Listed(t)
        /\ \A t \in Threads : \A i : NodeAt(t, i)' = NodeAt(t, i)
    BY <1>1 DEF vars, Front, NodeAt, Listed
  <2>2. TypeOK' /\ UnlinkedWhileHeld' /\ HeldIsFinite'
    BY <2>1 DEF IInv, TypeOK, UnlinkedWhileHeld, HeldIsFinite
  <2>3. ListIsLinked'
    BY <2>1 DEF IInv, ListIsLinked
  <2>4. OnePlace'
    BY <2>1 DEF IInv, OnePlace
  <2> QED BY <2>2, <2>3, <2>4 DEF IInv
<1>2. ASSUME NEW t \in Threads, Recycle(t) PROVE IInv'
  BY <1>2, StepRecycle
<1>3. ASSUME NEW t \in Threads, NEW n \in Nodes,
             Allocate(t, n) \/ Push(t, n) \/ FreeOneOff(t, n) \/ Forget(t, n)
      PROVE  IInv'
  BY <1>3, StepAllocate, StepPush, StepFreeOneOff, StepForget
<1>4. ASSUME NEW t \in Threads, DropBegin(t) \/ DropStep(t) \/ ThreadExit(t) PROVE IInv'
  BY <1>4, StepDropBegin, StepDropRead, StepDropFree, StepThreadExit DEF DropStep
<1> QED BY <1>1, <1>2, <1>3, <1>4 DEF Next

LEMMA AlwaysInv == Spec => []IInv
  BY InitInv, StepInv, PTL DEF Spec


(* Every pointer chain ends, and holds the nodes its history says: no push,*)
(* pop or teardown loses a node or closes a cycle.                         *)
THEOREM NodePoolListIsLinked == Spec => []ListIsLinked
  BY AlwaysInv, PTL DEF IInv

(* A node in use has no link: pool_next is cleared before it is handed out.*)
THEOREM NodePoolUnlinkedWhileHeld == Spec => []UnlinkedWhileHeld
  BY AlwaysInv, PTL DEF IInv

(* No node is in two lists, twice in one, or in a list and in use.         *)
THEOREM NodePoolOnePlace == Spec => []OnePlace
  BY AlwaysInv, PTL DEF IInv

--------------------------------------------------------------------------------
(* How many nodes a thread has.                                            *)

LEMMA StepNeverGrows ==
    ASSUME IInv, NeverGrows, [Next]_vars
    PROVE  NeverGrows'
<1> DEFINE Within(u) == stage[u] = "alive" => Len(list[u]) + Cardinality(held[u]) <= peak[u]
<1>1. \A u \in Threads :
          /\ Within(u) /\ list[u] \in Seq(Nodes) /\ Len(list[u]) \in Nat /\ peak[u] \in Nat
          /\ IsFiniteSet(held[u]) /\ Cardinality(held[u]) \in Nat
  BY FS_CardinalityType DEF NeverGrows, IInv, TypeOK, HeldIsFinite
<1>2. SUFFICES \A u \in Threads : Within(u)'
  BY DEF NeverGrows
<1>3. CASE UNCHANGED vars
  BY <1>1, <1>3 DEF vars
<1>4. ASSUME NEW t \in Threads, Recycle(t) PROVE \A u \in Threads : Within(u)'
  <2> DEFINE n == head[t]
  <2>1. n \in Nodes /\ Hold(t, n) /\ n \notin held[t] /\ list[t] # <<>>
    <3>1. n \in Nodes /\ Hold(t, n) /\ Front(t) = n /\ n # Null
      BY <1>4 DEF IInv, TypeOK, Recycle, Front
    <3> QED BY <3>1, FrontIsFirst DEF IInv, OnePlace
  <2>2. /\ \A u \in Threads : held'[u] = IF u = t THEN held[t] \cup {n} ELSE held[u]
        /\ peak[t] <= peak'[t] /\ peak' \in [Threads -> Nat]
    BY <2>1, Holding
  <2>3. Cardinality(held'[t]) = Cardinality(held[t]) + 1
    BY <1>1, <2>1, <2>2, FS_AddElement
  <2>4. Len(list'[t]) = Len(list[t]) - 1
    BY <1>1, <1>4, <2>1, PoppedSeq DEF Recycle, IInv, TypeOK
  <2>5. Within(t)'
    BY <1>1, <1>4, <2>2, <2>3, <2>4 DEF Recycle
  <2>6. \A u \in Threads \ {t} :
            list'[u] = list[u] /\ held'[u] = held[u] /\ peak'[u] = peak[u] /\ stage'[u] = stage[u]
    BY <1>4, <2>2 DEF Recycle, Hold, IInv, TypeOK
  <2> QED BY <1>1, <2>5, <2>6
<1>5. ASSUME NEW t \in Threads, NEW n \in Nodes, Allocate(t, n)
      PROVE  \A u \in Threads : Within(u)'
  <2>1. Hold(t, n) /\ UNCHANGED <<stage, list>> /\ (stage[t] = "alive" => head[t] = Null)
    BY <1>5 DEF Allocate
  <2>2. stage[t] = "alive" => list[t] = <<>>
    BY <2>1, EmptyWithoutFront DEF Front
  <2>3. stage[t] = "alive" => Len(list[t]) = 0 /\ Cardinality(held[t]) <= peak[t]
    BY <1>1, <2>2
  <2>4. /\ Cardinality(held[t]) <= peak[t] => Cardinality(held'[t]) <= peak'[t]
        /\ \A u \in Threads : held'[u] = IF u = t THEN held[t] \cup {n} ELSE held[u]
        /\ peak' \in [Threads -> Nat] /\ IsFiniteSet(held'[t])
    BY <2>1, Holding
  <2>5. Cardinality(held'[t]) \in Nat
    BY <2>4, FS_CardinalityType
  <2>6. Within(t)'
    BY <2>1, <2>3, <2>4, <2>5
  <2>7. \A u \in Threads \ {t} : held'[u] = held[u] /\ peak'[u] = peak[u]
    BY <2>1, <2>4 DEF Hold, IInv, TypeOK
  <2> QED BY <1>1, <2>1, <2>6, <2>7
<1>6. ASSUME NEW t \in Threads, NEW n \in Nodes, Push(t, n) \/ FreeOneOff(t, n) \/ Forget(t, n)
      PROVE  \A u \in Threads : Within(u)'
  <2>1. LetGo(t, n) /\ UNCHANGED <<stage, peak>>
    BY <1>6 DEF Push, FreeOneOff, Forget
  <2>2. /\ \A u \in Threads : held'[u] = IF u = t THEN held[t] \ {n} ELSE held[u]
        /\ Cardinality(held'[t]) = Cardinality(held[t]) - 1
    BY <2>1, LettingGo
  <2>3. \A u \in Threads \ {t} : list'[u] = list[u]
    BY <1>6 DEF Push, FreeOneOff, Forget, IInv, TypeOK
  <2>4. Len(list'[t]) \in Nat /\ Len(list'[t]) <= Len(list[t]) + 1
    <3>1. CASE Push(t, n)
      <4>1. list'[t] = <<n>> \o list[t]
        BY <3>1 DEF Push, IInv, TypeOK
      <4> QED BY <1>1, <4>1, PushedSeq
    <3>2. CASE ~Push(t, n)
      BY <1>1, <1>6, <3>2 DEF FreeOneOff, Forget
    <3> QED BY <3>1, <3>2
  <2> QED BY <1>1, <2>1, <2>2, <2>3, <2>4
<1>7. ASSUME NEW t \in Threads, DropBegin(t) \/ DropStep(t) \/ ThreadExit(t)
      PROVE  \A u \in Threads : Within(u)'
  <2>1. UNCHANGED held /\ \A u \in Threads \ {t} :
            list'[u] = list[u] /\ peak'[u] = peak[u] /\ stage'[u] = stage[u]
    BY <1>7 DEF DropBegin, DropStep, DropRead, DropFree, ThreadExit, IInv, TypeOK
  <2>2. CASE DropBegin(t) \/ DropStep(t)
    <3>1. stage'[t] # "alive"
      BY <2>2 DEF DropBegin, DropStep, DropRead, DropFree, IInv, TypeOK
    <3> QED BY <1>1, <2>1, <3>1
  <2>3. CASE ThreadExit(t)
    <3>1. list'[t] = <<>> /\ held'[t] = {} /\ peak'[t] = 0
      BY <2>3 DEF ThreadExit, IInv, ListIsLinked, TypeOK
    <3>2. Len(list'[t]) = 0 /\ Cardinality(held'[t]) = 0
      BY <3>1, FS_EmptySet
    <3>3. Within(t)'
      BY <3>1, <3>2
    <3>4. \A u \in Threads \ {t} : Within(u)'
      BY <1>1, <2>1
    <3> QED BY <3>3, <3>4
  <2> QED BY <1>7, <2>2, <2>3
<1> QED BY <1>3, <1>4, <1>5, <1>6, <1>7 DEF Next

(* A thread that lives allocates only for nesting it has never had before, *)
(* however long it runs.                                                   *)
THEOREM NodePoolNeverGrows == Spec => []NeverGrows
<1>1. Init => NeverGrows
  BY FS_EmptySet DEF Init, NeverGrows
<1> QED BY <1>1, AlwaysInv, StepNeverGrows, PTL DEF Spec


--------------------------------------------------------------------------------
(* The list as a set.                                                      *)

Alive == [t \in Threads |-> stage[t] = "alive"]
Kept == [t \in Threads |-> IF stage[t] = "alive" THEN Listed(t) ELSE {}]
Allocated == heap \ Doomed

LEMMA DoomedNodes ==
    \A n : n \in Doomed <=> \E u \in Threads : stage[u] # "alive" /\ n \in Listed(u)
  BY DEF Doomed

(* What a step leaves of the mapped state, when only t's part changes.     *)
LEMMA KeptElsewhere ==
    ASSUME NEW t \in Threads,
           \A u \in Threads \ {t} : list'[u] = list[u] /\ stage'[u] = stage[u]
    PROVE  /\ Alive' = [Alive EXCEPT ![t] = stage'[t] = "alive"]
           /\ Kept' = [Kept EXCEPT ![t] = IF stage'[t] = "alive" THEN Listed(t)' ELSE {}]
<1>1. \A u \in Threads \ {t} : Listed(u)' = Listed(u)
  BY DEF Listed
<1> QED BY <1>1 DEF Alive, Kept

LEMMA DoomedElsewhere ==
    ASSUME NEW t \in Threads,
           \A u \in Threads \ {t} : list'[u] = list[u] /\ stage'[u] = stage[u]
    PROVE  /\ stage[t] = "alive" /\ stage'[t] = "alive" => Doomed' = Doomed
           /\ stage[t] = "alive" /\ stage'[t] # "alive" => Doomed' = Doomed \cup Listed(t)'
           /\ Listed(t)' = Listed(t) /\ stage[t] # "alive" /\ stage'[t] # "alive"
                => Doomed' = Doomed
           /\ Listed(t) = {} /\ Listed(t)' = {} => Doomed' = Doomed
<1>1. \A u \in Threads \ {t} : Listed(u)' = Listed(u)
  BY DEF Listed
<1>2. \A n : n \in Doomed' <=> \E u \in Threads : stage'[u] # "alive" /\ n \in Listed(u)'
  BY DEF Doomed
<1> DEFINE Others == UNION {Listed(u) : u \in {v \in Threads \ {t} : stage[v] # "alive"}}
<1>3. \A n : n \in Others <=> \E u \in Threads \ {t} : stage[u] # "alive" /\ n \in Listed(u)
  OBVIOUS
<1> HIDE DEF Others
<1>4. Doomed = Others \cup (IF stage[t] = "alive" THEN {} ELSE Listed(t))
  BY <1>3, DoomedNodes
<1>5. Doomed' = Others \cup (IF stage'[t] = "alive" THEN {} ELSE Listed(t)')
  BY <1>1, <1>2, <1>3
<1> QED BY <1>4, <1>5

LEMMA SupplyRecycles ==
    ASSUME IInv, NEW t \in Threads, NEW n \in Nodes, n = head[t], Recycle(t)
    PROVE  Supply!Recycle(t, n)
<1>1. /\ stage[t] = "alive" /\ stage'[t] = "alive"
      /\ \A u \in Threads \ {t} : list'[u] = list[u] /\ stage'[u] = stage[u]
      /\ UNCHANGED heap
      /\ held' = [held EXCEPT ![t] = @ \cup {n}]
  BY DEF Recycle, Hold, IInv, TypeOK
<1>2. Listed(t)' = Listed(t) \ {n} /\ n \in Listed(t)
  BY StepRecycle
<1>3. Kept' = [Kept EXCEPT ![t] = @ \ {n}] /\ UNCHANGED <<Alive, Allocated>>
  <2>1. /\ Alive' = [Alive EXCEPT ![t] = stage'[t] = "alive"]
        /\ Kept' = [Kept EXCEPT ![t] = IF stage'[t] = "alive" THEN Listed(t)' ELSE {}]
        /\ Doomed' = Doomed
    BY <1>1, KeptElsewhere, DoomedElsewhere
  <2>2. Kept[t] = Listed(t)
    BY <1>1 DEF Kept
  <2>3. Kept' = [Kept EXCEPT ![t] = @ \ {n}]
    BY <1>1, <1>2, <2>1, <2>2
  <2>4. UNCHANGED Alive
    BY <1>1, <2>1 DEF Alive
  <2> QED BY <1>1, <2>1, <2>3, <2>4 DEF Allocated
<1> QED BY <1>1, <1>2, <1>3 DEF Supply!Recycle, Kept, Alive, Allocated

LEMMA SupplyAllocates ==
    ASSUME IInv, NEW t \in Threads, NEW n \in Nodes, Allocate(t, n)
    PROVE  Supply!Allocate(t, n)
<1>1. /\ n \notin heap /\ heap' = heap \cup {n}
      /\ UNCHANGED <<list, stage>>
      /\ held' = [held EXCEPT ![t] = @ \cup {n}]
      /\ stage[t] = "alive" => head[t] = Null
  BY DEF Allocate, Hold
<1>2. stage[t] = "alive" => Listed(t) = {}
  BY <1>1, EmptyWithoutFront DEF Front, Listed
<1>3. n \notin Doomed
  BY <1>1, DoomedNodes DEF IInv, OnePlace
<1>4. UNCHANGED <<Kept, Alive, Doomed>>
  BY <1>1 DEF Kept, Alive, Doomed, Listed
<1>5. Allocated' = Allocated \cup {n} /\ n \notin Allocated
  BY <1>1, <1>3, <1>4 DEF Allocated
<1> QED BY <1>1, <1>2, <1>4, <1>5 DEF Supply!Allocate, Kept, Alive, Allocated

LEMMA SupplyKeeps ==
    ASSUME IInv, NEW t \in Threads, NEW n \in Nodes, Push(t, n)
    PROVE  Supply!Keep(t, n)
<1>1. /\ stage[t] = "alive" /\ stage'[t] = "alive"
      /\ \A u \in Threads \ {t} : list'[u] = list[u] /\ stage'[u] = stage[u]
      /\ UNCHANGED heap
      /\ n \in held[t] /\ held' = [held EXCEPT ![t] = @ \ {n}]
  BY DEF Push, LetGo, IInv, TypeOK
<1>2. Listed(t)' = Listed(t) \cup {n}
  BY StepPush
<1>3. Kept' = [Kept EXCEPT ![t] = @ \cup {n}] /\ UNCHANGED <<Alive, Allocated>>
  BY <1>1, <1>2, KeptElsewhere, DoomedElsewhere DEF Kept, Alive, Allocated
<1> QED BY <1>1, <1>3 DEF Supply!Keep, Kept, Alive, Allocated

LEMMA SupplyLetsGo ==
    ASSUME IInv, NEW t \in Threads, NEW n \in Nodes, FreeOneOff(t, n) \/ Forget(t, n)
    PROVE  Supply!Free(t, n) \/ Supply!Forget(t, n)
<1>1. n \in held[t] /\ held' = [held EXCEPT ![t] = @ \ {n}] /\ UNCHANGED <<list, stage>>
  BY DEF FreeOneOff, Forget, LetGo
<1>2. UNCHANGED <<Kept, Alive, Doomed>>
  BY <1>1 DEF Kept, Alive, Doomed, Listed
<1>3. CASE FreeOneOff(t, n)
  <2>1. Allocated' = Allocated \ {n} /\ stage[t] # "alive"
    BY <1>2, <1>3 DEF FreeOneOff, Free, Allocated
  <2> QED BY <1>1, <1>2, <2>1 DEF Supply!Free, Kept, Alive, Allocated
<1>4. CASE Forget(t, n)
  <2>1. UNCHANGED Allocated
    BY <1>2, <1>4 DEF Forget, Allocated
  <2> QED BY <1>1, <1>2, <2>1 DEF Supply!Forget, Kept, Alive, Allocated
<1> QED BY <1>3, <1>4

LEMMA SupplyDrops ==
    ASSUME IInv, NEW t \in Threads, DropBegin(t)
    PROVE  Supply!PoolDrop(t)
<1>1. /\ stage[t] = "alive" /\ stage'[t] # "alive"
      /\ UNCHANGED <<heap, held, list>>
      /\ \A u \in Threads \ {t} : list'[u] = list[u] /\ stage'[u] = stage[u]
  BY DEF DropBegin, IInv, TypeOK
<1>2. Listed(t)' = Listed(t)
  BY <1>1 DEF Listed
<1>3. /\ Alive' = [Alive EXCEPT ![t] = FALSE]
      /\ Kept' = [Kept EXCEPT ![t] = {}]
      /\ Kept[t] = Listed(t)
      /\ Doomed' = Doomed \cup Listed(t)
  BY <1>1, <1>2, KeptElsewhere, DoomedElsewhere DEF Kept
<1>4. Allocated' = Allocated \ Kept[t]
  BY <1>1, <1>3 DEF Allocated
<1> QED BY <1>1, <1>3, <1>4 DEF Supply!PoolDrop, Kept, Alive, Allocated

(* Reading and freeing a node of a list whose nodes count as freed.        *)
LEMMA SupplyUnseen ==
    ASSUME IInv, NEW t \in Threads, DropStep(t)
    PROVE  UNCHANGED <<Allocated, Kept, Alive, held>>
<1>1. /\ stage[t] # "alive" /\ stage'[t] # "alive" /\ UNCHANGED held
      /\ \A u \in Threads \ {t} : list'[u] = list[u] /\ stage'[u] = stage[u]
  BY DEF DropStep, DropRead, DropFree, IInv, TypeOK
<1>2. UNCHANGED <<Kept, Alive>>
  BY <1>1, KeptElsewhere DEF Kept, Alive
<1>3. CASE DropRead(t)
  <2>1. UNCHANGED <<heap, list>>
    BY <1>3 DEF DropRead
  <2>2. Listed(t)' = Listed(t)
    BY <2>1 DEF Listed
  <2>3. UNCHANGED Doomed
    BY <1>1, <2>2, DoomedElsewhere
  <2> QED BY <1>1, <1>2, <2>1, <2>3 DEF Allocated
<1>4. CASE DropFree(t)
  <2> DEFINE n == node[t]
  <2>1. heap' = heap \ {n} /\ Listed(t)' = Listed(t) \ {n}
    BY <1>4, StepDropFree DEF DropFree, Free
  <2>2. n \in Listed(t)
    <3>1. Front(t) = n /\ n # Null
      BY <1>4 DEF DropFree, IInv, ListIsLinked, Front
    <3> QED BY <3>1, FrontIsFirst
  <2>3. \A u \in Threads \ {t} : n \notin Listed(u) /\ Listed(u)' = Listed(u)
    BY <1>1, <2>2, Elsewhere DEF Listed
  <2>4. \A m : m \in Doomed' <=> \E u \in Threads : stage'[u] # "alive" /\ m \in Listed(u)'
    BY DEF Doomed
  <2>5. n \in Doomed /\ Doomed' = Doomed \ {n}
    BY <1>1, <2>1, <2>2, <2>3, <2>4, DoomedNodes
  <2>6. Allocated' = Allocated
    BY <2>1, <2>5 DEF Allocated
  <2> QED BY <1>1, <1>2, <2>6
<1> QED BY <1>3, <1>4 DEF DropStep

LEMMA SupplyExits ==
    ASSUME IInv, NEW t \in Threads, ThreadExit(t)
    PROVE  Supply!ThreadExit(t)
<1>1. /\ stage[t] = "gone" /\ stage'[t] = "alive" /\ held[t] = {} /\ list[t] = <<>>
      /\ UNCHANGED <<heap, held, list>>
      /\ \A u \in Threads \ {t} : list'[u] = list[u] /\ stage'[u] = stage[u]
  BY DEF ThreadExit, IInv, TypeOK, ListIsLinked
<1>2. Listed(t) = {} /\ Listed(t)' = {}
  BY <1>1 DEF Listed
<1>3. Alive' = [Alive EXCEPT ![t] = TRUE] /\ UNCHANGED <<Kept, Allocated>>
  BY <1>1, <1>2, KeptElsewhere, DoomedElsewhere DEF Kept, Allocated
<1> QED BY <1>1, <1>3 DEF Supply!ThreadExit, Kept, Alive, Allocated

(* The linked list does what the locks ask of the pool: a node it hands out*)
(* is its thread's alone until returned, and is freed only once.           *)
THEOREM NodePoolIsNodeSupply == Spec => ImplementsNodeSupply
<1>1. Init => Supply!Init
  <2> SUFFICES ASSUME Init PROVE Supply!Init
    OBVIOUS
  <2>1. \A t \in Threads : Listed(t) = {} /\ stage[t] = "alive"
    BY DEF Init, Listed
  <2>2. Doomed = {}
    BY <2>1, DoomedNodes
  <2> QED BY <2>1, <2>2 DEF Init, Supply!Init
<1>2. IInv /\ [Next]_vars => [Supply!Next]_<<Allocated, Kept, Alive, held>>
  <2> SUFFICES ASSUME IInv, [Next]_vars
               PROVE  Supply!Next \/ UNCHANGED <<Allocated, Kept, Alive, held>>
    OBVIOUS
  <2>1. CASE UNCHANGED vars
    BY <2>1 DEF vars, Allocated, Kept, Alive, Doomed, Listed
  <2>2. ASSUME NEW t \in Threads, Recycle(t) PROVE Supply!Next
    <3>1. PICK n \in Nodes : n = head[t]
      BY <2>2 DEF Recycle, IInv, TypeOK
    <3>2. Supply!Recycle(t, n)
      BY <2>2, <3>1, SupplyRecycles
    <3> QED BY <3>2 DEF Supply!Next
  <2>3. ASSUME NEW t \in Threads, NEW n \in Nodes,
               Allocate(t, n) \/ Push(t, n) \/ FreeOneOff(t, n) \/ Forget(t, n)
        PROVE  Supply!Next
    BY <2>3, SupplyAllocates, SupplyKeeps, SupplyLetsGo DEF Supply!Next
  <2>4. ASSUME NEW t \in Threads, DropBegin(t) \/ ThreadExit(t) PROVE Supply!Next
    BY <2>4, SupplyDrops, SupplyExits DEF Supply!Next
  <2> QED BY <2>1, <2>2, <2>3, <2>4, SupplyUnseen DEF Next
<1>3. IInv /\ [Next]_vars => [Supply!Next]_Supply!vars
  BY <1>2 DEF Supply!vars, Allocated, Kept, Alive
<1> QED BY <1>1, <1>3, AlwaysInv, PTL DEF Spec, Supply!Spec, ImplementsNodeSupply


================================================================================
