--------------------------- MODULE PerfHarnessProofs ---------------------------
(***************************************************************************)
(* What perf counts in the harness of benches/perf.rs, proved for every    *)
(* number of workers and of acquisitions, every order of opens and both    *)
(* scenarios.                                                              *)
(*                                                                         *)
(* Two facts make it inductive.  A command and its acknowledgement are one *)
(* conversation, so there is never more than one line under way, and where *)
(* main is tells whether the counters are armed (Conversation).  And the   *)
(* two barriers of the Gate fix who can be on which side of the arming     *)
(* (GateHolds).                                                            *)
(*                                                                         *)
(* That nobody waits for ever needs two more: main's hold on both ends of  *)
(* a FIFO it has opened (Opened), and that whoever is past a barrier left  *)
(* it full (GatePassed).                                                   *)
(***************************************************************************)
EXTENDS PerfHarness, TLAPS

Threads == Workers \cup {Main}

Lines == {"enable", "disable", "ack"}

Labels ==
    {"spawn", "unborn", "ready", "arm", "enable", "go", "join", "stop", "disable",
     "get", "over", "run", "inside", "ended"}

TypeOK ==
    /\ driven \in BOOLEAN
    /\ fifo \in [Fifos -> Seq(Lines)]
    /\ counting \in BOOLEAN /\ owed \in BOOLEAN
    /\ arrived \in [{"ready", "go"} -> SUBSET Threads]
    /\ pc \in [Threads -> Labels]
    /\ pc[Main] \notin {"unborn", "run", "inside", "ended"}
    /\ \A w \in Workers : pc[w] \in {"unborn", "ready", "go", "run", "inside", "ended"}

(* Nothing is under way between main and perf.                             *)
Silent == fifo["ctl"] = <<>> /\ fifo["ack"] = <<>> /\ ~owed

(* cmd was sent: perf has yet to obey it, or to say so, or has said so.    *)
Asked(cmd) ==
    \/ /\ fifo["ctl"] = <<cmd>> /\ fifo["ack"] = <<>> /\ ~owed
       /\ (counting <=> cmd = "disable")
    \/ /\ fifo["ctl"] = <<>>
       /\ \/ fifo["ack"] = <<>> /\ owed
          \/ fifo["ack"] = <<"ack">> /\ ~owed
       /\ (counting <=> cmd = "enable")

Conversation ==
    /\ pc[Main] \notin {"enable", "disable"} => Silent
    /\ pc[Main] \in {"enable", "disable"} => driven /\ Asked(pc[Main])
    /\ pc[Main] \in {"spawn", "ready", "arm", "get", "over"} => ~counting
    /\ pc[Main] \in {"go", "join", "stop"} => (counting <=> driven)

GateHolds ==
    /\ pc[Main] \notin {"spawn", "ready"} => arrived["ready"] = Threads
    /\ Main \in arrived["ready"] => pc[Main] # "spawn"
    /\ Main \in arrived["go"] => pc[Main] \notin {"spawn", "ready", "arm", "enable"}
    /\ \A w \in Workers : pc[w] \in {"run", "inside"} => arrived["go"] = Threads
    /\ pc[Main] \in {"stop", "disable", "get", "over"} =>
          \A w \in Workers : pc[w] = "ended"

IInv == TypeOK /\ Conversation /\ GateHolds

--------------------------------------------------------------------------------

LEMMA InitIInv == Init => IInv
<1> SUFFICES ASSUME Init
             PROVE  IInv
  OBVIOUS
<1>1. pc[Main] = "spawn" /\ \A w \in Workers : pc[w] = "unborn"
  BY NamesAssumption DEF Init
<1>2. TypeOK
  <2>1. fifo \in [Fifos -> Seq(Lines)]
    BY DEF Init
  <2>2. pc \in [Threads -> Labels]
    BY DEF Init, Threads, Labels
  <2> QED BY <1>1, <2>1, <2>2 DEF Init, TypeOK
<1>3. Conversation
  BY <1>1 DEF Init, Conversation, Silent, Fifos
<1>4. GateHolds
  BY <1>1 DEF Init, GateHolds
<1> QED BY <1>2, <1>3, <1>4 DEF IInv

(* One process goes to a label, and the others stay where they are.        *)
LEMMA Moves ==
    ASSUME IInv, NEW p \in Threads, NEW label, Goto(p, label)
    PROVE  pc'[p] = label /\ \A q \in Threads \ {p} : pc'[q] = pc[q]
  BY DEF IInv, TypeOK, Goto

(* Opening the FIFOs concerns nothing that is counted.                     *)
LEMMA OpenStep ==
    ASSUME IInv, UNCHANGED <<driven, fifo, counting, owed, arrived, pc>>
    PROVE  IInv'
  BY DEF IInv, TypeOK, Conversation, Silent, Asked, GateHolds

(* perf obeys the line that main sent, and acknowledges it.                *)
LEMMA PerfObeysStep ==
    ASSUME IInv, PerfObeys
    PROVE  IInv'
<1>1. fifo["ctl"] # <<>> /\ ~owed
  BY DEF PerfObeys
<1>2. /\ pc[Main] \in {"enable", "disable"} /\ driven
      /\ fifo["ctl"] = <<pc[Main]>> /\ fifo["ack"] = <<>>
  BY <1>1 DEF IInv, Conversation, Silent, Asked
<1>3. /\ fifo' = [fifo EXCEPT !["ctl"] = <<>>] /\ owed'
      /\ (counting' <=> pc[Main] = "enable") /\ counting' \in BOOLEAN
      /\ UNCHANGED <<driven, arrived, pc>>
  <2>1. Head(fifo["ctl"]) = pc[Main] /\ Tail(fifo["ctl"]) = <<>>
    BY <1>2
  <2>2. counting' = (pc[Main] = "enable")
    BY <2>1 DEF PerfObeys
  <2>3. (counting' <=> pc[Main] = "enable") /\ counting' \in BOOLEAN
    BY <2>2
  <2> QED BY <2>1, <2>3 DEF PerfObeys
<1>4. fifo'["ctl"] = <<>> /\ fifo'["ack"] = <<>>
  BY <1>2, <1>3 DEF IInv, TypeOK, Fifos
<1>5. TypeOK'
  BY <1>3 DEF IInv, TypeOK, Fifos
<1>6. Conversation'
  BY <1>2, <1>3, <1>4 DEF Conversation, Asked
<1>7. GateHolds'
  BY <1>3 DEF IInv, GateHolds
<1> QED BY <1>5, <1>6, <1>7 DEF IInv

LEMMA PerfAcksStep ==
    ASSUME IInv, PerfAcks
    PROVE  IInv'
<1>1. owed
  BY DEF PerfAcks
<1>2. /\ pc[Main] \in {"enable", "disable"} /\ driven
      /\ fifo["ctl"] = <<>> /\ fifo["ack"] = <<>>
      /\ (counting <=> pc[Main] = "enable")
  BY <1>1 DEF IInv, Conversation, Silent, Asked
<1>3. /\ fifo' = [fifo EXCEPT !["ack"] = <<"ack">>] /\ owed' = FALSE
      /\ UNCHANGED <<driven, counting, arrived, pc>>
  BY <1>2 DEF PerfAcks
<1>4. fifo'["ctl"] = <<>> /\ fifo'["ack"] = <<"ack">>
  BY <1>2, <1>3 DEF IInv, TypeOK, Fifos
<1>5. TypeOK'
  <2>1. <<"ack">> \in Seq(Lines)
    BY DEF Lines
  <2> QED BY <1>3, <2>1 DEF IInv, TypeOK, Fifos
<1>6. Conversation'
  BY <1>2, <1>3, <1>4 DEF Conversation, Asked
<1>7. GateHolds'
  BY <1>3 DEF IInv, GateHolds
<1> QED BY <1>5, <1>6, <1>7 DEF IInv

(* PerfControl::send, up to its wait, and the wait.                        *)
LEMMA SendStep ==
    ASSUME IInv,
           \/ Send("enable", "arm", "go")
           \/ Send("disable", "stop", "get")
    PROVE  IInv'
<1>1. PICK cmd \in {"enable", "disable"}, from \in {"arm", "stop"}, to \in {"go", "get"} :
          /\ Send(cmd, from, to)
          /\ <<cmd, from, to>> \in {<<"enable", "arm", "go">>, <<"disable", "stop", "get">>}
  OBVIOUS
<1>2. /\ pc[Main] = from /\ Silent /\ UNCHANGED <<driven, counting, owed, arrived>>
      /\ from = "arm" => ~counting
      /\ from = "stop" => (counting <=> driven)
  BY <1>1 DEF IInv, Conversation, Send
<1>3. Main \in Threads /\ \A w \in Workers : w \in Threads \ {Main}
  BY NamesAssumption DEF Threads
<1>4. CASE driven
  <2>1. Goto(Main, cmd) /\ fifo' = [fifo EXCEPT !["ctl"] = <<cmd>>]
    BY <1>1, <1>2, <1>4 DEF Send, Silent
  <2>2. pc'[Main] = cmd /\ \A w \in Workers : pc'[w] = pc[w]
    BY <1>3, <2>1, Moves
  <2>3. fifo'["ctl"] = <<cmd>> /\ fifo'["ack"] = <<>>
    BY <1>2, <2>1 DEF IInv, TypeOK, Fifos, Silent
  <2>4. TypeOK'
    <3>1. <<cmd>> \in Seq(Lines)
      BY DEF Lines
    <3>2. fifo' \in [Fifos -> Seq(Lines)]
      BY <2>1, <3>1 DEF IInv, TypeOK, Fifos
    <3>3. pc' \in [Threads -> Labels]
      BY <2>1 DEF IInv, TypeOK, Goto, Labels
    <3> QED BY <1>1, <1>2, <2>2, <3>2, <3>3 DEF IInv, TypeOK
  <2>5. Conversation'
    BY <1>1, <1>2, <1>4, <2>2, <2>3 DEF Conversation, Asked, Silent
  <2>6. GateHolds'
    BY <1>1, <1>2, <2>2 DEF IInv, GateHolds
  <2> QED BY <2>4, <2>5, <2>6 DEF IInv
<1>5. CASE ~driven
  <2>1. Goto(Main, to) /\ UNCHANGED fifo
    BY <1>1, <1>5 DEF Send
  <2>2. pc'[Main] = to /\ \A w \in Workers : pc'[w] = pc[w]
    BY <1>3, <2>1, Moves
  <2>3. TypeOK'
    BY <1>1, <1>2, <2>1, <2>2 DEF IInv, TypeOK, Goto, Labels
  <2>4. ~counting
    BY <1>1, <1>2, <1>5 DEF IInv, TypeOK
  <2>5. Conversation'
    BY <1>1, <1>2, <1>5, <2>1, <2>2, <2>4 DEF Conversation, Silent
  <2>6. GateHolds'
    BY <1>1, <1>2, <2>2 DEF IInv, GateHolds
  <2> QED BY <2>3, <2>5, <2>6 DEF IInv
<1> QED BY <1>4, <1>5

LEMMA AwaitAckStep ==
    ASSUME IInv, AwaitAck("enable", "go") \/ AwaitAck("disable", "get")
    PROVE  IInv'
<1>1. PICK cmd \in {"enable", "disable"}, to \in {"go", "get"} :
          /\ AwaitAck(cmd, to)
          /\ <<cmd, to>> \in {<<"enable", "go">>, <<"disable", "get">>}
  OBVIOUS
<1>2. /\ pc[Main] = cmd /\ fifo["ack"] # <<>>
      /\ Goto(Main, to) /\ UNCHANGED <<driven, counting, owed, arrived>>
  BY <1>1 DEF AwaitAck
<1>3. /\ driven /\ ~owed /\ fifo["ctl"] = <<>> /\ fifo["ack"] = <<"ack">>
      /\ (counting <=> cmd = "enable")
  BY <1>1, <1>2 DEF IInv, Conversation, Asked
<1>4. fifo' = [fifo EXCEPT !["ack"] = <<>>]
  BY <1>1, <1>3 DEF AwaitAck
<1>5. fifo'["ctl"] = <<>> /\ fifo'["ack"] = <<>>
  BY <1>3, <1>4 DEF IInv, TypeOK, Fifos
<1>6. pc'[Main] = to /\ \A w \in Workers : pc'[w] = pc[w]
  <2>1. Main \in Threads /\ \A w \in Workers : w \in Threads \ {Main}
    BY NamesAssumption DEF Threads
  <2> QED BY <1>2, <2>1, Moves
<1>7. TypeOK'
  BY <1>1, <1>2, <1>4, <1>6 DEF IInv, TypeOK, Fifos, Goto, Labels
<1>8. Conversation'
  BY <1>1, <1>2, <1>3, <1>5, <1>6 DEF IInv, TypeOK, Conversation, Silent
<1>9. GateHolds'
  BY <1>1, <1>2, <1>6 DEF IInv, GateHolds
<1> QED BY <1>7, <1>8, <1>9 DEF IInv

(* A step that moves p alone, with nothing sent and nobody arriving.       *)
LEMMA GotoStep ==
    ASSUME IInv, NEW p \in Threads, NEW label, Goto(p, label),
           UNCHANGED <<driven, fifo, counting, owed, arrived>>,
           \/ /\ p \in Workers
              /\ label \in {"ready", "go", "run", "inside", "ended"}
              /\ label \in {"run", "inside"} => arrived["go"] = Threads
              /\ pc[p] # "ended" /\ (label = "ready" => pc[Main] = "spawn")
           \/ /\ p = Main
              /\ \/ pc[Main] = "spawn" /\ label = "ready"
                 \/ pc[Main] = "ready" /\ label = "arm" /\ arrived["ready"] = Threads
                 \/ pc[Main] = "go" /\ label = "join"
                 \/ pc[Main] = "join" /\ label = "stop" /\ \A w \in Workers : pc[w] = "ended"
                 \/ pc[Main] = "get" /\ label = "over"
    PROVE  IInv'
<1>1. Main \in Threads /\ Main \notin Workers /\ Workers \subseteq Threads
  BY NamesAssumption DEF Threads
<1>2. pc'[p] = label /\ \A q \in Threads \ {p} : pc'[q] = pc[q]
  BY Moves
<1>3. label \in Labels
  BY DEF Labels
<1>4. CASE p \in Workers
  <2>1. pc'[Main] = pc[Main]
    BY <1>1, <1>2, <1>4
  <2>2. TypeOK'
    BY <1>1, <1>2, <1>3, <1>4, <2>1 DEF IInv, TypeOK, Goto
  <2>3. Conversation'
    BY <2>1 DEF IInv, Conversation, Silent, Asked
  <2>4. GateHolds'
    BY <1>1, <1>2, <1>4, <2>1 DEF IInv, GateHolds
  <2> QED BY <2>2, <2>3, <2>4 DEF IInv
<1>5. CASE p = Main
  <2>1. \A w \in Workers : pc'[w] = pc[w]
    BY <1>1, <1>2, <1>5
  <2>2. TypeOK'
    BY <1>1, <1>2, <1>3, <1>5, <2>1 DEF IInv, TypeOK, Goto
  <2>3. Conversation'
    BY <1>1, <1>2, <1>5 DEF IInv, Conversation, Silent
  <2>4. GateHolds'
    BY <1>1, <1>2, <1>5, <2>1 DEF IInv, GateHolds
  <2> QED BY <2>2, <2>3, <2>4 DEF IInv
<1> QED BY <1>1, <1>4, <1>5

LEMMA ArriveStep ==
    ASSUME IInv, NEW p \in Threads, NEW b \in {"ready", "go"}, Arrive(p, b)
    PROVE  IInv'
<1>1. /\ pc[p] = b /\ UNCHANGED <<driven, fifo, counting, owed, pc>>
      /\ arrived'[b] = arrived[b] \cup {p} /\ arrived'[b] \subseteq Threads
      /\ \A c \in {"ready", "go"} \ {b} : arrived'[c] = arrived[c]
  BY DEF IInv, TypeOK, Arrive, control
<1>2. \A c \in {"ready", "go"} : arrived[c] = Threads => arrived'[c] = Threads
  BY <1>1
<1>3. TypeOK'
  BY <1>1 DEF IInv, TypeOK, Arrive
<1>4. Conversation'
  BY <1>1 DEF IInv, Conversation, Silent, Asked
<1>5. GateHolds'
  BY <1>1, <1>2 DEF IInv, GateHolds
<1> QED BY <1>3, <1>4, <1>5 DEF IInv

LEMMA NextIInv == IInv /\ [Next]_vars => IInv'
<1> SUFFICES ASSUME IInv, [Next]_vars
             PROVE  IInv'
  OBVIOUS
<1>1. Main \in Threads /\ Workers \subseteq Threads
  BY DEF Threads
<1>2. CASE UNCHANGED vars
  BY <1>2, OpenStep DEF vars, control
<1>3. ASSUME NEW p, OpenBegin(p) \/ OpenEnd(p)
      PROVE  IInv'
  BY <1>3, OpenStep DEF OpenBegin, OpenEnd
<1>4. CASE PerfStep
  BY <1>3, <1>4, PerfObeysStep, PerfAcksStep DEF PerfStep
<1>5. CASE MainStep
  <2>1. CASE \E w \in Workers : SpawnWorker(w)
    BY <1>1, <2>1, GotoStep DEF SpawnWorker, control
  <2>2. CASE AllSpawned
    BY <1>1, <2>2, GotoStep DEF AllSpawned, control
  <2>3. CASE Pass(Main, "ready", "arm") \/ Pass(Main, "go", "join")
    BY <1>1, <2>3, GotoStep DEF Pass, Released, control, Threads
  <2>4. CASE \/ Send("enable", "arm", "go") \/ Send("disable", "stop", "get")
             \/ AwaitAck("enable", "go") \/ AwaitAck("disable", "get")
    BY <2>4, SendStep, AwaitAckStep
  <2>5. CASE JoinAll
    BY <1>1, <2>5, GotoStep DEF JoinAll, control
  <2>6. CASE GetTotal
    BY <1>1, <2>6, GotoStep DEF GetTotal, control
  <2>7. CASE Arrive(Main, "ready") \/ Arrive(Main, "go")
    BY <1>1, <2>7, ArriveStep
  <2> QED BY <1>3, <1>5, <2>1, <2>2, <2>3, <2>4, <2>5, <2>6, <2>7
          DEF MainStep, GateStart, GateStop
<1>6. ASSUME NEW w \in Workers, WorkerStep(w)
      PROVE  IInv'
  <2>1. CASE Arrive(w, "ready") \/ Arrive(w, "go")
    BY <1>1, <2>1, ArriveStep
  <2>2. CASE PassReady(w) \/ PassGo(w)
    BY <1>1, <2>2, GotoStep DEF PassReady, PassGo, Pass, Released, control, Threads
  <2>3. CASE BumpLocks(w) \/ BumpUnlocks(w)
    <3>1. pc[w] \in {"run", "inside"} /\ arrived["go"] = Threads
      BY <2>3 DEF IInv, GateHolds, BumpLocks, BumpUnlocks
    <3> QED BY <1>1, <2>3, <3>1, GotoStep DEF BumpLocks, BumpUnlocks, control
  <2>4. CASE WorkerEnds(w)
    BY <1>1, <2>4, GotoStep DEF WorkerEnds, control
  <2> QED BY <1>6, <2>1, <2>2, <2>3, <2>4 DEF WorkerStep
<1> QED BY <1>2, <1>4, <1>5, <1>6 DEF Next

(* The invariant holds throughout a measured run.                          *)
THEOREM Invariance == Spec => []IInv
  BY InitIInv, NextIInv, PTL DEF Spec

(* "the first slice of the workload would go uncounted": it does not, for  *)
(* main arrives at the second barrier only after perf's acknowledgement,   *)
(* and has the counters disarmed only after the joins.                     *)
THEOREM AllWorkIsCounted == Spec => []WorkIsCounted
<1>1. ASSUME IInv
      PROVE  WorkIsCounted
  <2>1. ASSUME NEW w \in Workers, pc[w] \in {"run", "inside"}
        PROVE  pc[Main] \in {"go", "join"}
    <3>1. Main \in arrived["go"]
      BY <1>1, <2>1 DEF IInv, GateHolds, Threads
    <3>2. pc[Main] \notin {"spawn", "ready", "arm", "enable", "stop", "disable", "get", "over"}
      BY <1>1, <2>1, <3>1 DEF IInv, GateHolds
    <3> QED BY <1>1, <3>2 DEF IInv, TypeOK, Labels, Threads
  <2>2. pc[Main] \in {"go", "join"} => (counting <=> driven)
    BY <1>1 DEF IInv, Conversation
  <2> QED BY <2>1, <2>2 DEF WorkIsCounted, ClockRuns
<1> QED BY <1>1, Invariance, PTL

(* "What the counters see is the critical-section loop and nothing else":  *)
(* they are armed after every thread has arrived at the gate, and disarmed *)
(* before main takes the lock for the total.                               *)
THEOREM NothingElseIsCounted == Spec => []OnlyWorkIsCounted
<1>1. ASSUME IInv
      PROVE  OnlyWorkIsCounted
  <2>1. counting => pc[Main] \notin {"spawn", "ready", "arm", "get", "over"}
    BY <1>1 DEF IInv, Conversation
  <2>2. counting => pc[Main] \in {"enable", "go", "join", "stop", "disable"}
    BY <1>1, <2>1 DEF IInv, TypeOK, Labels, Threads
  <2>3. counting => arrived["ready"] = Workers \cup {Main}
    BY <1>1, <2>2 DEF IInv, GateHolds, Threads
  <2> QED BY <2>2, <2>3 DEF OnlyWorkIsCounted
<1> QED BY <1>1, Invariance, PTL

--------------------------------------------------------------------------------
(* That nobody waits in a circle needs to know what main has opened, and   *)
(* who is where once a barrier has been passed.                            *)

MainHas(f) == Ends \X {Main} \subseteq ends[f]

Opened ==
    /\ opening \in [{Main, Perf} -> {<<"ctl", "ack">>, <<"ack", "ctl">>, <<"ctl">>, <<"ack">>, <<>>}]
    /\ ends \in [Fifos -> SUBSET (Ends \X {Main, Perf})]
    /\ ~driven => opening[Main] = <<>> /\ opening[Perf] = <<>>
    /\ opening[Main] \in {<<"ctl", "ack">>, <<"ack">>, <<>>}
    /\ \A f \in Fifos : MainHas(f) \/ ends[f] \cap (Ends \X {Main}) = {}
    /\ driven /\ opening[Main] # <<"ctl", "ack">> => MainHas("ctl")
    /\ driven /\ opening[Main] = <<>> => MainHas("ack")
    /\ pc[Main] # "spawn" => opening[Main] = <<>>

GatePassed ==
    /\ pc[Main] # "spawn" => \A w \in Workers : pc[w] # "unborn"
    /\ pc[Main] = "join" => arrived["go"] = Threads
    /\ \A w \in Workers : pc[w] \notin {"unborn", "ready"} => arrived["ready"] = Threads
    /\ \A w \in Workers : pc[w] = "ended" => arrived["go"] = Threads

LEMMA OpenedKept == TypeOK /\ Opened /\ [Next]_vars => Opened'
<1> SUFFICES ASSUME TypeOK, Opened, [Next]_vars PROVE Opened'
  OBVIOUS
<1> USE NamesAssumption
<1>1. ASSUME UNCHANGED <<driven, opening, ends>>,
             pc'[Main] # "spawn" => pc[Main] # "spawn" \/ opening[Main] = <<>>
      PROVE  Opened'
  BY <1>1 DEF Opened, MainHas
<1>2. ASSUME OpenBegin(Main) PROVE Opened'
  <2> DEFINE f == Head(opening[Main])
  <2>1. f \in Fifos
    BY <1>2 DEF Opened, OpenBegin, Fifos
  <2>2. ends' = [ends EXCEPT ![f] = @ \cup (Ends \X {Main})] /\ UNCHANGED <<driven, opening, pc>>
    BY <1>2 DEF OpenBegin, EndsOpened
  <2> HIDE DEF f
  <2>3. ends' \in [Fifos -> SUBSET (Ends \X {Main, Perf})]
    BY <2>1, <2>2 DEF Opened
  <2>4. \A g \in Fifos : ends'[g] = IF g = f THEN ends[f] \cup (Ends \X {Main}) ELSE ends[g]
    BY <2>1, <2>2 DEF Opened
  <2>5. \A g \in Fifos : MainHas(g) => MainHas(g)'
    BY <2>4 DEF MainHas
  <2>6. \A g \in Fifos : MainHas(g)' \/ ends'[g] \cap (Ends \X {Main}) = {}
    BY <2>4 DEF MainHas, Opened
  <2> QED BY <2>2, <2>3, <2>5, <2>6 DEF Opened, Fifos
<1>3. ASSUME OpenBegin(Perf) PROVE Opened'
  <2> DEFINE f == Head(opening[Perf])
             new == EndsOpened(Perf, f) \X {Perf}
  <2>1. f \in Fifos
    BY <1>3 DEF Opened, OpenBegin, Fifos
  <2>2. ends' = [ends EXCEPT ![f] = @ \cup new] /\ UNCHANGED <<driven, opening, pc>>
    BY <1>3 DEF OpenBegin
  <2>3. new \subseteq Ends \X {Perf}
    BY DEF EndsOpened, Ends
  <2> HIDE DEF f, new
  <2>4. ends' \in [Fifos -> SUBSET (Ends \X {Main, Perf})]
    BY <2>1, <2>2, <2>3 DEF Opened
  <2>5. \A g \in Fifos : ends'[g] = IF g = f THEN ends[f] \cup new ELSE ends[g]
    BY <2>1, <2>2 DEF Opened
  <2>6. \A g \in Fifos : ends'[g] \cap (Ends \X {Main}) = ends[g] \cap (Ends \X {Main})
    BY <2>3, <2>5
  <2>7. \A g \in Fifos : MainHas(g) <=> MainHas(g)'
    BY <2>6 DEF MainHas
  <2> QED BY <2>2, <2>4, <2>6, <2>7 DEF Opened, Fifos
<1>4. ASSUME OpenEnd(Main) PROVE Opened'
  <2> DEFINE f == Head(opening[Main])
  <2>1. /\ opening[Main] # <<>> /\ ends[f] \cap (Ends \X {Main}) # {}
        /\ opening' = [opening EXCEPT ![Main] = Tail(opening[Main])]
        /\ UNCHANGED <<driven, ends, pc>>
    BY <1>4 DEF OpenEnd
  <2>2. CASE opening[Main] = <<"ctl", "ack">>
    <3>1. f = "ctl" /\ Tail(opening[Main]) = <<"ack">>
      BY <2>2
    <3>2. MainHas("ctl")
      BY <2>1, <3>1 DEF Opened, Fifos
    <3>3. opening'[Main] = <<"ack">> /\ opening'[Perf] = opening[Perf]
      BY <2>1, <3>1 DEF Opened
    <3> QED BY <2>1, <2>2, <3>1, <3>2, <3>3 DEF Opened, MainHas
  <2>3. CASE opening[Main] = <<"ack">>
    <3>1. f = "ack" /\ Tail(opening[Main]) = <<>>
      BY <2>3
    <3>2. MainHas("ack")
      BY <2>1, <3>1 DEF Opened, Fifos
    <3>3. opening'[Main] = <<>> /\ opening'[Perf] = opening[Perf]
      BY <2>1, <3>1 DEF Opened
    <3> QED BY <2>1, <2>3, <3>1, <3>2, <3>3 DEF Opened, MainHas
  <2> QED BY <2>1, <2>2, <2>3 DEF Opened
<1>5. ASSUME OpenEnd(Perf) PROVE Opened'
  <2>1. /\ opening[Perf] # <<>>
        /\ opening' = [opening EXCEPT ![Perf] = Tail(opening[Perf])]
        /\ UNCHANGED <<driven, ends, pc>>
    BY <1>5 DEF OpenEnd
  <2>2. Tail(opening[Perf]) \in {<<"ctl">>, <<"ack">>, <<>>}
    <3>1. opening[Perf] \in {<<"ctl", "ack">>, <<"ack", "ctl">>, <<"ctl">>, <<"ack">>}
      BY <2>1 DEF Opened
    <3>2. /\ Tail(<<"ctl", "ack">>) = <<"ack">> /\ Tail(<<"ack", "ctl">>) = <<"ctl">>
          /\ Tail(<<"ctl">>) = <<>> /\ Tail(<<"ack">>) = <<>>
      OBVIOUS
    <3> QED BY <3>1, <3>2
  <2>3. opening'[Main] = opening[Main]
    BY <2>1 DEF Opened
  <2> QED BY <2>1, <2>2, <2>3 DEF Opened, MainHas
<1>6. CASE UNCHANGED vars
  BY <1>1, <1>6 DEF vars, control
<1>7. CASE PerfObeys \/ PerfAcks
  BY <1>1, <1>7 DEF PerfObeys, PerfAcks
<1>8. CASE MainStep
  <2>0. Main \in Threads
    BY DEF Threads
  <2>1. CASE \E w \in Workers : SpawnWorker(w)
    BY <1>1, <2>1 DEF SpawnWorker, control
  <2>2. CASE AllSpawned
    BY <1>1, <2>2 DEF AllSpawned, control
  <2>3. CASE GateStart \/ GateStop
    BY <1>1, <2>3 DEF GateStart, GateStop, Pass, Released, Send, AwaitAck, control
  <2>4. CASE JoinAll \/ GetTotal
    BY <1>1, <2>4 DEF JoinAll, GetTotal, control
  <2>5. CASE Arrive(Main, "ready") \/ Arrive(Main, "go")
    BY <1>1, <2>5 DEF Arrive, control
  <2> QED BY <1>2, <1>4, <1>8, <2>1, <2>2, <2>3, <2>4, <2>5 DEF MainStep
<1>9. ASSUME NEW w \in Workers, WorkerStep(w) PROVE Opened'
  <2>1. pc'[Main] = pc[Main] /\ UNCHANGED <<driven, opening, ends>>
    BY <1>9 DEF TypeOK, WorkerStep, Arrive, PassReady, PassGo, Pass, Released,
                BumpLocks, BumpUnlocks, WorkerEnds, Goto, control, Threads
  <2> QED BY <1>1, <2>1
<1> QED BY <1>2, <1>3, <1>4, <1>5, <1>6, <1>7, <1>8, <1>9 DEF Next, PerfStep, MainStep

(* A step of one process that lets nobody past a barrier that is not full. *)
LEMMA GoKeepsGate ==
    ASSUME TypeOK, GatePassed, NEW p \in Threads, NEW label, Goto(p, label), UNCHANGED arrived,
           \/ /\ p \in Workers /\ label # "unborn"
              /\ label # "ready" => arrived["ready"] = Threads
              /\ label = "ended" => arrived["go"] = Threads
           \/ /\ p = Main
              /\ pc[Main] = "spawn" => \A w \in Workers : pc[w] # "unborn"
              /\ label = "join" => arrived["go"] = Threads
    PROVE  GatePassed'
<1>1. pc'[p] = label /\ \A q \in Threads \ {p} : pc'[q] = pc[q]
  BY DEF TypeOK, Goto
<1>2. Main \in Threads /\ Main \notin Workers /\ Workers \subseteq Threads
  BY NamesAssumption DEF Threads
<1>3. CASE p \in Workers
  <2>1. pc'[Main] = pc[Main]
    BY <1>1, <1>2, <1>3
  <2> QED BY <1>1, <1>2, <1>3, <2>1 DEF GatePassed
<1>4. CASE p = Main
  <2>1. \A w \in Workers : pc'[w] = pc[w]
    BY <1>1, <1>2, <1>4
  <2> QED BY <1>1, <1>2, <1>4, <2>1 DEF GatePassed
<1> QED BY <1>2, <1>3, <1>4

LEMMA GatePassedKept == IInv /\ GatePassed /\ [Next]_vars => GatePassed'
<1> SUFFICES ASSUME IInv, GatePassed, [Next]_vars PROVE GatePassed'
  OBVIOUS
<1>1. TypeOK /\ GateHolds /\ Main \in Threads /\ Workers \subseteq Threads
  BY DEF IInv, Threads
<1>2. ASSUME UNCHANGED <<arrived, pc>> PROVE GatePassed'
  BY <1>2 DEF GatePassed
<1>3. ASSUME NEW p \in Threads, NEW b \in {"ready", "go"}, Arrive(p, b) PROVE GatePassed'
  <2>1. UNCHANGED pc /\ \A c \in {"ready", "go"} : arrived[c] = Threads => arrived'[c] = Threads
    BY <1>1, <1>3 DEF TypeOK, Arrive
  <2> QED BY <2>1 DEF GatePassed
<1>4. CASE UNCHANGED vars \/ PerfStep
  BY <1>2, <1>4 DEF vars, PerfStep, OpenBegin, OpenEnd, PerfObeys, PerfAcks
<1>5. CASE MainStep
  <2>1. CASE OpenBegin(Main) \/ OpenEnd(Main)
    BY <1>2, <2>1 DEF OpenBegin, OpenEnd
  <2>2. ASSUME NEW w \in Workers, SpawnWorker(w) PROVE GatePassed'
    BY <1>1, <2>2, GoKeepsGate DEF SpawnWorker
  <2>3. CASE AllSpawned
    BY <1>1, <2>3, GoKeepsGate DEF AllSpawned
  <2>4. CASE Pass(Main, "ready", "arm") \/ Pass(Main, "go", "join")
    BY <1>1, <2>4, GoKeepsGate DEF Pass, Released, Threads
  <2>5. CASE \/ Send("enable", "arm", "go") \/ Send("disable", "stop", "get")
             \/ AwaitAck("enable", "go") \/ AwaitAck("disable", "get")
    BY <1>1, <2>5, GoKeepsGate DEF Send, AwaitAck
  <2>6. CASE JoinAll \/ GetTotal
    BY <1>1, <2>6, GoKeepsGate DEF JoinAll, GetTotal
  <2>7. CASE Arrive(Main, "ready") \/ Arrive(Main, "go")
    BY <1>1, <1>3, <2>7
  <2> QED BY <1>5, <2>1, <2>2, <2>3, <2>4, <2>5, <2>6, <2>7 DEF MainStep, GateStart, GateStop
<1>6. ASSUME NEW w \in Workers, WorkerStep(w) PROVE GatePassed'
  <2>1. CASE Arrive(w, "ready") \/ Arrive(w, "go")
    BY <1>1, <1>3, <2>1
  <2>2. CASE PassReady(w)
    <3>1. arrived["ready"] = Threads /\ UNCHANGED arrived /\ Goto(w, "go")
      BY <2>2 DEF PassReady, Pass, Released, Threads
    <3> QED BY <1>1, <3>1, GoKeepsGate
  <2>4. CASE PassGo(w)
    <3>1. pc[w] = "go" /\ UNCHANGED arrived /\ Goto(w, "run")
      BY <2>4 DEF PassGo, Pass, Released
    <3>2. arrived["ready"] = Threads
      BY <3>1 DEF GatePassed
    <3> QED BY <1>1, <3>1, <3>2, GoKeepsGate
  <2>3. CASE BumpLocks(w) \/ BumpUnlocks(w) \/ WorkerEnds(w)
    <3>1. arrived["ready"] = Threads /\ arrived["go"] = Threads
      BY <1>1, <2>3 DEF GatePassed, GateHolds, BumpLocks, BumpUnlocks, WorkerEnds
    <3> QED BY <1>1, <2>3, <3>1, GoKeepsGate DEF BumpLocks, BumpUnlocks, WorkerEnds
  <2> QED BY <1>6, <2>1, <2>2, <2>3, <2>4 DEF WorkerStep
<1> QED BY <1>4, <1>5, <1>6 DEF Next

(* main never waits for an open, and once it has made both, perf does not. *)
LEMMA OpensDoNotWait ==
    ASSUME Opened
    PROVE  /\ ~OpenWaits(Main)
           /\ opening[Main] = <<>> => ~OpenWaits(Perf)
<1>1. ASSUME NEW p \in {Main, Perf}, opening[p] # <<>>, OpenWaits(p)
      PROVE  Head(opening[p]) \in Fifos /\ ~MainHas(Head(opening[p]))
  BY <1>1 DEF Opened, OpenWaits, MainHas, Fifos
<1>2. ~OpenWaits(Main)
  <2> SUFFICES ASSUME OpenWaits(Main) PROVE FALSE
    OBVIOUS
  <2>1. Head(opening[Main]) \in Fifos /\ ~MainHas(Head(opening[Main]))
    BY <1>1 DEF OpenWaits
  <2> QED BY <2>1 DEF Opened, OpenWaits
<1>3. ASSUME opening[Main] = <<>>, OpenWaits(Perf) PROVE FALSE
  <2>1. Head(opening[Perf]) \in Fifos /\ ~MainHas(Head(opening[Perf]))
    BY <1>1, <1>3 DEF OpenWaits
  <2>2. driven
    BY <1>3 DEF Opened, OpenWaits
  <2> QED BY <1>3, <2>1, <2>2 DEF Opened, Fifos
<1> QED BY <1>2, <1>3

(* "the obvious code deadlocks": with every FIFO opened for reading and    *)
(* writing main waits for no open and perf not for long, a command has an  *)
(* answer on its way, and whoever misses at a barrier is on the way to it. *)
THEOREM NobodyDeadlocks == Spec => []NoDeadlock
<1>1. Init => Opened /\ GatePassed
  <2> SUFFICES ASSUME Init PROVE Opened /\ GatePassed
    OBVIOUS
  <2>1. pc[Main] = "spawn" /\ \A w \in Workers : pc[w] = "unborn"
    BY NamesAssumption DEF Init
  <2> QED BY <2>1, NamesAssumption DEF Init, Opened, GatePassed, MainHas
<1>2. ASSUME IInv, Opened, GatePassed PROVE NoDeadlock
  <2> SUFFICES ASSUME MainWaits, PerfWaits, \A w \in Workers : WorkerWaits(w) PROVE FALSE
    BY DEF NoDeadlock
  <2>1. ~OpenWaits(Main) /\ (opening[Main] = <<>> => ~OpenWaits(Perf))
    BY <1>2, OpensDoNotWait
  <2>2. pc[Main] # "spawn"
    BY <2>1 DEF MainWaits, BarrierWaits
  <2>3. opening[Main] = <<>> /\ \A w \in Workers : pc[w] # "unborn"
    BY <1>2, <2>2 DEF Opened, GatePassed
  <2>4. fifo["ctl"] = <<>> /\ ~owed
    BY <2>1, <2>3 DEF PerfWaits
  <2>5. CASE BarrierWaits(Main, "ready")
    <3>1. PICK w \in Workers : w \notin arrived["ready"]
      BY <1>2, <2>5 DEF BarrierWaits, IInv, TypeOK, Threads
    <3>2. pc[w] = "ready"
      BY <1>2, <2>3, <2>5, <3>1 DEF GatePassed, BarrierWaits, Threads
    <3> QED BY <3>1, <3>2 DEF WorkerWaits, BarrierWaits
  <2>6. CASE BarrierWaits(Main, "go")
    <3>1. PICK w \in Workers : w \notin arrived["go"]
      BY <1>2, <2>6 DEF BarrierWaits, IInv, TypeOK, Threads
    <3>2. arrived["ready"] = Threads /\ pc[w] \in {"ready", "go"}
      BY <1>2, <2>3, <2>6, <3>1 DEF GatePassed, GateHolds, IInv, TypeOK, BarrierWaits, Threads
    <3> QED BY <3>1, <3>2 DEF WorkerWaits, BarrierWaits, Threads
  <2>7. CASE pc[Main] \in {"enable", "disable"} /\ fifo["ack"] = <<>>
    BY <1>2, <2>4, <2>7 DEF IInv, Conversation, Asked
  <2>8. CASE pc[Main] = "join" /\ \E w \in Workers : pc[w] # "ended"
    <3>1. arrived["ready"] = Threads /\ arrived["go"] = Threads
      BY <1>2, <2>8 DEF IInv, GateHolds, GatePassed
    <3>2. PICK w \in Workers : pc[w] # "ended"
      BY <2>8
    <3>3. PICK v \in Workers : pc[v] = "inside"
      BY <2>3, <3>1, <3>2 DEF WorkerWaits, BarrierWaits, Threads
    <3> QED BY <3>3 DEF WorkerWaits, BarrierWaits
  <2> QED BY <2>1, <2>5, <2>6, <2>7, <2>8 DEF MainWaits
<1>3. IInv /\ Opened /\ GatePassed /\ [Next]_vars => (Opened /\ GatePassed)'
  BY OpenedKept, GatePassedKept DEF IInv
<1> QED BY <1>1, <1>2, <1>3, Invariance, PTL DEF Spec

================================================================================
