------------------------------- MODULE PerfHarness -------------------------------
(***************************************************************************)
(* benches/perf.rs: one measured run.  main opens perf's control FIFOs,    *)
(* spawns the workers, holds them at a Gate until perf has armed its       *)
(* counters, lets them go, joins them and has the counters disarmed.       *)
(* perf is a process of its own that this repository only talks to: it is  *)
(* given the least helpful behaviour the comment on PerfControl allows,    *)
(* opening each FIFO one way, in either order, and blocking meanwhile.     *)
(***************************************************************************)
EXTENDS Naturals, Sequences

CONSTANTS
    Workers,
    Main, Perf,
    Acquisitions    \* --acquisitions, per worker

ASSUME NamesAssumption == Main \notin Workers /\ Perf \notin Workers /\ Main # Perf
ASSUME AcquisitionsAssumption == Acquisitions \in Nat

Fifos == {"ctl", "ack"}
Ends == {"read", "write"}

VARIABLES
    driven,     \* --ctl-fifo and --ack-fifo were given
    shared,     \* the scenario: contended's one lock, or disjoint's one each
    opening,    \* the FIFOs that main and perf have yet to open, in order
    ends,       \* ends[f]: <<end, process>>, open or being opened
    fifo,       \* fifo[f]: the lines written and not yet read
    counting,   \* perf's counters are armed
    owed,       \* perf has obeyed a command and not acknowledged it
    arrived,    \* arrived[b]: who has called wait on the barrier b of the Gate
    pc,
    left        \* the acquisitions each worker has left

control == <<opening, ends, fifo, counting, owed>>
vars == <<driven, shared, control, arrived, pc, left>>

Init ==
    /\ driven \in BOOLEAN
    /\ shared \in BOOLEAN
    /\ \E order \in {<<"ctl", "ack">>, <<"ack", "ctl">>} :
          opening = [p \in {Main, Perf} |->
              IF ~driven THEN <<>> ELSE IF p = Main THEN <<"ctl", "ack">> ELSE order]
    /\ ends = [f \in Fifos |-> {}]
    /\ fifo = [f \in Fifos |-> <<>>]
    /\ counting = FALSE
    /\ owed = FALSE
    /\ arrived = [b \in {"ready", "go"} |-> {}]
    /\ pc = [p \in Workers \cup {Main} |-> IF p = Main THEN "spawn" ELSE "unborn"]
    /\ left = [w \in Workers |-> Acquisitions]

Goto(p, label) == pc' = [pc EXCEPT ![p] = label]

--------------------------------------------------------------------------------
(* FIFOs.  An open returns once the other end is open too; one that asks   *)
(* for both ends does not wait.                                            *)

(* Slip: "the obvious code", each FIFO opened in the direction it is used. *)
EndsOpened_OneWay(p, f) ==
    IF (p = Main) = (f = "ctl") THEN {"write"} ELSE {"read"}

EndsOpened(p, f) ==
    IF p = Main THEN Ends
    ELSE IF f = "ctl" THEN {"read"} ELSE {"write"}

OpenBegin(p) ==
    /\ opening[p] # <<>>
    /\ LET f == Head(opening[p])
       IN  /\ ends[f] \cap (Ends \X {p}) = {}
           /\ ends' = [ends EXCEPT ![f] = @ \cup (EndsOpened(p, f) \X {p})]
    /\ UNCHANGED <<driven, shared, opening, fifo, counting, owed, arrived, pc, left>>

OpenEnd(p) ==
    /\ opening[p] # <<>>
    /\ LET f == Head(opening[p])
       IN  /\ ends[f] \cap (Ends \X {p}) # {}
           /\ \A e \in Ends : \E q \in {Main, Perf} : <<e, q>> \in ends[f]
    /\ opening' = [opening EXCEPT ![p] = Tail(@)]
    /\ UNCHANGED <<driven, shared, ends, fifo, counting, owed, arrived, pc, left>>

(* perf obeys a line of its control FIFO, then says so.                    *)
PerfObeys ==
    /\ opening[Perf] = <<>>
    /\ ~owed
    /\ fifo["ctl"] # <<>>
    /\ counting' = (Head(fifo["ctl"]) = "enable")
    /\ fifo' = [fifo EXCEPT !["ctl"] = Tail(@)]
    /\ owed' = TRUE
    /\ UNCHANGED <<driven, shared, opening, ends, arrived, pc, left>>

PerfAcks ==
    /\ owed
    /\ fifo' = [fifo EXCEPT !["ack"] = Append(@, "ack")]
    /\ owed' = FALSE
    /\ UNCHANGED <<driven, shared, opening, ends, counting, arrived, pc, left>>

(* PerfControl::send, called at `from`; main is at `to` when it returns.   *)
Send(cmd, from, to) ==
    /\ pc[Main] = from
    /\ IF driven
         THEN /\ fifo' = [fifo EXCEPT !["ctl"] = Append(@, cmd)]
              /\ Goto(Main, cmd)
         ELSE Goto(Main, to) /\ UNCHANGED fifo
    /\ UNCHANGED <<driven, shared, opening, ends, counting, owed, arrived, left>>

(* Slip: the command is sent, and its acknowledgement not waited for.      *)
AwaitAck_Skips(cmd, to) ==
    /\ pc[Main] = cmd
    /\ Goto(Main, to)
    /\ UNCHANGED <<driven, shared, control, arrived, left>>

AwaitAck(cmd, to) ==
    /\ pc[Main] = cmd
    /\ fifo["ack"] # <<>>
    /\ fifo' = [fifo EXCEPT !["ack"] = Tail(@)]
    /\ Goto(Main, to)
    /\ UNCHANGED <<driven, shared, opening, ends, counting, owed, arrived, left>>

--------------------------------------------------------------------------------
(* Barrier::wait, of std: an arrival, and a return once all have arrived.  *)

Arrive(p, b) ==
    /\ pc[p] = b
    /\ p \notin arrived[b]
    /\ arrived' = [arrived EXCEPT ![b] = @ \cup {p}]
    /\ UNCHANGED <<driven, shared, control, pc, left>>

Released(p, b) ==
    /\ pc[p] = b
    /\ p \in arrived[b]
    /\ arrived[b] = Workers \cup {Main}

Pass(p, b, to) ==
    /\ Released(p, b)
    /\ Goto(p, to)
    /\ UNCHANGED <<driven, shared, control, arrived, left>>

(* Gate::arrive, the two barriers; slip: a gate of one barrier only.       *)
PassReady_Only(w) == Pass(w, "ready", "run")
PassReady(w) == Pass(w, "ready", "go")
PassGo(w)    == Pass(w, "go", "run")

--------------------------------------------------------------------------------
(* The workload: `left[w]` times bump, which locks and unlocks.            *)

SameLock(v, w) == shared \/ v = w

BumpLocks(w) ==
    /\ pc[w] = "run"
    /\ left[w] > 0
    /\ \A v \in Workers : SameLock(v, w) => pc[v] # "inside"
    /\ Goto(w, "inside")
    /\ UNCHANGED <<driven, shared, control, arrived, left>>

BumpUnlocks(w) ==
    /\ pc[w] = "inside"
    /\ left' = [left EXCEPT ![w] = @ - 1]
    /\ Goto(w, "run")
    /\ UNCHANGED <<driven, shared, control, arrived>>

WorkerEnds(w) ==
    /\ pc[w] = "run"
    /\ left[w] = 0
    /\ Goto(w, "ended")
    /\ UNCHANGED <<driven, shared, control, arrived, left>>

--------------------------------------------------------------------------------
(* main: contended and disjoint, with Gate::start and Gate::stop inlined.  *)

SpawnWorker(w) ==
    /\ pc[Main] = "spawn"
    /\ opening[Main] = <<>>
    /\ pc[w] = "unborn"
    /\ Goto(w, "ready")
    /\ UNCHANGED <<driven, shared, control, arrived, left>>

AllSpawned ==
    /\ pc[Main] = "spawn"
    /\ \A w \in Workers : pc[w] # "unborn"
    /\ opening[Main] = <<>>
    /\ Goto(Main, "ready")
    /\ UNCHANGED <<driven, shared, control, arrived, left>>

GateStart ==
    \/ Pass(Main, "ready", "arm")
    \/ Send("enable", "arm", "go") \/ AwaitAck("enable", "go")
    \/ Pass(Main, "go", "join")

JoinAll ==
    /\ pc[Main] = "join"
    /\ \A w \in Workers : pc[w] = "ended"
    /\ Goto(Main, "stop")
    /\ UNCHANGED <<driven, shared, control, arrived, left>>

GateStop == Send("disable", "stop", "get") \/ AwaitAck("disable", "get")

(* The totals are read, under the lock once more, and asserted.            *)
GetTotal ==
    /\ pc[Main] = "get"
    /\ Goto(Main, "over")
    /\ UNCHANGED <<driven, shared, control, arrived, left>>

MainStep ==
    \/ OpenBegin(Main) \/ OpenEnd(Main)
    \/ \E w \in Workers : SpawnWorker(w)
    \/ AllSpawned \/ GateStart \/ JoinAll \/ GateStop \/ GetTotal
    \/ Arrive(Main, "ready") \/ Arrive(Main, "go")

WorkerStep(w) ==
    \/ Arrive(w, "ready") \/ Arrive(w, "go") \/ PassReady(w) \/ PassGo(w)
    \/ BumpLocks(w) \/ BumpUnlocks(w) \/ WorkerEnds(w)

PerfStep == OpenBegin(Perf) \/ OpenEnd(Perf) \/ PerfObeys \/ PerfAcks

Next == MainStep \/ PerfStep \/ \E w \in Workers : WorkerStep(w)

Spec == Init /\ [][Next]_vars

(* The threads and perf are scheduled.  The lock need not be fair: a       *)
(* worker passed over gets it when the others' acquisitions are used up.   *)
FairSpec ==
    /\ Spec
    /\ WF_vars(MainStep) /\ WF_vars(PerfStep)
    /\ \A w \in Workers : WF_vars(WorkerStep(w))

--------------------------------------------------------------------------------

(* The clock of contended and disjoint: from Gate::start's Instant::now to *)
(* the elapsed() after the joins.                                          *)
ClockRuns == pc[Main] \in {"go", "join"}

(* "the first slice of the workload would go uncounted": when main drives  *)
(* perf, the counters are armed as long as any worker is past the gate and *)
(* as long as the clock runs.                                              *)
WorkIsCounted ==
    driven /\ (ClockRuns \/ \E w \in Workers : pc[w] \in {"run", "inside"})
        => counting

(* "What the counters see is the critical-section loop and nothing else":  *)
(* not the spawning, nor a worker on its way to the gate, nor the lock     *)
(* that main takes at the end.                                             *)
OnlyWorkIsCounted ==
    counting =>
        /\ pc[Main] \in {"enable", "go", "join", "stop", "disable"}
        /\ arrived["ready"] = Workers \cup {Main}

(* What may hold each party up: an open whose other end nobody has opened, *)
(* a barrier with somebody missing, a line not written yet, a lock, a join.*)
OpenWaits(p) ==
    /\ opening[p] # <<>>
    /\ ends[Head(opening[p])] \cap (Ends \X {p}) # {}
    /\ \E e \in Ends : \A q \in {Main, Perf} : <<e, q>> \notin ends[Head(opening[p])]

BarrierWaits(p, b) ==
    pc[p] = b /\ p \in arrived[b] /\ arrived[b] # Workers \cup {Main}

MainWaits ==
    \/ OpenWaits(Main)
    \/ \E b \in {"ready", "go"} : BarrierWaits(Main, b)
    \/ pc[Main] \in {"enable", "disable"} /\ fifo["ack"] = <<>>
    \/ pc[Main] = "join" /\ \E w \in Workers : pc[w] # "ended"

PerfWaits ==
    \/ OpenWaits(Perf)
    \/ opening[Perf] = <<>> /\ fifo["ctl"] = <<>> /\ ~owed

WorkerWaits(w) ==
    \/ pc[w] \in {"unborn", "ended"}
    \/ \E b \in {"ready", "go"} : BarrierWaits(w, b)
    \/ pc[w] = "run" /\ left[w] > 0 /\ \E v \in Workers : SameLock(v, w) /\ pc[v] = "inside"

(* "the obvious code deadlocks": here there is always somebody who waits   *)
(* for nobody, whichever way perf opens its ends.                          *)
NoDeadlock == ~(MainWaits /\ PerfWaits /\ \A w \in Workers : WorkerWaits(w))

(* And the run is over in the end.                                         *)
RunEnds == <>(pc[Main] = "over")

================================================================================
