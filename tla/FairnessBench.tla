----------------------------- MODULE FairnessBench -----------------------------
(***************************************************************************)
(* benches/fairness.rs, measure(): the workers hammer one lock in chunks   *)
(* until they see the stop flag, then publish how often they got it; main  *)
(* sleeps, raises the flag, and adds the counts up when the scope is over. *)
(* Flag and counts are Relaxed atomics, in the memory of ViewMemory.  The  *)
(* lock is taken to do what the other modules show of it; of its payload   *)
(* the count of acquisitions is kept.                                      *)
(*                                                                         *)
(* A run may be of any length: the counters, u64 in the code, wrap around  *)
(* at Width instead, which addition does not notice.                       *)
(***************************************************************************)
EXTENDS Naturals, Sequences, FiniteSets, Functions

CONSTANTS
    Workers,
    Main,
    Chunk,     \* CHUNK
    Width      \* the counters count modulo this

ASSUME WorkersAssumption == IsFiniteSet(Workers)
ASSUME MainAssumption == Main \notin Workers
ASSUME ChunkAssumption == Chunk \in Nat \ {0}
ASSUME WidthAssumption == Width \in Nat \ {0}

Processes == Workers \cup {Main}

Stop     == <<"stop", Main>>
Count(w) == <<"count", w>>
Cells    == {Stop} \cup {Count(w) : w \in Workers}

VARIABLES
    written, view,   \* memory
    arrived,         \* who has called barrier.wait
    pc,
    bumps,           \* what is left of each worker's chunk
    n,               \* local `n` of each worker
    acquisitions     \* of the payload

INSTANCE ViewMemory

vars == <<written, view, arrived, pc, bumps, n, acquisitions>>

Plus(i, j) == (i + j) % Width

Init ==
    LET made == [x \in Cells |-> 1]
    IN  /\ written = [x \in Cells |->
               <<[val |-> IF x = Stop THEN FALSE ELSE 0, view |-> made]>>]
        /\ view = [p \in Processes |-> made]
        /\ arrived = {}
        /\ pc = [p \in Processes |-> "barrier"]
        /\ bumps = [w \in Workers |-> 0]
        /\ n = [w \in Workers |-> 0]
        /\ acquisitions = 0

Goto(p, label) == pc' = [pc EXCEPT ![p] = label]

Arrive(p) ==
    /\ pc[p] = "barrier"
    /\ arrived' = arrived \cup {p}
    /\ Goto(p, "waiting")
    /\ UNCHANGED <<written, view, bumps, n, acquisitions>>

Pass(p) ==
    /\ pc[p] = "waiting"
    /\ arrived = Processes
    /\ Goto(p, IF p = Main THEN "sleep" ELSE "check")
    /\ UNCHANGED <<written, view, arrived, bumps, n, acquisitions>>

(* The load at the top of the loop says: go on, or stop.                   *)
SeesGo(w) ==
    /\ pc[w] = "check"
    /\ \E i \in DOMAIN written[Stop] :
          ~written[Stop][i].val /\ Read(w, Stop, i, Relaxed)
    /\ bumps' = [bumps EXCEPT ![w] = Chunk]
    /\ Goto(w, "chunk")
    /\ UNCHANGED <<arrived, n, acquisitions>>

SeesStop(w) ==
    /\ pc[w] = "check"
    /\ \E i \in DOMAIN written[Stop] :
          written[Stop][i].val /\ Read(w, Stop, i, Relaxed)
    /\ Goto(w, "publish")
    /\ UNCHANGED <<arrived, bumps, n, acquisitions>>

(* lock.bump(id).                                                          *)
Bump(w) ==
    /\ pc[w] = "chunk"
    /\ bumps[w] > 0
    /\ bumps' = [bumps EXCEPT ![w] = @ - 1]
    /\ acquisitions' = Plus(acquisitions, 1)
    /\ UNCHANGED <<written, view, arrived, pc, n>>

(* Slip: the flag is looked at within the chunk, which is then cut short.  *)
ChunkEnds_Early(w) ==
    /\ pc[w] = "chunk"
    /\ n' = [n EXCEPT ![w] = Plus(@, Chunk)]
    /\ Goto(w, "check")
    /\ UNCHANGED <<written, view, arrived, bumps, acquisitions>>

ChunkEnds(w) ==
    /\ pc[w] = "chunk"
    /\ bumps[w] = 0
    /\ n' = [n EXCEPT ![w] = Plus(@, Chunk)]
    /\ Goto(w, "check")
    /\ UNCHANGED <<written, view, arrived, bumps, acquisitions>>

Publish(w) ==
    /\ pc[w] = "publish"
    /\ Write(w, [x \in {Count(w)} |-> n[w]], Relaxed)
    /\ Goto(w, "ended")
    /\ UNCHANGED <<arrived, bumps, n, acquisitions>>

(* Slip: the flag is never raised.                                         *)
RaiseStop_Not ==
    /\ pc[Main] = "sleep"
    /\ Goto(Main, "join")
    /\ UNCHANGED <<written, view, arrived, bumps, n, acquisitions>>

(* The window is over, whenever that is.                                   *)
RaiseStop ==
    /\ pc[Main] = "sleep"
    /\ Write(Main, [x \in {Stop} |-> TRUE], Relaxed)
    /\ Goto(Main, "join")
    /\ UNCHANGED <<arrived, bumps, n, acquisitions>>

(* The scope's end waits for every thread.                                 *)
JoinOne(w) ==
    /\ pc[Main] = "join"
    /\ pc[w] = "ended"
    /\ JoinThread(Main, w)
    /\ Goto(w, "joined")
    /\ UNCHANGED <<arrived, bumps, n, acquisitions>>

AllJoined == \A w \in Workers : pc[w] = "joined"

(* The payload is read under the lock, then the counts, then the row made. *)
MakeRow ==
    /\ pc[Main] = "join"
    /\ AllJoined
    /\ Goto(Main, "row")
    /\ UNCHANGED <<written, view, arrived, bumps, n, acquisitions>>

WorkerStep(w) ==
    \/ Arrive(w) \/ Pass(w) \/ SeesGo(w) \/ SeesStop(w)
    \/ Bump(w) \/ ChunkEnds(w) \/ Publish(w)

MainStep ==
    \/ Arrive(Main) \/ Pass(Main) \/ RaiseStop \/ MakeRow
    \/ \E w \in Workers : JoinOne(w)

Next == MainStep \/ \E w \in Workers : WorkerStep(w)

Spec == Init /\ [][Next]_vars

(* The sleep ends and the threads are scheduled; and a store, Relaxed as   *)
(* it is, becomes visible in finite time, as the language asks of atomics: *)
(* a thread that goes on loading the flag is shown it raised at some time. *)
FairSpec ==
    /\ Spec
    /\ WF_vars(MainStep)
    /\ \A w \in Workers : WF_vars(WorkerStep(w)) /\ SF_vars(SeesStop(w))

--------------------------------------------------------------------------------

(* The throughput column is the sum of the counts, the batch column is     *)
(* made of the payload's total.  However main may be shown the counts,     *)
(* they add up to that total.                                              *)
CountsAgree ==
    AllJoined =>
        /\ \A w \in Workers : InOrder(Main, Count(w))
        /\ SumFunction([w \in Workers |-> ValueOf(Count(w))]) % Width = acquisitions

(* Every cell of the table is finished: no worker misses the flag for good.*)
WindowEnds == <>(pc[Main] = "row")

================================================================================
