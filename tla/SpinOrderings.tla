------------------------------ MODULE SpinOrderings ------------------------------
(***************************************************************************)
(* The test-and-test-and-set lock of src/spinlock/mod.rs under the memory  *)
(* of ViewMemory, in the program of its two tests                          *)
(* writes_are_published_to_the_next_holder and                             *)
(* try_lock_under_contention_loses_nothing: threads add one to two plain   *)
(* fields under the lock, and main consumes it when they have ended.       *)
(***************************************************************************)
EXTENDS Naturals, Sequences

CONSTANTS
    Threads,
    Main,      \* the thread that owns the lock
    Rounds     \* ITERS, for each thread

ASSUME MainAssumption == Main \notin Threads
ASSUME RoundsAssumption == Rounds \in [Threads -> Nat]

Processes == Threads \cup {Main}

Fields == {"first", "second"}            \* the value, plain memory
Cells  == Fields \cup {"locked"}         \* and Spinlock.locked

VARIABLES
    written, view,   \* memory
    pc,
    seen,            \* what the critical section has read of each field
    todo,            \* the iterations each thread has left
    taken            \* history: the guards handed out

INSTANCE ViewMemory

vars == <<written, view, pc, seen, todo, taken>>

(* The Orderings of the source; and slips: weaker ones.                    *)
CasOrder_Weak  == Relaxed
TryOrder_Weak  == Relaxed
DropOrder_Weak == Relaxed

LoadOrder    == Relaxed   \* lock: locked.load
CasOrder     == Acquire   \* lock: locked.compare_exchange_weak
TryOrder     == Acquire   \* try_lock: locked.compare_exchange
FailOrder    == Relaxed   \* both, on failure
DropOrder    == Release   \* SpinlockGuard's drop: locked.store

--------------------------------------------------------------------------------

Init ==
    LET made == [x \in Cells |-> 1]
    IN  /\ written = [x \in Cells |->
               <<[val |-> IF x = "locked" THEN FALSE ELSE 0, view |-> made]>>]
        /\ view = [p \in Processes |-> IF p = Main THEN made ELSE Blank]
        /\ pc = [p \in Processes |-> IF p = Main THEN "owner" ELSE "unborn"]
        /\ seen = [t \in Threads |-> [f \in Fields |-> 0]]
        /\ todo = Rounds
        /\ taken = 0

Goto(p, label) == pc' = [pc EXCEPT ![p] = label]

(* p is shown one of these values of x.                                    *)
ReadSome(p, x, ord, values) ==
    \E i \in DOMAIN written[x] : written[x][i].val \in values /\ Read(p, x, i, ord)

(* A compare_exchange(false, true) that succeeds: t has the guard.         *)
Win(t, ord) ==
    /\ ~ValueOf("locked")
    /\ Exchange(t, "locked", TRUE, ord)
    /\ Goto(t, "guard")
    /\ taken' = taken + 1
    /\ UNCHANGED <<seen, todo>>

(* An iteration begins, with lock or with try_lock.                        *)
Begin(t) ==
    /\ pc[t] = "idle"
    /\ todo[t] > 0
    /\ todo' = [todo EXCEPT ![t] = @ - 1]
    /\ \E label \in {"load", "trycas"} : Goto(t, label)
    /\ UNCHANGED <<written, view, seen, taken>>

(* The load that ends the inner loop: false, and maybe false no longer.    *)
LoadFree(t) ==
    /\ pc[t] = "load"
    /\ ReadSome(t, "locked", LoadOrder, {FALSE})
    /\ Goto(t, "cas")
    /\ UNCHANGED <<seen, todo, taken>>

(* Slip: the load is trusted, and the flag set by a plain store.           *)
CasWins_Store(t) ==
    /\ pc[t] = "cas"
    /\ Write(t, [x \in {"locked"} |-> TRUE], Release)
    /\ Goto(t, "guard")
    /\ taken' = taken + 1
    /\ UNCHANGED <<seen, todo>>

CasWins(t) == pc[t] = "cas" /\ Win(t, CasOrder)

(* The weak compare_exchange fails: on whatever it is shown.               *)
CasLoses(t) ==
    /\ pc[t] = "cas"
    /\ ReadSome(t, "locked", FailOrder, BOOLEAN)
    /\ Goto(t, "load")
    /\ UNCHANGED <<seen, todo, taken>>

TryWins(t) == pc[t] = "trycas" /\ Win(t, TryOrder)

(* try_lock returns None, and the test's inner loop calls it again.        *)
TryLoses(t) ==
    /\ pc[t] = "trycas"
    /\ ReadSome(t, "locked", FailOrder, {TRUE})
    /\ UNCHANGED <<pc, seen, todo, taken>>

(* Deref: both fields are read, and compared by the test.                  *)
ReadFields(t) ==
    /\ pc[t] = "guard"
    /\ \E first \in view[t]["first"] .. Newest("first"),
          second \in view[t]["second"] .. Newest("second") :
          LET at == [f \in Fields |-> IF f = "first" THEN first ELSE second]
          IN  /\ seen' = [seen EXCEPT ![t] = [f \in Fields |-> written[f][at[f]].val]]
              /\ view' = [view EXCEPT ![t] = [x \in Cells |->
                             IF x \in Fields THEN at[x] ELSE @[x]]]
    /\ Goto(t, "first")
    /\ UNCHANGED <<written, todo, taken>>

(* DerefMut: first one field, then the other.                              *)
WriteField(t) ==
    /\ pc[t] \in Fields
    /\ Write(t, [f \in {pc[t]} |-> seen[t][f] + 1], Relaxed)
    /\ Goto(t, IF pc[t] = "first" THEN "second" ELSE "drop")
    /\ UNCHANGED <<seen, todo, taken>>

Drop(t) ==
    /\ pc[t] = "drop"
    /\ Write(t, [x \in {"locked"} |-> FALSE], DropOrder)
    /\ Goto(t, IF todo[t] = 0 THEN "ended" ELSE "idle")
    /\ UNCHANGED <<seen, todo, taken>>

--------------------------------------------------------------------------------
(* main: get_mut adds one while the lock is its own; scope; into_inner.    *)

GetMut ==
    /\ pc[Main] = "owner"
    /\ Write(Main, [f \in Fields |-> ValueOf(f) + 1], Relaxed)
    /\ Goto(Main, "scope")
    /\ UNCHANGED <<seen, todo, taken>>

SpawnAll ==
    /\ pc[Main] = "scope"
    /\ Spawn(Main, Threads)
    /\ pc' = [p \in Processes |-> IF p = Main THEN "join"
                                  ELSE IF todo[p] = 0 THEN "ended" ELSE "idle"]
    /\ UNCHANGED <<seen, todo, taken>>

JoinOne(t) ==
    /\ pc[Main] = "join"
    /\ pc[t] = "ended"
    /\ JoinThread(Main, t)
    /\ Goto(t, "joined")
    /\ UNCHANGED <<seen, todo, taken>>

AllJoined == \A t \in Threads : pc[t] = "joined"

IntoInner ==
    /\ pc[Main] = "join"
    /\ AllJoined
    /\ Goto(Main, "consumed")
    /\ UNCHANGED <<written, view, seen, todo, taken>>

Over == pc[Main] = "consumed" /\ UNCHANGED vars

Step(t) ==
    \/ Begin(t) \/ LoadFree(t) \/ CasWins(t) \/ CasLoses(t)
    \/ TryWins(t) \/ TryLoses(t)
    \/ ReadFields(t) \/ WriteField(t) \/ Drop(t) \/ JoinOne(t)

Next == GetMut \/ SpawnAll \/ IntoInner \/ Over \/ \E t \in Threads : Step(t)

Spec == Init /\ [][Next]_vars

--------------------------------------------------------------------------------

Holding(t) == pc[t] \in {"guard", "first", "second", "drop"}

(* "every write made inside the critical section happens-before the next   *)
(* thread's successful acquire": a holder knows the newest value of both   *)
(* fields, and of the flag its drop will overwrite; so does main when the  *)
(* threads are joined.                                                     *)
HolderUpToDate ==
    /\ \A t \in Threads : Holding(t) => \A x \in Cells : InOrder(t, x)
    /\ AllJoined => \A x \in Cells : InOrder(Main, x)

(* "a reader that sees them disagree saw a partially published section":   *)
(* a thread with a new guard can only be shown equal fields.               *)
NeverTorn ==
    \A t \in Threads : pc[t] = "guard" =>
        \A i \in view[t]["first"] .. Newest("first"),
           j \in view[t]["second"] .. Newest("second") :
            written["first"][i].val = written["second"][j].val

(* The assertions at the end of both tests: into_inner finds every         *)
(* increment on top of main's own, made before the threads were born.      *)
NothingLost ==
    pc[Main] = "consumed" =>
        \A f \in Fields : \A i \in view[Main][f] .. Newest(f) :
            written[f][i].val = 1 + taken

(* Stale loads and spurious failures included, one thread at a time holds  *)
(* the lock.                                                               *)
TheLock == {Main}
Holders == [l \in TheLock |-> {t \in Threads : Holding(t)}]

Exclusive == INSTANCE ExclusiveLock WITH
                Locks <- TheLock, Clients <- Threads, holders <- Holders
ImplementsExclusiveLock == Exclusive!Spec

================================================================================
