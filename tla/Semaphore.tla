------------------------------ MODULE Semaphore ------------------------------
(***************************************************************************)
(* The semaphore that bounds concurrent delegations (src/lib/semaphore.ts).*)
(* A permit that is released goes straight to the first waiter whose signal*)
(* has not fired; only without one does it become available again.         *)
(*                                                                         *)
(* A caller is one call of use() at a time; it may call again.  Between    *)
(* the firing of a signal and the run of its abort listener other code of  *)
(* the process may run, so the two are separate steps.                     *)
(***************************************************************************)
EXTENDS Naturals, Sequences, FiniteSets

CONSTANTS
    Callers,
    Limit    \* config.limits.maxConcurrency

ASSUME LimitAssumption == Limit \in Nat \ {0}
ASSUME CallersAssumption == IsFiniteSet(Callers)

VARIABLES
    available,  \* free permits
    waiting,    \* the queue of waiters
    state,      \* where each call of use() is
    aborted     \* the callers whose signal has fired

vars == <<available, waiting, state, aborted>>

(* granted: the waiter's promise is resolved, its operation has not begun. *)
States == {"idle", "waiting", "granted", "running", "rejected"}

Members(queue) == {queue[i] : i \in 1..Len(queue)}

Init ==
    /\ available = Limit
    /\ waiting = <<>>
    /\ state = [c \in Callers |-> "idle"]
    /\ aborted = {}

FreePermit == available > 0

(* acquire: without a free permit the caller joins the queue.              *)
Acquire(c) ==
    /\ state[c] = "idle"
    /\ IF c \in aborted
       THEN state' = [state EXCEPT ![c] = "rejected"] /\ UNCHANGED <<available, waiting>>
       ELSE IF FreePermit
       THEN /\ available' = available - 1
            /\ state' = [state EXCEPT ![c] = "granted"]
            /\ UNCHANGED waiting
       ELSE /\ waiting' = Append(waiting, c)
            /\ state' = [state EXCEPT ![c] = "waiting"]
            /\ UNCHANGED available
    /\ UNCHANGED aborted

SignalFires(c) ==
    /\ c \notin aborted
    /\ state[c] # "rejected"
    /\ aborted' = aborted \cup {c}
    /\ UNCHANGED <<available, waiting, state>>

(* Array.splice with one element.                                          *)
Without(queue, i) == [j \in 1..Len(queue) - 1 |-> IF j < i THEN queue[j] ELSE queue[j + 1]]

(* The listener of a waiter that is not settled takes it out of the queue. *)
AbortListener(c) ==
    /\ c \in aborted
    /\ state[c] = "waiting"
    /\ \E i \in 1..Len(waiting) : waiting[i] = c /\ waiting' = Without(waiting, i)
    /\ state' = [state EXCEPT ![c] = "rejected"]
    /\ UNCHANGED <<available, aborted>>

Start(c) ==
    /\ state[c] = "granted"
    /\ state' = [state EXCEPT ![c] = "running"]
    /\ UNCHANGED <<available, waiting, aborted>>

(* A waiter that release may resolve.                                      *)
Eligible(c) == state[c] = "waiting" /\ c \notin aborted

(* Mutant: the permit is handed over and counted as free.                  *)
ServedAndFreed(c, i) ==
    /\ waiting' = SubSeq(waiting, i + 1, Len(waiting))
    /\ state' = [d \in Callers |->
                    IF d = c THEN "idle"
                    ELSE IF d = waiting[i] THEN "granted"
                    ELSE IF d \in {waiting[j] : j \in 1..i - 1} THEN "rejected"
                    ELSE state[d]]
    /\ available' = available + 1

(* Mutant: a waiter leaves the queue without being resolved.               *)
ServedUnresolved(c, i) ==
    /\ waiting' = SubSeq(waiting, i + 1, Len(waiting))
    /\ state' = [state EXCEPT ![c] = "idle"]
    /\ UNCHANGED available

(* Mutant: the waiters before the one that is served stay in the queue.    *)
ServedKeepingSkipped(c, i) ==
    /\ waiting' = Without(waiting, i)
    /\ state' = [state EXCEPT ![c] = "idle", ![waiting[i]] = "granted"]
    /\ UNCHANGED available

(* Waiter i gets the permit of c; the aborted ones before it are rejected. *)
Served(c, i) ==
    /\ waiting' = SubSeq(waiting, i + 1, Len(waiting))
    /\ state' = [d \in Callers |->
                    IF d = c THEN "idle"
                    ELSE IF d = waiting[i] THEN "granted"
                    ELSE IF d \in {waiting[j] : j \in 1..i - 1} THEN "rejected"
                    ELSE state[d]]
    /\ UNCHANGED available

(* Nobody is eligible: the queue is drained, the permit becomes available. *)
NobodyServed(c) ==
    /\ waiting' = <<>>
    /\ state' = [d \in Callers |->
                    IF d = c THEN "idle"
                    ELSE IF d \in Members(waiting) THEN "rejected"
                    ELSE state[d]]
    /\ available' = available + 1

(* The operation ends, in success or not: release.                         *)
Finish(c) ==
    /\ state[c] = "running"
    /\ LET served == {i \in 1..Len(waiting) : Eligible(waiting[i])}
       IN  IF served = {} THEN NobodyServed(c)
           ELSE \E i \in served : (\A j \in served : i <= j) /\ Served(c, i)
    /\ aborted' = aborted \ {c}

(* A rejected caller may call again, with a new signal.                    *)
Return(c) ==
    /\ state[c] = "rejected"
    /\ state' = [state EXCEPT ![c] = "idle"]
    /\ aborted' = aborted \ {c}
    /\ UNCHANGED <<available, waiting>>

Next == \E c \in Callers :
    Acquire(c) \/ SignalFires(c) \/ AbortListener(c) \/ Start(c) \/ Finish(c) \/ Return(c)

Spec == Init /\ [][Next]_vars

(* Every operation ends: a delegation has a deadline.  The event loop runs *)
(* resolved promises and abort listeners.                                  *)
Fairness == \A c \in Callers :
    WF_vars(Start(c)) /\ WF_vars(Finish(c)) /\ WF_vars(AbortListener(c))
FairSpec == Spec /\ Fairness

(***************************************************************************)
(* What must hold.                                                         *)
(***************************************************************************)
TypeOK ==
    /\ available \in 0..Limit
    /\ waiting \in Seq(Callers)
    /\ state \in [Callers -> States]
    /\ aborted \subseteq Callers

Inside == {c \in Callers : state[c] \in {"granted", "running"}}

(* No permit is lost or made up, through hand-offs and aborts: at most     *)
(* maxConcurrency delegations run, and that many can.                      *)
PermitsConserved == available + Cardinality(Inside) = Limit

(* The queue holds exactly the callers whose promise is unsettled: none is *)
(* forgotten, and none is left for release to stumble over.                *)
QueueIsWaiting ==
    /\ Members(waiting) = {c \in Callers : state[c] = "waiting"}
    /\ \A i, j \in 1..Len(waiting) : waiting[i] = waiting[j] => i = j

(* A permit is never free while somebody waits for it.                     *)
NoIdlePermit == available > 0 => waiting = <<>>

(* Nobody overtakes: whoever gets a permit leaves nobody behind that was   *)
(* queued before it, a newcomer nobody at all.                             *)
Ahead(c) == IF c \in Members(waiting)
            THEN {waiting[i] : i \in {j \in 1..Len(waiting) : \A k \in 1..j : waiting[k] # c}}
            ELSE Members(waiting)
NoOvertaking ==
    [][\A c \in Callers :
          state[c] # "granted" /\ state'[c] = "granted"
             => \A d \in Ahead(c) : state'[d] # "waiting"]_vars

(* Every waiter is served or, if its signal has fired, rejected.           *)
WaitersSettle == \A c \in Callers : state[c] = "waiting" ~> state[c] # "waiting"
=============================================================================
