--------------------------- MODULE SemaphoreProofs ---------------------------
(***************************************************************************)
(* Theorems about Semaphore, for any finite set of callers and any limit.  *)
(***************************************************************************)
EXTENDS Semaphore, FiniteSetTheorems, TLAPS

Inv == TypeOK /\ PermitsConserved /\ QueueIsWaiting /\ NoIdlePermit

LEMMA InsideFinite == IsFiniteSet(Inside) /\ Cardinality(Inside) \in Nat
BY CallersAssumption, FS_Subset, FS_CardinalityType DEF Inside

LEMMA InsideFiniteNext == IsFiniteSet(Inside') /\ Cardinality(Inside') \in Nat
BY CallersAssumption, FS_Subset, FS_CardinalityType DEF Inside

(* A caller enters, leaves, or hands its place to another.                 *)
LEMMA InsideGrows ==
    ASSUME NEW c \in Callers \ Inside, Inside' = Inside \cup {c}
    PROVE  Cardinality(Inside') = Cardinality(Inside) + 1
BY InsideFinite, FS_AddElement

LEMMA InsideShrinks ==
    ASSUME NEW c \in Inside, Inside' = Inside \ {c}
    PROVE  Cardinality(Inside') = Cardinality(Inside) - 1
BY InsideFinite, FS_RemoveElement

LEMMA InsideChangesHands ==
    ASSUME NEW c \in Inside, NEW d \in Callers \ Inside, Inside' = (Inside \ {c}) \cup {d}
    PROVE  Cardinality(Inside') = Cardinality(Inside)
<1>1. IsFiniteSet(Inside \ {c}) /\ Cardinality(Inside \ {c}) = Cardinality(Inside) - 1
  BY InsideFinite, FS_RemoveElement
<1>2. Cardinality((Inside \ {c}) \cup {d}) = Cardinality(Inside \ {c}) + 1
  BY <1>1, FS_AddElement
<1> QED BY <1>1, <1>2, InsideFinite

(* With the permits conserved, the free ones stay within the limit.        *)
LEMMA AvailableInRange ==
    ASSUME available' \in Int, PermitsConserved'
    PROVE  available' <= Limit
BY InsideFiniteNext, LimitAssumption DEF PermitsConserved

(* Taking one element out of the queue.                                    *)
LEMMA WithoutQueue ==
    ASSUME NEW S, NEW q \in Seq(S), NEW i \in 1..Len(q),
           \A j, k \in 1..Len(q) : q[j] = q[k] => j = k
    PROVE  LET r == Without(q, i)
           IN  /\ r \in Seq(S)
               /\ Members(r) = Members(q) \ {q[i]}
               /\ \A j, k \in 1..Len(r) : r[j] = r[k] => j = k
<1> DEFINE r == Without(q, i)
<1>1. Len(q) \in Nat /\ Len(q) >= 1 /\ Len(q) - 1 \in Nat
  OBVIOUS
<1>2. r \in Seq(S) /\ Len(r) = Len(q) - 1
  BY <1>1 DEF Without
<1>3. \A j \in 1..Len(r) : r[j] = IF j < i THEN q[j] ELSE q[j + 1]
  BY <1>1, <1>2 DEF Without
<1>4. ASSUME NEW x \in Members(q) \ {q[i]} PROVE x \in Members(r)
  <2>1. PICK k \in 1..Len(q) : x = q[k] /\ k # i
    BY <1>4 DEF Members
  <2>2. CASE k < i
    <3>1. k \in 1..Len(r) /\ r[k] = x
      BY <1>1, <1>2, <1>3, <2>1, <2>2
    <3> QED BY <3>1 DEF Members
  <2>3. CASE k > i
    <3>1. k - 1 \in 1..Len(r) /\ ~(k - 1 < i) /\ (k - 1) + 1 = k
      BY <1>1, <1>2, <2>1, <2>3
    <3>2. r[k - 1] = x
      BY <1>3, <2>1, <3>1
    <3> QED BY <3>1, <3>2 DEF Members
  <2> QED BY <2>1, <2>2, <2>3
<1>5. ASSUME NEW x \in Members(r) PROVE x \in Members(q) \ {q[i]}
  <2>1. PICK j \in 1..Len(r) : x = r[j]
    BY <1>5 DEF Members
  <2>2. PICK k \in 1..Len(q) : x = q[k] /\ k # i
    BY <1>1, <1>2, <1>3, <2>1
  <2> QED BY <2>2 DEF Members
<1>6. ASSUME NEW j \in 1..Len(r), NEW k \in 1..Len(r), r[j] = r[k] PROVE j = k
  BY <1>1, <1>2, <1>3, <1>6
<1> QED BY <1>2, <1>4, <1>5, <1>6

(* Dropping the first i elements of the queue.                             *)
LEMMA BehindQueue ==
    ASSUME NEW S, NEW q \in Seq(S), NEW i \in 1..Len(q),
           \A j, k \in 1..Len(q) : q[j] = q[k] => j = k
    PROVE  LET r == SubSeq(q, i + 1, Len(q))
           IN  /\ r \in Seq(S)
               /\ Members(r) = Members(q) \ {q[j] : j \in 1..i}
               /\ \A j, k \in 1..Len(r) : r[j] = r[k] => j = k
<1> DEFINE r == SubSeq(q, i + 1, Len(q))
<1>1. Len(q) \in Nat /\ i \in Nat /\ i <= Len(q)
  OBVIOUS
<1>2. r \in Seq(S) /\ Len(r) = Len(q) - i /\ \A j \in 1..Len(r) : r[j] = q[i + j]
  BY <1>1
<1>3. ASSUME NEW x \in Members(q) \ {q[j] : j \in 1..i} PROVE x \in Members(r)
  <2>1. PICK k \in 1..Len(q) : x = q[k]
    BY <1>3 DEF Members
  <2>2. k > i
    BY <1>1, <1>3, <2>1
  <2>3. k - i \in 1..Len(r) /\ i + (k - i) = k
    BY <1>1, <1>2, <2>1, <2>2
  <2>4. r[k - i] = x
    BY <1>2, <2>1, <2>3
  <2> QED BY <2>3, <2>4 DEF Members
<1>4. ASSUME NEW x \in Members(r) PROVE x \in Members(q) \ {q[j] : j \in 1..i}
  <2>1. PICK j \in 1..Len(r) : x = r[j]
    BY <1>4 DEF Members
  <2>2. i + j \in 1..Len(q) /\ x = q[i + j] /\ i + j \notin 1..i
    BY <1>1, <1>2, <2>1
  <2>3. \A k \in 1..i : q[k] # x
    BY <1>1, <2>2
  <2> QED BY <2>2, <2>3 DEF Members
<1>5. ASSUME NEW j \in 1..Len(r), NEW k \in 1..Len(r), r[j] = r[k] PROVE j = k
  BY <1>1, <1>2, <1>5
<1> QED BY <1>2, <1>3, <1>4, <1>5

(***************************************************************************)
(* One lemma per action.                                                   *)
(***************************************************************************)
LEMMA AcquireInv ==
    ASSUME Inv, NEW c \in Callers, Acquire(c)
    PROVE  Inv'
<1> USE DEF Inv
<1>0. state[c] = "idle" /\ c \notin Inside /\ available \in Nat /\ Limit \in Nat
  BY LimitAssumption DEF Acquire, Inside, TypeOK
<1>1. CASE c \in aborted
  <2>1. Inside' = Inside
    BY <1>0, <1>1 DEF Acquire, Inside, TypeOK
  <2>2. QueueIsWaiting'
    BY <1>0, <1>1 DEF Acquire, QueueIsWaiting, TypeOK
  <2> QED BY <1>1, <2>1, <2>2 DEF Acquire, TypeOK, States, PermitsConserved, NoIdlePermit
<1>2. CASE c \notin aborted /\ available > 0
  <2>1. Inside' = Inside \cup {c} /\ available' = available - 1 /\ UNCHANGED <<waiting, aborted>>
    BY <1>2 DEF Acquire, Inside, TypeOK, FreePermit
  <2>2. PermitsConserved'
    <3>1. Cardinality(Inside') = Cardinality(Inside) + 1
      BY <1>0, <2>1, InsideGrows
    <3>2. Cardinality(Inside) \in Nat /\ available + Cardinality(Inside) = Limit
      BY InsideFinite DEF PermitsConserved
    <3> QED BY <1>0, <2>1, <3>1, <3>2 DEF PermitsConserved
  <2>3. QueueIsWaiting'
    BY <1>0, <1>2 DEF Acquire, QueueIsWaiting, TypeOK, FreePermit
  <2>4. TypeOK'
    BY <1>0, <1>2, <2>1 DEF Acquire, TypeOK, States, FreePermit
  <2>5. NoIdlePermit'
    BY <1>2, <2>1 DEF NoIdlePermit
  <2> QED BY <2>2, <2>3, <2>4, <2>5
<1>3. CASE c \notin aborted /\ ~(available > 0)
  <2>1. /\ waiting' = Append(waiting, c) /\ state' = [state EXCEPT ![c] = "waiting"]
        /\ UNCHANGED <<available, aborted>>
    BY <1>3 DEF Acquire, FreePermit
  <2>2. Inside' = Inside
    BY <1>0, <2>1 DEF Inside, TypeOK
  <2>3. QueueIsWaiting'
    <3>1. waiting \in Seq(Callers) /\ Len(waiting) \in Nat /\ c \notin Members(waiting)
      BY <1>0 DEF TypeOK, QueueIsWaiting
    <3>2. /\ Len(waiting') = Len(waiting) + 1 /\ waiting'[Len(waiting) + 1] = c
          /\ \A i \in 1..Len(waiting) : waiting'[i] = waiting[i] /\ waiting[i] # c
      BY <2>1, <3>1 DEF Members
    <3>3. Members(waiting)' = Members(waiting) \cup {c}
      BY <3>1, <3>2 DEF Members
    <3>4. {d \in Callers : state'[d] = "waiting"} = {d \in Callers : state[d] = "waiting"} \cup {c}
      BY <2>1 DEF TypeOK
    <3>5. ASSUME NEW i \in 1..Len(waiting'), NEW j \in 1..Len(waiting'), waiting'[i] = waiting'[j]
          PROVE  i = j
      BY <3>1, <3>2, <3>5 DEF QueueIsWaiting
    <3> QED BY <3>3, <3>4, <3>5 DEF QueueIsWaiting
  <2> QED BY <1>3, <2>1, <2>2, <2>3 DEF TypeOK, States, PermitsConserved, NoIdlePermit
<1> QED BY <1>1, <1>2, <1>3

LEMMA AbortInv ==
    ASSUME Inv, NEW c \in Callers, AbortListener(c)
    PROVE  Inv'
<1> USE DEF Inv
<1>1. PICK i \in 1..Len(waiting) : waiting[i] = c /\ waiting' = Without(waiting, i)
  BY DEF AbortListener
<1>2. /\ state[c] = "waiting" /\ state' = [state EXCEPT ![c] = "rejected"]
      /\ UNCHANGED <<available, aborted>>
  BY DEF AbortListener
<1>3. /\ waiting' \in Seq(Callers)
      /\ Members(waiting') = Members(waiting) \ {c}
      /\ \A j, k \in 1..Len(waiting') : waiting'[j] = waiting'[k] => j = k
  BY <1>1, WithoutQueue DEF TypeOK, QueueIsWaiting
<1>4. Inside' = Inside
  BY <1>2 DEF Inside, TypeOK
<1>5. QueueIsWaiting'
  <2>1. {d \in Callers : state'[d] = "waiting"} = {d \in Callers : state[d] = "waiting"} \ {c}
    BY <1>2 DEF TypeOK
  <2> QED BY <1>3, <2>1 DEF QueueIsWaiting
<1>6. NoIdlePermit'
  <2>1. waiting # <<>>
    BY <1>1
  <2> QED BY <1>2, <2>1 DEF NoIdlePermit
<1> QED BY <1>2, <1>3, <1>4, <1>5, <1>6 DEF TypeOK, States, PermitsConserved

(* A permit that is handed over: the caller leaves, the waiter enters.     *)
LEMMA ServedInv ==
    ASSUME Inv, NEW c \in Callers, state[c] = "running", aborted' = aborted \ {c},
           NEW i \in 1..Len(waiting), Eligible(waiting[i]), Served(c, i)
    PROVE  Inv'
<1> USE DEF Inv
<1> DEFINE w == waiting[i]
           front == {waiting[j] : j \in 1..i}
<1>1. /\ w \in Callers /\ state[w] = "waiting" /\ w # c
      /\ i \in Nat /\ Len(waiting) \in Nat /\ i <= Len(waiting) /\ waiting \in Seq(Callers)
  BY DEF Eligible, TypeOK
<1>2. /\ waiting' \in Seq(Callers)
      /\ Members(waiting') = Members(waiting) \ front
      /\ \A j, k \in 1..Len(waiting') : waiting'[j] = waiting'[k] => j = k
  BY BehindQueue DEF Served, TypeOK, QueueIsWaiting
<1>3. \A j \in 1..i : waiting[j] \in Members(waiting) /\ state[waiting[j]] = "waiting"
  BY <1>1 DEF Members, QueueIsWaiting
<1>4. front = {waiting[j] : j \in 1..i - 1} \cup {w}
  BY <1>1
<1>5. \A d \in Callers : state'[d] = IF d = c THEN "idle"
                                    ELSE IF d = w THEN "granted"
                                    ELSE IF d \in front THEN "rejected"
                                    ELSE state[d]
  BY <1>4 DEF Served
<1>6. {d \in Callers : state'[d] = "waiting"} = {d \in Callers : state[d] = "waiting"} \ front
  BY <1>1, <1>4, <1>5
<1>7. QueueIsWaiting'
  BY <1>2, <1>6 DEF QueueIsWaiting
<1>8. Inside' = (Inside \ {c}) \cup {w} /\ c \in Inside /\ w \in Callers \ Inside
  <2>1. \A d \in front : state[d] = "waiting"
    BY <1>3
  <2> QED BY <1>1, <1>5, <2>1 DEF Inside
<1>9. PermitsConserved'
  BY <1>8, InsideChangesHands DEF PermitsConserved, Served
<1>10. TypeOK'
  BY <1>2 DEF TypeOK, Served, States
<1>11. NoIdlePermit'
  <2>1. waiting # <<>>
    BY <1>1
  <2> QED BY <2>1 DEF NoIdlePermit, Served
<1> QED BY <1>7, <1>9, <1>10, <1>11

LEMMA NobodyServedInv ==
    ASSUME Inv, NEW c \in Callers, state[c] = "running", aborted' = aborted \ {c}, NobodyServed(c)
    PROVE  Inv'
<1> USE DEF Inv
<1>1. \A d \in Callers : state'[d] = IF d = c THEN "idle"
                                    ELSE IF state[d] = "waiting" THEN "rejected"
                                    ELSE state[d]
  BY DEF NobodyServed, QueueIsWaiting
<1>2. Inside' = Inside \ {c} /\ c \in Inside
  BY <1>1 DEF Inside
<1>3. available' = available + 1 /\ available \in Nat /\ waiting' = <<>>
  BY DEF NobodyServed, TypeOK
<1>4. PermitsConserved'
  <2>1. Cardinality(Inside') = Cardinality(Inside) - 1
    BY <1>2, InsideShrinks
  <2>2. Cardinality(Inside) \in Nat /\ available + Cardinality(Inside) = Limit
    BY InsideFinite DEF PermitsConserved
  <2> QED BY <1>3, <2>1, <2>2 DEF PermitsConserved
<1>5. QueueIsWaiting'
  <2>1. Members(waiting)' = {}
    BY <1>3 DEF Members
  <2>2. {d \in Callers : state'[d] = "waiting"} = {}
    BY <1>1
  <2>3. Len(waiting') = 0
    BY <1>3
  <2> QED BY <2>1, <2>2, <2>3 DEF QueueIsWaiting
<1>6. available' <= Limit
  BY <1>3, <1>4, AvailableInRange
<1>7. state' \in [Callers -> States]
  BY DEF NobodyServed, TypeOK, States
<1>8. TypeOK'
  BY <1>3, <1>6, <1>7, LimitAssumption DEF TypeOK
<1> QED BY <1>3, <1>4, <1>5, <1>8 DEF NoIdlePermit

LEMMA FinishInv ==
    ASSUME Inv, NEW c \in Callers, Finish(c)
    PROVE  Inv'
<1>1. state[c] = "running" /\ aborted' = aborted \ {c}
  BY DEF Finish
<1>2. CASE NobodyServed(c)
  BY <1>1, <1>2, NobodyServedInv
<1>3. CASE \E i \in 1..Len(waiting) : Eligible(waiting[i]) /\ Served(c, i)
  BY <1>1, <1>3, ServedInv
<1> QED BY <1>2, <1>3 DEF Finish

(* The steps that touch neither the permits nor the queue.                 *)
LEMMA QuietInv ==
    ASSUME Inv, NEW c \in Callers, SignalFires(c) \/ Start(c) \/ Return(c)
    PROVE  Inv'
<1> USE DEF Inv
<1>1. Inside' = Inside
  BY DEF SignalFires, Start, Return, Inside, TypeOK
<1>2. {d \in Callers : state'[d] = "waiting"} = {d \in Callers : state[d] = "waiting"}
  BY DEF SignalFires, Start, Return, TypeOK
<1>3. UNCHANGED <<available, waiting>> /\ TypeOK'
  BY DEF SignalFires, Start, Return, TypeOK, States
<1> QED BY <1>1, <1>2, <1>3 DEF PermitsConserved, QueueIsWaiting, NoIdlePermit, Members

LEMMA Initially == Init => Inv
<1> SUFFICES ASSUME Init PROVE Inv
  OBVIOUS
<1>1. Inside = {} /\ Cardinality({}) = 0
  BY FS_EmptySet DEF Init, Inside
<1>2. Members(waiting) = {} /\ Len(waiting) = 0
  BY DEF Init, Members
<1> QED BY <1>1, <1>2, LimitAssumption
        DEF Init, Inv, TypeOK, States, PermitsConserved, QueueIsWaiting, NoIdlePermit

LEMMA Inductive == Inv /\ [Next]_vars => Inv'
<1> SUFFICES ASSUME Inv, [Next]_vars PROVE Inv'
  OBVIOUS
<1>1. CASE UNCHANGED vars
  BY <1>1 DEF vars, Inv, TypeOK, PermitsConserved, QueueIsWaiting, NoIdlePermit, Inside, Members
<1>2. CASE Next
  BY <1>2, AcquireInv, AbortInv, FinishInv, QuietInv DEF Next
<1> QED BY <1>1, <1>2

(* The permits: at most maxConcurrency operations run at once, and no abort*)
(* or hand-off makes a permit disappear.                                   *)
THEOREM PermitsAreConserved == Spec => []PermitsConserved
BY Initially, Inductive, PTL DEF Spec, Inv

(* The queue holds exactly the unsettled waiters, each of them once.       *)
THEOREM QueueHoldsTheWaiting == Spec => []QueueIsWaiting
BY Initially, Inductive, PTL DEF Spec, Inv

(* No permit is free while somebody waits.                                 *)
THEOREM PermitsAreUsed == Spec => []NoIdlePermit
BY Initially, Inductive, PTL DEF Spec, Inv

(* The state stays well-formed; in particular, the permits within limits.  *)
THEOREM SemaphoreTypeCorrect == Spec => []TypeOK
BY Initially, Inductive, PTL DEF Spec, Inv

(* Nobody is granted a permit before one that was queued before it, for    *)
(* any callers, aborts and limit: a free permit means an empty queue, and  *)
(* release rejects whoever it passes over (acquire, release).              *)
THEOREM NobodyOvertakes == Spec => NoOvertaking
<1> DEFINE Fair == \A c \in Callers :
               state[c] # "granted" /\ state'[c] = "granted"
                   => \A d \in Ahead(c) : state'[d] # "waiting"
<1>1. Inv /\ [Next]_vars => [Fair]_vars
  <2> SUFFICES ASSUME Inv, Next,
                      NEW c \in Callers, state[c] # "granted", state'[c] = "granted",
                      NEW d \in Ahead(c)
               PROVE  state'[d] # "waiting"
    OBVIOUS
  <2>1. PICK b \in Callers : \/ Acquire(b) \/ SignalFires(b) \/ AbortListener(b)
                             \/ Start(b) \/ Finish(b) \/ Return(b)
    BY DEF Next
  <2>2. CASE Acquire(b)
    <3>1. FreePermit /\ state[c] = "idle"
      BY <2>2 DEF Acquire, Inv, TypeOK
    <3>2. waiting = <<>>
      BY <3>1 DEF FreePermit, Inv, NoIdlePermit
    <3>3. Members(waiting) = {}
      BY <3>2 DEF Members
    <3> QED BY <3>3 DEF Ahead
  <2>3. CASE Finish(b)
    <3>1. PICK i \in 1..Len(waiting) : Served(b, i)
      BY <2>3 DEF Finish, NobodyServed, Inv, TypeOK
    <3>2. c = waiting[i]
      BY <3>1 DEF Served
    <3>3. c \in Members(waiting)
      BY <3>2 DEF Members
    <3>4. PICK j \in 1..Len(waiting) : d = waiting[j] /\ \A k \in 1..j : waiting[k] # c
      BY <3>3 DEF Ahead
    <3>5. j \in 1..i - 1 /\ d \in Callers /\ d # c
      BY <3>2, <3>4 DEF Inv, TypeOK
    <3> QED BY <3>1, <3>2, <3>4, <3>5 DEF Served
  <2>4. ~(SignalFires(b) \/ AbortListener(b) \/ Start(b) \/ Return(b))
    BY DEF SignalFires, AbortListener, Start, Return, Inv, TypeOK
  <2> QED BY <2>1, <2>2, <2>3, <2>4
<1> QED BY <1>1, Initially, Inductive, PTL DEF NoOvertaking, Spec
=============================================================================
