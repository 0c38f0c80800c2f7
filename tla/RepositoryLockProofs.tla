------------------------- MODULE RepositoryLockProofs -------------------------
(***************************************************************************)
(* Theorems about RepositoryLock, for every set of attempts, hosts and age *)
(* limits.                                                                 *)
(***************************************************************************)
EXTENDS RepositoryLock, TLAPS

(***************************************************************************)
(* Type correctness.  An attempt only comes to reclaim a lock while it has *)
(* a try left; the last one makes it busy.                                 *)
(***************************************************************************)
TriesLeft(t) == attempt[t].pc # "busy" => attempt[t].tries < MaxTries

(* An attempt that has opened its lock file still owns the lock path, or   *)
(* somebody has taken its file away.                                       *)
OwnsPath(t) == At(t, "write") \/ Holding(t) => owner = t \/ t \in robbed

Inv == TypeOK /\ \A t \in Attempts : TriesLeft(t) /\ OwnsPath(t)

LEMMA StartTyped == Start \in Attempt /\ Start.pc = "idle" /\ Start.tries = 0
BY TriesAssumption DEF Start, Attempt, Points

(* An attempt that moves on: its new state is typed, and it comes to own   *)
(* the path only when it does.                                             *)
LEMMA AttemptMoves ==
    ASSUME Inv, NEW t \in Attempts, NEW k \in Attempt, Become(t, k),
           k.pc # "busy" => k.tries < MaxTries,
           k.pc \in {"write", "holding", "unlink"} /\ alive'[t]
               => owner' = t \/ t \in robbed',
           \A u \in Attempts \ {t} : /\ alive'[u] = alive[u]
                                     /\ owner = u \/ u \in robbed
                                            => owner' = u \/ u \in robbed',
           owner' \in Attempts \cup {Nobody}, complete' \subseteq Attempts,
           old' \subseteq Attempts, alive' \in [Attempts -> BOOLEAN],
           robbed' \subseteq Attempts
    PROVE  Inv'
<1>1. /\ attempt' \in [Attempts -> Attempt]
      /\ attempt'[t] = k
      /\ \A u \in Attempts \ {t} : attempt'[u] = attempt[u]
  BY DEF Become, Inv, TypeOK
<1>2. TypeOK'
  BY <1>1 DEF TypeOK
<1>3. ASSUME NEW u \in Attempts
      PROVE  (TriesLeft(u) /\ OwnsPath(u))'
  <2>1. CASE u = t
    BY <1>1, <2>1 DEF TriesLeft, OwnsPath, At, Holding
  <2>2. CASE u # t
    <3>1. TriesLeft(u) /\ OwnsPath(u) /\ attempt'[u] = attempt[u] /\ alive'[u] = alive[u]
      BY <1>1, <2>2 DEF Inv
    <3>2. QED BY <2>2, <3>1 DEF TriesLeft, OwnsPath, At, Holding
  <2>3. QED BY <2>1, <2>2
<1>4. QED BY <1>2, <1>3 DEF Inv

LEMMA GoneTo ==
    ASSUME Inv, NEW t \in Attempts, NEW pc \in Points, Goto(t, pc)
    PROVE  \E k \in Attempt : /\ Become(t, k)
                              /\ k.pc = pc
                              /\ k.tries = attempt[t].tries
<1> DEFINE k == [Start EXCEPT !.pc = pc, !.tries = attempt[t].tries]
<1>1. attempt[t].tries \in 0..MaxTries
  BY DEF Inv, TypeOK, Attempt
<1>2. k \in Attempt /\ k.pc = pc /\ k.tries = attempt[t].tries
  BY <1>1, StartTyped DEF Attempt
<1>3. QED BY <1>2 DEF Goto

LEMMA DisplacedKeeps ==
    ASSUME Inv, NEW t \in Attempts, Displaced(t)
    PROVE  /\ owner' \in Attempts \cup {Nobody} /\ robbed' \subseteq Attempts
           /\ \A u \in Attempts \ {t} : owner = u \/ u \in robbed => u \in robbed'
BY AttemptsAssumption DEF Displaced, Inv, TypeOK

LEMMA InitInv == Init => Inv
BY StartTyped, TriesAssumption
   DEF Init, Inv, TypeOK, TriesLeft, OwnsPath, At, Holding

LEMMA NextInv == Inv /\ [Next]_vars => Inv'
<1> SUFFICES ASSUME Inv, [Next]_vars PROVE Inv'
  OBVIOUS
<1>1. TypeOK /\ \A t \in Attempts : TriesLeft(t) /\ OwnsPath(t) /\ attempt[t] \in Attempt
  BY DEF Inv, TypeOK
<1>2. ASSUME NEW t \in Attempts, Begin(t)
      PROVE  Inv'
  <2>1. PICK k \in Attempt : Become(t, k) /\ k.pc = "open" /\ k.tries = attempt[t].tries
    BY <1>2, GoneTo DEF Begin, Points
  <2>2. QED BY <1>1, <1>2, <2>1, AttemptMoves DEF Begin, TypeOK, At, TriesLeft
<1>3. ASSUME NEW t \in Attempts, Open(t)
      PROVE  Inv'
  <2>1. CASE owner = Nobody
    <3>1. PICK k \in Attempt : Become(t, k) /\ k.pc = "write" /\ k.tries = attempt[t].tries
      BY <1>3, <2>1, GoneTo DEF Open, PathIsFree, Points
    <3>2. owner' = t
      BY <1>3, <2>1 DEF Open, PathIsFree
    <3>3. QED BY <1>1, <1>3, <2>1, <3>1, <3>2, AttemptMoves, AttemptsAssumption
                 DEF Open, TypeOK, At, TriesLeft
  <2>2. CASE owner # Nobody
    <3>1. PICK k \in Attempt : Become(t, k) /\ k.pc = "inspect" /\ k.tries = attempt[t].tries
      BY <1>3, <2>2, GoneTo DEF Open, PathIsFree, Points
    <3>2. owner' = owner
      BY <1>3, <2>2 DEF Open, PathIsFree
    <3>3. QED BY <1>1, <1>3, <3>1, <3>2, AttemptMoves DEF Open, TypeOK, At, TriesLeft
  <2>3. QED BY <2>1, <2>2
<1>4. ASSUME NEW t \in Attempts, Write(t)
      PROVE  Inv'
  <2>1. PICK k \in Attempt : Become(t, k) /\ k.pc = "holding" /\ k.tries = attempt[t].tries
    BY <1>4, GoneTo DEF Write, Points
  <2>2. owner = t \/ t \in robbed
    BY <1>1, <1>4 DEF Write, OwnsPath
  <2>3. QED BY <1>1, <1>4, <2>1, <2>2, AttemptMoves DEF Write, TypeOK, At, TriesLeft
<1>5. ASSUME NEW t \in Attempts, WriteFails(t)
      PROVE  Inv'
  <2>1. PICK k \in Attempt : Become(t, k) /\ k.pc = "failed" /\ k.tries = attempt[t].tries
    BY <1>5, GoneTo DEF WriteFails, Points
  <2>2. QED BY <1>1, <1>5, <2>1, DisplacedKeeps, AttemptMoves
               DEF WriteFails, TypeOK, At, TriesLeft
<1>6. ASSUME NEW t \in Attempts, ReadRecord(t) \/ StatLock(t)
      PROVE  Inv'
  <2>1. PICK k \in Attempt : /\ Become(t, k)
                             /\ k.pc = "inspect"
                             /\ k.tries = attempt[t].tries
    <3>1. CASE ReadRecord(t)
      <4> DEFINE r == IF owner \in complete THEN owner ELSE Nobody
                 k == [attempt[t] EXCEPT !.read = TRUE, !.record = r]
      <4>1. r \in Attempts \cup {Nobody}
        BY <1>1 DEF TypeOK
      <4>2. k \in Attempt /\ k.pc = attempt[t].pc /\ k.tries = attempt[t].tries
        <5> HIDE DEF r
        <5>1. QED BY <1>1, <4>1 DEF Attempt
      <4>3. QED BY <3>1, <4>2 DEF ReadRecord, At
    <3>2. CASE StatLock(t)
      <4> DEFINE f == IF owner = Nobody THEN "missing" ELSE IF owner \in old THEN "old" ELSE "fresh"
                 k == [attempt[t] EXCEPT !.stated = TRUE, !.file = f]
      <4>1. f \in {"missing", "fresh", "old"}
        OBVIOUS
      <4>2. k \in Attempt /\ k.pc = attempt[t].pc /\ k.tries = attempt[t].tries
        <5> HIDE DEF f
        <5>1. QED BY <1>1, <4>1 DEF Attempt
      <4>3. QED BY <3>2, <4>2 DEF StatLock, At
    <3>3. QED BY <1>6, <3>1, <3>2
  <2>2. /\ UNCHANGED <<owner, complete, old, alive, robbed>>
        /\ attempt[t].pc = "inspect"
    BY <1>6 DEF ReadRecord, StatLock, At
  <2>3. QED BY <1>1, <2>1, <2>2, AttemptMoves DEF TypeOK, TriesLeft
<1>7. ASSUME NEW t \in Attempts, Judge(t)
      PROVE  Inv'
  <2>1. PICK k \in Attempt : /\ Become(t, k)
                             /\ k.pc \in {"busy", "reclaim"}
                             /\ k.tries = attempt[t].tries
    BY <1>7, GoneTo DEF Judge, Points
  <2>2. QED BY <1>1, <1>7, <2>1, AttemptMoves DEF Judge, TypeOK, At, TriesLeft
<1>8. ASSUME NEW t \in Attempts, Reclaim(t)
      PROVE  Inv'
  <2> DEFINE k == [attempt[t] EXCEPT !.tries = @ + 1, !.pc = IF LastTry(t) THEN "busy" ELSE "open"]
  <2>1. attempt[t].tries < MaxTries /\ attempt[t].tries \in 0..MaxTries
    BY <1>1, <1>8 DEF Reclaim, At, TriesLeft, Attempt
  <2>2. /\ attempt[t].tries + 1 \in 0..MaxTries
        /\ ~LastTry(t) => attempt[t].tries + 1 < MaxTries
    BY <2>1, TriesAssumption DEF LastTry
  <2>3. k \in Attempt
    BY <1>1, <2>2 DEF Attempt, Points
  <2>4. k.tries = attempt[t].tries + 1 /\ k.pc = IF LastTry(t) THEN "busy" ELSE "open"
    BY <1>1 DEF Attempt
  <2>5. Become(t, k) /\ Displaced(t) /\ UNCHANGED <<complete, old, alive>>
    BY <1>8 DEF Reclaim
  <2> HIDE DEF k
  <2>6. QED BY <1>1, <2>2, <2>3, <2>4, <2>5, DisplacedKeeps, AttemptMoves DEF TypeOK
<1>9. ASSUME NEW t \in Attempts, ReadOwn(t)
      PROVE  Inv'
  <2>1. PICK k \in Attempt : /\ Become(t, k)
                             /\ k.pc = IF owner = t THEN "unlink" ELSE "released"
                             /\ k.tries = attempt[t].tries
    BY <1>9, GoneTo DEF ReadOwn, Points
  <2>2. QED BY <1>1, <1>9, <2>1, AttemptMoves DEF ReadOwn, TypeOK, At, TriesLeft
<1>10. ASSUME NEW t \in Attempts, Unlink(t)
       PROVE  Inv'
  <2>1. PICK k \in Attempt : Become(t, k) /\ k.pc = "released" /\ k.tries = attempt[t].tries
    BY <1>10, GoneTo DEF Unlink, Points
  <2>2. QED BY <1>1, <1>10, <2>1, DisplacedKeeps, AttemptMoves
               DEF Unlink, TypeOK, At, TriesLeft
<1>11. ASSUME NEW t \in Attempts, Crash(t)
       PROVE  Inv'
  <2>1. /\ alive' \in [Attempts -> BOOLEAN]
        /\ \A u \in Attempts \ {t} : alive'[u] = alive[u]
    BY <1>1, <1>11 DEF Crash, TypeOK
  <2>2. /\ Start \in Attempt /\ Start.tries < MaxTries
        /\ Start.pc \notin {"write", "holding", "unlink"}
    BY StartTyped, TriesAssumption
  <2>3. Become(t, Start) /\ UNCHANGED <<owner, complete, old, robbed>>
    BY <1>11 DEF Crash
  <2>4. QED BY <1>1, <2>1, <2>2, <2>3, AttemptMoves DEF TypeOK
<1>12. ASSUME NEW t \in Attempts, Age(t)
       PROVE  Inv'
  <2>1. UNCHANGED <<owner, complete, alive, attempt, robbed>> /\ old' \subseteq Attempts
    BY <1>1, <1>12, AttemptsAssumption DEF Age, TypeOK
  <2>2. QED BY <2>1 DEF Inv, TypeOK, TriesLeft, OwnsPath, At, Holding
<1>13. CASE UNCHANGED vars
  BY <1>13 DEF vars, Inv, TypeOK, TriesLeft, OwnsPath, At, Holding
<1>14. QED BY <1>2, <1>3, <1>4, <1>5, <1>6, <1>7, <1>8, <1>9, <1>10, <1>11, <1>12, <1>13
             DEF Next, Steps

(* The states of the lock are typed; in particular no attempt ever makes   *)
(* more than maxAcquireAttempts tries.                                     *)
THEOREM RepositoryLockTypeCorrect == Spec => []TypeOK
<1>1. Inv => TypeOK
  BY DEF Inv
<1>2. QED BY <1>1, InitInv, NextInv, PTL DEF Spec

(* Whoever holds the lease has its lock file at the lock path, unless      *)
(* another attempt took that very file away: no step of the holder's own,  *)
(* no crash and no passing of time loses it.                               *)
THEOREM HoldersHaveTheLock == Spec => []HolderHasTheLock
<1>1. Inv => HolderHasTheLock
  BY DEF Inv, OwnsPath, HolderHasTheLock
<1>2. QED BY <1>1, InitInv, NextInv, PTL DEF Spec
=============================================================================
