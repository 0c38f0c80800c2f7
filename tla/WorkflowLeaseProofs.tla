------------------------- MODULE WorkflowLeaseProofs -------------------------
(***************************************************************************)
(* Theorems about WorkflowLease, for any number of attempts, any limit on  *)
(* claims and any number of reconciliation passes.                         *)
(***************************************************************************)
EXTENDS WorkflowLease, TLAPS

Kinds  == {"final", "linked", "staged"}
Inside == {"scan", "inspect", "reconcile", "clean", "remove", "holding", "publishing"}
Beyond == Inside \ {"scan"}

Past(t) == alive[t] /\ attempt[t].pc \in Beyond

(***************************************************************************)
(* Type correctness.                                                       *)
(***************************************************************************)
LEMMA FileSteps ==
    ASSUME NEW f \in File, NEW orphaned \in BOOLEAN, NEW g \in HelperSteps(f, orphaned)
    PROVE  g \in File
BY DEF File, Places, HelperSteps, Prepared, Linked, AcknowledgedFile, Unstaged, Disconnected

LEMMA FileForms ==
    /\ NoFile \in File
    /\ Opened \in File
    /\ \A f \in File : Granted(f) \in File /\ Killed(f) \in File /\ Removed(f) \in File
    /\ \A f \in File : [f EXCEPT !.staging = FALSE] \in File
BY DEF File, Places, NoFile, Opened, Granted, Killed, Removed, Acknowledged

LEMMA AttemptForms ==
    /\ Idle \in Attempt
    /\ [Idle EXCEPT !.pc = "ended"] \in Attempt
    /\ [Idle EXCEPT !.pc = "holding"] \in Attempt
    /\ \A k \in Attempt : /\ [Idle EXCEPT !.pc = "ended", !.answer = k.answer] \in Attempt
                          /\ [k EXCEPT !.aborted = TRUE] \in Attempt
    /\ \A k \in Attempt, pc \in Points : [k EXCEPT !.pc = pc] \in Attempt
<1>1. ASSUME NEW pc \in Points, NEW answer \in {"none", "published", "aborted", "failed"}
      PROVE  [pc |-> pc, listed |-> {}, staged |-> {}, todo |-> {}, stale |-> {},
              pass |-> 0, aborted |-> FALSE, answer |-> answer] \in Attempt
  <2>1. {} \in SUBSET Attempts /\ {} \in SUBSET (Attempts \X {"final", "linked", "staged"})
    OBVIOUS
  <2>2. 0 \in Nat /\ FALSE \in BOOLEAN
    OBVIOUS
  <2>3. QED BY <2>1, <2>2, Zenon DEF Attempt
<1>2. "idle" \in Points /\ "ended" \in Points /\ "holding" \in Points
  BY DEF Points
<1>3. Idle \in Attempt
  BY <1>1, <1>2 DEF Idle
<1>4. [Idle EXCEPT !.pc = "ended"] \in Attempt /\ [Idle EXCEPT !.pc = "holding"] \in Attempt
  <2>1. ASSUME NEW pc \in Points PROVE [Idle EXCEPT !.pc = pc] \in Attempt
    <3>1. PICK k \in Attempt : k = Idle
      BY <1>3
    <3>2. [k EXCEPT !.pc = pc] \in Attempt
      BY DEF Attempt
    <3>3. QED BY <3>1, <3>2
  <2>2. QED BY <1>2, <2>1
<1>5. ASSUME NEW k \in Attempt
      PROVE  [Idle EXCEPT !.pc = "ended", !.answer = k.answer] \in Attempt
  <2>1. PICK answer \in {"none", "published", "aborted", "failed"} : answer = k.answer
    BY DEF Attempt
  <2>2. PICK i \in Attempt : i = Idle
    BY <1>3
  <2>3. [i EXCEPT !.pc = "ended", !.answer = answer] \in Attempt
    BY <1>2 DEF Attempt
  <2>4. QED BY <2>1, <2>2, <2>3
<1>6. ASSUME NEW k \in Attempt
      PROVE  [k EXCEPT !.aborted = TRUE] \in Attempt
  BY DEF Attempt
<1>7. ASSUME NEW k \in Attempt, NEW pc \in Points
      PROVE  [k EXCEPT !.pc = pc] \in Attempt
  BY DEF Attempt
<1>8. QED BY <1>3, <1>4, <1>5, <1>6, <1>7

LEMMA Becoming ==
    ASSUME TypeOK, NEW t \in Attempts, NEW k \in Attempt, Become(t, k)
    PROVE  attempt' \in [Attempts -> Attempt]
BY DEF TypeOK, Become

LEMMA Going ==
    ASSUME TypeOK, NEW t \in Attempts, NEW pc \in Points, Goto(t, pc)
    PROVE  attempt' \in [Attempts -> Attempt]
<1>1. [attempt[t] EXCEPT !.pc = pc] \in Attempt
  BY AttemptForms DEF TypeOK
<1> QED BY <1>1, Becoming DEF Goto

(* A failing attempt only takes its own claim away.                        *)
LEMMA FailType ==
    ASSUME TypeOK, NEW t \in Attempts, Fail(t)
    PROVE  TypeOK'
<1>1. claim' \in [Attempts -> File]
  BY FileForms DEF TypeOK, Fail
<1>2. attempt' \in [Attempts -> Attempt]
  BY AttemptForms, Becoming DEF Fail
<1> QED BY <1>1, <1>2 DEF TypeOK, Fail

LEMMA TakeType ==
    ASSUME TypeOK, NEW t \in Attempts, Take(t)
    PROVE  TypeOK'
<1>1. attempt' \in [Attempts -> Attempt]
  BY AttemptForms, Becoming DEF Take
<1> QED BY <1>1 DEF TypeOK, Take

LEMMA ClaimingType ==
    ASSUME TypeOK, NEW t \in Attempts,
           StageClaim(t) \/ GrantClaim(t) \/ Claimed(t) \/ Scan(t)
    PROVE  TypeOK'
<1>1. CASE StageClaim(t)
  <2>1. attempt' \in [Attempts -> Attempt]
    BY <1>1, Going DEF StageClaim, Points
  <2> QED BY <1>1, <2>1, FileForms DEF TypeOK, StageClaim
<1>2. CASE GrantClaim(t)
  BY <1>2, FileForms DEF TypeOK, GrantClaim
<1>3. CASE Claimed(t)
  <2>1. attempt' \in [Attempts -> Attempt]
    BY <1>3, Going DEF Claimed, Points
  <2> QED BY <1>3, <2>1 DEF TypeOK, Claimed
<1>4. CASE Scan(t)
  <2>1. CASE Fail(t) BY <2>1, FailType
  <2>2. CASE ~Fail(t)
    <3> DEFINE todo == (Finals(claim) \cup Stagings(claim)) \ {t}
               k == [attempt[t] EXCEPT !.pc = "inspect", !.listed = Finals(claim),
                        !.staged = Stagings(claim), !.todo = todo]
    <3>1. Finals(claim) \subseteq Attempts /\ Stagings(claim) \subseteq Attempts
          /\ todo \subseteq Attempts
      BY DEF Finals, Stagings
    <3>2. attempt[t] \in Attempt /\ "inspect" \in Points
      BY DEF TypeOK, Points
    <3>3. k \in Attempt
      BY <3>1, <3>2 DEF Attempt
    <3>4. Become(t, k) /\ UNCHANGED <<claim, event, alive, author, journal>>
      BY <1>4, <2>2 DEF Scan
    <3>5. attempt' \in [Attempts -> Attempt]
      BY <3>3, <3>4, Becoming
    <3> QED BY <3>4, <3>5 DEF TypeOK
  <2> QED BY <2>1, <2>2
<1> QED BY <1>1, <1>2, <1>3, <1>4

LEMMA InspectionType ==
    ASSUME TypeOK, NEW t \in Attempts, NEW u \in Attempts, Inspect(t, u) \/ Inspected(t)
    PROVE  TypeOK'
<1>1. CASE Fail(t) BY <1>1, FailType
<1>2. CASE Take(t) BY <1>2, TakeType
<1>3. CASE Inspect(t, u) /\ ~Fail(t)
  <2> DEFINE next(stale) ==
        /\ Become(t, [attempt[t] EXCEPT !.todo = attempt[t].todo \ {u},
                                        !.stale = attempt[t].stale \cup stale])
        /\ UNCHANGED <<claim, event, alive, author, journal>>
  <2>0. next({}) \/ \E n \in Kinds : next({<<u, n>>})
    BY <1>3 DEF Inspect, Kinds
  <2>1. PICK stale : stale \subseteq Attempts \X Kinds /\ next(stale)
    <3>1. {} \subseteq Attempts \X Kinds /\ \A n \in Kinds : {<<u, n>>} \subseteq Attempts \X Kinds
      OBVIOUS
    <3> HIDE DEF next
    <3> QED BY <2>0, <3>1
  <2> DEFINE k == [attempt[t] EXCEPT !.todo = attempt[t].todo \ {u},
                                     !.stale = attempt[t].stale \cup stale]
  <2>2. attempt[t] \in Attempt
    BY DEF TypeOK
  <2>3. (attempt[t].stale \cup stale) \in SUBSET (Attempts \X Kinds)
    BY <2>1, <2>2 DEF Attempt, Kinds
  <2>a. (attempt[t].todo \ {u}) \in SUBSET Attempts
    BY <2>2 DEF Attempt
  <2>4. k \in Attempt
    BY <2>2, <2>3, <2>a DEF Attempt, Kinds
  <2>5. attempt' \in [Attempts -> Attempt]
    BY <2>1, <2>4, Becoming
  <2> QED BY <2>1, <2>5 DEF TypeOK
<1>4. CASE Inspected(t) /\ ~Take(t)
  <2>1. attempt' \in [Attempts -> Attempt]
    BY <1>4, Going DEF Inspected, Points
  <2> QED BY <1>4, <2>1 DEF TypeOK, Inspected
<1> QED BY <1>1, <1>2, <1>3, <1>4

LEMMA ReconciliationType ==
    ASSUME TypeOK, NEW t \in Attempts, NEW u \in Attempts,
           ListEvents(t) \/ CleanEvent(t, u) \/ Cleaned(t)
    PROVE  TypeOK'
<1>0. attempt[t] \in Attempt
  BY DEF TypeOK
<1>1. CASE Fail(t) BY <1>1, FailType
<1>2. CASE ListEvents(t) /\ ~Fail(t)
  <2> DEFINE k == [attempt[t] EXCEPT !.pc = "clean", !.pass = attempt[t].pass + 1,
                      !.todo = PendingEvents, !.listed = Finals(event)]
  <2>1. PendingEvents \subseteq Attempts /\ Finals(event) \subseteq Attempts
    BY DEF PendingEvents, Finals, Stagings
  <2>a. attempt[t].pass + 1 \in Nat /\ "clean" \in Points
    BY <1>0 DEF Attempt, Points
  <2>2. k \in Attempt
    BY <1>0, <2>1, <2>a DEF Attempt
  <2>3. attempt' \in [Attempts -> Attempt]
    BY <1>2, <2>2, Becoming, Going DEF ListEvents, Points
  <2> QED BY <1>2, <2>3 DEF TypeOK, ListEvents
<1>3. CASE CleanEvent(t, u) /\ ~Fail(t)
  <2> DEFINE k == [attempt[t] EXCEPT !.todo = attempt[t].todo \ {u}]
  <2>1. k \in Attempt
    BY <1>0 DEF Attempt
  <2>2. attempt' \in [Attempts -> Attempt]
    BY <1>3, <2>1, Becoming DEF CleanEvent
  <2>3. event' \in [Attempts -> File]
    BY <1>3, FileForms DEF CleanEvent, TypeOK
  <2> QED BY <1>3, <2>2, <2>3 DEF TypeOK, CleanEvent
<1>4. CASE Cleaned(t)
  <2>1. attempt' \in [Attempts -> Attempt]
    BY <1>4, Going DEF Cleaned, Points
  <2> QED BY <1>4, <2>1 DEF TypeOK, Cleaned
<1> QED BY <1>1, <1>2, <1>3, <1>4

LEMMA RemovalType ==
    ASSUME TypeOK, NEW t \in Attempts, NEW u \in Attempts, NEW n \in Kinds,
           RemoveStale(t, u, n) \/ Reclaimed(t) \/ Release(t)
    PROVE  TypeOK'
<1>1. CASE Fail(t) BY <1>1, FailType
<1>2. CASE RemoveStale(t, u, n) /\ ~Fail(t)
  <2> DEFINE k == [attempt[t] EXCEPT !.stale = attempt[t].stale \ {<<u, n>>}]
  <2>a. attempt[t] \in Attempt
    BY DEF TypeOK
  <2>b. attempt[t].stale \ {<<u, n>>} \subseteq Attempts \X Kinds
    BY <2>a DEF Attempt, Kinds
  <2>1. k \in Attempt
    BY <2>a, <2>b DEF Attempt, Kinds
  <2>2. attempt' \in [Attempts -> Attempt]
    BY <1>2, <2>1, Becoming DEF RemoveStale
  <2>3. claim' \in [Attempts -> File]
    BY <1>2, FileForms DEF RemoveStale, TypeOK
  <2> QED BY <1>2, <2>2, <2>3 DEF TypeOK, RemoveStale
<1>3. CASE Reclaimed(t) BY <1>3, TakeType DEF Reclaimed
<1>4. CASE Release(t)
  <2>1. attempt' \in [Attempts -> Attempt]
    BY <1>4, Going DEF Release, Points
  <2> QED BY <1>4, <2>1, FileForms DEF TypeOK, Release
<1> QED BY <1>1, <1>2, <1>3, <1>4

LEMMA PublishingType ==
    ASSUME TypeOK, NEW t \in Attempts, Publishing(t)
    PROVE  TypeOK'
<1>0. attempt[t] \in Attempt
  BY DEF TypeOK
<1>1. CASE StageEvent(t)
  <2>1. attempt' \in [Attempts -> Attempt]
    BY <1>1, Going DEF StageEvent, Points
  <2> QED BY <1>1, <2>1, FileForms DEF TypeOK, StageEvent
<1>2. CASE GrantEvent(t)
  BY <1>2, FileForms DEF TypeOK, GrantEvent
<1>3. CASE Abort(t)
  <2>1. attempt' \in [Attempts -> Attempt]
    BY <1>0, <1>3, AttemptForms, Becoming DEF Abort
  <2> QED BY <1>3, <2>1 DEF TypeOK, Abort
<1>4. CASE EventAnswered(t)
  <2> DEFINE k == [attempt[t] EXCEPT !.pc = "holding", !.answer = Answer(t)]
  <2>1. Answer(t) \in {"none", "published", "aborted", "failed"}
    BY DEF Answer
  <2>2. k \in Attempt
    BY <1>0, <2>1 DEF Attempt, Points
  <2>3. attempt' \in [Attempts -> Attempt]
    BY <1>4, <2>2, Becoming DEF EventAnswered
  <2> QED BY <1>4, <2>3 DEF TypeOK, EventAnswered
<1> QED BY <1>1, <1>2, <1>3, <1>4 DEF Publishing

LEMMA EnvironmentType ==
    ASSUME TypeOK, NEW t \in Attempts, Helpers(t) \/ Failures(t)
    PROVE  TypeOK'
<1>1. CASE ClaimHelper(t)
  <2>1. PICK f \in HelperSteps(claim[t], ~alive[t]) : claim' = [claim EXCEPT ![t] = f]
    BY <1>1 DEF ClaimHelper
  <2>2. f \in File
    BY <2>1, FileSteps DEF TypeOK
  <2> QED BY <1>1, <2>1, <2>2 DEF TypeOK, ClaimHelper
<1>2. CASE EventHelper(t)
  <2>1. PICK f \in HelperSteps(event[t], ~alive[t]) :
          /\ event' = [event EXCEPT ![t] = f]
          /\ journal' = IF f.final /\ ~event[t].final THEN Append(journal, t) ELSE journal
    BY <1>2 DEF EventHelper
  <2>2. f \in File
    BY <2>1, FileSteps DEF TypeOK
  <2>3. journal' \in Seq(Attempts)
    BY <2>1 DEF TypeOK
  <2> QED BY <1>2, <2>1, <2>2, <2>3 DEF TypeOK, EventHelper
<1>3. CASE ClaimHelperDies(t)
  BY <1>3, FileForms DEF TypeOK, ClaimHelperDies
<1>4. CASE EventHelperDies(t)
  BY <1>4, FileForms DEF TypeOK, EventHelperDies
<1>5. CASE Crash(t)
  <2>1. attempt[t] \in Attempt
    BY DEF TypeOK
  <2>2. attempt' \in [Attempts -> Attempt]
    BY <1>5, <2>1, AttemptForms, Becoming DEF Crash
  <2> QED BY <1>5, <2>2 DEF TypeOK, Crash
<1> QED BY <1>1, <1>2, <1>3, <1>4, <1>5 DEF Helpers, Failures

LEMMA TypeInductive == TypeOK /\ [Next]_vars => TypeOK'
<1> SUFFICES ASSUME TypeOK, [Next]_vars PROVE TypeOK'
  OBVIOUS
<1>1. CASE UNCHANGED vars
  BY <1>1 DEF TypeOK, vars
<1>2. CASE Next
  <2>1. PICK t \in Attempts :
          StageClaim(t) \/ Acquiring(t) \/ Publishing(t) \/ Release(t) \/ Helpers(t) \/ Failures(t)
    BY <1>2 DEF Next
  <2>2. CASE Acquiring(t)
    BY <2>2, ClaimingType, InspectionType, ReconciliationType, RemovalType DEF Acquiring, Kinds
  <2>3. "final" \in Kinds
    BY DEF Kinds
  <2> QED BY <2>1, <2>2, <2>3, ClaimingType, RemovalType, PublishingType, EnvironmentType
<1> QED BY <1>1, <1>2

LEMMA TypeInitially == Init => TypeOK
<1>1. NoFile \in File
  BY FileForms
<1>2. Idle \in Attempt
  BY AttemptForms
<1>3. <<>> \in Seq(Attempts)
  OBVIOUS
<1> QED BY <1>1, <1>2, <1>3 DEF Init, TypeOK

(* The state stays well-formed: every file is in one of the states the     *)
(* helper can leave it in, and every attempt at one of its points.         *)
THEOREM LeaseTypeCorrect == Spec => []TypeOK
BY TypeInitially, TypeInductive, PTL DEF Spec

(***************************************************************************)
(* One holder.  Of two attempts beyond their scan the one that scanned last*)
(* has listed the other's claim, because a claim is linked before its      *)
(* attempt scans and nobody takes the claim of a live process away.  It    *)
(* cannot get past this claim without looking at it.                       *)
(***************************************************************************)
ClaimStands(t) ==
    alive[t] =>
        /\ attempt[t].pc = "claiming" /\ claim[t].helper \in {"linked", "acknowledged", "done"}
              => claim[t].final
        /\ attempt[t].pc \in Inside => claim[t].final /\ claim[t].helper = "done"

StaleAreDead == \A t, u \in Attempts, n \in Kinds : <<u, n>> \in attempt[t].stale => ~alive[u]

HasToLook(t, u) == attempt[t].pc = "inspect" /\ u \in attempt[t].todo \cap attempt[t].listed

SomebodyLooks == \A t, u \in Attempts :
    t # u /\ Past(t) /\ Past(u) => HasToLook(t, u) \/ HasToLook(u, t)

ClaimsStand == \A t \in Attempts : ClaimStands(t)

OneInv == ClaimsStand /\ StaleAreDead /\ SomebodyLooks

LEMMA Became ==
    ASSUME TypeOK, NEW t \in Attempts, NEW k, Become(t, k)
    PROVE  attempt'[t] = k /\ \A v \in Attempts \ {t} : attempt'[v] = attempt[v]
BY DEF TypeOK, Become

(* The steps of an attempt that stays inside or gives up its attempt.      *)
Advances(t) ==
    /\ alive' = alive /\ alive[t]
    /\ \A v \in Attempts : alive[v] => claim'[v] = claim[v]
    /\ \A v \in Attempts \ {t} : attempt'[v] = attempt[v]
    /\ \A v \in Attempts, n \in Kinds :
          <<v, n>> \in attempt'[t].stale => <<v, n>> \in attempt[t].stale \/ ~alive[v]
    /\ attempt'[t].pc \in Inside
    /\ claim[t].final /\ claim[t].helper = "done"
    /\ \A v \in Attempts \ {t} :
          attempt'[t].pc \in Beyond /\ Past(v) => HasToLook(t, v)' \/ HasToLook(v, t)

(* The steps that enter an attempt, and those that leave it.               *)
Leaves(t) ==
    /\ \A v \in Attempts \ {t} :
          attempt'[v] = attempt[v] /\ claim'[v] = claim[v] /\ alive'[v] = alive[v]
    /\ attempt'[t].pc = "ended" \/ (attempt'[t].pc = "claiming" /\ claim'[t] = Opened)
    /\ attempt'[t].stale \subseteq attempt[t].stale
    /\ alive'[t] => alive[t]

LEMMA AdvancesOne ==
    ASSUME TypeOK, OneInv, NEW t \in Attempts, Advances(t)
    PROVE  OneInv'
<1>1. ClaimsStand'
  <2> SUFFICES ASSUME NEW v \in Attempts, alive[v]
               PROVE  /\ attempt'[v].pc = "claiming" /\ claim'[v].helper \in {"linked", "acknowledged", "done"}
                            => claim'[v].final
                      /\ attempt'[v].pc \in Inside => claim'[v].final /\ claim'[v].helper = "done"
    BY DEF ClaimsStand, ClaimStands, Advances
  <2>1. CASE v = t
    BY <2>1 DEF Advances
  <2>2. CASE v # t
    BY <2>2 DEF Advances, OneInv, ClaimsStand, ClaimStands
  <2> QED BY <2>1, <2>2
<1>2. StaleAreDead'
  BY DEF Advances, OneInv, StaleAreDead
<1>3. SomebodyLooks'
  <2> SUFFICES ASSUME NEW v \in Attempts, NEW w \in Attempts, v # w, Past(v)', Past(w)'
               PROVE  HasToLook(v, w)' \/ HasToLook(w, v)'
    BY DEF SomebodyLooks
  <2>1. CASE v # t /\ w # t
    BY <2>1 DEF Advances, OneInv, SomebodyLooks, HasToLook, Past
  <2>2. CASE v = t
    BY <2>2 DEF Advances, HasToLook, Past
  <2>3. CASE w = t
    BY <2>3 DEF Advances, HasToLook, Past
  <2> QED BY <2>1, <2>2, <2>3
<1> QED BY <1>1, <1>2, <1>3 DEF OneInv

LEMMA LeavesOne ==
    ASSUME TypeOK, OneInv, NEW t \in Attempts, Leaves(t)
    PROVE  OneInv'
<1>1. ClaimsStand'
  BY DEF Leaves, OneInv, ClaimsStand, ClaimStands, Inside, Opened
<1>2. StaleAreDead'
  BY DEF Leaves, OneInv, StaleAreDead, TypeOK
<1>3. ~Past(t)'
  BY DEF Leaves, Past, Beyond, Inside
<1>4. SomebodyLooks'
  BY <1>3 DEF Leaves, OneInv, SomebodyLooks, HasToLook, Past
<1> QED BY <1>1, <1>2, <1>4 DEF OneInv

(* The steps of the helper of a claim.                                     *)
LEMMA HelpedOne ==
    ASSUME TypeOK, OneInv, NEW t \in Attempts,
           GrantClaim(t) \/ ClaimHelper(t) \/ ClaimHelperDies(t)
    PROVE  OneInv'
<1>1. UNCHANGED <<attempt, alive>> /\ \A v \in Attempts \ {t} : claim'[v] = claim[v]
  BY DEF TypeOK, GrantClaim, ClaimHelper, ClaimHelperDies
<1>2. claim[t] \in File
  BY DEF TypeOK
<1>3. ClaimStands(t)'
  <2>1. CASE GrantClaim(t)
    BY <2>1, <1>2 DEF TypeOK, GrantClaim, At, Granted, ClaimStands, Inside, File
  <2>2. CASE ClaimHelper(t)
    <3> SUFFICES ASSUME alive[t] PROVE ClaimStands(t)'
      BY <1>1 DEF ClaimStands
    <3>1. claim'[t] \in HelperSteps(claim[t], FALSE)
      BY <2>2 DEF TypeOK, ClaimHelper
    <3>2. claim[t].helper # "done"
      BY <3>1 DEF HelperSteps
    <3>3. claim'[t].helper \in {"linked", "acknowledged", "done"} =>
            claim'[t].final \/ (claim[t].helper \in {"linked", "acknowledged"} /\ ~claim[t].final)
      BY <1>2, <3>1 DEF HelperSteps, Prepared, Linked, AcknowledgedFile, Unstaged, Disconnected, File
    <3> QED BY <1>1, <3>2, <3>3 DEF OneInv, ClaimsStand, ClaimStands
  <2>3. CASE ClaimHelperDies(t)
    <3>1. claim'[t] = Killed(claim[t]) /\ Running(claim[t])
      BY <2>3 DEF TypeOK, ClaimHelperDies
    <3>2. claim'[t].final = claim[t].final
          /\ claim'[t].helper = IF Acknowledged(claim[t]) THEN "done" ELSE "dead"
      BY <1>2, <3>1 DEF Killed, File
    <3> QED BY <1>1, <3>1, <3>2 DEF OneInv, ClaimsStand, ClaimStands, Acknowledged, Running
  <2> QED BY <2>1, <2>2, <2>3
<1>4. ClaimsStand'
  BY <1>1, <1>3 DEF OneInv, ClaimsStand, ClaimStands
<1> QED BY <1>1, <1>4 DEF OneInv, StaleAreDead, SomebodyLooks, HasToLook, Past

(* What each operation of an attempt is, in these terms.                   *)
LEMMA FailLeaves ==
    ASSUME TypeOK, NEW t \in Attempts, Fail(t)
    PROVE  Leaves(t)
<1>1. attempt'[t] = [Idle EXCEPT !.pc = "ended"]
      /\ \A v \in Attempts \ {t} : attempt'[v] = attempt[v]
  BY Became DEF Fail
<1> QED BY <1>1 DEF Leaves, Fail, TypeOK, Idle

LEMMA ClaimingSteps ==
    ASSUME TypeOK, OneInv, NEW t \in Attempts, StageClaim(t) \/ Claimed(t) \/ Scan(t)
    PROVE  Advances(t) \/ Leaves(t)
<1>0. attempt[t] \in Attempt
  BY DEF TypeOK
<1>1. CASE StageClaim(t)
  <2>1. attempt'[t] = [attempt[t] EXCEPT !.pc = "claiming"]
        /\ \A v \in Attempts \ {t} : attempt'[v] = attempt[v]
    BY <1>1, Became DEF StageClaim, Goto
  <2> QED BY <1>0, <1>1, <2>1 DEF Leaves, StageClaim, TypeOK, Attempt
<1>2. CASE Claimed(t)
  <2>1. attempt'[t] = [attempt[t] EXCEPT !.pc = IF Acknowledged(claim[t]) THEN "scan" ELSE "ended"]
        /\ \A v \in Attempts \ {t} : attempt'[v] = attempt[v]
    BY <1>2, Became DEF Claimed, Goto
  <2>2. attempt'[t].stale = attempt[t].stale
        /\ attempt'[t].pc = IF Acknowledged(claim[t]) THEN "scan" ELSE "ended"
    BY <1>0, <2>1 DEF Attempt
  <2>3. CASE Acknowledged(claim[t])
    <3>1. claim[t].final /\ claim[t].helper = "done"
      BY <1>2, <2>3 DEF Claimed, At, Acknowledged, Running, OneInv, ClaimsStand, ClaimStands
    <3> QED BY <1>2, <2>1, <2>2, <2>3, <3>1 DEF Advances, Claimed, At, Inside, Beyond
  <2>4. CASE ~Acknowledged(claim[t])
    BY <1>2, <2>1, <2>2, <2>4 DEF Leaves, Claimed
  <2> QED BY <2>3, <2>4
<1>3. CASE Scan(t) /\ Fail(t) BY <1>3, FailLeaves
<1>4. CASE Scan(t) /\ ~Fail(t)
  <2> DEFINE listed == Finals(claim)
             todo == (Finals(claim) \cup Stagings(claim)) \ {t}
             k == [attempt[t] EXCEPT !.pc = "inspect", !.listed = listed,
                       !.staged = Stagings(claim), !.todo = todo]
  <2>1. Become(t, k) /\ UNCHANGED <<claim, event, alive, author, journal>> /\ At(t, "scan")
    BY <1>4 DEF Scan
  <2>2. attempt'[t] = k /\ \A v \in Attempts \ {t} : attempt'[v] = attempt[v]
    BY <2>1, Became
  <2>3. /\ attempt'[t].pc = "inspect"
        /\ attempt'[t].stale = attempt[t].stale
        /\ attempt'[t].listed = listed
        /\ attempt'[t].todo = todo
    BY <1>0, <2>2 DEF Attempt
  <2>4. claim[t].final /\ claim[t].helper = "done" /\ alive[t]
    BY <2>1 DEF At, OneInv, ClaimsStand, ClaimStands, Inside
  <2>5. ASSUME NEW v \in Attempts \ {t}, Past(v) PROVE HasToLook(t, v)'
    <3>1. claim[v].final
      BY <2>5 DEF Past, Beyond, OneInv, ClaimsStand, ClaimStands
    <3>2. v \in Finals(claim)
      BY <3>1 DEF Finals
    <3> QED BY <2>3, <3>2 DEF HasToLook
  <2> QED BY <2>1, <2>2, <2>3, <2>4, <2>5 DEF Advances, Inside
<1> QED BY <1>1, <1>2, <1>3, <1>4

(* An attempt takes the lease only when it has nobody left to look at.     *)
LEMMA TakeAdvances ==
    ASSUME TypeOK, OneInv, NEW t \in Attempts, Take(t), alive[t], attempt[t].pc \in Beyond,
           attempt[t].pc = "inspect" => attempt[t].todo = {}
    PROVE  Advances(t)
<1>1. attempt'[t] = [Idle EXCEPT !.pc = "holding"]
      /\ \A v \in Attempts \ {t} : attempt'[v] = attempt[v]
  BY Became DEF Take
<1>2. attempt'[t].pc = "holding" /\ attempt'[t].stale = {}
  BY <1>1 DEF Idle
<1>3. claim[t].final /\ claim[t].helper = "done"
  BY DEF OneInv, ClaimsStand, ClaimStands, Beyond
<1>4. ASSUME NEW v \in Attempts \ {t}, Past(v) PROVE HasToLook(v, t)
  BY <1>4 DEF OneInv, SomebodyLooks, HasToLook, Past
<1> QED BY <1>1, <1>2, <1>3, <1>4 DEF Advances, Take, Inside

(* Beyond its inspection an attempt may move as it likes.                  *)
LEMMA WanderAdvances ==
    ASSUME TypeOK, OneInv, NEW t \in Attempts, alive[t], attempt[t].pc \in Beyond,
           attempt[t].pc = "inspect" => attempt[t].todo = {},
           NEW k, Become(t, k), k.pc \in Beyond, k.stale \subseteq attempt[t].stale,
           alive' = alive, \A v \in Attempts : alive[v] => claim'[v] = claim[v]
    PROVE  Advances(t)
<1>1. attempt'[t] = k /\ \A v \in Attempts \ {t} : attempt'[v] = attempt[v]
  BY Became
<1>2. claim[t].final /\ claim[t].helper = "done"
  BY DEF OneInv, ClaimsStand, ClaimStands, Beyond
<1>3. ASSUME NEW v \in Attempts \ {t}, Past(v) PROVE HasToLook(v, t)
  BY <1>3 DEF OneInv, SomebodyLooks, HasToLook, Past
<1> QED BY <1>1, <1>2, <1>3 DEF Advances, Beyond

LEMMA GotoAdvances ==
    ASSUME TypeOK, OneInv, NEW t \in Attempts, alive[t], attempt[t].pc \in Beyond,
           attempt[t].pc = "inspect" => attempt[t].todo = {},
           NEW pc \in Beyond, Goto(t, pc),
           alive' = alive, \A v \in Attempts : alive[v] => claim'[v] = claim[v]
    PROVE  Advances(t)
<1> DEFINE k == [attempt[t] EXCEPT !.pc = pc]
<1>1. k.pc = pc /\ k.stale = attempt[t].stale
  BY DEF TypeOK, Attempt
<1>2. Become(t, k)
  BY DEF Goto
<1> HIDE DEF k
<1> QED BY <1>1, <1>2, WanderAdvances

LEMMA InspectionSteps ==
    ASSUME TypeOK, OneInv, NEW t \in Attempts, NEW u \in Attempts, Inspect(t, u) \/ Inspected(t)
    PROVE  Advances(t) \/ Leaves(t)
<1>0. attempt[t] \in Attempt
  BY DEF TypeOK
<1>1. CASE Fail(t) BY <1>1, FailLeaves
<1>2. CASE Inspect(t, u) /\ ~Fail(t)
  <2> DEFINE next(stale) ==
        /\ Become(t, [attempt[t] EXCEPT !.todo = attempt[t].todo \ {u},
                                        !.stale = attempt[t].stale \cup stale])
        /\ UNCHANGED <<claim, event, alive, author, journal>>
  <2>1. At(t, "inspect") /\ claim[t].final /\ claim[t].helper = "done"
    BY <1>2 DEF Inspect, At, OneInv, ClaimsStand, ClaimStands, Inside
  <2>2. (~claim[u].final /\ next({})) \/ (~alive[u] /\ \E n \in Kinds : next({<<u, n>>}))
    BY <1>2 DEF Inspect, Live, Kinds
  <2>3. PICK stale : /\ next(stale)
                     /\ stale \subseteq {<<u, n>> : n \in Kinds} /\ (alive[u] => stale = {})
                     /\ claim[u].final => ~alive[u]
    <3> HIDE DEF next
    <3> QED BY <2>2
  <2>4. attempt'[t] = [attempt[t] EXCEPT !.todo = attempt[t].todo \ {u},
                                         !.stale = attempt[t].stale \cup stale]
        /\ \A v \in Attempts \ {t} : attempt'[v] = attempt[v]
    BY <2>3, Became
  <2>5. /\ attempt'[t].pc = "inspect"
        /\ attempt'[t].todo = attempt[t].todo \ {u}
        /\ attempt'[t].listed = attempt[t].listed
        /\ attempt'[t].stale = attempt[t].stale \cup stale
    BY <1>0, <2>1, <2>4 DEF At, Attempt
  <2>6. ASSUME NEW v \in Attempts, NEW n \in Kinds, <<v, n>> \in attempt'[t].stale
        PROVE  <<v, n>> \in attempt[t].stale \/ ~alive[v]
    BY <2>3, <2>5, <2>6
  <2>7. ASSUME NEW v \in Attempts \ {t}, Past(v) PROVE HasToLook(t, v)' \/ HasToLook(v, t)
    <3>1. v # u
      BY <2>3, <2>7 DEF Past, Beyond, OneInv, ClaimsStand, ClaimStands
    <3>2. HasToLook(t, v) \/ HasToLook(v, t)
      BY <2>1, <2>7 DEF OneInv, SomebodyLooks, Past, At, Beyond, Inside
    <3> QED BY <2>5, <3>1, <3>2 DEF HasToLook
  <2> QED BY <2>1, <2>3, <2>4, <2>5, <2>6, <2>7 DEF Advances, At, Inside
<1>3. CASE Inspected(t) /\ Take(t)
  BY <1>3, TakeAdvances DEF Inspected, At, Beyond, Inside
<1>4. CASE Inspected(t) /\ ~Take(t)
  <2>1. At(t, "inspect") /\ attempt[t].todo = {} /\ Goto(t, "reconcile")
        /\ UNCHANGED <<claim, event, alive, author, journal>>
    BY <1>4 DEF Inspected
  <2> QED BY <2>1, GotoAdvances DEF At, Beyond, Inside
<1> QED BY <1>1, <1>2, <1>3, <1>4

LEMMA ReconciliationSteps ==
    ASSUME TypeOK, OneInv, NEW t \in Attempts, NEW u \in Attempts,
           ListEvents(t) \/ CleanEvent(t, u) \/ Cleaned(t)
    PROVE  Advances(t) \/ Leaves(t)
<1>0. attempt[t] \in Attempt
  BY DEF TypeOK
<1>1. CASE Fail(t) BY <1>1, FailLeaves
<1>2. CASE ListEvents(t) /\ ~Fail(t)
  <2> DEFINE k == [attempt[t] EXCEPT !.pc = "clean", !.pass = attempt[t].pass + 1,
                      !.todo = PendingEvents, !.listed = Finals(event)]
  <2>1. At(t, "reconcile") /\ UNCHANGED <<claim, alive>> /\ (Goto(t, "remove") \/ Become(t, k))
    BY <1>2 DEF ListEvents
  <2>2. k.pc = "clean" /\ k.stale = attempt[t].stale
    BY <1>0 DEF Attempt
  <2> HIDE DEF k
  <2>3. CASE Goto(t, "remove")
    BY <2>1, <2>3, GotoAdvances DEF At, Beyond, Inside
  <2>4. CASE Become(t, k)
    BY <2>1, <2>2, <2>4, WanderAdvances DEF At, Beyond, Inside
  <2> QED BY <2>1, <2>3, <2>4
<1>3. CASE CleanEvent(t, u) /\ ~Fail(t)
  <2> DEFINE k == [attempt[t] EXCEPT !.todo = attempt[t].todo \ {u}]
  <2>1. At(t, "clean") /\ UNCHANGED <<claim, alive>> /\ Become(t, k)
    BY <1>3 DEF CleanEvent
  <2>2. k.pc = "clean" /\ k.stale = attempt[t].stale
    BY <1>0, <2>1 DEF Attempt, At
  <2> HIDE DEF k
  <2> QED BY <2>1, <2>2, WanderAdvances DEF At, Beyond, Inside
<1>4. CASE Cleaned(t)
  <2>1. At(t, "clean") /\ UNCHANGED <<claim, alive>> /\ Goto(t, "reconcile")
    BY <1>4 DEF Cleaned
  <2> QED BY <2>1, GotoAdvances DEF At, Beyond, Inside
<1> QED BY <1>1, <1>2, <1>3, <1>4

LEMMA RemovalSteps ==
    ASSUME TypeOK, OneInv, NEW t \in Attempts, NEW u \in Attempts, NEW n \in Kinds,
           RemoveStale(t, u, n) \/ Reclaimed(t) \/ Release(t)
    PROVE  Advances(t) \/ Leaves(t)
<1>0. attempt[t] \in Attempt
  BY DEF TypeOK
<1>1. CASE Fail(t) BY <1>1, FailLeaves
<1>2. CASE RemoveStale(t, u, n) /\ ~Fail(t)
  <2> DEFINE k == [attempt[t] EXCEPT !.stale = attempt[t].stale \ {<<u, n>>}]
  <2>1. At(t, "remove") /\ <<u, n>> \in attempt[t].stale /\ alive' = alive /\ Become(t, k)
    BY <1>2 DEF RemoveStale
  <2>2. k.pc = "remove" /\ k.stale \subseteq attempt[t].stale
    BY <1>0, <2>1 DEF Attempt, At
  <2>3. ~alive[u]
    BY <2>1 DEF OneInv, StaleAreDead
  <2>4. \A v \in Attempts : alive[v] => claim'[v] = claim[v]
    BY <1>2, <2>3 DEF RemoveStale, TypeOK
  <2> HIDE DEF k
  <2> QED BY <2>1, <2>2, <2>4, WanderAdvances DEF At, Beyond, Inside
<1>3. CASE Reclaimed(t)
  BY <1>3, TakeAdvances DEF Reclaimed, At, Beyond, Inside
<1>4. CASE Release(t)
  <2>1. attempt'[t] = [attempt[t] EXCEPT !.pc = "ended"]
        /\ \A v \in Attempts \ {t} : attempt'[v] = attempt[v]
    BY <1>4, Became DEF Release, Goto
  <2>2. attempt'[t].pc = "ended" /\ attempt'[t].stale = attempt[t].stale
    BY <1>0, <2>1 DEF Attempt
  <2> QED BY <1>4, <2>1, <2>2 DEF Leaves, Release, TypeOK
<1> QED BY <1>1, <1>2, <1>3, <1>4

LEMMA PublishingSteps ==
    ASSUME TypeOK, OneInv, NEW t \in Attempts, StageEvent(t) \/ Abort(t) \/ EventAnswered(t)
    PROVE  Advances(t)
<1>0. attempt[t] \in Attempt
  BY DEF TypeOK
<1>1. CASE StageEvent(t)
  <2>1. At(t, "holding") /\ UNCHANGED <<claim, alive>> /\ Goto(t, "publishing")
    BY <1>1 DEF StageEvent
  <2> QED BY <2>1, GotoAdvances DEF At, Beyond, Inside
<1>2. CASE Abort(t)
  <2> DEFINE k == [attempt[t] EXCEPT !.aborted = TRUE]
  <2>1. At(t, "publishing") /\ UNCHANGED <<claim, alive>> /\ Become(t, k)
    BY <1>2 DEF Abort
  <2>2. k.pc = "publishing" /\ k.stale = attempt[t].stale
    BY <1>0, <2>1 DEF Attempt, At
  <2> HIDE DEF k
  <2> QED BY <2>1, <2>2, WanderAdvances DEF At, Beyond, Inside
<1>3. CASE EventAnswered(t)
  <2> DEFINE k == [attempt[t] EXCEPT !.pc = "holding", !.answer = Answer(t)]
  <2>1. At(t, "publishing") /\ UNCHANGED <<claim, alive>> /\ Become(t, k)
    BY <1>3 DEF EventAnswered
  <2>2. k.pc = "holding" /\ k.stale = attempt[t].stale
    BY <1>0 DEF Attempt
  <2> HIDE DEF k
  <2> QED BY <2>1, <2>2, WanderAdvances DEF At, Beyond, Inside
<1> QED BY <1>1, <1>2, <1>3

LEMMA CrashLeaves ==
    ASSUME TypeOK, NEW t \in Attempts, Crash(t)
    PROVE  Leaves(t)
<1>1. attempt'[t] = [Idle EXCEPT !.pc = "ended", !.answer = attempt[t].answer]
      /\ \A v \in Attempts \ {t} : attempt'[v] = attempt[v]
  BY Became DEF Crash
<1>2. attempt'[t].pc = "ended" /\ attempt'[t].stale = {}
  BY <1>1 DEF Idle
<1> QED BY <1>1, <1>2 DEF Leaves, Crash, TypeOK

LEMMA OneInductive ==
    ASSUME TypeOK, OneInv, [Next]_vars
    PROVE  OneInv'
<1>1. CASE UNCHANGED <<claim, alive, attempt>>
  BY <1>1 DEF OneInv, ClaimsStand, ClaimStands, StaleAreDead, SomebodyLooks, HasToLook, Past
<1>2. CASE Next
  <2>1. PICK t \in Attempts :
          StageClaim(t) \/ Acquiring(t) \/ Publishing(t) \/ Release(t) \/ Helpers(t) \/ Failures(t)
    BY <1>2 DEF Next
  <2>2. CASE Advances(t) \/ Leaves(t)
    BY <2>2, AdvancesOne, LeavesOne
  <2>3. CASE Acquiring(t)
    BY <2>2, <2>3, ClaimingSteps, InspectionSteps, ReconciliationSteps, RemovalSteps, HelpedOne
       DEF Acquiring, Kinds
  <2>4. CASE Publishing(t)
    BY <1>1, <2>2, <2>4, PublishingSteps DEF Publishing, GrantEvent
  <2>5. CASE Helpers(t) \/ Failures(t)
    BY <1>1, <2>2, <2>5, HelpedOne, CrashLeaves DEF Helpers, Failures, EventHelper, EventHelperDies
  <2>6. "final" \in Kinds
    BY DEF Kinds
  <2> QED BY <2>1, <2>2, <2>3, <2>4, <2>5, <2>6, ClaimingSteps, RemovalSteps
<1> QED BY <1>1, <1>2 DEF vars

LEMMA OneInitially == Init => OneInv
BY DEF Init, OneInv, ClaimsStand, ClaimStands, StaleAreDead, SomebodyLooks, Past, Idle, NoFile,
       Beyond, Inside

LEMMA OneInvOneHolder == OneInv => OneHolder
BY DEF OneInv, SomebodyLooks, OneHolder, Holding, At, Past, HasToLook, Beyond, Inside

(* Never do two attempts hold the lease: however many servers look at each *)
(* other's claims at once, and whoever dies in between.                    *)
THEOREM LeaseHasOneHolder == Spec => []OneHolder
BY OneInvOneHolder, OneInitially, OneInductive, LeaseTypeCorrect, PTL DEF Spec

(***************************************************************************)
(* The journal under the lease.  An event that a helper may still link     *)
(* belongs to the last holder.  If that holder is dead, every attempt      *)
(* beyond its scan knows the holder's claim, and has it still to look at   *)
(* or has found it stale; then it reconciles the events before it takes    *)
(* the lease.                                                              *)
(***************************************************************************)
InFlight(u) == event[u].helper \in {"writing", "prepared", "granted"} /\ event[u].staging

Knows(t, u) ==
    \/ HasToLook(t, u)
    \/ /\ attempt[t].pc \in {"inspect", "reconcile", "clean"}
       /\ \E n \in Kinds : <<u, n>> \in attempt[t].stale

Flight(u) ==
    InFlight(u) =>
        /\ author = u
        /\ alive[u] => attempt[u].pc = "publishing"
        /\ ~alive[u] => claim[u].final /\ \A t \in Attempts : Past(t) => Knows(t, u)

Flights  == \A u \in Attempts : Flight(u)
Authored == \A t \in Attempts : Holding(t) => author = t

FlightInv == Flights /\ Authored

(* The steps that neither take the lease nor lose sight of an event.       *)
Cautious(t) ==
    /\ author' = author /\ alive' = alive
    /\ \A v \in Attempts \ {t} : attempt'[v] = attempt[v]
    /\ Holding(t)' => Holding(t)
    /\ \A u \in Attempts : InFlight(u)' => InFlight(u)
    /\ InFlight(t)' /\ alive[t] => attempt'[t].pc = "publishing"
    /\ \A u \in Attempts : InFlight(u) /\ ~alive[u] =>
          claim'[u].final /\ (Past(t)' => Knows(t, u)')

LEMMA CautiousFlights ==
    ASSUME TypeOK, FlightInv, NEW t \in Attempts, Cautious(t)
    PROVE  FlightInv'
<1>1. Authored'
  BY DEF FlightInv, Authored, Cautious, Holding, At
<1>2. ASSUME NEW u \in Attempts, InFlight(u)' PROVE Flight(u)'
  <2>1. InFlight(u) /\ author' = u /\ alive' = alive
    BY <1>2 DEF FlightInv, Flights, Flight, Cautious
  <2>2. alive[u] => attempt'[u].pc = "publishing"
    BY <1>2, <2>1 DEF FlightInv, Flights, Flight, Cautious
  <2>3. ASSUME ~alive[u], NEW v \in Attempts, Past(v)' PROVE Knows(v, u)'
    <3>1. CASE v = t
      BY <2>1, <2>3, <3>1 DEF Cautious
    <3>2. CASE v # t
      <4>1. attempt'[v] = attempt[v] /\ Past(v)
        BY <2>1, <2>3, <3>2 DEF Cautious, Past
      <4>2. Knows(v, u)
        BY <2>1, <2>3, <4>1 DEF FlightInv, Flights, Flight
      <4> QED BY <4>1, <4>2 DEF Knows, HasToLook
    <3> QED BY <3>1, <3>2
  <2>4. ~alive[u] => claim'[u].final
    BY <2>1 DEF Cautious
  <2> QED BY <2>1, <2>2, <2>3, <2>4 DEF Flight
<1>3. Flights'
  BY <1>2 DEF Flights, Flight
<1> QED BY <1>1, <1>3 DEF FlightInv

(* An attempt that is about to take the lease leaves nothing in flight.    *)
LEMMA NothingInFlight ==
    ASSUME TypeOK, OneInv, FlightInv, NEW t \in Attempts, alive[t],
           \/ attempt[t].pc = "inspect" /\ attempt[t].todo = {} /\ attempt[t].stale = {}
           \/ attempt[t].pc \in {"remove", "holding"},
           NEW u \in Attempts
    PROVE  ~InFlight(u)
<1>1. Past(t)
  BY DEF Past, Beyond, Inside
<1>2. ASSUME ~alive[u] PROVE ~Knows(t, u)
  BY DEF Knows, HasToLook
<1>3. ASSUME alive[u], attempt[u].pc = "publishing" PROVE FALSE
  <2>1. t # u /\ Past(u) /\ ~HasToLook(t, u) /\ ~HasToLook(u, t)
    BY <1>3 DEF Past, Beyond, Inside, HasToLook
  <2> QED BY <1>1, <2>1 DEF OneInv, SomebodyLooks
<1> QED BY <1>1, <1>2, <1>3 DEF FlightInv, Flights, Flight

LEMMA TakeFlights ==
    ASSUME TypeOK, OneInv, FlightInv, NEW t \in Attempts, Take(t), alive[t],
           \/ attempt[t].pc = "inspect" /\ attempt[t].todo = {} /\ attempt[t].stale = {}
           \/ attempt[t].pc = "remove"
    PROVE  FlightInv'
<1>1. \A u \in Attempts : ~InFlight(u)
  BY NothingInFlight
<1>2. Flights'
  BY <1>1 DEF Take, Flights, Flight, InFlight
<1>3. \A v \in Attempts \ {t} : attempt'[v] = attempt[v]
  BY Became DEF Take
<1>4. ASSUME NEW v \in Attempts \ {t} PROVE ~Holding(v)
  BY DEF OneInv, SomebodyLooks, HasToLook, Past, Holding, At, Beyond, Inside
<1>5. Authored'
  BY <1>3, <1>4 DEF Take, Authored, Holding, At
<1> QED BY <1>2, <1>5 DEF FlightInv

(* A crashing holder: everybody beyond the scan has its claim to look at.  *)
LEMMA CrashFlights ==
    ASSUME TypeOK, OneInv, FlightInv, NEW t \in Attempts, Crash(t)
    PROVE  FlightInv'
<1>1. /\ \A v \in Attempts \ {t} : attempt'[v] = attempt[v] /\ alive'[v] = alive[v]
      /\ ~alive'[t] /\ alive[t] /\ UNCHANGED <<claim, event, author>>
  BY Became DEF Crash, TypeOK
<1>2. Authored'
  BY <1>1 DEF FlightInv, Authored, Holding, At
<1>3. ASSUME NEW u \in Attempts, InFlight(u) PROVE Flight(u)'
  <2>1. author' = u
    BY <1>1, <1>3 DEF FlightInv, Flights, Flight
  <2>2. CASE u # t
    <3>1. ASSUME NEW v \in Attempts, Past(v)' PROVE Past(v) /\ v # t /\ (Knows(v, u) => Knows(v, u)')
      BY <1>1, <3>1 DEF Past, Knows, HasToLook
    <3> QED BY <1>1, <1>3, <2>1, <2>2, <3>1 DEF FlightInv, Flights, Flight
  <2>3. CASE u = t
    <3>1. attempt[t].pc = "publishing"
      BY <1>1, <1>3, <2>3 DEF FlightInv, Flights, Flight
    <3>2. claim[t].final /\ Past(t)
      BY <1>1, <3>1 DEF OneInv, ClaimsStand, ClaimStands, Past, Beyond, Inside
    <3>3. ASSUME NEW v \in Attempts, Past(v)' PROVE HasToLook(v, t)'
      <4>1. v # t /\ Past(v)
        BY <1>1, <3>3 DEF Past
      <4>2. HasToLook(v, t)
        BY <3>1, <3>2, <4>1 DEF OneInv, SomebodyLooks, HasToLook
      <4> QED BY <1>1, <4>1, <4>2 DEF HasToLook
    <3> QED BY <1>1, <2>1, <2>3, <3>2, <3>3 DEF Flight, Knows
  <2> QED BY <2>2, <2>3
<1>4. Flights'
  BY <1>1, <1>3 DEF Flights, Flight, InFlight
<1> QED BY <1>2, <1>4 DEF FlightInv

(* The operations of an attempt, in these terms.                           *)
LEMMA FailFlights ==
    ASSUME TypeOK, FlightInv, NEW t \in Attempts, Fail(t), alive[t], attempt[t].pc # "publishing"
    PROVE  FlightInv'
<1>1. attempt'[t] = [Idle EXCEPT !.pc = "ended"]
      /\ \A v \in Attempts \ {t} : attempt'[v] = attempt[v]
  BY Became DEF Fail
<1>2. attempt'[t].pc = "ended"
  BY <1>1 DEF Idle
<1>3. \A u \in Attempts : InFlight(u) /\ ~alive[u] => claim'[u].final
  BY DEF FlightInv, Flights, Flight, Fail, TypeOK
<1>4. ~InFlight(t)
  BY DEF FlightInv, Flights, Flight
<1>5. Cautious(t)
  BY <1>1, <1>2, <1>3, <1>4 DEF Cautious, Fail, Holding, At, InFlight, Past, Beyond, Inside
<1> QED BY <1>5, CautiousFlights

LEMMA ClaimingFlights ==
    ASSUME TypeOK, OneInv, FlightInv, NEW t \in Attempts, StageClaim(t) \/ Claimed(t) \/ Scan(t)
    PROVE  FlightInv'
<1>0. attempt[t] \in Attempt
  BY DEF TypeOK
<1>1. alive[t] /\ attempt[t].pc \in {"idle", "claiming", "scan"} /\ ~InFlight(t)
  BY DEF StageClaim, Claimed, Scan, At, FlightInv, Flights, Flight
<1>2. CASE Fail(t) BY <1>1, <1>2, FailFlights
<1>3. CASE StageClaim(t) \/ Claimed(t)
  <2>1. PICK pc \in {"claiming", "scan", "ended"} : Goto(t, pc)
    BY <1>3 DEF StageClaim, Claimed
  <2>2. attempt'[t].pc = pc /\ \A v \in Attempts \ {t} : attempt'[v] = attempt[v]
    BY <1>0, <2>1, Became DEF Goto, Attempt
  <2>3. \A u \in Attempts : ~alive[u] => claim'[u] = claim[u]
    BY <1>1, <1>3 DEF StageClaim, Claimed, TypeOK
  <2>4. UNCHANGED <<event, alive, author>>
    BY <1>3 DEF StageClaim, Claimed
  <2>5. Cautious(t)
    BY <1>1, <2>2, <2>3, <2>4
       DEF Cautious, Holding, At, InFlight, Past, Beyond, Inside, FlightInv, Flights, Flight
  <2> QED BY <2>5, CautiousFlights
<1>4. CASE Scan(t) /\ ~Fail(t)
  <2> DEFINE listed == Finals(claim)
             todo == (Finals(claim) \cup Stagings(claim)) \ {t}
             k == [attempt[t] EXCEPT !.pc = "inspect", !.listed = listed,
                       !.staged = Stagings(claim), !.todo = todo]
  <2>1. Become(t, k) /\ UNCHANGED <<claim, event, alive, author, journal>>
    BY <1>4 DEF Scan
  <2>2. attempt'[t] = k /\ \A v \in Attempts \ {t} : attempt'[v] = attempt[v]
    BY <2>1, Became
  <2>3. attempt'[t].pc = "inspect" /\ attempt'[t].listed = listed /\ attempt'[t].todo = todo
    BY <1>0, <2>2 DEF Attempt
  <2>4. ASSUME NEW u \in Attempts, InFlight(u), ~alive[u] PROVE claim[u].final /\ Knows(t, u)'
    <3>1. claim[u].final /\ u # t
      BY <1>1, <2>4 DEF FlightInv, Flights, Flight
    <3>2. u \in Finals(claim)
      BY <3>1 DEF Finals
    <3> QED BY <2>3, <3>1, <3>2 DEF Knows, HasToLook
  <2>5. Cautious(t)
    BY <1>1, <2>1, <2>2, <2>3, <2>4 DEF Cautious, Holding, At, InFlight
  <2> QED BY <2>5, CautiousFlights
<1> QED BY <1>2, <1>3, <1>4

(* An attempt on its way through the reconciliation.                       *)
LEMMA WanderFlights ==
    ASSUME TypeOK, FlightInv, NEW t \in Attempts, alive[t],
           (attempt[t].pc = "inspect" /\ attempt[t].todo = {}) \/ attempt[t].pc \in {"reconcile", "clean"},
           NEW k, Become(t, k), k.pc \in {"reconcile", "clean"}, k.stale = attempt[t].stale,
           UNCHANGED <<claim, alive, author>>, \A u \in Attempts : InFlight(u)' => InFlight(u)
    PROVE  FlightInv'
<1>1. attempt'[t] = k /\ \A v \in Attempts \ {t} : attempt'[v] = attempt[v]
  BY Became
<1>2. Past(t) /\ ~InFlight(t)
  BY DEF Past, Beyond, Inside, FlightInv, Flights, Flight
<1>3. ASSUME NEW u \in Attempts, InFlight(u), ~alive[u] PROVE claim[u].final /\ Knows(t, u)'
  BY <1>1, <1>2, <1>3 DEF FlightInv, Flights, Flight, Knows, HasToLook
<1>4. Cautious(t)
  BY <1>1, <1>2, <1>3 DEF Cautious, Holding, At
<1> QED BY <1>4, CautiousFlights

LEMMA InspectionFlights ==
    ASSUME TypeOK, OneInv, FlightInv, NEW t \in Attempts, NEW u \in Attempts,
           Inspect(t, u) \/ Inspected(t)
    PROVE  FlightInv'
<1>0. attempt[t] \in Attempt
  BY DEF TypeOK
<1>1. alive[t] /\ attempt[t].pc = "inspect" /\ ~InFlight(t) /\ Past(t)
  BY DEF Inspect, Inspected, At, FlightInv, Flights, Flight, Past, Beyond, Inside
<1>2. CASE Fail(t) BY <1>1, <1>2, FailFlights
<1>3. CASE Inspect(t, u) /\ ~Fail(t)
  <2> DEFINE next(stale) ==
        /\ Become(t, [attempt[t] EXCEPT !.todo = attempt[t].todo \ {u},
                                        !.stale = attempt[t].stale \cup stale])
        /\ UNCHANGED <<claim, event, alive, author, journal>>
  <2>1. (~claim[u].final /\ next({})) \/ \E n \in Kinds : next({<<u, n>>})
    BY <1>3 DEF Inspect, Kinds
  <2>2. PICK stale : /\ next(stale)
                     /\ claim[u].final => \E n \in Kinds : <<u, n>> \in stale
    <3> HIDE DEF next
    <3> QED BY <2>1
  <2>3. attempt'[t] = [attempt[t] EXCEPT !.todo = attempt[t].todo \ {u},
                                         !.stale = attempt[t].stale \cup stale]
        /\ \A v \in Attempts \ {t} : attempt'[v] = attempt[v]
    BY <2>2, Became
  <2>4. /\ attempt'[t].pc = "inspect"
        /\ attempt'[t].todo = attempt[t].todo \ {u}
        /\ attempt'[t].listed = attempt[t].listed
        /\ attempt'[t].stale = attempt[t].stale \cup stale
    BY <1>0, <1>1, <2>3 DEF Attempt
  <2>5. ASSUME NEW v \in Attempts, InFlight(v), ~alive[v] PROVE claim[v].final /\ Knows(t, v)'
    <3>1. claim[v].final /\ Knows(t, v)
      BY <1>1, <2>5 DEF FlightInv, Flights, Flight
    <3>2. CASE v = u
      BY <2>2, <2>4, <3>1, <3>2 DEF Knows
    <3>3. CASE v # u
      BY <2>4, <3>1, <3>3 DEF Knows, HasToLook
    <3> QED BY <3>1, <3>2, <3>3
  <2>6. Cautious(t)
    BY <1>1, <2>2, <2>3, <2>4, <2>5 DEF Cautious, Holding, At, InFlight
  <2> QED BY <2>6, CautiousFlights
<1>4. CASE Inspected(t) /\ attempt[t].stale = {}
  BY <1>1, <1>4, TakeFlights DEF Inspected
<1>5. CASE Inspected(t) /\ attempt[t].stale # {}
  <2>1. attempt[t].todo = {} /\ Goto(t, "reconcile") /\ UNCHANGED <<claim, event, alive, author>>
    BY <1>5 DEF Inspected
  <2> DEFINE k == [attempt[t] EXCEPT !.pc = "reconcile"]
  <2>2. k.pc = "reconcile" /\ k.stale = attempt[t].stale /\ Become(t, k)
    BY <1>0, <2>1 DEF Attempt, Goto
  <2>3. \A v \in Attempts : InFlight(v)' => InFlight(v)
    BY <2>1 DEF InFlight
  <2> HIDE DEF k
  <2> QED BY <1>1, <2>1, <2>2, <2>3, WanderFlights
<1> QED BY <1>2, <1>3, <1>4, <1>5

LEMMA ReconciliationFlights ==
    ASSUME TypeOK, OneInv, FlightInv, NEW t \in Attempts, NEW u \in Attempts,
           ListEvents(t) \/ CleanEvent(t, u) \/ Cleaned(t)
    PROVE  FlightInv'
<1>0. attempt[t] \in Attempt
  BY DEF TypeOK
<1>1. alive[t] /\ attempt[t].pc \in {"reconcile", "clean"} /\ ~InFlight(t) /\ Past(t)
  BY DEF ListEvents, CleanEvent, Cleaned, At, FlightInv, Flights, Flight, Past, Beyond, Inside
<1>2. CASE Fail(t) BY <1>1, <1>2, FailFlights
<1>3. CASE ListEvents(t) /\ ~Fail(t) /\ PendingEvents # {}
  <2> DEFINE k == [attempt[t] EXCEPT !.pc = "clean", !.pass = attempt[t].pass + 1,
                      !.todo = PendingEvents, !.listed = Finals(event)]
  <2>1. Become(t, k) /\ UNCHANGED <<claim, event, alive, author>>
    BY <1>3 DEF ListEvents
  <2>2. k.pc = "clean" /\ k.stale = attempt[t].stale
    BY <1>0 DEF Attempt
  <2>3. \A v \in Attempts : InFlight(v)' => InFlight(v)
    BY <2>1 DEF InFlight
  <2> HIDE DEF k
  <2> QED BY <1>1, <2>1, <2>2, <2>3, WanderFlights
<1>4. CASE ListEvents(t) /\ ~Fail(t) /\ PendingEvents = {}
  <2>1. Goto(t, "remove") /\ UNCHANGED <<claim, event, alive, author>>
    BY <1>4 DEF ListEvents
  <2>2. attempt'[t].pc = "remove" /\ \A v \in Attempts \ {t} : attempt'[v] = attempt[v]
    BY <1>0, <2>1, Became DEF Goto, Attempt
  <2>3. \A v \in Attempts : ~InFlight(v)
    BY <1>4 DEF PendingEvents, Stagings, InFlight
  <2>4. Cautious(t)
    BY <2>1, <2>2, <2>3 DEF Cautious, Holding, At, InFlight
  <2> QED BY <2>4, CautiousFlights
<1>5. CASE CleanEvent(t, u) /\ ~Fail(t)
  <2> DEFINE k == [attempt[t] EXCEPT !.todo = attempt[t].todo \ {u}]
  <2>1. At(t, "clean") /\ UNCHANGED <<claim, alive, author>> /\ Become(t, k)
    BY <1>5 DEF CleanEvent
  <2>2. k.pc = "clean" /\ k.stale = attempt[t].stale
    BY <1>0, <2>1 DEF Attempt, At
  <2>3. \A v \in Attempts : InFlight(v)' => InFlight(v)
    BY <1>5 DEF CleanEvent, InFlight, TypeOK, File
  <2> HIDE DEF k
  <2> QED BY <1>1, <2>1, <2>2, <2>3, WanderFlights
<1>6. CASE Cleaned(t)
  <2> DEFINE k == [attempt[t] EXCEPT !.pc = "reconcile"]
  <2>1. UNCHANGED <<claim, event, alive, author>> /\ Become(t, k)
    BY <1>6 DEF Cleaned, Goto
  <2>2. k.pc = "reconcile" /\ k.stale = attempt[t].stale
    BY <1>0 DEF Attempt
  <2>3. \A v \in Attempts : InFlight(v)' => InFlight(v)
    BY <2>1 DEF InFlight
  <2> HIDE DEF k
  <2> QED BY <1>1, <2>1, <2>2, <2>3, WanderFlights
<1> QED BY <1>2, <1>3, <1>4, <1>5, <1>6

LEMMA RemovalFlights ==
    ASSUME TypeOK, OneInv, FlightInv, NEW t \in Attempts, NEW u \in Attempts, NEW n \in Kinds,
           RemoveStale(t, u, n) \/ Reclaimed(t) \/ Release(t)
    PROVE  FlightInv'
<1>0. attempt[t] \in Attempt
  BY DEF TypeOK
<1>1. alive[t] /\ attempt[t].pc \in {"remove", "holding"}
  BY DEF RemoveStale, Reclaimed, Release, At
<1>2. \A v \in Attempts : ~InFlight(v)
  BY <1>1, NothingInFlight
<1>3. CASE Fail(t) BY <1>1, <1>3, FailFlights
<1>4. CASE Reclaimed(t)
  BY <1>1, <1>4, TakeFlights DEF Reclaimed, At
<1>5. CASE RemoveStale(t, u, n) /\ ~Fail(t)
  <2> DEFINE k == [attempt[t] EXCEPT !.stale = attempt[t].stale \ {<<u, n>>}]
  <2>1. At(t, "remove") /\ UNCHANGED <<event, alive, author>> /\ Become(t, k)
    BY <1>5 DEF RemoveStale
  <2>2. attempt'[t].pc = "remove" /\ \A v \in Attempts \ {t} : attempt'[v] = attempt[v]
    BY <1>0, <2>1, Became DEF At, Attempt
  <2>3. Cautious(t)
    BY <1>2, <2>1, <2>2 DEF Cautious, Holding, At, InFlight
  <2> QED BY <2>3, CautiousFlights
<1>6. CASE Release(t)
  <2>1. UNCHANGED <<event, alive, author>> /\ Goto(t, "ended")
    BY <1>6 DEF Release
  <2>2. attempt'[t].pc = "ended" /\ \A v \in Attempts \ {t} : attempt'[v] = attempt[v]
    BY <1>0, <2>1, Became DEF Goto, Attempt
  <2>3. Cautious(t)
    BY <1>2, <2>1, <2>2 DEF Cautious, Holding, At, InFlight
  <2> QED BY <2>3, CautiousFlights
<1> QED BY <1>3, <1>4, <1>5, <1>6

LEMMA PublishingFlights ==
    ASSUME TypeOK, OneInv, FlightInv, NEW t \in Attempts, StageEvent(t) \/ Abort(t) \/ EventAnswered(t)
    PROVE  FlightInv'
<1>0. attempt[t] \in Attempt
  BY DEF TypeOK
<1>1. CASE StageEvent(t)
  <2>1. /\ alive[t] /\ attempt[t].pc = "holding" /\ author = t
        /\ UNCHANGED <<claim, alive, author>> /\ Goto(t, "publishing")
        /\ \A v \in Attempts \ {t} : event'[v] = event[v]
    BY <1>1 DEF StageEvent, At, TypeOK, FlightInv, Authored, Holding
  <2>2. attempt'[t].pc = "publishing" /\ \A v \in Attempts \ {t} : attempt'[v] = attempt[v]
    BY <1>0, <2>1, Became DEF Goto, Attempt
  <2>3. \A v \in Attempts : ~InFlight(v)
    BY <2>1, NothingInFlight
  <2>4. Authored'
    BY <2>1, <2>2 DEF FlightInv, Authored, Holding, At
  <2>5. Flights'
    BY <2>1, <2>2, <2>3 DEF Flights, Flight, InFlight
  <2> QED BY <2>4, <2>5 DEF FlightInv
<1>2. CASE Abort(t) \/ EventAnswered(t)
  <2>1. /\ alive[t] /\ attempt[t].pc = "publishing" /\ Past(t)
        /\ UNCHANGED <<claim, event, alive, author>>
    BY <1>2 DEF Abort, EventAnswered, At, Past, Beyond, Inside
  <2>2. \A v \in Attempts \ {t} : attempt'[v] = attempt[v]
    BY <1>2, Became DEF Abort, EventAnswered
  <2>3. InFlight(t) => attempt'[t].pc = "publishing"
    <3>1. CASE Abort(t)
      <4>1. attempt'[t] = [attempt[t] EXCEPT !.aborted = TRUE]
        BY <3>1, Became DEF Abort
      <4> QED BY <1>0, <2>1, <4>1 DEF Attempt
    <3>2. CASE EventAnswered(t)
      BY <3>2 DEF EventAnswered, Running, InFlight
    <3> QED BY <1>2, <3>1, <3>2
  <2>4. \A u \in Attempts : ~alive[u] => ~InFlight(u)
    BY <2>1 DEF FlightInv, Flights, Flight, Knows, HasToLook
  <2>5. Cautious(t)
    BY <2>1, <2>2, <2>3, <2>4 DEF Cautious, Holding, At, InFlight
  <2> QED BY <2>5, CautiousFlights
<1> QED BY <1>1, <1>2

(* The steps of the helpers.                                               *)
LEMMA HelpedFlights ==
    ASSUME TypeOK, FlightInv, NEW t \in Attempts,
           \/ GrantClaim(t) \/ ClaimHelper(t) \/ ClaimHelperDies(t)
           \/ GrantEvent(t) \/ EventHelper(t) \/ EventHelperDies(t)
    PROVE  FlightInv'
<1>1. UNCHANGED <<attempt, alive, author>>
  BY DEF GrantClaim, ClaimHelper, ClaimHelperDies, GrantEvent, EventHelper, EventHelperDies
<1>2. claim[t] \in File /\ event[t] \in File
  BY DEF TypeOK
<1>3. \A v \in Attempts : claim[v].final => claim'[v].final
  <2>1. CASE GrantClaim(t) \/ ClaimHelperDies(t)
    <3>1. Granted(claim[t]).final = claim[t].final /\ Killed(claim[t]).final = claim[t].final
      BY <1>2 DEF Granted, Killed, File
    <3> QED BY <2>1, <3>1 DEF GrantClaim, ClaimHelperDies, TypeOK
  <2>2. CASE ClaimHelper(t)
    <3>1. \A o \in BOOLEAN : \A g \in HelperSteps(claim[t], o) : claim[t].final => g.final
      BY <1>2 DEF HelperSteps, Prepared, Linked, AcknowledgedFile, Unstaged, Disconnected, File
    <3>2. (~alive[t]) \in BOOLEAN
      OBVIOUS
    <3> QED BY <2>2, <3>1, <3>2 DEF ClaimHelper, TypeOK
  <2>3. CASE GrantEvent(t) \/ EventHelper(t) \/ EventHelperDies(t)
    BY <2>3 DEF GrantEvent, EventHelper, EventHelperDies
  <2> QED BY <2>1, <2>2, <2>3
<1>4. \A v \in Attempts : InFlight(v)' => InFlight(v)
  <2>1. CASE GrantEvent(t)
    <3>1. Granted(event[t]).staging = event[t].staging
      BY <1>2 DEF Granted, File
    <3> QED BY <2>1, <3>1 DEF GrantEvent, TypeOK, InFlight
  <2>2. CASE EventHelper(t)
    <3>1. \A o \in BOOLEAN : \A g \in HelperSteps(event[t], o) :
            \/ g.helper \notin {"writing", "prepared", "granted"}
            \/ event[t].helper = "writing" /\ g.staging = event[t].staging
      BY <1>2 DEF HelperSteps, Prepared, Linked, AcknowledgedFile, Unstaged, Disconnected, File
    <3>2. (~alive[t]) \in BOOLEAN
      OBVIOUS
    <3> QED BY <2>2, <3>1, <3>2 DEF EventHelper, TypeOK, InFlight
  <2>3. CASE EventHelperDies(t)
    <3>1. Killed(event[t]).helper \in {"done", "dead"}
      BY <1>2 DEF Killed, File
    <3> QED BY <2>3, <3>1 DEF EventHelperDies, TypeOK, InFlight
  <2>4. CASE GrantClaim(t) \/ ClaimHelper(t) \/ ClaimHelperDies(t)
    BY <2>4 DEF GrantClaim, ClaimHelper, ClaimHelperDies, InFlight
  <2> QED BY <2>1, <2>2, <2>3, <2>4
<1> QED BY <1>1, <1>3, <1>4
        DEF FlightInv, Flights, Flight, Authored, Holding, At, Past, Knows, HasToLook

LEMMA FlightInductive ==
    ASSUME TypeOK, OneInv, FlightInv, [Next]_vars
    PROVE  FlightInv'
<1>1. CASE UNCHANGED vars
  BY <1>1 DEF vars, FlightInv, Flights, Flight, Authored, Holding, At, Past, Knows, HasToLook, InFlight
<1>2. CASE Next
  <2>1. PICK t \in Attempts :
          StageClaim(t) \/ Acquiring(t) \/ Publishing(t) \/ Release(t) \/ Helpers(t) \/ Failures(t)
    BY <1>2 DEF Next
  <2>2. CASE Acquiring(t)
    BY <2>2, ClaimingFlights, InspectionFlights, ReconciliationFlights, RemovalFlights, HelpedFlights
       DEF Acquiring, Kinds
  <2>3. CASE Publishing(t) \/ Helpers(t) \/ Failures(t)
    BY <2>3, PublishingFlights, HelpedFlights, CrashFlights DEF Publishing, Helpers, Failures
  <2>4. "final" \in Kinds
    BY DEF Kinds
  <2> QED BY <2>1, <2>2, <2>3, <2>4, ClaimingFlights, RemovalFlights
<1> QED BY <1>1, <1>2

(***************************************************************************)
(* The lease implements ExclusiveJournal.                                  *)
(***************************************************************************)
LEMMA HolderIs ==
    /\ OneHolder => \A t \in Attempts : Holding(t) => Holder = t
    /\ (\A t \in Attempts : ~Holding(t)) => Holder = Nobody
BY DEF OneHolder, Holder

(* Nobody comes to hold the lease by any step but Take.                    *)
Quiet == /\ UNCHANGED author
         /\ \A v \in Attempts : Holding(v)' => Holding(v)

LEMMA QuietSteps ==
    ASSUME TypeOK, NEW t \in Attempts, NEW u \in Attempts, NEW n \in Kinds,
           \/ StageClaim(t) \/ Claimed(t) \/ Scan(t) \/ Inspect(t, u)
           \/ Inspected(t) /\ attempt[t].stale # {}
           \/ ListEvents(t) \/ CleanEvent(t, u) \/ Cleaned(t) \/ RemoveStale(t, u, n)
           \/ Release(t) \/ StageEvent(t) \/ Abort(t) \/ EventAnswered(t) \/ Crash(t)
    PROVE  Quiet /\ UNCHANGED journal
<1>0. attempt[t] \in Attempt
  BY DEF TypeOK
<1>1. UNCHANGED <<author, journal>>
  BY DEF StageClaim, Claimed, Scan, Inspect, Inspected, ListEvents, CleanEvent, Cleaned,
         RemoveStale, Release, StageEvent, Abort, EventAnswered, Crash, Fail
<1>2. PICK k : Become(t, k)
  BY DEF StageClaim, Claimed, Scan, Inspect, Inspected, ListEvents, CleanEvent, Cleaned,
         RemoveStale, Release, StageEvent, Abort, EventAnswered, Crash, Fail, Goto
<1>3. attempt'[t] = k /\ \A v \in Attempts \ {t} : attempt'[v] = attempt[v]
  BY <1>2, Became
<1>4. \A v \in Attempts : alive'[v] => alive[v]
  BY DEF TypeOK, StageClaim, Claimed, Scan, Inspect, Inspected, ListEvents, CleanEvent, Cleaned,
         RemoveStale, Release, StageEvent, Abort, EventAnswered, Crash, Fail
<1>5. Holding(t)' => Holding(t)
  <2>1. CASE Release(t) \/ StageEvent(t) \/ Abort(t) \/ EventAnswered(t)
    BY <2>1 DEF Release, StageEvent, Abort, EventAnswered, Holding
  <2>2. CASE Fail(t) \/ Crash(t)
    <3>1. attempt'[t] = [Idle EXCEPT !.pc = "ended"]
          \/ attempt'[t] = [Idle EXCEPT !.pc = "ended", !.answer = attempt[t].answer]
      BY <2>2, Became DEF Fail, Crash
    <3>2. attempt'[t].pc = "ended"
      BY <3>1 DEF Idle
    <3> QED BY <3>2 DEF Holding, At
  <2>3. CASE /\ ~Fail(t)
             /\ \/ StageClaim(t) \/ Claimed(t) \/ Cleaned(t)
                \/ Inspected(t) /\ attempt[t].stale # {}
                \/ ListEvents(t) /\ PendingEvents = {}
    <3>1. PICK pc \in {"claiming", "scan", "ended", "reconcile", "remove"} : Goto(t, pc)
      BY <2>3 DEF StageClaim, Claimed, Cleaned, Inspected, ListEvents
    <3>2. attempt'[t].pc = pc
      BY <1>0, <3>1, Became DEF Goto, Attempt
    <3> QED BY <3>2 DEF Holding, At
  <2>4. CASE ~Fail(t) /\ (Scan(t) \/ Inspect(t, u) \/ CleanEvent(t, u) \/ RemoveStale(t, u, n)
                          \/ (ListEvents(t) /\ PendingEvents # {}))
    <3>1. CASE Scan(t)
      <4>1. attempt'[t] = [attempt[t] EXCEPT !.pc = "inspect", !.listed = Finals(claim),
                !.staged = Stagings(claim), !.todo = (Finals(claim) \cup Stagings(claim)) \ {t}]
        BY <2>4, <3>1, Became DEF Scan
      <4> QED BY <1>0, <4>1 DEF Holding, At, Attempt
    <3>2. CASE Inspect(t, u)
      <4>0. PICK stale : Become(t, [attempt[t] EXCEPT !.todo = attempt[t].todo \ {u},
                                                      !.stale = attempt[t].stale \cup stale])
        BY <2>4, <3>2 DEF Inspect
      <4>1. attempt'[t] = [attempt[t] EXCEPT !.todo = attempt[t].todo \ {u},
                                             !.stale = attempt[t].stale \cup stale]
        BY <4>0, Became
      <4> QED BY <1>0, <3>2, <4>1 DEF Inspect, Holding, At, Attempt
    <3>3. CASE CleanEvent(t, u)
      <4>1. attempt'[t] = [attempt[t] EXCEPT !.todo = attempt[t].todo \ {u}]
        BY <2>4, <3>3, Became DEF CleanEvent
      <4> QED BY <1>0, <3>3, <4>1 DEF CleanEvent, Holding, At, Attempt
    <3>4. CASE RemoveStale(t, u, n)
      <4>1. attempt'[t] = [attempt[t] EXCEPT !.stale = attempt[t].stale \ {<<u, n>>}]
        BY <2>4, <3>4, Became DEF RemoveStale
      <4> QED BY <1>0, <3>4, <4>1 DEF RemoveStale, Holding, At, Attempt
    <3>5. CASE ListEvents(t) /\ PendingEvents # {}
      <4>1. attempt'[t] = [attempt[t] EXCEPT !.pc = "clean", !.pass = attempt[t].pass + 1,
                               !.todo = PendingEvents, !.listed = Finals(event)]
        BY <2>4, <3>5, Became DEF ListEvents
      <4> QED BY <1>0, <4>1 DEF Holding, At, Attempt
    <3> QED BY <2>4, <3>1, <3>2, <3>3, <3>4, <3>5
  <2> QED BY <2>1, <2>2, <2>3, <2>4
<1> QED BY <1>1, <1>3, <1>4, <1>5 DEF Quiet, Holding, At

LEMMA QuietIsDrop ==
    ASSUME TypeOK, OneInv, OneInv', Quiet, UNCHANGED journal
    PROVE  Abstract!Drop \/ UNCHANGED <<Holder, author, journal>>
<1>1. CASE \E v \in Attempts : Holding(v)'
  <2>1. PICK v \in Attempts : Holding(v)'
    BY <1>1
  <2>2. Holder = v
    BY <2>1, OneInvOneHolder, HolderIs DEF Quiet
  <2>3. Holder' = v
    BY <2>1, OneInvOneHolder DEF OneHolder, Holder
  <2> QED BY <2>2, <2>3 DEF Quiet
<1>2. CASE \A v \in Attempts : ~Holding(v)'
  <2>1. Holder' = Nobody
    BY <1>2 DEF Holder
  <2> QED BY <2>1 DEF Quiet, Abstract!Drop
<1> QED BY <1>1, <1>2

LEMMA TakeIsTake ==
    ASSUME TypeOK, OneInv, OneInv', NEW t \in Attempts, Take(t), alive[t],
           \/ attempt[t].pc = "inspect" /\ attempt[t].todo = {}
           \/ attempt[t].pc = "remove"
    PROVE  Abstract!Take(t)
<1>1. attempt'[t].pc = "holding"
  BY Became DEF Take, Idle
<1>2. Holding(t)'
  BY <1>1 DEF Take, Holding, At
<1>3. Holder' = t
  BY <1>2, OneInvOneHolder DEF OneHolder, Holder
<1>4. ASSUME NEW v \in Attempts PROVE ~Holding(v)
  BY DEF OneInv, SomebodyLooks, HasToLook, Past, Holding, At, Beyond, Inside
<1>5. Holder = Nobody
  BY <1>4, HolderIs
<1> QED BY <1>3, <1>5 DEF Take, Abstract!Take

(* A helper links an event: its attempt is the last to have held the lease.*)
LEMMA LinkIsPublish ==
    ASSUME TypeOK, OneInv, OneInv', FlightInv, NEW t \in Attempts, EventHelper(t)
    PROVE  Abstract!Publish \/ UNCHANGED <<Holder, author, journal>>
<1>1. PICK f \in HelperSteps(event[t], ~alive[t]) :
        journal' = IF f.final /\ ~event[t].final THEN Append(journal, t) ELSE journal
  BY DEF EventHelper
<1>2. UNCHANGED <<Holder, author>>
  BY DEF EventHelper, Holder, Holding, At
<1>3. event[t] \in File
  BY DEF TypeOK
<1>4. ASSUME f.final, ~event[t].final PROVE InFlight(t)
  BY <1>1, <1>3, <1>4 DEF HelperSteps, Prepared, Linked, AcknowledgedFile, Unstaged, Disconnected, File, InFlight
<1>5. CASE f.final /\ ~event[t].final
  <2>1. author = t /\ author # Nobody
    BY <1>4, <1>5, NobodyAssumption DEF FlightInv, Flights, Flight
  <2> QED BY <1>1, <1>2, <1>5, <2>1 DEF Abstract!Publish
<1>6. CASE ~(f.final /\ ~event[t].final)
  BY <1>1, <1>2, <1>6
<1> QED BY <1>5, <1>6

LEMMA StepImplements ==
    ASSUME TypeOK, OneInv, OneInv', FlightInv, [Next]_vars
    PROVE  [Abstract!Next]_<<Holder, author, journal>>
<1>1. CASE UNCHANGED <<attempt, alive, author, journal>>
  BY <1>1 DEF Holder, Holding, At
<1>2. CASE Next
  <2>1. PICK t \in Attempts :
          StageClaim(t) \/ Acquiring(t) \/ Publishing(t) \/ Release(t) \/ Helpers(t) \/ Failures(t)
    BY <1>2 DEF Next
  <2>2. CASE Quiet /\ UNCHANGED journal
    BY <2>2, QuietIsDrop DEF Abstract!Next
  <2>3. CASE GrantClaim(t) \/ GrantEvent(t) \/ ClaimHelper(t) \/ ClaimHelperDies(t) \/ EventHelperDies(t)
    BY <1>1, <2>3 DEF GrantClaim, GrantEvent, ClaimHelper, ClaimHelperDies, EventHelperDies
  <2>4. CASE EventHelper(t)
    BY <2>4, LinkIsPublish DEF Abstract!Next
  <2>5. CASE (Inspected(t) /\ attempt[t].stale = {}) \/ Reclaimed(t)
    <3>1. Abstract!Take(t)
      BY <2>5, TakeIsTake DEF Inspected, Reclaimed, At
    <3> QED BY <3>1 DEF Abstract!Next
  <2>6. "final" \in Kinds
    BY DEF Kinds
  <2>7. CASE Acquiring(t)
    BY <2>2, <2>3, <2>5, <2>6, <2>7, QuietSteps DEF Acquiring, Kinds
  <2>8. CASE StageClaim(t) \/ Publishing(t) \/ Release(t) \/ Helpers(t) \/ Failures(t)
    BY <2>2, <2>3, <2>4, <2>6, <2>8, QuietSteps DEF Publishing, Helpers, Failures
  <2> QED BY <2>1, <2>7, <2>8
<1> QED BY <1>1, <1>2 DEF vars

LEMMA FlightInitially == Init => FlightInv
BY DEF Init, FlightInv, Flights, Flight, Authored, InFlight, Holding, At, NoFile, Idle

LEMMA InitImplements == Init => Abstract!Init
<1>1. Init => \A t \in Attempts : ~Holding(t)
  BY DEF Init, Holding, At, Idle
<1> QED BY <1>1, HolderIs DEF Init, Abstract!Init

(* The claims implement the exclusive lease on the journal: one holder at a*)
(* time, and every event in the journal comes from the last to have taken  *)
(* the lease, whatever the helpers of dead holders still do.               *)
THEOREM LeaseImplementsExclusiveJournal == Spec => ImplementsExclusiveJournal
<1>1. Init => TypeOK /\ OneInv /\ FlightInv
  BY TypeInitially, OneInitially, FlightInitially
<1>2. TypeOK /\ OneInv /\ FlightInv /\ [Next]_vars => (TypeOK /\ OneInv /\ FlightInv)'
  BY TypeInductive, OneInductive, FlightInductive
<1>3. TypeOK /\ OneInv /\ OneInv' /\ FlightInv /\ [Next]_vars => [Abstract!Next]_<<Holder, author, journal>>
  BY StepImplements
<1> QED BY <1>1, <1>2, <1>3, InitImplements, PTL DEF Spec, ImplementsExclusiveJournal, Abstract!Spec
(***************************************************************************)
(* The answers of append.  An attempt answers once its helper has exited,  *)
(* and it publishes one event only: what is true of the file then stays so.*)
(***************************************************************************)
AnswerOK(t) ==
    /\ attempt[t].pc = "publishing" => event[t].helper # "none"
    /\ event[t].helper \in {"none", "writing", "prepared", "granted"} => ~event[t].final
    /\ Acknowledged(event[t]) \/ event[t].helper = "linked" => event[t].final
    /\ attempt[t].answer # "none" => event[t].helper \in {"done", "dead"}
    /\ attempt[t].answer = "aborted" => ~event[t].final
    /\ attempt[t].answer = "published" => event[t].final

AnswerInv == \A t \in Attempts : AnswerOK(t)

(* A step that publishes, answers and kills nothing.                       *)
Silent ==
    \A v \in Attempts :
        /\ event'[v].final = event[v].final
        /\ event'[v].helper = event[v].helper
        /\ attempt'[v].answer \in {"none", attempt[v].answer}
        /\ attempt'[v].pc = "publishing" => attempt[v].pc = "publishing"

LEMMA SilentAnswers ==
    ASSUME AnswerInv, Silent
    PROVE  AnswerInv'
<1>1. ASSUME NEW v \in Attempts
      PROVE  AnswerOK(v)'
  <2>1. AnswerOK(v)
    BY DEF AnswerInv
  <2>2. /\ event'[v].final = event[v].final /\ event'[v].helper = event[v].helper
        /\ attempt'[v].answer \in {"none", attempt[v].answer}
        /\ attempt'[v].pc = "publishing" => attempt[v].pc = "publishing"
    BY DEF Silent
  <2>3. QED BY <2>1, <2>2 DEF AnswerOK, Acknowledged
<1>2. QED BY <1>1 DEF AnswerInv

(* What a silent step makes of the attempt that takes it.                  *)
LEMMA SilentBecomes ==
    ASSUME TypeOK, NEW t \in Attempts, NEW k, Become(t, k),
           k.answer \in {"none", attempt[t].answer},
           k.pc = "publishing" => attempt[t].pc = "publishing",
           \A v \in Attempts : /\ event'[v].final = event[v].final
                               /\ event'[v].helper = event[v].helper
    PROVE  Silent
BY Became DEF Silent

LEMMA FailSilent ==
    ASSUME TypeOK, NEW t \in Attempts, Fail(t)
    PROVE  Silent
<1>1. [Idle EXCEPT !.pc = "ended"].answer = "none" /\ [Idle EXCEPT !.pc = "ended"].pc = "ended"
  BY DEF Idle
<1>2. QED BY <1>1, SilentBecomes DEF Fail

LEMMA TakeSilent ==
    ASSUME TypeOK, NEW t \in Attempts, Take(t)
    PROVE  Silent
<1>1. /\ [Idle EXCEPT !.pc = "holding"].answer = "none"
      /\ [Idle EXCEPT !.pc = "holding"].pc = "holding"
  BY DEF Idle
<1>2. QED BY <1>1, SilentBecomes DEF Take

LEMMA GotoSilent ==
    ASSUME TypeOK, NEW t \in Attempts, NEW pc, pc # "publishing", Goto(t, pc), event' = event
    PROVE  Silent
<1>1. attempt[t] \in Attempt
  BY DEF TypeOK
<1>2. /\ [attempt[t] EXCEPT !.pc = pc].answer = attempt[t].answer
      /\ [attempt[t] EXCEPT !.pc = pc].pc = pc
  BY <1>1 DEF Attempt
<1>3. QED BY <1>2, SilentBecomes DEF Goto

LEMMA SilentSteps ==
    ASSUME TypeOK, NEW t \in Attempts, NEW u \in Attempts, NEW n \in Kinds,
           \/ StageClaim(t) \/ GrantClaim(t) \/ Claimed(t) \/ Scan(t) \/ Inspect(t, u)
           \/ Inspected(t) \/ ListEvents(t) \/ CleanEvent(t, u) \/ Cleaned(t)
           \/ RemoveStale(t, u, n) \/ Reclaimed(t) \/ Release(t) \/ Abort(t)
           \/ ClaimHelper(t) \/ ClaimHelperDies(t) \/ Crash(t)
    PROVE  Silent
<1>0. attempt[t] \in Attempt /\ event \in [Attempts -> File]
  BY DEF TypeOK
<1>1. CASE Fail(t) \/ Take(t)
  BY <1>1, FailSilent, TakeSilent
<1>2. CASE GrantClaim(t) \/ ClaimHelper(t) \/ ClaimHelperDies(t)
  BY <1>2 DEF GrantClaim, ClaimHelper, ClaimHelperDies, Silent
<1>3. CASE /\ ~Fail(t) /\ ~Take(t)
           /\ \/ StageClaim(t) \/ Claimed(t) \/ Inspected(t) \/ Cleaned(t) \/ Release(t)
              \/ ListEvents(t) /\ PendingEvents = {}
  <2>1. PICK pc \in {"claiming", "scan", "ended", "reconcile", "remove"} : Goto(t, pc)
    BY <1>3 DEF StageClaim, Claimed, Inspected, Cleaned, Release, ListEvents
  <2>2. event' = event
    BY <1>3 DEF StageClaim, Claimed, Inspected, Cleaned, Release, ListEvents
  <2>3. QED BY <2>1, <2>2, GotoSilent
<1>4. CASE Scan(t) /\ ~Fail(t)
  <2> DEFINE k == [attempt[t] EXCEPT !.pc = "inspect", !.listed = Finals(claim),
                !.staged = Stagings(claim), !.todo = (Finals(claim) \cup Stagings(claim)) \ {t}]
  <2>1. Become(t, k) /\ event' = event
    BY <1>4 DEF Scan
  <2>2. k.answer = attempt[t].answer /\ k.pc = "inspect"
    BY <1>0 DEF Attempt
  <2>3. QED BY <2>1, <2>2, SilentBecomes
<1>5. CASE Inspect(t, u) /\ ~Fail(t)
  <2>1. PICK stale : /\ Become(t, [attempt[t] EXCEPT !.todo = attempt[t].todo \ {u},
                                                     !.stale = attempt[t].stale \cup stale])
                     /\ event' = event
    BY <1>5 DEF Inspect
  <2> DEFINE k == [attempt[t] EXCEPT !.todo = attempt[t].todo \ {u},
                                     !.stale = attempt[t].stale \cup stale]
  <2>2. k.answer = attempt[t].answer /\ k.pc = attempt[t].pc
    BY <1>0 DEF Attempt
  <2>3. QED BY <2>1, <2>2, SilentBecomes
<1>6. CASE ListEvents(t) /\ ~Fail(t) /\ PendingEvents # {}
  <2> DEFINE k == [attempt[t] EXCEPT !.pc = "clean", !.pass = attempt[t].pass + 1,
                               !.todo = PendingEvents, !.listed = Finals(event)]
  <2>1. Become(t, k) /\ event' = event
    BY <1>6 DEF ListEvents
  <2>2. k.answer = attempt[t].answer /\ k.pc = "clean"
    BY <1>0 DEF Attempt
  <2>3. QED BY <2>1, <2>2, SilentBecomes
<1>7. CASE CleanEvent(t, u) /\ ~Fail(t)
  <2> DEFINE k == [attempt[t] EXCEPT !.todo = attempt[t].todo \ {u}]
  <2>1. Become(t, k) /\ (event' = event \/ event' = [event EXCEPT ![u].staging = FALSE])
    BY <1>7 DEF CleanEvent
  <2>2. \A v \in Attempts : event'[v].final = event[v].final /\ event'[v].helper = event[v].helper
    BY <1>0, <2>1 DEF File
  <2>3. k.answer = attempt[t].answer /\ k.pc = attempt[t].pc
    BY <1>0 DEF Attempt
  <2>4. QED BY <2>1, <2>2, <2>3, SilentBecomes
<1>8. CASE RemoveStale(t, u, n) /\ ~Fail(t)
  <2> DEFINE k == [attempt[t] EXCEPT !.stale = attempt[t].stale \ {<<u, n>>}]
  <2>1. Become(t, k) /\ event' = event
    BY <1>8 DEF RemoveStale
  <2>2. k.answer = attempt[t].answer /\ k.pc = attempt[t].pc
    BY <1>0 DEF Attempt
  <2>3. QED BY <2>1, <2>2, SilentBecomes
<1>9. CASE Abort(t)
  <2> DEFINE k == [attempt[t] EXCEPT !.aborted = TRUE]
  <2>1. k.answer = attempt[t].answer /\ k.pc = attempt[t].pc
    BY <1>0 DEF Attempt
  <2>2. QED BY <1>9, <2>1, SilentBecomes DEF Abort
<1>10. CASE Crash(t)
  <2> DEFINE k == [Idle EXCEPT !.pc = "ended", !.answer = attempt[t].answer]
  <2>1. k.answer = attempt[t].answer /\ k.pc = "ended"
    BY DEF Idle
  <2>2. QED BY <1>10, <2>1, SilentBecomes DEF Crash
<1>11. CASE Reclaimed(t)
  BY <1>11, TakeSilent DEF Reclaimed
<1>12. QED BY <1>1, <1>2, <1>3, <1>4, <1>5, <1>6, <1>7, <1>8, <1>9, <1>10, <1>11

(* The event file of an attempt changes, and the attempt is not answered.  *)
LEMMA FileAnswers ==
    ASSUME TypeOK, AnswerInv, NEW t \in Attempts, NEW f,
           event' = [event EXCEPT ![t] = f],
           f.helper # "none",
           f.helper \in {"writing", "prepared", "granted"} => ~f.final,
           f.helper \in {"linked", "acknowledged", "done"} => f.final,
           attempt'[t].answer \in {"none", attempt[t].answer},
           attempt[t].answer = "none",
           \A v \in Attempts \ {t} : attempt'[v] = attempt[v]
    PROVE  AnswerInv'
<1>1. event'[t] = f /\ \A v \in Attempts \ {t} : event'[v] = event[v]
  BY DEF TypeOK
<1>2. AnswerOK(t)'
  BY <1>1 DEF AnswerOK, Acknowledged
<1>3. ASSUME NEW v \in Attempts \ {t}
      PROVE  AnswerOK(v)'
  BY <1>1, <1>3 DEF AnswerInv, AnswerOK
<1>4. QED BY <1>2, <1>3 DEF AnswerInv

LEMMA PublishingAnswers ==
    ASSUME TypeOK, AnswerInv, NEW t \in Attempts,
           \/ StageEvent(t) \/ GrantEvent(t) \/ EventHelper(t) \/ EventHelperDies(t)
    PROVE  AnswerInv'
<1>1. event[t] \in File /\ attempt[t] \in Attempt /\ AnswerOK(t)
  BY DEF TypeOK, AnswerInv
<1>2. CASE StageEvent(t)
  <2>1. event[t].helper = "none"
    BY <1>2 DEF StageEvent, NoFile
  <2>2. attempt[t].answer = "none"
    BY <1>1, <2>1 DEF AnswerOK
  <2>3. /\ attempt'[t].answer = attempt[t].answer
        /\ \A v \in Attempts \ {t} : attempt'[v] = attempt[v]
    BY <1>1, <1>2, Became DEF StageEvent, Goto, Attempt
  <2>4. /\ Opened.helper = "writing" /\ ~Opened.final
        /\ event' = [event EXCEPT ![t] = Opened]
    BY <1>2 DEF StageEvent, Opened
  <2>5. QED BY <2>2, <2>3, <2>4, FileAnswers
<1>3. CASE ~StageEvent(t)
  <2>1. attempt' = attempt /\ Running(event[t])
    BY <1>1, <1>3 DEF GrantEvent, EventHelper, EventHelperDies, HelperSteps, Running
  <2>2. attempt[t].answer = "none"
    BY <1>1, <2>1 DEF AnswerOK, Running
  <2> DEFINE Sound(f) == /\ f.helper # "none"
                         /\ f.helper \in {"writing", "prepared", "granted"} => ~f.final
                         /\ f.helper \in {"linked", "acknowledged", "done"} => f.final
  <2>3. PICK f : event' = [event EXCEPT ![t] = f] /\ Sound(f)
    <3>1. CASE GrantEvent(t)
      <4>1. Sound(Granted(event[t]))
        BY <1>1, <3>1 DEF GrantEvent, Granted, AnswerOK, File
      <4>2. QED BY <3>1, <4>1 DEF GrantEvent
    <3>2. CASE EventHelperDies(t)
      <4>1. Sound(Killed(event[t]))
        BY <1>1 DEF Killed, Acknowledged, AnswerOK, File
      <4>2. QED BY <3>2, <4>1 DEF EventHelperDies
    <3>3. CASE EventHelper(t)
      <4>1. \A f \in HelperSteps(event[t], ~alive[t]) : Sound(f)
        BY <1>1 DEF HelperSteps, Prepared, Linked, AcknowledgedFile, Unstaged, Disconnected,
                    Acknowledged, AnswerOK, File
      <4>2. QED BY <3>3, <4>1 DEF EventHelper
    <3>4. QED BY <1>3, <3>1, <3>2, <3>3
  <2>4. QED BY <2>1, <2>2, <2>3, FileAnswers
<1>4. QED BY <1>2, <1>3

LEMMA AnsweredAnswers ==
    ASSUME TypeOK, AnswerInv, NEW t \in Attempts, EventAnswered(t)
    PROVE  AnswerInv'
<1> DEFINE k == [attempt[t] EXCEPT !.pc = "holding", !.answer = Answer(t)]
<1>1. event[t] \in File /\ attempt[t] \in Attempt /\ AnswerOK(t)
  BY DEF TypeOK, AnswerInv
<1>2. /\ event' = event /\ attempt'[t] = k
      /\ \A v \in Attempts \ {t} : attempt'[v] = attempt[v]
  BY Became DEF EventAnswered
<1>3. k.pc = "holding" /\ k.answer = Answer(t)
  BY <1>1 DEF Attempt
<1>4. event[t].helper \in {"done", "dead"}
  BY <1>1 DEF EventAnswered, At, AnswerOK, Running, File, Places
<1>5. /\ Answer(t) = "aborted" => ~event[t].final
      /\ Answer(t) = "published" => event[t].final
  BY <1>1 DEF Answer, AnswerOK
<1>6. AnswerOK(t)'
  BY <1>1, <1>2, <1>3, <1>4, <1>5 DEF AnswerOK
<1>7. ASSUME NEW v \in Attempts \ {t}
      PROVE  AnswerOK(v)'
  BY <1>2, <1>7 DEF AnswerInv, AnswerOK
<1>8. QED BY <1>6, <1>7 DEF AnswerInv

LEMMA AnswerInductive == TypeOK /\ AnswerInv /\ [Next]_vars => AnswerInv'
<1> SUFFICES ASSUME TypeOK, AnswerInv, [Next]_vars PROVE AnswerInv'
  OBVIOUS
<1>1. CASE UNCHANGED vars
  BY <1>1 DEF vars, AnswerInv, AnswerOK
<1>2. CASE Next
  <2>1. PICK t \in Attempts :
          StageClaim(t) \/ Acquiring(t) \/ Publishing(t) \/ Release(t) \/ Helpers(t) \/ Failures(t)
    BY <1>2 DEF Next
  <2>2. "final" \in Kinds
    BY DEF Kinds
  <2>3. CASE Acquiring(t)
    BY <2>2, <2>3, SilentSteps, SilentAnswers DEF Acquiring, Kinds
  <2>4. CASE StageClaim(t) \/ Release(t) \/ Publishing(t) \/ Helpers(t) \/ Failures(t)
    BY <2>2, <2>4, SilentSteps, SilentAnswers, PublishingAnswers, AnsweredAnswers
       DEF Publishing, Helpers, Failures
  <2>5. QED BY <2>1, <2>3, <2>4
<1>3. QED BY <1>1, <1>2

LEMMA AnswerInitially == Init => AnswerInv
BY DEF Init, AnswerInv, AnswerOK, NoFile, Idle, Acknowledged

(* What append answered stays true: an event whose append was aborted never*)
(* comes to the journal, although its helper may outlive the abort, the    *)
(* process and the lease; one reported as published is there for good.     *)
THEOREM AnswersAreTrue == Spec => []AnswerIsTrue
<1>1. AnswerInv => AnswerIsTrue
  BY DEF AnswerInv, AnswerOK, AnswerIsTrue
<1>2. QED BY <1>1, TypeInitially, TypeInductive, AnswerInitially, AnswerInductive, PTL DEF Spec

(***************************************************************************)
(* What a killed helper leaves half written.  A claim of that kind is never*)
(* found stale, so that nobody removes it; an event of that kind lets      *)
(* nobody past the reconciliation.  The event bars those who know of the   *)
(* claim of its dead holder, and everybody beyond the scan does.           *)
(***************************************************************************)
SoundFile(f) ==
    /\ f.helper = "none" => ~f.staging /\ ~f.final /\ ~f.whole
    /\ f.helper \in {"prepared", "granted", "linked", "acknowledged", "done"} => f.whole
    /\ f.final => f.whole

(* What a step makes of a file; only its opening is another matter.        *)
Ages(f, g) ==
    /\ SoundFile(g)
    /\ f.helper = "none" <=> g.helper = "none"
    /\ f.whole => g.whole
    /\ g.staging => f.staging
    /\ f.helper = "done" => g.helper = "done" /\ (g.final => f.final)

(* The event of a dead process, whose claim still shows that it died.      *)
Pending(u) == ~alive[u] /\ claim[u].final /\ event[u].staging

(* An attempt publishes as holder, and takes its claim away afterwards.    *)
Spent(u) ==
    event[u].helper # "none" =>
        /\ claim[u].helper = "done"
        /\ attempt[u].pc \in {"holding", "publishing", "ended"}
        /\ alive[u] /\ attempt[u].pc = "ended" => ~claim[u].final

SoundFiles == \A u \in Attempts : SoundFile(claim[u]) /\ SoundFile(event[u])
Unstarted  == \A u \in Attempts : attempt[u].pc = "idle" => claim[u].helper = "none"
Validated  == \A t, u \in Attempts, n \in Kinds : <<u, n>> \in attempt[t].stale => claim[u].whole
Known      == \A t, u \in Attempts : Pending(u) /\ Past(t) => Knows(t, u)

LeftInv == SoundFiles /\ Unstarted /\ Validated /\ Known /\ \A u \in Attempts : Spent(u)

LEMMA FileAges ==
    ASSUME NEW f \in File, SoundFile(f)
    PROVE  /\ Ages(f, f) /\ Ages(f, Removed(f)) /\ Ages(f, [f EXCEPT !.staging = FALSE])
           /\ f.helper = "prepared" => Ages(f, Granted(f))
           /\ Running(f) => Ages(f, Killed(f))
           /\ \A o \in BOOLEAN : \A g \in HelperSteps(f, o) : Ages(f, g)
<1>1. Ages(f, f) /\ Ages(f, Removed(f)) /\ Ages(f, [f EXCEPT !.staging = FALSE])
  BY DEF Ages, SoundFile, Removed, File
<1>2. f.helper = "prepared" => Ages(f, Granted(f))
  BY DEF Ages, SoundFile, Granted, File
<1>3. Running(f) => Ages(f, Killed(f))
  BY DEF Ages, SoundFile, Running, Killed, Acknowledged, File
<1>4. ASSUME NEW o \in BOOLEAN, NEW g \in HelperSteps(f, o)
      PROVE  Ages(f, g)
  BY DEF Ages, SoundFile, HelperSteps, Prepared, Linked, AcknowledgedFile, Unstaged, Disconnected, File
<1>5. QED BY <1>1, <1>2, <1>3, <1>4

LEMMA LeftIsDead ==
    ASSUME NEW f \in File, SoundFile(f), LeftHalfWritten(f)
    PROVE  f.helper = "dead" /\ ~f.final
BY DEF LeftHalfWritten, HalfWritten, SoundFile, Running, File, Places

(* The steps that neither open a file nor kill a process.                  *)
Careful(t) ==
    /\ alive' = alive
    /\ \A v \in Attempts \ {t} : attempt'[v] = attempt[v]
    /\ \A v \in Attempts : Ages(claim[v], claim'[v]) /\ Ages(event[v], event'[v])
    /\ attempt'[t].pc = "idle" => attempt[t].pc = "idle"
    /\ \A v \in Attempts, n \in Kinds :
          <<v, n>> \in attempt'[t].stale => <<v, n>> \in attempt[t].stale \/ claim[v].whole
    /\ event[t].helper # "none" =>
          /\ attempt'[t].pc \in {"holding", "publishing", "ended"}
          /\ alive[t] /\ attempt'[t].pc = "ended" => ~claim'[t].final
    /\ \A u \in Attempts : Pending(u) /\ Past(t)' => Knows(t, u)'

LEMMA CarefulLeft ==
    ASSUME TypeOK, LeftInv, NEW t \in Attempts, Careful(t)
    PROVE  LeftInv'
<1>1. SoundFiles'
  BY DEF Careful, Ages, SoundFiles
<1>2. Unstarted'
  BY DEF LeftInv, Unstarted, Careful, Ages
<1>3. Validated'
  <2> SUFFICES ASSUME NEW v \in Attempts, NEW u \in Attempts, NEW n \in Kinds,
                      <<u, n>> \in attempt'[v].stale
               PROVE  claim'[u].whole
    BY DEF Validated
  <2>1. claim[u].whole
    <3>1. CASE v = t
      BY <3>1 DEF LeftInv, Validated, Careful
    <3>2. CASE v # t
      BY <3>2 DEF LeftInv, Validated, Careful
    <3>3. QED BY <3>1, <3>2
  <2>2. QED BY <2>1 DEF Careful, Ages
<1>4. ASSUME NEW u \in Attempts
      PROVE  Spent(u)'
  <2>1. /\ event'[u].helper # "none" => event[u].helper # "none"
        /\ claim[u].helper = "done" => claim'[u].helper = "done" /\ (claim'[u].final => claim[u].final)
        /\ alive'[u] = alive[u]
    BY DEF Careful, Ages
  <2>2. Spent(u)
    BY DEF LeftInv
  <2>3. CASE u = t
    BY <2>1, <2>2, <2>3 DEF Spent, Careful
  <2>4. CASE u # t
    <3>1. attempt'[u] = attempt[u]
      BY <2>4 DEF Careful
    <3>2. QED BY <2>1, <2>2, <3>1 DEF Spent
  <2>5. QED BY <2>3, <2>4
<1>5. ASSUME NEW u \in Attempts, Pending(u)'
      PROVE  Pending(u)
  <2>1. event[u].staging /\ ~alive[u]
    BY <1>5 DEF Pending, Careful, Ages
  <2>2. claim[u].helper = "done"
    BY <2>1 DEF LeftInv, SoundFiles, SoundFile, Spent
  <2>3. QED BY <1>5, <2>1, <2>2 DEF Pending, Careful, Ages
<1>6. Known'
  <2> SUFFICES ASSUME NEW v \in Attempts, NEW u \in Attempts, Pending(u)', Past(v)'
               PROVE  Knows(v, u)'
    BY DEF Known
  <2>1. Pending(u)
    BY <1>5
  <2>2. CASE v = t
    BY <2>1, <2>2 DEF Careful
  <2>3. CASE v # t
    <3>1. attempt'[v] = attempt[v] /\ Past(v)
      BY <2>3 DEF Careful, Past
    <3>2. Knows(v, u)
      BY <2>1, <3>1 DEF LeftInv, Known
    <3>3. QED BY <3>1, <3>2 DEF Knows, HasToLook
  <2>4. QED BY <2>2, <2>3
<1>7. QED BY <1>1, <1>2, <1>3, <1>4, <1>6 DEF LeftInv

(* Files that nobody touches age.                                          *)
LEMMA StillAges ==
    ASSUME TypeOK, LeftInv, NEW v \in Attempts
    PROVE  Ages(claim[v], claim[v]) /\ Ages(event[v], event[v])
BY FileAges DEF TypeOK, LeftInv, SoundFiles

(* Before it holds the lease an attempt has published nothing.             *)
LEMMA Unpublished ==
    ASSUME LeftInv, NEW t \in Attempts, attempt[t].pc \notin {"holding", "publishing", "ended"}
    PROVE  event[t].helper = "none"
BY DEF LeftInv, Spent

LEMMA GotoFacts ==
    ASSUME TypeOK, NEW t \in Attempts, NEW pc, Goto(t, pc)
    PROVE  /\ attempt'[t].pc = pc
           /\ attempt'[t].stale = attempt[t].stale
           /\ attempt'[t].todo = attempt[t].todo
           /\ attempt'[t].listed = attempt[t].listed
           /\ \A v \in Attempts \ {t} : attempt'[v] = attempt[v]
<1>1. attempt[t] \in Attempt
  BY DEF TypeOK
<1>2. /\ attempt'[t] = [attempt[t] EXCEPT !.pc = pc]
      /\ \A v \in Attempts \ {t} : attempt'[v] = attempt[v]
  BY Became DEF Goto
<1>3. QED BY <1>1, <1>2 DEF Attempt

LEMMA FailLeft ==
    ASSUME TypeOK, LeftInv, NEW t \in Attempts, Fail(t), attempt[t].pc \in Inside
    PROVE  LeftInv'
<1>1. attempt'[t] = [Idle EXCEPT !.pc = "ended"]
      /\ \A v \in Attempts \ {t} : attempt'[v] = attempt[v]
  BY Became DEF Fail
<1>2. attempt'[t].pc = "ended" /\ attempt'[t].stale = {}
  BY <1>1 DEF Idle
<1>3. \A v \in Attempts : Ages(claim[v], claim'[v]) /\ Ages(event[v], event'[v])
  BY StillAges, FileAges DEF Fail, TypeOK, LeftInv, SoundFiles
<1>4. ~claim'[t].final
  BY DEF Fail, TypeOK, Removed, File
<1>5. Careful(t)
  BY <1>1, <1>2, <1>3, <1>4 DEF Careful, Fail, Past, Beyond, Inside
<1>6. QED BY <1>5, CarefulLeft

LEMMA TakeLeft ==
    ASSUME TypeOK, LeftInv, NEW t \in Attempts, Take(t),
           \A u \in Attempts : ~Pending(u)
    PROVE  LeftInv'
<1>1. attempt'[t] = [Idle EXCEPT !.pc = "holding"]
      /\ \A v \in Attempts \ {t} : attempt'[v] = attempt[v]
  BY Became DEF Take
<1>2. attempt'[t].pc = "holding" /\ attempt'[t].stale = {}
  BY <1>1 DEF Idle
<1>3. \A v \in Attempts : Ages(claim[v], claim'[v]) /\ Ages(event[v], event'[v])
  BY StillAges DEF Take
<1>4. Careful(t)
  BY <1>1, <1>2, <1>3 DEF Careful, Take
<1>5. QED BY <1>4, CarefulLeft

(* Nothing is pending beyond the reconciliation, nor for one who has looked*)
(* at every claim and found none stale.                                    *)
LEMMA NothingPending ==
    ASSUME LeftInv, NEW t \in Attempts, alive[t],
           \/ attempt[t].pc = "inspect" /\ attempt[t].todo = {} /\ attempt[t].stale = {}
           \/ attempt[t].pc \in {"remove", "holding", "publishing"},
           NEW u \in Attempts
    PROVE  ~Pending(u)
<1>1. Past(t) /\ ~Knows(t, u)
  BY DEF Past, Beyond, Inside, Knows, HasToLook
<1>2. QED BY <1>1 DEF LeftInv, Known

LEMMA HelpedLeft ==
    ASSUME TypeOK, LeftInv, NEW t \in Attempts,
           \/ GrantClaim(t) \/ ClaimHelper(t) \/ ClaimHelperDies(t)
           \/ GrantEvent(t) \/ EventHelper(t) \/ EventHelperDies(t)
    PROVE  LeftInv'
<1>1. UNCHANGED <<attempt, alive>>
  BY DEF GrantClaim, ClaimHelper, ClaimHelperDies, GrantEvent, EventHelper, EventHelperDies
<1>2. /\ claim[t] \in File /\ SoundFile(claim[t])
      /\ event[t] \in File /\ SoundFile(event[t])
      /\ (~alive[t]) \in BOOLEAN
  BY DEF TypeOK, LeftInv, SoundFiles
<1>3. \A v \in Attempts : Ages(claim[v], claim'[v]) /\ Ages(event[v], event'[v])
  <2>1. CASE GrantClaim(t) \/ ClaimHelper(t) \/ ClaimHelperDies(t)
    <3>1. PICK f : claim' = [claim EXCEPT ![t] = f] /\ event' = event /\ Ages(claim[t], f)
      BY <1>2, <2>1, FileAges DEF GrantClaim, ClaimHelper, ClaimHelperDies
    <3>2. QED BY <3>1, StillAges DEF TypeOK
  <2>2. CASE GrantEvent(t) \/ EventHelper(t) \/ EventHelperDies(t)
    <3>1. PICK f : event' = [event EXCEPT ![t] = f] /\ claim' = claim /\ Ages(event[t], f)
      BY <1>2, <2>2, FileAges DEF GrantEvent, EventHelper, EventHelperDies
    <3>2. QED BY <3>1, StillAges DEF TypeOK
  <2>3. QED BY <2>1, <2>2
<1>4. Spent(t) /\ (event[t].helper # "none" => (claim'[t].final => claim[t].final))
  BY <1>3 DEF LeftInv, Spent, Ages
<1>5. \A u \in Attempts : Pending(u) /\ Past(t)' => Knows(t, u)'
  BY <1>1 DEF LeftInv, Known, Past, Knows, HasToLook
<1>6. Careful(t)
  BY <1>1, <1>3, <1>4, <1>5 DEF Careful, Spent
<1>7. QED BY <1>6, CarefulLeft

LEMMA ClaimingLeft ==
    ASSUME TypeOK, LeftInv, NEW t \in Attempts, StageClaim(t) \/ Claimed(t) \/ Scan(t)
    PROVE  LeftInv'
<1>0. attempt[t] \in Attempt
  BY DEF TypeOK
<1>1. alive[t] /\ attempt[t].pc \in {"idle", "claiming", "scan"} /\ event[t].helper = "none"
  BY Unpublished DEF StageClaim, Claimed, Scan, At
<1>2. CASE StageClaim(t)
  <2>1. /\ attempt'[t].pc = "claiming" /\ attempt'[t].stale = attempt[t].stale
        /\ \A v \in Attempts \ {t} : attempt'[v] = attempt[v]
    BY <1>2, GotoFacts DEF StageClaim
  <2>2. /\ UNCHANGED <<event, alive>> /\ claim'[t] = Opened
        /\ \A v \in Attempts \ {t} : claim'[v] = claim[v]
    BY <1>2 DEF StageClaim, TypeOK
  <2>3. ~claim[t].whole
    BY <1>2 DEF StageClaim, At, LeftInv, Unstarted, SoundFiles, SoundFile
  <2>4. SoundFiles'
    BY <2>2 DEF LeftInv, SoundFiles, SoundFile, Opened
  <2>5. Unstarted'
    BY <2>1, <2>2 DEF LeftInv, Unstarted
  <2>6. Validated'
    BY <2>1, <2>2, <2>3 DEF LeftInv, Validated
  <2>7. \A u \in Attempts : Spent(u)'
    BY <1>1, <2>1, <2>2 DEF LeftInv, Spent
  <2>8. Known'
    BY <1>1, <2>1, <2>2 DEF LeftInv, Known, Pending, Past, Beyond, Inside, Knows, HasToLook
  <2>9. QED BY <2>4, <2>5, <2>6, <2>7, <2>8 DEF LeftInv
<1>3. CASE Scan(t) /\ Fail(t)
  BY <1>3, FailLeft DEF Scan, At, Inside
<1>4. CASE Claimed(t)
  <2>1. PICK pc \in {"scan", "ended"} : Goto(t, pc)
    BY <1>4 DEF Claimed
  <2>2. /\ attempt'[t].pc = pc /\ attempt'[t].stale = attempt[t].stale
        /\ \A v \in Attempts \ {t} : attempt'[v] = attempt[v]
    BY <2>1, GotoFacts
  <2>3. UNCHANGED <<claim, event, alive>>
    BY <1>4 DEF Claimed
  <2>4. Careful(t)
    BY <1>1, <2>2, <2>3, StillAges DEF Careful, Past, Beyond, Inside
  <2>5. QED BY <2>4, CarefulLeft
<1>5. CASE Scan(t) /\ ~Fail(t)
  <2> DEFINE todo == (Finals(claim) \cup Stagings(claim)) \ {t}
             k == [attempt[t] EXCEPT !.pc = "inspect", !.listed = Finals(claim),
                       !.staged = Stagings(claim), !.todo = todo]
  <2>1. Become(t, k) /\ UNCHANGED <<claim, event, alive>>
    BY <1>5 DEF Scan
  <2>2. attempt'[t] = k /\ \A v \in Attempts \ {t} : attempt'[v] = attempt[v]
    BY <2>1, Became
  <2>3. /\ attempt'[t].pc = "inspect" /\ attempt'[t].listed = Finals(claim)
        /\ attempt'[t].todo = todo /\ attempt'[t].stale = attempt[t].stale
    BY <1>0, <2>2 DEF Attempt
  <2>4. ASSUME NEW u \in Attempts, Pending(u) PROVE Knows(t, u)'
    <3>1. u # t /\ u \in Finals(claim)
      BY <1>1, <2>4 DEF Pending, Finals
    <3>2. QED BY <2>3, <3>1 DEF Knows, HasToLook
  <2>5. Careful(t)
    BY <1>1, <2>1, <2>2, <2>3, <2>4, StillAges DEF Careful
  <2>6. QED BY <2>5, CarefulLeft
<1>6. QED BY <1>2, <1>3, <1>4, <1>5

LEMMA InspectionLeft ==
    ASSUME TypeOK, LeftInv, NEW t \in Attempts, NEW u \in Attempts,
           Inspect(t, u) \/ Inspected(t)
    PROVE  LeftInv'
<1>0. attempt[t] \in Attempt
  BY DEF TypeOK
<1>1. alive[t] /\ attempt[t].pc = "inspect" /\ event[t].helper = "none" /\ Past(t)
  BY Unpublished DEF Inspect, Inspected, At, Past, Beyond, Inside
<1>2. CASE Fail(t)
  BY <1>1, <1>2, FailLeft DEF Inside
<1>3. CASE Inspect(t, u) /\ ~Fail(t)
  <2> DEFINE next(stale) ==
        /\ Become(t, [attempt[t] EXCEPT !.todo = attempt[t].todo \ {u},
                                        !.stale = attempt[t].stale \cup stale])
        /\ UNCHANGED <<claim, event, alive, author, journal>>
  <2>0. claim[u] \in File /\ SoundFile(claim[u])
    BY DEF TypeOK, LeftInv, SoundFiles
  <2>1. (~claim[u].final /\ next({})) \/ (claim[u].whole /\ \E n \in Kinds : next({<<u, n>>}))
    BY <1>3, <2>0 DEF Inspect, Invalid, HalfWritten, SoundFile, Kinds
  <2>2. PICK stale : /\ next(stale)
                     /\ stale \subseteq {<<u, n>> : n \in Kinds}
                     /\ stale # {} => claim[u].whole
                     /\ claim[u].final => \E n \in Kinds : <<u, n>> \in stale
    <3> HIDE DEF next
    <3> QED BY <2>1
  <2>3. attempt'[t] = [attempt[t] EXCEPT !.todo = attempt[t].todo \ {u},
                                         !.stale = attempt[t].stale \cup stale]
        /\ \A v \in Attempts \ {t} : attempt'[v] = attempt[v]
    BY <2>2, Became
  <2>4. /\ attempt'[t].pc = "inspect"
        /\ attempt'[t].todo = attempt[t].todo \ {u}
        /\ attempt'[t].listed = attempt[t].listed
        /\ attempt'[t].stale = attempt[t].stale \cup stale
    BY <1>0, <1>1, <2>3 DEF Attempt
  <2>5. ASSUME NEW v \in Attempts, Pending(v) PROVE Knows(t, v)'
    <3>1. claim[v].final /\ Knows(t, v)
      BY <1>1, <2>5 DEF LeftInv, Known, Pending
    <3>2. CASE v = u
      BY <2>2, <2>4, <3>1, <3>2 DEF Knows
    <3>3. CASE v # u
      BY <2>4, <3>1, <3>3 DEF Knows, HasToLook
    <3> QED BY <3>1, <3>2, <3>3
  <2>6. ASSUME NEW v \in Attempts, NEW n \in Kinds, <<v, n>> \in attempt'[t].stale
        PROVE  <<v, n>> \in attempt[t].stale \/ claim[v].whole
    BY <2>2, <2>4, <2>6
  <2>7. UNCHANGED <<claim, event, alive>>
    BY <2>2
  <2>8. Careful(t)
    BY <1>1, <2>3, <2>4, <2>5, <2>6, <2>7, StillAges DEF Careful
  <2> QED BY <2>8, CarefulLeft
<1>4. CASE Inspected(t) /\ attempt[t].stale = {}
  <2>1. \A v \in Attempts : ~Pending(v)
    BY <1>1, <1>4, NothingPending DEF Inspected
  <2>2. QED BY <1>4, <2>1, TakeLeft DEF Inspected
<1>5. CASE Inspected(t) /\ attempt[t].stale # {}
  <2>1. attempt[t].todo = {} /\ Goto(t, "reconcile") /\ UNCHANGED <<claim, event, alive>>
    BY <1>5 DEF Inspected
  <2>2. /\ attempt'[t].pc = "reconcile" /\ attempt'[t].stale = attempt[t].stale
        /\ \A v \in Attempts \ {t} : attempt'[v] = attempt[v]
    BY <2>1, GotoFacts
  <2>3. ASSUME NEW v \in Attempts, Pending(v) PROVE Knows(t, v)'
    BY <1>1, <2>1, <2>2, <2>3 DEF LeftInv, Known, Knows, HasToLook
  <2>4. Careful(t)
    BY <1>1, <2>1, <2>2, <2>3, StillAges DEF Careful
  <2>5. QED BY <2>4, CarefulLeft
<1>6. QED BY <1>2, <1>3, <1>4, <1>5

(* An attempt on its way through the reconciliation.                       *)
LEMMA WanderLeft ==
    ASSUME TypeOK, LeftInv, NEW t \in Attempts, alive[t], attempt[t].pc \in {"reconcile", "clean"},
           NEW k, Become(t, k), k.pc \in {"reconcile", "clean"}, k.stale = attempt[t].stale,
           UNCHANGED <<claim, alive>>, \A v \in Attempts : Ages(event[v], event'[v])
    PROVE  LeftInv'
<1>1. attempt'[t] = k /\ \A v \in Attempts \ {t} : attempt'[v] = attempt[v]
  BY Became
<1>2. Past(t) /\ event[t].helper = "none"
  BY Unpublished DEF Past, Beyond, Inside
<1>3. ASSUME NEW u \in Attempts, Pending(u) PROVE Knows(t, u)'
  BY <1>1, <1>2, <1>3 DEF LeftInv, Known, Knows, HasToLook
<1>4. \A v \in Attempts : Ages(claim[v], claim'[v])
  BY StillAges
<1>5. Careful(t)
  BY <1>1, <1>2, <1>3, <1>4 DEF Careful
<1>6. QED BY <1>5, CarefulLeft

LEMMA ReconciliationLeft ==
    ASSUME TypeOK, LeftInv, NEW t \in Attempts, NEW u \in Attempts,
           ListEvents(t) \/ CleanEvent(t, u) \/ Cleaned(t)
    PROVE  LeftInv'
<1>0. attempt[t] \in Attempt
  BY DEF TypeOK
<1>1. alive[t] /\ attempt[t].pc \in {"reconcile", "clean"} /\ event[t].helper = "none"
  BY Unpublished DEF ListEvents, CleanEvent, Cleaned, At
<1>2. CASE Fail(t)
  BY <1>1, <1>2, FailLeft DEF Inside
<1>3. CASE ListEvents(t) /\ ~Fail(t) /\ PendingEvents # {}
  <2> DEFINE k == [attempt[t] EXCEPT !.pc = "clean", !.pass = attempt[t].pass + 1,
                      !.todo = PendingEvents, !.listed = Finals(event)]
  <2>1. Become(t, k) /\ UNCHANGED <<claim, event, alive>>
    BY <1>3 DEF ListEvents
  <2>2. k.pc = "clean" /\ k.stale = attempt[t].stale
    BY <1>0 DEF Attempt
  <2> HIDE DEF k
  <2>3. QED BY <1>1, <2>1, <2>2, StillAges, WanderLeft
<1>4. CASE ListEvents(t) /\ ~Fail(t) /\ PendingEvents = {}
  <2>1. Goto(t, "remove") /\ UNCHANGED <<claim, event, alive>>
    BY <1>4 DEF ListEvents
  <2>2. /\ attempt'[t].pc = "remove" /\ attempt'[t].stale = attempt[t].stale
        /\ \A v \in Attempts \ {t} : attempt'[v] = attempt[v]
    BY <2>1, GotoFacts
  <2>3. \A v \in Attempts : ~Pending(v)
    BY <1>4 DEF PendingEvents, Stagings, Pending
  <2>4. Careful(t)
    BY <1>1, <2>1, <2>2, <2>3, StillAges DEF Careful
  <2>5. QED BY <2>4, CarefulLeft
<1>5. CASE CleanEvent(t, u) /\ ~Fail(t)
  <2> DEFINE k == [attempt[t] EXCEPT !.todo = attempt[t].todo \ {u}]
  <2>1. At(t, "clean") /\ UNCHANGED <<claim, alive>> /\ Become(t, k)
        /\ (event' = event \/ event' = [event EXCEPT ![u].staging = FALSE])
    BY <1>5 DEF CleanEvent
  <2>2. k.pc = "clean" /\ k.stale = attempt[t].stale
    BY <1>0, <2>1 DEF Attempt, At
  <2>3. event[u] \in File /\ SoundFile(event[u])
    BY DEF TypeOK, LeftInv, SoundFiles
  <2>4. \A v \in Attempts : Ages(event[v], event'[v])
    BY <2>1, <2>3, StillAges, FileAges DEF TypeOK
  <2> HIDE DEF k
  <2>5. QED BY <1>1, <2>1, <2>2, <2>4, WanderLeft
<1>6. CASE Cleaned(t)
  <2> DEFINE k == [attempt[t] EXCEPT !.pc = "reconcile"]
  <2>1. UNCHANGED <<claim, event, alive>> /\ Become(t, k)
    BY <1>6 DEF Cleaned, Goto
  <2>2. k.pc = "reconcile" /\ k.stale = attempt[t].stale
    BY <1>0 DEF Attempt
  <2> HIDE DEF k
  <2>3. QED BY <1>1, <2>1, <2>2, StillAges, WanderLeft
<1>7. QED BY <1>2, <1>3, <1>4, <1>5, <1>6

LEMMA RemovalLeft ==
    ASSUME TypeOK, LeftInv, NEW t \in Attempts, NEW u \in Attempts, NEW n \in Kinds,
           RemoveStale(t, u, n) \/ Reclaimed(t) \/ Release(t)
    PROVE  LeftInv'
<1>0. attempt[t] \in Attempt
  BY DEF TypeOK
<1>1. alive[t] /\ attempt[t].pc \in {"remove", "holding"}
  BY DEF RemoveStale, Reclaimed, Release, At
<1>2. \A v \in Attempts : ~Pending(v)
  BY <1>1, NothingPending
<1>3. CASE Fail(t)
  BY <1>1, <1>3, FailLeft DEF Inside
<1>4. CASE Reclaimed(t)
  BY <1>2, <1>4, TakeLeft DEF Reclaimed
<1>5. CASE RemoveStale(t, u, n) /\ ~Fail(t)
  <2> DEFINE k == [attempt[t] EXCEPT !.stale = attempt[t].stale \ {<<u, n>>}]
  <2>1. At(t, "remove") /\ UNCHANGED <<event, alive>> /\ Become(t, k)
    BY <1>5 DEF RemoveStale
  <2>2. /\ attempt'[t].pc = "remove" /\ attempt'[t].stale \subseteq attempt[t].stale
        /\ \A v \in Attempts \ {t} : attempt'[v] = attempt[v]
    BY <1>0, <2>1, Became DEF At, Attempt
  <2>3. claim[u] \in File /\ SoundFile(claim[u])
    BY DEF TypeOK, LeftInv, SoundFiles
  <2>4. PICK f : claim' = [claim EXCEPT ![u] = f] /\ Ages(claim[u], f)
    BY <1>5, <2>3, FileAges DEF RemoveStale
  <2>5. \A v \in Attempts : Ages(claim[v], claim'[v]) /\ Ages(event[v], event'[v])
    BY <2>1, <2>4, StillAges DEF TypeOK
  <2>6. event[t].helper = "none"
    BY <2>1, Unpublished DEF At
  <2>7. Careful(t)
    BY <1>2, <2>1, <2>2, <2>5, <2>6 DEF Careful
  <2>8. QED BY <2>7, CarefulLeft
<1>6. CASE Release(t)
  <2>1. UNCHANGED <<event, alive>> /\ Goto(t, "ended") /\ claim' = [claim EXCEPT ![t] = Removed(claim[t])]
    BY <1>6 DEF Release
  <2>2. /\ attempt'[t].pc = "ended" /\ attempt'[t].stale = attempt[t].stale
        /\ \A v \in Attempts \ {t} : attempt'[v] = attempt[v]
    BY <2>1, GotoFacts
  <2>3. claim[t] \in File /\ SoundFile(claim[t])
    BY DEF TypeOK, LeftInv, SoundFiles
  <2>4. \A v \in Attempts : Ages(claim[v], claim'[v]) /\ Ages(event[v], event'[v])
    BY <2>1, <2>3, StillAges, FileAges DEF TypeOK
  <2>5. ~claim'[t].final
    BY <2>1, <2>3 DEF TypeOK, Removed, File
  <2>6. Careful(t)
    BY <1>2, <2>1, <2>2, <2>4, <2>5 DEF Careful
  <2>7. QED BY <2>6, CarefulLeft
<1>7. QED BY <1>3, <1>4, <1>5, <1>6

LEMMA PublishingLeft ==
    ASSUME TypeOK, OneInv, LeftInv, NEW t \in Attempts, StageEvent(t) \/ Abort(t) \/ EventAnswered(t)
    PROVE  LeftInv'
<1>0. attempt[t] \in Attempt
  BY DEF TypeOK
<1>1. alive[t] /\ attempt[t].pc \in {"holding", "publishing"}
  BY DEF StageEvent, Abort, EventAnswered, At
<1>2. \A v \in Attempts : ~Pending(v)
  BY <1>1, NothingPending
<1>3. CASE StageEvent(t)
  <2>1. /\ attempt'[t].pc = "publishing" /\ attempt'[t].stale = attempt[t].stale
        /\ \A v \in Attempts \ {t} : attempt'[v] = attempt[v]
    BY <1>3, GotoFacts DEF StageEvent
  <2>2. /\ UNCHANGED <<claim, alive>> /\ event'[t] = Opened
        /\ \A v \in Attempts \ {t} : event'[v] = event[v]
    BY <1>3 DEF StageEvent, TypeOK
  <2>3. claim[t].helper = "done"
    BY <1>1 DEF OneInv, ClaimsStand, ClaimStands, Inside
  <2>4. SoundFiles'
    BY <2>2 DEF LeftInv, SoundFiles, SoundFile, Opened
  <2>5. Unstarted' /\ Validated'
    BY <2>1, <2>2 DEF LeftInv, Unstarted, Validated
  <2>6. \A u \in Attempts : Spent(u)'
    BY <2>1, <2>2, <2>3 DEF LeftInv, Spent
  <2>7. \A u \in Attempts : ~Pending(u)'
    BY <1>1, <1>2, <2>2 DEF Pending
  <2>8. QED BY <2>4, <2>5, <2>6, <2>7 DEF LeftInv, Known
<1>4. CASE Abort(t) \/ EventAnswered(t)
  <2>1. PICK k : /\ Become(t, k) /\ k.pc \in {"holding", "publishing"}
                 /\ k.stale = attempt[t].stale
    <3>1. CASE Abort(t)
      <4>1. [attempt[t] EXCEPT !.aborted = TRUE].pc = attempt[t].pc
            /\ [attempt[t] EXCEPT !.aborted = TRUE].stale = attempt[t].stale
        BY <1>0 DEF Attempt
      <4>2. QED BY <1>1, <3>1, <4>1 DEF Abort
    <3>2. CASE EventAnswered(t)
      <4>1. [attempt[t] EXCEPT !.pc = "holding", !.answer = Answer(t)].pc = "holding"
            /\ [attempt[t] EXCEPT !.pc = "holding", !.answer = Answer(t)].stale = attempt[t].stale
        BY <1>0 DEF Attempt
      <4>2. QED BY <3>2, <4>1 DEF EventAnswered
    <3>3. QED BY <1>4, <3>1, <3>2
  <2>2. UNCHANGED <<claim, event, alive>>
    BY <1>4 DEF Abort, EventAnswered
  <2>3. attempt'[t] = k /\ \A v \in Attempts \ {t} : attempt'[v] = attempt[v]
    BY <2>1, Became
  <2>4. Careful(t)
    BY <1>2, <2>1, <2>2, <2>3, StillAges DEF Careful
  <2>5. QED BY <2>4, CarefulLeft
<1>5. QED BY <1>3, <1>4

(* A crashing holder: everybody beyond the scan has its claim to look at.  *)
LEMMA CrashLeft ==
    ASSUME TypeOK, OneInv, LeftInv, NEW t \in Attempts, Crash(t)
    PROVE  LeftInv'
<1>1. attempt'[t] = [Idle EXCEPT !.pc = "ended", !.answer = attempt[t].answer]
      /\ \A v \in Attempts \ {t} : attempt'[v] = attempt[v]
  BY Became DEF Crash
<1>2. attempt'[t].pc = "ended" /\ attempt'[t].stale = {}
  BY <1>1 DEF Idle
<1>3. /\ \A v \in Attempts \ {t} : alive'[v] = alive[v]
      /\ ~alive'[t] /\ alive[t] /\ UNCHANGED <<claim, event>>
  BY DEF Crash, TypeOK
<1>4. SoundFiles' /\ Unstarted' /\ Validated'
  BY <1>1, <1>2, <1>3 DEF LeftInv, SoundFiles, Unstarted, Validated
<1>5. \A u \in Attempts : Spent(u)'
  BY <1>1, <1>2, <1>3 DEF LeftInv, Spent
<1>6. ASSUME NEW v \in Attempts, NEW u \in Attempts, Pending(u)', Past(v)'
      PROVE  Knows(v, u)'
  <2>1. v # t /\ Past(v) /\ attempt'[v] = attempt[v]
    BY <1>1, <1>3, <1>6 DEF Past
  <2>2. CASE u # t
    <3>1. Pending(u)
      BY <1>3, <1>6, <2>2 DEF Pending
    <3>2. Knows(v, u)
      BY <2>1, <3>1 DEF LeftInv, Known
    <3>3. QED BY <2>1, <3>2 DEF Knows, HasToLook
  <2>3. CASE u = t
    <3>1. claim[t].final /\ event[t].staging
      BY <1>3, <1>6, <2>3 DEF Pending
    <3>2. attempt[t].pc \in {"holding", "publishing"}
      BY <1>3, <3>1 DEF LeftInv, SoundFiles, SoundFile, Spent
    <3>3. HasToLook(v, t)
      BY <1>3, <2>1, <3>2 DEF OneInv, SomebodyLooks, HasToLook, Past, Beyond, Inside
    <3>4. QED BY <2>1, <2>3, <3>3 DEF Knows, HasToLook
  <2>4. QED BY <2>2, <2>3
<1>7. Known'
  BY <1>6 DEF Known
<1>8. QED BY <1>4, <1>5, <1>7 DEF LeftInv

LEMMA LeftInductive == TypeOK /\ OneInv /\ LeftInv /\ [Next]_vars => LeftInv'
<1> SUFFICES ASSUME TypeOK, OneInv, LeftInv, [Next]_vars PROVE LeftInv'
  OBVIOUS
<1>1. CASE UNCHANGED vars
  BY <1>1 DEF vars, LeftInv, SoundFiles, Unstarted, Validated, Known, Spent, Pending, Past,
              Knows, HasToLook
<1>2. CASE Next
  <2>1. PICK t \in Attempts :
          StageClaim(t) \/ Acquiring(t) \/ Publishing(t) \/ Release(t) \/ Helpers(t) \/ Failures(t)
    BY <1>2 DEF Next
  <2>2. "final" \in Kinds
    BY DEF Kinds
  <2>3. CASE Acquiring(t)
    BY <2>3, ClaimingLeft, InspectionLeft, ReconciliationLeft, RemovalLeft, HelpedLeft
       DEF Acquiring, Kinds
  <2>4. CASE StageClaim(t) \/ Release(t) \/ Publishing(t) \/ Helpers(t) \/ Failures(t)
    BY <2>2, <2>4, ClaimingLeft, RemovalLeft, PublishingLeft, HelpedLeft, CrashLeft
       DEF Publishing, Helpers, Failures
  <2>5. QED BY <2>1, <2>3, <2>4
<1>3. QED BY <1>1, <1>2

LEMMA LeftInitially == Init => LeftInv
BY DEF Init, LeftInv, SoundFiles, SoundFile, Unstarted, Validated, Known, Spent, Pending, NoFile, Idle

(***************************************************************************)
(* The half-written file stays, and so does what it shuts out.             *)
(***************************************************************************)
(* t has yet to look at u's half-written claim, or has failed.             *)
Barred(t, u) ==
    /\ LeftHalfWritten(claim[u])
    /\ \/ ~alive[t] \/ attempt[t].pc \in {"scan", "ended"}
       \/ attempt[t].pc = "inspect" /\ u \in attempt[t].todo \ attempt[t].listed

(* t has yet to reconcile u's half-written event, or has failed.           *)
Blocked(t, u) ==
    /\ LeftHalfWritten(event[u]) /\ Pending(u)
    /\ ~alive[t] \/ attempt[t].pc \notin {"idle", "claiming"}

(* No step changes a half-written claim whose helper is gone.              *)
LEMMA HalfWrittenClaimStays ==
    ASSUME TypeOK, OneInv, LeftInv, [Next]_vars, NEW u \in Attempts, LeftHalfWritten(claim[u])
    PROVE  claim'[u] = claim[u]
<1>0. /\ claim[u] \in File /\ claim[u].helper = "dead" /\ ~claim[u].whole
      /\ ~Running(claim[u])
  BY LeftIsDead DEF TypeOK, LeftInv, SoundFiles, LeftHalfWritten, HalfWritten
<1>1. CASE UNCHANGED claim
  BY <1>1
<1>2. CASE ~UNCHANGED claim
  <2>1. PICK t \in Attempts :
          StageClaim(t) \/ Acquiring(t) \/ Publishing(t) \/ Release(t) \/ Helpers(t) \/ Failures(t)
    BY <1>2 DEF Next, vars
  <2>2. CASE StageClaim(t)
    <3>1. t # u
      BY <1>0, <2>2 DEF StageClaim, At, LeftInv, Unstarted
    <3>2. QED BY <2>2, <3>1 DEF StageClaim, TypeOK
  <2>3. CASE GrantClaim(t) \/ ClaimHelper(t) \/ ClaimHelperDies(t)
    <3>1. t # u
      BY <1>0, <2>3 DEF GrantClaim, ClaimHelper, ClaimHelperDies, HelperSteps
    <3>2. QED BY <2>3, <3>1 DEF GrantClaim, ClaimHelper, ClaimHelperDies, TypeOK
  <2>4. CASE (Fail(t) \/ Release(t)) /\ alive[t] /\ attempt[t].pc \in Inside
    <3>1. t # u
      BY <1>0, <2>4 DEF OneInv, ClaimsStand, ClaimStands
    <3>2. QED BY <2>4, <3>1 DEF Fail, Release, TypeOK
  <2>5. ASSUME NEW v \in Attempts, NEW n \in Kinds, RemoveStale(t, v, n), ~Fail(t)
        PROVE  claim'[u] = claim[u]
    <3>1. v # u
      BY <1>0, <2>5 DEF RemoveStale, LeftInv, Validated
    <3>2. QED BY <2>5, <3>1 DEF RemoveStale, TypeOK
  <2>6. CASE Acquiring(t)
    <3>1. CASE Fail(t)
      <4>1. alive[t] /\ attempt[t].pc \in Inside \cup {"claiming"}
        BY <2>6 DEF Acquiring, GrantClaim, Claimed, Scan, Inspect, CleanEvent, Inspected, ListEvents,
                    Cleaned, RemoveStale, Reclaimed, At, Inside
      <4>2. attempt[t].pc # "claiming"
        <5> SUFFICES ASSUME attempt[t].pc = "claiming" PROVE FALSE
          OBVIOUS
        <5>1. GrantClaim(t) \/ Claimed(t)
          BY <2>6 DEF Acquiring, Scan, Inspect, CleanEvent, Inspected, ListEvents,
                      Cleaned, RemoveStale, Reclaimed, At
        <5>2. attempt' = attempt \/ claim' = claim
          BY <5>1 DEF GrantClaim, Claimed
        <5>3. attempt'[t].pc = "ended"
          BY <3>1, Became DEF Fail, Idle
        <5>4. QED BY <1>2, <5>2, <5>3
      <4>3. QED BY <2>4, <3>1, <4>1, <4>2
    <3>2. CASE ~Fail(t)
      BY <1>2, <2>3, <2>5, <2>6, <3>2
         DEF Acquiring, Kinds, Claimed, Scan, Inspect, CleanEvent, Inspected, ListEvents, Cleaned,
             Reclaimed, Take
    <3>3. QED BY <3>1, <3>2
  <2>7. CASE Release(t)
    BY <2>4, <2>7 DEF Release, At, Inside
  <2>8. CASE Publishing(t) \/ Helpers(t) \/ Failures(t)
    BY <1>2, <2>3, <2>8 DEF Publishing, StageEvent, GrantEvent, Abort, EventAnswered, Helpers,
                            EventHelper, Failures, EventHelperDies, Crash
  <2>9. QED BY <2>1, <2>2, <2>6, <2>7, <2>8
<1>3. QED BY <1>1, <1>2

(* No step changes the half-written event of a dead process.               *)
LEMMA HalfWrittenEventStays ==
    ASSUME TypeOK, LeftInv, [Next]_vars, NEW u \in Attempts, LeftHalfWritten(event[u]), ~alive[u]
    PROVE  event'[u] = event[u]
<1>0. event[u] \in File /\ event[u].helper = "dead" /\ ~event[u].whole /\ ~Running(event[u])
  BY LeftIsDead DEF TypeOK, LeftInv, SoundFiles, LeftHalfWritten, HalfWritten
<1>1. CASE UNCHANGED event
  BY <1>1
<1>2. CASE ~UNCHANGED event
  <2>1. PICK t \in Attempts :
          StageClaim(t) \/ Acquiring(t) \/ Publishing(t) \/ Release(t) \/ Helpers(t) \/ Failures(t)
    BY <1>2 DEF Next, vars
  <2>2. CASE StageEvent(t) \/ GrantEvent(t) \/ EventHelper(t) \/ EventHelperDies(t)
    <3>1. t # u
      BY <1>0, <2>2 DEF StageEvent, GrantEvent, At, EventHelper, EventHelperDies, HelperSteps
    <3>2. QED BY <2>2, <3>1 DEF StageEvent, GrantEvent, EventHelper, EventHelperDies, TypeOK
  <2>3. CASE \E v \in Attempts : CleanEvent(t, v)
    <3>1. PICK v \in Attempts : CleanEvent(t, v)
      BY <2>3
    <3>2. event[v].whole /\ event' = [event EXCEPT ![v].staging = FALSE]
      BY <1>2, <3>1 DEF CleanEvent, Fail
    <3>3. QED BY <1>0, <3>2 DEF TypeOK
  <2>4. QED
    BY <1>2, <2>1, <2>2, <2>3
       DEF StageClaim, Acquiring, GrantClaim, Claimed, Scan, Inspect, Inspected, ListEvents, Cleaned,
           RemoveStale, Reclaimed, Take, Fail, Publishing, Abort, EventAnswered, Release, Helpers,
           ClaimHelper, Failures, ClaimHelperDies, Crash
<1>3. QED BY <1>1, <1>2

(* Whose claim has a pending event keeps it.                               *)
LEMMA PendingClaimStays ==
    ASSUME TypeOK, LeftInv, [Next]_vars, NEW u \in Attempts, Pending(u)
    PROVE  claim'[u].final
<1>0. /\ claim[u] \in File /\ claim[u].helper = "done" /\ claim[u].final /\ ~alive[u]
      /\ ~Running(claim[u])
  BY DEF Pending, TypeOK, LeftInv, SoundFiles, SoundFile, Spent, Running
<1>1. CASE UNCHANGED claim
  BY <1>0, <1>1
<1>2. CASE ~UNCHANGED claim
  <2>1. PICK t \in Attempts :
          StageClaim(t) \/ Acquiring(t) \/ Publishing(t) \/ Release(t) \/ Helpers(t) \/ Failures(t)
    BY <1>2 DEF Next, vars
  <2>2. CASE StageClaim(t) \/ Release(t)
    BY <1>0, <2>2 DEF StageClaim, Release, At, TypeOK
  <2>3. CASE GrantClaim(t) \/ ClaimHelper(t) \/ ClaimHelperDies(t)
    <3>1. t # u
      BY <1>0, <2>3 DEF GrantClaim, At, ClaimHelper, ClaimHelperDies, HelperSteps
    <3>2. QED BY <1>0, <2>3, <3>1 DEF GrantClaim, ClaimHelper, ClaimHelperDies, TypeOK
  <2>4. CASE Fail(t) /\ alive[t]
    BY <1>0, <2>4 DEF Fail, TypeOK
  <2>5. ASSUME NEW v \in Attempts, NEW n \in Kinds, RemoveStale(t, v, n)
        PROVE  FALSE
    BY <2>5, NothingPending DEF RemoveStale, At
  <2>6. CASE Acquiring(t)
    <3>1. alive[t]
      BY <2>6 DEF Acquiring, GrantClaim, Claimed, Scan, Inspect, CleanEvent, Inspected, ListEvents,
                  Cleaned, RemoveStale, Reclaimed, At
    <3>2. QED
      BY <1>2, <2>3, <2>4, <2>5, <2>6, <3>1
         DEF Acquiring, Kinds, Claimed, Scan, Inspect, CleanEvent, Inspected, ListEvents, Cleaned,
             Reclaimed, Take
  <2>7. CASE Publishing(t) \/ Helpers(t) \/ Failures(t)
    BY <1>2, <2>3, <2>7 DEF Publishing, StageEvent, GrantEvent, Abort, EventAnswered, Helpers,
                            EventHelper, Failures, EventHelperDies, Crash
  <2>8. QED BY <2>1, <2>2, <2>6, <2>7
<1>3. QED BY <1>1, <1>2

Step(t) ==
    StageClaim(t) \/ Acquiring(t) \/ Publishing(t) \/ Release(t) \/ Helpers(t) \/ Failures(t)

(* A step moves one attempt, a live one that has not ended.                *)
LEMMA OneMoves ==
    ASSUME TypeOK, NEW t \in Attempts, Step(t)
    PROVE  /\ \A v \in Attempts \ {t} : attempt'[v] = attempt[v] /\ alive'[v] = alive[v]
           /\ alive'[t] => alive[t]
           /\ \/ attempt'[t] = attempt[t] /\ alive'[t] = alive[t]
              \/ Crash(t)
              \/ alive[t] /\ attempt[t].pc # "ended"
<1>1. CASE UNCHANGED <<attempt, alive>>
  BY <1>1
<1>2. CASE ~UNCHANGED <<attempt, alive>>
  <2>1. PICK k : Become(t, k)
    BY <1>2 DEF Step, StageClaim, Acquiring, GrantClaim, Claimed, Scan, Inspect, CleanEvent,
           Inspected, ListEvents, Cleaned, RemoveStale, Reclaimed, Take, Fail, Publishing, StageEvent,
           GrantEvent, Abort, EventAnswered, Release, Helpers, ClaimHelper, EventHelper, Failures,
           ClaimHelperDies, EventHelperDies, Crash, Goto
  <2>2. \A v \in Attempts \ {t} : attempt'[v] = attempt[v]
    BY <2>1, Became
  <2>3. CASE Crash(t)
    BY <2>2, <2>3 DEF Crash, TypeOK
  <2>4. CASE ~Crash(t)
    <3>1. UNCHANGED alive
      BY <1>2, <2>4 DEF Step, StageClaim, Acquiring, GrantClaim, Claimed, Scan, Inspect, CleanEvent,
           Inspected, ListEvents, Cleaned, RemoveStale, Reclaimed, Take, Fail, Publishing, StageEvent,
           GrantEvent, Abort, EventAnswered, Release, Helpers, ClaimHelper, EventHelper, Failures,
           ClaimHelperDies, EventHelperDies
    <3>2. alive[t] /\ attempt[t].pc # "ended"
      BY <1>2, <2>4 DEF Step, StageClaim, Acquiring, GrantClaim, Claimed, Scan, Inspect, CleanEvent,
           Inspected, ListEvents, Cleaned, RemoveStale, Reclaimed, Publishing, StageEvent,
           GrantEvent, Abort, EventAnswered, Release, Helpers, ClaimHelper, EventHelper, Failures,
           ClaimHelperDies, EventHelperDies, At
    <3>3. QED BY <2>2, <3>1, <3>2
  <2>5. QED BY <2>3, <2>4
<1>3. QED BY <1>1, <1>2

(* Nobody comes back to the points before the scan.                        *)
LEMMA NoWayBack ==
    ASSUME TypeOK, NEW t \in Attempts, Step(t), attempt[t].pc \notin {"idle", "claiming"}
    PROVE  attempt'[t].pc \notin {"idle", "claiming"}
<1>0. attempt[t] \in Attempt
  BY DEF TypeOK
<1>1. CASE UNCHANGED attempt
  BY <1>1
<1>2. CASE Fail(t) \/ Take(t) \/ Crash(t)
  <2>1. attempt'[t] \in {[Idle EXCEPT !.pc = "ended"], [Idle EXCEPT !.pc = "holding"],
                         [Idle EXCEPT !.pc = "ended", !.answer = attempt[t].answer]}
    BY <1>2, Became DEF Fail, Take, Crash
  <2>2. attempt'[t].pc \in {"ended", "holding"}
    BY <2>1 DEF Idle
  <2>3. QED BY <2>2
<1>3. ASSUME NEW u \in Attempts, NEW n \in Kinds, ~Fail(t), ~Take(t),
             \/ Scan(t) \/ Inspect(t, u) \/ CleanEvent(t, u) \/ RemoveStale(t, u, n) \/ Abort(t)
             \/ EventAnswered(t)
             \/ ListEvents(t) /\ PendingEvents # {}
      PROVE  attempt'[t].pc \notin {"idle", "claiming"}
  <2>1. CASE Scan(t)
    <3>1. attempt'[t] = [attempt[t] EXCEPT !.pc = "inspect", !.listed = Finals(claim),
              !.staged = Stagings(claim), !.todo = (Finals(claim) \cup Stagings(claim)) \ {t}]
      BY <1>3, <2>1, Became DEF Scan
    <3>2. QED BY <1>0, <3>1 DEF Attempt
  <2>2. CASE Inspect(t, u)
    <3>0. PICK stale : Become(t, [attempt[t] EXCEPT !.todo = attempt[t].todo \ {u},
                                                    !.stale = attempt[t].stale \cup stale])
      BY <1>3, <2>2 DEF Inspect
    <3>1. attempt'[t] = [attempt[t] EXCEPT !.todo = attempt[t].todo \ {u},
                                           !.stale = attempt[t].stale \cup stale]
      BY <3>0, Became
    <3>2. QED BY <1>0, <2>2, <3>1 DEF Inspect, At, Attempt
  <2>3. CASE CleanEvent(t, u)
    <3>1. attempt'[t] = [attempt[t] EXCEPT !.todo = attempt[t].todo \ {u}]
      BY <1>3, <2>3, Became DEF CleanEvent
    <3>2. QED BY <1>0, <2>3, <3>1 DEF CleanEvent, At, Attempt
  <2>4. CASE RemoveStale(t, u, n)
    <3>1. attempt'[t] = [attempt[t] EXCEPT !.stale = attempt[t].stale \ {<<u, n>>}]
      BY <1>3, <2>4, Became DEF RemoveStale
    <3>2. QED BY <1>0, <2>4, <3>1 DEF RemoveStale, At, Attempt
  <2>5. CASE Abort(t)
    <3>1. attempt'[t] = [attempt[t] EXCEPT !.aborted = TRUE]
      BY <2>5, Became DEF Abort
    <3>2. QED BY <1>0, <2>5, <3>1 DEF Abort, At, Attempt
  <2>6. CASE EventAnswered(t)
    <3>1. attempt'[t] = [attempt[t] EXCEPT !.pc = "holding", !.answer = Answer(t)]
      BY <2>6, Became DEF EventAnswered
    <3>2. QED BY <1>0, <3>1 DEF Attempt
  <2>7. CASE ListEvents(t) /\ PendingEvents # {}
    <3>1. attempt'[t] = [attempt[t] EXCEPT !.pc = "clean", !.pass = attempt[t].pass + 1,
                             !.todo = PendingEvents, !.listed = Finals(event)]
      BY <1>3, <2>7, Became DEF ListEvents
    <3>2. QED BY <1>0, <3>1 DEF Attempt
  <2>8. QED BY <1>3, <2>1, <2>2, <2>3, <2>4, <2>5, <2>6, <2>7
<1>4. ASSUME ~Fail(t), ~Take(t),
             \/ Claimed(t) \/ Inspected(t) \/ Cleaned(t) \/ Release(t) \/ StageEvent(t)
             \/ ListEvents(t) /\ PendingEvents = {}
      PROVE  attempt'[t].pc \notin {"idle", "claiming"}
  <2>1. PICK pc \in {"scan", "ended", "reconcile", "remove", "publishing"} : Goto(t, pc)
    BY <1>4 DEF Claimed, Inspected, Cleaned, Release, StageEvent, ListEvents
  <2>2. QED BY <2>1, GotoFacts
<1>5. CASE Acquiring(t)
  BY <1>1, <1>2, <1>3, <1>4, <1>5 DEF Acquiring, Kinds, GrantClaim, Reclaimed
<1>6. "final" \in Kinds
  BY DEF Kinds
<1>7. CASE Publishing(t) \/ Release(t) \/ Helpers(t) \/ Failures(t)
  <2>1. CASE Fail(t) \/ Take(t) \/ Crash(t)
    BY <1>2, <2>1
  <2>2. CASE ~Fail(t) /\ ~Take(t) /\ (Abort(t) \/ EventAnswered(t))
    BY <1>3, <1>6, <2>2
  <2>3. CASE ~Fail(t) /\ ~Take(t) /\ (Release(t) \/ StageEvent(t))
    BY <1>4, <2>3
  <2>4. CASE GrantEvent(t) \/ Helpers(t) \/ ClaimHelperDies(t) \/ EventHelperDies(t)
    BY <1>1, <2>4 DEF GrantEvent, Helpers, ClaimHelper, EventHelper, ClaimHelperDies, EventHelperDies
  <2>5. QED BY <1>7, <2>1, <2>2, <2>3, <2>4 DEF Publishing, Failures
<1>8. ~StageClaim(t)
  BY DEF StageClaim, At
<1>9. QED BY <1>5, <1>7, <1>8 DEF Step

LEMMA BarredStays ==
    ASSUME TypeOK, OneInv, LeftInv, [Next]_vars, NEW t \in Attempts, NEW u \in Attempts \ {t},
           Barred(t, u)
    PROVE  Barred(t, u)'
<1>0. /\ attempt[t] \in Attempt /\ claim[u].staging /\ ~claim[u].final /\ ~claim[u].whole
  BY LeftIsDead DEF TypeOK, LeftInv, SoundFiles, Barred, LeftHalfWritten, HalfWritten
<1>1. LeftHalfWritten(claim[u])'
  BY HalfWrittenClaimStays DEF Barred, LeftHalfWritten, HalfWritten, Running
<1>2. CASE attempt'[t] = attempt[t] /\ alive'[t] = alive[t]
  BY <1>1, <1>2 DEF Barred
<1>3. CASE ~(attempt'[t] = attempt[t] /\ alive'[t] = alive[t])
  <2>1. PICK s \in Attempts : Step(s)
    BY <1>3 DEF Next, vars, Step
  <2>2. s = t
    BY <1>3, <2>1, OneMoves
  <2>3. CASE Crash(t)
    BY <1>1, <2>3 DEF Crash, TypeOK, Barred
  <2>4. CASE ~Crash(t)
    <3>1. alive[t] /\ (attempt[t].pc = "scan" \/
                       (attempt[t].pc = "inspect" /\ u \in attempt[t].todo \ attempt[t].listed))
      BY <1>3, <2>1, <2>2, <2>4, OneMoves DEF Barred
    <3>2. CASE Fail(t)
      <4>1. attempt'[t].pc = "ended"
        BY <3>2, Became DEF Fail, Idle
      <4>2. QED BY <1>1, <4>1 DEF Barred
    <3>3. CASE ~Fail(t)
      <4>1. Scan(t) \/ \E v \in Attempts : Inspect(t, v)
        BY <1>3, <2>1, <2>2, <2>4, <3>1
           DEF Step, StageClaim, Acquiring, GrantClaim, Claimed, CleanEvent, Inspected, ListEvents,
               Cleaned, RemoveStale, Reclaimed, Publishing, StageEvent, GrantEvent, Abort, EventAnswered,
               Release, Helpers, ClaimHelper, EventHelper, Failures, ClaimHelperDies, EventHelperDies, At
      <4>2. CASE Scan(t)
        <5>1. attempt'[t] = [attempt[t] EXCEPT !.pc = "inspect", !.listed = Finals(claim),
                  !.staged = Stagings(claim), !.todo = (Finals(claim) \cup Stagings(claim)) \ {t}]
          BY <3>3, <4>2, Became DEF Scan
        <5>2. /\ attempt'[t].pc = "inspect" /\ attempt'[t].listed = Finals(claim)
              /\ attempt'[t].todo = (Finals(claim) \cup Stagings(claim)) \ {t}
          BY <1>0, <5>1 DEF Attempt
        <5>3. u \in Stagings(claim) /\ u \notin Finals(claim)
          BY <1>0 DEF Stagings, Finals
        <5>4. QED BY <1>1, <5>2, <5>3 DEF Barred
      <4>3. CASE \E v \in Attempts : Inspect(t, v)
        <5>1. PICK v \in Attempts : Inspect(t, v)
          BY <4>3
        <5>2. v # u
          BY <1>0, <3>1, <3>3, <5>1 DEF Inspect, At, Invalid, HalfWritten
        <5>3. PICK stale : Become(t, [attempt[t] EXCEPT !.todo = attempt[t].todo \ {v},
                                                        !.stale = attempt[t].stale \cup stale])
          BY <3>3, <5>1 DEF Inspect
        <5>4. attempt'[t] = [attempt[t] EXCEPT !.todo = attempt[t].todo \ {v},
                                               !.stale = attempt[t].stale \cup stale]
          BY <5>3, Became
        <5>5. /\ attempt'[t].pc = "inspect" /\ attempt'[t].listed = attempt[t].listed
              /\ attempt'[t].todo = attempt[t].todo \ {v}
          BY <1>0, <5>1, <5>4 DEF Inspect, At, Attempt
        <5>6. QED BY <1>1, <3>1, <5>1, <5>2, <5>5 DEF Barred, Inspect, At
      <4>4. QED BY <4>1, <4>2, <4>3
    <3>4. QED BY <3>2, <3>3
  <2>5. QED BY <2>3, <2>4
<1>4. QED BY <1>2, <1>3

LEMMA BlockedStays ==
    ASSUME TypeOK, LeftInv, [Next]_vars, NEW t \in Attempts, NEW u \in Attempts, Blocked(t, u)
    PROVE  Blocked(t, u)'
<1>1. event'[u] = event[u] /\ claim'[u].final
  BY HalfWrittenEventStays, PendingClaimStays DEF Blocked, Pending
<1>2. CASE UNCHANGED vars
  BY <1>2 DEF Blocked, Pending, vars
<1>3. CASE Next
  <2>1. PICK s \in Attempts : Step(s)
    BY <1>3 DEF Next, Step
  <2>2. ~alive'[u]
    BY <2>1, OneMoves DEF Blocked, Pending
  <2>3. ~alive[t] => ~alive'[t]
    BY <2>1, OneMoves
  <2>4. attempt[t].pc \notin {"idle", "claiming"} => attempt'[t].pc \notin {"idle", "claiming"}
    BY <2>1, OneMoves, NoWayBack
  <2>5. QED BY <1>1, <2>2, <2>3, <2>4 DEF Blocked, Pending, LeftHalfWritten, HalfWritten, Running
<1>4. QED BY <1>2, <1>3

(* Whoever scans after a claim was left half written, or after the holder  *)
(* of a half-written event died, never gets the lease, for any number of   *)
(* attempts beside it.                                                     *)
THEOREM HalfWrittenFailsClosed == Spec => InvalidFailsClosed
<1> DEFINE Inv == TypeOK /\ OneInv /\ LeftInv
<1>1. Init => Inv
  BY TypeInitially, OneInitially, LeftInitially
<1>2. Inv /\ [Next]_vars => Inv'
  BY TypeInductive, OneInductive, LeftInductive
<1>3. ASSUME NEW t \in Attempts, NEW u \in Attempts \ {t}
      PROVE  Spec => [](Shut(t, u) => []~Holding(t))
  <2>1. Inv /\ Shut(t, u) => Barred(t, u) \/ Blocked(t, u)
    <3>1. CASE At(t, "scan") /\ LeftHalfWritten(claim[u])
      BY <3>1 DEF Barred, At
    <3>2. CASE At(t, "scan") /\ LeftHalfWritten(event[u]) /\ ~alive[u] /\ claim[u].final
      BY <3>2 DEF Blocked, Pending, LeftHalfWritten, HalfWritten, At
    <3>3. QED BY <3>1, <3>2 DEF Shut
  <2>2. Inv /\ Barred(t, u) /\ [Next]_vars => Barred(t, u)'
    BY BarredStays
  <2>3. Inv /\ Blocked(t, u) /\ [Next]_vars => Blocked(t, u)'
    BY BlockedStays
  <2>4. Inv /\ Barred(t, u) => ~Holding(t)
    BY DEF Barred, Holding, At
  <2>5. Inv /\ Blocked(t, u) => ~Holding(t)
    BY NothingPending DEF Blocked, Holding, At
  <2>6. QED BY <1>1, <1>2, <2>1, <2>2, <2>3, <2>4, <2>5, PTL DEF Spec
<1>4. QED BY <1>3 DEF InvalidFailsClosed
=============================================================================
