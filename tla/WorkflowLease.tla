---------------------------- MODULE WorkflowLease ----------------------------
(***************************************************************************)
(* The lease on a workflow (src/workflow/lease.ts) and the publication of  *)
(* events under it (src/workflow/journal.ts, src/artifacts/secure-io.ts).  *)
(*                                                                         *)
(* An attempt to take the lease publishes a claim of its own, then lists   *)
(* the claims and judges every other one: a claim of a live process means  *)
(* WORKFLOW_BUSY, a claim of a dead one is stale.  Before it removes stale *)
(* claims, the attempt reconciles the event directory, because the helper  *)
(* of a dead process may still be about to link an event.                  *)
(*                                                                         *)
(* Every attempt belongs to a server process of its own on one host; it    *)
(* publishes at most one event while it holds the lease.                   *)
(***************************************************************************)
EXTENDS PublishedFile, Naturals, Sequences, FiniteSets

CONSTANTS
    Attempts,   \* calls of acquireWorkflowLease
    MaxClaims,  \* maxClaimsPerWorkflow
    MaxPasses,  \* maxPublicationReconciliationPasses
    Nobody

ASSUME LimitAssumption == MaxClaims \in Nat /\ MaxPasses \in Nat \ {0}
ASSUME NobodyAssumption == Nobody \notin Attempts

VARIABLES
    claim,    \* the claim file of each attempt
    event,    \* the event file each attempt publishes as holder
    alive,    \* the attempt's server process lives
    attempt,  \* what the attempt is doing
    author,   \* history: the last attempt to have taken the lease
    journal   \* history: whose events were linked, in order

vars == <<claim, event, alive, attempt, author, journal>>

Points == {"idle", "claiming", "scan", "inspect", "reconcile", "clean",
           "remove", "holding", "publishing", "ended"}

(* listed, staged: the final and staging names of the last directory       *)
(* listing; todo: what is left to look at; stale: claims found stale;      *)
(* pass: passes of the reconciliation.                                     *)
Idle == [pc |-> "idle", listed |-> {}, staged |-> {}, todo |-> {}, stale |-> {},
         pass |-> 0, aborted |-> FALSE, answer |-> "none"]

Attempt == [pc : Points, listed : SUBSET Attempts, staged : SUBSET Attempts,
            todo : SUBSET Attempts, stale : SUBSET (Attempts \X {"final", "linked", "staged"}), pass : Nat,
            aborted : BOOLEAN, answer : {"none", "published", "aborted", "failed"}]

At(t, pc) == alive[t] /\ attempt[t].pc = pc
Become(t, k) == attempt' = [attempt EXCEPT ![t] = k]
Goto(t, pc) == Become(t, [attempt[t] EXCEPT !.pc = pc])
Finals(files)   == {u \in Attempts : files[u].final}
Stagings(files) == {u \in Attempts : files[u].staging}

Holding(t) == At(t, "holding") \/ At(t, "publishing")

Init ==
    /\ claim = [t \in Attempts |-> NoFile]
    /\ event = [t \in Attempts |-> NoFile]
    /\ alive = [t \in Attempts |-> TRUE]
    /\ attempt = [t \in Attempts |-> Idle]
    /\ author = Nobody
    /\ journal = <<>>

(***************************************************************************)
(* Claiming.                                                               *)
(***************************************************************************)
(* The helper of writeExclusiveRegularFile has opened the staging claim.   *)
StageClaim(t) ==
    /\ At(t, "idle")
    /\ claim' = [claim EXCEPT ![t] = Opened]
    /\ Goto(t, "claiming")
    /\ UNCHANGED <<event, alive, author, journal>>

GrantClaim(t) ==
    /\ At(t, "claiming")
    /\ claim[t].helper = "prepared"
    /\ claim' = [claim EXCEPT ![t] = Granted(claim[t])]
    /\ UNCHANGED <<event, alive, attempt, author, journal>>

(* The helper has exited.  Without an acknowledgment acquireWorkflowLease  *)
(* throws before its try block, and the claim stays as it is.              *)
Claimed(t) ==
    /\ At(t, "claiming")
    /\ ~Running(claim[t])
    /\ Goto(t, IF Acknowledged(claim[t]) THEN "scan" ELSE "ended")
    /\ UNCHANGED <<claim, event, alive, author, journal>>

(* The catch block: the attempt takes its own claim away.                  *)
Fail(t) ==
    /\ claim' = [claim EXCEPT ![t] = Removed(claim[t])]
    /\ Become(t, [Idle EXCEPT !.pc = "ended"])
    /\ UNCHANGED <<event, alive, author, journal>>

Take(t) ==
    /\ Become(t, [Idle EXCEPT !.pc = "holding"])
    /\ author' = t
    /\ UNCHANGED <<claim, event, alive, journal>>

Scan(t) ==
    /\ At(t, "scan")
    /\ LET listed == Finals(claim)
           staged == Stagings(claim)
       IN  IF Cardinality(listed) + Cardinality(staged) > MaxClaims \/ t \notin listed
           THEN Fail(t)
           ELSE /\ Become(t, [attempt[t] EXCEPT !.pc = "inspect", !.listed = listed,
                       !.staged = staged, !.todo = (listed \cup staged) \ {t}])
                /\ UNCHANGED <<claim, event, alive, author, journal>>

(* Mutant: a claim whose publication is unfinished is taken for stale.     *)
LivePublished(u) == alive[u] /\ ~claim[u].staging

(* isLive: the claim's process exists.                                     *)
Live(u) == alive[u]

(* Mutant: a claim is not validated before it is taken for stale.          *)
NeverInvalid(u) == FALSE

(* readLock finds no record in the staging file.                           *)
Invalid(u) == HalfWritten(claim[u])

(* Judge one claim of the listing.  A name that is gone by now is skipped  *)
(* if it was final; a staging claim that is half written or has changed is *)
(* invalid, and the attempt fails.                                         *)
Inspect(t, u) ==
    /\ At(t, "inspect")
    /\ u \in attempt[t].todo
    /\ LET gone  == ~claim[u].final
           moved == claim[u].final \/ ~claim[u].staging
           next(stale) == /\ Become(t, [attempt[t] EXCEPT !.todo = @ \ {u},
                                                         !.stale = @ \cup stale])
                          /\ UNCHANGED <<claim, event, alive, author, journal>>
       IN  IF u \in attempt[t].listed
           THEN IF gone THEN next({})
                ELSE IF Live(u) THEN Fail(t)
                ELSE next({<<u, IF u \in attempt[t].staged THEN "linked" ELSE "final">>})
           ELSE IF moved \/ Invalid(u) \/ Live(u) THEN Fail(t) ELSE next({<<u, "staged">>})

Inspected(t) ==
    /\ At(t, "inspect")
    /\ attempt[t].todo = {}
    /\ IF attempt[t].stale = {} THEN Take(t)
       ELSE /\ Goto(t, "reconcile")
            /\ UNCHANGED <<claim, event, alive, author, journal>>

(***************************************************************************)
(* reconcileWorkflowEventPublications.                                     *)
(***************************************************************************)
(* Mutant: an event that only has its staging name is left alone.          *)
PendingWithFinal == Stagings(event) \cap Finals(event)

PendingEvents == Stagings(event)

(* A pass lists the staging names; without any the directory is settled.   *)
ListEvents(t) ==
    /\ At(t, "reconcile")
    /\ IF attempt[t].pass = MaxPasses THEN Fail(t)
       ELSE /\ IF PendingEvents = {} THEN Goto(t, "remove")
               ELSE Become(t, [attempt[t] EXCEPT !.pc = "clean", !.pass = @ + 1,
                                  !.todo = PendingEvents, !.listed = Finals(event)])
            /\ UNCHANGED <<claim, event, alive, author, journal>>

(* Remove one staging name.  A staged event that is half written has not   *)
(* the digest of its name (assertRecoverableEvent): the attempt fails.  If *)
(* the helper of the event is faster, the code skips the event until the   *)
(* next pass (isPublicationRace) or fails, depending on where they meet.   *)
CleanEvent(t, u) ==
    /\ At(t, "clean")
    /\ u \in attempt[t].todo
    /\ LET linkedSince == event[u].final /\ u \notin attempt[t].listed
           raced == ~event[u].staging \/ linkedSince
           Done == Become(t, [attempt[t] EXCEPT !.todo = @ \ {u}])
       IN  \/ HalfWritten(event[u]) /\ Fail(t)
           \/ /\ event[u].staging
              /\ event[u].whole
              /\ event' = [event EXCEPT ![u].staging = FALSE]
              /\ Done
              /\ UNCHANGED <<claim, alive, author, journal>>
           \/ raced /\ Done /\ UNCHANGED <<claim, event, alive, author, journal>>
           \/ raced /\ Fail(t)

Cleaned(t) ==
    /\ At(t, "clean")
    /\ attempt[t].todo = {}
    /\ Goto(t, "reconcile")
    /\ UNCHANGED <<claim, event, alive, author, journal>>

(***************************************************************************)
(* Removing stale claims, and the lease itself.                            *)
(***************************************************************************)
(* Mutant: a claim with a crash-left staging link is never removed.        *)
RemoveStaleSingleLink(t, u, names) ==
    /\ At(t, "remove")
    /\ <<u, names>> \in attempt[t].stale
    /\ names # "linked"
    /\ claim' = [claim EXCEPT ![u] = Removed(claim[u])]
    /\ Become(t, [attempt[t] EXCEPT !.stale = @ \ {<<u, names>>}])
    /\ UNCHANGED <<event, alive, author, journal>>

(* Remove one stale claim.  A claim that was only staged loses its staging *)
(* name, the others both names.  If u's orphaned helper has changed the    *)
(* names since the listing, the attempt may also fail.                     *)
RemoveStale(t, u, names) ==
    /\ At(t, "remove")
    /\ <<u, names>> \in attempt[t].stale
    /\ \/ /\ claim' = [claim EXCEPT ![u] =
                 IF names = "staged" THEN [claim[u] EXCEPT !.staging = FALSE]
                 ELSE Removed(claim[u])]
          /\ Become(t, [attempt[t] EXCEPT !.stale = @ \ {<<u, names>>}])
          /\ UNCHANGED <<event, alive, author, journal>>
       \/ /\ \/ names = "staged" /\ (claim[u].final \/ ~claim[u].staging)
             \/ names = "linked" /\ ~claim[u].staging
          /\ Fail(t)

Reclaimed(t) ==
    /\ At(t, "remove")
    /\ attempt[t].stale = {}
    /\ Take(t)

Release(t) ==
    /\ At(t, "holding")
    /\ claim' = [claim EXCEPT ![t] = Removed(claim[t])]
    /\ Goto(t, "ended")
    /\ UNCHANGED <<event, alive, author, journal>>

(***************************************************************************)
(* journal.append: the holder publishes an event.                          *)
(***************************************************************************)
StageEvent(t) ==
    /\ At(t, "holding")
    /\ event[t] = NoFile
    /\ event' = [event EXCEPT ![t] = Opened]
    /\ Goto(t, "publishing")
    /\ UNCHANGED <<claim, alive, author, journal>>

GrantEvent(t) ==
    /\ At(t, "publishing")
    /\ event[t].helper = "prepared"
    /\ ~attempt[t].aborted
    /\ event' = [event EXCEPT ![t] = Granted(event[t])]
    /\ UNCHANGED <<claim, alive, attempt, author, journal>>

(* The append's signal fires: the helper is sent SIGTERM, unless it has    *)
(* acknowledged; it may still take some steps before it dies (HelperDies). *)
Abort(t) ==
    /\ At(t, "publishing")
    /\ ~attempt[t].aborted
    /\ Become(t, [attempt[t] EXCEPT !.aborted = TRUE])
    /\ UNCHANGED <<claim, event, alive, author, journal>>

(* Mutant: an aborted publication is given up without looking for the file.*)
AnswerUnread(t) ==
    IF Acknowledged(event[t]) THEN "published"
    ELSE IF attempt[t].aborted THEN "aborted"
    ELSE "failed"

(* What append answers once the helper has exited: an aborted publication  *)
(* that was granted is uncertain, and the directory is read to find out.   *)
Answer(t) ==
    IF Acknowledged(event[t]) THEN "published"
    ELSE IF attempt[t].aborted THEN IF event[t].final THEN "published" ELSE "aborted"
    ELSE "failed"

EventAnswered(t) ==
    /\ At(t, "publishing")
    /\ ~Running(event[t])
    /\ Become(t, [attempt[t] EXCEPT !.pc = "holding", !.answer = Answer(t)])
    /\ UNCHANGED <<claim, event, alive, author, journal>>

(***************************************************************************)
(* The helpers, and what may happen to processes.                          *)
(***************************************************************************)
ClaimHelper(t) ==
    \E f \in HelperSteps(claim[t], ~alive[t]) :
        /\ claim' = [claim EXCEPT ![t] = f]
        /\ UNCHANGED <<event, alive, attempt, author, journal>>

EventHelper(t) ==
    \E f \in HelperSteps(event[t], ~alive[t]) :
        /\ event' = [event EXCEPT ![t] = f]
        /\ journal' = IF f.final /\ ~event[t].final THEN Append(journal, t) ELSE journal
        /\ UNCHANGED <<claim, alive, attempt, author>>

ClaimHelperDies(t) ==
    /\ Running(claim[t])
    /\ claim' = [claim EXCEPT ![t] = Killed(claim[t])]
    /\ UNCHANGED <<event, alive, attempt, author, journal>>

EventHelperDies(t) ==
    /\ Running(event[t])
    /\ event' = [event EXCEPT ![t] = Killed(event[t])]
    /\ UNCHANGED <<claim, alive, attempt, author, journal>>

(* The server process dies; its helpers go on.                             *)
Crash(t) ==
    /\ alive[t]
    /\ attempt[t].pc # "idle"
    /\ alive' = [alive EXCEPT ![t] = FALSE]
    /\ Become(t, [Idle EXCEPT !.pc = "ended", !.answer = attempt[t].answer])
    /\ UNCHANGED <<claim, event, author, journal>>

(* The steps an attempt takes by itself.                                   *)
Acquiring(t) ==
    \/ GrantClaim(t) \/ Claimed(t) \/ Scan(t)
    \/ \E u \in Attempts : Inspect(t, u) \/ CleanEvent(t, u)
    \/ Inspected(t) \/ ListEvents(t) \/ Cleaned(t)
    \/ \E u \in Attempts, n \in {"final", "linked", "staged"} : RemoveStale(t, u, n)
    \/ Reclaimed(t)
Publishing(t) == StageEvent(t) \/ GrantEvent(t) \/ Abort(t) \/ EventAnswered(t)
Helpers(t)    == ClaimHelper(t) \/ EventHelper(t)
Failures(t)   == ClaimHelperDies(t) \/ EventHelperDies(t) \/ Crash(t)

Next == \E t \in Attempts :
    StageClaim(t) \/ Acquiring(t) \/ Publishing(t) \/ Release(t) \/ Helpers(t) \/ Failures(t)

Spec == Init /\ [][Next]_vars

(* Helpers and the code of an attempt in a live process run on.            *)
Fairness == \A t \in Attempts : WF_vars(Acquiring(t)) /\ WF_vars(Helpers(t))
FairSpec == Spec /\ Fairness

(***************************************************************************)
(* What must hold.                                                         *)
(***************************************************************************)
TypeOK ==
    /\ claim \in [Attempts -> File]
    /\ event \in [Attempts -> File]
    /\ alive \in [Attempts -> BOOLEAN]
    /\ attempt \in [Attempts -> Attempt]
    /\ author \in Attempts \cup {Nobody}
    /\ journal \in Seq(Attempts)

(* Never do two attempts in live processes hold the lease, however their   *)
(* listings and the reclamation of a dead holder's claim interleave.       *)
OneHolder == \A t, u \in Attempts : Holding(t) /\ Holding(u) => t = u

(* append's answer stays true: an event whose append was aborted is never  *)
(* in the journal, and one reported as published is and stays there.       *)
AnswerIsTrue ==
    \A t \in Attempts :
        /\ attempt[t].answer = "aborted"   => ~event[t].final
        /\ attempt[t].answer = "published" => event[t].final

(* "The parent treats a missing durable acknowledgment as uncertain and    *)
(* reconciles the exact file" (comment in secure-fs-helper.ts): an append  *)
(* that is answered as failed has published nothing.  TLC refutes it       *)
(* (README, section 6); no configuration lists it.                         *)
FailedMeansUnpublished ==
    \A t \in Attempts : attempt[t].answer = "failed" => ~event[t].final

(* "A local claim from a dead process, including a validated crash-left    *)
(* publication link, is reclaimed" (docs/workflows.md): with every other   *)
(* process dead and its helpers gone, an attempt whose own helper survives *)
(* gets the lease, however many of their names the claims and events of the*)
(* dead have left, as long as each staged one was written to its end.      *)
Alone(t) ==
    /\ At(t, "scan")
    /\ \A u \in Attempts \ {t} :
          /\ ~alive[u] /\ ~Running(claim[u]) /\ ~Running(event[u])
          /\ ~HalfWritten(claim[u]) /\ ~HalfWritten(event[u])
DeadLeaseIsReclaimed ==
    \A t \in Attempts : Alone(t) ~> Holding(t) \/ ~alive[t]

(* "An invalid or live claim fails closed" (docs/workflows.md): a helper   *)
(* that is killed while it writes leaves a claim, or the event of a holder *)
(* that then dies, that nothing in the code validates or removes.  Whoever *)
(* scans from then on never gets the lease, whatever the others do.        *)
LeftHalfWritten(f) == HalfWritten(f) /\ ~Running(f)
Shut(t, u) ==
    /\ At(t, "scan")
    /\ \/ LeftHalfWritten(claim[u])
       \/ LeftHalfWritten(event[u]) /\ ~alive[u] /\ claim[u].final
InvalidFailsClosed ==
    \A t \in Attempts : \A u \in Attempts \ {t} : [](Shut(t, u) => []~Holding(t))

Holder == IF \E t \in Attempts : Holding(t) THEN CHOOSE t \in Attempts : Holding(t) ELSE Nobody

Abstract == INSTANCE ExclusiveJournal WITH holder <- Holder

(* The claims implement the exclusive lease that WorkflowService assumes:  *)
(* while an attempt holds the lease, no helper that a dead holder has left *)
(* behind links its event any more; the reconciliation came first.         *)
ImplementsExclusiveJournal == Abstract!Spec
=============================================================================
