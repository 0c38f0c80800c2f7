----------------------- MODULE WorkflowJournalProofs ------------------------
(***************************************************************************)
(* What the journal of a workflow tells of its runs, for every set of      *)
(* calls, processes, definitions and outcomes: the order of dependencies   *)
(* and stages, that WorkflowService implements the abstract                *)
(* WorkflowLifecycle, how long a journal gets, whose run a candidate is,   *)
(* and that the answer of a call and the journal agree.                    *)
(***************************************************************************)
EXTENDS WorkflowProofs, FiniteSetTheorems

(***************************************************************************)
(* What the event model keeps about starts and waits, if no wait for       *)
(* dependencies is recorded once a stage has started.                      *)
(***************************************************************************)
Counts ==
    /\ Events("WorkflowStageStarted") # {} => summary.transitionCount > 0
    /\ summary.activeExecutionId # 0 => summary.status = "running" /\ summary.transitionCount > 0
    /\ summary.currentStage = "approval" => summary.transitionCount > 0
    /\ summary.status = "waiting_for_dependency" => summary.transitionCount = 0

LEMMA CountsExtended ==
    ASSUME TypeInv, Counts, NEW e \in WorkflowEvent,
           EventAllowed(definition, summary, e),
           e.type = "WorkflowDependencyStateChanged" /\ e.state = "waiting"
               => summary.transitionCount = 0,
           events' = events \o <<e>>, summary' = ProjectEvent(summary, e)
    PROVE  Counts'
<1>1. /\ summary \in Projection /\ events \in Seq(WorkflowEvent) /\ Len(events) \in Nat
      /\ summary.transitionCount \in Nat
  BY DEF TypeInv, TypeOK, Projection
<1>2. /\ Len(events') = Len(events) + 1
      /\ events'[Len(events) + 1] = e
      /\ \A i \in 1..Len(events) : events'[i] = events[i]
  BY <1>1, Extended
<1>3. e.type # "WorkflowStageStarted" /\ Events("WorkflowStageStarted")' # {}
        => Events("WorkflowStageStarted") # {}
  BY <1>1, <1>2 DEF Events
<1>4. CASE e.type = "WorkflowDependencyStateChanged"
  <2>1. /\ summary' = ProjectDependency(summary, e) /\ DependencyAllowed(definition, summary, e)
        /\ e.state \in {"waiting", "ready"}
    BY <1>4 DEF EventAllowed, ProjectEvent, WorkflowEvent, CreatedEvent
  <2>2. /\ summary'.transitionCount = summary.transitionCount
        /\ summary'.activeExecutionId = 0
        /\ summary'.currentStage = summary.currentStage
        /\ summary'.status = "waiting_for_dependency" => e.state = "waiting"
    BY <1>1, <2>1 DEF DependencyAllowed, ProjectDependency, Projection
  <2>3. QED BY <1>3, <1>4, <2>2 DEF Counts
<1>5. CASE e.type = "WorkflowStageStarted"
  <2>1. /\ summary' = ProjectStart(summary, e) /\ StartAllowed(definition, summary, e)
    BY <1>5 DEF EventAllowed, ProjectEvent
  <2>2. /\ summary'.transitionCount = summary.transitionCount + 1
        /\ summary'.status = "running"
    BY <1>1, <2>1 DEF ProjectStart, Projection
  <2>3. QED BY <1>1, <2>2 DEF Counts
<1>6. CASE e.type = "WorkflowStageInterrupted"
  <2>1. summary' = ProjectInterrupt(summary, e)
    BY <1>6 DEF EventAllowed, ProjectEvent
  <2>2. /\ summary'.transitionCount = summary.transitionCount
        /\ summary'.activeExecutionId = 0
        /\ summary'.currentStage = summary.currentStage
        /\ summary'.status = "pending"
    BY <1>1, <2>1 DEF ProjectInterrupt, Projection
  <2>3. QED BY <1>3, <1>6, <2>2 DEF Counts
<1>7. CASE e.type = "WorkflowStageCompleted"
  <2>1. summary' = ProjectStageCompletion(summary, e) /\ summary.activeExecutionId # 0
    BY <1>7 DEF EventAllowed, ProjectEvent, StageCompletionAllowed
  <2>2. /\ summary'.transitionCount = summary.transitionCount
        /\ summary'.activeExecutionId = 0
        /\ summary'.status = "pending"
    BY <1>1, <2>1 DEF ProjectStageCompletion, Projection
  <2>3. QED BY <1>3, <1>7, <2>1, <2>2 DEF Counts
<1>8. CASE e.type = "WorkflowApprovalRequested"
  <2>1. /\ summary' = ProjectRequest(summary, e) /\ RequestAllowed(definition, summary, e)
    BY <1>8 DEF EventAllowed, ProjectEvent
  <2>2. /\ summary'.transitionCount = summary.transitionCount
        /\ summary'.activeExecutionId = 0
        /\ summary'.currentStage = summary.currentStage
        /\ summary'.status = "waiting_for_approval"
    BY <1>1, <2>1 DEF RequestAllowed, ProjectRequest, Projection
  <2>3. QED BY <1>3, <1>8, <2>2 DEF Counts
<1>9. CASE e.type = "WorkflowApprovalDecided"
  <2>1. /\ summary' = ProjectDecision(summary, e) /\ DecisionAllowed(definition, summary, e)
        /\ e.decision \in {"approved", "rejected"}
    BY <1>9 DEF EventAllowed, ProjectEvent, WorkflowEvent, CreatedEvent
  <2>2. /\ summary'.transitionCount = summary.transitionCount
        /\ summary'.activeExecutionId = summary.activeExecutionId
        /\ summary'.currentStage \in {"none", "repair"}
        /\ summary'.status = "pending"
        /\ summary.status = "waiting_for_approval"
    BY <1>1, <2>1 DEF DecisionAllowed, ProjectDecision, Projection
  <2>3. QED BY <1>3, <1>9, <2>2 DEF Counts
<1>10. CASE e.type = "WorkflowCompleted"
  <2>1. /\ summary' = ProjectCompletion(summary, e) /\ CompletionAllowed(definition, summary, e)
        /\ e.status \in TerminalStatuses
    BY <1>10 DEF EventAllowed, ProjectEvent, WorkflowEvent, CreatedEvent
  <2>2. /\ summary'.transitionCount = summary.transitionCount
        /\ summary'.activeExecutionId = 0
        /\ summary'.currentStage = "none"
        /\ summary'.status \in TerminalStatuses
    BY <1>1, <2>1 DEF CompletionAllowed, ProjectCompletion, Projection
  <2>3. QED BY <1>3, <1>10, <2>2 DEF Counts, TerminalStatuses
<1>11. QED BY <1>4, <1>5, <1>6, <1>7, <1>8, <1>9, <1>10 DEF EventAllowed

(***************************************************************************)
(* Calls past the check of the dependencies.                               *)
(***************************************************************************)
StagePoints == {"loop", "delegate", "settled"}

PastCheck(c) ==
    \/ calls[c].pc \in StagePoints
    \/ /\ calls[c].pc = "append"
       /\ \/ calls[c].next \in StagePoints
          \/ calls[c].event.type = "WorkflowStageStarted"

LEMMA OffByCall ==
    ASSUME CallsOK, NEW c \in Calls
    PROVE  /\ \A pc : Goto(c, pc) /\ pc \notin StagePoints \cup {"append"} => ~PastCheck(c)'
           /\ \A result : Finish(c, result) => ~PastCheck(c)'
           /\ \A e, guard, next :
                 Publish(c, e, guard, next) /\ next \notin StagePoints
                 /\ e.type # "WorkflowStageStarted" => ~PastCheck(c)'
<1>1. ASSUME NEW pc, Goto(c, pc), pc \notin StagePoints \cup {"append"}
      PROVE  ~PastCheck(c)'
  <2>1. calls'[c].pc = pc
    BY <1>1 DEF Goto, CallsOK, Call
  <2>2. QED BY <1>1, <2>1 DEF PastCheck
<1>2. ASSUME NEW result, Finish(c, result)
      PROVE  ~PastCheck(c)'
  <2>1. calls'[c].pc = "release"
    BY <1>2 DEF Finish, CallsOK, Call
  <2>2. QED BY <2>1 DEF PastCheck, StagePoints
<1>3. ASSUME NEW e, NEW guard, NEW next, Publish(c, e, guard, next),
             next \notin StagePoints, e.type # "WorkflowStageStarted"
      PROVE  ~PastCheck(c)'
  BY <1>3, PublishSets DEF PastCheck, StagePoints
<1>4. QED BY <1>1, <1>2, <1>3

LEMMA OffByCompletion ==
    ASSUME CallsOK, NEW c \in Calls
    PROVE  /\ \A status, code : Complete(c, status, code) => ~PastCheck(c)'
           /\ CompleteInterrupted(c) => ~PastCheck(c)'
           /\ \A status, code : CompleteBeforeDeadline(c, status, code) => ~PastCheck(c)'
           /\ \A e : CompleteAfterStage(c, e) => ~PastCheck(c)'
           /\ \A e, next : PublishBeforeDeadline(c, e, next) /\ next \notin StagePoints
                           /\ e.type # "WorkflowStageStarted" => ~PastCheck(c)'
<1>1. "release" \notin StagePoints
  BY DEF StagePoints
<1>2. ASSUME NEW status, NEW code
      PROVE  CompletedEvent(status, code, summary.candidateRunId).type # "WorkflowStageStarted"
  BY DEF CompletedEvent
<1>3. ASSUME NEW status, NEW code, Complete(c, status, code)
      PROVE  ~PastCheck(c)'
  BY <1>1, <1>2, <1>3, OffByCall DEF Complete
<1>4. CompleteInterrupted(c) => ~PastCheck(c)'
  BY <1>3 DEF CompleteInterrupted
<1>5. ASSUME NEW e, NEW next, PublishBeforeDeadline(c, e, next), next \notin StagePoints,
             e.type # "WorkflowStageStarted"
      PROVE  ~PastCheck(c)'
  BY <1>4, <1>5, OffByCall DEF PublishBeforeDeadline
<1>6. ASSUME NEW status, NEW code, CompleteBeforeDeadline(c, status, code)
      PROVE  ~PastCheck(c)'
  BY <1>1, <1>2, <1>5, <1>6 DEF CompleteBeforeDeadline
<1>7. ASSUME NEW e, CompleteAfterStage(c, e)
      PROVE  ~PastCheck(c)'
  BY <1>3, <1>6, <1>7 DEF CompleteAfterStage
<1>8. QED BY <1>3, <1>4, <1>5, <1>6, <1>7

(* No step of the lease holder but the check itself passes the check.      *)
LEMMA HolderStepPast ==
    ASSUME TypeInv, NEW c \in Calls, HolderStep(c) \/ Recover(c), PastCheck(c)'
    PROVE  PastCheck(c)
<1>1. CallsOK /\ calls[c] \in Call /\ CallOK(calls[c])
  BY DEF TypeInv, CallsOK
<1>2. CASE StartStage(c) \/ HeadOfLoop(c) \/ Delegate(c) \/ StageSettled(c)
  BY <1>2 DEF StartStage, HeadOfLoop, Delegate, StageSettled, At, PastCheck, StagePoints
<1>3. CASE AppendRejected(c) \/ AppendInterrupted(c)
  <2>1. ASSUME NEW reason,
               calls' = [calls EXCEPT ![c].pc = "finalize", ![c].reason = reason]
        PROVE  ~PastCheck(c)'
    <3>1. calls'[c].pc = "finalize"
      BY <1>1, <2>1 DEF CallsOK, Call
    <3>2. QED BY <3>1 DEF PastCheck, StagePoints
  <2>2. QED BY <1>1, <1>3, <2>1, OffByCall, OffByCompletion DEF AppendRejected, AppendInterrupted
<1>4. CASE Finalize(c) \/ Load(c) \/ LoadCancel(c)
  <2>1. ASSUME NEW reason, NEW next \in {"finalize", "recover", "load"},
               InterruptActive(c, reason, next)
        PROVE  ~PastCheck(c)'
    BY <1>1, <2>1, OffByCall DEF InterruptActive, InterruptedEvent, StagePoints
  <2>2. Goto(c, "recover") => ~PastCheck(c)'
    BY <1>1, OffByCall DEF StagePoints
  <2>3. QED BY <1>1, <1>4, <2>1, <2>2, OffByCall, OffByCompletion DEF Finalize, Load, LoadCancel
<1>5. CASE Waited(c) \/ LoadDecision(c) \/ Decided(c) \/ Recover(c)
  <2>1. Goto(c, "validate") \/ Goto(c, "dependencies") => ~PastCheck(c)'
    BY <1>1, OffByCall DEF StagePoints
  <2>2. QED BY <1>1, <1>5, <2>1, OffByCall, OffByCompletion
               DEF Waited, LoadDecision, Decided, Recover
<1>6. CASE ValidateCandidate(c)
  <2>1. calls[c].op \in {"run", "approve", "reject"}
    BY <1>1, <1>6 DEF ValidateCandidate, At, CallOK, WellPlaced, Call, Operations
  <2>2. ASSUME NEW decision, NEW stage,
               PublishBeforeDeadline(c, DecidedEvent(decision, stage), "decided")
        PROVE  ~PastCheck(c)'
    BY <1>1, <2>2, OffByCompletion DEF DecidedEvent, StagePoints
  <2>3. PublishBeforeDeadline(c, RequestedEvent(summary.candidateRunId), "requested")
          => ~PastCheck(c)'
    BY <1>1, OffByCompletion DEF RequestedEvent, StagePoints
  <2>4. UseCandidate(c) => ~PastCheck(c)'
    BY <1>1, <2>1, <2>2, <2>3, OffByCompletion DEF UseCandidate
  <2>5. QED BY <1>1, <1>6, <2>4, OffByCall, OffByCompletion DEF ValidateCandidate
<1>7. QED BY <1>2, <1>3, <1>4, <1>5, <1>6 DEF HolderStep

(***************************************************************************)
(* Stages start only when every dependency has completed.                  *)
(***************************************************************************)
AllDone == \A i \in DOMAIN dependency : dependency[i] = "completed"

AnnouncesWait(c) ==
    /\ calls[c].pc = "append"
    /\ calls[c].event.type = "WorkflowDependencyStateChanged"
    /\ calls[c].event.state = "waiting"

OrderOK(c) ==
    /\ PastCheck(c) => AllDone
    /\ AnnouncesWait(c) => summary.transitionCount = 0

OrderInv ==
    /\ SafeInv
    /\ Counts
    /\ summary.transitionCount > 0 => AllDone
    /\ \A c \in Calls : OrderOK(c)

LEMMA TransitionsKept ==
    ASSUME NEW p \in Projection, NEW e, EventAllowed(definition, p, e),
           e.type # "WorkflowStageStarted"
    PROVE  ProjectEvent(p, e).transitionCount = p.transitionCount
BY DEF EventAllowed, ProjectEvent, ProjectDependency, ProjectInterrupt, ProjectStageCompletion,
       ProjectRequest, ProjectDecision, ProjectCompletion, Projection

LEMMA InitOrder == Init => OrderInv
<1> SUFFICES ASSUME Init PROVE OrderInv
  OBVIOUS
<1>1. Counts
  BY DEF Init, InitialProjection, Counts, Events, CreatedEvent
<1>2. summary.transitionCount = 0
  BY DEF Init, InitialProjection
<1>3. \A c \in Calls : OrderOK(c)
  BY DEF Init, IdleCall, OrderOK, PastCheck, StagePoints, AnnouncesWait
<1>4. QED BY <1>1, <1>2, <1>3, InitSafe DEF OrderInv

LEMMA AppendOrder ==
    ASSUME OrderInv, SafeInv', NEW c \in Calls, JournalAppend(c)
    PROVE  OrderInv'
<1>1. /\ CallsOK /\ CallOK(calls[c]) /\ TypeInv /\ summary \in Projection
      /\ LeaseInv /\ HolderOK(c) /\ OrderOK(c) /\ Counts
  BY DEF OrderInv, SafeInv, LeaseInv, TypeInv, TypeOK, CallsOK
<1> DEFINE e == calls[c].event
<1>2. /\ calls[c].pc = "append" /\ e \in WorkflowEvent
      /\ EventAllowed(definition, summary, e)
      /\ events' = events \o <<e>> /\ summary' = ProjectEvent(summary, e)
      /\ dependency' = dependency
  BY <1>1 DEF JournalAppend, At, CallOK
<1>3. /\ calls'[c].event = e /\ calls'[c].pc = calls[c].next /\ calls[c].next # "append"
      /\ \A d \in Calls \ {c} : calls'[d] = calls[d]
  BY <1>1, <1>2, AppendSets DEF HolderOK
<1>4. Counts'
  BY <1>1, <1>2, CountsExtended DEF OrderOK, AnnouncesWait
<1>5. summary'.transitionCount > 0 => AllDone'
  BY <1>1, <1>2, TransitionsKept DEF OrderInv, OrderOK, PastCheck, AllDone
<1>6. OrderOK(c)'
  BY <1>1, <1>2, <1>3 DEF OrderOK, PastCheck, AnnouncesWait, AllDone
<1>7. ASSUME NEW d \in Calls \ {c}
      PROVE  OrderOK(d)'
  <2>1. calls'[d].pc \notin LeasePoints
    BY <1>1, <1>2, <1>3, OthersOutside DEF LeasePoints
  <2>2. QED BY <2>1 DEF OrderOK, PastCheck, AnnouncesWait, StagePoints, LeasePoints
<1>8. QED BY <1>4, <1>5, <1>6, <1>7 DEF OrderInv

LEMMA HolderOrder ==
    ASSUME OrderInv, SafeInv', NEW c \in Calls, calls[c].pc \in LeasePoints,
           UNCHANGED <<journal, dependency>>, \A d \in Calls \ {c} : calls'[d] = calls[d],
           OrderOK(c)'
    PROVE  OrderInv'
<1>1. ASSUME NEW d \in Calls \ {c}
      PROVE  OrderOK(d)'
  <2>1. calls'[d].pc \notin LeasePoints
    BY OthersOutside DEF OrderInv, SafeInv
  <2>2. QED BY <2>1 DEF OrderOK, PastCheck, AnnouncesWait, StagePoints, LeasePoints
<1>2. Counts' /\ (summary'.transitionCount > 0 => AllDone')
  BY DEF OrderInv, Counts, Events, AllDone, journal
<1>3. QED BY <1>1, <1>2 DEF OrderInv

LEMMA CheckOrder ==
    ASSUME OrderInv, SafeInv', NEW c \in Calls, CheckDependencies(c)
    PROVE  OrderInv'
<1>1. CallsOK /\ calls[c].pc = "dependencies" /\ UNCHANGED <<journal, dependency>>
      /\ summary \in Projection
  BY DEF CheckDependencies, At, OrderInv, SafeInv, LeaseInv, TypeInv, TypeOK
<1>2. /\ DependencyState = "ready" => AllDone
      /\ DependencyState = "waiting" => ~AllDone
      /\ DependencyState \in {"waiting", "failed", "ready"}
  BY DEF DependencyState, AllDone
<1>3. /\ \A d \in Calls \ {c} : calls'[d] = calls[d]
  <2>1. ASSUME NEW state, NEW next, Publish(c, DependencyEvent(state), "plain", next)
        PROVE  \A d \in Calls \ {c} : calls'[d] = calls[d]
    BY <1>1, <2>1, PublishSets
  <2>2. QED BY <2>1, CheckMoves DEF Move, OrderInv, SafeInv, LeaseInv
<1>4. PastCheck(c)' => AllDone
  <2>1. Publish(c, DependencyEvent("waiting"), "plain", "waited") \/ Goto(c, "waited")
          => ~PastCheck(c)'
    BY <1>1, OffByCall DEF DependencyEvent, StagePoints
  <2>2. DependencyState # "ready" => ~PastCheck(c)'
    BY <1>1, <1>2, <2>1, OffByCompletion DEF CheckDependencies
  <2>3. QED BY <1>2, <2>2
<1>5. AnnouncesWait(c)' => summary.transitionCount = 0
  <2>1. CASE DependencyState = "waiting"
    BY <1>1, <1>2, <2>1 DEF OrderInv, Projection
  <2>2. CASE Publish(c, DependencyEvent("ready"), "plain", "loop")
    <3>1. calls'[c].event = DependencyEvent("ready")
      BY <1>1, <2>2, PublishSets
    <3>2. QED BY <3>1 DEF AnnouncesWait, DependencyEvent
  <2>3. CASE Move(c)
    BY <2>3 DEF Move, AnnouncesWait
  <2>4. Goto(c, "loop") => Move(c)
    BY <1>1, GotoMoves DEF LeasePoints
  <2>5. QED BY <1>1, <1>2, <2>1, <2>2, <2>3, <2>4, CompleteMoves DEF CheckDependencies
<1>6. OrderOK(c)'
  BY <1>1, <1>4, <1>5 DEF OrderOK, AllDone, journal
<1>7. QED BY <1>1, <1>3, <1>6, HolderOrder DEF LeasePoints

LEMMA NextOrder == OrderInv /\ [Next]_vars => OrderInv'
<1> SUFFICES ASSUME OrderInv, [Next]_vars PROVE OrderInv'
  OBVIOUS
<1>1. SafeInv /\ LeaseInv /\ TypeInv /\ CallsOK
  BY DEF OrderInv, SafeInv, LeaseInv, TypeInv
<1>2. SafeInv'
  BY <1>1, NextSafe
<1>3. CASE Outside
  <2>1. UNCHANGED <<journal, dependency>> /\ \A d \in Calls : Kept(d)
    BY <1>1, <1>3, OutsideKeeps
  <2>2. ASSUME NEW d \in Calls
        PROVE  OrderOK(d)'
    <3>1. Kept(d) /\ OrderOK(d)
      BY <2>1 DEF OrderInv
    <3>2. StagePoints \cup {"append"} \subseteq LeasePoints \ {"load"}
      BY DEF LeasePoints, StagePoints
    <3>3. (PastCheck(d)' => PastCheck(d)) /\ (AnnouncesWait(d)' => AnnouncesWait(d))
      BY <3>1, <3>2 DEF Kept, PastCheck, AnnouncesWait
    <3>4. QED BY <2>1, <3>1, <3>3 DEF OrderOK, AllDone, journal
  <2>3. QED BY <1>2, <2>1, <2>2 DEF OrderInv, Counts, Events, AllDone, journal
<1>4. ASSUME NEW c \in Calls, JournalAppend(c)
      PROVE  OrderInv'
  BY <1>2, <1>4, AppendOrder
<1>5. ASSUME NEW c \in Calls, CheckDependencies(c)
      PROVE  OrderInv'
  BY <1>2, <1>5, CheckOrder
<1>6. ASSUME NEW c \in Calls, HolderStep(c) \/ Recover(c)
      PROVE  OrderInv'
  <2>1. /\ calls[c].pc \in LeasePoints /\ UNCHANGED <<journal, dependency>>
        /\ \A d \in Calls \ {c} : calls'[d] = calls[d]
        /\ ~AnnouncesWait(c)'
    <3>1. CASE HolderStep(c)
      BY <1>1, <3>1, HolderStepMoves DEF Move, AnnouncesWait
    <3>2. CASE Recover(c)
      <4>1. calls[c].pc \in LeasePoints /\ UNCHANGED <<journal, dependency>>
        BY <3>2 DEF Recover, At, LeasePoints
      <4>2. Goto(c, "dependencies") => /\ calls'[c].pc = "dependencies"
                                       /\ \A d \in Calls \ {c} : calls'[d] = calls[d]
        BY <1>1 DEF Goto, CallsOK, Call
      <4>3. QED BY <1>1, <3>2, <4>1, <4>2, RecoverMoves DEF Move, AnnouncesWait
    <3>3. QED BY <1>6, <3>1, <3>2
  <2>2. PastCheck(c)' => PastCheck(c)
    BY <1>1, <1>6, HolderStepPast
  <2>3. OrderOK(c)'
    BY <2>1, <2>2 DEF OrderInv, OrderOK, AllDone, journal
  <2>4. QED BY <1>2, <2>1, <2>3, HolderOrder
<1>7. CASE Expire \/ UNCHANGED vars
  <2>1. UNCHANGED <<journal, dependency, calls>>
    BY <1>7 DEF Expire, vars, journal
  <2>2. QED BY <1>2, <2>1 DEF OrderInv, Counts, Events, OrderOK, PastCheck, AnnouncesWait,
                              AllDone, journal
<1>8. CASE \E i \in DOMAIN dependency, s \in {"completed", "failed"} : SettleDependency(i, s)
  <2>1. UNCHANGED <<journal, calls>> /\ (AllDone => AllDone')
    BY <1>8 DEF SettleDependency, journal, AllDone
  <2>2. QED BY <1>2, <2>1 DEF OrderInv, Counts, Events, OrderOK, PastCheck, AnnouncesWait,
                              journal
<1>9. QED BY <1>3, <1>4, <1>5, <1>6, <1>7, <1>8, NextCases

LEMMA OrderInvariance == Spec => []OrderInv
BY InitOrder, NextOrder, PTL DEF Spec

(* No stage ever starts before every workflow it depends on has completed, *)
(* although the dependencies are read once, before the loop that starts.   *)
THEOREM DependenciesComeFirst == Spec => []DependenciesFirst
<1>1. OrderInv => DependenciesFirst
  BY DEF OrderInv, SafeInv, LeaseInv, TypeInv, TypeOK, Projection, Counts, AllDone,
         DependenciesFirst
<1>2. QED BY <1>1, OrderInvariance, PTL

(***************************************************************************)
(* The refinement.                                                         *)
(***************************************************************************)
(* The phases of a workflow that has not ended.                            *)
LEMMA OpenPhases ==
    ASSUME ~Terminal(summary)
    PROVE  /\ Phase = "reviewing" <=> summary.approvalRequested
           /\ Phase = "approved" <=> /\ ~summary.approvalRequested
                                     /\ summary.currentStage = "none"
                                     /\ summary.approvalDecision = "approved"
           /\ Phase = "closing" <=> /\ ~summary.approvalRequested
                                    /\ summary.currentStage = "none"
                                    /\ summary.approvalDecision # "approved"
           /\ Phase = "parked" <=> /\ ~summary.approvalRequested
                                   /\ summary.currentStage # "none"
                                   /\ summary.status = "waiting_for_dependency"
           /\ Phase = "working" <=> /\ ~summary.approvalRequested
                                    /\ summary.currentStage # "none"
                                    /\ summary.status # "waiting_for_dependency"
           /\ Phase \in {"reviewing", "approved", "closing", "parked", "working"}
<1>1. summary.status # "completed"
  BY DEF Terminal, TerminalStatuses
<1>2. QED BY <1>1 DEF Phase

LEMMA AppendRefines ==
    ASSUME OrderInv, OrderInv', NEW c \in Calls, JournalAppend(c)
    PROVE  Lifecycle!Next \/ UNCHANGED <<Phase, summary.candidateRunId>>
<1> DEFINE e == calls[c].event
<1>1. /\ summary \in Projection /\ summary.candidateRunId \in Nat
      /\ summary' \in Projection /\ summary'.candidateRunId \in Nat
      /\ ActiveAtStage(summary) /\ Trail /\ Counts
  BY DEF OrderInv, SafeInv, LeaseInv, TypeInv, TypeOK, Projection
<1>2. /\ e \in WorkflowEvent /\ EventAllowed(definition, summary, e)
      /\ ~Terminal(summary) /\ summary' = ProjectEvent(summary, e)
  BY DEF JournalAppend, At, CallOK, EventAllowed, OrderInv, SafeInv, LeaseInv, TypeInv, CallsOK
<1> HIDE DEF e
<1> USE DEF Lifecycle!Next, Lifecycle!Work, Lifecycle!GiveUp, Lifecycle!Park, Lifecycle!Unpark,
            Lifecycle!RequestApproval, Lifecycle!Approve, Lifecycle!Reject,
            Lifecycle!Succeed, Lifecycle!End
<1>3. ASSUME summary'.status \notin TerminalStatuses
      PROVE  /\ Phase' = "reviewing" <=> summary'.approvalRequested
             /\ Phase' = "approved" <=> /\ ~summary'.approvalRequested
                                        /\ summary'.currentStage = "none"
                                        /\ summary'.approvalDecision = "approved"
             /\ Phase' = "closing" <=> /\ ~summary'.approvalRequested
                                       /\ summary'.currentStage = "none"
                                       /\ summary'.approvalDecision # "approved"
             /\ Phase' = "parked" <=> /\ ~summary'.approvalRequested
                                      /\ summary'.currentStage # "none"
                                      /\ summary'.status = "waiting_for_dependency"
             /\ Phase' = "working" <=> /\ ~summary'.approvalRequested
                                       /\ summary'.currentStage # "none"
                                       /\ summary'.status # "waiting_for_dependency"
             /\ Phase' \in {"reviewing", "approved", "closing", "parked", "working"}
  <2>1. summary'.status # "completed" /\ ~Terminal(summary)'
    BY <1>3 DEF Terminal, TerminalStatuses
  <2>2. QED BY <2>1 DEF Phase
<1>4. CASE e.type = "WorkflowDependencyStateChanged"
  <2>1. /\ summary' = ProjectDependency(summary, e) /\ DependencyAllowed(definition, summary, e)
        /\ e.state \in {"waiting", "ready"}
    BY <1>2, <1>4 DEF EventAllowed, ProjectEvent, WorkflowEvent, CreatedEvent
  <2>2. /\ summary'.candidateRunId = summary.candidateRunId
        /\ ~summary.approvalRequested /\ ~summary'.approvalRequested
        /\ summary'.currentStage = summary.currentStage
        /\ summary'.approvalDecision = summary.approvalDecision
        /\ \/ summary.status = "pending" /\ summary'.status = "waiting_for_dependency"
           \/ summary.status = "waiting_for_dependency" /\ summary'.status = "pending"
    BY <1>1, <2>1 DEF DependencyAllowed, ProjectDependency, Projection
  <2>3. summary'.status \notin TerminalStatuses
    BY <2>2 DEF TerminalStatuses
  <2>4. QED BY <1>2, <1>3, <2>2, <2>3, OpenPhases
<1>5. CASE e.type = "WorkflowStageStarted"
  <2>1. /\ summary' = ProjectStart(summary, e) /\ StartAllowed(definition, summary, e)
        /\ e.stage \in WorkerStages
    BY <1>2, <1>5 DEF EventAllowed, ProjectEvent, WorkflowEvent, CreatedEvent
  <2>2. /\ summary'.candidateRunId = summary.candidateRunId
        /\ ~summary.approvalRequested /\ ~summary'.approvalRequested
        /\ summary.currentStage # "none" /\ summary'.currentStage # "none"
        /\ summary'.status = "running"
    BY <1>1, <2>1 DEF StartAllowed, ProjectStart, Projection, WorkerStages
  <2>3. summary'.status \notin TerminalStatuses
    BY <2>2 DEF TerminalStatuses
  <2>4. QED BY <1>1, <1>2, <1>3, <2>2, <2>3, OpenPhases
<1>6. CASE e.type = "WorkflowStageInterrupted"
  <2>1. /\ summary' = ProjectInterrupt(summary, e) /\ summary.activeExecutionId # 0
    BY <1>2, <1>6 DEF EventAllowed, ProjectEvent, InterruptAllowed
  <2>2. /\ summary'.candidateRunId = summary.candidateRunId
        /\ ~summary.approvalRequested /\ ~summary'.approvalRequested
        /\ summary.currentStage # "none" /\ summary'.currentStage # "none"
        /\ summary'.status = "pending"
    BY <1>1, <1>2, <2>1 DEF Trail, ActiveAtStage, ProjectInterrupt, Projection, WorkerStages
  <2>3. summary'.status \notin TerminalStatuses
    BY <2>2 DEF TerminalStatuses
  <2>4. QED BY <1>1, <1>2, <1>3, <2>2, <2>3, OpenPhases
<1>7. CASE e.type = "WorkflowStageCompleted"
  <2>1. /\ summary' = ProjectStageCompletion(summary, e) /\ summary.activeExecutionId # 0
        /\ StageCompletionAllowed(definition, summary, e)
        /\ e.stage \in WorkerStages /\ e.nextStage \in StageNames /\ e.status \in RunStatuses
    BY <1>2, <1>7 DEF EventAllowed, ProjectEvent, StageCompletionAllowed, WorkflowEvent,
                      CreatedEvent
  <2>2. /\ ~summary.approvalRequested /\ summary.currentStage # "none"
        /\ summary.status = "running" /\ summary.approvalDecision # "approved"
    BY <1>1, <1>2, <2>1 DEF Trail, ActiveAtStage, Counts, WorkerStages
  <2>3. /\ ~summary'.approvalRequested /\ summary'.status = "pending"
        /\ summary'.currentStage = e.nextStage
        /\ summary'.candidateRunId = e.candidateRunId
        /\ summary'.approvalDecision = summary.approvalDecision
    BY <1>1, <2>1, <2>2 DEF ProjectStageCompletion, Projection
  <2>4. e.nextStage = "none" => e.candidateRunId = summary.candidateRunId
    <3>1. e.status = "completed" => e.nextStage # "none"
      BY <2>1 DEF StageCompletionAllowed, NextStageAllowed, NextSuccessfulStage,
                  NextCandidateStage, WorkerStages
    <3>2. QED BY <2>1, <3>1 DEF StageCompletionAllowed
  <2>5. Phase = "working"
    BY <1>2, <2>2, OpenPhases
  <2>6. summary'.status \notin TerminalStatuses
    BY <2>3 DEF TerminalStatuses
  <2>7. Phase' = IF e.nextStage = "none" THEN "closing" ELSE "working"
    BY <1>3, <2>2, <2>3, <2>6
  <2>8. QED BY <1>1, <2>3, <2>4, <2>5, <2>7
<1>8. CASE e.type = "WorkflowApprovalRequested"
  <2>1. /\ summary' = ProjectRequest(summary, e) /\ RequestAllowed(definition, summary, e)
    BY <1>2, <1>8 DEF EventAllowed, ProjectEvent
  <2>2. /\ summary'.candidateRunId = summary.candidateRunId /\ summary.candidateRunId # 0
        /\ ~summary.approvalRequested /\ summary'.approvalRequested
        /\ summary.currentStage = "approval"
        /\ summary'.status = "waiting_for_approval"
    BY <1>1, <2>1 DEF RequestAllowed, ProjectRequest, Projection
  <2>3. summary.status # "waiting_for_dependency"
    BY <1>1, <2>2 DEF Counts
  <2>4. summary'.status \notin TerminalStatuses
    BY <2>2 DEF TerminalStatuses
  <2>5. QED BY <1>2, <1>3, <2>2, <2>3, <2>4, OpenPhases
<1>9. CASE e.type = "WorkflowApprovalDecided"
  <2>1. /\ summary' = ProjectDecision(summary, e) /\ DecisionAllowed(definition, summary, e)
        /\ e.decision \in {"approved", "rejected"}
    BY <1>2, <1>9 DEF EventAllowed, ProjectEvent, WorkflowEvent, CreatedEvent
  <2>2. /\ summary'.candidateRunId = summary.candidateRunId
        /\ summary.approvalRequested /\ ~summary'.approvalRequested
        /\ summary'.currentStage = e.nextStage
        /\ summary'.approvalDecision = e.decision
        /\ summary'.status = "pending"
    BY <1>1, <2>1 DEF DecisionAllowed, ProjectDecision, Projection
  <2>3. e.decision = "approved" => e.nextStage = "none"
    BY <2>1 DEF DecisionAllowed
  <2>4. summary'.status \notin TerminalStatuses
    BY <2>2 DEF TerminalStatuses
  <2>5. QED BY <1>2, <1>3, <2>1, <2>2, <2>3, <2>4, OpenPhases
<1>10. CASE e.type = "WorkflowCompleted"
  <2>1. /\ summary' = ProjectCompletion(summary, e) /\ CompletionAllowed(definition, summary, e)
        /\ e.status \in TerminalStatuses
    BY <1>2, <1>10 DEF EventAllowed, ProjectEvent, WorkflowEvent, CreatedEvent
  <2>2. /\ summary'.candidateRunId = summary.candidateRunId
        /\ summary'.status = e.status
    BY <1>1, <2>1 DEF CompletionAllowed, ProjectCompletion, Projection
  <2>3. Phase' = IF e.status = "completed" THEN "succeeded" ELSE "ended"
    BY <2>1, <2>2 DEF Phase, Terminal
  <2>4. CASE e.status = "completed"
    <3>1. summary.approvalDecision = "approved" /\ ~summary.approvalRequested
      BY <2>1, <2>4 DEF CompletionAllowed
    <3>2. Phase = "approved"
      BY <1>1, <1>2, <3>1, OpenPhases DEF Trail
    <3>3. QED BY <2>2, <2>3, <2>4, <3>2
  <2>5. CASE e.status # "completed"
    <3>1. Phase \notin {"succeeded", "ended"}
      BY <1>2, OpenPhases
    <3>2. QED BY <2>2, <2>3, <2>5, <3>1
  <2>6. QED BY <2>4, <2>5
<1>11. QED BY <1>2, <1>4, <1>5, <1>6, <1>7, <1>8, <1>9, <1>10 DEF EventAllowed

(* The journal changes by appends alone.                                   *)
LEMMA JournalKept ==
    ASSUME LeaseInv, [Next]_vars, \A c \in Calls : ~JournalAppend(c)
    PROVE  UNCHANGED journal
<1>1. Outside => UNCHANGED journal
  BY OutsideKeeps
<1>2. ASSUME NEW c \in Calls, HolderStep(c)
      PROVE  UNCHANGED journal
  BY <1>2, HolderStepMoves DEF LeaseInv
<1>3. QED BY <1>1, <1>2, NextCases
          DEF Recover, CheckDependencies, Expire, SettleDependency, vars, journal

(* Concurrent calls, crashes, the deadline and cancellations included, the *)
(* service only ever does what the lifecycle promises: success is preceded *)
(* by a review and an approval of the very same candidate, which nothing   *)
(* changes outside of work, and the first end is final.                    *)
THEOREM ServiceImplementsLifecycle == Spec => ImplementsLifecycle
<1>1. Init => Lifecycle!Init
  <2> SUFFICES ASSUME Init PROVE Lifecycle!Init
    OBVIOUS
  <2>1. /\ summary.status = "pending" /\ ~summary.approvalRequested
        /\ summary.currentStage # "none" /\ summary.candidateRunId = 0
    BY DEF Init, InitialProjection
  <2>2. ~Terminal(summary)
    BY <2>1 DEF Terminal, TerminalStatuses
  <2>3. QED BY <2>1, <2>2, OpenPhases DEF Lifecycle!Init
<1>2. OrderInv /\ OrderInv' /\ [Next]_vars
        => [Lifecycle!Next]_<<Phase, summary.candidateRunId>>
  <2> SUFFICES ASSUME OrderInv, OrderInv', [Next]_vars
               PROVE  Lifecycle!Next \/ UNCHANGED <<Phase, summary.candidateRunId>>
    OBVIOUS
  <2>1. CASE \E c \in Calls : JournalAppend(c)
    BY <2>1, AppendRefines
  <2>2. CASE \A c \in Calls : ~JournalAppend(c)
    <3>1. UNCHANGED summary
      BY <2>2, JournalKept DEF OrderInv, SafeInv, journal
    <3>2. QED BY <3>1 DEF Phase, Terminal
  <2>3. QED BY <2>1, <2>2
<1>3. QED BY <1>1, <1>2, OrderInvariance, PTL DEF Spec, ImplementsLifecycle, Lifecycle!Spec

(***************************************************************************)
(* Counting the entries of a journal.                                      *)
(***************************************************************************)
Entries(s, T) == {i \in 1..Len(s) : s[i] \in T}
Count(s, T)   == Cardinality(Entries(s, T))

LEMMA EntriesFinite ==
    ASSUME NEW S, NEW s \in Seq(S), NEW T
    PROVE  IsFiniteSet(Entries(s, T)) /\ Count(s, T) \in Nat
<1>1. IsFiniteSet(1..Len(s))
  BY FS_Interval
<1>2. Entries(s, T) \in SUBSET (1..Len(s))
  BY DEF Entries
<1>3. QED BY <1>1, <1>2, FS_Subset, FS_CardinalityType DEF Count

(* An appended entry counts once where it belongs, and nowhere else.       *)
LEMMA CountExtended ==
    ASSUME NEW S, NEW s \in Seq(S), NEW e \in S, NEW T
    PROVE  Count(s \o <<e>>, T) = Count(s, T) + (IF e \in T THEN 1 ELSE 0)
<1> DEFINE n == Len(s) + 1
<1>1. /\ Len(s) \in Nat /\ Len(s \o <<e>>) = n /\ (s \o <<e>>)[n] = e
      /\ \A i \in 1..Len(s) : (s \o <<e>>)[i] = s[i]
  BY Extended
<1>2. Count(s, T) \in Nat /\ IsFiniteSet(Entries(s, T))
  BY EntriesFinite
<1>3. n \notin Entries(s, T)
  BY <1>1 DEF Entries
<1>4. CASE e \in T
  <2>1. Entries(s \o <<e>>, T) = Entries(s, T) \cup {n}
    BY <1>1, <1>4 DEF Entries
  <2>2. QED BY <1>2, <1>3, <1>4, <2>1, FS_AddElement DEF Count
<1>5. CASE e \notin T
  <2>1. Entries(s \o <<e>>, T) = Entries(s, T)
    BY <1>1, <1>5 DEF Entries
  <2>2. QED BY <1>2, <1>5, <2>1 DEF Count
<1>6. QED BY <1>4, <1>5

(* The sets of events that the budgets and the journal's bound count.      *)
EventsOf(type) == {e \in WorkflowEvent : e.type = type}
RepairEnds     == {e \in EventsOf("WorkflowStageCompleted") : e.stage = "repair"}
RetriesOf(s)   == {e \in EventsOf("WorkflowStageCompleted") : e.stage = s /\ e.nextStage = s}

LEMMA EventsCounted ==
    ASSUME events \in Seq(WorkflowEvent)
    PROVE  /\ \A type : Events(type) = Entries(events, EventsOf(type))
           /\ {i \in StageCompletions : events[i].stage = "repair"} = Entries(events, RepairEnds)
           /\ \A s : {i \in StageCompletions : events[i].stage = s /\ events[i].nextStage = s}
                       = Entries(events, RetriesOf(s))
<1>1. \A i \in 1..Len(events) : events[i] \in WorkflowEvent
  OBVIOUS
<1>2. QED BY <1>1 DEF Events, StageCompletions, Entries, EventsOf, RepairEnds, RetriesOf

(***************************************************************************)
(* The budgets.                                                            *)
(***************************************************************************)
(* The last but one conjunct makes BudgetsAccounted inductive: a repair    *)
(* that runs has been budgeted for.                                        *)
Budgets ==
    /\ summary.transitionCount = Count(events, EventsOf("WorkflowStageStarted"))
    /\ summary.transitionCount <= definition.maxTransitions
    /\ summary.transitionCount =
          Count(events, EventsOf("WorkflowStageCompleted"))
          + Count(events, EventsOf("WorkflowStageInterrupted"))
          + (IF summary.activeExecutionId = 0 THEN 0 ELSE 1)
    /\ summary.repairAttemptCount = Count(events, RepairEnds)
    /\ summary.repairAttemptCount <= definition.maxRepairAttempts
    /\ summary.activeExecutionId # 0 /\ summary.currentStage = "repair"
          => summary.repairAttemptCount < definition.maxRepairAttempts
    /\ \A s \in WorkerStages \ {"repair"} :
          /\ summary.retryTransitions[s] = Count(events, RetriesOf(s))
          /\ summary.retryTransitions[s] <= definition.retryLimit[s]

LEMMA BudgetsAccount ==
    ASSUME TypeInv, Budgets
    PROVE  BudgetsAccounted
<1>1. events \in Seq(WorkflowEvent)
  BY DEF TypeInv, TypeOK
<1>2. QED BY <1>1, EventsCounted DEF Budgets, BudgetsAccounted, Count, StageCompletions

LEMMA DefinitionTyped ==
    ASSUME TypeInv
    PROVE  /\ definition.maxTransitions \in Nat
           /\ definition.maxRepairAttempts \in Nat
           /\ definition.dependencies \in Nat
           /\ \A s \in WorkerStages : definition.retryLimit[s] \in Nat
           /\ "implement" \in definition.stages /\ definition.stages \subseteq WorkerStages
<1>1. definition \in ValidDefinition
  BY DefinitionAssumption DEF TypeInv, TypeOK
<1>2. /\ definition.stages \in SUBSET WorkerStages /\ "implement" \in definition.stages
      /\ definition.retryLimit \in [WorkerStages -> 0..2]
      /\ definition.maxTransitions \in 1..64
      /\ definition.maxRepairAttempts \in 0..5
      /\ definition.dependencies \in 0..16
  BY <1>1 DEF ValidDefinition
<1>3. QED BY <1>2

LEMMA BudgetsExtended ==
    ASSUME TypeInv, Budgets, NEW e \in WorkflowEvent, EventAllowed(definition, summary, e),
           definition' = definition, events' = events \o <<e>>,
           summary' = ProjectEvent(summary, e)
    PROVE  Budgets'
<1>1. /\ summary \in Projection /\ events \in Seq(WorkflowEvent)
      /\ summary.transitionCount \in Nat /\ summary.repairAttemptCount \in Nat
      /\ \A s \in WorkerStages : summary.retryTransitions[s] \in Nat
  BY DEF TypeInv, TypeOK, Projection
<1>2. /\ definition.maxTransitions \in Nat
      /\ definition.maxRepairAttempts \in Nat
      /\ \A s \in WorkerStages : definition.retryLimit[s] \in Nat
  BY DefinitionTyped
<1>3. \A T : /\ Count(events, T) \in Nat
             /\ Count(events', T) = Count(events, T) + (IF e \in T THEN 1 ELSE 0)
  BY <1>1, EntriesFinite, CountExtended
<1> DEFINE starts == EventsOf("WorkflowStageStarted")
           interruptions == EventsOf("WorkflowStageInterrupted")
           ends == EventsOf("WorkflowStageCompleted")
<1>4. /\ e \in starts <=> e.type = "WorkflowStageStarted"
      /\ e \in interruptions <=> e.type = "WorkflowStageInterrupted"
      /\ e \in ends <=> e.type = "WorkflowStageCompleted"
      /\ e \in RepairEnds <=> e.type = "WorkflowStageCompleted" /\ e.stage = "repair"
      /\ \A s : e \in RetriesOf(s) <=>
                  e.type = "WorkflowStageCompleted" /\ e.stage = s /\ e.nextStage = s
  BY DEF EventsOf, RepairEnds, RetriesOf
<1> DEFINE One(p) == IF p THEN 1 ELSE 0
<1>5. /\ Count(events', starts) = Count(events, starts) + One(e.type = "WorkflowStageStarted")
       /\ Count(events', interruptions) =
             Count(events, interruptions) + One(e.type = "WorkflowStageInterrupted")
       /\ Count(events', ends) = Count(events, ends) + One(e.type = "WorkflowStageCompleted")
       /\ Count(events', RepairEnds) = Count(events, RepairEnds)
             + One(e.type = "WorkflowStageCompleted" /\ e.stage = "repair")
       /\ Count(events, starts) \in Nat /\ Count(events, interruptions) \in Nat
       /\ Count(events, ends) \in Nat /\ Count(events, RepairEnds) \in Nat
  BY <1>3, <1>4
<1>6. \A s : /\ Count(events, RetriesOf(s)) \in Nat
              /\ Count(events', RetriesOf(s)) = Count(events, RetriesOf(s))
                   + One(e.type = "WorkflowStageCompleted" /\ e.stage = s /\ e.nextStage = s)
  BY <1>3, <1>4
<1> HIDE DEF starts, interruptions, ends
(* An event that is neither a start nor an end of a stage.                 *)
<1>7. ASSUME e.type \notin {"WorkflowStageStarted", "WorkflowStageInterrupted",
                            "WorkflowStageCompleted"},
             summary'.transitionCount = summary.transitionCount,
             summary'.repairAttemptCount = summary.repairAttemptCount,
             summary'.retryTransitions = summary.retryTransitions,
             summary'.activeExecutionId = summary.activeExecutionId,
             summary.activeExecutionId = 0
      PROVE  Budgets'
  BY <1>1, <1>2, <1>5, <1>6, <1>7 DEF Budgets, starts, interruptions, ends
<1>8. CASE e.type = "WorkflowDependencyStateChanged"
  BY <1>1, <1>7, <1>8
     DEF EventAllowed, ProjectEvent, DependencyAllowed, ProjectDependency, Projection
<1>9. CASE e.type = "WorkflowStageStarted"
  <2>1. /\ summary' = ProjectStart(summary, e) /\ StartAllowed(definition, summary, e)
    BY <1>9 DEF EventAllowed, ProjectEvent
  <2>2. /\ summary'.transitionCount = summary.transitionCount + 1
        /\ summary'.repairAttemptCount = summary.repairAttemptCount
        /\ summary'.retryTransitions = summary.retryTransitions
        /\ summary'.activeExecutionId # 0 /\ summary.activeExecutionId = 0
        /\ summary'.currentStage = e.stage
        /\ summary.transitionCount < definition.maxTransitions
        /\ e.stage = "repair" => summary.repairAttemptCount < definition.maxRepairAttempts
    BY <1>1, <2>1 DEF StartAllowed, ProjectStart, Projection
  <2>3. QED BY <1>1, <1>2, <1>5, <1>6, <1>9, <2>2 DEF Budgets, starts, interruptions, ends
<1>10. CASE e.type = "WorkflowStageInterrupted"
  <2>1. /\ summary' = ProjectInterrupt(summary, e) /\ InterruptAllowed(definition, summary, e)
    BY <1>10 DEF EventAllowed, ProjectEvent
  <2>2. /\ summary'.transitionCount = summary.transitionCount
        /\ summary'.repairAttemptCount = summary.repairAttemptCount
        /\ summary'.retryTransitions = summary.retryTransitions
        /\ summary'.activeExecutionId = 0 /\ summary.activeExecutionId # 0
    BY <1>1, <2>1 DEF InterruptAllowed, ProjectInterrupt, Projection
  <2>3. /\ Count(events', starts) = Count(events, starts)
        /\ Count(events', interruptions) = Count(events, interruptions) + 1
        /\ Count(events', ends) = Count(events, ends)
        /\ Count(events', RepairEnds) = Count(events, RepairEnds)
    BY <1>5, <1>10
  <2>4. \A s : Count(events', RetriesOf(s)) = Count(events, RetriesOf(s))
    BY <1>6, <1>10
  <2>5. /\ summary'.transitionCount = Count(events', starts)
        /\ summary'.transitionCount <= definition'.maxTransitions
        /\ summary'.repairAttemptCount = Count(events', RepairEnds)
        /\ summary'.repairAttemptCount <= definition'.maxRepairAttempts
    BY <1>1, <2>2, <2>3 DEF Budgets, starts
  <2>6. summary'.transitionCount = Count(events', ends) + Count(events', interruptions)
    <3>1. summary.transitionCount = Count(events, ends) + Count(events, interruptions) + 1
      BY <2>2 DEF Budgets, ends, interruptions
    <3>2. QED BY <1>5, <2>2, <2>3, <3>1
  <2>7. summary'.transitionCount =
           Count(events', ends) + Count(events', interruptions)
              + (IF summary'.activeExecutionId = 0 THEN 0 ELSE 1)
    BY <1>5, <2>2, <2>3, <2>6
  <2>8. \A s \in WorkerStages \ {"repair"} :
           /\ summary'.retryTransitions[s] = Count(events', RetriesOf(s))
           /\ summary'.retryTransitions[s] <= definition'.retryLimit[s]
    BY <1>1, <2>2, <2>4 DEF Budgets
  <2>9. QED BY <2>2, <2>5, <2>7, <2>8 DEF Budgets, starts, interruptions, ends
<1>11. CASE e.type = "WorkflowStageCompleted"
  <2>1. /\ summary' = ProjectStageCompletion(summary, e)
        /\ StageCompletionAllowed(definition, summary, e)
        /\ e.stage \in WorkerStages /\ e.status \in RunStatuses
    BY <1>11 DEF EventAllowed, ProjectEvent, WorkflowEvent, CreatedEvent
  <2> DEFINE retried == e.stage # "repair" /\ e.nextStage = e.stage
  <2>2. /\ summary'.transitionCount = summary.transitionCount
        /\ summary'.repairAttemptCount =
              summary.repairAttemptCount + (IF e.stage = "repair" THEN 1 ELSE 0)
        /\ \A s \in WorkerStages :
              summary'.retryTransitions[s] =
                 summary.retryTransitions[s] + (IF retried /\ s = e.stage THEN 1 ELSE 0)
        /\ summary'.activeExecutionId = 0 /\ summary.activeExecutionId # 0
        /\ summary.currentStage = e.stage
    BY <1>1, <2>1 DEF StageCompletionAllowed, ProjectStageCompletion, Projection
  <2>3. retried => summary.retryTransitions[e.stage] < definition.retryLimit[e.stage]
    <3>1. e.status = "completed" => e.nextStage # e.stage
      BY <2>1 DEF StageCompletionAllowed, NextStageAllowed, NextSuccessfulStage,
                  NextCandidateStage, WorkerStages
    <3>2. QED BY <2>1, <3>1 DEF StageCompletionAllowed, NextStageAllowed, RunStatuses, WorkerStages
  <2>4. ASSUME NEW s \in WorkerStages \ {"repair"}
        PROVE  /\ summary'.retryTransitions[s] = Count(events', RetriesOf(s))
               /\ summary'.retryTransitions[s] <= definition'.retryLimit[s]
    <3> DEFINE before == Count(events, RetriesOf(s))
               after  == Count(events', RetriesOf(s))
               more   == IF retried /\ s = e.stage THEN 1 ELSE 0
    <3>1. before \in Nat /\ after = before + more
      BY <1>6, <1>11
    <3>2. /\ summary.retryTransitions[s] = before
          /\ summary.retryTransitions[s] <= definition.retryLimit[s]
      BY <1>1 DEF Budgets
    <3>3. summary'.retryTransitions[s] = before + more
      BY <2>2, <3>2
    <3>4. definition' = definition /\ definition.retryLimit[s] \in Nat
      BY <1>1, <1>2
    <3>5. more = 0 \/ (more = 1 /\ summary.retryTransitions[s] < definition.retryLimit[s])
      BY <2>3
    <3>6. PICK limit \in Nat : limit = definition.retryLimit[s]
      BY <3>4
    <3> HIDE DEF before, after, more, retried
    <3>7. /\ before <= limit /\ (more = 0 \/ (more = 1 /\ before < limit))
          /\ definition'.retryLimit[s] = limit
      BY <3>2, <3>4, <3>5, <3>6
    <3>8. PICK b \in Nat : b = before
      BY <3>1
    <3>9. b + more <= limit
      BY <3>7, <3>8
    <3>10. /\ summary'.retryTransitions[s] = after
           /\ summary'.retryTransitions[s] <= definition'.retryLimit[s]
      <4>1. summary'.retryTransitions[s] = after /\ summary'.retryTransitions[s] = b + more
        BY <3>1, <3>3, <3>8, Zenon
      <4>2. b + more <= definition'.retryLimit[s]
        BY <3>7, <3>9
      <4>3. QED BY <4>1, <4>2, Zenon
    <3>11. QED BY <3>10 DEF after
  <2> HIDE DEF retried
  <2>5. /\ Count(events', starts) = Count(events, starts)
        /\ Count(events', interruptions) = Count(events, interruptions)
        /\ Count(events', ends) = Count(events, ends) + 1
        /\ Count(events', RepairEnds) =
              Count(events, RepairEnds) + (IF e.stage = "repair" THEN 1 ELSE 0)
    BY <1>5, <1>11
  <2>6. /\ summary'.transitionCount = Count(events', starts)
        /\ summary'.transitionCount <= definition'.maxTransitions
    BY <1>1, <2>2, <2>5 DEF Budgets, starts
  <2>7. summary'.transitionCount = Count(events', ends) + Count(events', interruptions)
    <3>1. summary.transitionCount = Count(events, ends) + Count(events, interruptions) + 1
      BY <2>2 DEF Budgets, ends, interruptions
    <3>2. QED BY <1>5, <2>2, <2>5, <3>1
  <2>8. /\ summary'.repairAttemptCount = Count(events', RepairEnds)
        /\ summary'.repairAttemptCount <= definition'.maxRepairAttempts
    <3>1. /\ summary.repairAttemptCount = Count(events, RepairEnds)
          /\ summary.repairAttemptCount <= definition.maxRepairAttempts
          /\ e.stage = "repair" => summary.repairAttemptCount < definition.maxRepairAttempts
      BY <2>2 DEF Budgets
    <3>2. QED BY <1>1, <1>2, <2>2, <2>5, <3>1
  <2>9. \A s \in WorkerStages \ {"repair"} :
           /\ summary'.retryTransitions[s] = Count(events', RetriesOf(s))
           /\ summary'.retryTransitions[s] <= definition'.retryLimit[s]
    BY <2>4
  <2>10. summary'.transitionCount =
            Count(events', ends) + Count(events', interruptions)
               + (IF summary'.activeExecutionId = 0 THEN 0 ELSE 1)
    BY <1>5, <2>2, <2>5, <2>7
  <2>11. QED BY <2>2, <2>6, <2>8, <2>9, <2>10 DEF Budgets, starts, interruptions, ends
<1>12. CASE e.type = "WorkflowApprovalRequested"
  BY <1>1, <1>7, <1>12
     DEF EventAllowed, ProjectEvent, RequestAllowed, ProjectRequest, Projection
<1>13. CASE e.type = "WorkflowApprovalDecided"
  <2>1. summary.activeExecutionId = 0
    BY <1>13 DEF EventAllowed, DecisionAllowed, TypeInv, ActiveAtStage, WorkerStages
  <2>2. QED BY <1>1, <1>7, <1>13, <2>1
               DEF EventAllowed, ProjectEvent, DecisionAllowed, ProjectDecision, Projection
<1>14. CASE e.type = "WorkflowCompleted"
  BY <1>1, <1>7, <1>14
     DEF EventAllowed, ProjectEvent, CompletionAllowed, ProjectCompletion, Projection
<1>15. QED BY <1>8, <1>9, <1>10, <1>11, <1>12, <1>13, <1>14 DEF EventAllowed

(***************************************************************************)
(* Where the workflow stands: what the status, the stage and the last event*)
(* tell of each other.                                                     *)
(***************************************************************************)
Shape ==
    /\ summary.status = "running" => summary.activeExecutionId # 0
    /\ summary.approvalRequested <=> summary.status = "waiting_for_approval"
    /\ summary.status = "waiting_for_dependency" => definition.dependencies > 0
    /\ summary.currentStage \in definition.stages \cup {"approval", "none"}
    /\ ~Terminal(summary) /\ summary.currentStage = "none"
          => /\ LastEvent.type \in {"WorkflowApprovalDecided", "WorkflowStageCompleted"}
             /\ LastEvent.nextStage = "none"
    /\ LastEvent.type = "WorkflowApprovalDecided"
          => /\ summary.approvalDecision = LastEvent.decision
             /\ summary.currentStage = LastEvent.nextStage
             /\ LastEvent.decision = "approved" => LastEvent.nextStage = "none"
    /\ LastEvent.type = "WorkflowStageCompleted"
          => /\ summary.currentStage = LastEvent.nextStage
             /\ LastEvent.status = "completed" => LastEvent.nextStage # "none"
             /\ (LastEvent.status = "completed") <=> (LastEvent.failureCode = "none")

(***************************************************************************)
(* Where the candidate comes from: a run is numbered by the start that led *)
(* to it, so a new candidate is the run of no earlier stage.               *)
(***************************************************************************)
EndedStarts ==
    summary.transitionCount - (IF summary.activeExecutionId = 0 THEN 0 ELSE 1)

Sources ==
    /\ summary.activeExecutionId # 0 => summary.activeExecutionId = summary.transitionCount
    /\ \A i \in StageCompletions : events[i].runId <= EndedStarts
    /\ summary.candidateRunId # 0 => \E i \in StageCompletions : SourceEvents(summary.candidateRunId) = {i}
    /\ summary.currentStage = "approval" => CandidateHasSource
    /\ summary.currentStage \in {"test", "review", "repair", "approval"}
          => summary.candidateRunId # 0
    /\ summary.approvalDecision = "approved" /\ ~Terminal(summary)
          => summary.candidateRunId # 0

(***************************************************************************)
(* How often each event can occur, the stages' apart: a wait for the       *)
(* dependencies begins and ends once, every request but the last has been  *)
(* decided, and a decision that leads on is followed by a repair.          *)
(***************************************************************************)
Occurrences(type) == Count(events, EventsOf(type))

Bounds ==
    /\ Len(events) = 1 + Occurrences("WorkflowDependencyStateChanged")
                       + Occurrences("WorkflowStageStarted")
                       + Occurrences("WorkflowStageInterrupted")
                       + Occurrences("WorkflowStageCompleted")
                       + Occurrences("WorkflowApprovalRequested")
                       + Occurrences("WorkflowApprovalDecided")
                       + Occurrences("WorkflowCompleted")
    /\ Occurrences("WorkflowDependencyStateChanged") <= 2
    /\ summary.status = "waiting_for_dependency"
          => Occurrences("WorkflowDependencyStateChanged") <= 1
    /\ Occurrences("WorkflowDependencyStateChanged") > 0
          => summary.status = "waiting_for_dependency" \/ AllDone \/ Terminal(summary)
    /\ Occurrences("WorkflowApprovalDecided")
          <= summary.repairAttemptCount
             + (IF summary.currentStage \in {"repair", "none"} THEN 1 ELSE 0)
    /\ Occurrences("WorkflowApprovalRequested") <= summary.repairAttemptCount + 1
    /\ ~Terminal(summary)
          => Occurrences("WorkflowApprovalRequested")
             = Occurrences("WorkflowApprovalDecided") + (IF summary.approvalRequested THEN 1 ELSE 0)
    /\ Occurrences("WorkflowCompleted") <= (IF Terminal(summary) THEN 1 ELSE 0)

(***************************************************************************)
(* What a call knows of the journal at each of its points.                 *)
(***************************************************************************)
Open == ~Terminal(summary) /\ summary.activeExecutionId = 0

Undecided == summary.currentStage = "approval" /\ ~summary.approvalRequested

Sequel(e) ==
    CASE e.type = "WorkflowDependencyStateChanged" ->
            {IF e.state = "waiting" THEN "waited" ELSE "loop"}
      [] e.type = "WorkflowStageStarted"      -> {"delegate"}
      [] e.type = "WorkflowStageInterrupted"  -> {"recover", "finalize", "load"}
      [] e.type = "WorkflowStageCompleted"    -> {"settled"}
      [] e.type = "WorkflowApprovalRequested" -> {"requested"}
      [] e.type = "WorkflowApprovalDecided"   -> {"decided"}
      [] e.type = "WorkflowCompleted"         -> {"release"}
      [] OTHER                                -> {}

(* What a call publishes without looking at its signal.                    *)
Unsignalled(e) ==
    \/ e.type \in {"WorkflowStageInterrupted", "WorkflowDependencyStateChanged"}
    \/ e.type = "WorkflowCompleted" /\ e.status \in {"cancelled", "timed_out"}

(* The event a call is about to publish: the journal allows it, the result *)
(* of a test that undid its candidate apart.                               *)
AskOK(op, e, guard, next) ==
    /\ \/ EventAllowed(definition, summary, e)
       \/ TestsMayRevert /\ e.type = "WorkflowStageCompleted"
    /\ next \in Sequel(e)
    /\ guard = "deadline" => Open
    /\ guard = "plain" => Unsignalled(e)
    /\ e.type = "WorkflowApprovalDecided" => op # "run"
    /\ e.type = "WorkflowStageStarted" => e.executionId = summary.transitionCount + 1
    /\ e.type = "WorkflowStageCompleted" => e.runId \in {0, e.executionId}
    /\ e.type = "WorkflowDependencyStateChanged"
          => /\ summary.currentStage # "none"
             /\ IF e.state = "waiting"
                THEN Occurrences("WorkflowDependencyStateChanged") = 0 ELSE AllDone

OpenPoints == {"recover", "dependencies", "waited", "loop", "validate", "requested",
               "settled", "decided"}

PointOK(k) ==
    /\ k.pc \in OpenPoints => Open
    /\ k.pc \in {"dependencies", "loop"} => summary.currentStage # "none"
    /\ k.pc = "waited" => summary.status = "waiting_for_dependency"
    /\ k.pc = "requested" => summary.status = "waiting_for_approval"
    /\ k.pc = "validate" => IF k.op = "run"
                            THEN Undecided \/ summary.approvalDecision = "approved"
                            ELSE summary.status = "waiting_for_approval"
    /\ k.pc = "delegate" => summary.activeExecutionId # 0
    /\ k.pc \in {"settled", "decided"} => LastEvent = k.event
    /\ k.pc = "decided" => k.op # "run"
    /\ k.pc = "append" => AskOK(k.op, k.event, k.guard, k.next)
    /\ k.pc = "release" /\ k.op = "run" => TestsMayRevert \/ (k.result # "error" /\ Settled)

Placed(k) ==
    /\ PointOK(k)
    /\ k.pc \in {"acquire"} \cup (LeasePoints \ {"release"}) => k.result = "none"

JournalInv ==
    /\ OrderInv
    /\ Budgets
    /\ Shape
    /\ Sources
    /\ Bounds
    /\ \A c \in Calls : Placed(calls[c])

(***************************************************************************)
(* An event that the journal allows keeps the shape.                       *)
(***************************************************************************)
LEMMA LastAppended ==
    ASSUME TypeInv, NEW e \in WorkflowEvent, events' = events \o <<e>>
    PROVE  LastEvent' = e
BY Extended DEF TypeInv, TypeOK, LastEvent

LEMMA SuccessorStages ==
    ASSUME TypeInv, NEW e \in WorkflowEvent, e.type = "WorkflowStageCompleted",
           EventAllowed(definition, summary, e), Shape
    PROVE  /\ e.nextStage \in definition.stages \cup {"approval", "none"}
           /\ e.status = "completed" => e.nextStage # "none"
           /\ e.nextStage = "approval" => e.status = "completed" /\ e.stage # "plan"
           /\ e.nextStage \in {"test", "review"} => e.status = "completed" \/ e.nextStage = e.stage
           /\ e.status = "completed" /\ e.stage = "plan" => e.nextStage = "implement"
<1>1. /\ StageCompletionAllowed(definition, summary, e)
      /\ e.stage \in WorkerStages /\ e.status \in RunStatuses
  BY DEF EventAllowed, WorkflowEvent, CreatedEvent
<1>2. /\ "implement" \in definition.stages /\ e.stage \in definition.stages
      /\ NextStageAllowed(definition, summary, e)
  BY <1>1, DefinitionTyped DEF StageCompletionAllowed, Shape, WorkerStages
<1>3. CASE e.status = "completed"
  <2>1. e.nextStage = NextSuccessfulStage(definition, e.stage)
    BY <1>2, <1>3 DEF NextStageAllowed
  <2>2. QED BY <1>1, <1>2, <1>3, <2>1
               DEF NextSuccessfulStage, NextCandidateStage, WorkerStages
<1>4. CASE e.status \in {"cancelled", "timed_out", "policy_violation"}
  BY <1>1, <1>2, <1>4 DEF NextStageAllowed
<1>5. CASE e.status \in {"failed", "blocked"}
  BY <1>1, <1>2, <1>5 DEF NextStageAllowed, WorkerStages
<1>6. QED BY <1>1, <1>3, <1>4, <1>5 DEF RunStatuses

LEMMA ShapeExtended ==
    ASSUME TypeInv, Trail, Counts, Shape, NEW e \in WorkflowEvent,
           EventAllowed(definition, summary, e),
           e.type = "WorkflowDependencyStateChanged" => summary.currentStage # "none",
           definition' = definition, events' = events \o <<e>>,
           summary' = ProjectEvent(summary, e)
    PROVE  Shape'
<1>1. summary \in Projection /\ ~Terminal(summary)
  BY DEF TypeInv, TypeOK, EventAllowed
<1>2. LastEvent' = e
  BY LastAppended
<1>3. CASE e.type = "WorkflowDependencyStateChanged"
  <2>1. /\ summary' = ProjectDependency(summary, e) /\ DependencyAllowed(definition, summary, e)
    BY <1>3 DEF EventAllowed, ProjectEvent
  <2>2. /\ summary'.status \in {"waiting_for_dependency", "pending"}
        /\ summary'.approvalRequested = FALSE
        /\ summary'.currentStage = summary.currentStage
        /\ definition.dependencies > 0
    BY <1>1, <2>1 DEF DependencyAllowed, ProjectDependency, Projection
  <2>3. QED BY <1>2, <1>3, <2>2 DEF Shape
<1>4. CASE e.type = "WorkflowStageStarted"
  <2>1. /\ summary' = ProjectStart(summary, e) /\ StartAllowed(definition, summary, e)
        /\ e.stage \in WorkerStages
    BY <1>4 DEF EventAllowed, ProjectEvent, WorkflowEvent, CreatedEvent
  <2>2. /\ summary'.status = "running" /\ summary'.activeExecutionId # 0
        /\ summary'.approvalRequested = FALSE
        /\ summary'.currentStage = e.stage
    BY <1>1, <2>1 DEF StartAllowed, ProjectStart, Projection
  <2>3. QED BY <1>2, <1>4, <2>1, <2>2 DEF Shape, StartAllowed, WorkerStages
<1>5. CASE e.type = "WorkflowStageInterrupted"
  <2>1. /\ summary' = ProjectInterrupt(summary, e) /\ InterruptAllowed(definition, summary, e)
        /\ e.stage \in WorkerStages
    BY <1>5 DEF EventAllowed, ProjectEvent, WorkflowEvent, CreatedEvent
  <2>2. /\ summary'.status = "pending"
        /\ summary'.approvalRequested = summary.approvalRequested
        /\ summary'.currentStage = e.stage
        /\ summary.activeExecutionId # 0 /\ summary.currentStage = e.stage
    BY <1>1, <2>1 DEF InterruptAllowed, ProjectInterrupt, Projection
  <2>3. summary'.approvalRequested = FALSE
    BY <1>1, <2>2 DEF Trail, Projection
  <2>4. QED BY <1>2, <1>5, <2>1, <2>2, <2>3 DEF Shape, WorkerStages
<1>6. CASE e.type = "WorkflowStageCompleted"
  <2>1. /\ summary' = ProjectStageCompletion(summary, e)
        /\ StageCompletionAllowed(definition, summary, e)
    BY <1>6 DEF EventAllowed, ProjectEvent
  <2>2. /\ summary'.status = "pending"
        /\ summary'.approvalRequested = summary.approvalRequested
        /\ summary'.currentStage = e.nextStage
        /\ summary.activeExecutionId # 0
        /\ (e.status = "completed") <=> (e.failureCode = "none")
    BY <1>1, <2>1 DEF StageCompletionAllowed, ProjectStageCompletion, Projection
  <2>3. summary'.approvalRequested = FALSE
    BY <1>1, <2>2 DEF Trail, Projection
  <2>4. QED BY <1>2, <1>6, <2>2, <2>3, SuccessorStages DEF Shape
<1>7. CASE e.type = "WorkflowApprovalRequested"
  <2>1. /\ summary' = ProjectRequest(summary, e) /\ RequestAllowed(definition, summary, e)
    BY <1>7 DEF EventAllowed, ProjectEvent
  <2>2. /\ summary'.status = "waiting_for_approval"
        /\ summary'.approvalRequested = TRUE
        /\ summary'.currentStage = "approval"
    BY <1>1, <2>1 DEF RequestAllowed, ProjectRequest, Projection
  <2>3. QED BY <1>2, <1>7, <2>2 DEF Shape
<1>8. CASE e.type = "WorkflowApprovalDecided"
  <2>1. /\ summary' = ProjectDecision(summary, e) /\ DecisionAllowed(definition, summary, e)
        /\ e.decision \in {"approved", "rejected"}
    BY <1>8 DEF EventAllowed, ProjectEvent, WorkflowEvent, CreatedEvent
  <2>2. /\ summary'.status = "pending"
        /\ summary'.approvalRequested = FALSE
        /\ summary'.currentStage = e.nextStage
        /\ summary'.approvalDecision = e.decision
    BY <1>1, <2>1 DEF ProjectDecision, Projection
  <2>3. /\ e.nextStage \in definition.stages \cup {"approval", "none"}
        /\ e.decision = "approved" => e.nextStage = "none"
    BY <2>1 DEF DecisionAllowed
  <2>4. QED BY <1>2, <1>8, <2>2, <2>3 DEF Shape
<1>9. CASE e.type = "WorkflowCompleted"
  <2>1. summary' = ProjectCompletion(summary, e) /\ e.status \in TerminalStatuses
    BY <1>9 DEF EventAllowed, ProjectEvent, WorkflowEvent, CreatedEvent
  <2>2. /\ summary'.status \in TerminalStatuses
        /\ summary'.approvalRequested = FALSE
        /\ summary'.currentStage = "none"
    BY <1>1, <2>1 DEF ProjectCompletion, Projection
  <2>3. QED BY <1>2, <1>9, <2>2 DEF Shape, Terminal, TerminalStatuses
<1>10. QED BY <1>3, <1>4, <1>5, <1>6, <1>7, <1>8, <1>9 DEF EventAllowed

(***************************************************************************)
(* An event that the journal allows keeps the sources, when a start takes  *)
(* the next number and a result names the run of its own start.            *)
(***************************************************************************)
LEMMA SourcesKept ==
    ASSUME TypeInv, Sources, NEW e \in WorkflowEvent, e.type # "WorkflowStageCompleted",
           events' = events \o <<e>>, summary'.candidateRunId = summary.candidateRunId
    PROVE  /\ StageCompletions' = StageCompletions
           /\ \A i \in StageCompletions : events'[i] = events[i]
           /\ SourceEvents(summary.candidateRunId)' = SourceEvents(summary.candidateRunId)
           /\ CandidateHasSource <=> CandidateHasSource'
<1>1. events \in Seq(WorkflowEvent) /\ Len(events) \in Nat
  BY DEF TypeInv, TypeOK
<1>2. /\ Len(events') = Len(events) + 1
      /\ events'[Len(events) + 1] = e
      /\ \A i \in 1..Len(events) : events'[i] = events[i]
  BY <1>1, Extended
<1>3. /\ StageCompletions' = StageCompletions
      /\ \A i \in StageCompletions : events'[i] = events[i]
  BY <1>1, <1>2 DEF StageCompletions, Events
<1>4. SourceEvents(summary.candidateRunId)' = SourceEvents(summary.candidateRunId)
  BY <1>1, <1>2 DEF SourceEvents
<1>5. SourceEvents(summary.candidateRunId) \subseteq StageCompletions
  BY DEF SourceEvents, StageCompletions, Events
<1>6. QED BY <1>3, <1>4, <1>5 DEF CandidateHasSource

LEMMA SourcesExtended ==
    ASSUME TypeInv, Trail, Shape, Sources, NEW e \in WorkflowEvent,
           EventAllowed(definition, summary, e),
           e.type = "WorkflowStageStarted" => e.executionId = summary.transitionCount + 1,
           e.type = "WorkflowStageCompleted" => e.runId \in {0, e.executionId},
           definition' = definition, events' = events \o <<e>>,
           summary' = ProjectEvent(summary, e)
    PROVE  Sources'
<1>1. /\ summary \in Projection /\ ~Terminal(summary) /\ summary.transitionCount \in Nat
      /\ summary.activeExecutionId \in Nat /\ summary.candidateRunId \in Nat
      /\ events \in Seq(WorkflowEvent) /\ Len(events) \in Nat
      /\ EndedStarts \in Int
  BY DEF TypeInv, TypeOK, EventAllowed, Projection, EndedStarts
<1>2. \A i \in StageCompletions : events[i].runId \in Nat
  BY <1>1 DEF StageCompletions, Events, WorkflowEvent, CreatedEvent
(* An event that ends no stage, and moves to no stage but from approval.   *)
<1>3. ASSUME e.type # "WorkflowStageCompleted",
             summary'.candidateRunId = summary.candidateRunId,
             summary'.activeExecutionId # 0
                 => summary'.activeExecutionId = summary'.transitionCount,
             EndedStarts' \in Int, EndedStarts <= EndedStarts',
             \/ summary'.currentStage = summary.currentStage
             \/ summary'.currentStage = "none"
             \/ summary'.currentStage = "repair" /\ summary.currentStage = "approval",
             \/ summary'.approvalDecision = summary.approvalDecision
             \/ summary.currentStage = "approval"
             \/ summary'.approvalDecision = "none"
      PROVE  Sources'
  <2>1. /\ StageCompletions' = StageCompletions
        /\ \A i \in StageCompletions : events'[i] = events[i]
        /\ SourceEvents(summary.candidateRunId)' = SourceEvents(summary.candidateRunId)
        /\ CandidateHasSource <=> CandidateHasSource'
    BY <1>3, SourcesKept
  <2>2. ASSUME NEW i \in StageCompletions'
        PROVE  events'[i].runId <= EndedStarts'
    <3> DEFINE run == events'[i].runId
    <3>1. run = events[i].runId
      BY <2>1
    <3>2. run \in Nat /\ run <= EndedStarts
      BY <1>2, <2>1, <3>1 DEF Sources
    <3> HIDE DEF run
    <3>3. run <= EndedStarts'
      BY <1>1, <1>3, <3>2
    <3>4. QED BY <3>3 DEF run
  <2>3. summary'.candidateRunId # 0
          => \E i \in StageCompletions' : SourceEvents(summary.candidateRunId)' = {i}
    BY <1>3, <2>1 DEF Sources
  <2>4. summary'.approvalDecision = "approved" => summary.candidateRunId # 0
    BY <1>1, <1>3 DEF Sources
  <2>5. QED BY <1>3, <2>1, <2>2, <2>3, <2>4 DEF Sources
<1>4. CASE e.type = "WorkflowDependencyStateChanged"
  <2>1. summary' = ProjectDependency(summary, e)
    BY <1>4 DEF EventAllowed, ProjectEvent
  <2>2. /\ summary'.candidateRunId = summary.candidateRunId
        /\ summary'.activeExecutionId = summary.activeExecutionId
        /\ summary'.transitionCount = summary.transitionCount
        /\ summary'.currentStage = summary.currentStage
        /\ summary'.approvalDecision = summary.approvalDecision
    BY <1>1, <2>1 DEF ProjectDependency, Projection
  <2>3. EndedStarts' = EndedStarts
    BY <2>2 DEF EndedStarts
  <2>4. summary'.activeExecutionId # 0 => summary'.activeExecutionId = summary'.transitionCount
    BY <2>2 DEF Sources
  <2>5. QED BY <1>1, <1>3, <1>4, <2>2, <2>3, <2>4
<1>5. CASE e.type = "WorkflowStageStarted"
  <2>1. /\ summary' = ProjectStart(summary, e) /\ StartAllowed(definition, summary, e)
    BY <1>5 DEF EventAllowed, ProjectEvent
  <2>2. /\ summary'.candidateRunId = summary.candidateRunId
        /\ summary'.activeExecutionId = e.executionId
        /\ summary'.transitionCount = summary.transitionCount + 1
        /\ summary'.currentStage = summary.currentStage
        /\ summary'.approvalDecision = summary.approvalDecision
        /\ summary.activeExecutionId = 0 /\ e.executionId # 0
    BY <1>1, <2>1 DEF StartAllowed, ProjectStart, Projection
  <2>3. EndedStarts' = summary.transitionCount /\ EndedStarts = summary.transitionCount
    BY <1>1, <2>2 DEF EndedStarts
  <2>4. QED BY <1>1, <1>3, <1>5, <2>2, <2>3
<1>6. CASE e.type = "WorkflowStageInterrupted"
  <2>1. /\ summary' = ProjectInterrupt(summary, e)
    BY <1>6 DEF EventAllowed, ProjectEvent
  <2>2. /\ summary'.candidateRunId = summary.candidateRunId
        /\ summary'.activeExecutionId = 0
        /\ summary'.transitionCount = summary.transitionCount
        /\ summary'.currentStage = summary.currentStage
        /\ summary'.approvalDecision = summary.approvalDecision
    BY <1>1, <2>1 DEF ProjectInterrupt, Projection
  <2>3. EndedStarts' \in Int /\ EndedStarts <= EndedStarts'
    BY <1>1, <2>2 DEF EndedStarts
  <2>4. QED BY <1>3, <1>6, <2>2, <2>3
<1>7. CASE e.type = "WorkflowStageCompleted"
  <2>1. /\ summary' = ProjectStageCompletion(summary, e)
        /\ StageCompletionAllowed(definition, summary, e)
        /\ e.stage \in WorkerStages /\ e.runId \in Nat /\ e.candidateRunId \in Nat
        /\ e.executionId \in Nat
    BY <1>7 DEF EventAllowed, ProjectEvent, WorkflowEvent, CreatedEvent
  <2>2. /\ summary'.candidateRunId = e.candidateRunId
        /\ summary'.activeExecutionId = 0
        /\ summary'.transitionCount = summary.transitionCount
        /\ summary'.currentStage = e.nextStage
        /\ summary'.approvalDecision = summary.approvalDecision
        /\ summary.activeExecutionId # 0
        /\ e.executionId = summary.transitionCount
        /\ summary.currentStage = e.stage
    BY <1>1, <2>1 DEF ProjectStageCompletion, StageCompletionAllowed, Projection, Sources
  <2> DEFINE n == Len(events) + 1
  <2>3. /\ Len(events') = n
        /\ events'[n] = e
        /\ \A i \in 1..Len(events) : events'[i] = events[i]
    BY <1>1, Extended
  <2>4. StageCompletions' = StageCompletions \cup {n} /\ n \notin StageCompletions
    BY <1>1, <1>7, <2>3 DEF StageCompletions, Events
  <2>5. \A i \in StageCompletions : events'[i] = events[i]
                                    /\ events[i].runId < summary.transitionCount
    BY <1>1, <1>2, <2>2, <2>3 DEF Sources, StageCompletions, Events, EndedStarts
  <2>6. \A i \in StageCompletions' : events'[i].runId <= EndedStarts'
    <3>1. EndedStarts' = summary.transitionCount
      BY <1>1, <2>2 DEF EndedStarts
    <3>2. e.runId <= summary.transitionCount
      BY <1>1, <1>7, <2>2
    <3>3. SUFFICES ASSUME NEW i \in StageCompletions'
                   PROVE  events'[i].runId <= summary.transitionCount
      BY <3>1
    <3>4. CASE i = n
      BY <2>3, <3>2, <3>4
    <3>5. CASE i \in StageCompletions
      <4> DEFINE run == events'[i].runId
      <4>1. run = events[i].runId
        BY <2>5, <3>5
      <4>2. run \in Nat /\ run < summary.transitionCount
        BY <1>2, <2>5, <3>5, <4>1
      <4> HIDE DEF run
      <4>3. run <= summary.transitionCount
        BY <1>1, <4>2
      <4>4. QED BY <4>3 DEF run
    <3>6. QED BY <2>4, <3>4, <3>5
  <2>7. \A r : SourceEvents(r)' =
                 {i \in StageCompletions' : events'[i].runId = r /\ events'[i].candidateRunId = r}
    BY DEF SourceEvents, StageCompletions, Events
  <2>8. \A r : SourceEvents(r) =
                 {i \in StageCompletions : events[i].runId = r /\ events[i].candidateRunId = r}
    BY DEF SourceEvents, StageCompletions, Events
  <2>9. \/ e.candidateRunId = summary.candidateRunId
        \/ e.candidateRunId = e.runId /\ e.runId # 0
    BY <2>1 DEF StageCompletionAllowed
  <2>10. ASSUME e.candidateRunId # 0
         PROVE  \E i \in StageCompletions' : SourceEvents(e.candidateRunId)' = {i}
    <3>1. CASE e.candidateRunId = e.runId
      <4>1. e.runId = summary.transitionCount
        BY <1>7, <2>2, <2>10, <3>1
      <4>2. ASSUME NEW i \in StageCompletions
            PROVE  events'[i].runId # e.runId
        <5>1. events[i].runId \in Nat /\ events[i].runId < summary.transitionCount
          BY <1>2, <2>5
        <5>2. events[i].runId # summary.transitionCount
          BY <1>1, <5>1
        <5>3. QED BY <2>5, <4>1, <5>2
      <4>3. SourceEvents(e.candidateRunId)' = {n}
        BY <2>3, <2>4, <2>7, <3>1, <4>2
      <4>4. QED BY <2>4, <4>3
    <3>2. CASE e.candidateRunId # e.runId
      <4>1. e.candidateRunId = summary.candidateRunId
        BY <2>9, <3>2
      <4>2. SourceEvents(e.candidateRunId)' = SourceEvents(summary.candidateRunId)
        BY <2>3, <2>4, <2>5, <2>7, <2>8, <3>2, <4>1
      <4>3. QED BY <2>4, <2>10, <4>1, <4>2 DEF Sources
    <3>3. QED BY <3>1, <3>2
  <2>11. ASSUME e.nextStage = "approval"
         PROVE  CandidateHasSource'
    <3>1. e.status = "completed" /\ e.candidateRunId = e.runId
      BY <1>7, <2>1, <2>11, SuccessorStages DEF StageCompletionAllowed
    <3>2. n \in SourceEvents(e.candidateRunId)'
      BY <2>3, <2>4, <2>7, <3>1
    <3>3. QED BY <2>2, <2>3, <3>1, <3>2 DEF CandidateHasSource
  <2>12. e.nextStage \in {"test", "review", "repair", "approval"} => e.candidateRunId # 0
    <3>1. CASE e.status = "completed"
      BY <1>7, <2>1, <3>1, SuccessorStages DEF StageCompletionAllowed
    <3>2. CASE e.status # "completed" /\ e.nextStage = "repair"
      BY <2>1, <3>2 DEF StageCompletionAllowed
    <3>3. CASE e.status # "completed" /\ e.nextStage \in {"test", "review"}
      BY <1>1, <1>7, <2>1, <2>2, <3>3, SuccessorStages DEF StageCompletionAllowed, Sources
    <3>4. QED BY <1>7, <3>1, <3>2, <3>3, SuccessorStages
  <2>13. summary.approvalDecision # "approved"
    BY <1>1, <2>2 DEF Trail
  <2>14. QED BY <1>1, <2>2, <2>6, <2>10, <2>11, <2>12, <2>13 DEF Sources
<1>8. CASE e.type = "WorkflowApprovalRequested"
  <2>1. /\ summary' = ProjectRequest(summary, e)
    BY <1>8 DEF EventAllowed, ProjectEvent
  <2>2. /\ summary'.candidateRunId = summary.candidateRunId
        /\ summary'.activeExecutionId = summary.activeExecutionId
        /\ summary'.transitionCount = summary.transitionCount
        /\ summary'.currentStage = summary.currentStage
        /\ summary'.approvalDecision = "none"
    BY <1>1, <2>1 DEF ProjectRequest, Projection
  <2>3. EndedStarts' = EndedStarts
    BY <2>2 DEF EndedStarts
  <2>4. summary'.activeExecutionId # 0 => summary'.activeExecutionId = summary'.transitionCount
    BY <2>2 DEF Sources
  <2>5. QED BY <1>1, <1>3, <1>8, <2>2, <2>3, <2>4
<1>9. CASE e.type = "WorkflowApprovalDecided"
  <2>1. /\ summary' = ProjectDecision(summary, e) /\ DecisionAllowed(definition, summary, e)
        /\ e.decision \in {"approved", "rejected"}
    BY <1>9 DEF EventAllowed, ProjectEvent, WorkflowEvent, CreatedEvent
  <2>2. /\ summary'.candidateRunId = summary.candidateRunId
        /\ summary'.activeExecutionId = summary.activeExecutionId
        /\ summary'.transitionCount = summary.transitionCount
        /\ summary'.currentStage \in {"none", "repair"}
        /\ summary.currentStage = "approval"
    BY <1>1, <2>1 DEF DecisionAllowed, ProjectDecision, Projection
  <2>3. EndedStarts' = EndedStarts
    BY <2>2 DEF EndedStarts
  <2>4. summary'.activeExecutionId # 0 => summary'.activeExecutionId = summary'.transitionCount
    BY <2>2 DEF Sources
  <2>5. QED BY <1>1, <1>3, <1>9, <2>2, <2>3, <2>4
<1>10. CASE e.type = "WorkflowCompleted"
  <2>1. summary' = ProjectCompletion(summary, e)
    BY <1>10 DEF EventAllowed, ProjectEvent
  <2>2. /\ summary'.candidateRunId = summary.candidateRunId
        /\ summary'.activeExecutionId = summary.activeExecutionId
        /\ summary'.transitionCount = summary.transitionCount
        /\ summary'.currentStage = "none"
        /\ summary'.approvalDecision = summary.approvalDecision
    BY <1>1, <2>1 DEF ProjectCompletion, Projection
  <2>3. EndedStarts' = EndedStarts
    BY <2>2 DEF EndedStarts
  <2>4. summary'.activeExecutionId # 0 => summary'.activeExecutionId = summary'.transitionCount
    BY <2>2 DEF Sources
  <2>5. QED BY <1>1, <1>3, <1>10, <2>2, <2>3, <2>4
<1>11. QED BY <1>4, <1>5, <1>6, <1>7, <1>8, <1>9, <1>10 DEF EventAllowed

(***************************************************************************)
(* An event that the journal allows keeps the bounds.                      *)
(***************************************************************************)
EventTypes == {"WorkflowDependencyStateChanged", "WorkflowStageStarted",
    "WorkflowStageInterrupted", "WorkflowStageCompleted", "WorkflowApprovalRequested",
    "WorkflowApprovalDecided", "WorkflowCompleted"}

LEMMA OccurrencesExtended ==
    ASSUME TypeInv, NEW e \in WorkflowEvent, events' = events \o <<e>>
    PROVE  \A type : /\ Occurrences(type) \in Nat
                     /\ e.type # type => Occurrences(type)' = Occurrences(type)
                     /\ e.type = type => Occurrences(type)' = Occurrences(type) + 1
<1> SUFFICES ASSUME NEW type
             PROVE  /\ Occurrences(type) \in Nat
                    /\ e.type # type => Occurrences(type)' = Occurrences(type)
                    /\ e.type = type => Occurrences(type)' = Occurrences(type) + 1
  OBVIOUS
<1>1. events \in Seq(WorkflowEvent)
  BY DEF TypeInv, TypeOK
<1>2. Count(events, EventsOf(type)) \in Nat
  BY <1>1, EntriesFinite
<1>3. Count(events \o <<e>>, EventsOf(type))
        = Count(events, EventsOf(type)) + (IF e \in EventsOf(type) THEN 1 ELSE 0)
  BY <1>1, CountExtended
<1>4. e \in EventsOf(type) <=> e.type = type
  BY DEF EventsOf
<1>5. QED BY <1>2, <1>3, <1>4 DEF Occurrences

LEMMA BoundsExtended ==
    ASSUME TypeInv, Trail, Counts, Shape, Budgets, Bounds,
           summary.transitionCount > 0 => AllDone,
           NEW e \in WorkflowEvent, EventAllowed(definition, summary, e),
           e.type = "WorkflowStageStarted" => AllDone,
           e.type = "WorkflowDependencyStateChanged" =>
              IF e.state = "waiting"
              THEN Occurrences("WorkflowDependencyStateChanged") = 0 ELSE AllDone,
           dependency' = dependency, events' = events \o <<e>>,
           summary' = ProjectEvent(summary, e)
    PROVE  Bounds'
<1> DEFINE dep  == Occurrences("WorkflowDependencyStateChanged")
           sta  == Occurrences("WorkflowStageStarted")
           int  == Occurrences("WorkflowStageInterrupted")
           ends == Occurrences("WorkflowStageCompleted")
           req  == Occurrences("WorkflowApprovalRequested")
           dec  == Occurrences("WorkflowApprovalDecided")
           done == Occurrences("WorkflowCompleted")
           repairs == summary.repairAttemptCount
           stage   == summary.currentStage
<1>1. /\ summary \in Projection /\ ~Terminal(summary) /\ repairs \in Nat
      /\ events \in Seq(WorkflowEvent) /\ Len(events) \in Nat
      /\ summary.approvalRequested \in BOOLEAN
  BY DEF TypeInv, TypeOK, EventAllowed, Projection
<1>2. Len(events') = Len(events) + 1
  BY <1>1, Extended
<1>3. /\ dep \in Nat /\ sta \in Nat /\ int \in Nat /\ ends \in Nat
      /\ req \in Nat /\ dec \in Nat /\ done \in Nat
  BY OccurrencesExtended
<1>4. /\ dep'  = dep  + (IF e.type = "WorkflowDependencyStateChanged" THEN 1 ELSE 0)
      /\ sta'  = sta  + (IF e.type = "WorkflowStageStarted" THEN 1 ELSE 0)
      /\ int'  = int  + (IF e.type = "WorkflowStageInterrupted" THEN 1 ELSE 0)
      /\ ends' = ends + (IF e.type = "WorkflowStageCompleted" THEN 1 ELSE 0)
      /\ req'  = req  + (IF e.type = "WorkflowApprovalRequested" THEN 1 ELSE 0)
      /\ dec'  = dec  + (IF e.type = "WorkflowApprovalDecided" THEN 1 ELSE 0)
      /\ done' = done + (IF e.type = "WorkflowCompleted" THEN 1 ELSE 0)
  BY OccurrencesExtended
<1>5. AllDone' <=> AllDone
  BY DEF AllDone
<1>6. /\ Len(events) = 1 + dep + sta + int + ends + req + dec + done
      /\ dep <= 2
      /\ summary.status = "waiting_for_dependency" => dep <= 1
      /\ dep > 0 => summary.status = "waiting_for_dependency" \/ AllDone
      /\ dec <= repairs + (IF stage \in {"repair", "none"} THEN 1 ELSE 0)
      /\ req <= repairs + 1
      /\ req = dec + (IF summary.approvalRequested THEN 1 ELSE 0)
      /\ done = 0
  BY <1>1, <1>3 DEF Bounds
<1>7. Bounds' <=>
         /\ Len(events') = 1 + dep' + sta' + int' + ends' + req' + dec' + done'
         /\ dep' <= 2
         /\ summary'.status = "waiting_for_dependency" => dep' <= 1
         /\ dep' > 0 => summary'.status = "waiting_for_dependency" \/ AllDone
                        \/ Terminal(summary')
         /\ dec' <= repairs' + (IF stage' \in {"repair", "none"} THEN 1 ELSE 0)
         /\ req' <= repairs' + 1
         /\ ~Terminal(summary') => req' = dec' + (IF summary'.approvalRequested THEN 1 ELSE 0)
         /\ done' <= (IF Terminal(summary') THEN 1 ELSE 0)
  BY <1>5 DEF Bounds
<1> HIDE DEF dep, sta, int, ends, req, dec, done
<1>8. e.type \in EventTypes
  BY DEF EventAllowed, EventTypes
<1>9. Len(events') = 1 + dep' + sta' + int' + ends' + req' + dec' + done'
  <2>1. CASE e.type = "WorkflowDependencyStateChanged" BY <1>1, <1>2, <1>3, <1>4, <1>6, <2>1
  <2>2. CASE e.type = "WorkflowStageStarted" BY <1>1, <1>2, <1>3, <1>4, <1>6, <2>2
  <2>3. CASE e.type = "WorkflowStageInterrupted" BY <1>1, <1>2, <1>3, <1>4, <1>6, <2>3
  <2>4. CASE e.type = "WorkflowStageCompleted" BY <1>1, <1>2, <1>3, <1>4, <1>6, <2>4
  <2>5. CASE e.type = "WorkflowApprovalRequested" BY <1>1, <1>2, <1>3, <1>4, <1>6, <2>5
  <2>6. CASE e.type = "WorkflowApprovalDecided" BY <1>1, <1>2, <1>3, <1>4, <1>6, <2>6
  <2>7. CASE e.type = "WorkflowCompleted" BY <1>1, <1>2, <1>3, <1>4, <1>6, <2>7
  <2>8. QED BY <1>8, <2>1, <2>2, <2>3, <2>4, <2>5, <2>6, <2>7 DEF EventTypes
<1>10. summary.activeExecutionId # 0 \/ stage = "approval" => AllDone
  BY <1>1 DEF Counts, TypeInv
<1>11. CASE e.type = "WorkflowDependencyStateChanged"
  <2>1. /\ summary' = ProjectDependency(summary, e) /\ DependencyAllowed(definition, summary, e)
        /\ e.state \in {"waiting", "ready"}
    BY <1>11 DEF EventAllowed, ProjectEvent, WorkflowEvent, CreatedEvent
  <2>2. /\ repairs' = repairs /\ stage' = stage
        /\ summary'.approvalRequested = summary.approvalRequested
        /\ summary'.status = IF e.state = "waiting" THEN "waiting_for_dependency" ELSE "pending"
    BY <1>1, <2>1 DEF ProjectDependency, Projection
  <2>3. ~Terminal(summary')
    BY <2>2 DEF Terminal, TerminalStatuses
  <2>4. /\ e.state = "waiting" => dep = 0
        /\ e.state = "ready" => dep <= 1 /\ AllDone
    BY <1>6, <1>11, <2>1 DEF DependencyAllowed, dep
  <2>5. /\ dep' <= 2
        /\ summary'.status = "waiting_for_dependency" => dep' <= 1
        /\ summary'.status = "waiting_for_dependency" \/ AllDone
    BY <1>3, <1>4, <1>11, <2>1, <2>2, <2>4
  <2>6. dec' = dec /\ req' = req /\ done' = done
    BY <1>3, <1>4, <1>11
  <2>7. QED BY <1>6, <1>7, <1>9, <2>2, <2>3, <2>5, <2>6
(* An event about a stage.                                                 *)
<1>12. ASSUME AllDone, dep' = dep, dec' = dec, req' = req, done' = done,
              stage \notin {"repair", "none"} \/ repairs' = repairs + 1
                \/ (stage' = stage /\ repairs' = repairs),
              repairs' \in Nat, repairs <= repairs',
              summary'.status \in {"running", "pending"},
              summary'.approvalRequested = summary.approvalRequested
       PROVE  Bounds'
  <2>1. ~Terminal(summary') /\ summary'.status # "waiting_for_dependency"
    BY <1>12 DEF Terminal, TerminalStatuses
  <2>2. dec <= repairs' + (IF stage' \in {"repair", "none"} THEN 1 ELSE 0)
    BY <1>1, <1>3, <1>6, <1>12
  <2>3. req <= repairs' + 1
    BY <1>1, <1>3, <1>6, <1>12
  <2>4. QED BY <1>6, <1>7, <1>9, <1>12, <2>1, <2>2, <2>3
<1>13. CASE e.type = "WorkflowStageStarted"
  <2>1. summary' = ProjectStart(summary, e)
    BY <1>13 DEF EventAllowed, ProjectEvent
  <2>2. /\ repairs' = repairs /\ stage' = stage
        /\ summary'.approvalRequested = summary.approvalRequested
        /\ summary'.status = "running"
    BY <1>1, <2>1 DEF ProjectStart, Projection
  <2>3. dep' = dep /\ dec' = dec /\ req' = req /\ done' = done
    BY <1>3, <1>4, <1>13
  <2>4. QED BY <1>1, <1>12, <1>13, <2>2, <2>3
<1>14. CASE e.type = "WorkflowStageInterrupted"
  <2>1. summary' = ProjectInterrupt(summary, e) /\ summary.activeExecutionId # 0
    BY <1>14 DEF EventAllowed, ProjectEvent, InterruptAllowed
  <2>2. /\ repairs' = repairs /\ stage' = stage
        /\ summary'.approvalRequested = summary.approvalRequested
        /\ summary'.status = "pending"
    BY <1>1, <2>1 DEF ProjectInterrupt, Projection
  <2>3. dep' = dep /\ dec' = dec /\ req' = req /\ done' = done
    BY <1>3, <1>4, <1>14
  <2>4. QED BY <1>1, <1>10, <1>12, <2>1, <2>2, <2>3
<1>15. CASE e.type = "WorkflowStageCompleted"
  <2>1. /\ summary' = ProjectStageCompletion(summary, e) /\ summary.activeExecutionId # 0
        /\ e.stage \in WorkerStages /\ stage = e.stage
    BY <1>15 DEF EventAllowed, ProjectEvent, StageCompletionAllowed, WorkflowEvent, CreatedEvent
  <2>2. /\ repairs' = repairs + (IF e.stage = "repair" THEN 1 ELSE 0)
        /\ summary'.approvalRequested = summary.approvalRequested
        /\ summary'.status = "pending"
    BY <1>1, <2>1 DEF ProjectStageCompletion, Projection
  <2>3. dep' = dep /\ dec' = dec /\ req' = req /\ done' = done
    BY <1>3, <1>4, <1>15
  <2>4. stage \notin {"repair", "none"} \/ repairs' = repairs + 1
    BY <2>1, <2>2 DEF WorkerStages
  <2>5. repairs' \in Nat /\ repairs <= repairs'
    BY <1>1, <2>2
  <2>6. QED BY <1>10, <1>12, <2>1, <2>2, <2>3, <2>4, <2>5
<1>16. CASE e.type = "WorkflowApprovalRequested"
  <2>1. summary' = ProjectRequest(summary, e) /\ RequestAllowed(definition, summary, e)
    BY <1>16 DEF EventAllowed, ProjectEvent
  <2>2. /\ repairs' = repairs /\ stage' = stage /\ stage = "approval"
        /\ ~summary.approvalRequested /\ summary'.approvalRequested
        /\ summary'.status = "waiting_for_approval"
    BY <1>1, <2>1 DEF RequestAllowed, ProjectRequest, Projection
  <2>3. dep' = dep /\ dec' = dec /\ req' = req + 1 /\ done' = done
    BY <1>3, <1>4, <1>16
  <2>4. ~Terminal(summary') /\ AllDone
    BY <1>10, <2>2 DEF Terminal, TerminalStatuses
  <2>5. /\ dec <= repairs /\ req' <= repairs + 1
        /\ req' = dec + (IF summary'.approvalRequested THEN 1 ELSE 0)
        /\ dec' <= repairs' + (IF stage' \in {"repair", "none"} THEN 1 ELSE 0)
    BY <1>1, <1>3, <1>6, <2>2, <2>3
  <2>6. QED BY <1>6, <1>7, <1>9, <2>2, <2>3, <2>4, <2>5
<1>17. CASE e.type = "WorkflowApprovalDecided"
  <2>1. summary' = ProjectDecision(summary, e) /\ DecisionAllowed(definition, summary, e)
        /\ e.decision \in {"approved", "rejected"}
    BY <1>17 DEF EventAllowed, ProjectEvent, WorkflowEvent, CreatedEvent
  <2>2. /\ repairs' = repairs /\ stage = "approval" /\ stage' \in {"repair", "none"}
        /\ summary.approvalRequested /\ ~summary'.approvalRequested
        /\ summary'.status = "pending"
    BY <1>1, <2>1 DEF DecisionAllowed, ProjectDecision, Projection
  <2>3. dep' = dep /\ dec' = dec + 1 /\ req' = req /\ done' = done
    BY <1>3, <1>4, <1>17
  <2>4. ~Terminal(summary') /\ AllDone
    BY <1>10, <2>2 DEF Terminal, TerminalStatuses
  <2>5. /\ dec' <= repairs' + (IF stage' \in {"repair", "none"} THEN 1 ELSE 0)
        /\ req' <= repairs' + 1
        /\ req' = dec' + (IF summary'.approvalRequested THEN 1 ELSE 0)
    BY <1>1, <1>3, <1>6, <2>2, <2>3
  <2>6. QED BY <1>6, <1>7, <1>9, <2>2, <2>3, <2>4, <2>5
<1>18. CASE e.type = "WorkflowCompleted"
  <2>1. summary' = ProjectCompletion(summary, e) /\ e.status \in TerminalStatuses
    BY <1>18 DEF EventAllowed, ProjectEvent, WorkflowEvent, CreatedEvent
  <2>2. repairs' = repairs /\ stage' = "none" /\ summary'.status \in TerminalStatuses
    BY <1>1, <2>1 DEF ProjectCompletion, Projection
  <2>3. dep' = dep /\ dec' = dec /\ req' = req /\ done' = done + 1
    BY <1>3, <1>4, <1>18
  <2>4. Terminal(summary') /\ summary'.status # "waiting_for_dependency"
    BY <2>2 DEF Terminal, TerminalStatuses
  <2>5. /\ dec' <= repairs' + (IF stage' \in {"repair", "none"} THEN 1 ELSE 0)
        /\ req' <= repairs' + 1 /\ done' <= 1
    BY <1>1, <1>3, <1>6, <2>2, <2>3
  <2>6. QED BY <1>6, <1>7, <1>9, <2>2, <2>3, <2>4, <2>5
<1>19. QED BY <1>8, <1>11, <1>13, <1>14, <1>15, <1>16, <1>17, <1>18 DEF EventTypes

(***************************************************************************)
(* Steps of the lease holder that leave the journal alone.                 *)
(***************************************************************************)
LEMMA PlacedAs ==
    ASSUME UNCHANGED <<journal, dependency>>, NEW c \in Calls, NEW k,
           calls'[c] = k, Placed(k)
    PROVE  Placed(calls[c])'
BY DEF Placed, PointOK, AskOK, Open, Undecided, Settled, LastEvent, Occurrences, Count,
       Entries, AllDone, journal

LEMMA WentPlaced ==
    ASSUME CallsOK, UNCHANGED <<journal, dependency>>, NEW c \in Calls, NEW pc, Goto(c, pc),
           calls[c].result = "none", PointOK([calls[c] EXCEPT !.pc = pc])
    PROVE  Placed(calls[c])'
<1> DEFINE k == [calls[c] EXCEPT !.pc = pc]
<1>1. calls'[c] = k /\ k.result = "none"
  BY DEF Goto, CallsOK, Call
<1>2. Placed(k)
  BY <1>1 DEF Placed
<1>3. QED BY <1>1, <1>2, PlacedAs

LEMMA FinishedPlaced ==
    ASSUME CallsOK, UNCHANGED <<journal, dependency>>, NEW c \in Calls, NEW result,
           Finish(c, result),
           calls[c].op = "run" => TestsMayRevert \/ (result # "error" /\ Settled)
    PROVE  Placed(calls[c])'
<1> DEFINE k == [calls[c] EXCEPT !.pc = "release", !.result = result]
<1>1. calls'[c] = k /\ k.pc = "release" /\ k.result = result /\ k.op = calls[c].op
  BY DEF Finish, CallsOK, Call
<1>2. Placed(k)
  BY <1>1 DEF Placed, PointOK, OpenPoints, LeasePoints
<1>3. QED BY <1>1, <1>2, PlacedAs

LEMMA PublishedPlaced ==
    ASSUME CallsOK, UNCHANGED <<journal, dependency>>, NEW c \in Calls,
           NEW e, NEW guard, NEW next, Publish(c, e, guard, next),
           calls[c].result = "none", AskOK(calls[c].op, e, guard, next)
    PROVE  Placed(calls[c])'
<1> DEFINE k == [calls[c] EXCEPT !.pc = "append", !.event = e, !.guard = guard, !.next = next]
<1>1. /\ calls'[c] = k /\ k.pc = "append" /\ k.event = e /\ k.guard = guard /\ k.next = next
      /\ k.op = calls[c].op /\ k.result = "none"
  BY DEF Publish, CallsOK, Call
<1> HIDE DEF k
<1>2. Placed(k)
  BY <1>1 DEF Placed, PointOK, OpenPoints
<1>3. QED BY <1>1, <1>2, PlacedAs

(* The end of an open workflow may always be asked for, a success only     *)
(* after an approval.                                                      *)
EndOK(status, code) ==
    /\ Open
    /\ (status = "completed") <=> (code = "none")
    /\ status = "completed" => /\ ~summary.approvalRequested
                               /\ summary.approvalDecision = "approved"
                               /\ summary.candidateRunId # 0

LEMMA EndAsked ==
    ASSUME NEW op, NEW guard, NEW status, NEW code, EndOK(status, code),
           guard = "plain" => status \in {"cancelled", "timed_out"}
    PROVE  AskOK(op, CompletedEvent(status, code, summary.candidateRunId), guard, "release")
BY DEF EndOK, AskOK, Unsignalled, CompletedEvent, EventAllowed, CompletionAllowed, Open, Sequel

LEMMA CompletedPlaced ==
    ASSUME CallsOK, UNCHANGED <<journal, dependency>>, NEW c \in Calls,
           calls[c].result = "none", Open
    PROVE  /\ \A status \in {"cancelled", "timed_out"} : \A code :
                 Complete(c, status, code) /\ EndOK(status, code) => Placed(calls[c])'
           /\ CompleteInterrupted(c) => Placed(calls[c])'
           /\ \A e, next : PublishBeforeDeadline(c, e, next)
                           /\ AskOK(calls[c].op, e, "deadline", next) => Placed(calls[c])'
           /\ \A status, code : CompleteBeforeDeadline(c, status, code) /\ EndOK(status, code)
                                  => Placed(calls[c])'
<1>1. ASSUME NEW status \in {"cancelled", "timed_out"}, NEW code,
             Complete(c, status, code), EndOK(status, code)
      PROVE  Placed(calls[c])'
  BY <1>1, EndAsked, PublishedPlaced DEF Complete
<1>2. CompleteInterrupted(c) => Placed(calls[c])'
  BY <1>1 DEF CompleteInterrupted, EndOK
<1>3. ASSUME NEW e, NEW next, PublishBeforeDeadline(c, e, next),
             AskOK(calls[c].op, e, "deadline", next)
      PROVE  Placed(calls[c])'
  BY <1>2, <1>3, PublishedPlaced DEF PublishBeforeDeadline
<1>4. ASSUME NEW status, NEW code, CompleteBeforeDeadline(c, status, code), EndOK(status, code)
      PROVE  Placed(calls[c])'
  BY <1>3, <1>4, EndAsked DEF CompleteBeforeDeadline
<1>5. QED BY <1>1, <1>2, <1>3, <1>4

LEMMA AfterStagePlaced ==
    ASSUME CallsOK, UNCHANGED <<journal, dependency>>, NEW c \in Calls,
           calls[c].result = "none", Open, NEW e, e.status \in RunStatuses \ {"completed"},
           e.failureCode # "none", CompleteAfterStage(c, e)
    PROVE  Placed(calls[c])'
<1>1. TerminalStatus(e.status) # "completed"
  BY DEF TerminalStatus, RunStatuses
<1>2. EndOK(TerminalStatus(e.status), e.failureCode)
  BY <1>1 DEF EndOK
<1>3. QED BY <1>2, CompletedPlaced DEF CompleteAfterStage

LEMMA InterruptPlaced ==
    ASSUME CallsOK, UNCHANGED <<journal, dependency>>, NEW c \in Calls,
           calls[c].result = "none", ~Terminal(summary), summary.activeExecutionId # 0,
           NEW reason, NEW next \in {"recover", "finalize", "load"},
           InterruptActive(c, reason, next)
    PROVE  Placed(calls[c])'
<1> DEFINE e == InterruptedEvent(summary.currentStage, summary.activeExecutionId, reason)
<1>1. AskOK(calls[c].op, e, "plain", next)
  BY DEF AskOK, Unsignalled, InterruptedEvent, EventAllowed, InterruptAllowed, Sequel
<1>2. QED BY <1>1, PublishedPlaced DEF InterruptActive

(* What holds for a call at a point under the lease.                       *)
LEMMA PlacedFacts ==
    ASSUME JournalInv, NEW c \in Calls
    PROVE  /\ CallsOK /\ calls[c] \in Call /\ CallOK(calls[c]) /\ PointOK(calls[c])
           /\ TypeInv /\ Trail /\ Counts /\ Budgets /\ Shape /\ Sources /\ Bounds
           /\ summary \in Projection
           /\ calls[c].pc \in LeasePoints \ {"release"} => calls[c].result = "none"
           /\ summary.transitionCount > 0 => AllDone
BY DEF JournalInv, OrderInv, SafeInv, LeaseInv, TypeInv, TypeOK, CallsOK, Placed

LEMMA AppendFailedPlaced ==
    ASSUME JournalInv, NEW c \in Calls, AppendRejected(c) \/ AppendInterrupted(c)
    PROVE  Placed(calls[c])'
<1>1. /\ CallsOK /\ calls[c] \in Call /\ CallOK(calls[c]) /\ calls[c].pc = "append"
      /\ calls[c].result = "none" /\ UNCHANGED <<journal, dependency>>
      /\ AskOK(calls[c].op, calls[c].event, calls[c].guard, calls[c].next)
  BY PlacedFacts DEF AppendRejected, AppendInterrupted, At, PointOK, LeasePoints
<1>2. ASSUME NEW reason,
             calls' = [calls EXCEPT ![c].pc = "finalize", ![c].reason = reason]
      PROVE  Placed(calls[c])'
  <2> DEFINE k == [calls[c] EXCEPT !.pc = "finalize", !.reason = reason]
  <2>1. calls'[c] = k /\ k.pc = "finalize" /\ k.result = "none"
    BY <1>1, <1>2 DEF CallsOK, Call
  <2>2. Placed(k)
    BY <2>1 DEF Placed, PointOK, OpenPoints
  <2>3. QED BY <1>1, <2>1, <2>2, PlacedAs
<1>3. CASE AppendRejected(c)
  <2>1. TestsMayRevert
    BY <1>1, <1>3, OutcomeAssumption DEF AppendRejected, AskOK
  <2>2. QED BY <1>1, <1>2, <1>3, <2>1, FinishedPlaced DEF AppendRejected
<1>4. CASE AppendInterrupted(c)
  <2>1. calls[c].guard = "deadline" => Open
    BY <1>1 DEF AskOK
  <2>2. QED BY <1>1, <1>2, <1>4, <2>1, CompletedPlaced DEF AppendInterrupted
<1>5. QED BY <1>3, <1>4

LEMMA LoadPlaced ==
    ASSUME JournalInv, NEW c \in Calls,
           Finalize(c) \/ Load(c) \/ LoadCancel(c) \/ LoadDecision(c)
    PROVE  Placed(calls[c])'
<1>1. /\ CallsOK /\ calls[c] \in Call /\ calls[c].pc \in {"finalize", "load"}
      /\ calls[c].result = "none" /\ UNCHANGED <<journal, dependency>>
  BY PlacedFacts DEF Finalize, Load, LoadCancel, LoadDecision, At, LeasePoints
<1>2. ~Terminal(summary) /\ summary.activeExecutionId = 0 => Open
  BY DEF Open
<1>3. /\ EndOK("cancelled", "WORKFLOW_CANCELLED") <=> Open
      /\ EndOK("timed_out", "WORKFLOW_DEADLINE_EXCEEDED") <=> Open
  BY DEF EndOK
<1>4. Terminal(summary) => Settled
  BY DEF Settled
<1>5. CASE Finalize(c)
  BY <1>1, <1>2, <1>3, <1>4, <1>5, FinishedPlaced, InterruptPlaced, CompletedPlaced DEF Finalize
<1>6. CASE Load(c)
  <2>1. ASSUME Goto(c, "recover"), Open
        PROVE  Placed(calls[c])'
    <3>1. PointOK([calls[c] EXCEPT !.pc = "recover"])
      BY <1>1, <2>1 DEF PointOK, Call, OpenPoints
    <3>2. QED BY <1>1, <2>1, <3>1, WentPlaced
  <2>2. QED BY <1>1, <1>2, <1>4, <1>6, <2>1, FinishedPlaced, InterruptPlaced DEF Load
<1>7. CASE LoadCancel(c)
  BY <1>1, <1>2, <1>3, <1>4, <1>7, FinishedPlaced, InterruptPlaced, CompletedPlaced DEF LoadCancel
<1>8. CASE LoadDecision(c)
  <2>1. calls[c].op # "run"
    BY <1>8 DEF LoadDecision, Deciding
  <2>2. ASSUME summary.status = "waiting_for_approval"
        PROVE  Open
    BY <2>2, PlacedFacts DEF Open, Shape, Trail, Terminal, TerminalStatuses
  <2>3. ASSUME Goto(c, "validate"), summary.status = "waiting_for_approval"
        PROVE  Placed(calls[c])'
    <3>1. PointOK([calls[c] EXCEPT !.pc = "validate"])
      BY <1>1, <2>1, <2>2, <2>3 DEF PointOK, Call, OpenPoints
    <3>2. QED BY <1>1, <2>3, <3>1, WentPlaced
  <2>4. QED BY <1>1, <1>8, <2>1, <2>2, <2>3, FinishedPlaced, CompletedPlaced DEF LoadDecision
<1>9. QED BY <1>5, <1>6, <1>7, <1>8

LEMMA RecoverPlaced ==
    ASSUME JournalInv, NEW c \in Calls, Recover(c)
    PROVE  Placed(calls[c])'
<1>1. /\ CallsOK /\ calls[c] \in Call /\ calls[c].pc = "recover" /\ calls[c].op = "run"
      /\ calls[c].result = "none" /\ UNCHANGED <<journal, dependency>>
      /\ Open /\ Shape /\ Trail /\ TypeInv
  BY PlacedFacts
     DEF Recover, At, LeasePoints, PointOK, OpenPoints, CallOK, WellPlaced, RunPoints
<1>2. /\ EndOK("cancelled", "WORKFLOW_CANCELLED")
      /\ EndOK("timed_out", "WORKFLOW_DEADLINE_EXCEEDED")
      /\ EndOK("failed", "WORKFLOW_APPROVAL_REJECTED")
  BY <1>1 DEF EndOK
<1>3. ASSUME Goto(c, "validate"), LastEvent.type = "WorkflowApprovalDecided",
             LastEvent.decision = "approved"
      PROVE  Placed(calls[c])'
  <2>1. PointOK([calls[c] EXCEPT !.pc = "validate"])
    BY <1>1, <1>3 DEF PointOK, Call, OpenPoints, Shape
  <2>2. QED BY <1>1, <1>3, <2>1, WentPlaced
<1>4. ASSUME LastEvent.type = "WorkflowStageCompleted", LastEvent.nextStage = "none",
             CompleteAfterStage(c, LastEvent)
      PROVE  Placed(calls[c])'
  <2>1. LastEvent.status \in RunStatuses
    BY <1>1, <1>4, LastEventTyped DEF WorkflowEvent, CreatedEvent
  <2>2. LastEvent.status # "completed" /\ LastEvent.failureCode # "none"
    BY <1>1, <1>4 DEF Shape
  <2>3. QED BY <1>1, <1>4, <2>1, <2>2, AfterStagePlaced
<1>5. ASSUME Goto(c, "dependencies"),
             ~(LastEvent.type = "WorkflowApprovalDecided" /\ LastEvent.nextStage = "none"),
             ~(LastEvent.type = "WorkflowStageCompleted" /\ LastEvent.nextStage = "none")
      PROVE  Placed(calls[c])'
  <2>1. summary.currentStage # "none"
    BY <1>1, <1>5 DEF Shape, Open
  <2>2. PointOK([calls[c] EXCEPT !.pc = "dependencies"])
    BY <1>1, <2>1 DEF PointOK, Call, OpenPoints
  <2>3. QED BY <1>1, <1>5, <2>2, WentPlaced
<1>6. QED BY <1>1, <1>2, <1>3, <1>4, <1>5, CompletedPlaced DEF Recover

LEMMA CheckPlaced ==
    ASSUME JournalInv, NEW c \in Calls, CheckDependencies(c)
    PROVE  Placed(calls[c])'
<1>1. /\ CallsOK /\ calls[c] \in Call /\ calls[c].pc = "dependencies" /\ calls[c].op = "run"
      /\ calls[c].result = "none" /\ UNCHANGED <<journal, dependency>>
      /\ Open /\ Shape /\ Trail /\ Counts /\ Bounds /\ TypeInv /\ summary \in Projection
      /\ summary.currentStage # "none"
      /\ summary.transitionCount > 0 => AllDone
  BY PlacedFacts
     DEF CheckDependencies, At, LeasePoints, PointOK, OpenPoints, CallOK, WellPlaced, RunPoints
<1>2. /\ DependencyState = "ready" => AllDone
      /\ DependencyState = "waiting" => ~AllDone
      /\ DependencyState \in {"waiting", "failed", "ready"}
  BY DEF DependencyState, AllDone
<1>3. EndOK("blocked", "WORKFLOW_DEPENDENCY_FAILED")
  BY <1>1 DEF EndOK
<1>4. ASSUME Goto(c, "waited"), summary.status = "waiting_for_dependency"
      PROVE  Placed(calls[c])'
  <2>1. PointOK([calls[c] EXCEPT !.pc = "waited"])
    BY <1>1, <1>4 DEF PointOK, Call, OpenPoints
  <2>2. QED BY <1>1, <1>4, <2>1, WentPlaced
<1>5. ASSUME Goto(c, "loop")
      PROVE  Placed(calls[c])'
  <2>1. PointOK([calls[c] EXCEPT !.pc = "loop"])
    BY <1>1 DEF PointOK, Call, OpenPoints
  <2>2. QED BY <1>1, <1>5, <2>1, WentPlaced
<1>6. ASSUME ~AllDone, summary.status # "waiting_for_dependency",
             Publish(c, DependencyEvent("waiting"), "plain", "waited")
      PROVE  Placed(calls[c])'
  <2>1. definition.dependencies > 0
    <3>1. /\ dependency \in [1..definition.dependencies -> {"active", "completed", "failed"}]
          /\ definition.dependencies \in Nat
      BY <1>1, DefinitionTyped DEF TypeInv, TypeOK
    <3>2. PICK i \in 1..definition.dependencies : TRUE
      BY <1>6, <3>1 DEF AllDone
    <3>3. QED BY <3>1, <3>2
  <2>2. ~summary.approvalRequested
    <3>1. summary.currentStage # "approval"
      BY <1>1, <1>6 DEF Counts
    <3>2. QED BY <1>1, <3>1 DEF Trail, Open
  <2>3. summary.status = "pending"
    BY <1>1, <1>6, <2>2
       DEF Shape, Open, Terminal, TerminalStatuses, Projection, WorkflowStatuses
  <2>4. Occurrences("WorkflowDependencyStateChanged") = 0
    <3>1. Occurrences("WorkflowDependencyStateChanged") \in Nat
      BY <1>1, EntriesFinite DEF Occurrences, TypeInv, TypeOK
    <3>2. QED BY <1>1, <1>6, <3>1 DEF Bounds, Open
  <2>5. AskOK(calls[c].op, DependencyEvent("waiting"), "plain", "waited")
    BY <1>1, <2>1, <2>2, <2>3, <2>4
       DEF AskOK, Unsignalled, DependencyEvent, EventAllowed, DependencyAllowed, Open, Sequel
  <2>6. QED BY <1>1, <1>6, <2>5, PublishedPlaced
<1>7. ASSUME AllDone, summary.status = "waiting_for_dependency",
             Publish(c, DependencyEvent("ready"), "plain", "loop")
      PROVE  Placed(calls[c])'
  <2>1. AskOK(calls[c].op, DependencyEvent("ready"), "plain", "loop")
    BY <1>1, <1>7
       DEF AskOK, Unsignalled, DependencyEvent, EventAllowed, DependencyAllowed, Open, Sequel, Shape
  <2>2. QED BY <1>1, <1>7, <2>1, PublishedPlaced
<1>8. QED BY <1>1, <1>2, <1>3, <1>4, <1>5, <1>6, <1>7, CompletedPlaced DEF CheckDependencies

LEMMA LoopPlaced ==
    ASSUME JournalInv, NEW c \in Calls, Waited(c) \/ HeadOfLoop(c) \/ StageSettled(c)
    PROVE  Placed(calls[c])'
<1>1. /\ CallsOK /\ calls[c] \in Call /\ calls[c].op = "run" /\ CallOK(calls[c])
      /\ calls[c].pc \in {"waited", "requested", "loop", "settled"}
      /\ calls[c].result = "none" /\ UNCHANGED <<journal, dependency>>
      /\ PointOK(calls[c]) /\ Open /\ Shape /\ Trail /\ TypeInv
  BY PlacedFacts
     DEF Waited, HeadOfLoop, StageSettled, At, LeasePoints, PointOK, OpenPoints, CallOK,
         WellPlaced, RunPoints
<1>2. CASE Waited(c)
  <2>1. Settled
    BY <1>1, <1>2 DEF Waited, PointOK, Settled
  <2>2. QED BY <1>1, <1>2, <2>1, FinishedPlaced, CompletedPlaced DEF Waited
<1>3. CASE HeadOfLoop(c)
  <2>1. calls[c].pc = "loop" /\ summary.currentStage # "none"
    BY <1>1, <1>3 DEF HeadOfLoop, At, PointOK
  <2>2. ASSUME Goto(c, "requested"), summary.status = "waiting_for_approval"
        PROVE  Placed(calls[c])'
    <3>1. PointOK([calls[c] EXCEPT !.pc = "requested"])
      BY <1>1, <2>2 DEF PointOK, Call, OpenPoints
    <3>2. QED BY <1>1, <2>2, <3>1, WentPlaced
  <2>3. ASSUME Goto(c, "validate"), summary.status # "waiting_for_approval",
               summary.currentStage \notin WorkerStages
        PROVE  Placed(calls[c])'
    <3>1. Undecided
      BY <1>1, <2>1, <2>3, DefinitionTyped DEF Shape, Undecided
    <3>2. PointOK([calls[c] EXCEPT !.pc = "validate"])
      BY <1>1, <3>1 DEF PointOK, Call, OpenPoints
    <3>3. QED BY <1>1, <2>3, <3>2, WentPlaced
  <2>4. QED BY <1>1, <1>3, <2>1, <2>2, <2>3, CompletedPlaced DEF HeadOfLoop
<1>4. CASE StageSettled(c)
  <2>1. /\ calls[c].pc = "settled" /\ LastEvent = calls[c].event
        /\ LastEvent.type = "WorkflowStageCompleted"
    BY <1>1, <1>4 DEF StageSettled, At, PointOK, CallOK, WellPlaced
  <2>2. ASSUME LastEvent.nextStage = "none", CompleteAfterStage(c, LastEvent)
        PROVE  Placed(calls[c])'
    <3>1. LastEvent.status \in RunStatuses
      BY <1>1, <2>1, LastEventTyped DEF WorkflowEvent, CreatedEvent
    <3>2. LastEvent.status # "completed" /\ LastEvent.failureCode # "none"
      BY <1>1, <2>1, <2>2 DEF Shape
    <3>3. QED BY <1>1, <2>2, <3>1, <3>2, AfterStagePlaced
  <2>3. ASSUME LastEvent.nextStage # "none", Goto(c, "loop")
        PROVE  Placed(calls[c])'
    <3>1. summary.currentStage # "none"
      BY <1>1, <2>1, <2>3 DEF Shape
    <3>2. PointOK([calls[c] EXCEPT !.pc = "loop"])
      BY <1>1, <3>1 DEF PointOK, Call, OpenPoints
    <3>3. QED BY <1>1, <2>3, <3>2, WentPlaced
  <2>4. QED BY <1>4, <2>1, <2>2, <2>3 DEF StageSettled
<1>5. QED BY <1>2, <1>3, <1>4

LEMMA StartPlaced ==
    ASSUME JournalInv, NEW c \in Calls, StartStage(c)
    PROVE  Placed(calls[c])'
<1> DEFINE stage == summary.currentStage
           e == StartedEvent(stage, summary.transitionCount + 1,
                             summary.stageAttempts[stage] + 1, ExpectedSource(summary, stage))
<1>1. /\ CallsOK /\ calls[c].result = "none" /\ UNCHANGED <<journal, dependency>>
      /\ Open /\ Shape /\ Trail /\ TypeInv /\ summary \in Projection
      /\ stage \in WorkerStages
  BY PlacedFacts DEF StartStage, At, LeasePoints, PointOK, OpenPoints
<1>2. /\ EndOK("failed", "WORKFLOW_TRANSITION_LIMIT")
      /\ EndOK("failed", "WORKFLOW_STAGE_RETRY_LIMIT")
      /\ EndOK("blocked", "WORKFLOW_RUN_HISTORY_MISMATCH")
  BY <1>1 DEF EndOK
<1>3. ASSUME ~(summary.transitionCount >= definition.maxTransitions),
             ~(stage = "repair" /\ summary.repairAttemptCount >= definition.maxRepairAttempts)
      PROVE  AskOK(calls[c].op, e, "stage", "delegate")
  <2>1. /\ summary.transitionCount \in Nat /\ summary.repairAttemptCount \in Nat
        /\ definition.maxTransitions \in Nat /\ definition.maxRepairAttempts \in Nat
    BY <1>1, DefinitionTyped DEF Projection
  <2>2. /\ summary.transitionCount < definition.maxTransitions
        /\ stage = "repair" => summary.repairAttemptCount < definition.maxRepairAttempts
    BY <1>3, <2>1
  <2>3. stage \in definition.stages /\ ~summary.approvalRequested
    BY <1>1 DEF Shape, Trail, Open, WorkerStages
  <2>4. StartAllowed(definition, summary, e)
    BY <1>1, <2>1, <2>2, <2>3 DEF StartAllowed, StartedEvent, Open
  <2>5. /\ e.type = "WorkflowStageStarted" /\ e.executionId = summary.transitionCount + 1
    BY DEF StartedEvent
  <2>6. EventAllowed(definition, summary, e)
    BY <1>1, <2>4, <2>5 DEF EventAllowed, Open
  <2> HIDE DEF e
  <2>7. QED BY <2>5, <2>6 DEF AskOK, Sequel
<1>4. QED BY <1>1, <1>2, <1>3, PublishedPlaced, CompletedPlaced DEF StartStage

LEMMA ValidatePlaced ==
    ASSUME JournalInv, NEW c \in Calls, ValidateCandidate(c)
    PROVE  Placed(calls[c])'
<1>1. /\ CallsOK /\ calls[c] \in Call /\ calls[c].result = "none"
      /\ UNCHANGED <<journal, dependency>> /\ Open /\ Shape /\ Trail /\ Sources /\ TypeInv
      /\ summary \in Projection /\ calls[c].op \in {"run", "approve", "reject"}
      /\ calls[c].pc = "validate" /\ PointOK(calls[c])
  BY PlacedFacts
     DEF ValidateCandidate, At, LeasePoints, PointOK, OpenPoints, CallOK, WellPlaced,
         Call, Operations
<1>2. EndOK("blocked", "WORKFLOW_CANDIDATE_INVALID")
  BY <1>1 DEF EndOK
<1>3. calls[c].op = "run" => /\ Undecided \/ summary.approvalDecision = "approved"
                             /\ summary.candidateRunId # 0
  BY <1>1 DEF PointOK, Sources, Undecided, Open
<1>4. ASSUME calls[c].op # "run"
      PROVE  /\ summary.status = "waiting_for_approval" /\ summary.approvalRequested
             /\ summary.currentStage = "approval"
  BY <1>1, <1>4 DEF PointOK, Shape, Trail, Open
<1>5. ASSUME NEW decision \in {"approved", "rejected"}, NEW next,
             calls[c].op # "run",
             decision = "approved" => next = "none",
             decision = "rejected" => next = (IF CanRepair THEN "repair" ELSE "none")
      PROVE  AskOK(calls[c].op, DecidedEvent(decision, next), "deadline", "decided")
  <2>1. next \in {"none", "repair"} /\ (next = "repair" => CanRepair)
    BY <1>5
  <2>2. DecisionAllowed(definition, summary, DecidedEvent(decision, next))
    BY <1>4, <1>5, <2>1 DEF DecisionAllowed, DecidedEvent, CanRepair
  <2>3. QED BY <1>1, <1>5, <2>2 DEF AskOK, DecidedEvent, EventAllowed, Open, Sequel
<1>6. ASSUME calls[c].op = "run", summary.currentStage = "approval"
      PROVE  AskOK(calls[c].op, RequestedEvent(summary.candidateRunId), "deadline", "requested")
  <2>1. ~summary.approvalRequested
    BY <1>1, <1>3, <1>6 DEF Undecided, Trail, Open
  <2>2. QED BY <1>1, <1>3, <1>6, <2>1
               DEF AskOK, RequestedEvent, EventAllowed, RequestAllowed, Open, Sequel
<1>7. ASSUME calls[c].op = "run", summary.currentStage # "approval"
      PROVE  EndOK("completed", "none")
  BY <1>1, <1>3, <1>7 DEF EndOK, Undecided, Trail, Open
<1>8. UseCandidate(c) => Placed(calls[c])'
  <2>1. CASE calls[c].op = "approve"
    BY <1>1, <1>5, <2>1, CompletedPlaced DEF UseCandidate
  <2>2. CASE calls[c].op = "reject"
    BY <1>1, <1>5, <2>2, CompletedPlaced DEF UseCandidate
  <2>3. CASE calls[c].op = "run"
    BY <1>1, <1>6, <1>7, <2>3, CompletedPlaced DEF UseCandidate
  <2>4. QED BY <1>1, <2>1, <2>2, <2>3
<1>9. QED BY <1>1, <1>2, <1>3, <1>8, FinishedPlaced, CompletedPlaced DEF ValidateCandidate

LEMMA DecidedPlaced ==
    ASSUME JournalInv, NEW c \in Calls, Decided(c)
    PROVE  Placed(calls[c])'
<1>1. /\ CallsOK /\ calls[c] \in Call /\ calls[c].result = "none"
      /\ UNCHANGED <<journal, dependency>> /\ Open /\ Shape /\ Trail /\ Sources
      /\ calls[c].op # "run" /\ LastEvent = calls[c].event
      /\ calls[c].event.type = "WorkflowApprovalDecided"
  BY PlacedFacts
     DEF Decided, At, LeasePoints, PointOK, OpenPoints, CallOK, WellPlaced
<1>2. EndOK("failed", "WORKFLOW_APPROVAL_REJECTED")
  BY <1>1 DEF EndOK
<1>3. calls[c].event.decision = "approved" => EndOK("completed", "none")
  BY <1>1 DEF EndOK, Shape, Trail, Sources, Open
<1>4. QED BY <1>1, <1>2, <1>3, FinishedPlaced, CompletedPlaced DEF Decided

(* stageResult decides as the event model does: the two count the retries  *)
(* alike, and an outcome that leads on comes with the run it needs.        *)
LEMMA DelegatePlaced ==
    ASSUME JournalInv, NEW c \in Calls, Delegate(c)
    PROVE  Placed(calls[c])'
<1>1. /\ CallsOK /\ calls[c] \in Call /\ calls[c].result = "none" /\ calls[c].op = "run"
      /\ UNCHANGED <<journal, dependency>> /\ Budgets /\ TypeInv
      /\ summary \in Projection /\ calls[c].pc = "delegate" /\ OwnsOK(c)
      /\ summary.activeExecutionId # 0
      /\ calls[c].event \in WorkflowEvent /\ calls[c].event.type = "WorkflowStageStarted"
  BY PlacedFacts
     DEF Delegate, At, LeasePoints, PointOK, CallOK, WellPlaced, RunPoints, JournalInv, OrderInv,
         SafeInv, Call, NoEvent
<1>2. PICK o \in WorkerOutcomes(calls[c].event.stage, calls[c].event.sourceRunId) :
               Publish(c, StageResult(c, o), "stage", "settled")
  BY DEF Delegate
<1> DEFINE stage  == calls[c].event.stage
           exec   == calls[c].event.executionId
           status == StageStatus(c, o)
           code   == StageFailureCode(c, o)
           run    == IF o.report THEN exec ELSE 0
           prior  == summary.candidateRunId
           e      == StageResult(c, o)
           Result(s, f, candidate, nextStage) ==
               StageCompletedEvent(stage, exec, run, s, f, candidate, nextStage)
<1>3. /\ exec = summary.activeExecutionId /\ stage = summary.currentStage
      /\ stage \in WorkerStages /\ exec # 0
  BY <1>1 DEF OwnsOK, WorkflowEvent, CreatedEvent
<1>4. /\ o \in Outcome /\ (o.status = "completed" <=> o.failureCode = "none")
      /\ o.patch => o.report
      /\ ~o.report => o.status # "completed" /\ o.failureCode \notin RetryableFailures
      /\ o.failureCode \in RepairableFailures => o.status = "failed"
      /\ stage = "plan" => ~o.patch
      /\ o.status = "completed" /\ ~o.patch => stage = "plan" \/ TestsMayRevert
  <2>1. CASE o = SourceMismatch
    BY <2>1 DEF SourceMismatch, Outcome, RunStatuses, FailureCodes, RetryableFailures,
                RepairableFailures
  <2>2. CASE o \in Outcomes /\ PossibleOutcome(stage, o)
    BY <2>2, OutcomeAssumption DEF PossibleOutcome
  <2>3. QED BY <2>1, <2>2 DEF WorkerOutcomes
<1>5. /\ status \in RunStatuses /\ (status = "completed" <=> code = "none")
      /\ status = "completed" => o.status = "completed"
      /\ code \in RepairableFailures => status = "failed"
      /\ code \in RetryableFailures \cup RepairableFailures => code = o.failureCode
  BY <1>4 DEF StageStatus, StageFailureCode, Outcome, RunStatuses, RetryableFailures,
              RepairableFailures
<1>6. e = IF status = "completed" /\ stage = "plan"
          THEN Result("completed", "none", prior, "implement")
          ELSE IF status = "completed" /\ o.patch
          THEN Result("completed", "none", run, NextSuccessfulStage(definition, stage))
          ELSE IF status = "completed"
          THEN Result("failed", "WORKFLOW_CANDIDATE_MISSING", 0, "none")
          ELSE IF RetryableNow(stage, status, code) THEN Result(status, code, prior, stage)
          ELSE IF RepairableNow(stage, code, o) THEN Result(status, code, run, "repair")
          ELSE Result(status, code, prior, "none")
  BY DEF StageResult
<1>7. RetryableNow(stage, status, code) =>
         summary.retryTransitions[stage] < definition.retryLimit[stage]
  <2>1. {i \in 1..Len(events) : /\ events[i].type = "WorkflowStageCompleted"
                                /\ events[i].stage = stage
                                /\ events[i].nextStage = stage} = Entries(events, RetriesOf(stage))
    BY <1>1, EventsCounted DEF TypeInv, TypeOK, StageCompletions, Events
  <2>2. QED BY <1>1, <1>3, <2>1 DEF RetryableNow, Budgets, Count
<1> HIDE DEF e, status, code, prior
(* The fields that the events of all the cases share.                      *)
<1>8. ASSUME NEW s, NEW f, NEW candidate, NEW next, e = Result(s, f, candidate, next)
      PROVE  /\ e.type = "WorkflowStageCompleted" /\ e.stage = stage /\ e.executionId = exec
             /\ e.runId = run /\ e.status = s /\ e.failureCode = f
             /\ e.candidateRunId = candidate /\ e.nextStage = next
  BY <1>8 DEF StageCompletedEvent
<1>9. e.type = "WorkflowStageCompleted" /\ e.executionId = exec /\ e.runId \in {0, exec}
  BY <1>6, <1>8
<1>10. StageCompletionAllowed(definition, summary, e) \/ TestsMayRevert
  <2>1. CASE status = "completed" /\ stage = "plan"
    <3>1. /\ e.stage = stage /\ e.executionId = exec /\ e.runId = run
          /\ e.status = "completed" /\ e.failureCode = "none"
          /\ e.candidateRunId = prior /\ e.nextStage = "implement"
      <4>1. e = Result("completed", "none", prior, "implement")
        BY <1>6, <2>1
      <4>2. QED BY <4>1 DEF StageCompletedEvent
    <3>2. run = exec
      BY <1>4, <1>5, <2>1
    <3>3. NextStageAllowed(definition, summary, e)
      BY <2>1, <3>1 DEF NextStageAllowed, NextSuccessfulStage
    <3>4. QED BY <1>3, <2>1, <3>1, <3>2, <3>3 DEF StageCompletionAllowed, prior
  <2>2. CASE status = "completed" /\ stage # "plan" /\ o.patch
    <3>1. PICK next : next = NextSuccessfulStage(definition, stage)
      OBVIOUS
    <3>2. /\ e.stage = stage /\ e.executionId = exec /\ e.runId = run
          /\ e.status = "completed" /\ e.failureCode = "none"
          /\ e.candidateRunId = run /\ e.nextStage = next
      <4>1. e = Result("completed", "none", run, next)
        BY <1>6, <2>2, <3>1
      <4>2. QED BY <4>1 DEF StageCompletedEvent
    <3>3. run = exec
      BY <1>4, <2>2
    <3>4. NextStageAllowed(definition, summary, e)
      <4>1. e.nextStage = NextSuccessfulStage(definition, e.stage)
        BY <3>1, <3>2
      <4>2. QED BY <3>2, <4>1 DEF NextStageAllowed
    <3>5. QED BY <1>3, <2>2, <3>2, <3>3, <3>4 DEF StageCompletionAllowed
  <2>3. CASE status = "completed" /\ stage # "plan" /\ ~o.patch
    BY <1>4, <1>5, <2>3
  <2>4. CASE status # "completed" /\ RetryableNow(stage, status, code)
    <3>1. /\ e.stage = stage /\ e.executionId = exec /\ e.runId = run
          /\ e.status = status /\ e.failureCode = code
          /\ e.candidateRunId = prior /\ e.nextStage = stage
      <4>1. e = Result(status, code, prior, stage)
        BY <1>6, <2>4
      <4>2. QED BY <4>1 DEF StageCompletedEvent
    <3>2. /\ stage # "repair" /\ status \in {"failed", "blocked"}
          /\ code \in RetryableFailures
          /\ summary.retryTransitions[stage] < definition.retryLimit[stage]
      BY <1>7, <2>4 DEF RetryableNow
    <3>3. run = exec
      BY <1>4, <1>5, <3>2
    <3>4. NextStageAllowed(definition, summary, e)
      BY <3>1, <3>2 DEF NextStageAllowed
    <3>5. QED BY <1>3, <1>5, <2>4, <3>1, <3>2, <3>3, <3>4 DEF StageCompletionAllowed, prior
  <2>5. CASE /\ status # "completed" /\ ~RetryableNow(stage, status, code)
             /\ RepairableNow(stage, code, o)
    <3>1. /\ e.stage = stage /\ e.executionId = exec /\ e.runId = run
          /\ e.status = status /\ e.failureCode = code
          /\ e.candidateRunId = run /\ e.nextStage = "repair"
      <4>1. e = Result(status, code, run, "repair")
        BY <1>6, <2>5
      <4>2. QED BY <4>1 DEF StageCompletedEvent
    <3>2. /\ o.patch /\ code \in RepairableFailures /\ "repair" \in definition.stages
          /\ RepairBudgetLeft(definition, summary, stage)
      BY <2>5 DEF RepairableNow
    <3>3. run = exec /\ status = "failed" /\ stage # "plan"
      BY <1>4, <1>5, <3>2
    <3>4. NextStageAllowed(definition, summary, e)
      <4>1. RepairBudgetLeft(definition, summary, e.stage)
        BY <3>1, <3>2
      <4>2. QED BY <3>1, <3>2, <3>3, <4>1 DEF NextStageAllowed
    <3>5. QED BY <1>3, <1>5, <3>1, <3>3, <3>4 DEF StageCompletionAllowed
  <2>6. CASE /\ status # "completed" /\ ~RetryableNow(stage, status, code)
             /\ ~RepairableNow(stage, code, o)
    <3>1. /\ e.stage = stage /\ e.executionId = exec /\ e.runId = run
          /\ e.status = status /\ e.failureCode = code
          /\ e.candidateRunId = prior /\ e.nextStage = "none"
      <4>1. e = Result(status, code, prior, "none")
        BY <1>6, <2>6
      <4>2. QED BY <4>1 DEF StageCompletedEvent
    <3>2. NextStageAllowed(definition, summary, e)
      BY <1>5, <2>6, <3>1 DEF NextStageAllowed, RunStatuses
    <3>3. QED BY <1>3, <1>5, <2>6, <3>1, <3>2 DEF StageCompletionAllowed, prior, WorkerStages
  <2>7. QED BY <2>1, <2>2, <2>3, <2>4, <2>5, <2>6
<1>11. ~Terminal(summary)
  BY <1>1, PlacedFacts DEF Counts, Terminal, TerminalStatuses
<1>12. AskOK(calls[c].op, e, "stage", "settled")
  BY <1>9, <1>10, <1>11 DEF AskOK, EventAllowed, Sequel
<1>13. QED BY <1>1, <1>2, <1>12, PublishedPlaced DEF e

(***************************************************************************)
(* The inductive step.                                                     *)
(***************************************************************************)
LEMMA JournalFactsKept ==
    ASSUME JournalInv, UNCHANGED journal, AllDone => AllDone'
    PROVE  Budgets' /\ Shape' /\ Sources' /\ Bounds'
<1>1. Budgets'
  BY DEF JournalInv, Budgets, Count, Entries, journal
<1>2. Shape'
  BY DEF JournalInv, Shape, Terminal, LastEvent, journal
<1>3. Sources'
  BY DEF JournalInv, Sources, StageCompletions, Events, SourceEvents, CandidateHasSource,
         EndedStarts, Terminal, journal
<1>4. Bounds'
  BY DEF JournalInv, Bounds, Occurrences, Count, Entries, Terminal, journal
<1>5. QED BY <1>1, <1>2, <1>3, <1>4

LEMMA InitJournal == Init => JournalInv
<1> SUFFICES ASSUME Init PROVE JournalInv
  OBVIOUS
<1>1. TypeInv /\ OrderInv
  BY InitTyped, InitOrder
<1>2. definition \in ValidDefinition
  BY DefinitionAssumption DEF Init
<1>3. /\ summary = InitialProjection(definition)
      /\ Len(events) = 1 /\ events[1] = CreatedEvent /\ events = <<CreatedEvent>>
  BY DEF Init
<1>4. \A T : CreatedEvent \notin T => Count(events, T) = 0
  <2>1. \A T : CreatedEvent \notin T => Entries(events, T) = {}
    BY <1>3 DEF Entries
  <2>2. QED BY <2>1, FS_EmptySet DEF Count
<1>5. /\ \A type : type # "WorkflowCreated" => CreatedEvent \notin EventsOf(type)
      /\ CreatedEvent \notin RepairEnds /\ \A s : CreatedEvent \notin RetriesOf(s)
  BY DEF EventsOf, RepairEnds, RetriesOf, CreatedEvent
<1>6. Budgets
  <2>1. /\ definition.maxTransitions \in Nat /\ definition.maxRepairAttempts \in Nat
        /\ \A s \in WorkerStages : definition.retryLimit[s] \in Nat
    BY <1>1, DefinitionTyped
  <2>2. /\ Count(events, EventsOf("WorkflowStageStarted")) = 0
        /\ Count(events, EventsOf("WorkflowStageCompleted")) = 0
        /\ Count(events, EventsOf("WorkflowStageInterrupted")) = 0
        /\ Count(events, RepairEnds) = 0 /\ \A s : Count(events, RetriesOf(s)) = 0
    BY <1>4, <1>5
  <2>3. QED BY <1>3, <2>1, <2>2 DEF Budgets, InitialProjection
<1>7. Shape
  <2>1. "implement" \in definition.stages
    BY <1>1, DefinitionTyped
  <2>2. LastEvent.type = "WorkflowCreated"
    BY <1>3 DEF LastEvent, CreatedEvent
  <2>3. QED BY <1>3, <2>1, <2>2 DEF Shape, InitialProjection, Terminal, TerminalStatuses
<1>8. Sources
  <2>1. StageCompletions = {}
    BY <1>3 DEF StageCompletions, Events, CreatedEvent
  <2>2. QED BY <1>3, <2>1 DEF Sources, InitialProjection
<1>9. Bounds
  <2>1. \A type : type # "WorkflowCreated" => Occurrences(type) = 0
    BY <1>4, <1>5 DEF Occurrences
  <2>2. QED BY <1>3, <2>1 DEF Bounds, InitialProjection, Terminal, TerminalStatuses
<1>10. \A c \in Calls : Placed(calls[c])
  BY DEF Init, IdleCall, Placed, PointOK, OpenPoints, LeasePoints
<1>11. QED BY <1>1, <1>6, <1>7, <1>8, <1>9, <1>10 DEF JournalInv

(* A call without the lease keeps its place.                               *)
LEMMA OthersPlaced ==
    ASSUME JournalInv, NEW c \in Calls, calls[c].pc \in LeasePoints,
           \A d \in Calls \ {c} : calls'[d] = calls[d]
    PROVE  \A d \in Calls \ {c} : Placed(calls[d])'
<1> SUFFICES ASSUME NEW d \in Calls \ {c} PROVE Placed(calls[d])'
  OBVIOUS
<1>1. calls'[d].pc \notin LeasePoints /\ calls'[d] = calls[d]
  BY OthersOutside DEF JournalInv, OrderInv, SafeInv
<1>2. calls[d].pc = "acquire" => calls[d].result = "none"
  BY DEF JournalInv, Placed
<1>3. QED BY <1>1, <1>2 DEF Placed, PointOK, OpenPoints, LeasePoints

LEMMA OutsidePlaced ==
    ASSUME JournalInv, Outside
    PROVE  \A d \in Calls : Placed(calls[d])'
<1> SUFFICES ASSUME NEW d \in Calls PROVE Placed(calls[d])'
  OBVIOUS
<1>1. UNCHANGED <<journal, dependency>> /\ Kept(d) /\ Placed(calls[d])
  BY OutsideKeeps DEF JournalInv, OrderInv, SafeInv
<1>2. CASE calls'[d].pc \in LeasePoints \ {"load"}
  <2>1. /\ calls'[d].pc = calls[d].pc /\ calls'[d].event = calls[d].event
        /\ calls'[d].next = calls[d].next /\ calls'[d].op = calls[d].op
        /\ calls'[d].guard = calls[d].guard /\ calls'[d].result = calls[d].result
    BY <1>1, <1>2 DEF Kept
  <2>2. Placed(calls'[d])
    BY <1>1, <2>1 DEF Placed, PointOK
  <2>3. QED BY <1>1, <2>2, PlacedAs
<1>3. CASE calls'[d].pc \in {"acquire", "load"}
  <2>1. calls'[d].result = "none"
    BY <1>1, <1>3 DEF Kept, Placed, LeasePoints
  <2>2. QED BY <1>3, <2>1 DEF Placed, PointOK, OpenPoints
<1>4. CASE calls'[d].pc \notin LeasePoints \cup {"acquire"}
  BY <1>4 DEF Placed, PointOK, OpenPoints, LeasePoints
<1>5. QED BY <1>2, <1>3, <1>4

(* The call that appends learns what its event did to the journal.         *)
LEMMA AppendPlaced ==
    ASSUME JournalInv, SafeInv', Shape', NEW c \in Calls, JournalAppend(c)
    PROVE  Placed(calls[c])'
<1> DEFINE e == calls[c].event
<1>1. /\ CallsOK /\ calls[c] \in Call /\ calls[c].pc = "append" /\ calls[c].result = "none"
      /\ AskOK(calls[c].op, e, calls[c].guard, calls[c].next) /\ e \in WorkflowEvent
      /\ TypeInv /\ Shape /\ Trail /\ summary \in Projection
      /\ EventAllowed(definition, summary, e)
      /\ events' = events \o <<e>> /\ summary' = ProjectEvent(summary, e)
  BY PlacedFacts DEF JournalAppend, At, PointOK, LeasePoints, CallOK
<1>2. /\ calls'[c].pc = calls[c].next /\ calls'[c].event = e /\ calls'[c].op = calls[c].op
      /\ calls'[c].result = "none"
  BY <1>1 DEF JournalAppend, CallsOK, Call
<1>3. LastEvent' = e
  BY <1>1, LastAppended
<1>4. calls'[c].pc \in Sequel(e)
  BY <1>1, <1>2 DEF AskOK
<1>5. CASE e.type = "WorkflowDependencyStateChanged"
  <2>1. /\ summary' = ProjectDependency(summary, e) /\ DependencyAllowed(definition, summary, e)
        /\ e.state \in {"waiting", "ready"} /\ summary.currentStage # "none"
    BY <1>1, <1>5 DEF EventAllowed, ProjectEvent, WorkflowEvent, CreatedEvent, AskOK
  <2>2. /\ summary'.activeExecutionId = 0 /\ summary'.currentStage = summary.currentStage
        /\ summary'.status = IF e.state = "waiting" THEN "waiting_for_dependency" ELSE "pending"
    BY <1>1, <2>1 DEF DependencyAllowed, ProjectDependency, Projection
  <2>3. Open'
    BY <2>2 DEF Open, Terminal, TerminalStatuses
  <2>4. calls'[c].pc = IF e.state = "waiting" THEN "waited" ELSE "loop"
    BY <1>4, <1>5 DEF Sequel
  <2>5. QED BY <1>2, <2>1, <2>2, <2>3, <2>4 DEF Placed, PointOK
<1>6. CASE e.type = "WorkflowStageStarted"
  <2>1. summary' = ProjectStart(summary, e) /\ e.executionId # 0
    BY <1>1, <1>6 DEF EventAllowed, ProjectEvent, StartAllowed
  <2>2. summary'.activeExecutionId # 0
    BY <1>1, <2>1 DEF ProjectStart, Projection
  <2>3. calls'[c].pc = "delegate"
    BY <1>4, <1>6 DEF Sequel
  <2>4. QED BY <1>2, <2>2, <2>3 DEF Placed, PointOK, OpenPoints
<1>7. CASE e.type = "WorkflowStageInterrupted"
  <2>1. summary' = ProjectInterrupt(summary, e)
    BY <1>1, <1>7 DEF EventAllowed, ProjectEvent
  <2>2. summary'.activeExecutionId = 0 /\ summary'.status = "pending"
    BY <1>1, <2>1 DEF ProjectInterrupt, Projection
  <2>3. Open'
    BY <2>2 DEF Open, Terminal, TerminalStatuses
  <2>4. calls'[c].pc \in {"recover", "finalize", "load"}
    BY <1>4, <1>7 DEF Sequel
  <2>5. QED BY <1>2, <2>3, <2>4 DEF Placed, PointOK
<1>8. CASE e.type = "WorkflowStageCompleted"
  <2>1. summary' = ProjectStageCompletion(summary, e)
    BY <1>1, <1>8 DEF EventAllowed, ProjectEvent
  <2>2. summary'.activeExecutionId = 0 /\ summary'.status = "pending"
    BY <1>1, <2>1 DEF ProjectStageCompletion, Projection
  <2>3. Open'
    BY <2>2 DEF Open, Terminal, TerminalStatuses
  <2>4. calls'[c].pc = "settled"
    BY <1>4, <1>8 DEF Sequel
  <2>5. QED BY <1>2, <1>3, <2>3, <2>4 DEF Placed, PointOK
<1>9. CASE e.type = "WorkflowApprovalRequested"
  <2>1. summary' = ProjectRequest(summary, e) /\ RequestAllowed(definition, summary, e)
    BY <1>1, <1>9 DEF EventAllowed, ProjectEvent
  <2>2. summary'.activeExecutionId = 0 /\ summary'.status = "waiting_for_approval"
    BY <1>1, <2>1 DEF RequestAllowed, ProjectRequest, Projection
  <2>3. Open'
    BY <2>2 DEF Open, Terminal, TerminalStatuses
  <2>4. calls'[c].pc = "requested"
    BY <1>4, <1>9 DEF Sequel
  <2>5. QED BY <1>2, <2>2, <2>3, <2>4 DEF Placed, PointOK
<1>10. CASE e.type = "WorkflowApprovalDecided"
  <2>1. /\ summary' = ProjectDecision(summary, e) /\ summary.approvalRequested
        /\ ~Terminal(summary)
    BY <1>1, <1>10 DEF EventAllowed, ProjectEvent, DecisionAllowed
  <2>2. summary'.activeExecutionId = 0 /\ summary'.status = "pending"
    BY <1>1, <2>1 DEF ProjectDecision, Projection, Trail
  <2>3. Open'
    BY <2>2 DEF Open, Terminal, TerminalStatuses
  <2>4. calls'[c].pc = "decided" /\ calls[c].op # "run"
    BY <1>1, <1>4, <1>10 DEF Sequel, AskOK
  <2>5. QED BY <1>2, <1>3, <2>3, <2>4 DEF Placed, PointOK
<1>11. CASE e.type = "WorkflowCompleted"
  <2>1. summary' = ProjectCompletion(summary, e) /\ e.status \in TerminalStatuses
    BY <1>1, <1>11 DEF EventAllowed, ProjectEvent, WorkflowEvent, CreatedEvent
  <2>2. Settled'
    BY <1>1, <2>1 DEF ProjectCompletion, Projection, Settled, Terminal
  <2>3. calls'[c].pc = "release"
    BY <1>4, <1>11 DEF Sequel
  <2>4. QED BY <1>2, <2>2, <2>3 DEF Placed, PointOK, OpenPoints
<1>12. QED BY <1>1, <1>5, <1>6, <1>7, <1>8, <1>9, <1>10, <1>11 DEF EventAllowed

LEMMA AppendJournal ==
    ASSUME JournalInv, OrderInv', NEW c \in Calls, JournalAppend(c)
    PROVE  JournalInv'
<1> DEFINE e == calls[c].event
<1>1. /\ CallsOK /\ calls[c].pc = "append" /\ e \in WorkflowEvent /\ calls[c].next \in Sequel(e)
      /\ AskOK(calls[c].op, e, calls[c].guard, calls[c].next)
      /\ TypeInv /\ Trail /\ Counts /\ Budgets /\ Shape /\ Sources /\ Bounds
      /\ summary.transitionCount > 0 => AllDone
      /\ EventAllowed(definition, summary, e)
      /\ definition' = definition /\ dependency' = dependency
      /\ events' = events \o <<e>> /\ summary' = ProjectEvent(summary, e)
  BY PlacedFacts DEF JournalAppend, At, PointOK, CallOK, AskOK
<1>2. e.type = "WorkflowStageStarted" => AllDone
  BY <1>1 DEF JournalInv, OrderInv, OrderOK, PastCheck
<1>3. Budgets'
  BY <1>1, BudgetsExtended
<1>4. Shape'
  BY <1>1, ShapeExtended DEF AskOK
<1>5. Sources'
  BY <1>1, SourcesExtended DEF AskOK
<1>6. Bounds'
  BY <1>1, <1>2, BoundsExtended DEF AskOK
<1>7. Placed(calls[c])'
  BY <1>4, AppendPlaced DEF OrderInv
<1>8. \A d \in Calls \ {c} : Placed(calls[d])'
  BY <1>1, AppendSets, OthersPlaced DEF LeasePoints
<1>9. QED BY <1>3, <1>4, <1>5, <1>6, <1>7, <1>8 DEF JournalInv

LEMMA HolderPlaced ==
    ASSUME JournalInv, NEW c \in Calls, HolderStep(c) \/ Recover(c) \/ CheckDependencies(c)
    PROVE  /\ calls[c].pc \in LeasePoints
           /\ UNCHANGED <<journal, dependency>>
           /\ \A d \in Calls \ {c} : calls'[d] = calls[d]
           /\ Placed(calls[c])'
<1>1. TypeInv /\ CallsOK
  BY PlacedFacts
<1>2. CASE HolderStep(c)
  <2>1. Placed(calls[c])'
    BY <1>2, AppendFailedPlaced, LoadPlaced, LoopPlaced, StartPlaced, DelegatePlaced,
       ValidatePlaced, DecidedPlaced DEF HolderStep
  <2>2. QED BY <1>1, <1>2, <2>1, HolderStepMoves DEF Move
<1>3. CASE Recover(c)
  <2>1. Goto(c, "dependencies") => \A d \in Calls \ {c} : calls'[d] = calls[d]
    BY <1>1 DEF Goto, CallsOK
  <2>2. QED BY <1>1, <1>3, <2>1, RecoverMoves, RecoverPlaced DEF Move, Recover, At, LeasePoints
<1>4. CASE CheckDependencies(c)
  <2>1. ASSUME NEW state, NEW next, Publish(c, DependencyEvent(state), "plain", next)
        PROVE  \A d \in Calls \ {c} : calls'[d] = calls[d]
    BY <1>1, <2>1, PublishSets
  <2>2. QED BY <1>1, <1>4, <2>1, CheckMoves, CheckPlaced
            DEF Move, CheckDependencies, At, LeasePoints
<1>5. QED BY <1>2, <1>3, <1>4

LEMMA NextJournal == JournalInv /\ [Next]_vars => JournalInv'
<1> SUFFICES ASSUME JournalInv, [Next]_vars PROVE JournalInv'
  OBVIOUS
<1>1. OrderInv /\ OrderInv' /\ LeaseInv
  BY NextOrder DEF JournalInv, OrderInv, SafeInv
<1>2. CASE Outside
  <2>1. UNCHANGED <<journal, dependency>>
    BY <1>1, <1>2, OutsideKeeps
  <2>2. AllDone => AllDone'
    BY <2>1 DEF AllDone
  <2>3. QED BY <1>1, <1>2, <2>1, <2>2, JournalFactsKept, OutsidePlaced DEF JournalInv
<1>3. ASSUME NEW c \in Calls, JournalAppend(c)
      PROVE  JournalInv'
  BY <1>1, <1>3, AppendJournal
<1>4. ASSUME NEW c \in Calls, HolderStep(c) \/ Recover(c) \/ CheckDependencies(c)
      PROVE  JournalInv'
  <2>1. /\ calls[c].pc \in LeasePoints /\ UNCHANGED <<journal, dependency>>
        /\ \A d \in Calls \ {c} : calls'[d] = calls[d]
        /\ Placed(calls[c])'
    BY <1>4, HolderPlaced
  <2>2. AllDone => AllDone'
    BY <2>1 DEF AllDone
  <2>3. \A d \in Calls \ {c} : Placed(calls[d])'
    BY <2>1, OthersPlaced
  <2>4. QED BY <1>1, <2>1, <2>2, <2>3, JournalFactsKept DEF JournalInv
<1>5. CASE \/ Expire \/ UNCHANGED vars
           \/ \E i \in DOMAIN dependency, s \in {"completed", "failed"} : SettleDependency(i, s)
  <2>1. UNCHANGED <<journal, calls>> /\ (AllDone => AllDone')
    BY <1>5 DEF Expire, SettleDependency, vars, journal, AllDone
  <2>2. Budgets' /\ Shape' /\ Sources' /\ Bounds'
    BY <2>1, JournalFactsKept
  <2>3. ASSUME NEW c \in Calls
        PROVE  Placed(calls[c])'
    <3>1. Placed(calls[c])
      BY DEF JournalInv
    <3>2. QED BY <2>1, <3>1
          DEF Placed, PointOK, AskOK, Open, Undecided, Settled, LastEvent, Occurrences, Count,
              Entries, journal
  <2>4. QED BY <1>1, <2>2, <2>3 DEF JournalInv
<1>6. QED BY <1>2, <1>3, <1>4, <1>5, NextCases

LEMMA JournalInvariance == Spec => []JournalInv
BY InitJournal, NextJournal, PTL DEF Spec

(* Through any crashes, interruptions and resumptions, the counters of the *)
(* summary are the journal's and stay within the definition's budgets; an  *)
(* interrupted start costs a transition, but no retry and no repair.       *)
THEOREM BudgetsAreAccounted == Spec => []BudgetsAccounted
<1>1. JournalInv => BudgetsAccounted
  BY BudgetsAccount DEF JournalInv, OrderInv, SafeInv, LeaseInv
<1>2. QED BY <1>1, JournalInvariance, PTL

(* The journal never grows to its limit of 512 events: 144 are the most    *)
(* that any definition allows.                                             *)
THEOREM JournalIsBounded == Spec => []JournalBounded
<1>1. JournalInv => JournalBounded
  <2> SUFFICES ASSUME JournalInv PROVE JournalBounded
    OBVIOUS
  <2>1. TypeInv /\ Budgets /\ Bounds
    BY DEF JournalInv, OrderInv, SafeInv, LeaseInv
  <2> DEFINE budget == definition.maxTransitions
             allowed == definition.maxRepairAttempts
             repairs == summary.repairAttemptCount
             dep  == Occurrences("WorkflowDependencyStateChanged")
             sta  == Occurrences("WorkflowStageStarted")
             int  == Occurrences("WorkflowStageInterrupted")
             ends == Occurrences("WorkflowStageCompleted")
             req  == Occurrences("WorkflowApprovalRequested")
             dec  == Occurrences("WorkflowApprovalDecided")
             done == Occurrences("WorkflowCompleted")
             open == IF summary.currentStage \in {"repair", "none"} THEN 1 ELSE 0
             over == IF Terminal(summary) THEN 1 ELSE 0
  <2>2. /\ budget \in Nat /\ allowed \in Nat
        /\ events \in Seq(WorkflowEvent)
        /\ repairs \in Nat /\ summary.transitionCount \in Nat
    BY <2>1, DefinitionTyped DEF TypeInv, TypeOK, Projection
  <2>3. \A type : Occurrences(type) \in Nat
    BY <2>2, EntriesFinite DEF Occurrences
  <2>4. /\ dep \in Nat /\ sta \in Nat /\ int \in Nat /\ ends \in Nat
        /\ req \in Nat /\ dec \in Nat /\ done \in Nat
    BY <2>3
  <2>5. sta <= budget /\ ends + int <= budget /\ repairs <= allowed
    BY <2>1, <2>2, <2>3 DEF Budgets, Occurrences
  <2>6. open \in {0, 1} /\ over \in {0, 1}
    OBVIOUS
  <2>7. Len(events) = 1 + dep + sta + int + ends + req + dec + done
    BY <2>1 DEF Bounds
  <2>8. dep <= 2 /\ dec <= repairs + open /\ req <= repairs + 1 /\ done <= over
    BY <2>1 DEF Bounds
  <2>9. Len(events) <= 2 * budget + 2 * (allowed + 1) + 4
    <3> HIDE DEF budget, allowed, repairs, dep, sta, int, ends, req, dec, done, open, over
    <3>1. dec <= allowed + 1 /\ req <= allowed + 1 /\ done <= 1
      BY <2>2, <2>4, <2>5, <2>6, <2>8
    <3>2. QED BY <2>2, <2>4, <2>5, <2>7, <2>8, <3>1
  <2>10. QED BY <2>9 DEF JournalBounded
<1>2. QED BY <1>1, JournalInvariance, PTL

(* Whatever retries, repairs and interrupted starts there were, the        *)
(* candidate a stage starts from has exactly one originating run in the    *)
(* journal, so no resumption is refused for want of one.                   *)
THEOREM CandidateComesFromOneRun == Spec => []CandidateHasOneSource
<1>1. JournalInv => CandidateHasOneSource
  <2> SUFFICES ASSUME JournalInv PROVE CandidateHasOneSource
    OBVIOUS
  <2>1. Sources
    BY DEF JournalInv
  <2>2. ASSUME summary.candidateRunId # 0
        PROVE  Cardinality(SourceEvents(summary.candidateRunId)) = 1
    <3>1. PICK i \in StageCompletions : SourceEvents(summary.candidateRunId) = {i}
      BY <2>1, <2>2 DEF Sources
    <3>2. QED BY <3>1, FS_Singleton
  <2>3. QED BY <2>1, <2>2 DEF Sources, CandidateHasOneSource
<1>2. QED BY <1>1, JournalInvariance, PTL

(* The service never asks the journal for an event the journal refuses,    *)
(* as long as no test stage undoes its whole candidate.                    *)
THEOREM ServiceAgreesWithJournal ==
    ASSUME ~TestsMayRevert
    PROVE  Spec => []JournalAgrees
<1>1. JournalInv => JournalAgrees
  BY DEF JournalInv, Placed, PointOK, AskOK, JournalAgrees, At
<1>2. QED BY <1>1, JournalInvariance, PTL

(* A run that got the lease does not fail, and has settled the workflow    *)
(* when it gives the lease back, under the same condition.                 *)
THEOREM RunsSettle ==
    ASSUME ~TestsMayRevert
    PROVE  Spec => []RunSettles
<1>1. JournalInv => RunSettles
  BY DEF JournalInv, Placed, PointOK, RunSettles, At
<1>2. QED BY <1>1, JournalInvariance, PTL

(* Cancellation is authoritative: a call that was aborted publishes only   *)
(* what it records without its signal, the interrupted stage, the state of *)
(* the dependencies and the end, as cancelled or timed out.                *)
THEOREM AbortedCallsOnlyEnd == Spec => AbortedPublishesOnlyTheEnd
<1> DEFINE Ends == events' # events /\ lease # NoCall /\ calls[lease].aborted =>
          LET e == events'[Len(events')] IN
          \/ e.type \in {"WorkflowStageInterrupted", "WorkflowDependencyStateChanged"}
          \/ e.type = "WorkflowCompleted" /\ e.status \in {"cancelled", "timed_out"}
<1>1. JournalInv /\ [Next]_vars => [Ends]_vars
  <2> SUFFICES ASSUME JournalInv, [Next]_vars, events' # events, lease # NoCall,
                      calls[lease].aborted
               PROVE  Unsignalled(events'[Len(events')])
    BY DEF Unsignalled
  <2>1. PICK c \in Calls : JournalAppend(c)
    BY JournalKept DEF JournalInv, OrderInv, SafeInv, journal
  <2>2. /\ events \in Seq(WorkflowEvent) /\ PointOK(calls[c])
        /\ calls[c].event \in WorkflowEvent /\ calls[c].pc = "append"
    BY <2>1, PlacedFacts DEF TypeInv, TypeOK, CallOK, JournalAppend, At
  <2>3. events' = events \o <<calls[c].event>>
    BY <2>1 DEF JournalAppend
  <2>4. events'[Len(events')] = calls[c].event
    BY <2>2, <2>3, Extended
  <2>5. lease = c
    BY <2>2 DEF JournalInv, OrderInv, SafeInv, LeaseInv, HolderOK, LeasePoints
  <2>6. calls[c].guard = "plain"
    BY <2>1, <2>5 DEF JournalAppend, AppendSignalled
  <2>7. QED BY <2>1, <2>2, <2>4, <2>6 DEF JournalAppend, At, PointOK, AskOK
<1>2. QED BY <1>1, JournalInvariance, PTL DEF Spec, AbortedPublishesOnlyTheEnd
=============================================================================
