----------------------- MODULE LicenseWorkflow_proofs -----------------------
(***************************************************************************)
(* Theorems about LicenseWorkflow for every set of applications, slots and *)
(* forms and every bound on faults and rounds.                             *)
(***************************************************************************)
EXTENDS LicenseWorkflow, TLAPS

-----------------------------------------------------------------------------
(* The token game. *)

\* Moving the main token keeps the instance well formed, and where it goes.
LEMMA AdvanceMoves ==
  ASSUME NEW i \in Instances, NEW outcome,
         i.at \in DOMAIN SequenceFlow
           \/ (i.at = "El_review" /\ outcome \in DOMAIN ReviewGateway)
  PROVE  /\ Advance(i, outcome) \in Instances
         /\ Advance(i, outcome).at = StepAfter(i, outcome)
         /\ i.at = "El_pay" => StepAfter(i, outcome) = "El_schedule"
         /\ i.at = "El_schedule" => StepAfter(i, outcome) = "El_evaluate"
         /\ i.at = "El_evaluate" => StepAfter(i, outcome) = "El_review"
         /\ i.at = "El_issue" => StepAfter(i, outcome) = "El_approved"
         /\ i.at = "El_review" =>
              /\ outcome = "comments" => StepAfter(i, outcome) = "El_evaluate"
              /\ outcome = "reject" => StepAfter(i, outcome) = "El_rejected"
              /\ outcome = "approve" => StepAfter(i, outcome) = "El_issue"
<1>1. PICK to : to = StepAfter(i, outcome)
  OBVIOUS
<1>2. to \in {"El_schedule", "El_evaluate", "El_review", "El_approved",
              "El_rejected", "El_issue"}
  BY <1>1 DEF StepAfter, SequenceFlow, ReviewGateway
<1>3. i.round \in Nat /\ i.escalating \in SUBSET Nat
  BY DEF Instances
<1>4. PICK round \in Nat, armed \in BOOLEAN :
         Advance(i, outcome) = [at |-> to, round |-> round, armed |-> armed,
                                escalating |-> i.escalating]
  <2>1. (IF to = "El_evaluate" THEN i.round + 1 ELSE i.round) \in Nat
    BY <1>3
  <2>2. (to = "El_review") \in BOOLEAN
    OBVIOUS
  <2> QED  BY <1>1, <2>1, <2>2, Zenon DEF Advance
<1>6. Advance(i, outcome) \in Instances /\ Advance(i, outcome).at = to
  BY <1>2, <1>3, <1>4 DEF Instances, UserSteps, WorkerSteps, EndEvents
<1> QED
  BY <1>1, <1>6 DEF StepAfter, SequenceFlow, ReviewGateway

\* The timer and the end of an escalation leave the main token alone.
LEMMA EscalationMoves ==
  ASSUME NEW i \in Instances, NEW n \in Nat
  PROVE  /\ FireTimer(i) \in Instances /\ FireTimer(i).at = i.at
         /\ EndEscalation(i, n) \in Instances /\ EndEscalation(i, n).at = i.at
BY DEF Instances, FireTimer, EndEscalation

\* A fresh instance is at the payment or at the end of the refused.
LEMMA StartMoves ==
  ASSUME NEW e \in BOOLEAN
  PROVE  /\ StartedInstance(e) \in Instances
         /\ StartedInstance(e).at \in {"El_pay", "El_notEligible"}
BY DEF StartedInstance, NoInstance, Instances, UserSteps, WorkerSteps, EndEvents

\* What it means for an external task to be open.
LEMMA OpenTaskMeaning ==
  ASSUME instance \in [Apps -> Instances], NEW t \in OpenTasks
  PROVE  /\ t \in ExternalTasks
         /\ \/ t.step \in WorkerSteps /\ instance[t.app].at = t.step
            \/ t.step = Escalate /\ t.round \in instance[t.app].escalating
<1>0. PICK a \in Apps : \E s \in OpenSteps(instance[a]) :
         t = [app |-> a, step |-> s[1], round |-> s[2]]
  BY DEF OpenTasks
<1>1. PICK s \in OpenSteps(instance[a]) :
         t = [app |-> a, step |-> s[1], round |-> s[2]]
  BY <1>0
<1>2. instance[a] \in Instances
  OBVIOUS
<1>3. \/ s = <<instance[a].at, instance[a].round>> /\ instance[a].at \in WorkerSteps
      \/ \E n \in instance[a].escalating : s = <<Escalate, n>>
  BY DEF OpenSteps
<1>4. CASE s = <<instance[a].at, instance[a].round>> /\ instance[a].at \in WorkerSteps
  BY <1>1, <1>2, <1>4 DEF ExternalTasks, Instances
<1>5. ASSUME NEW n \in instance[a].escalating, s = <<Escalate, n>>
      PROVE  t \in ExternalTasks /\ t.step = Escalate
               /\ t.round \in instance[t.app].escalating
  <2>1. n \in Nat
    BY <1>2 DEF Instances
  <2> QED  BY <1>1, <1>5, <2>1 DEF ExternalTasks
<1> QED  BY <1>3, <1>4, <1>5

-----------------------------------------------------------------------------
(* Type correctness. *)

\* A patch of one record keeps the records well formed.
LEMMA PatchType ==
  ASSUME NEW a \in Apps, record \in [Apps -> Records], NEW n \in Nat,
         NEW st \in Statuses
  PROVE  /\ [record EXCEPT ![a].status = st] \in [Apps -> Records]
         /\ [record EXCEPT ![a].status = st, ![a].qr = n] \in [Apps -> Records]
         /\ [record EXCEPT ![a].status = st, ![a].visit = TRUE] \in [Apps -> Records]
         /\ [record EXCEPT ![a].breached = TRUE] \in [Apps -> Records]
<1>1. record[a] \in Records
  OBVIOUS
<1>2. [record[a] EXCEPT !.status = st] \in Records
  BY <1>1 DEF Records
<1>3. [[record[a] EXCEPT !.status = st] EXCEPT !.qr = n] \in Records
  BY <1>2 DEF Records
<1>4. [[record[a] EXCEPT !.status = st] EXCEPT !.visit = TRUE] \in Records
  BY <1>2 DEF Records
<1>5. [record[a] EXCEPT !.breached = TRUE] \in Records
  BY <1>1 DEF Records
<1> QED  BY <1>2, <1>3, <1>4, <1>5

\* So does the patch that stores a verdict.
LEMMA VerdictPatchType ==
  ASSUME NEW a \in Apps, record \in [Apps -> Records],
         NEW v \in {"unset", "yes", "no"}
  PROVE  [record EXCEPT ![a].eligible = v] \in [Apps -> Records]
BY DEF Records

\* Storing a licence code keeps the records well formed.
LEMMA WriteLicenseType ==
  ASSUME NEW a \in Apps, record \in [Apps -> Records], lastCode \in [Apps -> Nat],
         WriteLicense(a)
  PROVE  record' \in [Apps -> Records] /\ lastCode' \in [Apps -> Nat]
<1>1. lastCode[a] + 1 \in Nat /\ "completed" \in Statuses
  BY DEF Statuses
<1> QED  BY <1>1, PatchType DEF WriteLicense

LEMMA VerdictType == \A f : Verdict(f) \in {"yes", "no"}
BY DEF Verdict

LEMMA FaultType ==
  ASSUME faults \in 0..MaxFaults, Fault
  PROVE  faults' \in 0..MaxFaults
BY RecordsAssumption DEF Fault

LEMMA LookUpType ==
  ASSUME faults \in 0..MaxFaults, NEW a, SeesActive(a) \/ SeesInactive(a)
  PROVE  faults' \in 0..MaxFaults
BY FaultType DEF SeesActive, SeesInactive

LEMMA InitType == Init => TypeOK
<1> SUFFICES ASSUME Init PROVE TypeOK
  OBVIOUS
<1>1. NoRecord \in Records
  BY DEF NoRecord, Records, NoFacts, Facts
<1>2. NoInstance \in Instances
  BY DEF NoInstance, Instances
<1>3. RecordsType
  BY <1>1, <1>2, RecordsAssumption DEF Init, RecordsInit, RecordsType
<1>4. SubmitType
  BY DEF Init, SubmitInit, SubmitType, IdleSubmit, SubmitPcs, NoFacts, Facts
<1>5. TaskType /\ WorkerType
  BY DEF Init, TaskInit, TaskType, WorkerInit, WorkerType, IdlePoll
<1>6. BackfillType
  BY DEF Init, BackfillType, FreshBackfill
<1>7. HistoryType
  BY DEF Init, HistoryType
<1> QED  BY <1>3, <1>4, <1>5, <1>6, <1>7 DEF TypeOK

LEMMA SubmitEndsType ==
  ASSUME SubmitType, NEW s \in Submitters, SubmitEnds(s)
  PROVE  SubmitType'
BY DEF SubmitType, SubmitEnds, IdleSubmit, SubmitPcs, NoFacts, Facts

LEMMA SubmitGoesType ==
  ASSUME SubmitType, NEW s \in Submitters, NEW pc \in SubmitPcs, SubmitGoes(s, pc)
  PROVE  SubmitType'
BY DEF SubmitType, SubmitGoes

\* At these points an activation of the submission handler has its record.
Submission == [pc : SubmitPcs, app : Apps \cup {NoApp},
               identity : Identities \cup {NoIdentity},
               facts : Facts, verdict : {"unset", "yes", "no"}]

LEMMA SubmissionType ==
  ASSUME SubmitType, NEW s \in Submitters, NEW n \in Submission,
         submit' = [submit EXCEPT ![s] = n]
  PROVE  SubmitType'
BY DEF SubmitType, Submission

SubmitHasApp == \A s \in Submitters :
    submit[s].pc \in {"start", "evaluate", "store", "check", "issue"}
      => submit[s].app \in Apps

LEMMA SubmitNextType ==
  ASSUME RecordsType, SubmitType, SubmitHasApp, SubmitNext
  PROVE  RecordsType' /\ SubmitType' /\ SubmitHasApp'
<1>1. PICK s \in Submitters : SubmitBegin(s) \/ SubmitContinues(s) \/ SubmitFails(s)
  BY DEF SubmitNext
<1>2. CASE SubmitBegin(s)
  <2>1. RecordsType'
    BY <1>2 DEF SubmitBegin, recordVars, RecordsType
  <2>2. SubmitType' /\ SubmitHasApp'
    BY <1>2, RecordsAssumption
    DEF SubmitBegin, SubmitType, SubmitHasApp, SubmitPcs, IdleSubmit, NoFacts, Facts
  <2> QED  BY <2>1, <2>2
<1>3. CASE FindByIdentity(s)
  <2>1. RecordsType'
    BY <1>3 DEF FindByIdentity, recordVars, RecordsType
  <2>2. SubmitType'
    BY <1>3, SubmitEndsType, SubmitGoesType DEF FindByIdentity, SubmitPcs
  <2>3. SubmitHasApp'
    BY <1>3 DEF FindByIdentity, SubmitEnds, SubmitGoes, SubmitHasApp, SubmitType, IdleSubmit
  <2> QED  BY <2>1, <2>2, <2>3
<1>4. CASE CreateApplication(s)
  <2>1. PICK a \in Apps :
           /\ record' = [record EXCEPT ![a] =
                            NewRecord(submit[s].identity, submit[s].facts)]
           /\ submit' = [submit EXCEPT ![s].pc = "start", ![s].app = a]
    BY <1>4 DEF CreateApplication, Unfiled
  <2>2. NewRecord(submit[s].identity, submit[s].facts) \in Records
    BY DEF SubmitType, NewRecord, NoRecord, Records, Statuses
  <2>3. RecordsType'
    BY <1>4, <2>1, <2>2 DEF CreateApplication, RecordsType
  <2>4. SubmitType'
    <3> DEFINE n == [submit[s] EXCEPT !.pc = "start", !.app = a]
    <3>1. submit[s] \in Submission
      BY DEF SubmitType, Submission
    <3>2. n \in Submission
      BY <3>1 DEF Submission, SubmitPcs
    <3>3. submit' = [submit EXCEPT ![s] = n]
      BY <2>1
    <3> HIDE DEF n
    <3> QED  BY <3>2, <3>3, SubmissionType
  <2>5. SubmitHasApp'
    BY <2>1 DEF SubmitType, SubmitHasApp
  <2> QED  BY <2>3, <2>4, <2>5
<1>5. CASE StartProcess(s)
  <2>1. Eligible(submit[s].facts, requirement) \in BOOLEAN
    BY DEF Eligible
  <2>2. RecordsType'
    BY <1>5, <2>1, StartMoves DEF StartProcess, RecordsType
  <2>3. SubmitType' /\ SubmitHasApp'
    BY <1>5 DEF StartProcess, SubmitGoes, SubmitType, SubmitHasApp, SubmitPcs
  <2> QED  BY <2>2, <2>3
<1>6. CASE EvaluateDecision(s)
  <2>1. RecordsType'
    BY <1>6 DEF EvaluateDecision, recordVars, RecordsType
  <2>2. SubmitType'
    <3> DEFINE n == [submit[s] EXCEPT !.pc = "store", !.verdict = Verdict(submit[s].facts)]
    <3>1. submit[s] \in Submission
      BY DEF SubmitType, Submission
    <3>2. n \in Submission
      BY <3>1, VerdictType DEF Submission, SubmitPcs
    <3>3. submit' = [submit EXCEPT ![s] = n]
      BY <1>6 DEF EvaluateDecision
    <3> HIDE DEF n
    <3> QED  BY <3>2, <3>3, SubmissionType
  <2>3. SubmitHasApp'
    BY <1>6 DEF EvaluateDecision, SubmitType, SubmitHasApp
  <2> QED  BY <2>1, <2>2, <2>3
<1>7. CASE StoreVerdict(s)
  <2>1. RecordsType'
    BY <1>7, VerdictPatchType DEF StoreVerdict, RecordsType, SubmitType, SubmitHasApp
  <2>2. SubmitType' /\ SubmitHasApp'
    BY <1>7 DEF StoreVerdict, SubmitGoes, SubmitType, SubmitHasApp, SubmitPcs
  <2> QED  BY <2>1, <2>2
<1>8. CASE CheckFinished(s)
  <2>1. RecordsType'
    BY <1>8, LookUpType DEF CheckFinished, RecordsType
  <2>2. SubmitType'
    BY <1>8, SubmitEndsType, SubmitGoesType DEF CheckFinished, SubmitPcs
  <2>3. SubmitHasApp'
    BY <1>8 DEF CheckFinished, SubmitEnds, SubmitGoes, SubmitHasApp, SubmitType, IdleSubmit
  <2> QED  BY <2>1, <2>2, <2>3
<1>9. CASE IssueOnSubmit(s)
  <2>1. RecordsType'
    BY <1>9, WriteLicenseType DEF IssueOnSubmit, RecordsType, SubmitHasApp
  <2>2. SubmitType'
    BY <1>9, SubmitEndsType DEF IssueOnSubmit
  <2>3. SubmitHasApp'
    BY <1>9 DEF IssueOnSubmit, SubmitEnds, SubmitHasApp, SubmitType, IdleSubmit
  <2> QED  BY <2>1, <2>2, <2>3
<1>10. CASE SubmitFails(s)
  <2>1. RecordsType'
    BY <1>10, FaultType DEF SubmitFails, RecordsType
  <2>2. SubmitType'
    BY <1>10, SubmitEndsType DEF SubmitFails
  <2>3. SubmitHasApp'
    BY <1>10 DEF SubmitFails, SubmitEnds, SubmitHasApp, SubmitType, IdleSubmit
  <2> QED  BY <2>1, <2>2, <2>3
<1> QED
  BY <1>1, <1>2, <1>3, <1>4, <1>5, <1>6, <1>7, <1>8, <1>9, <1>10 DEF SubmitContinues

LEMMA TaskEndsType ==
  ASSUME TaskType, NEW h \in Completers, TaskEnds(h)
  PROVE  TaskType'
BY DEF TaskType, TaskEnds

LEMMA TaskGoesType ==
  ASSUME TaskType, NEW h \in Completers, task[h].pc # "idle",
         NEW pc \in TaskPcs \ {"idle"}, TaskGoes(h, pc)
  PROVE  TaskType'
<1>1. task[h] \in Activation
  BY DEF TaskType, NoTask
<1>2. [task[h] EXCEPT !.pc = pc] \in Activation
  BY <1>1 DEF Activation
<1> QED  BY <1>2 DEF TaskGoes, TaskType

\* What an activation that is not idle holds.
LEMMA ActivationHolds ==
  ASSUME TaskType, NEW h \in Completers, task[h].pc # "idle"
  PROVE  /\ task[h] \in Activation
         /\ task[h].app \in Apps
         /\ task[h].code \in Nat
         /\ task[h].form \in TaskForms
         /\ task[h].form.status \in Statuses
         /\ task[h].form.step = "El_review" =>
              task[h].form.outcome \in DOMAIN ReviewGateway
         /\ task[h].form.step # "El_review" =>
              task[h].form.step \in {"El_pay", "El_evaluate"}
<1>1. task[h] \in Activation
  BY DEF TaskType, NoTask
<1> QED  BY <1>1 DEF Activation, TaskForms, Form, Statuses, ReviewGateway

LEMMA TaskNextType ==
  ASSUME RecordsType, TaskType, TaskNext
  PROVE  RecordsType' /\ TaskType'
<1>1. PICK h \in Completers : TaskBegin(h) \/ TaskContinues(h) \/ TaskFails(h)
  BY DEF TaskNext
<1>2. CASE TaskBegin(h)
  <2>1. faults' \in 0..MaxFaults
    BY <1>2, FaultType DEF TaskBegin, RecordsType
  <2>2. RecordsType'
    BY <1>2, <2>1 DEF TaskBegin, RecordsType
  <2>3. PICK a \in Apps, f \in TaskForms, traced \in BOOLEAN :
           task' = [task EXCEPT ![h] =
                      [pc |-> "complete", app |-> a, round |-> instance[a].round,
                       form |-> f, traced |-> traced, code |-> 0]]
    BY <1>2 DEF TaskBegin
  <2>4. instance[a].round \in Nat
    BY DEF RecordsType, Instances
  <2>5. [pc |-> "complete", app |-> a, round |-> instance[a].round,
         form |-> f, traced |-> traced, code |-> 0] \in Activation
    BY <2>4 DEF Activation, TaskPcs
  <2>6. TaskType'
    BY <2>3, <2>5 DEF TaskType
  <2> QED  BY <2>2, <2>6
<1>3. CASE CompleteTask(h)
  <2>1. task[h].pc # "idle"
    BY <1>3 DEF CompleteTask
  <2>2. TaskType'
    BY <1>3, <2>1, TaskEndsType, TaskGoesType DEF CompleteTask, TaskPcs
  <2>3. CASE TaskOpen(h)
    <3>1. Advance(instance[task[h].app], task[h].form.outcome) \in Instances
      BY <2>1, <2>3, ActivationHolds, AdvanceMoves
      DEF TaskOpen, RecordsType, SequenceFlow
    <3> QED  BY <1>3, <2>2, <2>3, <3>1 DEF CompleteTask, RecordsType
  <2>4. CASE ~TaskOpen(h)
    BY <1>3, <2>2, <2>4 DEF CompleteTask, RecordsType
  <2> QED  BY <2>3, <2>4
<1>4. CASE CheckStillActive(h)
  <2>1. RecordsType'
    BY <1>4, LookUpType DEF CheckStillActive, RecordsType
  <2>2. TaskType'
    BY <1>4, TaskGoesType DEF CheckStillActive, TaskPcs
  <2> QED  BY <2>1, <2>2
<1>5. CASE ReadLicense(h)
  <2>1. RecordsType'
    BY <1>5, FaultType DEF ReadLicense, RecordsType
  <2>2. task[h] \in Activation /\ task[h].app \in Apps /\ task[h].pc # "idle"
    BY <1>5, ActivationHolds DEF ReadLicense
  <2>3. CASE TaskGoes(h, "issue")
    BY <2>1, <2>2, <2>3, TaskGoesType DEF TaskPcs
  <2>4. CASE ~TaskGoes(h, "issue")
    <3>1. record[task[h].app].qr \in Nat
      BY <2>2 DEF RecordsType, Records
    <3>2. PICK pc \in {"update", "rewrite"} :
             task' = [task EXCEPT ![h].code = record[task[h].app].qr, ![h].pc = pc]
      BY <1>5, <2>4 DEF ReadLicense
    <3>3. [[task[h] EXCEPT !.code = record[task[h].app].qr] EXCEPT !.pc = pc]
             \in Activation
      BY <2>2, <3>1 DEF Activation, TaskPcs
    <3>4. TaskType'
      BY <3>2, <3>3 DEF TaskType
    <3> QED  BY <2>1, <3>4
  <2> QED  BY <2>3, <2>4
<1>6. CASE RewriteLicense(h)
  <2>1. task[h].app \in Apps /\ task[h].code \in Nat /\ task[h].pc # "idle"
    BY <1>6, ActivationHolds DEF RewriteLicense
  <2>2. "completed" \in Statuses
    BY DEF Statuses
  <2>3. RecordsType'
    BY <1>6, <2>1, <2>2, PatchType DEF RewriteLicense, RecordsType
  <2>4. TaskType'
    BY <1>6, <2>1, TaskGoesType DEF RewriteLicense, TaskPcs
  <2> QED  BY <2>3, <2>4
<1>7. CASE IssueOnCompletion(h)
  <2>1. task[h] \in Activation /\ task[h].app \in Apps
    BY <1>7, ActivationHolds DEF IssueOnCompletion
  <2>2. RecordsType'
    BY <1>7, <2>1, WriteLicenseType DEF IssueOnCompletion, RecordsType
  <2>3. lastCode[task[h].app] + 1 \in Nat
    BY <2>1 DEF RecordsType
  <2>4. [[task[h] EXCEPT !.pc = "update"] EXCEPT !.code = lastCode[task[h].app] + 1]
           \in Activation
    BY <2>1, <2>3 DEF Activation, TaskPcs
  <2>5. TaskType'
    BY <1>7, <2>4 DEF IssueOnCompletion, TaskType
  <2> QED  BY <2>2, <2>5
<1>8. CASE UpdateApplication(h)
  <2>1. /\ task[h].app \in Apps /\ task[h].code \in Nat
        /\ task[h].form.status \in Statuses
    BY <1>8, ActivationHolds DEF UpdateApplication
  <2>2. "completed" \in Statuses /\ 0 \in Nat
    BY DEF Statuses
  <2>3. record' \in [Apps -> Records]
    BY <1>8, <2>1, <2>2, PatchType DEF UpdateApplication, RecordsType
  <2>4. RecordsType' /\ TaskType'
    BY <1>8, <2>3, TaskEndsType DEF UpdateApplication, RecordsType
  <2> QED  BY <2>4
<1>9. CASE TaskFails(h)
  BY <1>9, TaskEndsType, FaultType DEF TaskFails, RecordsType
<1> QED
  BY <1>1, <1>2, <1>3, <1>4, <1>5, <1>6, <1>7, <1>8, <1>9 DEF TaskContinues

\* A task a poll holds is an external task of some application.
LEMMA PollHolds ==
  ASSUME WorkerType, NEW p \in Polls
  PROVE  /\ poll[p].todo \subseteq ExternalTasks
         /\ \A t \in poll[p].todo : t.app \in Apps /\ t.round \in Nat
         /\ poll[p].current # Nothing =>
              /\ poll[p].current \in ExternalTasks
              /\ poll[p].current.app \in Apps
              /\ poll[p].current.round \in Nat
BY DEF WorkerType, ExternalTasks

\* A poll's list may shrink, and its current task be any task or nothing.
LEMMA PollType ==
  ASSUME WorkerType, NEW p \in Polls, NEW T \in SUBSET ExternalTasks,
         NEW t \in ExternalTasks \cup {Nothing}
  PROVE  /\ [poll EXCEPT ![p].todo = T]
               \in [Polls -> [todo : SUBSET ExternalTasks,
                             current : ExternalTasks \cup {Nothing}]]
         /\ [poll EXCEPT ![p].current = t]
               \in [Polls -> [todo : SUBSET ExternalTasks,
                             current : ExternalTasks \cup {Nothing}]]
         /\ [poll EXCEPT ![p].todo = T, ![p].current = t]
               \in [Polls -> [todo : SUBSET ExternalTasks,
                             current : ExternalTasks \cup {Nothing}]]
BY DEF WorkerType

LEMMA WorkerNextType ==
  ASSUME RecordsType, WorkerType, WorkerNext
  PROVE  RecordsType' /\ WorkerType'
<1>1. ASSUME NEW p \in Polls, FetchAndLock(p)
      PROVE  RecordsType' /\ WorkerType'
  <2>1. PICK S \in SUBSET (OpenTasks \ locked) :
           locked' = locked \cup S /\ poll' = [poll EXCEPT ![p].todo = S]
    BY <1>1 DEF FetchAndLock
  <2>2. S \subseteq ExternalTasks
    BY OpenTaskMeaning DEF RecordsType
  <2>3. WorkerType'
    BY <2>1, <2>2, PollType DEF WorkerType
  <2>4. RecordsType'
    BY <1>1 DEF FetchAndLock, recordVars, RecordsType
  <2> QED  BY <2>3, <2>4
<1>2. ASSUME NEW p \in Polls, HandleTask(p)
      PROVE  RecordsType' /\ WorkerType'
  <2>1. PICK t \in poll[p].todo :
          /\ poll' = [poll EXCEPT ![p].current = t]
          /\ \/ /\ record' = [record EXCEPT
                      ![t.app].status = "field_visit_scheduled",
                      ![t.app].visit = TRUE]
                /\ UNCHANGED lastCode
             \/ /\ record' = [record EXCEPT ![t.app].breached = TRUE]
                /\ UNCHANGED lastCode
             \/ WriteLicense(t.app)
    BY <1>2 DEF HandleTask
  <2>2. t \in ExternalTasks /\ t.app \in Apps
    BY PollHolds
  <2>3. WorkerType'
    BY <1>2, <2>1, <2>2, PollType DEF HandleTask, WorkerType
  <2>4. "field_visit_scheduled" \in Statuses /\ 0 \in Nat
    BY DEF Statuses
  <2>5. record' \in [Apps -> Records] /\ lastCode' \in [Apps -> Nat]
    <3>1. CASE WriteLicense(t.app)
      BY <2>2, <3>1, WriteLicenseType DEF RecordsType
    <3>2. CASE record' = [record EXCEPT ![t.app].breached = TRUE] /\ UNCHANGED lastCode
      BY <2>2, <2>4, <3>2, PatchType DEF RecordsType
    <3>3. CASE /\ record' = [record EXCEPT ![t.app].status = "field_visit_scheduled",
                                          ![t.app].visit = TRUE]
               /\ UNCHANGED lastCode
      BY <2>2, <2>4, <3>3, PatchType DEF RecordsType
    <3> QED  BY <2>1, <3>1, <3>2, <3>3
  <2>6. RecordsType'
    BY <1>2, <2>5 DEF HandleTask, RecordsType
  <2> QED  BY <2>3, <2>6
<1>3. ASSUME NEW p \in Polls, CompleteExternalTask(p)
      PROVE  RecordsType' /\ WorkerType'
  <2> DEFINE t == poll[p].current
  <2>1. t \in ExternalTasks /\ t.app \in Apps /\ t.round \in Nat
    BY <1>3, PollHolds DEF CompleteExternalTask
  <2>2. instance' \in [Apps -> Instances]
    <3>1. CASE t \notin OpenTasks
      BY <1>3, <3>1 DEF CompleteExternalTask, RecordsType
    <3>2. CASE t \in OpenTasks /\ t.step = Escalate
      BY <1>3, <2>1, <3>2, EscalationMoves DEF CompleteExternalTask, RecordsType
    <3>3. CASE t \in OpenTasks /\ t.step # Escalate
      <4>1. instance[t.app].at \in WorkerSteps
        BY <3>3, OpenTaskMeaning DEF RecordsType
      <4>2. Advance(instance[t.app], "none") \in Instances
        BY <2>1, <4>1, AdvanceMoves DEF RecordsType, SequenceFlow, WorkerSteps
      <4> QED  BY <1>3, <3>3, <4>2 DEF CompleteExternalTask, RecordsType
    <3> QED  BY <3>1, <3>2, <3>3
  <2>3. RecordsType'
    BY <1>3, <2>2 DEF CompleteExternalTask, RecordsType
  <2>4. /\ locked' = locked \ {t}
        /\ poll' = [poll EXCEPT ![p].todo = @ \ {t}, ![p].current = Nothing]
    BY <1>3 DEF CompleteExternalTask
  <2>5. poll[p].todo \ {t} \in SUBSET ExternalTasks
    BY PollHolds
  <2>6. WorkerType'
    BY <2>4, <2>5, PollType DEF WorkerType
  <2> QED  BY <2>3, <2>6
<1>4. ASSUME NEW p \in Polls, HandlerFails(p)
      PROVE  RecordsType' /\ WorkerType'
  <2>1. PICK t \in poll[p].todo :
           poll' = [poll EXCEPT ![p].todo = @ \ {t}, ![p].current = Nothing]
    BY <1>4 DEF HandlerFails
  <2>2. poll[p].todo \ {t} \in SUBSET ExternalTasks
    BY PollHolds
  <2>3. WorkerType'
    BY <1>4, <2>1, <2>2, PollType DEF HandlerFails, WorkerType
  <2>4. RecordsType'
    BY <1>4, FaultType DEF HandlerFails, RecordsType
  <2> QED  BY <2>3, <2>4
<1>5. ASSUME NEW t \in locked, LockExpires(t) \/ LockExpiresEarly(t)
      PROVE  RecordsType' /\ WorkerType'
  BY <1>5, FaultType
  DEF LockExpires, LockExpiresEarly, recordVars, RecordsType, WorkerType
<1> QED
  BY <1>1, <1>2, <1>3, <1>4, <1>5 DEF WorkerNext, PollContinues

\* The backfill has picked a record when it is about to store a verdict.
BackfillHasApp == backfill.pc = "store" => backfill.app \in Apps

LEMMA BackfillNextType ==
  ASSUME RecordsType, BackfillType, BackfillHasApp, BackfillContinues \/ BackfillFails
  PROVE  RecordsType' /\ BackfillType' /\ BackfillHasApp'
<1>1. CASE ListPending
  BY <1>1 DEF ListPending, recordVars, RecordsType, BackfillType, BackfillHasApp
<1>2. CASE EvaluatePending
  <2>1. PICK a \in backfill.todo :
           backfill' = [pc |-> "store", todo |-> backfill.todo \ {a}, app |-> a,
                        verdict |-> Verdict(record[a].facts)]
    BY <1>2 DEF EvaluatePending
  <2>2. a \in Apps /\ Verdict(record[a].facts) \in {"unset", "yes", "no"}
    BY VerdictType DEF BackfillType
  <2>3. BackfillType' /\ BackfillHasApp'
    BY <2>1, <2>2 DEF BackfillType, BackfillHasApp
  <2> QED  BY <1>2, <2>3 DEF EvaluatePending, recordVars, RecordsType
<1>3. CASE StorePending
  <2>1. backfill.app \in Apps /\ backfill.verdict \in {"unset", "yes", "no"}
    BY <1>3 DEF StorePending, BackfillType, BackfillHasApp
  <2>2. RecordsType'
    BY <1>3, <2>1, VerdictPatchType DEF StorePending, RecordsType
  <2>3. BackfillType' /\ BackfillHasApp'
    BY <1>3 DEF StorePending, FreshBackfill, BackfillType, BackfillHasApp
  <2> QED  BY <2>2, <2>3
<1>4. CASE BackfillFails
  BY <1>4, FaultType
  DEF BackfillFails, FreshBackfill, RecordsType, BackfillType, BackfillHasApp
<1> QED  BY <1>1, <1>2, <1>3, <1>4 DEF BackfillContinues

TypeInv == TypeOK /\ SubmitHasApp /\ BackfillHasApp

LEMMA TypeInvInit == Init => TypeInv
<1> SUFFICES ASSUME Init PROVE TypeInv
  OBVIOUS
<1>1. TypeOK
  BY InitType
<1>2. SubmitHasApp
  BY DEF Init, SubmitInit, IdleSubmit, SubmitHasApp
<1>3. BackfillHasApp
  BY DEF Init, FreshBackfill, BackfillHasApp
<1> QED  BY <1>1, <1>2, <1>3 DEF TypeInv

LEMMA TypeInvStep == TypeInv /\ [Next]_vars => TypeInv'
<1> SUFFICES ASSUME TypeInv, [Next]_vars PROVE TypeInv'
  OBVIOUS
<1> USE DEF TypeInv, TypeOK
<1>0. HistoryType'
  BY DEF HistoryType, Next, Remembers, vars
<1>1. CASE SubmitNext /\ UNCHANGED <<task, workerVars, backfill>>
  BY <1>0, <1>1, SubmitNextType DEF workerVars, TaskType, WorkerType, BackfillType, BackfillHasApp
<1>2. CASE TaskNext /\ UNCHANGED <<submit, workerVars, backfill>>
  BY <1>0, <1>2, TaskNextType
  DEF workerVars, SubmitType, SubmitHasApp, WorkerType, BackfillType, BackfillHasApp
<1>3. CASE WorkerNext /\ UNCHANGED <<submit, task, backfill>>
  BY <1>0, <1>3, WorkerNextType
  DEF SubmitType, SubmitHasApp, TaskType, BackfillType, BackfillHasApp
<1>4. CASE (BackfillContinues \/ BackfillFails) /\ UNCHANGED <<submit, task, workerVars>>
  BY <1>0, <1>4, BackfillNextType DEF workerVars, SubmitType, SubmitHasApp, TaskType, WorkerType
<1>5. CASE /\ (\E a \in Apps : ReviewTimerFires(a)) \/ UpdateRequirement
           /\ UNCHANGED <<submit, task, workerVars, backfill>>
  <2>1. RecordsType'
    <3>1. ASSUME NEW a \in Apps, ReviewTimerFires(a) PROVE RecordsType'
      <4>1. FireTimer(instance[a]) \in Instances
        BY EscalationMoves DEF RecordsType
      <4> QED  BY <3>1, <4>1 DEF ReviewTimerFires, RecordsType
    <3>2. CASE UpdateRequirement
      BY <3>2 DEF UpdateRequirement, RecordsType
    <3> QED  BY <1>5, <3>1, <3>2
  <2> QED
    BY <1>0, <1>5, <2>1
    DEF workerVars, SubmitType, SubmitHasApp, TaskType, WorkerType, BackfillType,
        BackfillHasApp
<1>6. CASE Crash
  <2>1. RecordsType'
    BY <1>6, FaultType DEF Crash, RecordsType
  <2>2. SubmitType' /\ SubmitHasApp'
    BY <1>6
    DEF Crash, SubmitType, SubmitHasApp, IdleSubmit, SubmitPcs, NoFacts, Facts
  <2>3. TaskType' /\ WorkerType'
    BY <1>6 DEF Crash, TaskType, WorkerType, IdlePoll
  <2>4. BackfillType' /\ BackfillHasApp'
    BY <1>6 DEF Crash, BackfillType, BackfillHasApp, FreshBackfill
  <2> QED  BY <1>0, <2>1, <2>2, <2>3, <2>4
<1>7. CASE UNCHANGED vars
  BY <1>0, <1>7
  DEF vars, RecordsType, SubmitType, SubmitHasApp, TaskType, WorkerType, BackfillType,
      BackfillHasApp
<1> QED  BY <1>1, <1>2, <1>3, <1>4, <1>5, <1>6, <1>7 DEF Next

\* Every reachable state of the workflow is well typed: handlers hold records
\* that exist, statuses and codes stay in their ranges, whatever interleaves.
THEOREM TypeCorrect == Spec => []TypeOK
<1>1. Init => TypeInv
  BY TypeInvInit
<1>2. TypeInv /\ [Next]_vars => TypeInv'
  BY TypeInvStep
<1>3. TypeInv => TypeOK
  BY DEF TypeInv
<1> QED  BY <1>1, <1>2, <1>3, PTL DEF Spec

-----------------------------------------------------------------------------
(* The safety invariant.  The properties are not inductive: a handler that *)
(* has looked at the engine acts upon it several calls later.  The parts   *)
(* below say what each activation may rely on, and all of it is of a kind  *)
(* that no step of another actor takes back.                               *)

Approved(a)  == instance[a].at \in {"El_issue", "El_approved"}
Visited(a)   == instance[a].at \in {"El_evaluate", "El_review", "El_issue",
                                   "El_rejected", "El_approved"}
Scheduled(a) == instance[a].at = "El_schedule" \/ Visited(a)

\* A process is started and a visit dated only for a record that exists.
FiledInv == \A a \in Apps : record[a].status = "absent" =>
    instance[a].at = "none" /\ ~record[a].visit

\* A submission starts the process of a record of its own, once, and gives a
\* licence only when it has seen the process over.
SubmitInv == \A s \in Submitters :
    /\ submit[s].pc \in {"start", "evaluate", "store", "check", "issue"}
         => record[submit[s].app].status # "absent"
    /\ submit[s].pc = "start" =>
         /\ instance[submit[s].app].at = "none"
         /\ \A r \in Submitters : r # s /\ submit[r].pc = "start"
              => submit[r].app # submit[s].app
    /\ submit[s].pc \in {"evaluate", "store", "check", "issue"}
         => instance[submit[s].app].at # "none"
    /\ submit[s].pc = "issue" => Decided(submit[s].app)

\* A completion that got past the engine with a decision saw it taken, and
\* one that holds or is about to make a code saw the process over.
TaskInv == \A h \in Completers : task[h].pc # "idle" =>
    /\ instance[task[h].app].at # "none"
    /\ task[h].pc \in {"read", "rewrite", "issue"} => Decided(task[h].app)
    /\ task[h].pc = "rewrite" => task[h].code # 0
    /\ task[h].code # 0 => Decided(task[h].app)
    /\ task[h].pc # "complete" =>
         /\ task[h].form.status = "approved" => Approved(task[h].app)
         /\ task[h].form.status = "rejected"
              => instance[task[h].app].at = "El_rejected"

\* A fetched task was open once, and the effect of the current one is stored.
WorkerInv == \A p \in Polls :
    /\ \A t \in poll[p].todo :
         /\ t.step = "El_issue" => Approved(t.app)
         /\ t.step = "El_schedule" => Scheduled(t.app)
    /\ poll[p].current # Nothing =>
         /\ poll[p].current \in poll[p].todo
         /\ poll[p].current.step = "El_issue" => record[poll[p].current.app].qr # 0
         /\ poll[p].current.step = "El_schedule" => record[poll[p].current.app].visit

\* The part of DecisionAgreesWithEngine that knows no exception.
DecisionTaken == \A a \in Apps :
    /\ record[a].status = "approved" => Approved(a)
    /\ record[a].status = "rejected" => instance[a].at = "El_rejected"
    /\ record[a].status = "completed" => Decided(a)

RecordInv == /\ FiledInv
             /\ LicenseOnlyWhenDecided
             /\ DecisionTaken
             /\ EffectsPrecedeProgress

SafetyInv == TypeInv /\ RecordInv /\ SubmitInv /\ TaskInv /\ WorkerInv

\* What no step takes back about an instance, and about a record.
Forward(a) ==
    /\ instance[a].at # "none" => instance'[a].at # "none"
    /\ Decided(a) => Decided(a)'
    /\ Approved(a) => Approved(a)'
    /\ instance[a].at = "El_rejected" => instance'[a].at = "El_rejected"
    /\ Scheduled(a) => Scheduled(a)'

RecordForward(a) ==
    /\ record[a].status # "absent" => record'[a].status # "absent"
    /\ record[a].qr # 0 => record'[a].qr # 0
    /\ record[a].visit => record'[a].visit

\* The moves of the diagram.
Moved(from, to) ==
    \/ from = to
    \/ from = "none" /\ to \in {"El_pay", "El_notEligible"}
    \/ from = "El_pay" /\ to = "El_schedule"
    \/ from = "El_schedule" /\ to = "El_evaluate"
    \/ from = "El_evaluate" /\ to = "El_review"
    \/ from = "El_review" /\ to \in {"El_evaluate", "El_rejected", "El_issue"}
    \/ from = "El_issue" /\ to = "El_approved"

LEMMA MoveForward ==
  ASSUME NEW a \in Apps, Moved(instance[a].at, instance'[a].at)
  PROVE  Forward(a)
BY DEF Moved, Forward, Decided, Approved, Scheduled, Visited, EndEvents

\* What an idle actor relies on survives the steps of the others.
LEMMA SubmitKept ==
  ASSUME SubmitInv, SubmitHasApp, submit' = submit,
         \A a \in Apps : Forward(a) /\ RecordForward(a),
         \A a \in Apps : instance[a].at = "none" => instance'[a].at = "none"
  PROVE  SubmitInv'
BY DEF SubmitInv, SubmitHasApp, Forward, RecordForward

LEMMA TaskKept ==
  ASSUME TaskInv, TaskType, task' = task, \A a \in Apps : Forward(a)
  PROVE  TaskInv'
<1>1. ASSUME NEW h \in Completers, task[h].pc # "idle" PROVE task[h].app \in Apps
  BY <1>1, ActivationHolds
<1> QED  BY <1>1 DEF TaskInv, Forward

LEMMA WorkerKept ==
  ASSUME WorkerInv, WorkerType, poll' = poll,
         \A a \in Apps : Forward(a) /\ RecordForward(a)
  PROVE  WorkerInv'
<1>1. \A p \in Polls : /\ \A t \in poll[p].todo : t.app \in Apps
                       /\ poll[p].current # Nothing => poll[p].current.app \in Apps
  BY PollHolds
<1> QED  BY <1>1 DEF WorkerInv, Forward, RecordForward

\* An instance that moves with its effects stored keeps the record parts.
LEMMA RecordKept ==
  ASSUME RecordInv, record' = record,
         \A a \in Apps : Forward(a),
         \A a \in Apps : record[a].status = "absent" => instance'[a].at = "none",
         \A a \in Apps : Visited(a)' => Visited(a) \/ record[a].visit,
         \A a \in Apps : instance'[a].at = "El_approved" => record[a].qr # 0
  PROVE  RecordInv'
<1>1. FiledInv'
  BY DEF RecordInv, FiledInv
<1>2. LicenseOnlyWhenDecided'
  BY DEF RecordInv, LicenseOnlyWhenDecided, Forward
<1>3. DecisionTaken'
  BY DEF RecordInv, DecisionTaken, Forward, Approved
<1>4. EffectsPrecedeProgress'
  BY DEF RecordInv, EffectsPrecedeProgress, Visited
<1> QED  BY <1>1, <1>2, <1>3, <1>4 DEF RecordInv

\* Storing a code and "completed" for a decided application.
LEMMA LicensePatchKept ==
  ASSUME RecordInv, RecordsType, NEW a \in Apps, Decided(a), UNCHANGED instance,
         NEW n \in Nat, n # 0,
         record' = [record EXCEPT ![a].status = "completed", ![a].qr = n]
  PROVE  RecordInv' /\ \A b \in Apps : RecordForward(b)
<1>1. /\ record'[a].status = "completed" /\ record'[a].qr = n
      /\ record'[a].visit = record[a].visit
  BY DEF RecordsType, Records
<1>2. \A b \in Apps : b # a => record'[b] = record[b]
  BY DEF RecordsType
<1>3. FiledInv'
  BY <1>1, <1>2 DEF RecordInv, FiledInv
<1>4. LicenseOnlyWhenDecided'
  BY <1>1, <1>2 DEF RecordInv, LicenseOnlyWhenDecided, Decided
<1>5. DecisionTaken'
  BY <1>1, <1>2 DEF RecordInv, DecisionTaken, Decided, Approved
<1>6. EffectsPrecedeProgress'
  BY <1>1, <1>2 DEF RecordInv, EffectsPrecedeProgress
<1>7. \A b \in Apps : RecordForward(b)
  BY <1>1, <1>2 DEF RecordForward
<1> QED  BY <1>3, <1>4, <1>5, <1>6, <1>7 DEF RecordInv

\* A written licence is such a patch.
LEMMA WriteLicensePatch ==
  ASSUME RecordsType, NEW a \in Apps, WriteLicense(a)
  PROVE  \E n \in Nat : /\ n # 0
            /\ record' = [record EXCEPT ![a].status = "completed", ![a].qr = n]
<1>1. lastCode[a] + 1 \in Nat /\ lastCode[a] + 1 # 0
  BY DEF RecordsType
<1>2. record' = [record EXCEPT ![a].status = "completed", ![a].qr = lastCode[a] + 1]
  BY DEF WriteLicense
<1> QED  BY <1>1, <1>2, Zenon

\* Storing another status that is not ahead of the engine.
LEMMA StatusPatchKept ==
  ASSUME RecordInv, RecordsType, NEW a \in Apps, UNCHANGED instance,
         NEW st \in Statuses \ {"completed"},
         st = "approved" => Approved(a),
         st = "rejected" => instance[a].at = "El_rejected",
         \/ record' = [record EXCEPT ![a].status = st]
         \/ record' = [record EXCEPT ![a].status = st, ![a].visit = TRUE]
  PROVE  RecordInv' /\ \A b \in Apps : RecordForward(b)
<1>1. /\ record'[a].status = st /\ record'[a].qr = record[a].qr
      /\ record[a].visit => record'[a].visit
  BY DEF RecordsType, Records
<1>2. \A b \in Apps : b # a => record'[b] = record[b]
  BY DEF RecordsType
<1>3. st # "absent" /\ st # "completed"
  BY DEF Statuses
<1>4. FiledInv'
  BY <1>1, <1>2, <1>3 DEF RecordInv, FiledInv
<1>5. LicenseOnlyWhenDecided'
  BY <1>1, <1>2 DEF RecordInv, LicenseOnlyWhenDecided, Decided
<1>6. DecisionTaken'
  BY <1>1, <1>2, <1>3 DEF RecordInv, DecisionTaken, Decided, Approved
<1>7. EffectsPrecedeProgress'
  BY <1>1, <1>2 DEF RecordInv, EffectsPrecedeProgress
<1>8. \A b \in Apps : RecordForward(b)
  BY <1>1, <1>2, <1>3 DEF RecordForward
<1> QED  BY <1>4, <1>5, <1>6, <1>7, <1>8 DEF RecordInv

\* Storing anything but a status, a code or a date.
LEMMA OtherPatchKept ==
  ASSUME RecordInv, RecordsType, NEW a \in Apps, UNCHANGED instance, NEW v,
         \/ record' = [record EXCEPT ![a].eligible = v]
         \/ record' = [record EXCEPT ![a].breached = TRUE]
  PROVE  RecordInv' /\ \A b \in Apps : RecordForward(b)
<1>1. \A b \in Apps : /\ record'[b].status = record[b].status
                      /\ record'[b].qr = record[b].qr
                      /\ record'[b].visit = record[b].visit
  BY DEF RecordsType, Records
<1>2. FiledInv'
  BY <1>1 DEF RecordInv, FiledInv
<1>3. LicenseOnlyWhenDecided'
  BY <1>1 DEF RecordInv, LicenseOnlyWhenDecided, Decided
<1>4. DecisionTaken'
  BY <1>1 DEF RecordInv, DecisionTaken, Decided, Approved
<1>5. EffectsPrecedeProgress'
  BY <1>1 DEF RecordInv, EffectsPrecedeProgress
<1>6. \A b \in Apps : RecordForward(b)
  BY <1>1 DEF RecordForward
<1> QED  BY <1>2, <1>3, <1>4, <1>5, <1>6 DEF RecordInv

\* An instance that is not known to the engine any more has no human step.
LEMMA InactiveIsDecided ==
  ASSUME RecordsType, NEW a \in Apps, instance[a].at # "none", ~Active(instance[a])
  PROVE  Decided(a)
BY DEF RecordsType, Instances, Active, Decided

\* A step that touches neither records nor instances.
LEMMA StillKept ==
  ASSUME RecordInv, UNCHANGED <<record, instance>>
  PROVE  /\ RecordInv'
         /\ \A a \in Apps : Forward(a) /\ RecordForward(a)
<1>1. RecordInv'
  BY DEF RecordInv, FiledInv, LicenseOnlyWhenDecided, DecisionTaken,
         EffectsPrecedeProgress, Decided, Approved
<1>2. \A a \in Apps : Forward(a) /\ RecordForward(a)
  BY DEF Forward, RecordForward, Decided, Approved, Scheduled, Visited
<1> QED  BY <1>1, <1>2

\* A step that leaves the instances alone.
LEMMA UnmovedForward ==
  ASSUME UNCHANGED instance
  PROVE  \A a \in Apps : Forward(a)
BY DEF Forward, Decided, Approved, Scheduled, Visited

LEMMA SubmitNextSafe ==
  ASSUME SafetyInv, ~EngineMayFail, SubmitNext, UNCHANGED <<task, poll>>
  PROVE  RecordInv' /\ SubmitInv' /\ TaskInv' /\ WorkerInv'
<1> USE DEF SafetyInv, TypeInv, TypeOK
<1>1. PICK s \in Submitters : SubmitBegin(s) \/ SubmitContinues(s) \/ SubmitFails(s)
  BY DEF SubmitNext
<1>2. CASE UNCHANGED <<record, instance>> /\ SubmitInv'
  BY <1>2, StillKept, TaskKept, WorkerKept
<1>3. ASSUME UNCHANGED <<record, instance>>, SubmitEnds(s) PROVE SubmitInv'
  BY <1>3, StillKept
  DEF SubmitEnds, IdleSubmit, SubmitInv, SubmitType, SubmitHasApp, Forward, RecordForward
<1>4. ASSUME UNCHANGED <<record, instance>>, SubmitGoes(s, "create") PROVE SubmitInv'
  BY <1>4, StillKept
  DEF SubmitGoes, SubmitInv, SubmitType, SubmitHasApp, Forward, RecordForward
<1>5. CASE SubmitBegin(s)
  <2>1. UNCHANGED <<record, instance>>
    BY <1>5 DEF SubmitBegin, recordVars
  <2>2. PICK pc \in {"find", "create"} : \E id, f :
           submit' = [submit EXCEPT ![s] = [pc |-> pc, app |-> NoApp, identity |-> id,
                                            facts |-> f, verdict |-> "unset"]]
    BY <1>5 DEF SubmitBegin
  <2>3. SubmitInv'
    BY <2>1, <2>2, StillKept
    DEF SubmitInv, SubmitType, SubmitHasApp, Forward, RecordForward
  <2> QED  BY <1>2, <2>1, <2>3
<1>6. CASE FindByIdentity(s)
  BY <1>2, <1>3, <1>4, <1>6 DEF FindByIdentity, recordVars
<1>7. CASE CreateApplication(s)
  <2>1. PICK a \in Apps :
           /\ record[a].status = "absent"
           /\ record' = [record EXCEPT ![a] =
                            NewRecord(submit[s].identity, submit[s].facts)]
           /\ submit' = [submit EXCEPT ![s].pc = "start", ![s].app = a]
    BY <1>7 DEF CreateApplication, Unfiled
  <2>2. instance' = instance /\ instance[a].at = "none"
    BY <1>7, <2>1 DEF CreateApplication, RecordInv, FiledInv
  <2>3. /\ record'[a].status = "submitted" /\ record'[a].qr = 0
        /\ \A b \in Apps : b # a => record'[b] = record[b]
    BY <2>1 DEF RecordsType, NewRecord, NoRecord
  <2>4. RecordInv'
    <3>1. FiledInv' /\ EffectsPrecedeProgress'
      BY <2>2, <2>3 DEF RecordInv, FiledInv, EffectsPrecedeProgress
    <3>2. LicenseOnlyWhenDecided' /\ DecisionTaken'
      BY <2>2, <2>3
      DEF RecordInv, LicenseOnlyWhenDecided, Approved, DecisionTaken, Decided
    <3> QED  BY <3>1, <3>2 DEF RecordInv
  <2>5. SubmitInv'
    BY <2>1, <2>2, <2>3 DEF SubmitInv, SubmitType, SubmitHasApp, Decided
  <2>6. TaskInv'
    BY <2>2, UnmovedForward, TaskKept
  <2>7. WorkerInv'
    <3>1. \A p \in Polls : poll[p].current # Nothing =>
             /\ poll[p].current.app \in Apps
             /\ poll[p].current.step \in {"El_issue", "El_schedule"}
                  => poll[p].current.app # a
      BY <2>2, PollHolds DEF WorkerInv, Approved, Scheduled, Visited
    <3> QED  BY <2>2, <2>3, <3>1 DEF WorkerInv, Approved, Scheduled, Visited
  <2> QED  BY <2>4, <2>5, <2>6, <2>7
<1>8. CASE StartProcess(s)
  <2> DEFINE a == submit[s].app
  <2>1. a \in Apps /\ instance[a].at = "none"
    BY <1>8 DEF StartProcess, SubmitHasApp, SubmitInv
  <2>2. /\ record' = record
        /\ instance'[a].at \in {"El_pay", "El_notEligible"}
        /\ \A b \in Apps : b # a => instance'[b] = instance[b]
    <3>1. Eligible(submit[s].facts, requirement) \in BOOLEAN
      BY DEF Eligible
    <3> QED  BY <1>8, <2>1, <3>1, StartMoves DEF StartProcess, RecordsType
  <2>3. \A b \in Apps : Forward(b)
    BY <2>1, <2>2, MoveForward DEF Moved
  <2>4. \A b \in Apps : RecordForward(b)
    BY <2>2 DEF RecordForward
  <2>5. RecordInv'
    <3>1. record[a].status # "absent"
      BY <1>8 DEF StartProcess, SubmitInv
    <3>2. \A b \in Apps : record[b].status = "absent" => instance'[b].at = "none"
      BY <2>2, <3>1 DEF RecordInv, FiledInv
    <3>3. \A b \in Apps : Visited(b)' => Visited(b) \/ record[b].visit
      BY <2>2 DEF Visited
    <3>4. \A b \in Apps : instance'[b].at = "El_approved" => record[b].qr # 0
      BY <2>2 DEF RecordInv, EffectsPrecedeProgress
    <3> QED  BY <2>2, <2>3, <3>2, <3>3, <3>4, RecordKept
  <2>6. SubmitInv'
    <3>1. /\ submit'[s].pc = "evaluate" /\ submit'[s].app = a
          /\ \A r \in Submitters : r # s => submit'[r] = submit[r]
      BY <1>8 DEF StartProcess, SubmitGoes, SubmitType
    <3>2. \A r \in Submitters : r # s /\ submit[r].pc = "start" => submit[r].app # a
      BY <1>8 DEF StartProcess, SubmitInv
    <3>3. record[a].status # "absent"
      BY <1>8 DEF StartProcess, SubmitInv
    <3> QED
      BY <2>1, <2>2, <2>3, <3>1, <3>2, <3>3 DEF SubmitInv, SubmitHasApp, Forward
  <2>7. TaskInv' /\ WorkerInv'
    BY <2>3, <2>4, TaskKept, WorkerKept
  <2> QED  BY <2>5, <2>6, <2>7
<1>9. CASE EvaluateDecision(s)
  <2>1. UNCHANGED <<record, instance>>
    BY <1>9 DEF EvaluateDecision, recordVars
  <2>2. SubmitInv'
    BY <1>9, <2>1, StillKept
    DEF EvaluateDecision, SubmitInv, SubmitType, SubmitHasApp, Forward, RecordForward
  <2> QED  BY <1>2, <2>1, <2>2
<1>10. CASE StoreVerdict(s)
  <2>1. submit[s].app \in Apps
    BY <1>10 DEF StoreVerdict, SubmitHasApp
  <2>2. instance' = instance
    BY <1>10 DEF StoreVerdict
  <2>3. RecordInv' /\ \A b \in Apps : RecordForward(b)
    BY <1>10, <2>1, <2>2, OtherPatchKept DEF StoreVerdict
  <2>4. \A b \in Apps : Forward(b)
    BY <2>2, UnmovedForward
  <2>5. SubmitInv'
    BY <1>10, <2>2, <2>3, <2>4
    DEF StoreVerdict, SubmitGoes, SubmitInv, SubmitType, SubmitHasApp, Forward,
        RecordForward
  <2> QED  BY <2>3, <2>4, <2>5, TaskKept, WorkerKept
<1>11. CASE CheckFinished(s)
  <2>1. UNCHANGED <<record, instance>>
    BY <1>11 DEF CheckFinished
  <2>2. CASE SubmitEnds(s)
    BY <1>2, <1>3, <2>1, <2>2
  <2>3. CASE SeesInactive(submit[s].app) /\ SubmitGoes(s, "issue")
    <3>1. Decided(submit[s].app)
      BY <1>11, <2>3, InactiveIsDecided
      DEF CheckFinished, SeesInactive, SubmitHasApp, SubmitInv
    <3>2. SubmitInv'
      BY <1>11, <2>1, <2>3, <3>1, StillKept
      DEF CheckFinished, SubmitGoes, SubmitInv, SubmitType, SubmitHasApp, Forward,
          RecordForward
    <3> QED  BY <1>2, <2>1, <3>2
  <2> QED  BY <1>11, <2>2, <2>3 DEF CheckFinished
<1>12. CASE IssueOnSubmit(s)
  <2> DEFINE a == submit[s].app
  <2>1. a \in Apps /\ Decided(a)
    BY <1>12 DEF IssueOnSubmit, SubmitHasApp, SubmitInv
  <2>2. instance' = instance
    BY <1>12 DEF IssueOnSubmit
  <2>3. PICK n \in Nat : /\ n # 0
           /\ record' = [record EXCEPT ![a].status = "completed", ![a].qr = n]
    BY <1>12, <2>1, WriteLicensePatch DEF IssueOnSubmit
  <2>4. RecordInv' /\ \A b \in Apps : RecordForward(b)
    BY <2>1, <2>2, <2>3, LicensePatchKept
  <2>5. \A b \in Apps : Forward(b)
    BY <2>2, UnmovedForward
  <2>6. SubmitInv'
    BY <1>12, <2>2, <2>4, <2>5
    DEF IssueOnSubmit, SubmitEnds, IdleSubmit, SubmitInv, SubmitType, SubmitHasApp,
        Forward, RecordForward
  <2> QED  BY <2>4, <2>5, <2>6, TaskKept, WorkerKept
<1>13. CASE SubmitFails(s)
  BY <1>2, <1>3, <1>13 DEF SubmitFails
<1> QED
  BY <1>1, <1>5, <1>6, <1>7, <1>8, <1>9, <1>10, <1>11, <1>12, <1>13
  DEF SubmitContinues

LEMMA TaskNextSafe ==
  ASSUME SafetyInv, ~EngineMayFail, TaskNext, UNCHANGED <<submit, poll>>
  PROVE  RecordInv' /\ SubmitInv' /\ TaskInv' /\ WorkerInv'
<1> USE DEF SafetyInv, TypeInv, TypeOK
<1>1. PICK h \in Completers : TaskBegin(h) \/ TaskContinues(h) \/ TaskFails(h)
  BY DEF TaskNext
<1>a. PICK a : a = task[h].app
  OBVIOUS
<1> USE <1>a
<1>2. task[h].pc # "idle" => /\ a \in Apps /\ instance[a].at # "none"
                             /\ task[h] \in Activation
  BY ActivationHolds DEF TaskInv
<1>3. ASSUME UNCHANGED <<record, instance>>, TaskInv'
      PROVE  RecordInv' /\ SubmitInv' /\ TaskInv' /\ WorkerInv'
  BY <1>3, StillKept, SubmitKept, WorkerKept
<1>4. ASSUME \A b \in Apps : Forward(b), NEW n, task' = [task EXCEPT ![h] = n],
             \/ n = NoTask
             \/ /\ n.pc # "idle" /\ n.app \in Apps
                /\ instance'[n.app].at # "none"
                /\ n.pc \in {"read", "rewrite", "issue"} => Decided(n.app)'
                /\ n.pc = "rewrite" => n.code # 0
                /\ n.code # 0 => Decided(n.app)'
                /\ n.pc # "complete" =>
                     /\ n.form.status = "approved" => Approved(n.app)'
                     /\ n.form.status = "rejected"
                          => instance'[n.app].at = "El_rejected"
      PROVE  TaskInv'
  <2>1. /\ task'[h] = n
        /\ \A k \in Completers : k # h => task'[k] = task[k]
    BY <1>4 DEF TaskType
  <2>2. \A k \in Completers : task[k].pc # "idle" => task[k].app \in Apps
    BY ActivationHolds
  <2> QED  BY <1>4, <2>1, <2>2 DEF TaskInv, Forward, NoTask
<1>5. ASSUME UNCHANGED <<record, instance>>, TaskEnds(h)
      PROVE  RecordInv' /\ SubmitInv' /\ TaskInv' /\ WorkerInv'
  BY <1>3, <1>4, <1>5, StillKept DEF TaskEnds
<1>6. CASE TaskBegin(h)
  <2>1. UNCHANGED <<record, instance>>
    BY <1>6 DEF TaskBegin
  <2>2. PICK b \in Apps, f \in TaskForms, traced \in BOOLEAN :
           /\ instance[b].at = f.step
           /\ task' = [task EXCEPT ![h] =
                      [pc |-> "complete", app |-> b, round |-> instance[b].round,
                       form |-> f, traced |-> traced, code |-> 0]]
    BY <1>6 DEF TaskBegin
  <2>3. instance[b].at # "none"
    BY <2>2 DEF TaskForms, Form
  <2>4. TaskInv'
    BY <1>4, <2>1, <2>2, <2>3, StillKept
  <2> QED  BY <1>3, <2>1, <2>4
<1>7. CASE CompleteTask(h)
  <2>1. task[h].pc = "complete"
    BY <1>7 DEF CompleteTask
  <2>2. CASE ~TaskOpen(h)
    BY <1>5, <1>7, <2>2 DEF CompleteTask
  <2>3. CASE TaskOpen(h)
    <3> DEFINE outcome == task[h].form.outcome
               to == StepAfter(instance[a], outcome)
    <3>1. a \in Apps /\ task[h] \in Activation
      BY <1>2, <2>1
    <3>2. PICK pc \in {"check", "update"} : TaskGoes(h, pc)
      BY <1>7, <2>3 DEF CompleteTask
    <3>3. /\ instance' = [instance EXCEPT ![a] = Advance(@, outcome)]
          /\ record' = record
      BY <1>7, <2>3 DEF CompleteTask
    <3>4. /\ instance[a].at = task[h].form.step
          /\ task[h].form \in TaskForms
      BY <2>3, <3>1 DEF TaskOpen, Activation
    <3>5. \/ instance[a].at \in {"El_pay", "El_evaluate"}
          \/ instance[a].at = "El_review" /\ outcome \in DOMAIN ReviewGateway
      BY <3>4 DEF TaskForms, Form, ReviewGateway
    <3>6. /\ instance'[a].at = to
          /\ instance[a].at = "El_pay" => to = "El_schedule"
          /\ instance[a].at = "El_evaluate" => to = "El_review"
          /\ instance[a].at = "El_review" =>
               /\ outcome = "comments" => to = "El_evaluate"
               /\ outcome = "reject" => to = "El_rejected"
               /\ outcome = "approve" => to = "El_issue"
      <4>1. instance[a] \in Instances
        BY <3>1 DEF RecordsType
      <4>2. \/ instance[a].at \in DOMAIN SequenceFlow
            \/ instance[a].at = "El_review" /\ outcome \in DOMAIN ReviewGateway
        BY <3>5 DEF SequenceFlow
      <4>3. instance'[a] = Advance(instance[a], outcome)
        BY <3>1, <3>3 DEF RecordsType
      <4> QED  BY <4>1, <4>2, <4>3, AdvanceMoves
    <3>7. \A b \in Apps : b # a => instance'[b] = instance[b]
      BY <3>3 DEF RecordsType
    <3>8. Moved(instance[a].at, instance'[a].at)
      BY <3>5, <3>6 DEF Moved, ReviewGateway
    <3>9. \A b \in Apps : Forward(b)
      BY <3>7, <3>8, MoveForward DEF Moved
    <3>10. \A b \in Apps : RecordForward(b)
      BY <3>3 DEF RecordForward
    <3>11. instance[a].at # "none" /\ instance'[a].at # "El_approved"
           /\ (Visited(a)' => Visited(a))
      BY <3>5, <3>6 DEF Visited, ReviewGateway
    <3>12. RecordInv'
      <4>1. record[a].status # "absent"
        BY <3>1, <3>11 DEF RecordInv, FiledInv
      <4>2. \A b \in Apps : record[b].status = "absent" => instance'[b].at = "none"
        BY <3>7, <4>1 DEF RecordInv, FiledInv
      <4>3. \A b \in Apps : Visited(b)' => Visited(b) \/ record[b].visit
        BY <3>7, <3>11 DEF Visited
      <4>4. \A b \in Apps : instance'[b].at = "El_approved" => record[b].qr # 0
        BY <3>7, <3>11 DEF RecordInv, EffectsPrecedeProgress
      <4> QED  BY <3>3, <3>9, <4>2, <4>3, <4>4, RecordKept
    <3>13. SubmitInv'
      BY <3>7, <3>9, <3>10, <3>11, SubmitKept
    <3>14. TaskInv'
      <4> DEFINE n == [task[h] EXCEPT !.pc = pc]
      <4>1. task' = [task EXCEPT ![h] = n]
        BY <3>2 DEF TaskGoes
      <4>2. /\ n.pc = pc /\ n.app = a /\ n.code = task[h].code /\ n.form = task[h].form
        BY <3>1 DEF Activation
      <4>3. instance'[a].at # "none"
        BY <3>1, <3>9, <3>11 DEF Forward
      <4>4. n.code # 0 => Decided(a)'
        BY <2>1, <3>1, <3>9, <4>2 DEF TaskInv, Forward
      <4>5. /\ task[h].form.status = "approved" => instance'[a].at = "El_issue"
            /\ task[h].form.status = "rejected" => instance'[a].at = "El_rejected"
        BY <3>4, <3>6 DEF TaskForms, Form
      <4> HIDE DEF n
      <4> QED  BY <1>4, <3>1, <3>2, <3>9, <4>1, <4>2, <4>3, <4>4, <4>5 DEF Approved
    <3> QED  BY <3>9, <3>10, <3>12, <3>13, <3>14, WorkerKept
  <2> QED  BY <2>2, <2>3
<1>8. ASSUME UNCHANGED <<record, instance>>, task[h].pc \notin {"idle", "complete"},
             NEW pc \in {"read", "issue", "update"}, TaskGoes(h, pc),
             pc # "update" => Decided(a)
      PROVE  RecordInv' /\ SubmitInv' /\ TaskInv' /\ WorkerInv'
  <2> DEFINE n == [task[h] EXCEPT !.pc = pc]
  <2>1. task' = [task EXCEPT ![h] = n]
    BY <1>8 DEF TaskGoes
  <2>2. n.pc = pc /\ n.app = a /\ n.code = task[h].code /\ n.form = task[h].form
    BY <1>2, <1>8 DEF Activation
  <2>3. \A b \in Apps : Forward(b)
    BY <1>8, StillKept
  <2>4. /\ instance'[a].at # "none" /\ a \in Apps
        /\ pc # "update" => Decided(a)'
        /\ n.code # 0 => Decided(a)'
        /\ n.form.status = "approved" => Approved(a)'
        /\ n.form.status = "rejected" => instance'[a].at = "El_rejected"
    BY <1>2, <1>8, <2>2, <2>3 DEF TaskInv, Forward
  <2> HIDE DEF n
  <2>5. TaskInv'
    BY <1>4, <1>8, <2>1, <2>2, <2>3, <2>4
  <2> QED  BY <1>3, <1>8, <2>5
<1>9. CASE CheckStillActive(h)
  <2>1. UNCHANGED <<record, instance>> /\ task[h].pc = "check"
    BY <1>9 DEF CheckStillActive
  <2>2. CASE TaskGoes(h, "update")
    BY <1>8, <2>1, <2>2
  <2>3. CASE SeesInactive(a) /\ TaskGoes(h, "read")
    <3>1. Decided(a)
      BY <1>2, <2>1, <2>3, InactiveIsDecided DEF SeesInactive
    <3> QED  BY <1>8, <2>1, <2>3, <3>1
  <2> QED  BY <1>9, <2>2, <2>3 DEF CheckStillActive
<1>10. CASE ReadLicense(h)
  <2>1. UNCHANGED <<record, instance>> /\ task[h].pc = "read"
    BY <1>10 DEF ReadLicense
  <2>2. a \in Apps /\ task[h] \in Activation /\ Decided(a)
    BY <1>2, <2>1 DEF TaskInv
  <2>3. CASE TaskGoes(h, "issue")
    BY <1>8, <2>1, <2>2, <2>3
  <2>4. CASE ~TaskGoes(h, "issue")
    <3>1. PICK pc \in {"update", "rewrite"} :
             /\ task' = [task EXCEPT ![h].code = record[a].qr, ![h].pc = pc]
             /\ record[a].qr # 0
      BY <1>10, <2>4 DEF ReadLicense
    <3>2. PICK n : n = [[task[h] EXCEPT !.code = record[a].qr] EXCEPT !.pc = pc]
      OBVIOUS
    <3>3. /\ task' = [task EXCEPT ![h] = n]
          /\ n.pc = pc /\ n.app = a /\ n.form = task[h].form
          /\ n.code = record[a].qr
      BY <2>2, <3>1, <3>2 DEF Activation
    <3>4. \A b \in Apps : Forward(b)
      BY <2>1, StillKept
    <3>5. /\ instance'[a].at # "none" /\ Decided(a)'
          /\ task[h].form.status = "approved" => Approved(a)'
          /\ task[h].form.status = "rejected" => instance'[a].at = "El_rejected"
      BY <1>2, <2>1, <2>2, <3>4 DEF TaskInv, Forward
    <3>6. /\ n.pc # "idle" /\ n.app \in Apps
          /\ instance'[n.app].at # "none"
          /\ n.pc \in {"read", "rewrite", "issue"} => Decided(n.app)'
          /\ n.pc = "rewrite" => n.code # 0
          /\ n.code # 0 => Decided(n.app)'
          /\ n.pc # "complete" =>
               /\ n.form.status = "approved" => Approved(n.app)'
               /\ n.form.status = "rejected"
                    => instance'[n.app].at = "El_rejected"
      BY <2>2, <3>1, <3>3, <3>5
    <3>7. TaskInv'
      BY <1>4, <3>3, <3>4, <3>6
    <3> QED  BY <1>3, <2>1, <3>7
  <2> QED  BY <2>3, <2>4
<1>11. ASSUME NEW n \in Nat, n # 0, Decided(a), task[h].pc # "idle",
              UNCHANGED instance,
              record' = [record EXCEPT ![a].status = "completed", ![a].qr = n]
       PROVE  /\ RecordInv' /\ SubmitInv' /\ WorkerInv'
              /\ \A b \in Apps : Forward(b)
  <2>1. RecordInv' /\ \A b \in Apps : RecordForward(b)
    BY <1>2, <1>11, LicensePatchKept
  <2>2. \A b \in Apps : Forward(b)
    BY <1>11, UnmovedForward
  <2> QED  BY <1>11, <2>1, <2>2, SubmitKept, WorkerKept
<1>12. CASE RewriteLicense(h)
  <2>1. /\ task[h].pc = "rewrite" /\ instance' = instance
        /\ record' = [record EXCEPT ![a].status = "completed", ![a].qr = task[h].code]
        /\ TaskGoes(h, "update")
    BY <1>12 DEF RewriteLicense
  <2>2. Decided(a) /\ task[h].code \in Nat
    BY <1>2, <2>1 DEF TaskInv, Activation
  <2>3. task[h].code # 0
    BY <2>1 DEF TaskInv
  <2>4. RecordInv' /\ SubmitInv' /\ WorkerInv' /\ \A b \in Apps : Forward(b)
    BY <1>11, <2>1, <2>2, <2>3
  <2> DEFINE n == [task[h] EXCEPT !.pc = "update"]
  <2>5. task' = [task EXCEPT ![h] = n]
    BY <2>1 DEF TaskGoes
  <2>6. n.pc = "update" /\ n.app = a /\ n.form = task[h].form
    BY <1>2, <2>1 DEF Activation
  <2>7. /\ instance'[a].at # "none" /\ a \in Apps /\ Decided(a)'
        /\ task[h].form.status = "approved" => Approved(a)'
        /\ task[h].form.status = "rejected" => instance'[a].at = "El_rejected"
    BY <1>2, <2>1, <2>2, <2>4 DEF TaskInv, Forward
  <2> HIDE DEF n
  <2>8. TaskInv'
    BY <1>4, <2>4, <2>5, <2>6, <2>7
  <2> QED  BY <2>4, <2>8
<1>13. CASE IssueOnCompletion(h)
  <2>1. /\ task[h].pc = "issue" /\ instance' = instance /\ WriteLicense(a)
        /\ task' = [task EXCEPT ![h].pc = "update", ![h].code = lastCode[a] + 1]
    BY <1>13 DEF IssueOnCompletion
  <2>2. a \in Apps /\ Decided(a)
    BY <1>2, <2>1 DEF TaskInv
  <2>3. RecordInv' /\ SubmitInv' /\ WorkerInv' /\ \A b \in Apps : Forward(b)
    BY <1>11, <2>1, <2>2, WriteLicensePatch
  <2> DEFINE n == [[task[h] EXCEPT !.pc = "update"] EXCEPT !.code = lastCode[a] + 1]
  <2>4. task' = [task EXCEPT ![h] = n]
    BY <2>1
  <2>5. n.pc = "update" /\ n.app = a /\ n.form = task[h].form
    BY <1>2, <2>1 DEF Activation
  <2>6. /\ instance'[a].at # "none" /\ Decided(a)'
        /\ task[h].form.status = "approved" => Approved(a)'
        /\ task[h].form.status = "rejected" => instance'[a].at = "El_rejected"
    BY <1>2, <2>1, <2>2, <2>3 DEF TaskInv, Forward
  <2> HIDE DEF n
  <2>7. TaskInv'
    BY <1>4, <2>2, <2>3, <2>4, <2>5, <2>6
  <2> QED  BY <2>3, <2>7
<1>14. CASE UpdateApplication(h)
  <2>1. task[h].pc = "update" /\ instance' = instance /\ TaskEnds(h)
    BY <1>14 DEF UpdateApplication
  <2>2. a \in Apps /\ task[h].code \in Nat /\ task[h].form \in TaskForms
    BY <1>2, <2>1 DEF Activation
  <2>3. \A b \in Apps : Forward(b)
    BY <2>1, UnmovedForward
  <2>4. TaskInv'
    BY <1>4, <2>1, <2>3 DEF TaskEnds
  <2>5. CASE task[h].code # 0
    <3>1. record' = [record EXCEPT ![a].status = "completed", ![a].qr = task[h].code]
      BY <1>14, <2>5 DEF UpdateApplication
    <3>2. Decided(a)
      BY <2>1, <2>5 DEF TaskInv
    <3> QED  BY <1>11, <2>1, <2>2, <2>4, <2>5, <3>1, <3>2
  <2>6. CASE task[h].code = 0
    <3>1. record' = [record EXCEPT ![a].status = task[h].form.status]
      BY <1>14, <2>6 DEF UpdateApplication
    <3>2. task[h].form.status \in Statuses \ {"completed"}
      BY <2>2 DEF TaskForms, Form, Statuses
    <3>3. /\ task[h].form.status = "approved" => Approved(a)
          /\ task[h].form.status = "rejected" => instance[a].at = "El_rejected"
      BY <2>1 DEF TaskInv
    <3>4. RecordInv' /\ \A b \in Apps : RecordForward(b)
      BY <2>1, <2>2, <3>1, <3>2, <3>3, StatusPatchKept
    <3> QED  BY <2>3, <2>4, <2>1, <3>4, SubmitKept, WorkerKept
  <2> QED  BY <2>5, <2>6
<1>15. CASE TaskFails(h)
  BY <1>5, <1>15 DEF TaskFails
<1> QED
  BY <1>1, <1>6, <1>7, <1>9, <1>10, <1>12, <1>13, <1>14, <1>15 DEF TaskContinues

\* What a poll fetched or handled is recorded as the worker's part needs it.
LEMMA PollChanged ==
  ASSUME WorkerInv, WorkerType, \A a \in Apps : Forward(a) /\ RecordForward(a),
         NEW p \in Polls, NEW T, NEW c,
         poll'[p].todo = T, poll'[p].current = c,
         \A q \in Polls : q # p => poll'[q] = poll[q],
         \A t \in T : \/ t \in poll[p].todo
                      \/ /\ t.step = "El_issue" => Approved(t.app)'
                         /\ t.step = "El_schedule" => Scheduled(t.app)',
         c # Nothing =>
           /\ c \in T
           /\ c.step = "El_issue" => record'[c.app].qr # 0
           /\ c.step = "El_schedule" => record'[c.app].visit
  PROVE  WorkerInv'
<1>1. \A q \in Polls : /\ \A t \in poll[q].todo : t.app \in Apps
                       /\ poll[q].current # Nothing => poll[q].current.app \in Apps
  BY PollHolds
<1>2. \A t \in poll[p].todo : /\ t.step = "El_issue" => Approved(t.app)'
                              /\ t.step = "El_schedule" => Scheduled(t.app)'
  BY <1>1 DEF WorkerInv, Forward
<1>3. ASSUME NEW q \in Polls, q # p
      PROVE  /\ \A t \in poll[q].todo :
                  /\ t.step = "El_issue" => Approved(t.app)'
                  /\ t.step = "El_schedule" => Scheduled(t.app)'
             /\ poll[q].current # Nothing =>
                  /\ poll[q].current \in poll[q].todo
                  /\ poll[q].current.step = "El_issue"
                       => record'[poll[q].current.app].qr # 0
                  /\ poll[q].current.step = "El_schedule"
                       => record'[poll[q].current.app].visit
  BY <1>1 DEF WorkerInv, Forward, RecordForward
<1> QED  BY <1>2, <1>3 DEF WorkerInv

LEMMA WorkerNextSafe ==
  ASSUME SafetyInv, WorkerNext, UNCHANGED <<submit, task>>
  PROVE  RecordInv' /\ SubmitInv' /\ TaskInv' /\ WorkerInv'
<1> USE DEF SafetyInv, TypeInv, TypeOK
<1>1. ASSUME NEW p \in Polls, FetchAndLock(p) PROVE WorkerInv' /\ UNCHANGED <<record, instance>>
  <2>1. UNCHANGED <<record, instance>>
    BY <1>1 DEF FetchAndLock, recordVars
  <2>2. PICK S \in SUBSET OpenTasks : poll' = [poll EXCEPT ![p].todo = S]
    BY <1>1 DEF FetchAndLock
  <2>3. /\ poll'[p].todo = S /\ poll'[p].current = Nothing
        /\ \A q \in Polls : q # p => poll'[q] = poll[q]
    BY <1>1, <2>2 DEF FetchAndLock, IdlePoll, WorkerType
  <2>4. ASSUME NEW t \in S
        PROVE  /\ t.step = "El_issue" => Approved(t.app)'
               /\ t.step = "El_schedule" => Scheduled(t.app)'
    <3>1. /\ t.app \in Apps /\ instance[t.app] \in Instances
          /\ \/ t.step \in WorkerSteps /\ instance[t.app].at = t.step
             \/ t.step = Escalate /\ t.round \in instance[t.app].escalating
      BY OpenTaskMeaning DEF RecordsType, ExternalTasks
    <3> QED  BY <2>1, <3>1 DEF Approved, Scheduled, WorkerSteps, Escalate
  <2> QED  BY <2>1, <2>3, <2>4, StillKept, PollChanged
<1>2. ASSUME UNCHANGED <<record, instance>>, WorkerInv'
      PROVE  RecordInv' /\ SubmitInv' /\ TaskInv' /\ WorkerInv'
  BY <1>2, StillKept, SubmitKept, TaskKept
<1>3. ASSUME NEW p \in Polls, HandleTask(p)
      PROVE  RecordInv' /\ SubmitInv' /\ TaskInv' /\ WorkerInv'
  <2>1. PICK t \in poll[p].todo :
          /\ poll' = [poll EXCEPT ![p].current = t]
          /\ \/ /\ t.step = "El_schedule"
                /\ record' = [record EXCEPT ![t.app].status = "field_visit_scheduled",
                                            ![t.app].visit = TRUE]
             \/ /\ t.step = Escalate
                /\ record' = [record EXCEPT ![t.app].breached = TRUE]
             \/ t.step = "El_issue" /\ WriteLicense(t.app)
    BY <1>3 DEF HandleTask
  <2>2. t.app \in Apps /\ UNCHANGED instance
    BY <1>3, PollHolds DEF HandleTask
  <2>3. /\ RecordInv' /\ \A b \in Apps : RecordForward(b)
        /\ t.step = "El_issue" => record'[t.app].qr # 0
        /\ t.step = "El_schedule" => record'[t.app].visit
    <3>1. CASE /\ t.step = "El_schedule"
               /\ record' = [record EXCEPT ![t.app].status = "field_visit_scheduled",
                                           ![t.app].visit = TRUE]
      <4>1. "field_visit_scheduled" \in Statuses \ {"completed"}
        BY DEF Statuses
      <4>2. RecordInv' /\ \A b \in Apps : RecordForward(b)
        BY <2>2, <3>1, <4>1, StatusPatchKept
      <4>3. record'[t.app].visit
        BY <2>2, <3>1 DEF RecordsType, Records
      <4> QED  BY <3>1, <4>2, <4>3
    <3>2. CASE t.step = Escalate /\ record' = [record EXCEPT ![t.app].breached = TRUE]
      BY <2>2, <3>2, OtherPatchKept DEF Escalate
    <3>3. CASE t.step = "El_issue" /\ WriteLicense(t.app)
      <4>1. Decided(t.app)
        BY <3>3 DEF WorkerInv, Approved, Decided, EndEvents
      <4>2. PICK n \in Nat : /\ n # 0
               /\ record' = [record EXCEPT ![t.app].status = "completed", ![t.app].qr = n]
        BY <2>2, <3>3, WriteLicensePatch
      <4>3. RecordInv' /\ \A b \in Apps : RecordForward(b)
        BY <2>2, <4>1, <4>2, LicensePatchKept
      <4>4. record'[t.app].qr # 0
        BY <2>2, <4>2 DEF RecordsType, Records
      <4> QED  BY <3>3, <4>3, <4>4
    <3> QED  BY <2>1, <3>1, <3>2, <3>3
  <2>4. \A b \in Apps : Forward(b)
    BY <2>2, UnmovedForward
  <2>5. /\ poll'[p].todo = poll[p].todo /\ poll'[p].current = t
        /\ \A q \in Polls : q # p => poll'[q] = poll[q]
    BY <2>1 DEF WorkerType
  <2>6. WorkerInv'
    BY <2>3, <2>4, <2>5, PollChanged
  <2> QED  BY <2>2, <2>3, <2>4, <2>6, SubmitKept, TaskKept
<1>4. ASSUME NEW p \in Polls, CompleteExternalTask(p)
      PROVE  RecordInv' /\ SubmitInv' /\ TaskInv' /\ WorkerInv'
  <2>t. PICK t : t = poll[p].current
    OBVIOUS
  <2>1. /\ t \in ExternalTasks /\ t.app \in Apps /\ t.round \in Nat
        /\ t \in poll[p].todo /\ t # Nothing
    BY <1>4, <2>t, PollHolds DEF CompleteExternalTask, WorkerInv
  <2>2. /\ t.step = "El_issue" => record[t.app].qr # 0
        /\ t.step = "El_schedule" => record[t.app].visit
    BY <2>t, <2>1 DEF WorkerInv
  <2>3. record' = record
    BY <1>4 DEF CompleteExternalTask
  <2>4. \A b \in Apps : b # t.app => instance'[b] = instance[b]
    BY <1>4, <2>t DEF CompleteExternalTask, RecordsType
  <2>5. \/ instance'[t.app].at = instance[t.app].at
        \/ /\ t.step = "El_schedule" /\ instance[t.app].at = "El_schedule"
           /\ instance'[t.app].at = "El_evaluate"
        \/ /\ t.step = "El_issue" /\ instance[t.app].at = "El_issue"
           /\ instance'[t.app].at = "El_approved"
    <3>1. CASE t \notin OpenTasks
      BY <1>4, <2>t, <3>1 DEF CompleteExternalTask
    <3>2. CASE t \in OpenTasks /\ t.step = Escalate
      <4>1. instance'[t.app] = EndEscalation(instance[t.app], t.round)
        BY <1>4, <2>t, <2>1, <3>2 DEF CompleteExternalTask, RecordsType
      <4>2. instance[t.app] \in Instances
        BY <2>1 DEF RecordsType
      <4> QED  BY <2>1, <4>1, <4>2, EscalationMoves
    <3>3. CASE t \in OpenTasks /\ t.step # Escalate
      <4>1. t.step \in WorkerSteps /\ instance[t.app].at = t.step
        BY <3>3, OpenTaskMeaning DEF RecordsType
      <4>2. instance'[t.app] = Advance(instance[t.app], "none")
        BY <1>4, <2>t, <2>1, <3>3 DEF CompleteExternalTask, RecordsType
      <4>3. instance[t.app] \in Instances
        BY <2>1 DEF RecordsType
      <4> QED  BY <4>1, <4>2, <4>3, AdvanceMoves DEF WorkerSteps, SequenceFlow
    <3> QED  BY <3>1, <3>2, <3>3
  <2>6. \A b \in Apps : Forward(b)
    <3>1. \A b \in Apps : Moved(instance[b].at, instance'[b].at)
      BY <2>4, <2>5 DEF Moved
    <3> QED  BY <3>1, MoveForward
  <2>7. \A b \in Apps : RecordForward(b)
    BY <2>3 DEF RecordForward
  <2>8. RecordInv'
    <3>1. \A b \in Apps : record[b].status = "absent" => instance'[b].at = "none"
      BY <2>1, <2>4, <2>5 DEF RecordInv, FiledInv
    <3>2. \A b \in Apps : Visited(b)' => Visited(b) \/ record[b].visit
      BY <2>2, <2>4, <2>5 DEF Visited
    <3>3. \A b \in Apps : instance'[b].at = "El_approved" => record[b].qr # 0
      BY <2>2, <2>4, <2>5 DEF RecordInv, EffectsPrecedeProgress
    <3> QED  BY <2>3, <2>6, <3>1, <3>2, <3>3, RecordKept
  <2>9. SubmitInv'
    <3>1. \A b \in Apps : instance[b].at = "none" => instance'[b].at = "none"
      BY <2>1, <2>4, <2>5
    <3> QED  BY <2>6, <2>7, <3>1, SubmitKept
  <2>10. WorkerInv'
    <3>1. poll' = [poll EXCEPT ![p].todo = @ \ {t}, ![p].current = Nothing]
      BY <1>4, <2>t DEF CompleteExternalTask
    <3>2. /\ poll'[p].todo = poll[p].todo \ {t} /\ poll'[p].current = Nothing
          /\ \A q \in Polls : q # p => poll'[q] = poll[q]
      BY <3>1 DEF WorkerType
    <3> QED  BY <2>6, <2>7, <3>2, PollChanged
  <2> QED  BY <2>6, <2>8, <2>9, <2>10, TaskKept
<1>5. ASSUME NEW p \in Polls, HandlerFails(p)
      PROVE  WorkerInv' /\ UNCHANGED <<record, instance>>
  <2>1. PICK t \in poll[p].todo :
           poll' = [poll EXCEPT ![p].todo = @ \ {t}, ![p].current = Nothing]
    BY <1>5 DEF HandlerFails
  <2>2. UNCHANGED <<record, instance>>
    BY <1>5 DEF HandlerFails
  <2>3. /\ poll'[p].todo = poll[p].todo \ {t} /\ poll'[p].current = Nothing
        /\ \A q \in Polls : q # p => poll'[q] = poll[q]
    BY <2>1 DEF WorkerType
  <2> QED  BY <2>2, <2>3, StillKept, PollChanged
<1>6. ASSUME NEW t \in locked, LockExpires(t) \/ LockExpiresEarly(t)
      PROVE  WorkerInv' /\ UNCHANGED <<record, instance>>
  <2>1. UNCHANGED <<record, instance, poll>>
    BY <1>6 DEF LockExpires, LockExpiresEarly, recordVars
  <2> QED  BY <2>1, StillKept, WorkerKept
<1> QED
  BY <1>1, <1>2, <1>3, <1>4, <1>5, <1>6 DEF WorkerNext, PollContinues

LEMMA BackfillNextSafe ==
  ASSUME SafetyInv, BackfillContinues \/ BackfillFails,
         UNCHANGED <<submit, task, poll>>
  PROVE  RecordInv' /\ SubmitInv' /\ TaskInv' /\ WorkerInv'
<1> USE DEF SafetyInv, TypeInv, TypeOK
<1>1. CASE UNCHANGED <<record, instance>>
  BY <1>1, StillKept, SubmitKept, TaskKept, WorkerKept
<1>2. CASE StorePending
  <2>1. UNCHANGED instance /\ backfill.app \in Apps
    BY <1>2 DEF StorePending, BackfillHasApp
  <2>2. RecordInv' /\ \A b \in Apps : RecordForward(b)
    BY <1>2, <2>1, OtherPatchKept DEF StorePending
  <2> QED  BY <2>1, <2>2, UnmovedForward, SubmitKept, TaskKept, WorkerKept
<1> QED
  BY <1>1, <1>2
  DEF BackfillContinues, BackfillFails, ListPending, EvaluatePending, recordVars

\* The timer starts an escalation next to the review and moves no main token.
LEMMA TimerSafe ==
  ASSUME SafetyInv, NEW a \in Apps, ReviewTimerFires(a),
         UNCHANGED <<submit, task, poll>>
  PROVE  RecordInv' /\ SubmitInv' /\ TaskInv' /\ WorkerInv'
<1> USE DEF SafetyInv, TypeInv, TypeOK
<1>1. record' = record /\ \A b \in Apps : instance'[b].at = instance[b].at
  <2>1. FireTimer(instance[a]).at = instance[a].at
    BY DEF FireTimer, RecordsType, Instances
  <2> QED  BY <2>1 DEF ReviewTimerFires, RecordsType
<1>2. \A b \in Apps : Forward(b) /\ RecordForward(b)
  BY <1>1 DEF Forward, RecordForward, Decided, Approved, Scheduled, Visited
<1>3. RecordInv'
  <2>1. \A b \in Apps : record[b].status = "absent" => instance'[b].at = "none"
    BY <1>1 DEF RecordInv, FiledInv
  <2>2. \A b \in Apps : Visited(b)' => Visited(b) \/ record[b].visit
    BY <1>1 DEF Visited
  <2>3. \A b \in Apps : instance'[b].at = "El_approved" => record[b].qr # 0
    BY <1>1 DEF RecordInv, EffectsPrecedeProgress
  <2> QED  BY <1>1, <1>2, <2>1, <2>2, <2>3, RecordKept
<1> QED  BY <1>1, <1>2, <1>3, SubmitKept, TaskKept, WorkerKept

\* A restarted platform process relies on nothing.
LEMMA CrashSafe ==
  ASSUME SafetyInv, Crash
  PROVE  RecordInv' /\ SubmitInv' /\ TaskInv' /\ WorkerInv'
<1>1. RecordInv'
  BY StillKept DEF Crash, SafetyInv
<1>2. SubmitInv' /\ TaskInv' /\ WorkerInv'
  BY DEF Crash, IdleSubmit, NoTask, IdlePoll, SubmitInv, TaskInv, WorkerInv
<1> QED  BY <1>1, <1>2

LEMMA SafetyInvInit == Init => SafetyInv
<1> SUFFICES ASSUME Init PROVE SafetyInv
  OBVIOUS
<1>1. TypeInv
  BY TypeInvInit
<1>2. RecordInv
  BY DEF Init, RecordsInit, NoRecord, NoInstance, RecordInv, FiledInv,
         LicenseOnlyWhenDecided, DecisionTaken, Approved, EffectsPrecedeProgress
<1>3. SubmitInv /\ TaskInv /\ WorkerInv
  BY DEF Init, SubmitInit, TaskInit, WorkerInit, IdleSubmit, NoTask, IdlePoll,
         SubmitInv, TaskInv, WorkerInv
<1> QED  BY <1>1, <1>2, <1>3 DEF SafetyInv

LEMMA SafetyInvStep ==
  ASSUME ~EngineMayFail
  PROVE  SafetyInv /\ [Next]_vars => SafetyInv'
<1> SUFFICES ASSUME SafetyInv, [Next]_vars
             PROVE  RecordInv' /\ SubmitInv' /\ TaskInv' /\ WorkerInv'
  BY TypeInvStep DEF SafetyInv
<1>1. CASE SubmitNext /\ UNCHANGED <<task, workerVars, backfill>>
  BY <1>1, SubmitNextSafe DEF workerVars
<1>2. CASE TaskNext /\ UNCHANGED <<submit, workerVars, backfill>>
  BY <1>2, TaskNextSafe DEF workerVars
<1>3. CASE WorkerNext /\ UNCHANGED <<submit, task, backfill>>
  BY <1>3, WorkerNextSafe
<1>4. CASE (BackfillContinues \/ BackfillFails) /\ UNCHANGED <<submit, task, workerVars>>
  BY <1>4, BackfillNextSafe DEF workerVars
<1>5. CASE /\ (\E a \in Apps : ReviewTimerFires(a)) \/ UpdateRequirement
           /\ UNCHANGED <<submit, task, workerVars, backfill>>
  <2>1. CASE UpdateRequirement
    BY <1>5, <2>1, StillKept, SubmitKept, TaskKept, WorkerKept
    DEF UpdateRequirement, workerVars, SafetyInv, TypeInv, TypeOK
  <2> QED  BY <1>5, <2>1, TimerSafe DEF workerVars
<1>6. CASE Crash
  BY <1>6, CrashSafe
<1>7. CASE UNCHANGED vars
  BY <1>7, StillKept, SubmitKept, TaskKept, WorkerKept
  DEF vars, SafetyInv, TypeInv, TypeOK
<1> QED  BY <1>1, <1>2, <1>3, <1>4, <1>5, <1>6, <1>7 DEF Next

\* What every reachable state satisfies while look-ups of an instance answer.
LEMMA AlwaysSafe ==
  ASSUME ~EngineMayFail
  PROVE  Spec => []SafetyInv
<1>1. Init => SafetyInv
  BY SafetyInvInit
<1>2. SafetyInv /\ [Next]_vars => SafetyInv'
  BY SafetyInvStep
<1> QED  BY <1>1, <1>2, PTL DEF Spec

\* With an engine whose look-ups answer, no licence code is ever stored while
\* a payment, visit or review of the application is ahead, for any number of
\* applications, handlers, polls, crashes and failed calls.
THEOREM LicenseSafe ==
  ASSUME ~EngineMayFail
  PROVE  Spec => []LicenseOnlyWhenDecided
<1>1. SafetyInv => LicenseOnlyWhenDecided
  BY DEF SafetyInv, RecordInv
<1> QED  BY <1>1, AlwaysSafe, PTL

\* The process goes past an external task only after the worker stored its
\* effect, whatever was retried, lost, or handled twice.
THEOREM ProgressSafe ==
  ASSUME ~EngineMayFail
  PROVE  Spec => []EffectsPrecedeProgress
<1>1. SafetyInv => EffectsPrecedeProgress
  BY DEF SafetyInv, RecordInv
<1> QED  BY <1>1, AlwaysSafe, PTL

=============================================================================
