----------------------- MODULE LicenseLifecycle_proofs -----------------------
(***************************************************************************)
(* The workflow implements the lifecycle, for every instance: each step of *)
(* LicenseWorkflow is of one of four kinds, and each kind is a step of     *)
(* LicenseLifecycle or invisible in it.                                    *)
(***************************************************************************)
EXTENDS LicenseWorkflow_proofs

\* What a step does to what the lifecycle shows of an application.
SameStage(a) == instance'[a].at = instance[a].at
SameDate(a)  == record'[a].visit = record[a].visit
SameCode(a)  == (record'[a].qr # 0) = (record[a].qr # 0)
Same(a)      == SameStage(a) /\ SameDate(a) /\ SameCode(a)

\* The four kinds of step.
Quiet == \A a \in Apps : Same(a)

TokenMoved(a) ==
    /\ Moved(instance[a].at, instance'[a].at)
    /\ SameDate(a) /\ SameCode(a)
    /\ instance[a].at = "El_schedule" => SameStage(a) \/ record[a].visit
    /\ instance[a].at = "El_issue" => SameStage(a) \/ record[a].qr # 0
    /\ \A b \in Apps : b # a => Same(b)

Coded(a) ==
    /\ SameStage(a) /\ SameDate(a)
    /\ Decided(a) /\ record'[a].qr # 0
    /\ \A b \in Apps : b # a => Same(b)

Dated(a) ==
    /\ SameStage(a) /\ SameCode(a)
    /\ instance[a].at = "El_schedule" /\ record'[a].visit = TRUE
    /\ \A b \in Apps : b # a => Same(b)

Kinds == Quiet \/ \E a \in Apps : TokenMoved(a) \/ Coded(a) \/ Dated(a)

-----------------------------------------------------------------------------
(* Each kind is a step of the lifecycle. *)

LEMMA QuietStutters ==
  ASSUME Quiet
  PROVE  UNCHANGED Lifecycle!vars
BY DEF Quiet, Same, SameStage, SameDate, SameCode, Lifecycle!vars

LEMMA TokenStep ==
  ASSUME NEW a \in Apps, TokenMoved(a)
  PROVE  [Lifecycle!Next]_(Lifecycle!vars)
<1> DEFINE S == [b \in Apps |-> StageOf[instance[b].at]]
           V == [b \in Apps |-> record[b].visit]
           C == [b \in Apps |-> record[b].qr # 0]
<1>1. V' = V /\ C' = C
  BY DEF TokenMoved, Same, SameDate, SameCode
<1>2. S' = [S EXCEPT ![a] = StageOf[instance'[a].at]]
  BY DEF TokenMoved, Same, SameStage
<1>3. CASE SameStage(a)
  BY <1>3, QuietStutters DEF TokenMoved, Quiet, Same
<1>4. CASE ~SameStage(a)
  <2>1. \/ instance[a].at = "none" /\ instance'[a].at = "El_pay"
        \/ instance[a].at = "none" /\ instance'[a].at = "El_notEligible"
        \/ instance[a].at = "El_pay" /\ instance'[a].at = "El_schedule"
        \/ instance[a].at = "El_schedule" /\ instance'[a].at = "El_evaluate"
        \/ instance[a].at = "El_evaluate" /\ instance'[a].at = "El_review"
        \/ instance[a].at = "El_review" /\ instance'[a].at = "El_evaluate"
        \/ instance[a].at = "El_review" /\ instance'[a].at = "El_rejected"
        \/ instance[a].at = "El_review" /\ instance'[a].at = "El_issue"
        \/ instance[a].at = "El_issue" /\ instance'[a].at = "El_approved"
    BY <1>4 DEF TokenMoved, Moved, SameStage
  <2>2. /\ StageOf["none"] = "draft" /\ StageOf["El_pay"] = "payment"
        /\ StageOf["El_schedule"] = "scheduling" /\ StageOf["El_evaluate"] = "visit"
        /\ StageOf["El_review"] = "review" /\ StageOf["El_issue"] = "issuing"
        /\ StageOf["El_notEligible"] = "refused" /\ StageOf["El_rejected"] = "rejected"
        /\ StageOf["El_approved"] = "granted"
    BY DEF StageOf
  <2>3. /\ instance[a].at = "El_schedule" => V[a]
        /\ instance[a].at = "El_issue" => C[a]
    BY <1>4 DEF TokenMoved
  <2>4. S[a] = StageOf[instance[a].at]
    OBVIOUS
  <2> HIDE DEF S, V, C
  <2>5. S' = [S EXCEPT ![a] = StageOf[instance'[a].at]]
    BY <1>2
  <2> DEFINE D == \/ S[a] = "draft" /\ S' = [S EXCEPT ![a] = "payment"]
                  \/ S[a] = "draft" /\ S' = [S EXCEPT ![a] = "refused"]
                  \/ S[a] = "payment" /\ S' = [S EXCEPT ![a] = "scheduling"]
                  \/ S[a] = "scheduling" /\ V[a] /\ S' = [S EXCEPT ![a] = "visit"]
                  \/ S[a] = "visit" /\ S' = [S EXCEPT ![a] = "review"]
                  \/ S[a] = "review" /\ S' = [S EXCEPT ![a] = "visit"]
                  \/ S[a] = "review" /\ S' = [S EXCEPT ![a] = "rejected"]
                  \/ S[a] = "review" /\ S' = [S EXCEPT ![a] = "issuing"]
                  \/ S[a] = "issuing" /\ C[a] /\ S' = [S EXCEPT ![a] = "granted"]
  <2>6. instance[a].at = "none" /\ instance'[a].at = "El_pay" => D
    BY <2>2, <2>4, <2>5
  <2>7. instance[a].at = "none" /\ instance'[a].at = "El_notEligible" => D
    BY <2>2, <2>4, <2>5
  <2>8. instance[a].at = "El_pay" /\ instance'[a].at = "El_schedule" => D
    BY <2>2, <2>4, <2>5
  <2>9. ASSUME instance[a].at = "El_schedule", instance'[a].at = "El_evaluate"
        PROVE  D
    <3>1. S[a] = "scheduling" /\ S' = [S EXCEPT ![a] = "visit"]
      BY <2>2, <2>4, <2>5, <2>9
    <3>2. V[a]
      BY <2>3, <2>9
    <3> QED  BY <3>1, <3>2
  <2>10. instance[a].at = "El_evaluate" /\ instance'[a].at = "El_review" => D
    BY <2>2, <2>4, <2>5
  <2>11. instance[a].at = "El_review" /\ instance'[a].at = "El_evaluate" => D
    BY <2>2, <2>4, <2>5
  <2>12. instance[a].at = "El_review" /\ instance'[a].at = "El_rejected" => D
    BY <2>2, <2>4, <2>5
  <2>13. instance[a].at = "El_review" /\ instance'[a].at = "El_issue" => D
    BY <2>2, <2>4, <2>5
  <2>14. ASSUME instance[a].at = "El_issue", instance'[a].at = "El_approved"
        PROVE  D
    <3>1. S[a] = "issuing" /\ S' = [S EXCEPT ![a] = "granted"]
      BY <2>2, <2>4, <2>5, <2>14
    <3>2. C[a]
      BY <2>3, <2>14
    <3> QED  BY <3>1, <3>2
  <2>15. D
    BY <2>1, <2>6, <2>7, <2>8, <2>9, <2>10, <2>11, <2>12, <2>13, <2>14
  <2> USE DEF S, V, C
  <2>16. Lifecycle!Next
    BY <1>1, <2>15
    DEF Lifecycle!Next, Lifecycle!Moves, Lifecycle!File, Lifecycle!Pay,
        Lifecycle!Visit, Lifecycle!Report, Lifecycle!SendBack, Lifecycle!Reject,
        Lifecycle!Approve, Lifecycle!Grant
  <2> QED  BY <2>16
<1> QED  BY <1>3, <1>4

LEMMA CodeStep ==
  ASSUME NEW a \in Apps, Coded(a)
  PROVE  [Lifecycle!Next]_(Lifecycle!vars)
<1> DEFINE S == [b \in Apps |-> StageOf[instance[b].at]]
           V == [b \in Apps |-> record[b].visit]
           C == [b \in Apps |-> record[b].qr # 0]
<1>1. V' = V /\ S' = S
  BY DEF Coded, Same, SameStage, SameDate
<1>2. C' = [C EXCEPT ![a] = TRUE]
  BY DEF Coded, Same, SameCode
<1>3. S[a] \in Lifecycle!DecidedStages
  BY DEF Coded, Decided, EndEvents, StageOf, Lifecycle!DecidedStages
<1> QED  BY <1>1, <1>2, <1>3 DEF Lifecycle!Next, Lifecycle!License

LEMMA DateStep ==
  ASSUME NEW a \in Apps, Dated(a)
  PROVE  [Lifecycle!Next]_(Lifecycle!vars)
<1> DEFINE S == [b \in Apps |-> StageOf[instance[b].at]]
           V == [b \in Apps |-> record[b].visit]
           C == [b \in Apps |-> record[b].qr # 0]
<1>1. C' = C /\ S' = S
  BY DEF Dated, Same, SameStage, SameCode
<1>2. V' = [V EXCEPT ![a] = TRUE]
  BY DEF Dated, Same, SameDate
<1>3. S[a] = "scheduling"
  BY DEF Dated, StageOf
<1> QED  BY <1>1, <1>2, <1>3 DEF Lifecycle!Next, Lifecycle!SetVisit

LEMMA KindsImplement ==
  ASSUME Kinds
  PROVE  [Lifecycle!Next]_(Lifecycle!vars)
BY QuietStutters, TokenStep, CodeStep, DateStep DEF Kinds

LEMMA LifecycleInit == Init => Lifecycle!Init
<1> SUFFICES ASSUME Init PROVE Lifecycle!Init
  OBVIOUS
<1>1. \A a \in Apps : /\ StageOf[instance[a].at] = "draft"
                      /\ record[a].visit = FALSE /\ (record[a].qr # 0) = FALSE
  BY DEF Init, RecordsInit, NoInstance, NoRecord, StageOf
<1> QED  BY <1>1 DEF Lifecycle!Init

-----------------------------------------------------------------------------
(* Each step of the workflow is of one of the kinds. *)

LEMMA UntouchedIsQuiet ==
  ASSUME UNCHANGED <<record, instance>>
  PROVE  Quiet
BY DEF Quiet, Same, SameStage, SameDate, SameCode

LEMMA LicenseIsCoded ==
  ASSUME RecordsType, NEW a \in Apps, Decided(a), UNCHANGED instance,
         NEW n \in Nat, n # 0,
         record' = [record EXCEPT ![a].status = "completed", ![a].qr = n]
  PROVE  Coded(a)
<1>1. record'[a].qr = n /\ record'[a].visit = record[a].visit
  BY DEF RecordsType, Records
<1>2. \A b \in Apps : b # a => record'[b] = record[b]
  BY DEF RecordsType
<1> QED  BY <1>1, <1>2 DEF Coded, Same, SameStage, SameDate, SameCode

LEMMA WrittenIsCoded ==
  ASSUME RecordsType, NEW a \in Apps, Decided(a), UNCHANGED instance, WriteLicense(a)
  PROVE  Coded(a)
BY WriteLicensePatch, LicenseIsCoded

\* A patch of other columns is invisible.
LEMMA PatchIsQuiet ==
  ASSUME RecordsType, NEW a \in Apps, UNCHANGED instance, NEW v,
         \/ record' = [record EXCEPT ![a].status = v]
         \/ record' = [record EXCEPT ![a].eligible = v]
         \/ record' = [record EXCEPT ![a].breached = TRUE]
  PROVE  Quiet
<1>1. \A b \in Apps : /\ record'[b].qr = record[b].qr
                      /\ record'[b].visit = record[b].visit
  BY DEF RecordsType, Records
<1> QED  BY <1>1 DEF Quiet, Same, SameStage, SameDate, SameCode

LEMMA SubmitKinds ==
  ASSUME SafetyInv, ~EngineMayFail, NEW s \in Submitters,
         SubmitBegin(s) \/ SubmitContinues(s) \/ SubmitFails(s)
  PROVE  Kinds
<1> USE DEF SafetyInv, TypeInv, TypeOK
<1>1. CASE UNCHANGED <<record, instance>>
  BY <1>1, UntouchedIsQuiet DEF Kinds
<1>2. CASE CreateApplication(s)
  <2>1. PICK a \in Apps :
           /\ record[a].status = "absent"
           /\ record' = [record EXCEPT ![a] =
                            NewRecord(submit[s].identity, submit[s].facts)]
    BY <1>2 DEF CreateApplication, Unfiled
  <2>2. instance' = instance
    BY <1>2 DEF CreateApplication
  <2>3. record[a].visit = FALSE /\ record[a].qr = 0
    <3>1. instance[a].at = "none" /\ ~record[a].visit /\ record[a].visit \in BOOLEAN
      BY <2>1 DEF RecordInv, FiledInv, RecordsType, Records
    <3>2. ~Decided(a)
      BY <3>1 DEF Decided, EndEvents
    <3> QED  BY <3>1, <3>2 DEF RecordInv, LicenseOnlyWhenDecided
  <2>4. /\ record'[a].visit = FALSE /\ record'[a].qr = 0
        /\ \A b \in Apps : b # a => record'[b] = record[b]
    BY <2>1 DEF RecordsType, NewRecord, NoRecord
  <2> QED
    BY <2>2, <2>3, <2>4 DEF Kinds, Quiet, Same, SameStage, SameDate, SameCode
<1>3. CASE StartProcess(s)
  <2>a. PICK a : a = submit[s].app
    OBVIOUS
  <2>1. a \in Apps /\ instance[a].at = "none"
    BY <1>3, <2>a DEF StartProcess, SubmitHasApp, SubmitInv
  <2>2. Eligible(submit[s].facts, requirement) \in BOOLEAN
    BY DEF Eligible
  <2>3. /\ record' = record
        /\ instance'[a].at \in {"El_pay", "El_notEligible"}
        /\ \A b \in Apps : b # a => instance'[b] = instance[b]
    BY <1>3, <2>a, <2>1, <2>2, StartMoves DEF StartProcess, RecordsType
  <2>4. TokenMoved(a)
    BY <2>1, <2>3 DEF TokenMoved, Moved, Same, SameStage, SameDate, SameCode
  <2> QED  BY <2>1, <2>4 DEF Kinds
<1>4. CASE StoreVerdict(s)
  <2>1. submit[s].app \in Apps /\ instance' = instance
    BY <1>4 DEF StoreVerdict, SubmitHasApp
  <2> QED  BY <1>4, <2>1, PatchIsQuiet DEF StoreVerdict, Kinds
<1>5. CASE IssueOnSubmit(s)
  <2>1. submit[s].app \in Apps /\ Decided(submit[s].app) /\ instance' = instance
    BY <1>5 DEF IssueOnSubmit, SubmitHasApp, SubmitInv
  <2> QED  BY <1>5, <2>1, WrittenIsCoded DEF IssueOnSubmit, Kinds
<1> QED
  BY <1>1, <1>2, <1>3, <1>4, <1>5
  DEF SubmitBegin, SubmitContinues, SubmitFails, FindByIdentity, EvaluateDecision,
      CheckFinished, recordVars

LEMMA TaskKinds ==
  ASSUME SafetyInv, NEW h \in Completers,
         TaskBegin(h) \/ TaskContinues(h) \/ TaskFails(h)
  PROVE  Kinds
<1> USE DEF SafetyInv, TypeInv, TypeOK
<1>1. CASE UNCHANGED <<record, instance>>
  BY <1>1, UntouchedIsQuiet DEF Kinds
<1>a. PICK a : a = task[h].app
  OBVIOUS
<1>2. task[h].pc # "idle" => a \in Apps /\ task[h] \in Activation
  BY <1>a, ActivationHolds
<1>3. CASE CompleteTask(h) /\ TaskOpen(h)
  <2>1. a \in Apps /\ task[h] \in Activation
    BY <1>2, <1>3 DEF CompleteTask
  <2>2. instance[a].at = task[h].form.step /\ task[h].form \in TaskForms
    BY <1>a, <1>3, <2>1 DEF TaskOpen, Activation
  <2>3. \/ instance[a].at \in {"El_pay", "El_evaluate"}
        \/ /\ instance[a].at = "El_review"
           /\ task[h].form.outcome \in {"comments", "approve", "reject"}
    BY <2>2 DEF TaskForms, Form
  <2>4. /\ instance'[a] = Advance(instance[a], task[h].form.outcome)
        /\ record' = record
        /\ \A b \in Apps : b # a => instance'[b] = instance[b]
    BY <1>a, <1>3, <2>1 DEF CompleteTask, RecordsType
  <2>5. instance[a] \in Instances
    BY <2>1 DEF RecordsType
  <2>6. Moved(instance[a].at, instance'[a].at)
    BY <2>3, <2>4, <2>5, AdvanceMoves DEF Moved, SequenceFlow, ReviewGateway
  <2>7. TokenMoved(a)
    BY <2>3, <2>4, <2>6 DEF TokenMoved, Same, SameStage, SameDate, SameCode
  <2> QED  BY <2>1, <2>7 DEF Kinds
<1>4. CASE RewriteLicense(h)
  <2>1. /\ a \in Apps /\ Decided(a) /\ task[h].code \in Nat /\ task[h].code # 0
        /\ instance' = instance
    BY <1>a, <1>2, <1>4 DEF RewriteLicense, TaskInv, Activation
  <2> QED  BY <1>a, <1>4, <2>1, LicenseIsCoded DEF RewriteLicense, Kinds
<1>5. CASE IssueOnCompletion(h)
  <2>1. a \in Apps /\ Decided(a) /\ instance' = instance
    BY <1>a, <1>2, <1>5 DEF IssueOnCompletion, TaskInv
  <2> QED  BY <1>a, <1>5, <2>1, WrittenIsCoded DEF IssueOnCompletion, Kinds
<1>6. CASE UpdateApplication(h)
  <2>1. a \in Apps /\ task[h].code \in Nat /\ instance' = instance
    BY <1>2, <1>6 DEF UpdateApplication, Activation
  <2>2. CASE task[h].code = 0
    BY <1>a, <1>6, <2>1, <2>2, PatchIsQuiet DEF UpdateApplication, Kinds
  <2>3. CASE task[h].code # 0
    <3>1. Decided(a)
      BY <1>a, <1>6, <2>3 DEF UpdateApplication, TaskInv
    <3> QED  BY <1>a, <1>6, <2>1, <2>3, <3>1, LicenseIsCoded DEF UpdateApplication, Kinds
  <2> QED  BY <2>2, <2>3
<1> QED
  BY <1>1, <1>3, <1>4, <1>5, <1>6
  DEF TaskBegin, TaskContinues, TaskFails, CompleteTask, CheckStillActive, ReadLicense,
      recordVars

LEMMA HandleKinds ==
  ASSUME SafetyInv, NEW p \in Polls, HandleTask(p)
  PROVE  Kinds
<1> USE DEF SafetyInv, TypeInv, TypeOK
<1>1. PICK t \in poll[p].todo :
        \/ /\ t.step = "El_schedule"
           /\ record' = [record EXCEPT ![t.app].status = "field_visit_scheduled",
                                       ![t.app].visit = TRUE]
        \/ record' = [record EXCEPT ![t.app].breached = TRUE]
        \/ t.step = "El_issue" /\ WriteLicense(t.app)
  BY DEF HandleTask
<1>2. t.app \in Apps /\ UNCHANGED instance
  BY PollHolds DEF HandleTask
<1>3. CASE /\ t.step = "El_schedule"
           /\ record' = [record EXCEPT ![t.app].status = "field_visit_scheduled",
                                       ![t.app].visit = TRUE]
  <2>1. /\ record'[t.app].visit = TRUE /\ record'[t.app].qr = record[t.app].qr
        /\ \A b \in Apps : b # t.app => record'[b] = record[b]
    BY <1>2, <1>3 DEF RecordsType, Records
  <2>2. CASE instance[t.app].at = "El_schedule"
    BY <1>2, <2>1, <2>2 DEF Kinds, Dated, Same, SameStage, SameDate, SameCode
  <2>3. CASE instance[t.app].at # "El_schedule"
    <3>1. record[t.app].visit = TRUE
      BY <1>2, <1>3, <2>3
      DEF WorkerInv, Scheduled, Visited, RecordInv, EffectsPrecedeProgress,
          RecordsType, Records
    <3> QED
      BY <1>2, <2>1, <3>1 DEF Kinds, Quiet, Same, SameStage, SameDate, SameCode
  <2> QED  BY <2>2, <2>3
<1>4. CASE record' = [record EXCEPT ![t.app].breached = TRUE]
  BY <1>2, <1>4, PatchIsQuiet DEF Kinds
<1>5. CASE t.step = "El_issue" /\ WriteLicense(t.app)
  <2>1. Decided(t.app)
    BY <1>5 DEF WorkerInv, Approved, Decided, EndEvents
  <2> QED  BY <1>2, <1>5, <2>1, WrittenIsCoded DEF Kinds
<1> QED  BY <1>1, <1>3, <1>4, <1>5

LEMMA CompleteKinds ==
  ASSUME SafetyInv, NEW p \in Polls, CompleteExternalTask(p)
  PROVE  Kinds
<1> USE DEF SafetyInv, TypeInv, TypeOK
<1>t. PICK t : t = poll[p].current
  OBVIOUS
<1>1. /\ t.app \in Apps /\ t.round \in Nat /\ record' = record
      /\ t.step = "El_issue" => record[t.app].qr # 0
      /\ t.step = "El_schedule" => record[t.app].visit
  BY <1>t, PollHolds DEF CompleteExternalTask, WorkerInv
<1>2. \A b \in Apps : b # t.app => instance'[b] = instance[b]
  BY <1>t DEF CompleteExternalTask, RecordsType
<1>3. instance[t.app] \in Instances
  BY <1>1 DEF RecordsType
<1>4. CASE instance'[t.app].at = instance[t.app].at
  BY <1>1, <1>2, <1>4 DEF Kinds, Quiet, Same, SameStage, SameDate, SameCode
<1>5. CASE t \in OpenTasks /\ t.step # Escalate
  <2>1. t.step \in WorkerSteps /\ instance[t.app].at = t.step
    BY <1>5, OpenTaskMeaning DEF RecordsType
  <2>2. instance'[t.app] = Advance(instance[t.app], "none")
    BY <1>t, <1>1, <1>5 DEF CompleteExternalTask, RecordsType
  <2>3. Moved(instance[t.app].at, instance'[t.app].at)
    BY <1>3, <2>1, <2>2, AdvanceMoves DEF Moved, WorkerSteps, SequenceFlow
  <2>4. TokenMoved(t.app)
    BY <1>1, <1>2, <2>1, <2>3 DEF TokenMoved, Same, SameStage, SameDate, SameCode
  <2> QED  BY <1>1, <2>4 DEF Kinds
<1>6. CASE t \in OpenTasks /\ t.step = Escalate
  <2>1. instance'[t.app] = EndEscalation(instance[t.app], t.round)
    BY <1>t, <1>1, <1>6 DEF CompleteExternalTask, RecordsType
  <2> QED  BY <1>1, <1>3, <1>4, <2>1, EscalationMoves
<1>7. CASE t \notin OpenTasks
  BY <1>t, <1>4, <1>7 DEF CompleteExternalTask
<1> QED  BY <1>5, <1>6, <1>7

LEMMA WorkerKinds ==
  ASSUME SafetyInv, WorkerNext
  PROVE  Kinds
<1>1. CASE UNCHANGED <<record, instance>>
  BY <1>1, UntouchedIsQuiet DEF Kinds
<1>2. ASSUME NEW p \in Polls, FetchAndLock(p) \/ HandlerFails(p)
      PROVE  UNCHANGED <<record, instance>>
  BY <1>2 DEF FetchAndLock, HandlerFails, recordVars
<1>3. ASSUME NEW t \in locked, LockExpires(t) \/ LockExpiresEarly(t)
      PROVE  UNCHANGED <<record, instance>>
  BY <1>3 DEF LockExpires, LockExpiresEarly, recordVars
<1> QED
  BY <1>1, <1>2, <1>3, HandleKinds, CompleteKinds DEF WorkerNext, PollContinues

LEMMA TimerKinds ==
  ASSUME SafetyInv, NEW a \in Apps, ReviewTimerFires(a)
  PROVE  Kinds
<1>1. record' = record /\ \A b \in Apps : instance'[b].at = instance[b].at
  <2>1. FireTimer(instance[a]).at = instance[a].at
    BY DEF SafetyInv, TypeInv, TypeOK, RecordsType, Instances, FireTimer
  <2> QED  BY <2>1 DEF ReviewTimerFires, SafetyInv, TypeInv, TypeOK, RecordsType
<1> QED  BY <1>1 DEF Kinds, Quiet, Same, SameStage, SameDate, SameCode

LEMMA NextKinds ==
  ASSUME SafetyInv, ~EngineMayFail, [Next]_vars
  PROVE  Kinds
<1>1. CASE UNCHANGED <<record, instance>>
  BY <1>1, UntouchedIsQuiet DEF Kinds
<1>2. CASE StorePending
  <2>1. backfill.app \in Apps /\ instance' = instance
    BY <1>2 DEF StorePending, SafetyInv, TypeInv, BackfillHasApp
  <2> QED
    BY <1>2, <2>1, PatchIsQuiet DEF StorePending, SafetyInv, TypeInv, TypeOK, Kinds
<1>3. CASE BackfillContinues \/ BackfillFails
  BY <1>1, <1>2, <1>3
  DEF BackfillContinues, BackfillFails, ListPending, EvaluatePending, recordVars
<1>4. CASE SubmitNext \/ TaskNext
  BY <1>4, SubmitKinds, TaskKinds DEF SubmitNext, TaskNext
<1>5. CASE UpdateRequirement \/ Crash \/ UNCHANGED vars
  BY <1>1, <1>5 DEF UpdateRequirement, Crash, vars
<1> QED  BY <1>3, <1>4, <1>5, WorkerKinds, TimerKinds DEF Next

\* While look-ups answer, every behaviour of the handlers, polls, timer,
\* crashes and retries is a behaviour of the lifecycle.
THEOREM WorkflowImplementsLifecycle ==
  ASSUME ~EngineMayFail
  PROVE  Spec => ImplementsLifecycle
<1>1. Init => Lifecycle!Init
  BY LifecycleInit
<1>2. SafetyInv /\ [Next]_vars => [Lifecycle!Next]_(Lifecycle!vars)
  BY NextKinds, KindsImplement
<1> QED
  BY <1>1, <1>2, AlwaysSafe, PTL DEF Spec, ImplementsLifecycle, Lifecycle!Spec

=============================================================================
