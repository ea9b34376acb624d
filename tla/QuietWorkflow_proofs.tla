------------------------ MODULE QuietWorkflow_proofs ------------------------
(***************************************************************************)
(* What LicenseWorkflow promises unless a race disturbs it: until two       *)
(* submissions file one identity together, a decision overtakes a handler, *)
(* the requirement changes or something fails.  Each theorem says which.    *)
(***************************************************************************)
EXTENDS LicenseWorkflow_proofs

\* Submissions in progress that have their record.
Filing == {"start", "evaluate", "store", "check", "issue"}

\* What no step but the creation of a record does to a record: it keeps who
\* filed it and what they answered.
Kept(b) ==
    /\ record'[b].identity = record[b].identity
    /\ record'[b].facts = record[b].facts
    /\ record[b].status # "absent" => record'[b].status # "absent"

\* The main token stays before the decision, at its refusal, or beyond it.
SameSide(b) ==
    \/ instance'[b].at = instance[b].at
    \/ {instance[b].at, instance'[b].at} \cap {"none", "El_notEligible"} = {}

\* A step that neither files an application nor decides about one.
Plain == \A b \in Apps :
    Kept(b) /\ record'[b].eligible = record[b].eligible /\ SameSide(b)

-----------------------------------------------------------------------------
(* Which steps are plain. *)

LEMMA StillIsPlain ==
  ASSUME UNCHANGED <<record, instance>>
  PROVE  Plain
BY DEF Plain, Kept, SameSide

LEMMA PatchIsPlain ==
  ASSUME RecordsType, UNCHANGED instance, NEW a, NEW n, NEW st \in Statuses,
         \/ record' = [record EXCEPT ![a].status = st]
         \/ record' = [record EXCEPT ![a].status = st, ![a].qr = n]
         \/ record' = [record EXCEPT ![a].status = st, ![a].visit = TRUE]
         \/ record' = [record EXCEPT ![a].breached = TRUE]
  PROVE  Plain
<1>1. st # "absent"
  BY DEF Statuses
<1>2. ASSUME NEW b \in Apps
      PROVE  Kept(b) /\ record'[b].eligible = record[b].eligible
  <2>1. record[b] \in Records
    BY DEF RecordsType
  <2>2. \/ record'[b] = record[b]
        \/ record'[b] = [record[b] EXCEPT !.status = st]
        \/ record'[b] = [[record[b] EXCEPT !.status = st] EXCEPT !.qr = n]
        \/ record'[b] = [[record[b] EXCEPT !.status = st] EXCEPT !.visit = TRUE]
        \/ record'[b] = [record[b] EXCEPT !.breached = TRUE]
    BY DEF RecordsType
  <2>3. /\ record'[b].identity = record[b].identity
        /\ record'[b].facts = record[b].facts
        /\ record'[b].eligible = record[b].eligible
    BY <2>1, <2>2 DEF Records
  <2>4. record'[b].status \in {record[b].status, st}
    BY <2>1, <2>2 DEF Records
  <2> QED  BY <1>1, <2>3, <2>4 DEF Kept
<1> QED  BY <1>2 DEF Plain, SameSide

LEMMA LicenseIsPlain ==
  ASSUME RecordsType, UNCHANGED instance, NEW a, WriteLicense(a)
  PROVE  Plain
<1>1. "completed" \in Statuses
  BY DEF Statuses
<1>2. record' = [record EXCEPT ![a].status = "completed", ![a].qr = lastCode[a] + 1]
  BY DEF WriteLicense
<1> QED  BY <1>1, <1>2, PatchIsPlain

\* Storing a verdict keeps everything but the verdict.
LEMMA VerdictPatchKeeps ==
  ASSUME RecordsType, NEW a \in Apps, NEW v,
         record' = [record EXCEPT ![a].eligible = v]
  PROVE  /\ \A b \in Apps : Kept(b)
         /\ record'[a].eligible = v
         /\ \A b \in Apps : b # a => record'[b].eligible = record[b].eligible
BY DEF RecordsType, Records, Kept

\* A new record, at a place that was free.
LEMMA CreationFiles ==
  ASSUME RecordsType, SubmitType, NEW s \in Submitters, CreateApplication(s)
  PROVE  \E a \in Apps :
           /\ record[a].status = "absent"
           /\ record' = [record EXCEPT ![a] =
                            NewRecord(submit[s].identity, submit[s].facts)]
           /\ record'[a].status # "absent"
           /\ record'[a].identity = submit[s].identity
           /\ record'[a].facts = submit[s].facts
           /\ record'[a].eligible = "unset"
           /\ submit' = [submit EXCEPT ![s].pc = "start", ![s].app = a]
           /\ submit'[s].app = a /\ submit'[s].facts = submit[s].facts
           /\ \A b \in Apps : b # a => record'[b] = record[b]
           /\ UNCHANGED instance
<1>1. PICK a \in Apps :
         /\ record[a].status = "absent"
         /\ record' = [record EXCEPT ![a] =
                          NewRecord(submit[s].identity, submit[s].facts)]
         /\ submit' = [submit EXCEPT ![s].pc = "start", ![s].app = a]
  BY DEF CreateApplication, Unfiled
<1>2. /\ record'[a] = NewRecord(submit[s].identity, submit[s].facts)
      /\ \A b \in Apps : b # a => record'[b] = record[b]
  BY <1>1 DEF RecordsType
<1>3. /\ record'[a].status = "submitted" /\ record'[a].eligible = "unset"
      /\ record'[a].identity = submit[s].identity /\ record'[a].facts = submit[s].facts
  BY <1>2 DEF NewRecord, NoRecord
<1>4. submit'[s].app = a /\ submit'[s].facts = submit[s].facts
  BY <1>1 DEF SubmitType
<1>5. UNCHANGED instance
  BY DEF CreateApplication
<1> QED  BY <1>1, <1>2, <1>3, <1>4, <1>5

LEMMA TaskNextIsPlain ==
  ASSUME TypeInv, TaskNext
  PROVE  Plain
<1> USE DEF TypeInv, TypeOK
<1>1. PICK h \in Completers : TaskBegin(h) \/ TaskContinues(h) \/ TaskFails(h)
  BY DEF TaskNext
<1>a. PICK a : a = task[h].app
  OBVIOUS
<1>2. task[h].pc # "idle" =>
        a \in Apps /\ task[h].code \in Nat /\ task[h].form \in TaskForms
          /\ task[h].form.status \in Statuses
  BY <1>a, ActivationHolds
<1>3. CASE CompleteTask(h) /\ TaskOpen(h)
  <2>1. /\ a \in Apps /\ task[h].form \in TaskForms
        /\ instance[a].at = task[h].form.step /\ instance[a] \in Instances
    BY <1>a, <1>2, <1>3 DEF CompleteTask, TaskOpen, RecordsType
  <2>2. \/ instance[a].at \in {"El_pay", "El_evaluate"}
        \/ /\ instance[a].at = "El_review"
           /\ task[h].form.outcome \in {"comments", "approve", "reject"}
    BY <2>1 DEF TaskForms, Form
  <2>3. /\ instance'[a] = Advance(instance[a], task[h].form.outcome)
        /\ record' = record
        /\ \A b \in Apps : b # a => instance'[b] = instance[b]
    BY <1>a, <1>3, <2>1 DEF CompleteTask, RecordsType
  <2>4. instance'[a].at \in {"El_schedule", "El_evaluate", "El_review", "El_rejected",
                             "El_issue"}
    BY <2>1, <2>2, <2>3, AdvanceMoves DEF SequenceFlow, ReviewGateway
  <2> QED  BY <2>2, <2>3, <2>4 DEF Plain, Kept, SameSide
<1>4. CASE RewriteLicense(h)
  <2>1. "completed" \in Statuses
    BY DEF Statuses
  <2> QED  BY <1>a, <1>4, <2>1, PatchIsPlain DEF RewriteLicense
<1>5. CASE IssueOnCompletion(h)
  BY <1>a, <1>5, LicenseIsPlain DEF IssueOnCompletion
<1>6. CASE UpdateApplication(h)
  <2>1. "completed" \in Statuses /\ task[h].form.status \in Statuses
    BY <1>2, <1>6 DEF UpdateApplication, Statuses
  <2>2. UNCHANGED instance
    BY <1>6 DEF UpdateApplication
  <2>3. \/ record' = [record EXCEPT ![a].status = task[h].form.status]
        \/ record' = [record EXCEPT ![a].status = "completed", ![a].qr = task[h].code]
    BY <1>a, <1>6 DEF UpdateApplication
  <2> QED  BY <2>1, <2>2, <2>3, PatchIsPlain
<1> QED
  BY <1>1, <1>3, <1>4, <1>5, <1>6, StillIsPlain
  DEF TaskBegin, TaskContinues, TaskFails, CompleteTask, CheckStillActive, ReadLicense,
      recordVars

LEMMA WorkerNextIsPlain ==
  ASSUME TypeInv, WorkerNext
  PROVE  Plain
<1> USE DEF TypeInv, TypeOK
<1>1. ASSUME NEW p \in Polls, HandleTask(p) PROVE Plain
  <2>1. PICK t \in poll[p].todo :
          \/ record' = [record EXCEPT ![t.app].status = "field_visit_scheduled",
                                      ![t.app].visit = TRUE]
          \/ record' = [record EXCEPT ![t.app].breached = TRUE]
          \/ WriteLicense(t.app)
    BY <1>1 DEF HandleTask
  <2>2. "field_visit_scheduled" \in Statuses /\ UNCHANGED instance
    BY <1>1 DEF HandleTask, Statuses
  <2> QED  BY <2>1, <2>2, PatchIsPlain, LicenseIsPlain
<1>2. ASSUME NEW p \in Polls, CompleteExternalTask(p) PROVE Plain
  <2>t. PICK t : t = poll[p].current
    OBVIOUS
  <2>1. t \in ExternalTasks /\ t.app \in Apps /\ t.round \in Nat
    BY <1>2, <2>t, PollHolds DEF CompleteExternalTask
  <2>2. /\ record' = record
        /\ \A b \in Apps : b # t.app => instance'[b] = instance[b]
    BY <1>2, <2>t DEF CompleteExternalTask, RecordsType
  <2>3. SameSide(t.app)
    <3>1. CASE t \notin OpenTasks
      BY <1>2, <2>t, <3>1 DEF CompleteExternalTask, SameSide
    <3>2. CASE t \in OpenTasks /\ t.step = Escalate
      <4>1. instance'[t.app] = EndEscalation(instance[t.app], t.round)
        BY <1>2, <2>t, <2>1, <3>2 DEF CompleteExternalTask, RecordsType
      <4>2. instance[t.app] \in Instances
        BY <2>1 DEF RecordsType
      <4> QED  BY <2>1, <4>1, <4>2, EscalationMoves DEF SameSide
    <3>3. CASE t \in OpenTasks /\ t.step # Escalate
      <4>1. t.step \in WorkerSteps /\ instance[t.app].at = t.step
        BY <3>3, OpenTaskMeaning DEF RecordsType
      <4>2. instance'[t.app] = Advance(instance[t.app], "none")
        BY <1>2, <2>t, <2>1, <3>3 DEF CompleteExternalTask, RecordsType
      <4>3. instance[t.app] \in Instances
        BY <2>1 DEF RecordsType
      <4>4. instance'[t.app].at \in {"El_evaluate", "El_approved"}
        BY <4>1, <4>2, <4>3, AdvanceMoves DEF WorkerSteps, SequenceFlow
      <4> QED  BY <4>1, <4>4 DEF SameSide, WorkerSteps
    <3> QED  BY <3>1, <3>2, <3>3
  <2> QED  BY <2>2, <2>3 DEF Plain, Kept, SameSide
<1> QED
  BY <1>1, <1>2, StillIsPlain
  DEF WorkerNext, PollContinues, FetchAndLock, HandlerFails, LockExpires,
      LockExpiresEarly, recordVars

LEMMA TimerIsPlain ==
  ASSUME TypeInv, NEW a \in Apps, ReviewTimerFires(a)
  PROVE  Plain
<1>1. instance[a] \in Instances /\ instance \in [Apps -> Instances]
  BY DEF TypeInv, TypeOK, RecordsType
<1>2. /\ record' = record
      /\ \A b \in Apps : instance'[b].at = instance[b].at
  BY <1>1, EscalationMoves DEF ReviewTimerFires, FireTimer, Instances
<1> QED  BY <1>2 DEF Plain, Kept, SameSide

-----------------------------------------------------------------------------
(* Identities. *)

\* Unless another submission found it, too, what the look-up found is still
\* true when the record is created.
NotTaken == \A s \in Submitters :
    submit[s].pc = "create" /\ submit[s].identity \notin raced \cup {NoIdentity}
      => \A a \in Apps : record[a].identity # submit[s].identity

NotShared == \A r, s \in Submitters :
    /\ r # s /\ submit[r].pc = "create" /\ submit[s].pc = "create"
    /\ submit[r].identity = submit[s].identity
    => submit[s].identity \in raced \cup {NoIdentity}

IdentityInv == OneApplicationPerIdentity /\ NotTaken /\ NotShared

LEMMA IdentityKept ==
  ASSUME IdentityInv, UNCHANGED submit, \A a \in Apps : Kept(a), raced \subseteq raced'
  PROVE  IdentityInv'
<1>1. OneApplicationPerIdentity'
  BY DEF IdentityInv, OneApplicationPerIdentity, Kept
<1>2. NotTaken'
  BY DEF IdentityInv, NotTaken, Kept
<1>3. NotShared'
  BY DEF IdentityInv, NotShared
<1> QED  BY <1>1, <1>2, <1>3 DEF IdentityInv

LEMMA IdentitySubmit ==
  ASSUME TypeInv, IdentityInv, SubmitNext, Remembers
  PROVE  IdentityInv'
<1> USE DEF TypeInv, TypeOK
<1>1. PICK s \in Submitters : SubmitBegin(s) \/ SubmitContinues(s) \/ SubmitFails(s)
  BY DEF SubmitNext
<1>2. /\ raced \subseteq raced'
      /\ \A r \in Submitters : r # s => submit'[r] = submit[r]
  BY <1>1
  DEF Remembers, SubmitBegin, SubmitContinues, SubmitFails, FindByIdentity,
      CreateApplication, StartProcess, EvaluateDecision, StoreVerdict, CheckFinished,
      IssueOnSubmit, SubmitGoes, SubmitEnds, SubmitType
<1>3. ASSUME \A a \in Apps : Kept(a),
             \/ submit'[s].pc # "create"
             \/ submit'[s].identity = NoIdentity
             \/ /\ \A a \in Apps : record[a].identity # submit'[s].identity
                /\ \A r \in Submitters :
                     /\ r # s /\ submit[r].pc = "create"
                     /\ submit[r].identity = submit'[s].identity
                     => submit'[s].identity \in raced' \cup {NoIdentity}
      PROVE  IdentityInv'
  <2>1. OneApplicationPerIdentity'
    BY <1>2, <1>3 DEF IdentityInv, OneApplicationPerIdentity, Kept
  <2>2. NotTaken'
    BY <1>2, <1>3 DEF IdentityInv, NotTaken, Kept
  <2>3. NotShared'
    BY <1>2, <1>3 DEF IdentityInv, NotShared
  <2> QED  BY <2>1, <2>2, <2>3 DEF IdentityInv
<1>4. UNCHANGED record => \A a \in Apps : Kept(a)
  BY DEF Kept
<1>5. SubmitEnds(s) => submit'[s].pc # "create"
  BY DEF SubmitEnds, SubmitType, IdleSubmit
<1>6. ASSUME NEW pc, SubmitGoes(s, pc), pc # "create"
      PROVE  submit'[s].pc # "create"
  BY <1>6 DEF SubmitGoes, SubmitType
<1>7. CASE SubmitBegin(s)
  <2>1. PICK id \in Identities \cup {NoIdentity}, f \in FormFacts :
          submit' = [submit EXCEPT ![s] =
             [pc |-> IF id = NoIdentity THEN "create" ELSE "find", app |-> NoApp,
              identity |-> id, facts |-> f, verdict |-> "unset"]]
    BY <1>7 DEF SubmitBegin
  <2>2. submit'[s].pc # "create" \/ submit'[s].identity = NoIdentity
    BY <2>1 DEF SubmitType
  <2> QED  BY <1>3, <1>4, <1>7, <2>2 DEF SubmitBegin, recordVars
<1>8. CASE FindByIdentity(s)
  <2>1. CASE \E a \in Apps : record[a].identity = submit[s].identity
    BY <1>3, <1>4, <1>5, <1>8, <2>1 DEF FindByIdentity, recordVars
  <2>2. CASE \A a \in Apps : record[a].identity # submit[s].identity
    <3>1. /\ submit'[s].identity = submit[s].identity
          /\ submit[s].pc = "find" /\ submit'[s].pc = "create"
      BY <1>8, <2>2 DEF FindByIdentity, SubmitGoes, SubmitType
    <3>2. ASSUME NEW r \in Submitters, r # s, submit[r].pc = "create",
                 submit[r].identity = submit'[s].identity
          PROVE  submit'[s].identity \in raced' \cup {NoIdentity}
      BY <3>1, <3>2 DEF Remembers, Races, SubmitType
    <3> QED  BY <1>3, <1>4, <1>8, <2>2, <3>1, <3>2 DEF FindByIdentity, recordVars
  <2> QED  BY <2>1, <2>2
<1>9. CASE CreateApplication(s)
  <2>1. PICK a \in Apps :
           /\ record'[a].identity = submit[s].identity
           /\ submit' = [submit EXCEPT ![s].pc = "start", ![s].app = a]
           /\ \A b \in Apps : b # a => record'[b] = record[b]
    BY <1>9, CreationFiles
  <2>2. submit[s].identity \notin raced \cup {NoIdentity} =>
          \A b \in Apps : record[b].identity # submit[s].identity
    BY <1>9 DEF CreateApplication, IdentityInv, NotTaken
  <2>3. OneApplicationPerIdentity'
    BY <1>2, <2>1, <2>2 DEF IdentityInv, OneApplicationPerIdentity
  <2>4. submit'[s].pc # "create"
    BY <2>1 DEF SubmitType
  <2>5. NotTaken'
    <3> SUFFICES ASSUME NEW r \in Submitters, submit'[r].pc = "create",
                        submit'[r].identity \notin raced' \cup {NoIdentity},
                        NEW b \in Apps
                 PROVE  record'[b].identity # submit'[r].identity
      BY DEF NotTaken
    <3>1. r # s /\ submit'[r] = submit[r] /\ submit[r].identity \notin raced
      BY <1>2, <2>4
    <3>2. submit[s].identity # submit[r].identity
      BY <1>9, <3>1 DEF CreateApplication, IdentityInv, NotShared
    <3>3. record[b].identity # submit[r].identity
      BY <3>1 DEF IdentityInv, NotTaken
    <3> QED  BY <2>1, <3>1, <3>2, <3>3
  <2>6. NotShared'
    BY <1>2, <2>4 DEF IdentityInv, NotShared
  <2> QED  BY <2>3, <2>5, <2>6 DEF IdentityInv
<1>10. CASE StartProcess(s)
  BY <1>3, <1>4, <1>6, <1>10 DEF StartProcess
<1>11. CASE EvaluateDecision(s)
  <2>1. submit'[s].pc # "create"
    BY <1>11 DEF EvaluateDecision, SubmitType
  <2> QED  BY <1>3, <1>4, <1>11, <2>1 DEF EvaluateDecision, recordVars
<1>12. CASE StoreVerdict(s)
  <2>1. submit[s].app \in Apps
    BY <1>12 DEF StoreVerdict, SubmitHasApp
  <2>2. \A a \in Apps : Kept(a)
    BY <1>12, <2>1, VerdictPatchKeeps DEF StoreVerdict
  <2> QED  BY <1>3, <1>6, <1>12, <2>2 DEF StoreVerdict
<1>13. CASE CheckFinished(s)
  BY <1>3, <1>4, <1>5, <1>6, <1>13 DEF CheckFinished
<1>14. CASE IssueOnSubmit(s)
  <2>1. \A a \in Apps : Kept(a)
    BY <1>14, LicenseIsPlain DEF IssueOnSubmit, Plain
  <2> QED  BY <1>3, <1>5, <1>14, <2>1 DEF IssueOnSubmit
<1>15. CASE SubmitFails(s)
  BY <1>3, <1>4, <1>5, <1>15 DEF SubmitFails
<1> QED
  BY <1>1, <1>7, <1>8, <1>9, <1>10, <1>11, <1>12, <1>13, <1>14, <1>15
  DEF SubmitContinues

\* The backfill touches nothing but verdicts.
LEMMA BackfillKeeps ==
  ASSUME TypeInv, BackfillContinues \/ BackfillFails
  PROVE  \A a \in Apps : Kept(a)
<1> USE DEF TypeInv, TypeOK
<1>1. CASE StorePending
  BY <1>1, VerdictPatchKeeps DEF StorePending, BackfillHasApp
<1>2. CASE UNCHANGED record
  BY <1>2 DEF Kept
<1> QED
  BY <1>1, <1>2
  DEF BackfillContinues, BackfillFails, ListPending, EvaluatePending, recordVars

LEMMA IdentityStep == TypeInv /\ IdentityInv /\ [Next]_vars => IdentityInv'
<1> SUFFICES ASSUME TypeInv, IdentityInv, [Next]_vars PROVE IdentityInv'
  OBVIOUS
<1>0. raced \subseteq raced'
  BY DEF Next, Remembers, vars
<1>1. CASE SubmitNext /\ Remembers
  BY <1>1, IdentitySubmit
<1>2. CASE TaskNext /\ UNCHANGED submit
  BY <1>0, <1>2, TaskNextIsPlain, IdentityKept DEF Plain
<1>3. CASE WorkerNext /\ UNCHANGED submit
  BY <1>0, <1>3, WorkerNextIsPlain, IdentityKept DEF Plain
<1>4. CASE (BackfillContinues \/ BackfillFails) /\ UNCHANGED submit
  BY <1>0, <1>4, BackfillKeeps, IdentityKept
<1>5. CASE /\ (\E a \in Apps : ReviewTimerFires(a)) \/ UpdateRequirement
           /\ UNCHANGED submit
  <2>1. UpdateRequirement => Plain
    BY StillIsPlain DEF UpdateRequirement
  <2> QED  BY <1>0, <1>5, <2>1, TimerIsPlain, IdentityKept DEF Plain
<1>6. CASE Crash
  <2>1. OneApplicationPerIdentity'
    BY <1>0, <1>6 DEF Crash, IdentityInv, OneApplicationPerIdentity
  <2>2. NotTaken' /\ NotShared'
    BY <1>6 DEF Crash, NotTaken, NotShared, IdleSubmit
  <2> QED  BY <2>1, <2>2 DEF IdentityInv
<1>7. CASE UNCHANGED vars
  BY <1>0, <1>7, StillIsPlain, IdentityKept DEF vars, Plain
<1> QED  BY <1>1, <1>2, <1>3, <1>4, <1>5, <1>6, <1>7 DEF Next

LEMMA IdentityInit == Init => IdentityInv
<1> SUFFICES ASSUME Init PROVE IdentityInv
  OBVIOUS
<1>1. \A a \in Apps : record[a].identity = NoIdentity
  BY DEF Init, RecordsInit, NoRecord
<1>2. \A s \in Submitters : submit[s].pc = "idle"
  BY DEF Init, SubmitInit, IdleSubmit
<1> QED
  BY <1>1, <1>2 DEF IdentityInv, OneApplicationPerIdentity, NotTaken, NotShared

\* No identity is filed twice, by any number of submissions and whatever
\* crashes or fails between a look-up and the creation of the record, unless
\* two submissions looked it up before either had filed it.
THEOREM OneIdentity == Spec => []OneApplicationPerIdentity
<1>1. Init => TypeInv /\ IdentityInv
  BY TypeInvInit, IdentityInit
<1>2. TypeInv /\ IdentityInv /\ [Next]_vars => TypeInv' /\ IdentityInv'
  BY TypeInvStep, IdentityStep
<1>3. IdentityInv => OneApplicationPerIdentity
  BY DEF IdentityInv
<1> QED  BY <1>1, <1>2, <1>3, PTL DEF Spec

-----------------------------------------------------------------------------
(* One requirement. *)

OneRequirement == \A q, r \in Requirements : q = r

\* No redeployment changes what the rule asks for.
SameRule == requirement' = requirement

\* The process went the way the rule says for the answers in the record,
\* every verdict that is stored or about to be is the rule's, and nothing is in
\* progress about a record that does not exist.
RecordsRule ==
    /\ \A a \in Apps : record[a].status = "absent" => instance[a].at = "none"
    /\ \A a \in Apps : instance[a].at # "none" =>
         (instance[a].at = "El_notEligible" <=> ~Eligible(record[a].facts, requirement))
    /\ \A a \in Apps : record[a].eligible \in {"unset", Verdict(record[a].facts)}

SubmitRule(s) ==
    /\ submit[s].pc \in Filing =>
         /\ record[submit[s].app].status # "absent"
         /\ submit[s].facts = record[submit[s].app].facts
    /\ submit[s].pc = "store" => submit[s].verdict = Verdict(submit[s].facts)

BackfillRule ==
    /\ \A a \in backfill.todo : record[a].status # "absent"
    /\ backfill.pc = "store" =>
         /\ record[backfill.app].status # "absent"
         /\ backfill.verdict = Verdict(record[backfill.app].facts)

RuleInv == RecordsRule /\ BackfillRule /\ \A s \in Submitters : SubmitRule(s)

LEMMA RecordsRuleKept ==
  ASSUME RecordsRule, Plain, SameRule
  PROVE  RecordsRule'
<1>1. ASSUME NEW a \in Apps, record'[a].status = "absent"
      PROVE  instance'[a].at = "none"
  <2>1. instance[a].at = "none"
    BY <1>1 DEF Plain, Kept, RecordsRule
  <2> QED  BY <2>1 DEF Plain, SameSide
<1>2. ASSUME NEW a \in Apps, instance'[a].at # "none"
      PROVE  instance'[a].at = "El_notEligible"
               <=> ~Eligible(record'[a].facts, requirement')
  <2>1. record'[a].facts = record[a].facts /\ requirement' = requirement
    BY DEF Plain, Kept, SameRule
  <2>2. /\ instance[a].at # "none"
        /\ instance'[a].at = "El_notEligible" <=> instance[a].at = "El_notEligible"
    BY <1>2 DEF Plain, SameSide
  <2> QED  BY <2>1, <2>2 DEF RecordsRule
<1>3. \A a \in Apps : record'[a].eligible \in {"unset", Verdict(record[a].facts)'}
  BY DEF RecordsRule, Plain, Kept, SameRule, Verdict
<1> QED  BY <1>1, <1>2, <1>3 DEF RecordsRule

LEMMA SubmitRuleKept ==
  ASSUME SubmitHasApp, NEW s \in Submitters, SubmitRule(s), SameRule,
         submit'[s] = submit[s],
         \A a \in Apps : record[a].status # "absent" => Kept(a)
  PROVE  SubmitRule(s)'
<1>1. submit[s].pc \in Filing => submit[s].app \in Apps
  BY DEF SubmitHasApp, Filing
<1> QED  BY <1>1 DEF SubmitRule, Kept, SameRule, Verdict

LEMMA BackfillRuleKept ==
  ASSUME BackfillRule, BackfillType, BackfillHasApp, UNCHANGED backfill, SameRule,
         \A a \in Apps : record[a].status # "absent" => Kept(a)
  PROVE  BackfillRule'
<1>1. \A a \in backfill.todo : a \in Apps
  BY DEF BackfillType
<1>2. backfill.pc = "store" => backfill.app \in Apps
  BY DEF BackfillHasApp
<1> QED  BY <1>1, <1>2 DEF BackfillRule, Kept, SameRule, Verdict

LEMMA RuleKept ==
  ASSUME RuleInv, TypeInv, Plain, SameRule, UNCHANGED <<submit, backfill>>
  PROVE  RuleInv'
<1>1. \A a \in Apps : Kept(a)
  BY DEF Plain
<1>2. \A s \in Submitters : SubmitRule(s)'
  BY <1>1, SubmitRuleKept DEF RuleInv, TypeInv
<1>3. RecordsRule' /\ BackfillRule'
  BY <1>1, RecordsRuleKept, BackfillRuleKept DEF RuleInv, TypeInv, TypeOK
<1> QED  BY <1>2, <1>3 DEF RuleInv

\* A submission's own step: the rest of the invariant follows.
LEMMA SubmitStepKept ==
  ASSUME RuleInv, TypeInv, SameRule, UNCHANGED backfill, NEW s \in Submitters,
         \A r \in Submitters : r # s => submit'[r] = submit[r],
         \A a \in Apps : record[a].status # "absent" => Kept(a),
         RecordsRule', SubmitRule(s)'
  PROVE  RuleInv'
<1>1. ASSUME NEW r \in Submitters PROVE SubmitRule(r)'
  <2>1. CASE r = s
    BY <2>1
  <2>2. CASE r # s
    BY <2>2, SubmitRuleKept DEF RuleInv, TypeInv
  <2> QED  BY <2>1, <2>2
<1>2. BackfillRule'
  BY BackfillRuleKept DEF RuleInv, TypeInv, TypeOK
<1> QED  BY <1>1, <1>2 DEF RuleInv

LEMMA SubmitNextRule ==
  ASSUME TypeInv, RuleInv, SubmitNext, SameRule, UNCHANGED backfill
  PROVE  RuleInv'
<1> USE DEF TypeInv, TypeOK
<1>1. PICK s \in Submitters : SubmitBegin(s) \/ SubmitContinues(s) \/ SubmitFails(s)
  BY DEF SubmitNext
<1>o. \A r \in Submitters : r # s => submit'[r] = submit[r]
  BY <1>1
  DEF SubmitBegin, SubmitContinues, SubmitFails, FindByIdentity, CreateApplication,
      StartProcess, EvaluateDecision, StoreVerdict, CheckFinished, IssueOnSubmit,
      SubmitGoes, SubmitEnds, SubmitType
<1>2. ASSUME Plain, SubmitRule(s)' PROVE RuleInv'
  BY <1>2, <1>o, RecordsRuleKept, SubmitStepKept DEF Plain, RuleInv
<1>3. ASSUME UNCHANGED <<record, instance>>, SubmitRule(s)' PROVE RuleInv'
  BY <1>2, <1>3, StillIsPlain
<1>4. SubmitEnds(s) => SubmitRule(s)'
  BY DEF SubmitEnds, SubmitType, IdleSubmit, SubmitRule, Filing
<1>5. SubmitGoes(s, "create") => SubmitRule(s)'
  BY DEF SubmitGoes, SubmitType, SubmitRule, Filing
<1>6. CASE SubmitBegin(s)
  <2>1. SubmitRule(s)'
    BY <1>6 DEF SubmitBegin, SubmitType, SubmitRule, Filing
  <2> QED  BY <1>3, <1>6, <2>1 DEF SubmitBegin, recordVars
<1>7. CASE FindByIdentity(s)
  BY <1>3, <1>4, <1>5, <1>7 DEF FindByIdentity, recordVars
<1>8. CASE CreateApplication(s)
  <2>1. PICK a \in Apps :
           /\ record[a].status = "absent"
           /\ record'[a].status # "absent"
           /\ record'[a].facts = submit[s].facts
           /\ record'[a].eligible = "unset"
           /\ submit' = [submit EXCEPT ![s].pc = "start", ![s].app = a]
           /\ submit'[s].app = a /\ submit'[s].facts = submit[s].facts
           /\ \A b \in Apps : b # a => record'[b] = record[b]
           /\ UNCHANGED instance
    BY <1>8, CreationFiles
  <2>2. instance[a].at = "none"
    BY <2>1 DEF RuleInv, RecordsRule
  <2>3. \A b \in Apps : record[b].status # "absent" => Kept(b)
    BY <2>1 DEF Kept
  <2>4. RecordsRule'
    BY <2>1, <2>2 DEF RuleInv, RecordsRule, SameRule, Verdict
  <2>5. SubmitRule(s)'
    <3>1. submit'[s].pc = "start"
      BY <2>1 DEF SubmitType
    <3> QED  BY <2>1, <3>1 DEF SubmitRule
  <2> QED  BY <1>o, <2>3, <2>4, <2>5, SubmitStepKept
<1>9. CASE StartProcess(s)
  <2>a. PICK a : a = submit[s].app
    OBVIOUS
  <2>1. /\ a \in Apps /\ record[a].status # "absent"
        /\ submit[s].facts = record[a].facts
    BY <1>9, <2>a DEF StartProcess, SubmitHasApp, RuleInv, SubmitRule, Filing
  <2>2. instance' = [instance EXCEPT ![a] =
                       StartedInstance(Eligible(submit[s].facts, requirement))]
    BY <1>9, <2>a DEF StartProcess
  <2>3. /\ instance'[a].at = "El_notEligible"
             <=> ~Eligible(submit[s].facts, requirement)
        /\ \A b \in Apps : b # a => instance'[b] = instance[b]
    BY <2>1, <2>2 DEF RecordsType, StartedInstance, NoInstance
  <2>4. record' = record
    BY <1>9 DEF StartProcess
  <2>5. RecordsRule'
    BY <2>1, <2>3, <2>4 DEF RuleInv, RecordsRule, SameRule, Verdict
  <2>6. SubmitRule(s)'
    <3>1. submit'[s].pc = "evaluate" /\ submit'[s].app = a
            /\ submit'[s].facts = submit[s].facts
      BY <1>9, <2>a DEF StartProcess, SubmitGoes, SubmitType
    <3> QED  BY <2>1, <2>4, <3>1 DEF SubmitRule
  <2> QED  BY <1>o, <2>4, <2>5, <2>6, SubmitStepKept DEF Kept
<1>10. CASE EvaluateDecision(s)
  <2>1. record' = record /\ instance' = instance
    BY <1>10 DEF EvaluateDecision, recordVars
  <2>2. /\ submit'[s].app = submit[s].app /\ submit'[s].facts = submit[s].facts
        /\ submit'[s].verdict = Verdict(submit[s].facts)
    BY <1>10 DEF EvaluateDecision, SubmitType
  <2>3. /\ record[submit[s].app].status # "absent"
        /\ submit[s].facts = record[submit[s].app].facts
    BY <1>10 DEF EvaluateDecision, RuleInv, SubmitRule, Filing
  <2>4. SubmitRule(s)'
    BY <2>1, <2>2, <2>3 DEF SubmitRule, SameRule, Verdict
  <2> QED  BY <1>3, <2>1, <2>4
<1>11. CASE StoreVerdict(s)
  <2>a. PICK a : a = submit[s].app
    OBVIOUS
  <2>1. /\ a \in Apps /\ record[a].status # "absent"
        /\ submit[s].facts = record[a].facts
        /\ submit[s].verdict = Verdict(submit[s].facts)
    BY <1>11, <2>a DEF StoreVerdict, SubmitHasApp, RuleInv, SubmitRule, Filing
  <2>2. /\ \A b \in Apps : Kept(b)
        /\ record'[a].eligible = submit[s].verdict
        /\ \A b \in Apps : b # a => record'[b].eligible = record[b].eligible
    BY <1>11, <2>a, <2>1, VerdictPatchKeeps DEF StoreVerdict
  <2>3. instance' = instance
    BY <1>11 DEF StoreVerdict
  <2>4. RecordsRule'
    <3>1. \A b \in Apps : record'[b].status = "absent" => instance'[b].at = "none"
      BY <2>2, <2>3 DEF RuleInv, RecordsRule, Kept
    <3>2. \A b \in Apps : record'[b].eligible \in {"unset", Verdict(record[b].facts)'}
      BY <2>1, <2>2 DEF RuleInv, RecordsRule, Kept, SameRule, Verdict
    <3>3. \A b \in Apps : instance'[b].at # "none" =>
            (instance'[b].at = "El_notEligible"
               <=> ~Eligible(record'[b].facts, requirement'))
      BY <2>2, <2>3 DEF RuleInv, RecordsRule, Kept, SameRule
    <3> QED  BY <3>1, <3>2, <3>3 DEF RecordsRule
  <2>5. SubmitRule(s)'
    <3>1. submit'[s].pc = "check" /\ submit'[s].app = a
            /\ submit'[s].facts = submit[s].facts
      BY <1>11, <2>a DEF StoreVerdict, SubmitGoes, SubmitType
    <3> QED  BY <2>1, <2>2, <3>1 DEF SubmitRule, Kept
  <2> QED  BY <1>o, <2>2, <2>4, <2>5, SubmitStepKept
<1>12. CASE CheckFinished(s)
  <2>1. record' = record /\ instance' = instance
    BY <1>12 DEF CheckFinished
  <2>2. SubmitGoes(s, "issue") => SubmitRule(s)'
    <3>1. SUFFICES ASSUME SubmitGoes(s, "issue") PROVE SubmitRule(s)'
      OBVIOUS
    <3>2. submit'[s].pc = "issue" /\ submit'[s].app = submit[s].app
            /\ submit'[s].facts = submit[s].facts
      BY <3>1 DEF SubmitGoes, SubmitType
    <3>3. /\ record[submit[s].app].status # "absent"
          /\ submit[s].facts = record[submit[s].app].facts
      BY <1>12 DEF CheckFinished, RuleInv, SubmitRule, Filing
    <3> QED  BY <2>1, <3>2, <3>3 DEF SubmitRule
  <2> QED  BY <1>3, <1>4, <1>12, <2>1, <2>2 DEF CheckFinished
<1>13. CASE IssueOnSubmit(s)
  BY <1>2, <1>4, <1>13, LicenseIsPlain DEF IssueOnSubmit
<1>14. CASE SubmitFails(s)
  BY <1>3, <1>4, <1>14 DEF SubmitFails
<1> QED
  BY <1>1, <1>6, <1>7, <1>8, <1>9, <1>10, <1>11, <1>12, <1>13, <1>14
  DEF SubmitContinues

LEMMA BackfillNextRule ==
  ASSUME TypeInv, RuleInv, BackfillContinues \/ BackfillFails, SameRule, UNCHANGED submit
  PROVE  RuleInv'
<1> USE DEF TypeInv, TypeOK
<1>1. ASSUME Plain, BackfillRule' PROVE RuleInv'
  <2>1. \A s \in Submitters : SubmitRule(s)'
    BY <1>1, SubmitRuleKept DEF RuleInv, Plain
  <2> QED  BY <1>1, <2>1, RecordsRuleKept DEF RuleInv
<1>2. CASE ListPending
  <2>1. record' = record /\ instance' = instance
    BY <1>2 DEF ListPending, recordVars
  <2>2. BackfillRule'
    BY <1>2, <2>1 DEF ListPending, BackfillType, BackfillRule
  <2> QED  BY <1>1, <2>1, <2>2, StillIsPlain
<1>3. CASE EvaluatePending
  <2>1. record' = record /\ instance' = instance
    BY <1>3 DEF EvaluatePending, recordVars
  <2>2. PICK a \in backfill.todo :
          backfill' = [pc |-> "store", todo |-> backfill.todo \ {a}, app |-> a,
                       verdict |-> Verdict(record[a].facts)]
    BY <1>3 DEF EvaluatePending
  <2>3. record[a].status # "absent"
    BY <2>2 DEF RuleInv, BackfillRule
  <2>4. BackfillRule'
    BY <2>1, <2>2, <2>3 DEF RuleInv, BackfillRule, SameRule, Verdict
  <2> QED  BY <1>1, <2>1, <2>4, StillIsPlain
<1>4. CASE StorePending
  <2>a. PICK a : a = backfill.app
    OBVIOUS
  <2>1. a \in Apps /\ backfill.verdict = Verdict(record[a].facts)
    BY <1>4, <2>a DEF StorePending, BackfillHasApp, RuleInv, BackfillRule
  <2>2. /\ \A b \in Apps : Kept(b)
        /\ record'[a].eligible = backfill.verdict
        /\ \A b \in Apps : b # a => record'[b].eligible = record[b].eligible
    BY <1>4, <2>a, <2>1, VerdictPatchKeeps DEF StorePending
  <2>3. instance' = instance
    BY <1>4 DEF StorePending
  <2>4. RecordsRule'
    <3>1. \A b \in Apps : record'[b].status = "absent" => instance'[b].at = "none"
      BY <2>2, <2>3 DEF RuleInv, RecordsRule, Kept
    <3>2. \A b \in Apps : record'[b].eligible \in {"unset", Verdict(record[b].facts)'}
      BY <2>1, <2>2 DEF RuleInv, RecordsRule, Kept, SameRule, Verdict
    <3>3. \A b \in Apps : instance'[b].at # "none" =>
            (instance'[b].at = "El_notEligible"
               <=> ~Eligible(record'[b].facts, requirement'))
      BY <2>2, <2>3 DEF RuleInv, RecordsRule, Kept, SameRule
    <3> QED  BY <3>1, <3>2, <3>3 DEF RecordsRule
  <2>5. BackfillRule'
    <3>1. backfill'.todo = backfill.todo /\ backfill'.pc # "store"
      BY <1>4 DEF StorePending, FreshBackfill
    <3>2. \A b \in backfill.todo : b \in Apps /\ record[b].status # "absent"
      BY DEF BackfillType, RuleInv, BackfillRule
    <3> QED  BY <2>2, <3>1, <3>2 DEF BackfillRule, Kept
  <2>6. \A s \in Submitters : SubmitRule(s)'
    BY <2>2, SubmitRuleKept DEF RuleInv
  <2> QED  BY <2>4, <2>5, <2>6 DEF RuleInv
<1>5. CASE BackfillFails
  <2>1. BackfillRule'
    BY <1>5 DEF BackfillFails, FreshBackfill, BackfillRule
  <2> QED  BY <1>1, <1>5, <2>1, StillIsPlain DEF BackfillFails
<1> QED  BY <1>2, <1>3, <1>4, <1>5 DEF BackfillContinues

LEMMA RuleInit == Init => RuleInv
<1> SUFFICES ASSUME Init PROVE RuleInv
  OBVIOUS
<1>1. RecordsRule
  BY DEF Init, RecordsInit, NoRecord, NoInstance, RecordsRule
<1>2. BackfillRule /\ \A s \in Submitters : SubmitRule(s)
  BY DEF Init, FreshBackfill, BackfillRule, SubmitInit, IdleSubmit, SubmitRule, Filing
<1> QED  BY <1>1, <1>2 DEF RuleInv

LEMMA RuleStep ==
  ASSUME OneRequirement
  PROVE  TypeInv /\ RuleInv /\ [Next]_vars => RuleInv'
<1> SUFFICES ASSUME TypeInv, RuleInv, [Next]_vars PROVE RuleInv'
  OBVIOUS
<1>0. SameRule
  BY TypeInvStep DEF OneRequirement, SameRule, TypeInv, TypeOK, RecordsType
<1>1. CASE SubmitNext /\ UNCHANGED <<task, workerVars, backfill>>
  BY <1>0, <1>1, SubmitNextRule
<1>2. CASE TaskNext /\ UNCHANGED <<submit, workerVars, backfill>>
  BY <1>0, <1>2, TaskNextIsPlain, RuleKept
<1>3. CASE WorkerNext /\ UNCHANGED <<submit, task, backfill>>
  BY <1>0, <1>3, WorkerNextIsPlain, RuleKept
<1>4. CASE (BackfillContinues \/ BackfillFails) /\ UNCHANGED <<submit, task, workerVars>>
  BY <1>0, <1>4, BackfillNextRule
<1>5. CASE /\ (\E a \in Apps : ReviewTimerFires(a)) \/ UpdateRequirement
           /\ UNCHANGED <<submit, task, workerVars, backfill>>
  <2>1. UpdateRequirement => Plain
    BY StillIsPlain DEF UpdateRequirement
  <2> QED  BY <1>0, <1>5, <2>1, TimerIsPlain, RuleKept
<1>6. CASE Crash
  <2>1. RecordsRule'
    BY <1>0, <1>6, StillIsPlain, RecordsRuleKept DEF Crash, RuleInv
  <2>2. BackfillRule'
    BY <1>6 DEF Crash, FreshBackfill, BackfillRule
  <2>3. \A s \in Submitters : SubmitRule(s)'
    BY <1>6 DEF Crash, IdleSubmit, SubmitRule, Filing
  <2> QED  BY <2>1, <2>2, <2>3 DEF RuleInv
<1>7. CASE UNCHANGED vars
  BY <1>0, <1>7, StillIsPlain, RuleKept DEF vars
<1> QED  BY <1>1, <1>2, <1>3, <1>4, <1>5, <1>6, <1>7 DEF Next

\* While one requirement is in force, the eligibility a record shows is what
\* the process did, although the handler asks the decision a second time and
\* the startup a third, with failures and restarts between the calls.
THEOREM VerdictsAgree ==
  ASSUME OneRequirement
  PROVE  Spec => []VerdictAgreesWithEngine
<1>1. Init => TypeInv /\ RuleInv
  BY TypeInvInit, RuleInit
<1>2. TypeInv /\ RuleInv /\ [Next]_vars => TypeInv' /\ RuleInv'
  BY TypeInvStep, RuleStep
<1>3. RuleInv => VerdictAgreesWithEngine
  BY DEF RuleInv, RecordsRule, VerdictAgreesWithEngine, Verdict
<1> QED  BY <1>1, <1>2, <1>3, PTL DEF Spec

-----------------------------------------------------------------------------
(* Until something fails: the polls. *)

\* A step is a fault or leaves the count of faults alone.
LEMMA FaultsCounted ==
  ASSUME [Next]_vars
  PROVE  Fault \/ UNCHANGED faults
<1>1. SubmitNext => Fault \/ UNCHANGED faults
  BY DEF SubmitNext, SubmitBegin, SubmitContinues, SubmitFails, FindByIdentity,
         CreateApplication, StartProcess, EvaluateDecision, StoreVerdict, CheckFinished,
         IssueOnSubmit, SeesActive, SeesInactive, recordVars
<1>2. TaskNext => Fault \/ UNCHANGED faults
  BY DEF TaskNext, TaskBegin, TaskContinues, TaskFails, CompleteTask, CheckStillActive,
         ReadLicense, RewriteLicense, IssueOnCompletion, UpdateApplication, SeesActive,
         SeesInactive, recordVars
<1>3. WorkerNext => Fault \/ UNCHANGED faults
  BY DEF WorkerNext, FetchAndLock, PollContinues, HandleTask, CompleteExternalTask,
         HandlerFails, LockExpires, LockExpiresEarly, recordVars
<1>4. BackfillContinues \/ BackfillFails => Fault \/ UNCHANGED faults
  BY DEF BackfillContinues, BackfillFails, ListPending, EvaluatePending, StorePending,
         recordVars
<1>5. (\E a \in Apps : ReviewTimerFires(a)) \/ UpdateRequirement => UNCHANGED faults
  BY DEF ReviewTimerFires, UpdateRequirement
<1>6. Crash => Fault
  BY DEF Crash
<1>7. UNCHANGED vars => UNCHANGED faults
  BY DEF vars
<1> QED  BY <1>1, <1>2, <1>3, <1>4, <1>5, <1>6, <1>7 DEF Next

LEMMA FaultIsLast ==
  ASSUME RecordsType, Fault
  PROVE  faults' # 0
BY RecordsAssumption DEF RecordsType, Fault

LEMMA QuietSoFar ==
  ASSUME RecordsType, [Next]_vars, faults' = 0
  PROVE  faults = 0 /\ ~Fault
BY FaultsCounted, FaultIsLast

\* A poll handles a task it has fetched and, until something fails, holds the
\* lock of everything it fetched.
PollsInv ==
    /\ \A p \in Polls : poll[p].current # Nothing => poll[p].current \in poll[p].todo
    /\ PollsDisjoint
    /\ faults = 0 => \A p \in Polls : poll[p].todo \subseteq locked

LEMMA PollsKept ==
  ASSUME RecordsType, [Next]_vars, PollsInv, UNCHANGED <<poll, locked>>
  PROVE  PollsInv'
BY QuietSoFar DEF PollsInv, PollsDisjoint

LEMMA PollsWorker ==
  ASSUME TypeInv, [Next]_vars, PollsInv, WorkerNext
  PROVE  PollsInv'
<1> USE DEF TypeInv, TypeOK
<1>1. ASSUME NEW p \in Polls, FetchAndLock(p) PROVE PollsInv'
  <2>1. PICK S \in SUBSET (OpenTasks \ locked) :
           locked' = locked \cup S /\ poll' = [poll EXCEPT ![p].todo = S]
    BY <1>1 DEF FetchAndLock
  <2>2. /\ poll'[p].todo = S /\ poll'[p].current = Nothing
        /\ \A q \in Polls : q # p => poll'[q] = poll[q]
    BY <1>1, <2>1 DEF FetchAndLock, IdlePoll, WorkerType
  <2>3. \A q \in Polls : poll'[q].current # Nothing => poll'[q].current \in poll'[q].todo
    BY <2>2 DEF PollsInv
  <2>4. ASSUME faults' = 0
        PROVE  /\ \A q, r \in Polls : q # r => poll'[q].todo \cap poll'[r].todo = {}
               /\ \A q \in Polls : poll'[q].todo \subseteq locked'
    <3>1. faults = 0
      BY <2>4, QuietSoFar
    <3>2. \A q \in Polls : q # p => poll'[q].todo \cap S = {}
      BY <2>1, <2>2, <3>1 DEF PollsInv
    <3> QED  BY <2>1, <2>2, <3>1, <3>2 DEF PollsInv, PollsDisjoint
  <2> QED  BY <2>3, <2>4 DEF PollsInv, PollsDisjoint
<1>2. ASSUME NEW p \in Polls, HandleTask(p) PROVE PollsInv'
  <2>1. PICK t \in poll[p].todo : poll' = [poll EXCEPT ![p].current = t]
    BY <1>2 DEF HandleTask
  <2>2. /\ poll'[p].current = t
        /\ \A q \in Polls : q # p => poll'[q].current = poll[q].current
        /\ \A q \in Polls : poll'[q].todo = poll[q].todo
        /\ locked' = locked
    BY <1>2, <2>1 DEF HandleTask, WorkerType
  <2>3. faults' = 0 => faults = 0
    BY QuietSoFar
  <2> QED  BY <2>2, <2>3 DEF PollsInv, PollsDisjoint
<1>3. ASSUME NEW p \in Polls, NEW t \in poll[p].todo,
             poll' = [poll EXCEPT ![p].todo = @ \ {t}, ![p].current = Nothing],
             locked' \in {locked, locked \ {t}}
      PROVE  PollsInv'
  <2>1. /\ poll'[p].todo = poll[p].todo \ {t} /\ poll'[p].current = Nothing
        /\ \A q \in Polls : q # p => poll'[q] = poll[q]
    BY <1>3 DEF WorkerType
  <2>2. \A q \in Polls : poll'[q].current # Nothing => poll'[q].current \in poll'[q].todo
    BY <2>1 DEF PollsInv
  <2>3. ASSUME faults' = 0
        PROVE  /\ \A q, r \in Polls : q # r => poll'[q].todo \cap poll'[r].todo = {}
               /\ \A q \in Polls : poll'[q].todo \subseteq locked'
    <3>1. faults = 0
      BY <2>3, QuietSoFar
    <3>2. \A q \in Polls : t \notin poll'[q].todo /\ poll'[q].todo \subseteq poll[q].todo
      BY <2>1, <3>1 DEF PollsInv, PollsDisjoint
    <3>3. \A q, r \in Polls : q # r => poll'[q].todo \cap poll'[r].todo = {}
      BY <3>1, <3>2 DEF PollsInv, PollsDisjoint
    <3>4. \A q \in Polls : poll'[q].todo \subseteq locked'
      BY <1>3, <3>1, <3>2 DEF PollsInv
    <3> QED  BY <3>3, <3>4
  <2> QED  BY <2>2, <2>3 DEF PollsInv, PollsDisjoint
<1>4. ASSUME NEW p \in Polls, CompleteExternalTask(p) PROVE PollsInv'
  <2>1. PICK t : t = poll[p].current
    OBVIOUS
  <2>2. t \in poll[p].todo
    BY <1>4, <2>1 DEF CompleteExternalTask, PollsInv
  <2> QED  BY <1>3, <1>4, <2>1, <2>2 DEF CompleteExternalTask
<1>5. ASSUME NEW p \in Polls, HandlerFails(p) PROVE PollsInv'
  <2>1. PICK t \in poll[p].todo :
           poll' = [poll EXCEPT ![p].todo = @ \ {t}, ![p].current = Nothing]
    BY <1>5 DEF HandlerFails
  <2> QED  BY <1>3, <1>5, <2>1 DEF HandlerFails
<1>6. ASSUME NEW t \in locked, LockExpires(t) PROVE PollsInv'
  <2>1. /\ poll' = poll /\ locked' = locked \ {t}
        /\ \A p \in Polls : t \notin poll[p].todo
    BY <1>6 DEF LockExpires, Held
  <2>2. faults' = 0 => faults = 0
    BY QuietSoFar
  <2> QED  BY <2>1, <2>2 DEF PollsInv, PollsDisjoint
<1>7. ASSUME NEW t \in locked, LockExpiresEarly(t) PROVE PollsInv'
  <2>1. poll' = poll /\ faults' # 0
    BY <1>7, FaultIsLast DEF LockExpiresEarly
  <2> QED  BY <2>1 DEF PollsInv, PollsDisjoint
<1> QED
  BY <1>1, <1>2, <1>4, <1>5, <1>6, <1>7 DEF WorkerNext, PollContinues

LEMMA PollsStep == TypeInv /\ PollsInv /\ [Next]_vars => PollsInv'
<1> SUFFICES ASSUME TypeInv, PollsInv, [Next]_vars PROVE PollsInv'
  OBVIOUS
<1>1. CASE UNCHANGED <<poll, locked>>
  BY <1>1, PollsKept DEF TypeInv, TypeOK
<1>2. CASE WorkerNext
  BY <1>2, PollsWorker
<1>3. CASE Crash
  <2>1. faults' # 0
    BY <1>3, FaultIsLast DEF Crash, TypeInv, TypeOK
  <2> QED  BY <1>3, <2>1 DEF Crash, IdlePoll, PollsInv, PollsDisjoint
<1> QED  BY <1>1, <1>2, <1>3 DEF Next, vars, workerVars

LEMMA PollsInit == Init => PollsInv
BY DEF Init, WorkerInit, IdlePoll, PollsInv, PollsDisjoint

\* As long as nothing has failed, a task that one poll has fetched is in no
\* other poll, for any number of polls that all lock under one worker id.
THEOREM PollsApart == Spec => []PollsDisjoint
<1>1. Init => TypeInv /\ PollsInv
  BY TypeInvInit, PollsInit
<1>2. TypeInv /\ PollsInv /\ [Next]_vars => TypeInv' /\ PollsInv'
  BY TypeInvStep, PollsStep
<1>3. PollsInv => PollsDisjoint
  BY DEF PollsInv
<1> QED  BY <1>1, <1>2, <1>3, PTL DEF Spec

-----------------------------------------------------------------------------
(* Until something fails: the codes. *)

Over(a) == instance[a].at \in EndEvents

Issues(t, a) == t # Nothing /\ t.step = "El_issue" /\ t.app = a

\* A fetched issuing task is the one the token waits at.
IssuingTasks == \A p \in Polls : \A t \in poll[p].todo : t.step = "El_issue" =>
    instance[t.app].at = "El_issue" /\ instance[t.app].round = t.round

\* A code of a process that is about to issue comes from the poll that is
\* about to report it.
CodedByPoll == \A a \in Apps : instance[a].at = "El_issue" /\ record[a].qr # 0 =>
    \E p \in Polls : Issues(poll[p].current, a)

\* Completions and submissions that deal in codes saw the process over, and a
\* completion that makes one is not about a granted application.
CompleterSaw(h) == task[h].pc # "idle" =>
    /\ task[h].pc \in {"read", "rewrite", "issue"} => Over(task[h].app)
    /\ task[h].code # 0 => Over(task[h].app)
    /\ task[h].pc = "issue" => instance[task[h].app].at # "El_approved"

SubmitterSaw(s) == submit[s].pc = "issue" => Over(submit[s].app)

OthersSawEnd ==
    /\ \A h \in Completers : CompleterSaw(h)
    /\ \A s \in Submitters : SubmitterSaw(s)

CodeInv == faults = 0 => IssuingTasks /\ CodedByPoll /\ OthersSawEnd

\* How a step moves the token of an application that is at its end or issuing.
TokenStep(a) ==
    /\ Over(a) => instance'[a].at = instance[a].at
    /\ instance'[a].at = "El_issue" => instance[a].at \in {"El_review", "El_issue"}
    /\ instance'[a].at = "El_rejected" => instance[a].at \in {"El_review", "El_rejected"}
    /\ instance'[a].at = "El_approved" => Approved(a)
    /\ instance'[a].at # instance[a].at => record' = record
    /\ instance[a].at = "El_issue" =>
         \/ /\ instance'[a].at = instance[a].at
            /\ instance'[a].round = instance[a].round
         \/ \E p \in Polls : CompleteExternalTask(p) /\ Issues(poll[p].current, a)

LEMMA UnmovedToken ==
  ASSUME NEW a \in Apps, instance'[a].at = instance[a].at,
         instance'[a].round = instance[a].round
  PROVE  TokenStep(a)
BY DEF TokenStep, Approved

LEMMA TokenMoves ==
  ASSUME SafetyInv, [Next]_vars, NEW a \in Apps
  PROVE  TokenStep(a)
<1> USE DEF SafetyInv, TypeInv, TypeOK
<1>0. instance[a] \in Instances /\ instance \in [Apps -> Instances]
  BY DEF RecordsType
<1>1. UNCHANGED instance => TokenStep(a)
  BY UnmovedToken
<1>2. ASSUME NEW s \in Submitters, StartProcess(s) PROVE TokenStep(a)
  <2>1. submit[s].app \in Apps /\ instance[submit[s].app].at = "none"
    BY <1>2 DEF StartProcess, SubmitHasApp, SubmitInv
  <2>2. Eligible(submit[s].facts, requirement) \in BOOLEAN
    BY DEF Eligible
  <2>3. CASE a = submit[s].app
    <3>1. instance'[a].at \in {"El_pay", "El_notEligible"}
      BY <1>0, <1>2, <2>2, <2>3, StartMoves DEF StartProcess
    <3> QED  BY <1>2, <2>1, <2>3, <3>1 DEF StartProcess, TokenStep, Over, EndEvents
  <2>4. CASE a # submit[s].app
    BY <1>0, <1>2, <2>4, UnmovedToken DEF StartProcess
  <2> QED  BY <2>3, <2>4
<1>3. ASSUME NEW h \in Completers, CompleteTask(h) PROVE TokenStep(a)
  <2>1. CASE a # task[h].app \/ ~TaskOpen(h)
    BY <1>0, <1>3, <2>1, UnmovedToken DEF CompleteTask
  <2>2. CASE a = task[h].app /\ TaskOpen(h)
    <3>1. task[h].form \in TaskForms /\ instance[a].at = task[h].form.step
      BY <1>3, <2>2, ActivationHolds DEF CompleteTask, TaskOpen
    <3>2. \/ instance[a].at \in {"El_pay", "El_evaluate"}
          \/ /\ instance[a].at = "El_review"
             /\ task[h].form.outcome \in {"comments", "approve", "reject"}
      BY <3>1 DEF TaskForms, Form
    <3>3. instance'[a] = Advance(instance[a], task[h].form.outcome)
      BY <1>0, <1>3, <2>2 DEF CompleteTask
    <3>4. /\ instance[a].at # "El_review"
               => instance'[a].at \in {"El_schedule", "El_review"}
          /\ instance'[a].at # "El_approved"
      BY <1>0, <3>2, <3>3, AdvanceMoves DEF SequenceFlow, ReviewGateway
    <3> QED  BY <1>3, <3>2, <3>4 DEF CompleteTask, TokenStep, Over, EndEvents
  <2> QED  BY <2>1, <2>2
<1>4. ASSUME NEW p \in Polls, CompleteExternalTask(p) PROVE TokenStep(a)
  <2>t. PICK t : t = poll[p].current
    OBVIOUS
  <2>1. t \in ExternalTasks /\ t.app \in Apps /\ t.round \in Nat /\ t # Nothing
    BY <1>4, <2>t, PollHolds DEF CompleteExternalTask
  <2>2. CASE t \notin OpenTasks \/ a # t.app
    BY <1>0, <1>4, <2>t, <2>2, UnmovedToken DEF CompleteExternalTask
  <2>3. CASE t \in OpenTasks /\ a = t.app /\ t.step = Escalate
    <3>1. instance'[a] = EndEscalation(instance[a], t.round)
      BY <1>0, <1>4, <2>t, <2>3 DEF CompleteExternalTask
    <3>2. instance'[a].at = instance[a].at /\ instance'[a].round = instance[a].round
      BY <1>0, <3>1 DEF EndEscalation, Instances
    <3> QED  BY <3>2, UnmovedToken
  <2>4. CASE t \in OpenTasks /\ a = t.app /\ t.step # Escalate
    <3>1. t.step \in WorkerSteps /\ instance[a].at = t.step
      BY <1>0, <2>4, OpenTaskMeaning
    <3>2. instance'[a] = Advance(instance[a], "none")
      BY <1>0, <1>4, <2>t, <2>4 DEF CompleteExternalTask
    <3>3. \/ instance[a].at = "El_schedule" /\ instance'[a].at = "El_evaluate"
          \/ instance[a].at = "El_issue" /\ instance'[a].at = "El_approved"
      BY <1>0, <3>1, <3>2, AdvanceMoves DEF WorkerSteps, SequenceFlow
    <3>4. instance[a].at = "El_issue" => Issues(poll[p].current, a)
      BY <2>t, <2>1, <2>4, <3>1 DEF Issues
    <3> QED
      BY <1>4, <3>3, <3>4
      DEF CompleteExternalTask, TokenStep, Over, EndEvents, Approved
  <2> QED  BY <2>2, <2>3, <2>4
<1>5. ASSUME NEW b \in Apps, ReviewTimerFires(b) PROVE TokenStep(a)
  <2>1. instance'[a].at = instance[a].at /\ instance'[a].round = instance[a].round
    BY <1>0, <1>5 DEF ReviewTimerFires, FireTimer, Instances
  <2> QED  BY <2>1, UnmovedToken
<1>6. SubmitNext => TokenStep(a)
  BY <1>1, <1>2
  DEF SubmitNext, SubmitBegin, SubmitContinues, SubmitFails, FindByIdentity,
      CreateApplication, EvaluateDecision, StoreVerdict, CheckFinished, IssueOnSubmit,
      recordVars
<1>7. TaskNext => TokenStep(a)
  BY <1>1, <1>3
  DEF TaskNext, TaskBegin, TaskContinues, TaskFails, CheckStillActive, ReadLicense,
      RewriteLicense, IssueOnCompletion, UpdateApplication
<1>8. WorkerNext => TokenStep(a)
  BY <1>1, <1>4
  DEF WorkerNext, FetchAndLock, PollContinues, HandleTask, HandlerFails, LockExpires,
      LockExpiresEarly, recordVars
<1>9. BackfillContinues \/ BackfillFails => TokenStep(a)
  BY <1>1
  DEF BackfillContinues, BackfillFails, ListPending, EvaluatePending, StorePending,
      recordVars
<1>10. UpdateRequirement \/ Crash \/ UNCHANGED vars => TokenStep(a)
  BY <1>1 DEF UpdateRequirement, Crash, vars
<1> QED  BY <1>5, <1>6, <1>7, <1>8, <1>9, <1>10 DEF Next

\* A code is made for a, or stored where none was.
Coded(a) == lastCode'[a] # lastCode[a] \/ (record[a].qr = 0 /\ record'[a].qr # 0)

\* Where a code comes from while nothing has failed.
CodeSource(a) ==
    \/ /\ Over(a)
       /\ instance[a].at = "El_approved" /\ lastCode'[a] # lastCode[a]
            => \E s \in Submitters : submit[s].app = a
    \/ \E p \in Polls : \E t \in poll[p].todo :
          /\ Issues(t, a)
          /\ poll[p].current = Nothing /\ poll'[p].current = t

\* Patches of other columns store no code.
LEMMA PatchIsUncoded ==
  ASSUME RecordsType, UNCHANGED lastCode, NEW b, NEW v, NEW a \in Apps,
         \/ record' = record
         \/ record' = [record EXCEPT ![b].status = v]
         \/ record' = [record EXCEPT ![b].status = v, ![b].visit = TRUE]
         \/ record' = [record EXCEPT ![b].eligible = v]
         \/ record' = [record EXCEPT ![b].breached = TRUE]
  PROVE  ~Coded(a)
<1>1. record'[a].qr = record[a].qr
  BY DEF RecordsType, Records
<1> QED  BY <1>1 DEF Coded

\* A code concerns the application it is written for.
LEMMA LicenseCodes ==
  ASSUME RecordsType, NEW b \in Apps, NEW a \in Apps, a # b, WriteLicense(b)
  PROVE  ~Coded(a)
BY DEF RecordsType, WriteLicense, Coded

LEMMA CodeComes ==
  ASSUME SafetyInv, OthersSawEnd, [Next]_vars, NEW a \in Apps, Coded(a)
  PROVE  CodeSource(a)
<1> USE DEF SafetyInv, TypeInv, TypeOK
<1>1. ~UNCHANGED <<record, lastCode>>
  BY DEF Coded
<1>2. ASSUME NEW s \in Submitters, CreateApplication(s) PROVE CodeSource(a)
  <2>1. PICK b \in Apps :
          /\ record[b].status = "absent"
          /\ record' = [record EXCEPT ![b] =
                           NewRecord(submit[s].identity, submit[s].facts)]
    BY <1>2 DEF CreateApplication, Unfiled
  <2>2. record'[a].qr # 0 => record[a].qr # 0
    BY <2>1 DEF RecordsType, NewRecord, NoRecord
  <2> QED  BY <1>2, <2>2 DEF CreateApplication, Coded
<1>3. ASSUME NEW s \in Submitters, StoreVerdict(s) PROVE CodeSource(a)
  BY <1>3, PatchIsUncoded DEF StoreVerdict
<1>4. ASSUME NEW s \in Submitters, IssueOnSubmit(s) PROVE CodeSource(a)
  <2>1. submit[s].app \in Apps /\ Over(submit[s].app)
    BY <1>4 DEF IssueOnSubmit, SubmitHasApp, OthersSawEnd, SubmitterSaw
  <2>2. submit[s].app = a
    BY <1>4, <2>1, LicenseCodes DEF IssueOnSubmit
  <2> QED  BY <2>1, <2>2 DEF CodeSource
<1>5. ASSUME NEW h \in Completers, RewriteLicense(h) PROVE CodeSource(a)
  <2>1. Over(task[h].app) /\ UNCHANGED lastCode
    BY <1>5 DEF RewriteLicense, OthersSawEnd, CompleterSaw
  <2>2. a # task[h].app => record'[a] = record[a]
    BY <1>5 DEF RewriteLicense, RecordsType
  <2> QED  BY <2>1, <2>2 DEF CodeSource, Coded
<1>6. ASSUME NEW h \in Completers, IssueOnCompletion(h) PROVE CodeSource(a)
  <2>1. /\ task[h].app \in Apps /\ Over(task[h].app)
        /\ instance[task[h].app].at # "El_approved"
    BY <1>6, ActivationHolds DEF IssueOnCompletion, OthersSawEnd, CompleterSaw
  <2>2. a = task[h].app
    BY <1>6, <2>1, LicenseCodes DEF IssueOnCompletion
  <2> QED  BY <2>1, <2>2 DEF CodeSource
<1>7. ASSUME NEW h \in Completers, UpdateApplication(h) PROVE CodeSource(a)
  <2>1. UNCHANGED lastCode /\ task[h].pc # "idle"
    BY <1>7 DEF UpdateApplication
  <2>2. CASE task[h].code = 0
    BY <1>7, <2>1, <2>2, PatchIsUncoded DEF UpdateApplication
  <2>3. CASE task[h].code # 0
    <3>1. Over(task[h].app)
      BY <2>1, <2>3 DEF OthersSawEnd, CompleterSaw
    <3>2. a # task[h].app => record'[a] = record[a]
      BY <1>7, <2>3 DEF UpdateApplication, RecordsType
    <3> QED  BY <2>1, <3>1, <3>2 DEF CodeSource, Coded
  <2> QED  BY <2>2, <2>3
<1>8. ASSUME NEW p \in Polls, HandleTask(p) PROVE CodeSource(a)
  <2>1. PICK t \in poll[p].todo :
          /\ poll' = [poll EXCEPT ![p].current = t]
          /\ \/ /\ record' = [record EXCEPT ![t.app].status = "field_visit_scheduled",
                                            ![t.app].visit = TRUE]
                /\ UNCHANGED lastCode
             \/ record' = [record EXCEPT ![t.app].breached = TRUE] /\ UNCHANGED lastCode
             \/ t.step = "El_issue" /\ WriteLicense(t.app)
    BY <1>8 DEF HandleTask
  <2>2. t \in ExternalTasks /\ t.app \in Apps
    BY PollHolds
  <2>3. t.step = "El_issue" /\ WriteLicense(t.app)
    BY <2>1, PatchIsUncoded
  <2>4. t.app = a
    BY <2>2, <2>3, LicenseCodes
  <2>5. t # Nothing
    BY <2>2 DEF ExternalTasks, Nothing
  <2>6. poll[p].current = Nothing /\ poll'[p].current = t
    BY <1>8, <2>1 DEF HandleTask, WorkerType
  <2> QED  BY <2>3, <2>4, <2>5, <2>6 DEF CodeSource, Issues
<1>9. ASSUME StorePending PROVE CodeSource(a)
  BY <1>9, PatchIsUncoded DEF StorePending
<1>10. SubmitNext => CodeSource(a)
  BY <1>1, <1>2, <1>3, <1>4
  DEF SubmitNext, SubmitBegin, SubmitContinues, SubmitFails, FindByIdentity,
      StartProcess, EvaluateDecision, CheckFinished, recordVars
<1>11. TaskNext => CodeSource(a)
  BY <1>1, <1>5, <1>6, <1>7
  DEF TaskNext, TaskBegin, TaskContinues, TaskFails, CompleteTask, CheckStillActive,
      ReadLicense
<1>12. WorkerNext => CodeSource(a)
  BY <1>1, <1>8
  DEF WorkerNext, FetchAndLock, PollContinues, CompleteExternalTask, HandlerFails,
      LockExpires, LockExpiresEarly, recordVars
<1>13. BackfillContinues \/ BackfillFails => CodeSource(a)
  BY <1>1, <1>9
  DEF BackfillContinues, BackfillFails, ListPending, EvaluatePending, recordVars
<1> QED
  BY <1>1, <1>10, <1>11, <1>12, <1>13
  DEF Next, ReviewTimerFires, UpdateRequirement, Crash, vars

\* How the polls move while nothing fails.
LEMMA PollsMove ==
  ASSUME TypeInv, [Next]_vars, faults' = 0, NEW p \in Polls
  PROVE  /\ \A t \in poll'[p].todo : t \in poll[p].todo \/ (t \in OpenTasks /\ UNCHANGED instance)
         /\ poll[p].current # Nothing =>
              poll'[p].current = poll[p].current \/ CompleteExternalTask(p)
         /\ CompleteExternalTask(p) => poll'[p].todo = poll[p].todo \ {poll[p].current}
<1> USE DEF TypeInv, TypeOK
<1>0. ~Fault
  BY QuietSoFar
<1>1. CompleteExternalTask(p) => poll'[p].todo = poll[p].todo \ {poll[p].current}
  BY DEF CompleteExternalTask, WorkerType
<1>2. CASE UNCHANGED poll
  BY <1>1, <1>2
<1>3. ASSUME NEW q \in Polls, FetchAndLock(q)
      PROVE  /\ \A t \in poll'[p].todo :
                  t \in poll[p].todo \/ (t \in OpenTasks /\ UNCHANGED instance)
             /\ poll[p].current # Nothing => poll'[p].current = poll[p].current
  <2>1. PICK S \in SUBSET OpenTasks : poll' = [poll EXCEPT ![q].todo = S]
    BY <1>3 DEF FetchAndLock
  <2>2. q # p => poll'[p] = poll[p]
    BY <2>1 DEF WorkerType
  <2>3. q = p => poll'[p].todo = S /\ poll[p].current = Nothing
    BY <1>3, <2>1 DEF FetchAndLock, IdlePoll, WorkerType
  <2> QED  BY <1>3, <2>2, <2>3 DEF FetchAndLock, recordVars
<1>4. ASSUME NEW q \in Polls, HandleTask(q)
      PROVE  /\ poll'[p].todo = poll[p].todo
             /\ poll[p].current # Nothing => poll'[p].current = poll[p].current
  <2>1. PICK t : poll' = [poll EXCEPT ![q].current = t]
    BY <1>4 DEF HandleTask
  <2> QED  BY <1>4, <2>1 DEF HandleTask, WorkerType
<1>5. ASSUME NEW q \in Polls, CompleteExternalTask(q)
      PROVE  poll'[p].todo \subseteq poll[p].todo /\ (q # p => poll'[p] = poll[p])
  BY <1>5 DEF CompleteExternalTask, WorkerType
<1>6. ~Crash /\ \A q \in Polls : ~HandlerFails(q)
  BY <1>0 DEF Crash, HandlerFails
<1> QED
  BY <1>1, <1>2, <1>3, <1>4, <1>5, <1>6
  DEF Next, WorkerNext, PollContinues, workerVars, vars, LockExpires, LockExpiresEarly

\* The round of an open issuing task is the round of its instance.
LEMMA OpenIssue ==
  ASSUME RecordsType, NEW t \in ExternalTasks, t.step = "El_issue"
  PROVE  t \in OpenTasks
           <=> instance[t.app].at = "El_issue" /\ instance[t.app].round = t.round
<1>1. ASSUME t \in OpenTasks
      PROVE  instance[t.app].at = "El_issue" /\ instance[t.app].round = t.round
  <2>1. PICK a \in Apps : \E s \in OpenSteps(instance[a]) :
           t = [app |-> a, step |-> s[1], round |-> s[2]]
    BY <1>1 DEF OpenTasks
  <2>2. PICK s \in OpenSteps(instance[a]) :
           t = [app |-> a, step |-> s[1], round |-> s[2]]
    BY <2>1
  <2>3. s = <<instance[a].at, instance[a].round>>
    BY <2>2 DEF OpenSteps, Escalate
  <2> QED  BY <2>2, <2>3
<1>2. ASSUME instance[t.app].at = "El_issue", instance[t.app].round = t.round
      PROVE  t \in OpenTasks
  <2>1. t.app \in Apps /\ t = [app |-> t.app, step |-> "El_issue", round |-> t.round]
    BY DEF ExternalTasks
  <2>2. <<"El_issue", t.round>> \in OpenSteps(instance[t.app])
    BY <1>2 DEF OpenSteps, WorkerSteps
  <2> QED  BY <2>1, <2>2 DEF OpenTasks
<1> QED  BY <1>1, <1>2

\* Two issuing tasks of one application that were fetched are one task, in
\* one poll.
LEMMA OneIssuingTask ==
  ASSUME TypeInv, PollsInv, IssuingTasks, faults = 0, NEW a,
         NEW p \in Polls, NEW t \in poll[p].todo, Issues(t, a),
         NEW q \in Polls, NEW u \in poll[q].todo, Issues(u, a)
  PROVE  t = u /\ p = q
<1>1. t \in ExternalTasks /\ u \in ExternalTasks
  BY PollHolds DEF TypeInv, TypeOK
<1>2. t.round = u.round
  BY DEF IssuingTasks, Issues
<1>3. t = u
  BY <1>1, <1>2 DEF Issues, ExternalTasks
<1> QED  BY <1>3 DEF PollsInv, PollsDisjoint

\* A poll that reports the issuing task it fetched moves the token on.
LEMMA ReportEnds ==
  ASSUME TypeInv, PollsInv, IssuingTasks, NEW p \in Polls, CompleteExternalTask(p),
         NEW a, Issues(poll[p].current, a)
  PROVE  instance'[a].at = "El_approved"
<1> USE DEF TypeInv, TypeOK
<1>1. PICK t : t = poll[p].current
  OBVIOUS
<1>2. t \in poll[p].todo /\ t \in ExternalTasks /\ t.app = a /\ t.step = "El_issue"
  BY <1>1, PollHolds DEF PollsInv, Issues
<1>3. a \in Apps /\ instance[a] \in Instances /\ instance[a].at = "El_issue"
  BY <1>2 DEF IssuingTasks, ExternalTasks, RecordsType
<1>4. t \in OpenTasks
  BY <1>2, OpenIssue DEF IssuingTasks
<1>5. instance'[a] = Advance(instance[a], "none")
  BY <1>1, <1>2, <1>3, <1>4 DEF CompleteExternalTask, Escalate, RecordsType
<1> QED  BY <1>3, <1>5, AdvanceMoves DEF SequenceFlow

LEMMA IssuingStep ==
  ASSUME SafetyInv, PollsInv, IssuingTasks, [Next]_vars, faults' = 0
  PROVE  IssuingTasks'
<1> USE DEF SafetyInv, TypeInv, TypeOK
<1>1. faults = 0
  BY QuietSoFar
<1>2. ASSUME NEW p \in Polls, NEW t \in poll'[p].todo, t.step = "El_issue"
      PROVE  instance'[t.app].at = "El_issue" /\ instance'[t.app].round = t.round
  <2>1. t \in poll[p].todo \/ (t \in OpenTasks /\ UNCHANGED instance)
    BY <1>2, PollsMove
  <2>2. CASE t \in OpenTasks /\ UNCHANGED instance
    <3>1. t \in ExternalTasks
      BY <2>2, OpenTaskMeaning DEF RecordsType
    <3> QED  BY <1>2, <2>2, <3>1, OpenIssue
  <2>3. CASE t \in poll[p].todo
    <3>1. /\ t \in ExternalTasks /\ t.app \in Apps /\ Issues(t, t.app)
          /\ instance[t.app].at = "El_issue" /\ instance[t.app].round = t.round
      BY <1>2, <2>3, PollHolds DEF IssuingTasks, Issues, Nothing, ExternalTasks
    <3>2. ASSUME NEW q \in Polls, CompleteExternalTask(q), Issues(poll[q].current, t.app)
          PROVE  FALSE
      <4>1. poll[q].current \in poll[q].todo
        BY <3>2 DEF PollsInv, Issues
      <4>2. poll[q].current = t /\ q = p
        BY <1>1, <2>3, <3>1, <3>2, <4>1, OneIssuingTask
      <4> QED  BY <1>2, <3>2, <4>2, PollsMove
    <3> QED  BY <3>1, <3>2, TokenMoves DEF TokenStep
  <2> QED  BY <2>1, <2>2, <2>3
<1> QED  BY <1>2 DEF IssuingTasks

LEMMA CodedStep ==
  ASSUME SafetyInv, PollsInv, IssuingTasks, CodedByPoll, OthersSawEnd, [Next]_vars,
         faults' = 0
  PROVE  CodedByPoll'
<1> USE DEF SafetyInv, TypeInv, TypeOK
<1>1. ASSUME NEW a \in Apps, instance'[a].at = "El_issue", record'[a].qr # 0
      PROVE  \E p \in Polls : Issues(poll'[p].current, a)
  <2>1. instance[a].at \in {"El_review", "El_issue"}
    BY <1>1, TokenMoves DEF TokenStep
  <2>2. ~Over(a)
    BY <2>1 DEF Over, EndEvents
  <2>3. CASE record[a].qr = 0
    <3>1. Coded(a)
      BY <1>1, <2>3 DEF Coded
    <3> QED  BY <2>2, <3>1, CodeComes DEF CodeSource
  <2>4. CASE record[a].qr # 0
    <3>1. instance[a].at = "El_issue"
      BY <2>1, <2>4 DEF RecordInv, LicenseOnlyWhenDecided, Decided, EndEvents
    <3>2. PICK p \in Polls : Issues(poll[p].current, a)
      BY <2>4, <3>1 DEF CodedByPoll
    <3>3. ~CompleteExternalTask(p)
      BY <1>1, <3>2, ReportEnds
    <3>4. poll'[p].current = poll[p].current
      BY <3>2, <3>3, PollsMove DEF Issues
    <3> QED  BY <3>2, <3>4
  <2> QED  BY <2>3, <2>4
<1> QED  BY <1>1 DEF CodedByPoll, Issues

LEMMA CompleterKept ==
  ASSUME SafetyInv, [Next]_vars, NEW h \in Completers, CompleterSaw(h),
         task'[h] = task[h]
  PROVE  CompleterSaw(h)'
<1>1. task[h].pc # "idle" => task[h].app \in Apps
  BY ActivationHolds DEF SafetyInv, TypeInv, TypeOK
<1>2. task[h].pc # "idle" /\ Over(task[h].app)
        => instance'[task[h].app].at = instance[task[h].app].at
  BY <1>1, TokenMoves DEF TokenStep
<1> QED  BY <1>2 DEF CompleterSaw, Over

LEMMA SubmitterKept ==
  ASSUME SafetyInv, [Next]_vars, NEW s \in Submitters, SubmitterSaw(s),
         submit'[s] = submit[s]
  PROVE  SubmitterSaw(s)'
<1>1. submit[s].pc = "issue" => submit[s].app \in Apps
  BY DEF SafetyInv, TypeInv, SubmitHasApp
<1>2. submit[s].pc = "issue" => instance'[submit[s].app].at = instance[submit[s].app].at
  BY <1>1, TokenMoves DEF TokenStep, SubmitterSaw
<1> QED  BY <1>2 DEF SubmitterSaw, Over

\* A process the engine does not know any more is over.
LEMMA InactiveIsOver ==
  ASSUME RecordsType, ~EngineMayFail, NEW a \in Apps, instance[a].at # "none",
         SeesInactive(a)
  PROVE  Over(a)
BY DEF RecordsType, Instances, SeesInactive, Active, Over

LEMMA CompleterStep ==
  ASSUME SafetyInv, ~EngineMayFail, OthersSawEnd, [Next]_vars, faults' = 0,
         TaskNext, UNCHANGED submit
  PROVE  OthersSawEnd'
<1> USE DEF SafetyInv, TypeInv, TypeOK
<1>0. ~Fault
  BY QuietSoFar
<1>1. PICK h \in Completers : TaskBegin(h) \/ TaskContinues(h) \/ TaskFails(h)
  BY DEF TaskNext
<1>a. PICK a : a = task[h].app
  OBVIOUS
<1>2. \A g \in Completers : g # h => task'[g] = task[g]
  BY <1>1
  DEF TaskBegin, TaskContinues, TaskFails, CompleteTask, CheckStillActive, ReadLicense,
      RewriteLicense, IssueOnCompletion, UpdateApplication, TaskGoes, TaskEnds, TaskType
<1>3. task[h].pc # "idle" =>
        /\ a \in Apps /\ task[h] \in Activation /\ instance[a].at # "none"
        /\ Over(a) => instance'[a].at = instance[a].at
  BY <1>a, ActivationHolds, TokenMoves DEF TaskInv, TokenStep
<1>4. SUFFICES CompleterSaw(h)'
  <2>1. \A g \in Completers : CompleterSaw(h)' => CompleterSaw(g)'
    BY <1>2, CompleterKept DEF OthersSawEnd
  <2>2. \A s \in Submitters : SubmitterSaw(s)'
    BY SubmitterKept DEF OthersSawEnd
  <2> QED  BY <2>1, <2>2 DEF OthersSawEnd
<1>5. ASSUME NEW pc, TaskGoes(h, pc), task[h].pc # "idle",
             pc \in {"read", "rewrite", "issue"} => Over(a),
             pc = "issue" => instance[a].at # "El_approved"
      PROVE  CompleterSaw(h)'
  <2>1. /\ task'[h].pc = pc /\ task'[h].app = a /\ task'[h].code = task[h].code
    BY <1>a, <1>3, <1>5 DEF TaskGoes, TaskType, Activation
  <2>2. task[h].code # 0 => Over(a)
    BY <1>a, <1>5 DEF OthersSawEnd, CompleterSaw
  <2> QED  BY <1>3, <1>5, <2>1, <2>2 DEF CompleterSaw, Over
<1>6. TaskEnds(h) => CompleterSaw(h)'
  BY DEF TaskEnds, TaskType, NoTask, CompleterSaw
<1>7. CASE TaskBegin(h)
  <2>1. PICK b \in Apps, f \in TaskForms, traced \in BOOLEAN :
          task' = [task EXCEPT ![h] =
                     [pc |-> "complete", app |-> b, round |-> instance[b].round,
                      form |-> f, traced |-> traced, code |-> 0]]
    BY <1>7 DEF TaskBegin
  <2>2. task'[h].pc = "complete" /\ task'[h].code = 0
    BY <2>1 DEF TaskType
  <2> QED  BY <2>2 DEF CompleterSaw
<1>8. CASE CompleteTask(h)
  BY <1>5, <1>6, <1>8 DEF CompleteTask
<1>9. CASE CheckStillActive(h)
  <2>1. CASE TaskGoes(h, "update")
    BY <1>5, <1>9, <2>1 DEF CheckStillActive
  <2>2. CASE TaskGoes(h, "read") /\ SeesInactive(a)
    <3>1. Over(a)
      BY <1>3, <1>9, <2>2, InactiveIsOver DEF CheckStillActive
    <3> QED  BY <1>5, <1>9, <2>2, <3>1 DEF CheckStillActive
  <2> QED  BY <1>a, <1>9, <2>1, <2>2 DEF CheckStillActive
<1>10. CASE ReadLicense(h)
  <2>1. Over(a)
    BY <1>a, <1>10 DEF ReadLicense, OthersSawEnd, CompleterSaw
  <2>2. CASE record[a].qr = 0 /\ TaskGoes(h, "issue")
    <3>1. instance[a].at # "El_approved"
      BY <1>3, <1>10, <2>2 DEF ReadLicense, RecordInv, EffectsPrecedeProgress
    <3> QED  BY <1>5, <1>10, <2>1, <2>2, <3>1 DEF ReadLicense
  <2>3. CASE \E pc \in {"update", "rewrite"} :
               task' = [task EXCEPT ![h].code = record[a].qr, ![h].pc = pc]
    <3>1. task'[h].app = a /\ task'[h].pc # "issue"
      BY <1>a, <1>3, <1>10, <2>3 DEF ReadLicense, TaskType, Activation
    <3> QED  BY <1>3, <1>10, <2>1, <3>1 DEF ReadLicense, CompleterSaw, Over
  <2>4. \/ record[a].qr = 0 /\ TaskGoes(h, "issue")
        \/ \E pc \in {"update", "rewrite"} :
               task' = [task EXCEPT ![h].code = record[a].qr, ![h].pc = pc]
    BY <1>0, <1>a, <1>10 DEF ReadLicense
  <2> QED  BY <2>2, <2>3, <2>4
<1>11. CASE RewriteLicense(h)
  BY <1>5, <1>11 DEF RewriteLicense
<1>12. CASE IssueOnCompletion(h)
  <2>1. Over(a)
    BY <1>a, <1>12 DEF IssueOnCompletion, OthersSawEnd, CompleterSaw
  <2>2. task'[h].app = a /\ task'[h].pc = "update"
    BY <1>a, <1>3, <1>12 DEF IssueOnCompletion, TaskType, Activation
  <2> QED  BY <1>3, <1>12, <2>1, <2>2 DEF IssueOnCompletion, CompleterSaw, Over
<1>13. CASE UpdateApplication(h) \/ TaskFails(h)
  BY <1>6, <1>13 DEF UpdateApplication, TaskFails
<1> QED
  BY <1>1, <1>7, <1>8, <1>9, <1>10, <1>11, <1>12, <1>13 DEF TaskContinues

LEMMA SubmitterStep ==
  ASSUME SafetyInv, ~EngineMayFail, OthersSawEnd, [Next]_vars, SubmitNext, UNCHANGED task
  PROVE  OthersSawEnd'
<1> USE DEF SafetyInv, TypeInv, TypeOK
<1>1. PICK s \in Submitters : SubmitBegin(s) \/ SubmitContinues(s) \/ SubmitFails(s)
  BY DEF SubmitNext
<1>2. \A r \in Submitters : r # s => submit'[r] = submit[r]
  BY <1>1
  DEF SubmitBegin, SubmitContinues, SubmitFails, FindByIdentity, CreateApplication,
      StartProcess, EvaluateDecision, StoreVerdict, CheckFinished, IssueOnSubmit,
      SubmitGoes, SubmitEnds, SubmitType
<1>3. SubmitterSaw(s)'
  <2>1. CASE CheckFinished(s) /\ SubmitGoes(s, "issue")
    <3>1. PICK a : a = submit[s].app
      OBVIOUS
    <3>2. a \in Apps /\ instance[a].at # "none" /\ instance' = instance
      BY <2>1, <3>1 DEF CheckFinished, SubmitHasApp, SubmitInv
    <3>3. SeesInactive(a)
      BY <2>1, <3>1 DEF CheckFinished, SubmitGoes, SubmitEnds, SubmitType, IdleSubmit
    <3>4. Over(a)
      BY <3>2, <3>3, InactiveIsOver
    <3>5. submit'[s].app = a
      BY <2>1, <3>1 DEF SubmitGoes, SubmitType
    <3> QED  BY <3>2, <3>4, <3>5 DEF SubmitterSaw, Over
  <2>2. CASE ~(CheckFinished(s) /\ SubmitGoes(s, "issue"))
    <3>1. submit'[s].pc # "issue"
      BY <1>1, <2>2
      DEF SubmitBegin, SubmitContinues, SubmitFails, FindByIdentity, CreateApplication,
          StartProcess, EvaluateDecision, StoreVerdict, CheckFinished, IssueOnSubmit,
          SubmitGoes, SubmitEnds, SubmitType, IdleSubmit
    <3> QED  BY <3>1 DEF SubmitterSaw
  <2> QED  BY <2>1, <2>2
<1>4. \A r \in Submitters : SubmitterSaw(r)'
  BY <1>2, <1>3, SubmitterKept DEF OthersSawEnd
<1>5. \A h \in Completers : CompleterSaw(h)'
  BY CompleterKept DEF OthersSawEnd
<1> QED  BY <1>4, <1>5 DEF OthersSawEnd

LEMMA OthersStep ==
  ASSUME SafetyInv, ~EngineMayFail, OthersSawEnd, [Next]_vars, faults' = 0
  PROVE  OthersSawEnd'
<1>1. CASE UNCHANGED <<submit, task>>
  BY <1>1, SubmitterKept, CompleterKept DEF OthersSawEnd
<1>2. ~Crash
  BY QuietSoFar DEF Crash, SafetyInv, TypeInv, TypeOK
<1> QED  BY <1>1, <1>2, SubmitterStep, CompleterStep DEF Next, vars

LEMMA CodeStep ==
  ASSUME ~EngineMayFail
  PROVE  SafetyInv /\ PollsInv /\ CodeInv /\ [Next]_vars => CodeInv'
<1> SUFFICES ASSUME SafetyInv, PollsInv, CodeInv, [Next]_vars, faults' = 0
             PROVE  (IssuingTasks /\ CodedByPoll /\ OthersSawEnd)'
  BY DEF CodeInv
<1>1. IssuingTasks /\ CodedByPoll /\ OthersSawEnd
  BY QuietSoFar DEF CodeInv, SafetyInv, TypeInv, TypeOK
<1> QED  BY <1>1, IssuingStep, CodedStep, OthersStep

LEMMA CodeInit == Init => CodeInv
BY DEF Init, RecordsInit, NoInstance, NoRecord, SubmitInit, IdleSubmit, TaskInit, NoTask,
       WorkerInit, IdlePoll, CodeInv, IssuingTasks, CodedByPoll, OthersSawEnd,
       CompleterSaw, SubmitterSaw

\* What a step may never do to an application that has its code.
NoSecondCodeStep == \A a \in Apps :
    (/\ faults' = 0
     /\ instance[a].at \in {"El_issue", "El_approved"}
     /\ record[a].qr # 0
     /\ lastCode'[a] # lastCode[a])
    => \E s \in Submitters : submit[s].app = a

LEMMA NoSecondCodeKept ==
  SafetyInv /\ PollsInv /\ CodeInv /\ [Next]_vars => NoSecondCodeStep
<1> SUFFICES ASSUME SafetyInv, PollsInv, CodeInv, [Next]_vars, faults' = 0, NEW a \in Apps,
                    instance[a].at \in {"El_issue", "El_approved"}, record[a].qr # 0,
                    lastCode'[a] # lastCode[a]
             PROVE  \E s \in Submitters : submit[s].app = a
  BY DEF NoSecondCodeStep
<1> USE DEF SafetyInv, TypeInv, TypeOK
<1>1. faults = 0 /\ IssuingTasks /\ CodedByPoll /\ OthersSawEnd
  BY QuietSoFar DEF CodeInv
<1>2. CodeSource(a)
  BY <1>1, CodeComes DEF Coded
<1>3. ASSUME NEW p \in Polls, NEW t \in poll[p].todo, Issues(t, a),
             poll[p].current = Nothing
      PROVE  FALSE
  <2>1. instance[a].at = "El_issue"
    BY <1>1, <1>3 DEF IssuingTasks, Issues
  <2>2. PICK q \in Polls : Issues(poll[q].current, a)
    BY <1>1, <2>1 DEF CodedByPoll
  <2>3. poll[q].current \in poll[q].todo
    BY <2>2 DEF PollsInv, Issues
  <2>4. p = q
    BY <1>1, <1>3, <2>2, <2>3, OneIssuingTask
  <2> QED  BY <1>3, <2>2, <2>4 DEF Issues
<1> QED  BY <1>2, <1>3 DEF CodeSource, Over, EndEvents

\* With an engine whose look-ups answer, and as long as nothing fails, an
\* approved application that has a code gets no second one from a poll or a
\* completion, for any number of polls, completions and rounds of review.
THEOREM NoCodeTwice ==
  ASSUME ~EngineMayFail
  PROVE  Spec => NoSecondCode
<1>1. Init => SafetyInv /\ PollsInv /\ CodeInv
  BY SafetyInvInit, PollsInit, CodeInit
<1>2. SafetyInv /\ PollsInv /\ CodeInv /\ [Next]_vars
        => SafetyInv' /\ PollsInv' /\ CodeInv'
  BY SafetyInvStep, PollsStep, CodeStep DEF SafetyInv
<1>3. SafetyInv /\ PollsInv /\ CodeInv /\ [Next]_vars => [NoSecondCodeStep]_vars
  BY NoSecondCodeKept
<1>4. NoSecondCode <=> [][NoSecondCodeStep]_vars
  BY DEF NoSecondCode, NoSecondCodeStep
<1> QED  BY <1>1, <1>2, <1>3, <1>4, PTL DEF Spec

-----------------------------------------------------------------------------
(* Decisions.  What handlers may still store is all they store, and once the *)
(* token is past the review no handler finds a new status to store, except  *)
(* a poll that fetches the issue task.                                      *)

\* A rejecting completion never turns to licensing.
RejectsOnly == \A h \in Completers :
    task[h].pc # "idle" /\ task[h].form.status = "rejected" =>
      task[h].code = 0 /\ task[h].pc \notin {"read", "rewrite", "issue"}

LEMMA RejectsTask ==
  ASSUME TaskType, RejectsOnly, TaskNext
  PROVE  RejectsOnly'
<1>1. PICK h \in Completers : TaskBegin(h) \/ TaskContinues(h) \/ TaskFails(h)
  BY DEF TaskNext
<1>2. \A g \in Completers : g # h => task'[g] = task[g]
  BY <1>1
  DEF TaskBegin, TaskContinues, TaskFails, CompleteTask, CheckStillActive, ReadLicense,
      RewriteLicense, IssueOnCompletion, UpdateApplication, TaskGoes, TaskEnds, TaskType
<1>3. task[h].pc # "idle" => task[h] \in Activation
  BY ActivationHolds
<1>4. SUFFICES ASSUME task'[h].pc # "idle", task'[h].form.status = "rejected"
               PROVE  task'[h].code = 0 /\ task'[h].pc \notin {"read", "rewrite", "issue"}
  BY <1>2 DEF RejectsOnly
<1>5. TaskEnds(h) => task'[h].pc = "idle"
  BY DEF TaskEnds, TaskType, NoTask
<1>6. ASSUME NEW pc, TaskGoes(h, pc), task[h].pc # "idle"
      PROVE  task'[h].pc = pc /\ task'[h].form = task[h].form /\ task'[h].code = task[h].code
  BY <1>3, <1>6 DEF TaskGoes, TaskType, Activation
<1>7. CASE TaskBegin(h)
  BY <1>7 DEF TaskBegin, TaskType
<1>8. CASE CompleteTask(h)
  BY <1>4, <1>5, <1>6, <1>8 DEF CompleteTask, RejectsOnly
<1>9. CASE CheckStillActive(h)
  <2>1. PICK pc \in {"read", "update"} :
          /\ TaskGoes(h, pc)
          /\ pc = "read" => task[h].form.status
                               \in NonTerminalStatuses \cup {"approved", "completed"}
    BY <1>9 DEF CheckStillActive
  <2>2. task'[h].pc = pc /\ task'[h].form = task[h].form /\ task'[h].code = task[h].code
    BY <1>6, <1>9, <2>1 DEF CheckStillActive
  <2> QED  BY <1>4, <1>9, <2>1, <2>2 DEF CheckStillActive, RejectsOnly, NonTerminalStatuses
<1>10. CASE ReadLicense(h) \/ RewriteLicense(h) \/ IssueOnCompletion(h)
  <2>1. task[h].pc \in {"read", "rewrite", "issue"} /\ task[h] \in Activation
    BY <1>3, <1>10 DEF ReadLicense, RewriteLicense, IssueOnCompletion
  <2>2. task'[h].form = task[h].form
    BY <1>10, <2>1
    DEF ReadLicense, RewriteLicense, IssueOnCompletion, TaskGoes, TaskType, Activation
  <2> QED  BY <1>4, <2>1, <2>2 DEF RejectsOnly
<1>11. CASE UpdateApplication(h) \/ TaskFails(h)
  BY <1>4, <1>5, <1>11 DEF UpdateApplication, TaskFails
<1> QED
  BY <1>1, <1>7, <1>8, <1>9, <1>10, <1>11 DEF TaskContinues

LEMMA RejectsStep == TypeInv /\ RejectsOnly /\ [Next]_vars => RejectsOnly'
<1>1. UNCHANGED task /\ RejectsOnly => RejectsOnly'
  BY DEF RejectsOnly
<1>2. Crash => RejectsOnly'
  BY DEF Crash, NoTask, RejectsOnly
<1> QED  BY <1>1, <1>2, RejectsTask DEF Next, vars, TypeInv, TypeOK

\* The status of a does not change, or to one that was still to be stored.
StoresWhatItMay(a) ==
    \/ record'[a].status = record[a].status
    \/ \E st \in Statuses : record'[a].status = st /\ MayStore(a, st)

LEMMA OtherStatus ==
  ASSUME RecordsType, NEW a \in Apps, NEW b, NEW v,
         \/ record' = record
         \/ record' = [record EXCEPT ![b].eligible = v]
         \/ record' = [record EXCEPT ![b].breached = TRUE]
  PROVE  StoresWhatItMay(a)
<1>1. record'[a].status = record[a].status
  BY DEF RecordsType, Records
<1> QED  BY <1>1 DEF StoresWhatItMay

LEMMA NewStatus ==
  ASSUME RecordsType, NEW a \in Apps, NEW b, NEW n, NEW st \in Statuses,
         \/ record' = [record EXCEPT ![b].status = st]
         \/ record' = [record EXCEPT ![b].status = st, ![b].qr = n]
         \/ record' = [record EXCEPT ![b].status = st, ![b].visit = TRUE],
         a = b => MayStore(a, st)
  PROVE  StoresWhatItMay(a)
<1>1. record'[a].status = IF a = b THEN st ELSE record[a].status
  BY DEF RecordsType, Records
<1> QED  BY <1>1 DEF StoresWhatItMay

LEMMA StatusesStored ==
  ASSUME SafetyInv, RejectsOnly, [Next]_vars, NEW a \in Apps, record[a].status # "absent"
  PROVE  StoresWhatItMay(a)
<1> USE DEF SafetyInv, TypeInv, TypeOK
<1>1. UNCHANGED record => StoresWhatItMay(a)
  BY DEF StoresWhatItMay
<1>c. "completed" \in Statuses /\ "field_visit_scheduled" \in Statuses
  BY DEF Statuses
<1>2. ASSUME NEW s \in Submitters, CreateApplication(s) PROVE StoresWhatItMay(a)
  <2>1. record'[a] = record[a]
    BY <1>2, CreationFiles
  <2> QED  BY <2>1 DEF StoresWhatItMay
<1>3. ASSUME NEW s \in Submitters, StoreVerdict(s) PROVE StoresWhatItMay(a)
  BY <1>3, OtherStatus DEF StoreVerdict
<1>4. ASSUME NEW s \in Submitters, IssueOnSubmit(s) PROVE StoresWhatItMay(a)
  <2>1. a = submit[s].app => MayStore(a, "completed")
    BY <1>4 DEF IssueOnSubmit, MayStore, SubmitMayStore
  <2> QED  BY <1>c, <1>4, <2>1, NewStatus DEF IssueOnSubmit, WriteLicense
<1>5. ASSUME NEW h \in Completers, RewriteLicense(h) \/ IssueOnCompletion(h)
      PROVE  StoresWhatItMay(a)
  <2>1. task[h].form.status # "rejected" /\ task[h].pc \in {"rewrite", "issue"}
    BY <1>5 DEF RewriteLicense, IssueOnCompletion, RejectsOnly
  <2>2. a = task[h].app => MayStore(a, "completed")
    BY <2>1 DEF MayStore, TaskMayStore
  <2>3. CASE RewriteLicense(h)
    BY <1>c, <2>2, <2>3, NewStatus DEF RewriteLicense
  <2>4. CASE IssueOnCompletion(h)
    BY <1>c, <2>2, <2>4, NewStatus DEF IssueOnCompletion, WriteLicense
  <2> QED  BY <1>5, <2>3, <2>4
<1>6. ASSUME NEW h \in Completers, UpdateApplication(h) PROVE StoresWhatItMay(a)
  <2>1. task[h].pc = "update" /\ task[h].form.status \in Statuses
    BY <1>6, ActivationHolds DEF UpdateApplication
  <2>2. CASE task[h].code = 0
    <3>1. a = task[h].app => MayStore(a, task[h].form.status)
      BY <2>1 DEF MayStore, TaskMayStore
    <3> QED  BY <1>6, <2>1, <2>2, <3>1, NewStatus DEF UpdateApplication
  <2>3. CASE task[h].code # 0
    <3>1. a = task[h].app => MayStore(a, "completed")
      BY <2>1, <2>3 DEF MayStore, TaskMayStore, RejectsOnly
    <3> QED  BY <1>c, <1>6, <2>3, <3>1, NewStatus DEF UpdateApplication
  <2> QED  BY <2>2, <2>3
<1>7. ASSUME NEW p \in Polls, HandleTask(p) PROVE StoresWhatItMay(a)
  <2>1. PICK t \in poll[p].todo :
          \/ /\ t.step = "El_schedule"
             /\ record' = [record EXCEPT ![t.app].status = "field_visit_scheduled",
                                         ![t.app].visit = TRUE]
          \/ record' = [record EXCEPT ![t.app].breached = TRUE]
          \/ t.step = "El_issue" /\ WriteLicense(t.app)
    BY <1>7 DEF HandleTask
  <2>2. t # poll[p].current
    BY <1>7, PollHolds DEF HandleTask, ExternalTasks, Nothing
  <2>3. a = t.app => /\ t.step = "El_schedule" => MayStore(a, "field_visit_scheduled")
                     /\ t.step = "El_issue" => MayStore(a, "completed")
    BY <2>2 DEF MayStore, PollMayStore
  <2> QED  BY <1>c, <2>1, <2>3, OtherStatus, NewStatus DEF WriteLicense
<1>8. ASSUME StorePending PROVE StoresWhatItMay(a)
  BY <1>8, OtherStatus DEF StorePending
<1>9. SubmitNext => StoresWhatItMay(a)
  BY <1>1, <1>2, <1>3, <1>4
  DEF SubmitNext, SubmitBegin, SubmitContinues, SubmitFails, FindByIdentity,
      StartProcess, EvaluateDecision, CheckFinished, recordVars
<1>10. TaskNext => StoresWhatItMay(a)
  BY <1>1, <1>5, <1>6
  DEF TaskNext, TaskBegin, TaskContinues, TaskFails, CompleteTask, CheckStillActive,
      ReadLicense
<1>11. WorkerNext => StoresWhatItMay(a)
  BY <1>1, <1>7
  DEF WorkerNext, FetchAndLock, PollContinues, CompleteExternalTask, HandlerFails,
      LockExpires, LockExpiresEarly, recordVars
<1>12. BackfillContinues \/ BackfillFails => StoresWhatItMay(a)
  BY <1>1, <1>8
  DEF BackfillContinues, BackfillFails, ListPending, EvaluatePending, recordVars
<1> QED
  BY <1>1, <1>9, <1>10, <1>11, <1>12
  DEF Next, ReviewTimerFires, UpdateRequirement, Crash, vars

\* The token of a is past the review, and not at the refusal.
Reviewed(a) == instance[a].at \in {"El_issue", "El_rejected", "El_approved"}

\* No completion of a review or an earlier step is accepted any more.
LEMMA NoNewTask ==
  ASSUME SafetyInv, [Next]_vars, NEW a \in Apps, Reviewed(a), NEW st,
         TaskMayStore(a, st)'
  PROVE  TaskMayStore(a, st)
<1> USE DEF SafetyInv, TypeInv, TypeOK
<1>1. PICK g \in Completers :
         /\ task'[g].pc \notin {"idle", "complete"}
         /\ task'[g].app = a
         /\ \/ st = task'[g].form.status
            \/ st = "completed" /\ task'[g].form.status # "rejected"
  BY DEF TaskMayStore
<1>2. CASE task'[g] = task[g]
  BY <1>1, <1>2 DEF TaskMayStore
<1>3. CASE task'[g] # task[g]
  <2>1. ~Crash
    BY <1>1 DEF Crash, NoTask
  <2>2. PICK h \in Completers : TaskBegin(h) \/ TaskContinues(h) \/ TaskFails(h)
    BY <1>3, <2>1 DEF Next, vars, TaskNext
  <2>3. h = g
    BY <1>3, <2>2
    DEF TaskBegin, TaskContinues, TaskFails, CompleteTask, CheckStillActive, ReadLicense,
        RewriteLicense, IssueOnCompletion, UpdateApplication, TaskGoes, TaskEnds, TaskType
  <2>4. ~TaskEnds(g)
    BY <1>1 DEF TaskEnds, TaskType, NoTask
  <2>5. ~TaskBegin(g)
    BY <1>1 DEF TaskBegin, TaskType
  <2>6. ~CompleteTask(g)
    <3>1. ASSUME CompleteTask(g) PROVE FALSE
      <4>1. TaskOpen(g) /\ task[g].pc = "complete" /\ task[g] \in Activation
        BY <2>4, <3>1, ActivationHolds DEF CompleteTask
      <4>2. PICK pc : TaskGoes(g, pc)
        BY <3>1, <4>1 DEF CompleteTask
      <4>3. task[g].app = a
        BY <1>1, <4>1, <4>2 DEF TaskGoes, TaskType, Activation
      <4>4. instance[a].at = task[g].form.step /\ task[g].form \in TaskForms
        BY <4>1, <4>3 DEF TaskOpen, Activation
      <4> QED  BY <4>4 DEF Reviewed, TaskForms, Form
    <3> QED  BY <3>1
  <2>7. CheckStillActive(g) \/ ReadLicense(g) \/ RewriteLicense(g) \/ IssueOnCompletion(g)
    BY <2>2, <2>3, <2>4, <2>5, <2>6 DEF TaskContinues, TaskFails, UpdateApplication
  <2>8. task[g].pc \notin {"idle", "complete"} /\ task[g] \in Activation
    BY <2>7, ActivationHolds
    DEF CheckStillActive, ReadLicense, RewriteLicense, IssueOnCompletion
  <2>9. task'[g].app = task[g].app /\ task'[g].form = task[g].form
    BY <2>7, <2>8
    DEF CheckStillActive, ReadLicense, RewriteLicense, IssueOnCompletion, TaskGoes,
        TaskType, Activation
  <2> QED  BY <1>1, <2>8, <2>9 DEF TaskMayStore
<1> QED  BY <1>2, <1>3

\* A submission that gets its record gets a new one.
LEMMA NoNewSubmission ==
  ASSUME SafetyInv, [Next]_vars, NEW a \in Apps, Reviewed(a), NEW st,
         SubmitMayStore(a, st)'
  PROVE  SubmitMayStore(a, st)
<1> USE DEF SafetyInv, TypeInv, TypeOK
<1>1. PICK r \in Submitters :
         submit'[r].pc \notin {"idle", "find", "create"} /\ submit'[r].app = a
  BY DEF SubmitMayStore
<1>2. st = "completed"
  BY DEF SubmitMayStore
<1>3. CASE submit'[r] = submit[r]
  BY <1>1, <1>2, <1>3 DEF SubmitMayStore
<1>4. CASE submit'[r] # submit[r]
  <2>1. ~Crash
    BY <1>1 DEF Crash, IdleSubmit
  <2>2. PICK s \in Submitters : SubmitBegin(s) \/ SubmitContinues(s) \/ SubmitFails(s)
    BY <1>4, <2>1 DEF Next, vars, SubmitNext
  <2>3. s = r
    BY <1>4, <2>2
    DEF SubmitBegin, SubmitContinues, SubmitFails, FindByIdentity, CreateApplication,
        StartProcess, EvaluateDecision, StoreVerdict, CheckFinished, IssueOnSubmit,
        SubmitGoes, SubmitEnds, SubmitType
  <2>4. ~SubmitEnds(r)
    BY <1>1 DEF SubmitEnds, SubmitType, IdleSubmit
  <2>5. ~SubmitBegin(r) /\ ~FindByIdentity(r)
    BY <1>1, <2>4 DEF SubmitBegin, FindByIdentity, SubmitGoes, SubmitType
  <2>6. ~CreateApplication(r)
    <3>1. ASSUME CreateApplication(r) PROVE record[a].status = "absent"
      BY <1>1, <3>1 DEF CreateApplication, Unfiled, SubmitType
    <3> QED  BY <3>1 DEF Reviewed, RecordInv, FiledInv
  <2>7. StartProcess(r) \/ EvaluateDecision(r) \/ StoreVerdict(r) \/ CheckFinished(r)
    BY <2>2, <2>3, <2>4, <2>5, <2>6 DEF SubmitContinues, SubmitFails, IssueOnSubmit
  <2>8. submit[r].pc \notin {"idle", "find", "create"} /\ submit'[r].app = submit[r].app
    BY <2>4, <2>7
    DEF StartProcess, EvaluateDecision, StoreVerdict, CheckFinished, SubmitGoes, SubmitType
  <2> QED  BY <1>1, <1>2, <2>8 DEF SubmitMayStore
<1> QED  BY <1>3, <1>4

\* A poll may still fetch the issue task, and nothing else that has a status.
LEMMA NoNewPoll ==
  ASSUME SafetyInv, [Next]_vars, NEW a \in Apps, Reviewed(a), NEW st,
         PollMayStore(a, st)'
  PROVE  PollMayStore(a, st) \/ (st = "completed" /\ instance[a].at = "El_issue")
<1> USE DEF SafetyInv, TypeInv, TypeOK
<1>0. PICK q \in Polls : \E t \in poll'[q].todo :
         /\ t # poll'[q].current
         /\ t.app = a
         /\ \/ st = "field_visit_scheduled" /\ t.step = "El_schedule"
            \/ st = "completed" /\ t.step = "El_issue"
  BY DEF PollMayStore
<1>1. PICK t \in poll'[q].todo :
         /\ t # poll'[q].current
         /\ t.app = a
         /\ \/ st = "field_visit_scheduled" /\ t.step = "El_schedule"
            \/ st = "completed" /\ t.step = "El_issue"
  BY <1>0
<1>2. CASE t \in poll[q].todo /\ t # poll[q].current
  BY <1>1, <1>2 DEF PollMayStore
<1>3. CASE ~(t \in poll[q].todo /\ t # poll[q].current)
  <2>1. ~Crash
    BY <1>1 DEF Crash, IdlePoll
  <2>2. PICK p \in Polls : FetchAndLock(p) \/ PollContinues(p) \/ HandlerFails(p)
    BY <1>1, <1>3, <2>1
    DEF Next, vars, workerVars, WorkerNext, LockExpires, LockExpiresEarly
  <2>3. p = q
    BY <1>1, <1>3, <2>2
    DEF FetchAndLock, PollContinues, HandlerFails, HandleTask, CompleteExternalTask,
        WorkerType
  <2>4. ~HandleTask(q)
    <3>1. HandleTask(q) => /\ poll'[q].todo = poll[q].todo
                           /\ poll[q].current = Nothing
      BY DEF HandleTask, WorkerType
    <3>2. t \in poll[q].todo => t # Nothing
      BY PollHolds DEF ExternalTasks, Nothing
    <3> QED  BY <1>1, <1>3, <3>1, <3>2
  <2>5. ~CompleteExternalTask(q)
    BY <1>1, <1>3 DEF CompleteExternalTask, WorkerType
  <2>6. ~HandlerFails(q)
    <3>1. ASSUME HandlerFails(q) PROVE FALSE
      <4>1. PICK u \in poll[q].todo :
               /\ poll[q].current \in {u, Nothing}
               /\ poll' = [poll EXCEPT ![q].todo = @ \ {u}, ![q].current = Nothing]
        BY <3>1 DEF HandlerFails
      <4>2. t \in poll[q].todo /\ t # u
        BY <1>1, <4>1 DEF WorkerType
      <4>3. t # Nothing
        BY <4>2, PollHolds DEF ExternalTasks, Nothing
      <4> QED  BY <1>3, <4>1, <4>2, <4>3
    <3> QED  BY <3>1
  <2>7. FetchAndLock(q)
    BY <2>2, <2>3, <2>4, <2>5, <2>6 DEF PollContinues
  <2>8. t \in OpenTasks
    BY <1>1, <2>7 DEF FetchAndLock, WorkerType
  <2>9. instance[a].at = t.step
    BY <1>1, <2>8, OpenTaskMeaning DEF RecordsType, Escalate
  <2> QED  BY <1>1, <2>9 DEF Reviewed
<1> QED  BY <1>2, <1>3

LEMMA NoNewStatus ==
  ASSUME SafetyInv, [Next]_vars, NEW a \in Apps, Reviewed(a), NEW st, MayStore(a, st)'
  PROVE  MayStore(a, st) \/ (st = "completed" /\ instance[a].at = "El_issue")
<1>1. TaskMayStore(a, st)' \/ SubmitMayStore(a, st)' \/ PollMayStore(a, st)'
  BY DEF MayStore
<1> QED  BY <1>1, NoNewTask, NoNewSubmission, NoNewPoll DEF MayStore

\* A poll has stored the licence of a and not reported it yet.
Coding(a) == \E p \in Polls : Issues(poll[p].current, a)

\* What holds of an application that no decision has overtaken.
DecisionInv == \A a \in Apps : a \notin overtaken =>
    /\ instance[a].at = "El_rejected" =>
         record[a].status # "completed" /\ OnlyToStore(a, "rejected")
    /\ instance[a].at = "El_approved" \/ Coding(a) =>
         record[a].status = "completed" /\ OnlyToStore(a, "completed")

\* A poll that comes to hold a stored licence has just stored it.
LEMMA CodingBegins ==
  ASSUME SafetyInv, [Next]_vars, NEW a \in Apps, Coding(a)', ~Coding(a)
  PROVE  /\ Approved(a) /\ instance' = instance
         /\ lastCode'[a] # lastCode[a] /\ record'[a].status = "completed"
<1> USE DEF SafetyInv, TypeInv, TypeOK
<1>1. PICK q \in Polls : Issues(poll'[q].current, a)
  BY DEF Coding
<1>2. poll'[q].current # poll[q].current /\ poll'[q].current # Nothing
  BY <1>1 DEF Coding, Issues
<1>3. HandleTask(q)
  <2>1. ~Crash
    BY <1>2 DEF Crash, IdlePoll
  <2>2. PICK p \in Polls : FetchAndLock(p) \/ PollContinues(p) \/ HandlerFails(p)
    BY <1>2, <2>1
    DEF Next, vars, workerVars, WorkerNext, LockExpires, LockExpiresEarly
  <2>3. p = q
    BY <1>2, <2>2
    DEF FetchAndLock, PollContinues, HandlerFails, HandleTask, CompleteExternalTask,
        WorkerType
  <2>4. ~FetchAndLock(q)
    BY <1>2 DEF FetchAndLock, WorkerType
  <2>5. ~CompleteExternalTask(q) /\ ~HandlerFails(q)
    BY <1>2 DEF CompleteExternalTask, HandlerFails, WorkerType
  <2> QED  BY <2>2, <2>3, <2>4, <2>5 DEF PollContinues
<1>4. PICK t \in poll[q].todo :
         /\ poll' = [poll EXCEPT ![q].current = t]
         /\ t.step = "El_issue" => WriteLicense(t.app)
  BY <1>3 DEF HandleTask, Escalate
<1>5. t.app = a /\ t.step = "El_issue" /\ WriteLicense(a)
  BY <1>1, <1>4 DEF WorkerType, Issues
<1>6. Approved(a)
  BY <1>5 DEF WorkerInv
<1>7. lastCode[a] \in Nat /\ lastCode \in [Apps -> Nat]
  BY DEF RecordsType
<1>8. lastCode'[a] # lastCode[a] /\ record'[a].status = "completed"
  BY <1>5, <1>7 DEF WriteLicense, RecordsType, Records
<1> QED  BY <1>3, <1>6, <1>8 DEF HandleTask

LEMMA DecisionStep ==
  ASSUME ~EngineMayFail
  PROVE  SafetyInv /\ RejectsOnly /\ DecisionInv /\ [Next]_vars => DecisionInv'
<1> SUFFICES ASSUME SafetyInv, RejectsOnly, DecisionInv, [Next]_vars, NEW a \in Apps,
                    a \notin overtaken'
             PROVE  /\ instance'[a].at = "El_rejected" =>
                         record'[a].status # "completed" /\ OnlyToStore(a, "rejected")'
                    /\ instance'[a].at = "El_approved" \/ Coding(a)' =>
                         record'[a].status = "completed" /\ OnlyToStore(a, "completed")'
  BY DEF DecisionInv
<1> USE DEF SafetyInv, TypeInv, TypeOK
<1>0. SafetyInv' /\ TokenStep(a)
  BY SafetyInvStep, TokenMoves
<1>1. a \notin overtaken /\ (Overtakes(a) => UNCHANGED vars)
  BY DEF Next, Remembers, vars
<1>2. Reviewed(a) => record[a].status # "absent"
  BY DEF Reviewed, RecordInv, FiledInv
<1>3. Coding(a) => Approved(a)
  BY DEF Coding, Issues, WorkerInv, Approved
<1>4. CASE instance'[a].at = "El_rejected"
  <2>0. ~(instance'[a].at = "El_approved" \/ Coding(a)')
    BY <1>0, <1>4 DEF Coding, Issues, WorkerInv, Approved
  <2>1. CASE instance[a].at = "El_rejected"
    <3>1. record[a].status # "completed" /\ OnlyToStore(a, "rejected") /\ Reviewed(a)
      BY <1>1, <2>1 DEF DecisionInv, Reviewed
    <3>2. record'[a].status # "completed"
      BY <1>2, <3>1, StatusesStored DEF StoresWhatItMay, OnlyToStore
    <3>3. OnlyToStore(a, "rejected")'
      BY <2>1, <3>1, NoNewStatus DEF OnlyToStore
    <3> QED  BY <2>0, <3>2, <3>3
  <2>2. CASE instance[a].at # "El_rejected"
    <3>1. record[a].status # "completed" /\ record' = record
      BY <1>0, <1>4, <2>2
      DEF TokenStep, RecordInv, DecisionTaken, Decided, EndEvents
    <3>2. OnlyToStore(a, "rejected")'
      BY <1>1, <1>4, <2>2 DEF Overtakes, vars
    <3> QED  BY <2>0, <3>1, <3>2
  <2> QED  BY <2>1, <2>2
<1>5. CASE instance'[a].at = "El_approved" \/ Coding(a)'
  <2>0. instance'[a].at # "El_rejected"
    BY <1>0, <1>5 DEF Coding, Issues, WorkerInv, Approved
  <2>1. CASE instance[a].at = "El_approved" \/ Coding(a)
    <3>1. record[a].status = "completed" /\ OnlyToStore(a, "completed") /\ Reviewed(a)
      BY <1>1, <1>3, <2>1 DEF DecisionInv, Reviewed, Approved
    <3>2. record'[a].status = "completed"
      BY <1>2, <3>1, StatusesStored DEF StoresWhatItMay, OnlyToStore
    <3>3. OnlyToStore(a, "completed")'
      BY <3>1, NoNewStatus DEF OnlyToStore
    <3> QED  BY <2>0, <3>2, <3>3
  <2>2. CASE ~(instance[a].at = "El_approved" \/ Coding(a))
    <3>1. Coding(a)'
      <4>1. instance'[a].at = "El_approved" => instance[a].at = "El_issue"
        BY <1>0, <2>2 DEF TokenStep, Approved
      <4>2. instance'[a].at = "El_approved" => Coding(a)
        BY <1>0, <4>1 DEF TokenStep, Coding
      <4> QED  BY <1>5, <2>2, <4>2
    <3>2. /\ instance[a].at = "El_issue"
          /\ lastCode'[a] # lastCode[a] /\ record'[a].status = "completed"
      BY <2>2, <3>1, CodingBegins DEF Approved
    <3>3. OnlyToStore(a, "completed")'
      BY <1>1, <3>2 DEF Overtakes, vars
    <3> QED  BY <2>0, <3>2, <3>3
  <2> QED  BY <2>1, <2>2
<1> QED  BY <1>4, <1>5

LEMMA DecisionInit == Init => RejectsOnly /\ DecisionInv
BY DEF Init, RecordsInit, NoInstance, TaskInit, NoTask, WorkerInit, IdlePoll, Issues,
       RejectsOnly, DecisionInv, Coding

\* With an engine whose look-ups answer, a record shows an approval or a
\* rejection only if the engine took it, whichever completions raced for the
\* review; and an application whose decision overtook no handler shows as
\* completed when its process has issued the licence, and never when it was
\* rejected, for any number of handlers, polls, crashes and failed calls.
THEOREM DecisionSafe ==
  ASSUME ~EngineMayFail
  PROVE  Spec => []DecisionAgreesWithEngine
<1>1. Init => SafetyInv /\ RejectsOnly /\ DecisionInv
  BY SafetyInvInit, DecisionInit
<1>2. SafetyInv /\ RejectsOnly /\ DecisionInv /\ [Next]_vars
        => SafetyInv' /\ RejectsOnly' /\ DecisionInv'
  BY SafetyInvStep, RejectsStep, DecisionStep DEF SafetyInv
<1>3. SafetyInv /\ DecisionInv => DecisionAgreesWithEngine
  BY DEF SafetyInv, RecordInv, DecisionTaken, Approved, DecisionInv,
         DecisionAgreesWithEngine
<1> QED  BY <1>1, <1>2, <1>3, PTL DEF Spec

=============================================================================
