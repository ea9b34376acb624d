--------------------------- MODULE LicenseWorkflow ---------------------------
(***************************************************************************)
(* The licence workflow as a whole: the submission and completion handlers *)
(* and the external-task worker of one platform process, which share the   *)
(* records and the process instances, the engine's review timer, the       *)
(* admin's changes of the eligibility requirement, and crashes of the      *)
(* platform process followed by its startup backfill.                      *)
(***************************************************************************)
EXTENDS SubmitHandler, TaskHandler, ExternalTaskWorker

VARIABLES
    backfill,    \* the eligibility backfill the startup runs once
    overtaken,   \* applications decided while a handler had a status to store
    raced        \* identities that two submissions found free together

\* The system; the last two variables are history that no action reads.
systemVars == <<record, instance, lastCode, requirement, faults,
                submit, task, locked, poll, backfill>>

vars == <<record, instance, lastCode, requirement, faults,
          submit, task, locked, poll, backfill, overtaken, raced>>

BackfillType == backfill \in
    [pc : {"list", "evaluate", "store", "done"}, todo : SUBSET Apps,
     app : Apps \cup {NoApp}, verdict : {"unset", "yes", "no"}]

FreshBackfill ==
    [pc |-> "list", todo |-> {}, app |-> NoApp, verdict |-> "unset"]

Init ==
    /\ RecordsInit
    /\ SubmitInit
    /\ TaskInit
    /\ WorkerInit
    /\ backfill = FreshBackfill
    /\ overtaken = {} /\ raced = {}

-----------------------------------------------------------------------------
\* The backfill goes over the records whose eligibility is null.

ListPending ==
    /\ backfill.pc = "list"
    /\ LET pending == {a \in Apps : /\ record[a].status # "absent"
                                    /\ record[a].eligible = "unset"}
       IN  backfill' = [backfill EXCEPT
              !.todo = pending, !.pc = IF pending = {} THEN "done" ELSE "evaluate"]
    /\ UNCHANGED recordVars

EvaluatePending ==
    /\ backfill.pc = "evaluate"
    /\ \E a \in backfill.todo :
          backfill' = [pc |-> "store", todo |-> backfill.todo \ {a}, app |-> a,
                       verdict |-> Verdict(record[a].facts)]
    /\ UNCHANGED recordVars

StorePending ==
    /\ backfill.pc = "store"
    /\ record' = [record EXCEPT ![backfill.app].eligible = backfill.verdict]
    /\ backfill' = [FreshBackfill EXCEPT
          !.todo = backfill.todo,
          !.pc = IF backfill.todo = {} THEN "done" ELSE "evaluate"]
    /\ UNCHANGED <<instance, lastCode, requirement, faults>>

\* A failing call ends the loop; the rest stays for the next startup.
BackfillFails ==
    /\ backfill.pc # "done"
    /\ Fault
    /\ backfill' = [FreshBackfill EXCEPT !.pc = "done"]
    /\ UNCHANGED <<record, instance, lastCode, requirement>>

BackfillContinues == ListPending \/ EvaluatePending \/ StorePending

\* The platform process dies: every handler and poll is lost between two
\* calls, locks stay in the engine, and the restarted process backfills.
Crash ==
    /\ Fault
    /\ submit' = [s \in Submitters |-> IdleSubmit]
    /\ task' = [h \in Completers |-> NoTask]
    /\ poll' = [p \in Polls |-> IdlePoll]
    /\ backfill' = FreshBackfill
    /\ UNCHANGED <<record, instance, lastCode, requirement, locked>>

-----------------------------------------------------------------------------
(* History.  The exceptions of two properties, noted as they happen. *)

\* A handler in progress may still store status st for application a.
TaskMayStore(a, st) == \E h \in Completers :
    /\ task[h].pc \notin {"idle", "complete"}
    /\ task[h].app = a
    /\ \/ st = task[h].form.status
       \/ st = "completed" /\ task[h].form.status # "rejected"

SubmitMayStore(a, st) ==
    /\ st = "completed"
    /\ \E s \in Submitters :
          submit[s].pc \notin {"idle", "find", "create"} /\ submit[s].app = a

PollMayStore(a, st) == \E p \in Polls : \E t \in poll[p].todo :
    /\ t # poll[p].current
    /\ t.app = a
    /\ \/ st = "field_visit_scheduled" /\ t.step = "El_schedule"
       \/ st = "completed" /\ t.step = "El_issue"

MayStore(a, st) == TaskMayStore(a, st) \/ SubmitMayStore(a, st) \/ PollMayStore(a, st)

\* Whatever status is still to be stored for a, it is st.
OnlyToStore(a, st) == \A other \in Statuses \ {st} : ~MayStore(a, other)

\* The engine rejects a, or the worker issues its licence, while a handler of
\* an earlier step is still to store its status.
Overtakes(a) ==
    \/ /\ instance[a].at # "El_rejected" /\ instance'[a].at = "El_rejected"
       /\ ~OnlyToStore(a, "rejected")'
    \/ /\ instance[a].at = "El_issue" /\ lastCode'[a] # lastCode[a]
       /\ ~OnlyToStore(a, "completed")'

\* A submission finds id free while another one is about to file it.
Races(id) == \E r, s \in Submitters :
    /\ r # s
    /\ submit[s].pc = "find" /\ submit'[s].pc = "create" /\ submit[s].identity = id
    /\ submit[r].pc = "create" /\ submit[r].identity = id

Remembers ==
    /\ overtaken' = overtaken \cup {a \in Apps : Overtakes(a)}
    /\ raced' = raced \cup {id \in Identities : Races(id)}

-----------------------------------------------------------------------------
Next ==
    \/ SubmitNext /\ UNCHANGED <<task, workerVars, backfill>> /\ Remembers
    \/ TaskNext /\ UNCHANGED <<submit, workerVars, backfill>> /\ Remembers
    \/ WorkerNext /\ UNCHANGED <<submit, task, backfill>> /\ Remembers
    \/ /\ BackfillContinues \/ BackfillFails
       /\ UNCHANGED <<submit, task, workerVars>> /\ Remembers
    \/ /\ (\E a \in Apps : ReviewTimerFires(a)) \/ UpdateRequirement
       /\ UNCHANGED <<submit, task, workerVars, backfill>> /\ Remembers
    \/ Crash /\ Remembers

Spec == Init /\ [][Next]_vars

\* A running handler's awaited calls are answered in the end, setInterval
\* keeps polling, and the engine's locks run out.  Users and admins are
\* under no obligation.
Fairness ==
    /\ \A s \in Submitters :
          WF_systemVars(SubmitContinues(s) /\ UNCHANGED <<task, workerVars, backfill>>)
    /\ \A h \in Completers :
          WF_systemVars(TaskContinues(h) /\ UNCHANGED <<submit, workerVars, backfill>>)
    /\ \A p \in Polls :
          WF_systemVars((FetchAndLock(p) \/ PollContinues(p))
                    /\ UNCHANGED <<submit, task, backfill>>)
    /\ WF_systemVars((\E t \in locked : LockExpires(t))
                 /\ UNCHANGED <<submit, task, backfill>>)
    /\ WF_systemVars(BackfillContinues /\ UNCHANGED <<submit, task, workerVars>>)

FairSpec == Spec /\ Fairness

-----------------------------------------------------------------------------
HistoryType == overtaken \subseteq Apps /\ raced \subseteq Identities

\* The state of every part is one the code can build.
TypeOK ==
    RecordsType /\ SubmitType /\ TaskType /\ WorkerType /\ BackfillType /\ HistoryType

\* The process of a has no human step ahead any more.
Decided(a) == instance[a].at \in {"El_issue"} \cup EndEvents

\* A record carries a licence code only when no payment, visit or review of
\* its process is still to come.  Three paths write codes: the worker, a
\* completion that finds the instance gone, a submission that finds it gone.
LicenseOnlyWhenDecided == \A a \in Apps : record[a].qr # 0 => Decided(a)

\* Whatever races for a review, a record shows an approval or a rejection only
\* if the engine took it: a completion the engine refused leaves no trace.  And
\* unless the decision overtook a handler of an earlier step, a rejected
\* application never shows as completed, and an approved one whose process has
\* ended does: no check of a finished process licences the rejected, no patch
\* undoes the worker's status.  (An ineligible one may show as completed: the
\* submission itself completes it, see IneligibleGetsNoLicense.)
DecisionAgreesWithEngine == \A a \in Apps :
    /\ record[a].status = "approved" => instance[a].at \in {"El_issue", "El_approved"}
    /\ record[a].status = "rejected" => instance[a].at = "El_rejected"
    /\ record[a].status = "completed" => Decided(a)
    /\ a \notin overtaken =>
         /\ instance[a].at = "El_rejected" => record[a].status # "completed"
         /\ instance[a].at = "El_approved" => record[a].status = "completed"

\* The specialist gets the application only after its visit date is stored,
\* and the process reaches "License Issued" only after a code is stored,
\* whatever is retried, lost or repeated.
EffectsPrecedeProgress == \A a \in Apps :
    /\ instance[a].at \in {"El_evaluate", "El_review", "El_issue",
                           "El_rejected", "El_approved"} => record[a].visit
    /\ instance[a].at = "El_approved" => record[a].qr # 0

\* As long as nothing has failed, no external task is handled by two polls at
\* a time, although all polls lock under one worker id.
PollsDisjoint == faults = 0 =>
    \A p, q \in Polls : p # q => poll[p].todo \cap poll[q].todo = {}

\* As long as nothing has failed, an approved application that has a licence
\* code gets no second one from a poll or from a completion, however late:
\* only its own submission, if that is still running, can replace the code.
NoSecondCode == [][\A a \in Apps :
    (/\ faults' = 0
     /\ instance[a].at \in {"El_issue", "El_approved"}
     /\ record[a].qr # 0
     /\ lastCode'[a] # lastCode[a])
    => \E s \in Submitters : submit[s].app = a]_vars

\* As long as the requirement does not change, the eligibility a record shows
\* is the one the engine acted upon.
VerdictAgreesWithEngine == \A a \in Apps : instance[a].at # "none" =>
    /\ record[a].eligible = "yes" => instance[a].at # "El_notEligible"
    /\ record[a].eligible = "no" => instance[a].at = "El_notEligible"

\* Two applications share a commercial registration and civil id only if two
\* submissions looked the identity up before either had filed it.
OneApplicationPerIdentity == \A a, b \in Apps :
    a # b /\ record[a].identity = record[b].identity
      => record[a].identity \in raced \cup {NoIdentity}

\* A process that ended as not eligible yields no licence.
IneligibleGetsNoLicense == \A a \in Apps :
    instance[a].at = "El_notEligible" => record[a].qr = 0

\* An approved application gets its licence code and its process ends,
\* through crashes, failed calls and lost locks.
ApprovedGetsLicense == \A a \in Apps :
    instance[a].at = "El_issue" ~> (record[a].qr # 0 /\ instance[a].at = "El_approved")

\* An escalation the timer started reaches the record and the engine.
EscalationIsDelivered == \A a \in Apps :
    instance[a].escalating # {} ~> (record[a].breached /\ instance[a].escalating = {})

\* A paid application gets its visit scheduled.
PaidIsScheduled == \A a \in Apps :
    instance[a].at = "El_schedule" ~> (record[a].visit /\ instance[a].at # "El_schedule")

-----------------------------------------------------------------------------
\* The workflow seen as the lifecycle it implements.
StageOf == [none           |-> "draft",      El_pay      |-> "payment",
            El_schedule    |-> "scheduling", El_evaluate |-> "visit",
            El_review      |-> "review",     El_issue    |-> "issuing",
            El_notEligible |-> "refused",    El_rejected |-> "rejected",
            El_approved    |-> "granted"]

Lifecycle == INSTANCE LicenseLifecycle WITH
    stage    <- [a \in Apps |-> StageOf[instance[a].at]],
    visitSet <- [a \in Apps |-> record[a].visit],
    licensed <- [a \in Apps |-> record[a].qr # 0]

\* Every step of every handler, poll, timer, crash and retry is a step of the
\* lifecycle or invisible in it.
ImplementsLifecycle == Lifecycle!Spec

=============================================================================
