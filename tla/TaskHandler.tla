----------------------------- MODULE TaskHandler -----------------------------
(***************************************************************************)
(* POST /api/tasks/:id/complete, as the portal's three forms call it: one  *)
(* activation of the handler per slot of Completers.                       *)
(***************************************************************************)
EXTENDS LicenseRecords

CONSTANTS
    Completers,   \* bound on completions handled at the same time
    MaxRounds     \* bound on the reviews sent back with comments

ASSUME MaxRoundsAssumption == MaxRounds \in Nat

VARIABLE task     \* task[h]: where activation h is and what it holds

\* What a form sends: the user task it completes, the outcome variable and
\* the status of its applicationUpdate.
Form(step, outcome, status) ==
    [step |-> step, outcome |-> outcome, status |-> status]

TaskForms ==
    { Form("El_pay",      "none",     "field_visit_scheduled"),
      Form("El_evaluate", "none",     "under_review"),
      Form("El_review",   "comments", "revision_requested"),
      Form("El_review",   "approve",  "approved"),
      Form("El_review",   "reject",   "rejected") }

TaskPcs == {"idle", "complete", "check", "read", "rewrite", "issue", "update"}

NoTask == [pc |-> "idle"]

\* traced: getTask found the task; code: the licence code to store, or 0.
Activation == [pc : TaskPcs \ {"idle"}, app : Apps, round : Nat,
               form : TaskForms, traced : BOOLEAN, code : Nat]

TaskType == task \in [Completers -> {NoTask} \cup Activation]

TaskInit == task = [h \in Completers |-> NoTask]

TaskGoes(h, pc) == task' = [task EXCEPT ![h].pc = pc]

TaskEnds(h) == task' = [task EXCEPT ![h] = NoTask]

\* The request arrives for a task the portal lists.  A failing getTask is
\* caught and leaves the task unknown.
TaskBegin(h) ==
    /\ task[h].pc = "idle"
    /\ \E a \in Apps, f \in TaskForms, traced \in BOOLEAN :
          /\ instance[a].at = f.step
          /\ f.outcome = "comments" => instance[a].round <= MaxRounds
          /\ IF traced THEN UNCHANGED faults ELSE Fault
          /\ task' = [task EXCEPT ![h] =
                        [pc |-> "complete", app |-> a,
                         round |-> instance[a].round, form |-> f,
                         traced |-> traced, code |-> 0]]
    /\ UNCHANGED <<record, instance, lastCode, requirement>>

\* Is the user task the activation was called for still open?
TaskOpen(h) ==
    /\ instance[task[h].app].at = task[h].form.step
    /\ instance[task[h].app].round = task[h].round

\* Variant: a refused completion is caught the way a failed getTask is.
CompleteTaskCatching(h) ==
    /\ task[h].pc = "complete"
    /\ instance' = IF TaskOpen(h)
                     THEN [instance EXCEPT ![task[h].app] =
                             Advance(@, task[h].form.outcome)]
                     ELSE instance
    /\ TaskGoes(h, IF task[h].traced THEN "check" ELSE "update")
    /\ UNCHANGED <<record, lastCode, requirement, faults>>

\* completeTask: the engine refuses a task that is already completed.
CompleteTask(h) ==
    /\ task[h].pc = "complete"
    /\ IF TaskOpen(h)
         THEN /\ instance' = [instance EXCEPT ![task[h].app] =
                                 Advance(@, task[h].form.outcome)]
              /\ TaskGoes(h, IF task[h].traced THEN "check" ELSE "update")
         ELSE TaskEnds(h) /\ UNCHANGED instance
    /\ UNCHANGED <<record, lastCode, requirement, faults>>

\* Variant: the handler does not ask whether the process goes on.
CheckNothing(h) ==
    /\ task[h].pc = "check"
    /\ TaskGoes(h, IF task[h].form.status \in NonTerminalStatuses \cup {"approved"}
                     THEN "read" ELSE "update")
    /\ UNCHANGED recordVars

\* Variant: the list of statuses that lead to a licence has "rejected", too.
CheckForgettingReject(h) ==
    /\ task[h].pc = "check"
    /\ \/ SeesActive(task[h].app) /\ TaskGoes(h, "update")
       \/ /\ SeesInactive(task[h].app)
          /\ TaskGoes(h, IF task[h].form.status # "revision_requested"
                           THEN "read" ELSE "update")
    /\ UNCHANGED <<record, instance, lastCode, requirement>>

\* Only a process that is over gets a licence here, and not from a rejection.
CheckStillActive(h) ==
    /\ task[h].pc = "check"
    /\ \/ SeesActive(task[h].app) /\ TaskGoes(h, "update")
       \/ /\ SeesInactive(task[h].app)
          /\ TaskGoes(h, IF task[h].form.status
                              \in NonTerminalStatuses \cup {"approved", "completed"}
                           THEN "read" ELSE "update")
    /\ UNCHANGED <<record, instance, lastCode, requirement>>

\* Variant: issueLicenseAndNotify is called without skipIfHasQr.
ReadNoLicense(h) ==
    /\ task[h].pc = "read"
    /\ TaskGoes(h, "issue")
    /\ UNCHANGED recordVars

\* skipIfHasQr: an existing code is kept; a failed read counts as none.
ReadLicense(h) ==
    /\ task[h].pc = "read"
    /\ LET a == task[h].app
       IN  \/ /\ (record[a].qr = 0 /\ UNCHANGED faults) \/ Fault
              /\ TaskGoes(h, "issue")
           \/ /\ record[a].qr # 0
              /\ task' = [task EXCEPT
                    ![h].code = record[a].qr,
                    ![h].pc = IF record[a].status = "completed"
                                THEN "update" ELSE "rewrite"]
              /\ UNCHANGED faults
    /\ UNCHANGED <<record, instance, lastCode, requirement>>

\* The status is set to completed under the code that was read.
RewriteLicense(h) ==
    /\ task[h].pc = "rewrite"
    /\ record' = [record EXCEPT ![task[h].app].status = "completed",
                                ![task[h].app].qr = task[h].code]
    /\ TaskGoes(h, "update")
    /\ UNCHANGED <<instance, lastCode, requirement, faults>>

IssueOnCompletion(h) ==
    /\ task[h].pc = "issue"
    /\ WriteLicense(task[h].app)
    /\ task' = [task EXCEPT ![h].pc = "update",
                            ![h].code = lastCode[task[h].app] + 1]
    /\ UNCHANGED <<instance, requirement, faults>>

\* The patch of the form, overridden by the licence when there is one.
UpdateApplication(h) ==
    /\ task[h].pc = "update"
    /\ LET a == task[h].app
       IN  record' = IF task[h].code = 0
              THEN [record EXCEPT ![a].status = task[h].form.status]
              ELSE [record EXCEPT ![a].status = "completed",
                                  ![a].qr = task[h].code]
    /\ TaskEnds(h)
    /\ UNCHANGED <<instance, lastCode, requirement, faults>>

\* A call throws, before or after it had its effect: the answer is 500.
TaskFails(h) ==
    /\ task[h].pc # "idle"
    /\ Fault
    /\ TaskEnds(h)
    /\ UNCHANGED <<record, instance, lastCode, requirement>>

TaskContinues(h) ==
    \/ CompleteTask(h) \/ CheckStillActive(h) \/ ReadLicense(h)
    \/ RewriteLicense(h) \/ IssueOnCompletion(h) \/ UpdateApplication(h)

TaskNext == \E h \in Completers :
    TaskBegin(h) \/ TaskContinues(h) \/ TaskFails(h)

=============================================================================
