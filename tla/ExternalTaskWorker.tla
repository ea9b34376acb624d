------------------------- MODULE ExternalTaskWorker -------------------------
(***************************************************************************)
(* externalTaskWorker.js.  setInterval starts a poll every two seconds and *)
(* does not wait for the previous one, so several polls overlap: one slot  *)
(* of Polls each.  They all lock tasks under the same worker id.           *)
(***************************************************************************)
EXTENDS LicenseRecords

CONSTANTS
    Polls,       \* bound on polls that are in progress at the same time
    MaxTasks     \* tasks one fetchAndLock may return

ASSUME MaxTasksAssumption == MaxTasks \in Nat \ {0}

VARIABLES
    locked,      \* external tasks whose lock has not expired
    poll         \* poll[p]: the tasks poll p still has to handle

workerVars == <<locked, poll>>

\* An external task: the application it is about and its step and round.
ExternalTasks ==
    [app : Apps, step : WorkerSteps \cup {Escalate}, round : Nat]

Nothing == [app |-> "none"]

OpenTasks == UNION {{[app |-> a, step |-> s[1], round |-> s[2]] :
                        s \in OpenSteps(instance[a])} : a \in Apps}

\* todo: fetched and not finished; current: the task whose record update
\* is done and whose completion is still to be reported.
WorkerType ==
    /\ locked \subseteq ExternalTasks
    /\ poll \in [Polls -> [todo : SUBSET ExternalTasks,
                           current : ExternalTasks \cup {Nothing}]]

IdlePoll == [todo |-> {}, current |-> Nothing]

WorkerInit == locked = {} /\ poll = [p \in Polls |-> IdlePoll]

\* Variant: the tasks are listed without being locked.
FetchWithoutLock(p) ==
    /\ poll[p] = IdlePoll
    /\ OpenTasks # {}
    /\ poll' = [poll EXCEPT ![p].todo = OpenTasks]
    /\ UNCHANGED <<recordVars, locked>>

\* Variant: the worker subscribes to all topics but "issue-license".
FetchOtherTopics(p) ==
    /\ poll[p] = IdlePoll
    /\ LET S == {t \in OpenTasks \ locked : t.step # "El_issue"}
       IN  /\ S # {}
           /\ locked' = locked \cup S
           /\ poll' = [poll EXCEPT ![p].todo = S]
    /\ UNCHANGED recordVars

\* fetchAndLock: up to MaxTasks open tasks nobody has locked.
FetchAndLock(p) ==
    /\ poll[p] = IdlePoll
    /\ \E S \in SUBSET (OpenTasks \ locked) \ {{}} :
          /\ \/ Cardinality(S) = MaxTasks
             \/ S = OpenTasks \ locked /\ Cardinality(S) <= MaxTasks
          /\ locked' = locked \cup S
          /\ poll' = [poll EXCEPT ![p].todo = S]
    /\ UNCHANGED recordVars

\* Variant: a failing record update is swallowed by the handler.
HandleSwallowingErrors(p) ==
    /\ poll[p].current = Nothing
    /\ \E t \in poll[p].todo : poll' = [poll EXCEPT ![p].current = t]
    /\ UNCHANGED <<recordVars, locked>>

\* Variant: the licence is stored under the status the record has.
HandleKeepingStatus(p) ==
    /\ poll[p].current = Nothing
    /\ \E t \in poll[p].todo :
          /\ poll' = [poll EXCEPT ![p].current = t]
          /\ lastCode' = [lastCode EXCEPT ![t.app] = @ + 1]
          /\ record' = [record EXCEPT
                ![t.app].visit = TRUE,
                ![t.app].breached = @ \/ t.step = Escalate,
                ![t.app].qr = IF t.step = "El_issue" THEN lastCode'[t.app] ELSE @]
    /\ UNCHANGED <<instance, requirement, faults, locked>>

\* The first half of a handler: its update of the application's record.
HandleTask(p) ==
    /\ poll[p].current = Nothing
    /\ \E t \in poll[p].todo :
          /\ poll' = [poll EXCEPT ![p].current = t]
          /\ \/ /\ t.step = "El_schedule"
                /\ record' = [record EXCEPT
                      ![t.app].status = "field_visit_scheduled",
                      ![t.app].visit = TRUE]
                /\ UNCHANGED lastCode
             \/ /\ t.step = Escalate
                /\ record' = [record EXCEPT ![t.app].breached = TRUE]
                /\ UNCHANGED lastCode
             \/ /\ t.step = "El_issue"
                /\ WriteLicense(t.app)
    /\ UNCHANGED <<instance, requirement, faults, locked>>

\* The second half: the engine accepts the completion of any task that is
\* still open, since every lock is held by the same worker id; a refusal is
\* only logged.
CompleteExternalTask(p) ==
    /\ poll[p].current # Nothing
    /\ LET t == poll[p].current
       IN  /\ instance' =
                 IF t \notin OpenTasks THEN instance
                 ELSE [instance EXCEPT ![t.app] =
                         IF t.step = Escalate THEN EndEscalation(@, t.round)
                                              ELSE Advance(@, "none")]
           /\ locked' = locked \ {t}
           /\ poll' = [poll EXCEPT ![p].todo = @ \ {t}, ![p].current = Nothing]
    /\ UNCHANGED <<record, lastCode, requirement, faults>>

\* A handler throws and the error is logged; the task stays locked.
HandlerFails(p) ==
    /\ \E t \in poll[p].todo :
          /\ poll[p].current \in {t, Nothing}
          /\ poll' = [poll EXCEPT ![p].todo = @ \ {t}, ![p].current = Nothing]
    /\ Fault
    /\ UNCHANGED <<record, instance, lastCode, requirement, locked>>

Held(t) == \E p \in Polls : t \in poll[p].todo

\* Variant: tasks are locked without a lock duration.
LockNeverExpires(t) == FALSE /\ UNCHANGED <<workerVars, recordVars>>

\* The lock of a task no poll works on any more runs out.
LockExpires(t) ==
    /\ t \in locked
    /\ ~Held(t)
    /\ locked' = locked \ {t}
    /\ UNCHANGED <<poll, recordVars>>

\* A poll that is slower than the lock duration loses its lock.
LockExpiresEarly(t) ==
    /\ t \in locked
    /\ Held(t)
    /\ Fault
    /\ locked' = locked \ {t}
    /\ UNCHANGED <<poll, record, instance, lastCode, requirement>>

PollContinues(p) == HandleTask(p) \/ CompleteExternalTask(p)

WorkerNext ==
    \/ \E p \in Polls : FetchAndLock(p) \/ PollContinues(p) \/ HandlerFails(p)
    \/ \E t \in locked : LockExpires(t) \/ LockExpiresEarly(t)

=============================================================================
