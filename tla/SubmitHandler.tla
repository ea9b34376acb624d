---------------------------- MODULE SubmitHandler ----------------------------
(***************************************************************************)
(* POST /api/applications: one activation of the handler per slot of       *)
(* Submitters.  Between two awaited calls every other actor may step.      *)
(***************************************************************************)
EXTENDS LicenseRecords

CONSTANTS Submitters    \* bound on submissions handled at the same time

VARIABLE submit         \* submit[s]: where activation s is and what it holds

SubmitPcs == {"idle", "find", "create", "start", "evaluate", "store",
              "check", "issue"}

\* Before "create" the activation holds the form, afterwards the record id.
NoApp == "none"

SubmitType ==
    submit \in [Submitters -> [pc : SubmitPcs, app : Apps \cup {NoApp},
                               identity : Identities \cup {NoIdentity},
                               facts : Facts, verdict : {"unset", "yes", "no"}]]

IdleSubmit == [pc |-> "idle", app |-> NoApp, identity |-> NoIdentity,
               facts |-> NoFacts, verdict |-> "unset"]

SubmitInit == submit = [s \in Submitters |-> IdleSubmit]

SubmitGoes(s, pc) == submit' = [submit EXCEPT ![s].pc = pc]

SubmitEnds(s) == submit' = [submit EXCEPT ![s] = IdleSubmit]

Unfiled == {a \in Apps : record[a].status = "absent"}

\* The request arrives.  Without both identity fields nothing is looked up.
SubmitBegin(s) ==
    /\ submit[s].pc = "idle"
    /\ Unfiled # {}
    /\ \E id \in Identities \cup {NoIdentity}, f \in FormFacts :
          submit' = [submit EXCEPT ![s] =
             [pc |-> IF id = NoIdentity THEN "create" ELSE "find", app |-> NoApp,
              identity |-> id, facts |-> f, verdict |-> "unset"]]
    /\ UNCHANGED recordVars

\* Variant: the look-up's result is not acted upon.
FindIgnoringMatch(s) ==
    /\ submit[s].pc = "find"
    /\ SubmitGoes(s, "create")
    /\ UNCHANGED recordVars

\* findApplicationByIdentity: a match ends the request with 409.
FindByIdentity(s) ==
    /\ submit[s].pc = "find"
    /\ IF \E a \in Apps : record[a].identity = submit[s].identity
         THEN SubmitEnds(s)
         ELSE SubmitGoes(s, "create")
    /\ UNCHANGED recordVars

CreateApplication(s) ==
    /\ submit[s].pc = "create"
    /\ \E a \in Unfiled :
          /\ record' = [record EXCEPT ![a] =
                           NewRecord(submit[s].identity, submit[s].facts)]
          /\ submit' = [submit EXCEPT ![s].pc = "start", ![s].app = a]
    /\ UNCHANGED <<instance, lastCode, requirement, faults>>

\* startProcess: the engine evaluates the decision on its own.
StartProcess(s) ==
    /\ submit[s].pc = "start"
    /\ instance' = [instance EXCEPT ![submit[s].app] =
                       StartedInstance(Eligible(submit[s].facts, requirement))]
    /\ SubmitGoes(s, "evaluate")
    /\ UNCHANGED <<record, lastCode, requirement, faults>>

\* evaluateDecision: the same decision again, in a call of its own.
EvaluateDecision(s) ==
    /\ submit[s].pc = "evaluate"
    /\ submit' = [submit EXCEPT ![s].pc = "store",
                                ![s].verdict = Verdict(submit[s].facts)]
    /\ UNCHANGED recordVars

StoreVerdict(s) ==
    /\ submit[s].pc = "store"
    /\ record' = [record EXCEPT ![submit[s].app].eligible = submit[s].verdict]
    /\ SubmitGoes(s, "check")
    /\ UNCHANGED <<instance, lastCode, requirement, faults>>

\* An instance that is gone already is taken for a finished process.
CheckFinished(s) ==
    /\ submit[s].pc = "check"
    /\ \/ SeesActive(submit[s].app) /\ SubmitEnds(s)
       \/ SeesInactive(submit[s].app) /\ SubmitGoes(s, "issue")
    /\ UNCHANGED <<record, instance, lastCode, requirement>>

IssueOnSubmit(s) ==
    /\ submit[s].pc = "issue"
    /\ WriteLicense(submit[s].app)
    /\ SubmitEnds(s)
    /\ UNCHANGED <<instance, requirement, faults>>

\* A call throws, before or after it had its effect: the answer is 500.
SubmitFails(s) ==
    /\ submit[s].pc # "idle"
    /\ Fault
    /\ SubmitEnds(s)
    /\ UNCHANGED <<record, instance, lastCode, requirement>>

SubmitContinues(s) ==
    \/ FindByIdentity(s) \/ CreateApplication(s) \/ StartProcess(s)
    \/ EvaluateDecision(s) \/ StoreVerdict(s) \/ CheckFinished(s)
    \/ IssueOnSubmit(s)

SubmitNext == \E s \in Submitters :
    SubmitBegin(s) \/ SubmitContinues(s) \/ SubmitFails(s)

=============================================================================
