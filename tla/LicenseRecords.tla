--------------------------- MODULE LicenseRecords ---------------------------
(***************************************************************************)
(* What the request handlers and the worker share: the license_applications *)
(* records in Directus, the process instances in Camunda, the deployed     *)
(* eligibility requirement, and the clock the licence codes come from.     *)
(* One call to either service is one atomic change of this state.          *)
(***************************************************************************)
EXTENDS LicenseProcess, EligibilityRule

CONSTANTS
    Apps,            \* the ids Directus can give to a new record
    Identities,      \* pairs of commercial registration number and civil id
    NoIdentity,      \* a form that lacks one of the two
    FormFacts,       \* the answers applicants give, a subset of Facts
    Requirements,    \* the requirements the admins choose between
    EngineMayFail,   \* TRUE: a look-up of an instance may answer an error
    MaxFaults        \* bound on failed calls, crashes and early lock expiries

ASSUME RecordsAssumption ==
    /\ NoIdentity \notin Identities
    /\ FormFacts \subseteq Facts
    /\ Requirements \subseteq [cr : BOOLEAN, prior : BOOLEAN]
    /\ Requirements # {}
    /\ EngineMayFail \in BOOLEAN
    /\ MaxFaults \in Nat

VARIABLES
    record,        \* record[a]: the row of application a
    instance,      \* instance[a]: the process instance with business key a
    lastCode,      \* lastCode[a]: the last licence code made for a
    requirement,   \* the requirement of the deployed decision
    faults         \* how many faults have happened

recordVars == <<record, instance, lastCode, requirement, faults>>

Statuses == {"submitted", "field_visit_scheduled", "under_review",
             "revision_requested", "approved", "rejected", "completed"}

\* Statuses set on the assumption that more steps follow.
NonTerminalStatuses == {"field_visit_scheduled", "under_review", "submitted"}

\* qr: the licence code, 0 for none; visit: a field visit date is set;
\* breached: sla_breached; eligible: "unset" is a null column.
Records == [status : Statuses \cup {"absent"},
            identity : Identities \cup {NoIdentity},
            facts : Facts,
            eligible : {"unset", "yes", "no"},
            qr : Nat, visit : BOOLEAN, breached : BOOLEAN]

NoFacts == [cr |-> FALSE, prior |-> FALSE, riyada |-> FALSE]

NoRecord == [status |-> "absent", identity |-> NoIdentity, facts |-> NoFacts,
             eligible |-> "unset", qr |-> 0, visit |-> FALSE, breached |-> FALSE]

NewRecord(identity, facts) ==
    [NoRecord EXCEPT !.status = "submitted", !.identity = identity, !.facts = facts]

\* Variant: the registration answer is looked up under a wrong field name.
VerdictOfMisnamedField(facts) ==
    IF Eligible([facts EXCEPT !.cr = FALSE], requirement) THEN "yes" ELSE "no"

\* The answer of the decision for an application, as the record stores it.
Verdict(facts) == IF Eligible(facts, requirement) THEN "yes" ELSE "no"

\* issueLicenseAndNotify without skipIfHasQr: a code that was never used,
\* written together with the status.
WriteLicense(a) ==
    /\ lastCode' = [lastCode EXCEPT ![a] = @ + 1]
    /\ record' = [record EXCEPT ![a].status = "completed",
                                ![a].qr = lastCode[a] + 1]

\* One more fault, while the bound allows it.
Fault == faults < MaxFaults /\ faults' = faults + 1

\* What isProcessInstanceActive may answer for application a.  Every
\* response that is not 2xx reads as "no longer active".
SeesActive(a)   == Active(instance[a]) /\ UNCHANGED faults
SeesInactive(a) == \/ ~Active(instance[a]) /\ UNCHANGED faults
                   \/ Active(instance[a]) /\ EngineMayFail /\ Fault

RecordsInit ==
    /\ record = [a \in Apps |-> NoRecord]
    /\ instance = [a \in Apps |-> NoInstance]
    /\ lastCode = [a \in Apps |-> 0]
    /\ requirement \in Requirements
    /\ faults = 0

\* The admin redeploys the decision with other requirements.
UpdateRequirement ==
    /\ \E r \in Requirements \ {requirement} : requirement' = r
    /\ UNCHANGED <<record, instance, lastCode, faults>>

\* The review of a has taken longer than the service time limit.
ReviewTimerFires(a) ==
    /\ instance[a].armed
    /\ instance' = [instance EXCEPT ![a] = FireTimer(@)]
    /\ UNCHANGED <<record, lastCode, requirement, faults>>

RecordsType ==
    /\ record \in [Apps -> Records]
    /\ instance \in [Apps -> Instances]
    /\ lastCode \in [Apps -> Nat]
    /\ requirement \in Requirements
    /\ faults \in 0..MaxFaults

=============================================================================
