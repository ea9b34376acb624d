-------------------------- MODULE LicenseLifecycle --------------------------
(***************************************************************************)
(* What the platform promises about an application, without handlers,      *)
(* polls, locks or failures: the stages it goes through, and the order of  *)
(* the two effects the outside world sees, the visit date and the licence. *)
(***************************************************************************)
CONSTANT Apps

VARIABLES
    stage,       \* stage[a]: where application a is
    visitSet,    \* visitSet[a]: a has been given a field visit date
    licensed     \* licensed[a]: a has been given a licence code

vars == <<stage, visitSet, licensed>>

Stages == {"draft", "payment", "scheduling", "visit", "review", "issuing",
           "granted", "refused", "rejected"}

\* Stages with no step of the applicant, specialist or head of section ahead.
DecidedStages == {"issuing", "granted", "refused", "rejected"}

Init ==
    /\ stage = [a \in Apps |-> "draft"]
    /\ visitSet = [a \in Apps |-> FALSE]
    /\ licensed = [a \in Apps |-> FALSE]

Moves(a, from, to) ==
    /\ stage[a] = from
    /\ stage' = [stage EXCEPT ![a] = to]
    /\ UNCHANGED <<visitSet, licensed>>

\* The decision table admits or refuses a filed application.
File(a)     == Moves(a, "draft", "payment") \/ Moves(a, "draft", "refused")
Pay(a)      == Moves(a, "payment", "scheduling")
Visit(a)    == visitSet[a] /\ Moves(a, "scheduling", "visit")
Report(a)   == Moves(a, "visit", "review")
SendBack(a) == Moves(a, "review", "visit")
Reject(a)   == Moves(a, "review", "rejected")
Approve(a)  == Moves(a, "review", "issuing")
Grant(a)    == licensed[a] /\ Moves(a, "issuing", "granted")

\* The visit date is set while the visit is being scheduled.
SetVisit(a) ==
    /\ stage[a] = "scheduling"
    /\ visitSet' = [visitSet EXCEPT ![a] = TRUE]
    /\ UNCHANGED <<stage, licensed>>

\* A licence code is given once, and only to an application that is decided.
License(a) ==
    /\ stage[a] \in DecidedStages
    /\ licensed' = [licensed EXCEPT ![a] = TRUE]
    /\ UNCHANGED <<stage, visitSet>>

Next == \E a \in Apps :
    \/ File(a) \/ Pay(a) \/ SetVisit(a) \/ Visit(a) \/ Report(a) \/ SendBack(a)
    \/ Reject(a) \/ Approve(a) \/ License(a) \/ Grant(a)

Spec == Init /\ [][Next]_vars

=============================================================================
