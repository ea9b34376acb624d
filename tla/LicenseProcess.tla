--------------------------- MODULE LicenseProcess ---------------------------
(***************************************************************************)
(* The BPMN process "cinema_film_screening_license" as deployed, played on *)
(* one process instance.  The engine (Camunda) is a service outside the    *)
(* repository; the diagram it runs is                                      *)
(* camunda-module/configuration/resources/cinema_film_screening_license.bpmn *)
(*                                                                         *)
(* An instance has one main token, at a user task, an external task or an  *)
(* end event, and one extra token for every escalation that its            *)
(* non-interrupting review timer has started and no worker has completed.  *)
(***************************************************************************)
EXTENDS Integers, FiniteSets

UserSteps   == {"El_pay", "El_evaluate", "El_review"}
WorkerSteps == {"El_schedule", "El_issue"}
EndEvents   == {"El_notEligible", "El_rejected", "El_approved"}
Escalate    == "El_review_escalate"

\* The answers of the head of section; "none" is a form that sets no outcome.
Outcomes == {"approve", "comments", "reject", "none"}

\* at: where the main token is; round: how often El_evaluate was entered;
\* armed: the review timer is running; escalating: the rounds whose
\* escalation task is still open.
Instances == [at : {"none"} \cup UserSteps \cup WorkerSteps \cup EndEvents,
              round : Nat, armed : BOOLEAN, escalating : SUBSET Nat]

NoInstance == [at |-> "none", round |-> 0, armed |-> FALSE, escalating |-> {}]

\* Start: the decision runs in the same transaction and its gateway sends
\* the token to the payment or to the "Not Eligible" end.
StartedInstance(eligible) ==
    [NoInstance EXCEPT !.at = IF eligible THEN "El_pay" ELSE "El_notEligible"]

SequenceFlow == [El_pay      |-> "El_schedule",
                 El_schedule |-> "El_evaluate",
                 El_evaluate |-> "El_review",
                 El_issue    |-> "El_approved"]

ReviewGateway == [comments |-> "El_evaluate",
                  reject   |-> "El_rejected",
                  approve  |-> "El_issue"]

\* The step after the main token's step is completed with the outcome.
StepAfter(i, outcome) ==
    IF i.at = "El_review" THEN ReviewGateway[outcome] ELSE SequenceFlow[i.at]

\* The main token moves on; leaving the review cancels its timer.
Advance(i, outcome) ==
    LET to == StepAfter(i, outcome)
    IN  [at |-> to,
         round |-> IF to = "El_evaluate" THEN i.round + 1 ELSE i.round,
         armed |-> (to = "El_review"),
         escalating |-> i.escalating]

\* Variant: the timer event interrupts the review (cancelActivity="true").
FireTimerInterrupting(i) ==
    [i EXCEPT !.at = Escalate, !.armed = FALSE, !.escalating = @ \cup {i.round}]

\* The one-hour timer fires without interrupting the review.
FireTimer(i) == [i EXCEPT !.armed = FALSE, !.escalating = @ \cup {i.round}]

EndEscalation(i, n) == [i EXCEPT !.escalating = @ \ {n}]

\* The engine knows an instance as long as it has a token before an end.
Active(i) == i.at \in UserSteps \cup WorkerSteps \/ i.escalating # {}

\* The external tasks an instance offers to workers, as <<step, round>>.
OpenSteps(i) ==
    {s \in {<<i.at, i.round>>} : i.at \in WorkerSteps}
    \cup {<<Escalate, n>> : n \in i.escalating}

=============================================================================
