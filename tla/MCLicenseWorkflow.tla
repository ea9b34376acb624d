-------------------------- MODULE MCLicenseWorkflow --------------------------
(***************************************************************************)
(* Instances of LicenseWorkflow for TLC: form answers, requirements and    *)
(* symmetry; the sets of applications and slots are given in each .cfg.    *)
(***************************************************************************)
EXTENDS LicenseWorkflow, TLC

\* One applicant who meets the CR requirement and one who does not.
Good == [cr |-> TRUE, prior |-> TRUE, riyada |-> FALSE]
Bad  == [cr |-> FALSE, prior |-> TRUE, riyada |-> FALSE]
MCFacts     == {Good, Bad}
OnlyGood    == {Good}

Strict  == [cr |-> TRUE, prior |-> TRUE]
Lenient == [cr |-> FALSE, prior |-> TRUE]
MCRequirements == {Strict, Lenient}
OnlyStrict     == {Strict}

Slots == Permutations(Submitters) \cup Permutations(Completers)
           \cup Permutations(Polls)

=============================================================================
