--------------------------- MODULE MCAdminConsole ---------------------------
(* Small instances of AdminConsole for TLC. *)
EXTENDS AdminConsole, TLC

CONSTANTS x1, x2, d1, d2, days

OneAdmin  == {x1}
TwoAdmins == {x1, x2}

\* Neither the admins nor the drawings differ in anything but their identity.
Alike == Permutations({x1, x2}) \cup Permutations({d1, d2})

\* 3.33 at 50 percent ends midway between two hundredths, at 15 percent not.
MCFees      == {1000, 333}
MCDiscounts == {50, 15}

AllOperations == {"pricing", "rule", "sla", "save", "publish", "schedule", "promote"}
ProcessOperations == {"save", "sla"}

=============================================================================
