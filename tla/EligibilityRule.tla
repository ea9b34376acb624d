--------------------------- MODULE EligibilityRule ---------------------------
(***************************************************************************)
(* The DMN decision "cinema_eligibility_and_fee": the rows the admin panel *)
(* generates for a choice of requirements and prices, their evaluation     *)
(* under hit policy FIRST, and what the panel reads back from the rows.    *)
(* An input cell is the set of values it accepts, so "-" is BOOLEAN.       *)
(***************************************************************************)
EXTENDS Integers

\* The answers of the application form that the decision looks at.
Facts == [cr : BOOLEAN, prior : BOOLEAN, riyada : BOOLEAN]

\* The fee after the discount, rounded to the nearest hundredth of a rial.
SmeFinalFee(baseFee, discountPct) == (baseFee * (100 - discountPct) + 50) \div 100

\* One rule of the table: its place, three input cells, four outputs.
Row(place, id, cr, prior, riyada, eligible, baseFee, discountPct, finalFee) ==
    [place |-> place, id |-> id, cr |-> cr, prior |-> prior, riyada |-> riyada,
     eligible |-> eligible, baseFee |-> baseFee,
     discountPct |-> discountPct, finalFee |-> finalFee]

RefuseCr == Row(1, "NotEligible_CR", {FALSE}, BOOLEAN, BOOLEAN, FALSE, 0, 0, 0)

RefusePrior == Row(2, "NotEligible_Prior", BOOLEAN, {FALSE}, BOOLEAN, FALSE, 0, 0, 0)

\* Variant: the cell asks for a yes whether or not it is required.
AskingCell(required) == {TRUE}

RequiredCell(required) == IF required THEN {TRUE} ELSE BOOLEAN

EligibleSme(s) ==
    Row(3, "EligibleSme", RequiredCell(s.cr), RequiredCell(s.prior), {TRUE}, TRUE,
        s.baseFee, s.discountPct, SmeFinalFee(s.baseFee, s.discountPct))

EligibleStandard(s) ==
    Row(4, "EligibleStandard", RequiredCell(s.cr), RequiredCell(s.prior), {FALSE},
        TRUE, s.baseFee, 0, s.baseFee)

\* The rows generated for the settings s; a refusing row only if required.
DecisionRows(s) ==
    {r \in {RefuseCr, RefusePrior, EligibleSme(s), EligibleStandard(s)} :
        /\ r = RefuseCr => s.cr
        /\ r = RefusePrior => s.prior}

Accepts(row, f) == f.cr \in row.cr /\ f.prior \in row.prior /\ f.riyada \in row.riyada

\* Hit policy FIRST: the first row that accepts the facts.
FirstHit(rows, f) ==
    CHOOSE r \in rows : /\ Accepts(r, f)
                        /\ \A q \in rows : Accepts(q, f) => r.place <= q.place

HasRow(rows, id) == \E r \in rows : r.id = id

RowNamed(rows, id) == CHOOSE r \in rows : r.id = id

\* getDecisionState: a requirement is on when its refusing row is present,
\* the prices are those of the SME row.
ReadSettings(rows) ==
    [cr          |-> HasRow(rows, "NotEligible_CR"),
     prior       |-> HasRow(rows, "NotEligible_Prior"),
     baseFee     |-> RowNamed(rows, "EligibleSme").baseFee,
     discountPct |-> RowNamed(rows, "EligibleSme").discountPct]

\* What the table is meant to decide, stated without rows.
Eligible(f, requirement) ==
    (requirement.cr => f.cr) /\ (requirement.prior => f.prior)

=============================================================================
