------------------------- MODULE AdminConsole_proofs -------------------------
(***************************************************************************)
(* Theorems about the decision table and the admin panel, for every set of *)
(* prices, drawings and limits and any number of concurrent requests.      *)
(***************************************************************************)
EXTENDS AdminConsole, TLAPS

-----------------------------------------------------------------------------
(* The generated table. *)

\* Which rows a table has.
LEMMA RowsOf ==
  ASSUME NEW s \in Settings, NEW r
  PROVE  r \in DecisionRows(s) <=>
           \/ r = RefuseCr /\ s.cr
           \/ r = RefusePrior /\ s.prior
           \/ r = EligibleSme(s)
           \/ r = EligibleStandard(s)
<1>1. /\ EligibleSme(s) \notin {RefuseCr, RefusePrior}
      /\ EligibleStandard(s) \notin {RefuseCr, RefusePrior}
      /\ RefuseCr # RefusePrior
  <2>1. /\ EligibleSme(s).place = 3 /\ EligibleStandard(s).place = 4
        /\ RefuseCr.place = 1 /\ RefusePrior.place = 2
    BY DEF EligibleSme, EligibleStandard, RefuseCr, RefusePrior, Row
  <2> QED  BY <2>1
<1> QED  BY <1>1, Zenon DEF DecisionRows

\* A table answers every application, and first with the row its facts call for.
LEMMA RowsDecide ==
  ASSUME NEW s \in Settings, NEW f \in Facts
  PROVE  /\ \E r \in DecisionRows(s) : Accepts(r, f)
         /\ ~Eligible(f, s) => FirstHit(DecisionRows(s), f) \in {RefuseCr, RefusePrior}
         /\ Eligible(f, s) => FirstHit(DecisionRows(s), f) =
              IF f.riyada THEN EligibleSme(s) ELSE EligibleStandard(s)
<1> DEFINE first(r) == /\ Accepts(r, f)
                       /\ \A q \in DecisionRows(s) : Accepts(q, f) => r.place <= q.place
<1>1. /\ RefuseCr.place = 1 /\ RefusePrior.place = 2
      /\ EligibleSme(s).place = 3 /\ EligibleStandard(s).place = 4
  BY DEF EligibleSme, EligibleStandard, RefuseCr, RefusePrior, Row
<1>2. /\ Accepts(RefuseCr, f) <=> ~f.cr
      /\ Accepts(RefusePrior, f) <=> ~f.prior
      /\ Accepts(EligibleSme(s), f) <=> Eligible(f, s) /\ f.riyada
      /\ Accepts(EligibleStandard(s), f) <=> Eligible(f, s) /\ ~f.riyada
  BY DEF Accepts, RefuseCr, RefusePrior, EligibleSme, EligibleStandard, Row,
         RequiredCell, Eligible, Facts, Settings
<1>3. PICK r \in DecisionRows(s) : first(r)
  <2>1. CASE s.cr /\ ~f.cr
    BY <1>1, <1>2, <2>1, RowsOf
  <2>2. CASE ~(s.cr /\ ~f.cr) /\ s.prior /\ ~f.prior
    BY <1>1, <1>2, <2>2, RowsOf
  <2>3. CASE Eligible(f, s) /\ f.riyada
    BY <1>1, <1>2, <2>3, RowsOf DEF Eligible
  <2>4. CASE Eligible(f, s) /\ ~f.riyada
    BY <1>1, <1>2, <2>4, RowsOf DEF Eligible
  <2> QED  BY <2>1, <2>2, <2>3, <2>4 DEF Eligible, Facts, Settings
<1>4. FirstHit(DecisionRows(s), f) \in DecisionRows(s) /\ first(FirstHit(DecisionRows(s), f))
  BY <1>3 DEF FirstHit
<1>5. ASSUME ~Eligible(f, s)
      PROVE  FirstHit(DecisionRows(s), f) \in {RefuseCr, RefusePrior}
  BY <1>2, <1>4, <1>5, RowsOf
<1>6. ASSUME Eligible(f, s)
      PROVE  FirstHit(DecisionRows(s), f) =
               IF f.riyada THEN EligibleSme(s) ELSE EligibleStandard(s)
  BY <1>2, <1>4, <1>6, RowsOf DEF Eligible
<1> QED  BY <1>3, <1>5, <1>6

\* The panel reads back from the rows the settings they were generated for.
LEMMA ReadsBack ==
  ASSUME NEW s \in Settings
  PROVE  ReadSettings(DecisionRows(s)) = s
<1>1. /\ RefuseCr.id = "NotEligible_CR" /\ RefusePrior.id = "NotEligible_Prior"
      /\ EligibleSme(s).id = "EligibleSme"
      /\ EligibleStandard(s).id = "EligibleStandard"
      /\ EligibleSme(s).baseFee = s.baseFee
      /\ EligibleSme(s).discountPct = s.discountPct
  BY DEF EligibleSme, EligibleStandard, RefuseCr, RefusePrior, Row
<1>2. HasRow(DecisionRows(s), "NotEligible_CR") <=> s.cr
  BY <1>1, RowsOf DEF HasRow
<1>3. HasRow(DecisionRows(s), "NotEligible_Prior") <=> s.prior
  BY <1>1, RowsOf DEF HasRow
<1>4. RowNamed(DecisionRows(s), "EligibleSme") = EligibleSme(s)
  BY <1>1, RowsOf DEF RowNamed
<1>5. /\ HasRow(DecisionRows(s), "NotEligible_CR") \in BOOLEAN
      /\ HasRow(DecisionRows(s), "NotEligible_Prior") \in BOOLEAN
  BY DEF HasRow
<1>6. /\ HasRow(DecisionRows(s), "NotEligible_CR") = s.cr
      /\ HasRow(DecisionRows(s), "NotEligible_Prior") = s.prior
  BY <1>2, <1>3, <1>5 DEF Settings
<1> QED  BY <1>1, <1>4, <1>6 DEF ReadSettings, Settings

-----------------------------------------------------------------------------
(* The panel. *)

LEMMA MergeType ==
  ASSUME NEW s \in Settings, NEW c \in Changes
  PROVE  Merge(s, c) \in Settings
<1>1. CASE c \in [cr : BOOLEAN, prior : BOOLEAN]
  <2>1. Merge(s, c) = [cr |-> c.cr, prior |-> c.prior,
                       baseFee |-> s.baseFee, discountPct |-> s.discountPct]
    BY <1>1 DEF Merge, Settings
  <2> QED  BY <1>1, <2>1 DEF Settings
<1>2. CASE c \in [baseFee : BaseFees, discountPct : Discounts]
  <2>1. Merge(s, c) = [cr |-> s.cr, prior |-> s.prior,
                       baseFee |-> c.baseFee, discountPct |-> c.discountPct]
    BY <1>2 DEF Merge, Settings
  <2> QED  BY <1>2, <2>1 DEF Settings
<1> QED  BY <1>1, <1>2 DEF Changes

\* One activation goes on, with what its next step needs.
LEMMA GoesType ==
  ASSUME TypeOK, NEW x \in Admins, NEW v, HoldsItsPart(v),
         admin' = [admin EXCEPT ![x] = v]
  PROVE  /\ admin' = [y \in Admins |-> admin'[y]]
         /\ \A y \in Admins : HoldsItsPart(admin'[y])
<1>1. admin = [y \in Admins |-> admin[y]] /\ \A y \in Admins : HoldsItsPart(admin[y])
  BY DEF TypeOK
<1>2. DOMAIN admin = Admins
  BY <1>1
<1>3. admin' = [y \in Admins |-> IF y = x THEN v ELSE admin[y]]
  BY <1>1, <1>2
<1>4. \A y \in Admins : admin'[y] = IF y = x THEN v ELSE admin[y]
  BY <1>3
<1>5. admin' = [y \in Admins |-> admin'[y]]
  BY <1>3, <1>4
<1> QED  BY <1>1, <1>4, <1>5

LEMMA FaultType ==
  ASSUME TypeOK, Fault
  PROVE  faults' \in 0..MaxFaults
BY ConsoleAssumption DEF TypeOK, Fault

LEMMA BeginsType ==
  ASSUME TypeOK, NEW x \in Admins, NEW op, NEW v, HoldsItsPart(v), Begins(x, op, v)
  PROVE  /\ admin' = [y \in Admins |-> admin'[y]]
         /\ \A y \in Admins : HoldsItsPart(admin'[y])
         /\ updates' \in 0..MaxUpdates
<1>1. updates' \in 0..MaxUpdates
  BY ConsoleAssumption DEF TypeOK, Begins
<1> QED  BY <1>1, GoesType DEF Begins

LEMMA IdleHolds == HoldsItsPart(Idle)
BY DEF HoldsItsPart

\* Both settings groups and all drawings of a request are the panel's.
LEMMA RequestType ==
  ASSUME TypeOK, NEW x \in Admins, Request(x)
  PROVE  TypeOK'
<1>1. CASE UpdatePricing(x)
  <2>1. PICK fee \in BaseFees, pct \in Discounts :
          Begins(x, "pricing", [pc |-> "readTable",
              change |-> [baseFee |-> fee, discountPct |-> pct]])
    BY <1>1 DEF UpdatePricing
  <2>2. HoldsItsPart([pc |-> "readTable",
                      change |-> [baseFee |-> fee, discountPct |-> pct]])
    BY DEF HoldsItsPart, Changes
  <2> QED  BY <1>1, <2>1, <2>2, BeginsType DEF UpdatePricing, liveVars, TypeOK
<1>2. CASE UpdateEligibilityRule(x)
  <2>1. PICK cr \in BOOLEAN, prior \in BOOLEAN :
          Begins(x, "rule", [pc |-> "readTable", change |-> [cr |-> cr, prior |-> prior]])
    BY <1>2 DEF UpdateEligibilityRule
  <2>2. HoldsItsPart([pc |-> "readTable", change |-> [cr |-> cr, prior |-> prior]])
    BY DEF HoldsItsPart, Changes
  <2> QED  BY <1>2, <2>1, <2>2, BeginsType DEF UpdateEligibilityRule, liveVars, TypeOK
<1>3. CASE UpdateSla(x)
  <2>1. PICK minutes \in Limits \ {0} :
          Begins(x, "sla", [pc |-> "readProcess", minutes |-> minutes])
    BY <1>3 DEF UpdateSla
  <2>2. HoldsItsPart([pc |-> "readProcess", minutes |-> minutes])
    BY DEF HoldsItsPart
  <2> QED  BY <1>3, <2>1, <2>2, BeginsType DEF UpdateSla, liveVars, TypeOK
<1>4. CASE SaveCanvas(x)
  <2>1. canvas' \in Drawings /\ Begins(x, "save", Idle)
    BY <1>4 DEF SaveCanvas
  <2> QED  BY <1>4, <2>1, IdleHolds, BeginsType DEF SaveCanvas, TypeOK
<1>5. CASE PublishCanvas(x)
  <2>1. PICK c \in Drawings :
          /\ canvas' = c
          /\ Begins(x, "publish", [pc |-> "deployProcess", process |-> c])
    BY <1>5 DEF PublishCanvas
  <2>2. HoldsItsPart([pc |-> "deployProcess", process |-> c])
    BY DEF HoldsItsPart
  <2> QED  BY <1>5, <2>1, <2>2, BeginsType DEF PublishCanvas, TypeOK
<1>6. CASE UpdateSchedule(x)
  <2>1. lead' \in LeadTimes /\ Begins(x, "schedule", Idle)
    BY <1>6 DEF UpdateSchedule
  <2> QED  BY <1>6, <2>1, IdleHolds, BeginsType DEF UpdateSchedule, TypeOK
<1>7. CASE Promote(x)
  <2>1. HoldsItsPart([pc |-> "snapshot", got |-> [part \in {} |-> 0]])
    BY DEF HoldsItsPart
  <2> QED  BY <1>7, <2>1, BeginsType DEF Promote, liveVars, TypeOK
<1> QED  BY <1>1, <1>2, <1>3, <1>4, <1>5, <1>6, <1>7 DEF Request

LEMMA TableSettings ==
  ASSUME TypeOK
  PROVE  ReadSettings(table) \in Settings
<1>1. PICK s \in Settings : table = DecisionRows(s)
  BY DEF TypeOK
<1> QED  BY <1>1, ReadsBack

\* What is in force.
InForceNow == Snapshot(table, process, lead)

LEMMA SnapshotType ==
  ASSUME TypeOK
  PROVE  InForceNow \in Snapshots
<1>1. ReadLimit(process.limit) \in Limits \cup {0, 60}
  BY DEF ReadLimit, TypeOK, Drawings
<1> QED  BY <1>1, TableSettings
         DEF InForceNow, Snapshot, Snapshots, PartValues, PricingOf, RuleOf, Settings, TypeOK

LEMMA SnapshotTypeNext ==
  ASSUME TypeOK'
  PROVE  InForceNow' \in Snapshots
<1>1. ReadLimit(process'.limit) \in Limits \cup {0, 60}
  BY DEF ReadLimit, TypeOK, Drawings
<1>2. PICK s \in Settings : table' = DecisionRows(s)
  BY DEF TypeOK
<1>3. ReadSettings(table') \in Settings
  BY <1>2, ReadsBack
<1> QED  BY <1>1, <1>3
         DEF InForceNow, Snapshot, Snapshots, PartValues, PricingOf, RuleOf, Settings, TypeOK

\* What a promotion holds after one more of its reads, and what it records.
Reading(got, part) == [q \in DOMAIN got \cup {part} |->
                         IF q = part THEN InForceNow[q] ELSE got[q]]

EntryOf(got) == [pricing |-> got.pricing, rule |-> got.rule,
                 limit |-> got.limit, lead |-> lead]

LEMMA ReadingOf ==
  ASSUME NEW got, NEW part
  PROVE  /\ DOMAIN Reading(got, part) = DOMAIN got \cup {part}
         /\ Reading(got, part)[part] = InForceNow[part]
         /\ \A q \in DOMAIN got \ {part} : Reading(got, part)[q] = got[q]
BY DEF Reading

LEMMA ContinueType ==
  ASSUME TypeOK, NEW x \in Admins, Continue(x)
  PROVE  TypeOK'
<1>0. HoldsItsPart(admin[x])
  BY DEF TypeOK
<1>1. CASE GetDecisionState(x)
  <2>1. PICK s \in Settings : table = DecisionRows(s)
    BY DEF TypeOK
  <2>2. admin[x].change \in Changes
    BY <1>0, <1>1 DEF GetDecisionState, HoldsItsPart, Idle
  <2>3. Merge(ReadSettings(table), admin[x].change) \in Settings
    BY <2>1, <2>2, ReadsBack, MergeType
  <2>4. HoldsItsPart([pc |-> "deployTable",
                      settings |-> Merge(ReadSettings(table), admin[x].change)])
    BY <2>3 DEF HoldsItsPart
  <2> QED  BY <1>1, <2>4, GoesType DEF GetDecisionState, Goes, liveVars, TypeOK
<1>2. CASE DeployDecision(x)
  <2>1. admin[x].settings \in Settings
    BY <1>0, <1>2 DEF DeployDecision, HoldsItsPart, Idle
  <2>2. \E s \in Settings : table' = DecisionRows(s)
    BY <1>2, <2>1 DEF DeployDecision
  <2> QED  BY <1>2, <2>2, IdleHolds, GoesType DEF DeployDecision, Goes, TypeOK
<1>3. CASE ReadProcess(x)
  <2>1. admin[x].minutes \in Limits \ {0}
    BY <1>0, <1>3 DEF ReadProcess, HoldsItsPart, Idle
  <2>2. WithLimit(process, admin[x].minutes) \in Drawings
    BY <2>1 DEF TypeOK, WithLimit, Drawings
  <2>3. HoldsItsPart([pc |-> "deployProcess",
                      process |-> WithLimit(process, admin[x].minutes)])
    BY <2>2 DEF HoldsItsPart
  <2> QED  BY <1>3, <2>3, GoesType DEF ReadProcess, Goes, liveVars, TypeOK
<1>4. CASE DeployProcess(x)
  <2>1. admin[x].process \in Drawings
    BY <1>0, <1>4 DEF DeployProcess, HoldsItsPart, Idle
  <2> QED  BY <1>4, <2>1, IdleHolds, GoesType DEF DeployProcess, Goes, TypeOK
<1>5. CASE ReadPart(x)
  <2>1. /\ DOMAIN admin[x].got \subseteq Parts
        /\ \A q \in DOMAIN admin[x].got : admin[x].got[q] \in PartValues[q]
    BY <1>0, <1>5 DEF ReadPart, ReadsPart, HoldsItsPart, Idle
  <2>2. PICK part \in Parts, got \in {Reading(admin[x].got, p) : p \in Parts} :
          /\ got = Reading(admin[x].got, part)
          /\ Goes(x, [pc |-> "snapshot", got |-> got])
    BY <1>5 DEF ReadPart, ReadsPart, Reading, InForceNow
  <2>3. /\ DOMAIN got = DOMAIN admin[x].got \cup {part}
        /\ got[part] = InForceNow[part]
        /\ \A q \in DOMAIN admin[x].got \ {part} : got[q] = admin[x].got[q]
    BY <2>2, ReadingOf
  <2>4. InForceNow[part] \in PartValues[part]
    BY SnapshotType DEF Parts, Snapshots, PartValues
  <2>5. HoldsItsPart([pc |-> "snapshot", got |-> got])
    <3>1. DOMAIN got \subseteq Parts
      BY <2>1, <2>3
    <3>2. ASSUME NEW q \in DOMAIN got  PROVE got[q] \in PartValues[q]
      <4>1. CASE q = part
        BY <2>3, <2>4, <4>1
      <4>2. CASE q # part
        BY <2>1, <2>3, <4>2
      <4> QED  BY <4>1, <4>2
    <3> QED  BY <3>1, <3>2 DEF HoldsItsPart
  <2> QED  BY <1>5, <2>2, <2>5, GoesType DEF ReadPart, ReadsPart, Goes, liveVars, TypeOK
<1>6. CASE AddEntry(x)
  <2>1. /\ promoted' = <<EntryOf(admin[x].got)>> \o promoted
        /\ DOMAIN admin[x].got = Parts
        /\ \A q \in Parts : admin[x].got[q] \in PartValues[q]
    BY <1>0, <1>6 DEF AddEntry, EntryOf, HoldsItsPart, Idle
  <2>2. EntryOf(admin[x].got) \in Snapshots
    BY <2>1 DEF EntryOf, Snapshots, Parts, PartValues, TypeOK
  <2>3. promoted' \in Seq(Snapshots)
    BY <2>1, <2>2 DEF TypeOK
  <2> QED  BY <1>6, <2>3, IdleHolds, GoesType DEF AddEntry, Goes, liveVars, TypeOK
<1> QED  BY <1>1, <1>2, <1>3, <1>4, <1>5, <1>6 DEF Continue

LEMMA ConsoleInit == Init => TypeOK
<1> SUFFICES ASSUME Init PROVE TypeOK
  OBVIOUS
<1>1. \E s \in Settings : table = DecisionRows(s)
  BY DEF Init, Settings
<1>2. process \in Drawings /\ canvas \in Drawings
  BY DEF Init, Drawings
<1>3. admin = [x \in Admins |-> admin[x]] /\ \A x \in Admins : HoldsItsPart(admin[x])
  BY IdleHolds DEF Init
<1> QED  BY <1>1, <1>2, <1>3, ConsoleAssumption DEF Init, TypeOK

LEMMA ConsoleStep == TypeOK /\ [Next]_vars => TypeOK'
<1> SUFFICES ASSUME TypeOK, [Next]_vars PROVE TypeOK'
  OBVIOUS
<1>1. ASSUME NEW x \in Admins, RequestFails(x) PROVE TypeOK'
  BY <1>1, IdleHolds, GoesType, FaultType DEF RequestFails, Goes, liveVars, TypeOK
<1>2. CASE LoadCanvas
  BY <1>2 DEF LoadCanvas, liveVars, TypeOK
<1>3. CASE RedeployCanvas
  BY <1>3 DEF RedeployCanvas, TypeOK
<1>4. CASE StartupFails
  BY <1>4, FaultType DEF StartupFails, liveVars, TypeOK
<1>5. CASE Restart
  <2>1. admin' = [x \in Admins |-> admin'[x]] /\ \A x \in Admins : HoldsItsPart(admin'[x])
    BY <1>5, IdleHolds DEF Restart
  <2> QED  BY <1>5, <2>1, FaultType DEF Restart, TypeOK
<1>6. CASE UNCHANGED vars
  BY <1>6 DEF vars, TypeOK
<1> QED  BY <1>1, <1>2, <1>3, <1>4, <1>5, <1>6, RequestType, ContinueType DEF Next

\* Every state of the panel is well typed; in particular the deployed table is
\* always one the generator made for settings the admins chose.
THEOREM ConsoleTypeCorrect == Spec => []TypeOK
<1>1. TypeOK /\ [Next]_vars => TypeOK'
  BY ConsoleStep
<1> QED  BY <1>1, ConsoleInit, PTL DEF Spec

\* However many admins change prices and requirements at once, the deployed
\* table answers every application, by the requirements and prices it shows.
THEOREM TableAlwaysDecides == Spec => []TableDecides
<1>1. TypeOK => TableDecides
  <2> SUFFICES ASSUME TypeOK PROVE TableDecides
    OBVIOUS
  <2>1. PICK s \in Settings : table = DecisionRows(s)
    BY DEF TypeOK
  <2>2. ReadSettings(table) = s
    BY <2>1, ReadsBack
  <2>3. ASSUME NEW f \in Facts
        PROVE  /\ \E r \in table : Accepts(r, f)
               /\ FirstHit(table, f).eligible = Eligible(f, s)
               /\ FirstHit(table, f).finalFee =
                    IF ~Eligible(f, s) THEN 0
                    ELSE IF f.riyada THEN SmeFinalFee(s.baseFee, s.discountPct)
                    ELSE s.baseFee
    <3>1. Eligible(f, s) \in BOOLEAN
      BY DEF Eligible
    <3>2. /\ RefuseCr.eligible = FALSE /\ RefuseCr.finalFee = 0
          /\ RefusePrior.eligible = FALSE /\ RefusePrior.finalFee = 0
          /\ EligibleSme(s).eligible = TRUE /\ EligibleStandard(s).eligible = TRUE
          /\ EligibleSme(s).finalFee = SmeFinalFee(s.baseFee, s.discountPct)
          /\ EligibleStandard(s).finalFee = s.baseFee
      BY DEF RefuseCr, RefusePrior, EligibleSme, EligibleStandard, Row
    <3> QED  BY <2>1, <3>1, <3>2, RowsDecide
  <2> QED  BY <2>2, <2>3 DEF TableDecides
<1> QED  BY <1>1, ConsoleTypeCorrect, PTL

-----------------------------------------------------------------------------
(* What activations have read was in force since they began to read, for   *)
(* any number of admins at once, beside the startup and through restarts.  *)

\* The settings to deploy carry one half over from what was read.
CarriesOver(v, moments) == v.pc = "deployTable" =>
    \E then \in moments : \/ then.pricing = PricingOf(v.settings)
                          \/ then.rule = RuleOf(v.settings)

\* Every part a promotion has read was in force.
ReadsInForce(v, moments) == v.pc = "snapshot" =>
    \A part \in DOMAIN v.got : \E s \in moments : s[part] = v.got[part]

\* The moments of an activation that has read reach up to now.
UpToNow(v, moments) == v.pc \in {"deployTable", "snapshot"} => InForceNow \in moments

Follows(v, moments) ==
    CarriesOver(v, moments) /\ ReadsInForce(v, moments) /\ UpToNow(v, moments)

ReadInv ==
    /\ TypeOK
    /\ \A x \in Admins : Follows(admin[x], during[x])

LEMMA MergeKeepsOneHalf ==
  ASSUME NEW s \in Settings, NEW c \in Changes
  PROVE  \/ PricingOf(Merge(s, c)) = PricingOf(s)
         \/ RuleOf(Merge(s, c)) = RuleOf(s)
<1>1. CASE c \in [cr : BOOLEAN, prior : BOOLEAN]
  <2>1. Merge(s, c).baseFee = s.baseFee /\ Merge(s, c).discountPct = s.discountPct
    BY <1>1 DEF Merge, Settings
  <2> QED  BY <2>1 DEF PricingOf
<1>2. CASE c \in [baseFee : BaseFees, discountPct : Discounts]
  <2>1. Merge(s, c).cr = s.cr /\ Merge(s, c).prior = s.prior
    BY <1>2 DEF Merge, Settings
  <2> QED  BY <2>1 DEF RuleOf
<1> QED  BY <1>1, <1>2 DEF Changes

\* An activation that neither reads nor waits to act on what it read.
LEMMA NothingRead ==
  ASSUME NEW v, NEW moments, v.pc \notin {"deployTable", "snapshot"}
  PROVE  Follows(v, moments)
BY DEF Follows, CarriesOver, ReadsInForce, UpToNow

LEMMA MoreMoments ==
  ASSUME NEW v, NEW moments, NEW more, moments \subseteq more,
         CarriesOver(v, moments), ReadsInForce(v, moments)
  PROVE  CarriesOver(v, more) /\ ReadsInForce(v, more)
BY DEF CarriesOver, ReadsInForce

\* What an activation still watches after a step.
LEMMA Remembered ==
  ASSUME Remembers, NEW x \in Admins
  PROVE  admin'[x].pc \in {"deployTable", "snapshot"} =>
           during'[x] = during[x] \cup {InForceNow'}
BY DEF Remembers, InForceNow

\* The step of another activation, of the startup, or none that concerns x.
LEMMA OthersFollow ==
  ASSUME ReadInv, Remembers, NEW x \in Admins, admin'[x] = admin[x]
  PROVE  Follows(admin[x], during[x])'
<1>1. CASE admin[x].pc \in {"deployTable", "snapshot"}
  <2>1. during'[x] = during[x] \cup {InForceNow'}
    BY <1>1, Remembered
  <2>2. CarriesOver(admin[x], during[x]) /\ ReadsInForce(admin[x], during[x])
    BY DEF ReadInv, Follows
  <2>3. CarriesOver(admin[x], during'[x]) /\ ReadsInForce(admin[x], during'[x])
    BY <2>1, <2>2, MoreMoments
  <2> QED  BY <2>1, <2>3 DEF Follows, CarriesOver, ReadsInForce, UpToNow
<1>2. CASE admin[x].pc \notin {"deployTable", "snapshot"}
  BY <1>2 DEF Follows, CarriesOver, ReadsInForce, UpToNow
<1> QED  BY <1>1, <1>2

\* The steps of the activation itself.
LEMMA ActorFollows ==
  ASSUME ReadInv, Remembers, NEW x \in Admins,
         Request(x) \/ Continue(x) \/ RequestFails(x)
  PROVE  Follows(admin[x], during[x])'
<1>0. TypeOK /\ HoldsItsPart(admin[x]) /\ admin = [y \in Admins |-> admin[y]]
  BY DEF ReadInv, TypeOK
<1>a. ASSUME NEW v, admin' = [admin EXCEPT ![x] = v]  PROVE admin'[x] = v
  BY <1>0, <1>a
<1>b. ASSUME NEW v, admin' = [admin EXCEPT ![x] = v],
             v.pc \notin {"deployTable", "snapshot"}
      PROVE  Follows(admin[x], during[x])'
  BY <1>a, <1>b DEF Follows, CarriesOver, ReadsInForce, UpToNow
<1>c. admin' = [admin EXCEPT ![x] = Idle] => Follows(admin[x], during[x])'
  BY <1>b DEF Idle
<1>1. CASE Request(x)
  <2>1. CASE UpdatePricing(x)
    BY <1>b, <2>1 DEF UpdatePricing, Begins
  <2>2. CASE UpdateEligibilityRule(x)
    BY <1>b, <2>2 DEF UpdateEligibilityRule, Begins
  <2>3. CASE UpdateSla(x)
    BY <1>b, <2>3 DEF UpdateSla, Begins
  <2>4. CASE SaveCanvas(x)
    BY <1>c, <2>4 DEF SaveCanvas, Begins
  <2>5. CASE PublishCanvas(x)
    BY <1>b, <2>5 DEF PublishCanvas, Begins
  <2>6. CASE UpdateSchedule(x)
    BY <1>c, <2>6 DEF UpdateSchedule, Begins
  <2>7. CASE Promote(x)
    <3>1. admin'[x] = [pc |-> "snapshot", got |-> [part \in {} |-> 0]]
      BY <1>a, <2>7 DEF Promote, Begins
    <3>2. InForceNow' \in during'[x]
      BY <3>1, Remembered
    <3> QED  BY <3>1, <3>2 DEF Follows, CarriesOver, ReadsInForce, UpToNow
  <2> QED  BY <1>1, <2>1, <2>2, <2>3, <2>4, <2>5, <2>6, <2>7 DEF Request
<1>2. CASE GetDecisionState(x)
  <2>1. admin[x].change \in Changes
    BY <1>0, <1>2 DEF GetDecisionState, HoldsItsPart, Idle
  <2>2. PICK merged : merged = Merge(ReadSettings(table), admin[x].change)
    OBVIOUS
  <2>3. \/ PricingOf(merged) = PricingOf(ReadSettings(table))
        \/ RuleOf(merged) = RuleOf(ReadSettings(table))
    BY <1>0, <2>1, <2>2, TableSettings, MergeKeepsOneHalf
  <2>4. admin'[x] = [pc |-> "deployTable", settings |-> merged] /\ table' = table
    BY <1>2, <1>a, <2>2 DEF GetDecisionState, Goes, liveVars
  <2>5. InForceNow' \in during'[x]
    BY <2>4, Remembered
  <2>6. /\ InForceNow'.pricing = PricingOf(ReadSettings(table))
        /\ InForceNow'.rule = RuleOf(ReadSettings(table))
    BY <2>4 DEF InForceNow, Snapshot
  <2>7. CarriesOver(admin[x], during[x])'
    BY <2>3, <2>4, <2>5, <2>6 DEF CarriesOver
  <2> QED  BY <2>4, <2>5, <2>7 DEF Follows, ReadsInForce, UpToNow
<1>3. CASE DeployDecision(x)
  BY <1>c, <1>3 DEF DeployDecision, Goes
<1>4. CASE ReadProcess(x)
  BY <1>b, <1>4 DEF ReadProcess, Goes
<1>5. CASE DeployProcess(x)
  BY <1>c, <1>5 DEF DeployProcess, Goes
<1>6. CASE ReadPart(x)
  <2>1. PICK part \in Parts :
          admin' = [admin EXCEPT ![x] =
                      [pc |-> "snapshot", got |-> Reading(admin[x].got, part)]]
    BY <1>6 DEF ReadPart, ReadsPart, Goes, Reading, InForceNow
  <2>2. PICK got : got = Reading(admin[x].got, part)
    OBVIOUS
  <2>3. admin'[x] = [pc |-> "snapshot", got |-> got]
    BY <1>a, <2>1, <2>2
  <2>4. InForceNow' = InForceNow
    BY <1>6 DEF ReadPart, ReadsPart, liveVars, InForceNow
  <2>5. during'[x] = during[x] \cup {InForceNow}
    BY <2>3, <2>4, Remembered
  <2>a. /\ DOMAIN got = DOMAIN admin[x].got \cup {part}
        /\ got[part] = InForceNow[part]
        /\ \A q \in DOMAIN admin[x].got \ {part} : got[q] = admin[x].got[q]
    BY <2>2, ReadingOf
  <2>6. ASSUME NEW q \in DOMAIN got
        PROVE  \E s \in during'[x] : s[q] = got[q]
    <3>1. CASE q = part
      BY <2>5, <2>a, <3>1
    <3>2. CASE q # part
      <4>1. q \in DOMAIN admin[x].got /\ got[q] = admin[x].got[q]
        BY <2>a, <3>2
      <4>2. \E s \in during[x] : s[q] = admin[x].got[q]
        BY <1>6, <4>1 DEF ReadInv, Follows, ReadsInForce, ReadPart, ReadsPart
      <4> QED  BY <2>5, <4>1, <4>2
    <3> QED  BY <3>1, <3>2
  <2> QED  BY <2>3, <2>4, <2>5, <2>6 DEF Follows, CarriesOver, ReadsInForce, UpToNow
<1>7. CASE AddEntry(x)
  BY <1>c, <1>7 DEF AddEntry, Goes
<1>8. CASE RequestFails(x)
  BY <1>c, <1>8 DEF RequestFails, Goes
<1> QED  BY <1>1, <1>2, <1>3, <1>4, <1>5, <1>6, <1>7, <1>8 DEF Continue

\* Only the activation that acts changes.
LEMMA OnlyActor ==
  ASSUME TypeOK, NEW x \in Admins, Request(x) \/ Continue(x) \/ RequestFails(x)
  PROVE  \A y \in Admins \ {x} : admin'[y] = admin[y]
<1>1. admin = [y \in Admins |-> admin[y]]
  BY DEF TypeOK
<1>2. \E v : admin' = [admin EXCEPT ![x] = v]
  BY DEF Request, Continue, RequestFails, UpdatePricing, UpdateEligibilityRule,
     UpdateSla, SaveCanvas, PublishCanvas, UpdateSchedule, Promote, GetDecisionState,
     DeployDecision, ReadProcess, DeployProcess, ReadPart, ReadsPart, AddEntry,
     Begins, Goes
<1> QED  BY <1>1, <1>2

LEMMA ReadInit == Init => ReadInv
<1> SUFFICES ASSUME Init PROVE ReadInv
  OBVIOUS
<1>1. \A x \in Admins : Follows(admin[x], during[x])
  BY NothingRead DEF Init, Idle
<1> QED  BY <1>1, ConsoleInit DEF ReadInv

LEMMA ReadStep == ReadInv /\ [Next]_vars => ReadInv'
<1> SUFFICES ASSUME ReadInv, [Next]_vars PROVE ReadInv'
  OBVIOUS
<1>0. TypeOK /\ TypeOK'
  BY ConsoleStep DEF ReadInv
<1>1. ASSUME NEW x \in Admins, Request(x) \/ Continue(x) \/ RequestFails(x), Remembers
      PROVE  ReadInv'
  <2>1. \A y \in Admins : Follows(admin[y], during[y])'
    BY <1>0, <1>1, OnlyActor, ActorFollows, OthersFollow
  <2> QED  BY <1>0, <2>1 DEF ReadInv
<1>2. CASE (LoadCanvas \/ RedeployCanvas \/ StartupFails) /\ Remembers
  <2>1. UNCHANGED admin
    BY <1>2 DEF LoadCanvas, RedeployCanvas, StartupFails
  <2> QED  BY <1>0, <1>2, <2>1, OthersFollow DEF ReadInv
<1>3. CASE Restart
  <2>1. \A x \in Admins : admin'[x] = Idle
    BY <1>3 DEF Restart
  <2>2. \A x \in Admins : Follows(admin[x], during[x])'
    BY <2>1 DEF Follows, CarriesOver, ReadsInForce, UpToNow, Idle
  <2> QED  BY <1>0, <2>2 DEF ReadInv
<1>4. CASE UNCHANGED vars
  BY <1>0, <1>4 DEF vars, ReadInv, Follows, CarriesOver, ReadsInForce, UpToNow,
     InForceNow
<1> QED  BY <1>1, <1>2, <1>3, <1>4 DEF Next

-----------------------------------------------------------------------------
(* Promotions. *)

\* The log grows with a promotion's last step only.
LEMMA OnlyAddEntry ==
  ASSUME TypeOK, [Next]_vars, Len(promoted') > Len(promoted)
  PROVE  \E x \in Admins : AddEntry(x)
<1>0. Len(promoted) \in Nat
  BY DEF TypeOK
<1>1. promoted' # promoted
  BY <1>0
<1>2. ~Restart
  <2>1. CASE Restart
    <3>1. Len(promoted') = 0
      BY <2>1 DEF Restart
    <3> QED  BY <1>0, <3>1
  <2> QED  BY <2>1
<1>3. ASSUME NEW x \in Admins, Request(x) \/ RequestFails(x)  PROVE UNCHANGED promoted
  BY <1>3 DEF Request, RequestFails, UpdatePricing, UpdateEligibilityRule,
     UpdateSla, SaveCanvas, PublishCanvas, UpdateSchedule, Promote
<1>4. ASSUME NEW x \in Admins, Continue(x)  PROVE AddEntry(x) \/ UNCHANGED promoted
  BY <1>4 DEF Continue, GetDecisionState, DeployDecision, ReadProcess, DeployProcess,
     ReadPart, ReadsPart
<1>5. CASE LoadCanvas \/ RedeployCanvas \/ StartupFails \/ UNCHANGED vars
  BY <1>1, <1>5 DEF LoadCanvas, RedeployCanvas, StartupFails, vars
<1> QED  BY <1>1, <1>2, <1>3, <1>4, <1>5 DEF Next

\* Of settings of which one kind alone changed, parts read at any moments were
\* in force together.
LEMMA OneKindChanged ==
  ASSUME NEW entry \in Snapshots, NEW moments \in SUBSET Snapshots,
         \A part \in DOMAIN entry : \E s \in moments : s[part] = entry[part]
  PROVE  InForce(entry, moments)
<1> DEFINE Kinds == {"pricing", "rule", "limit", "lead"}
<1>1. DOMAIN entry = Kinds /\ \A s \in moments : DOMAIN s = Kinds
  BY DEF Snapshots
<1>2. ASSUME NEW part \in Kinds,
             \A s, t \in moments, other \in Kinds \ {part} : s[other] = t[other]
      PROVE  entry \in moments
  <2>1. PICK s \in moments : s[part] = entry[part]
    BY <1>1
  <2>2. ASSUME NEW other \in Kinds \ {part}  PROVE s[other] = entry[other]
    BY <1>1, <1>2, <2>2
  <2>3. \A q \in Kinds : s[q] = entry[q]
    BY <2>1, <2>2
  <2>4. /\ s.pricing = entry.pricing /\ s.rule = entry.rule
        /\ s.limit = entry.limit /\ s.lead = entry.lead
    BY <2>3
  <2>5. s = entry
    BY <2>4 DEF Snapshots
  <2> QED  BY <2>1, <2>5
<1> QED  BY <1>1, <1>2 DEF InForce

\* The moments are whole snapshots.
MomentsInv == \A x \in Admins : during[x] \in SUBSET Snapshots

LEMMA MomentsStep == TypeOK /\ MomentsInv /\ [Next]_vars => MomentsInv'
<1> SUFFICES ASSUME TypeOK, MomentsInv, [Next]_vars PROVE MomentsInv'
  OBVIOUS
<1>1. InForceNow' \in Snapshots
  BY ConsoleStep, SnapshotTypeNext
<1>2. CASE Remembers
  BY <1>1, <1>2 DEF Remembers, MomentsInv, InForceNow
<1>3. CASE UNCHANGED vars
  BY <1>3 DEF vars, MomentsInv
<1> QED  BY <1>2, <1>3 DEF Next

\* However many admins deploy beside it, what a promotion records was in force
\* while it read, and in force together unless two kinds of settings changed.
THEOREM PromotionsWereLive == Spec => PromotedWasLive
<1> DEFINE Grows == Len(promoted') > Len(promoted) =>
             \E x \in Admins :
                 /\ admin[x].pc = "snapshot" /\ admin'[x] = Idle
                 /\ InForce(Head(promoted'), during[x])
<1>1. Init => MomentsInv
  BY DEF Init, MomentsInv
<1>2. ASSUME ReadInv, MomentsInv, [Next]_vars  PROVE [Grows]_vars
  <2> SUFFICES ASSUME Len(promoted') > Len(promoted)
               PROVE  \E x \in Admins :
                          /\ admin[x].pc = "snapshot" /\ admin'[x] = Idle
                          /\ InForce(Head(promoted'), during[x])
    OBVIOUS
  <2>0. TypeOK
    BY <1>2 DEF ReadInv
  <2>1. PICK x \in Admins : AddEntry(x)
    BY <1>2, <2>0, OnlyAddEntry
  <2> DEFINE got == admin[x].got
  <2>2. /\ admin[x].pc = "snapshot" /\ DOMAIN got = Parts
        /\ promoted' = <<EntryOf(got)>> \o promoted
    BY <2>1 DEF AddEntry, EntryOf
  <2>3. admin'[x] = Idle
    BY <2>0, <2>1 DEF AddEntry, Goes, TypeOK
  <2>4. EntryOf(got) \in Snapshots
    <3>0. HoldsItsPart(admin[x])
      BY <2>0 DEF TypeOK
    <3>1. \A q \in Parts : got[q] \in PartValues[q]
      BY <2>2, <3>0 DEF HoldsItsPart, Idle
    <3> QED  BY <2>0, <3>1 DEF EntryOf, Snapshots, Parts, PartValues, TypeOK
  <2>5. Head(promoted') = EntryOf(got)
    BY <2>0, <2>2, <2>4 DEF TypeOK
  <2>6. Follows(admin[x], during[x])
    BY <1>2 DEF ReadInv
  <2>7. InForceNow \in during[x] /\ InForceNow.lead = lead
    BY <2>2, <2>6 DEF Follows, UpToNow, InForceNow, Snapshot
  <2>8. ASSUME NEW part \in DOMAIN EntryOf(got)
        PROVE  \E s \in during[x] : s[part] = EntryOf(got)[part]
    <3>1. CASE part = "lead"
      BY <2>7, <3>1 DEF EntryOf
    <3>2. CASE part # "lead"
      <4>1. part \in Parts /\ EntryOf(got)[part] = got[part]
        BY <3>2 DEF EntryOf, Parts
      <4> QED  BY <2>2, <2>6, <4>1 DEF Follows, ReadsInForce
    <3> QED  BY <3>1, <3>2
  <2>9. InForce(EntryOf(got), during[x])
    BY <1>2, <2>4, <2>8, OneKindChanged DEF MomentsInv
  <2> QED  BY <2>2, <2>3, <2>5, <2>9
<1>3. ReadInv => TypeOK
  BY DEF ReadInv
<1> QED  BY <1>1, <1>2, <1>3, ReadInit, ReadStep, MomentsStep, PTL
         DEF Spec, PromotedWasLive

-----------------------------------------------------------------------------
(* Overlapping updates of the table. *)

\* However many updates overlap, each carries one half of the settings over as
\* it was since its read, so an update undoes only what came after that read.
THEOREM UpdatesCarryOneHalf == Spec => CarriesOneHalf
<1> DEFINE Carries == table' # table =>
             \E x \in Admins :
                 /\ admin[x].pc = "deployTable" /\ admin'[x] = Idle
                 /\ \E then \in during[x] :
                      \/ then.pricing = PricingOf(ReadSettings(table'))
                      \/ then.rule = RuleOf(ReadSettings(table'))
<1>1. ASSUME ReadInv, [Next]_vars  PROVE [Carries]_vars
  <2>0. TypeOK
    BY <1>1 DEF ReadInv
  <2>1. ASSUME NEW x \in Admins, DeployDecision(x)  PROVE Carries
    <3>0. HoldsItsPart(admin[x]) /\ CarriesOver(admin[x], during[x])
      BY <1>1 DEF ReadInv, Follows, TypeOK
    <3>1. admin[x].pc = "deployTable" /\ admin[x].settings \in Settings
      BY <2>1, <3>0 DEF DeployDecision, HoldsItsPart, Idle
    <3>2. ReadSettings(table') = admin[x].settings
      BY <2>1, <3>1, ReadsBack DEF DeployDecision
    <3>3. admin'[x] = Idle
      BY <2>0, <2>1 DEF DeployDecision, Goes, TypeOK
    <3> QED  BY <3>0, <3>1, <3>2, <3>3 DEF CarriesOver
  <2>2. ASSUME NEW x \in Admins, Request(x) \/ RequestFails(x)  PROVE UNCHANGED table
    BY <2>2 DEF Request, RequestFails, UpdatePricing, UpdateEligibilityRule,
       UpdateSla, SaveCanvas, PublishCanvas, UpdateSchedule, Promote, liveVars
  <2>3. ASSUME NEW x \in Admins, Continue(x)
        PROVE  DeployDecision(x) \/ UNCHANGED table
    BY <2>3 DEF Continue, GetDecisionState, ReadProcess, DeployProcess, ReadPart,
       ReadsPart, AddEntry, liveVars
  <2>4. CASE LoadCanvas \/ RedeployCanvas \/ StartupFails \/ Restart \/ UNCHANGED vars
    BY <2>4 DEF LoadCanvas, RedeployCanvas, StartupFails, Restart, liveVars, vars
  <2> QED  BY <1>1, <2>1, <2>2, <2>3, <2>4 DEF Next
<1> QED  BY <1>1, ReadInit, ReadStep, PTL DEF Spec, CarriesOneHalf

=============================================================================
