---------------------------- MODULE AdminConsole ----------------------------
(***************************************************************************)
(* The admin panel's settings: the deployed decision table (requirements   *)
(* and prices), the deployed process (diagram and service time limit), the *)
(* canvas file on disk, the lead time in memory, the promotion log, and    *)
(* the startup that redeploys the canvas.  One activation of a handler per *)
(* slot of Admins; every await is a separate step.                         *)
(***************************************************************************)
EXTENDS EligibilityRule, FiniteSets, Sequences

CONSTANTS
    Admins,       \* bound on admin requests handled at the same time
    BaseFees,     \* base fees the admins choose between, in hundredths
    Discounts,    \* SME discounts they choose between, in percent
    Diagrams,     \* the drawings they choose between
    Limits,       \* review time limits in minutes; 0: a drawing has no timer
    DayTimers,    \* timers a drawing gives in days
    LeadTimes,    \* lead times of the field visit, in days
    Operations,   \* the operations the admins use
    MaxUpdates,   \* bound on accepted requests
    MaxFaults     \* bound on failed calls and restarts

ASSUME ConsoleAssumption ==
    /\ BaseFees \subseteq Nat /\ BaseFees # {}
    /\ Discounts \subseteq 0..100 /\ Discounts # {}
    /\ Limits \subseteq Nat
    /\ DayTimers \cap (Limits \cup {0, 60}) = {}
    /\ LeadTimes \subseteq Nat
    /\ MaxUpdates \in Nat /\ MaxFaults \in Nat

VARIABLES
    table,       \* the rows of the deployed decision
    process,     \* the deployed process: its diagram and its time limit
    canvas,      \* the canvas file: the same, as last saved
    lead,        \* fieldVisitLeadTimeDays
    promoted,    \* the snapshots in the promotion log, the newest first
    admin,       \* admin[x]: where activation x is and what it holds
    startup,     \* the provisioning the process runs after it starts
    updates, faults,   \* how many requests and faults there have been
    during       \* during[x]: the settings in force, one snapshot for every
                 \* moment since activation x first read them; no action reads it

liveVars == <<table, process, canvas, lead>>
vars == <<table, process, canvas, lead, promoted, admin, startup,
          updates, faults, during>>

Settings == [cr : BOOLEAN, prior : BOOLEAN,
             baseFee : BaseFees, discountPct : Discounts]

Drawings == [diagram : Diagrams, limit : Limits \cup {0, 60} \cup DayTimers]

DefaultLead == 3

PricingOf(s) == [baseFee |-> s.baseFee, discountPct |-> s.discountPct]
RuleOf(s)    == [cr |-> s.cr, prior |-> s.prior]

\* getSlaMinutes understands hours and minutes; a timer in days reads as null,
\* like a diagram without a timer.
ReadLimit(limit) == IF limit \in DayTimers THEN 0 ELSE limit

\* What a promotion records.
Snapshot(t, p, d) == [pricing |-> PricingOf(ReadSettings(t)),
                      rule |-> RuleOf(ReadSettings(t)),
                      limit |-> ReadLimit(p.limit), lead |-> d]

Idle == [pc |-> "idle"]

\* Variant: a changed price resets both requirements.
MergeWithDefaults(current, change) ==
    [k \in DOMAIN current |-> IF k \in DOMAIN change THEN change[k]
                              ELSE IF k \in {"cr", "prior"} THEN TRUE
                              ELSE current[k]]

\* The settings read, overridden by those the request names.
Merge(current, change) ==
    [k \in DOMAIN current |-> IF k \in DOMAIN change THEN change[k] ELSE current[k]]

\* Variant: the limit is deployed in seconds.
WithLimitInSeconds(p, minutes) ==
    IF p.limit = 0 THEN p ELSE [p EXCEPT !.limit = 60 * minutes]

\* updateSlaMinutes changes the timer of the diagram, if it has one, whatever
\* its unit.
WithLimit(p, minutes) == IF p.limit = 0 THEN p ELSE [p EXCEPT !.limit = minutes]

Begins(x, op, activation) ==
    /\ op \in Operations
    /\ admin[x] = Idle
    /\ updates < MaxUpdates
    /\ updates' = updates + 1
    /\ admin' = [admin EXCEPT ![x] = activation]

Goes(x, activation) ==
    /\ admin' = [admin EXCEPT ![x] = activation]
    /\ UNCHANGED updates

Fault == faults < MaxFaults /\ faults' = faults + 1

-----------------------------------------------------------------------------
\* POST pricing and POST eligibility-rule.
UpdatePricing(x) ==
    /\ \E fee \in BaseFees, pct \in Discounts :
          Begins(x, "pricing", [pc |-> "readTable",
              change |-> [baseFee |-> fee, discountPct |-> pct]])
    /\ UNCHANGED <<liveVars, promoted, startup, faults>>

UpdateEligibilityRule(x) ==
    /\ \E cr, prior \in BOOLEAN :
          Begins(x, "rule", [pc |-> "readTable",
              change |-> [cr |-> cr, prior |-> prior]])
    /\ UNCHANGED <<liveVars, promoted, startup, faults>>

\* getDecisionState: the settings are read back from the deployed rows.
GetDecisionState(x) ==
    /\ admin[x].pc = "readTable"
    /\ Goes(x, [pc |-> "deployTable",
                settings |-> Merge(ReadSettings(table), admin[x].change)])
    /\ UNCHANGED <<liveVars, promoted, startup, faults>>

DeployDecision(x) ==
    /\ admin[x].pc = "deployTable"
    /\ table' = DecisionRows(admin[x].settings)
    /\ Goes(x, Idle)
    /\ UNCHANGED <<process, canvas, lead, promoted, startup, faults>>

\* POST sla: the deployed diagram is read, edited and deployed again.
UpdateSla(x) ==
    /\ \E minutes \in Limits \ {0} :
          Begins(x, "sla", [pc |-> "readProcess", minutes |-> minutes])
    /\ UNCHANGED <<liveVars, promoted, startup, faults>>

ReadProcess(x) ==
    /\ admin[x].pc = "readProcess"
    /\ Goes(x, [pc |-> "deployProcess",
                process |-> WithLimit(process, admin[x].minutes)])
    /\ UNCHANGED <<liveVars, promoted, startup, faults>>

DeployProcess(x) ==
    /\ admin[x].pc = "deployProcess"
    /\ process' = admin[x].process
    /\ Goes(x, Idle)
    /\ UNCHANGED <<table, canvas, lead, promoted, startup, faults>>

\* Saving a drawing writes the file; publishing writes it, then deploys.
SaveCanvas(x) ==
    /\ \E c \in Drawings : canvas' = c /\ Begins(x, "save", Idle)
    /\ UNCHANGED <<table, process, lead, promoted, startup, faults>>

PublishCanvas(x) ==
    /\ \E c \in Drawings :
          /\ canvas' = c
          /\ Begins(x, "publish", [pc |-> "deployProcess", process |-> c])
    /\ UNCHANGED <<table, process, lead, promoted, startup, faults>>

\* POST schedule changes the configuration in memory at once.
UpdateSchedule(x) ==
    /\ \E d \in LeadTimes : lead' = d /\ Begins(x, "schedule", Idle)
    /\ UNCHANGED <<table, process, canvas, promoted, startup, faults>>

\* POST promote: three reads in flight together, the memory read last.
Parts == {"pricing", "rule", "limit"}

Promote(x) ==
    /\ Begins(x, "promote", [pc |-> "snapshot", got |-> [part \in {} |-> 0]])
    /\ UNCHANGED <<liveVars, promoted, startup, faults>>

ReadsPart(x, snapshot) ==
    /\ admin[x].pc = "snapshot"
    /\ \E part \in Parts \ DOMAIN admin[x].got :
          Goes(x, [pc |-> "snapshot",
                   got |-> [q \in DOMAIN admin[x].got \cup {part} |->
                              IF q = part THEN snapshot[q] ELSE admin[x].got[q]]])
    /\ UNCHANGED <<liveVars, promoted, startup, faults>>

\* Variant: the time limit is taken from the canvas file.
ReadPartOfFile(x) == ReadsPart(x, Snapshot(table, canvas, lead))

ReadPart(x) == ReadsPart(x, Snapshot(table, process, lead))

AddEntry(x) ==
    /\ admin[x].pc = "snapshot"
    /\ Parts = DOMAIN admin[x].got
    /\ LET got == admin[x].got
       IN  promoted' = <<[pricing |-> got.pricing, rule |-> got.rule,
                          limit |-> got.limit, lead |-> lead]>> \o promoted
    /\ Goes(x, Idle)
    /\ UNCHANGED <<liveVars, startup, faults>>

\* A call to the engine throws and the answer is 400 or 500.
RequestFails(x) ==
    /\ admin[x] # Idle
    /\ Fault
    /\ Goes(x, Idle)
    /\ UNCHANGED <<liveVars, promoted, startup>>

-----------------------------------------------------------------------------
\* runStartupProvisioning, while the server already answers requests.
LoadCanvas ==
    /\ startup.pc = "provision"
    /\ startup' = [pc |-> "redeploy", process |-> canvas]
    /\ UNCHANGED <<liveVars, promoted, admin, updates, faults>>

RedeployCanvas ==
    /\ startup.pc = "redeploy"
    /\ process' = startup.process
    /\ startup' = [pc |-> "done"]
    /\ UNCHANGED <<table, canvas, lead, promoted, admin, updates, faults>>

StartupFails ==
    /\ startup.pc # "done"
    /\ Fault
    /\ startup' = [pc |-> "done"]
    /\ UNCHANGED <<liveVars, promoted, admin, updates>>

\* The process dies and starts again; the file and the engine remember.
Restart ==
    /\ Fault
    /\ admin' = [x \in Admins |-> Idle]
    /\ lead' = DefaultLead
    /\ promoted' = << >>
    /\ startup' = [pc |-> "provision"]
    /\ UNCHANGED <<table, process, canvas, updates>>

Init ==
    /\ \E fee \in BaseFees, pct \in Discounts :
          table = DecisionRows([cr |-> TRUE, prior |-> TRUE,
                                baseFee |-> fee, discountPct |-> pct])
    /\ \E d \in Diagrams : process = [diagram |-> d, limit |-> 60]
    /\ canvas = process
    /\ lead = DefaultLead
    /\ promoted = << >>
    /\ admin = [x \in Admins |-> Idle]
    /\ startup = [pc |-> "provision"]
    /\ updates = 0 /\ faults = 0
    /\ during = [x \in Admins |-> {}]

Request(x) ==
    \/ UpdatePricing(x) \/ UpdateEligibilityRule(x) \/ UpdateSla(x)
    \/ SaveCanvas(x) \/ PublishCanvas(x) \/ UpdateSchedule(x) \/ Promote(x)

Continue(x) ==
    \/ GetDecisionState(x) \/ DeployDecision(x) \/ ReadProcess(x)
    \/ DeployProcess(x) \/ ReadPart(x) \/ AddEntry(x)

\* The history variable collects what is in force while x has read settings
\* that it is yet to act on.
Remembers ==
    during' = [x \in Admins |->
        IF admin'[x].pc \in {"deployTable", "snapshot"}
        THEN during[x] \cup {Snapshot(table', process', lead')} ELSE {}]

Next ==
    \/ (\E x \in Admins : Request(x)) /\ Remembers
    \/ (\E x \in Admins : Continue(x)) /\ Remembers
    \/ (\E x \in Admins : RequestFails(x)) /\ Remembers
    \/ LoadCanvas /\ Remembers
    \/ RedeployCanvas /\ Remembers
    \/ StartupFails /\ Remembers
    \/ Restart /\ Remembers

Spec == Init /\ [][Next]_vars

-----------------------------------------------------------------------------
PartValues == [pricing |-> [baseFee : BaseFees, discountPct : Discounts],
               rule    |-> [cr : BOOLEAN, prior : BOOLEAN],
               limit   |-> Limits \cup {0, 60},
               lead    |-> LeadTimes \cup {DefaultLead}]

Snapshots == [pricing : PartValues.pricing, rule : PartValues.rule,
              limit : PartValues.limit, lead : PartValues.lead]

Changes == [cr : BOOLEAN, prior : BOOLEAN]
           \cup [baseFee : BaseFees, discountPct : Discounts]

\* What an activation holds at its step.
HoldsItsPart(v) ==
    \/ v = Idle
    \/ v.pc = "readTable" /\ v.change \in Changes
    \/ v.pc = "deployTable" /\ v.settings \in Settings
    \/ v.pc = "readProcess" /\ v.minutes \in Limits \ {0}
    \/ v.pc = "deployProcess" /\ v.process \in Drawings
    \/ /\ v.pc = "snapshot"
       /\ DOMAIN v.got \subseteq Parts
       /\ \A part \in DOMAIN v.got : v.got[part] \in PartValues[part]

\* The deployed table is one the generator made, activations and the startup
\* hold what their step needs, the log holds whole snapshots.
TypeOK ==
    /\ \E s \in Settings : table = DecisionRows(s)
    /\ process \in Drawings /\ canvas \in Drawings
    /\ lead \in LeadTimes \cup {DefaultLead}
    /\ promoted \in Seq(Snapshots)
    /\ admin = [x \in Admins |-> admin[x]]
    /\ \A x \in Admins : HoldsItsPart(admin[x])
    /\ \/ startup.pc \in {"provision", "done"}
       \/ startup.pc = "redeploy" /\ startup.process \in Drawings
    /\ updates \in 0..MaxUpdates /\ faults \in 0..MaxFaults

\* Whatever sequence of updates built it, the deployed table answers every
\* application, decides by the requirements the panel shows, and asks the
\* eligible for the price the panel shows, discounted for Riyada holders only.
TableDecides ==
    LET shown == ReadSettings(table)
    IN  \A f \in Facts :
          /\ \E r \in table : Accepts(r, f)
          /\ LET answer == FirstHit(table, f)
             IN  /\ answer.eligible = Eligible(f, shown)
                 /\ answer.finalFee =
                      IF ~Eligible(f, shown) THEN 0
                      ELSE IF f.riyada THEN SmeFinalFee(shown.baseFee, shown.discountPct)
                      ELSE shown.baseFee

\* Updates of the prices and of the requirements overlap, and each deploys the
\* whole table (camundaClient.js:222).  A deployment carries one half of the
\* settings over as it was at some moment since its update read the table: the
\* other admins lose at most what they deployed since then, and that half does
\* not change if they deployed nothing.
CarriesOneHalf == [][
    table' # table =>
        \E x \in Admins :
            /\ admin[x].pc = "deployTable" /\ admin'[x] = Idle
            /\ \E then \in during[x] :
                 \/ then.pricing = PricingOf(ReadSettings(table'))
                 \/ then.rule = RuleOf(ReadSettings(table'))]_vars

\* Whether a snapshot is one of settings that were in force in those moments:
\* each of its parts was, and all of them together if one kind alone changed.
InForce(snapshot, moments) ==
    /\ \A part \in DOMAIN snapshot : \E s \in moments : s[part] = snapshot[part]
    /\ \/ snapshot \in moments
       \/ \A part \in DOMAIN snapshot :
            \E s, t \in moments, other \in DOMAIN snapshot \ {part} :
                s[other] # t[other]

\* A promotion's reads are in flight together while other admins, the startup
\* and the other requests deploy (server.js:807).  What it records was in force
\* while it read: every setting at some moment of it, and all of them at one
\* moment unless settings of two kinds changed meanwhile.
PromotedWasLive == [][
    Len(promoted') > Len(promoted) =>
        \E x \in Admins :
            /\ admin[x].pc = "snapshot" /\ admin'[x] = Idle
            /\ InForce(Head(promoted'), during[x])]_vars

\* The startup leaves the deployed process as it is: what an admin has set on
\* it stays, and a drawing that was only saved does not go live.
StartupKeepsProcess == [][
    startup.pc = "redeploy" /\ startup'.pc = "done" => process' = process]_vars

=============================================================================
