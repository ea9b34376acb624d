# Verification of the cinema licence platform

This directory holds TLA+ models of the programs in this repository, the TLC
runs that check them on small instances, and TLAPS proofs of their central
properties. Paths below are relative to the repository; `tla/` is this
directory.

The repository contains a licence platform (`platform/`, a Node.js server and
one web page), the resources it deploys to a Camunda 7 engine
(`camunda-module/`), operations scripts (`ops/`) and a copy of the Directus
content platform (`directus/`), which stores the platform's records. Most of
the modules are about the platform: it is the code that is written here, and it
coordinates two services it does not control, with several requests, a polling
worker and a startup routine in one process and no transactions between the
services. Three more are about the parts of Directus in which several nodes
coordinate through Redis: the rooms of collaborative editing, the schema cache,
and the synchronisation of extensions.

## 1. Inventory

| Component | State | Operations | Hard behaviour | What makes it correct |
|---|---|---|---|---|
| Submission handler (`server.js` 341-393) | none of its own; the form and the record id between two awaits | look up identity, create record, start process, evaluate decision, store eligibility, look up instance, issue | seven awaited calls, any of which may fail or be cut off by a crash; two requests interleave | one application per identity, a process for every record, stored eligibility = engine's decision, no licence for the refused |
| Task completion (`server.js` 493-521) | the same | look up task, complete it, look up instance, issue if gone, patch record | two officers complete the same review; the patch lands after the engine and the worker went on | the record shows the decision the engine took, a licence only after the last human step |
| Licence issuing (`licenseService.js`) | licence columns of the record | read existing code, write code and status | called from three places | at most one code per approved application |
| External-task worker (`externalTaskWorker.js`) | locks kept by the engine | fetch and lock, run handler, complete | polls overlap, locks expire, errors are only logged | an effect is stored before the process goes on, every task is done in the end |
| Licence process (`cinema_film_screening_license.bpmn`) | token, timer, escalation tokens | task completion, gateway, timer | a non-interrupting timer whose escalation outlives the review | order of the stages |
| Decision table (`cinema_eligibility_and_fee.dmn`, generated by `camundaClient.js` 138-193) | deployed rows | generate, evaluate, read settings back from the rows | rows appear and disappear with the requirements | complete, agrees with the settings shown |
| Admin settings (`server.js` 655-736, `camundaClient.js` 104-287, `config.js`) | deployed table, deployed diagram, lead time in memory | update pricing, requirement, time limit, lead time | read-modify-write of whole resources over awaits | an update changes what it names and nothing else |
| Process canvas (`processCanvas.js`, `server.js` 755-798) | JSON file, deployed diagram | save, publish, load | file and engine change in separate steps | the file shows what is live |
| Promotion log (`pipelineLog.js`, `server.js` 806-837) | entries in memory | promote | three reads in flight together | an entry records what was in force |
| Startup (`server.js` 1060-1183) | none | ensure fields, redeploy canvas, backfill eligibility | runs while requests are answered, after every crash | repairs, and does not undo |
| Login and sessions (`server.js` 85-162, `users.js`) | session | login, logout, role checks | none beyond the session store | not modelled |
| Directus client (`directusClient.js`) | cached service token | item and field calls | token used until it expires | token not modelled yet |
| Lists, redaction, field permissions (`server.js` 395-464, 523-653, `config.js`) | permission matrix in memory | set a cell, add and delete a field | deletion in two steps | not modelled yet |
| Dashboard, service summary (`server.js` 839-1058) | none | ten reads in parallel | counts of different moments | not modelled yet |
| CI promotion (`server.js` 164-246, `ops/`) | temporary files | run a script | none shared with the handlers | not modelled |
| Simulated registers, portal page | none | pure functions, user interface | none | not modelled |
| Directus: collaboration rooms (`directus/api/src/websocket/collab/`) | a room in the shared store; a registry of sockets and rooms; rooms, clients and listeners in each node's memory | join, leave, focus, update; cleanup of each node and of the cluster; deletion of the item | handlers of several nodes interleave between callbacks of the store; connections and nodes are lost | a field has one editor, one leader closes, who is gone leaves, an empty room closes |
| Directus: schema cache (`directus/api/src/utils/get-schema.ts`, `cache.ts`) | a cache per node, a counter in Redis, messages on the bus | get the schema, change it, purge | one builds and the others wait for its message; timeouts, lost messages, dead builders | one builder, every call ends, an old schema is purged |
| Directus: extensions (`directus/api/src/extensions/`) | the storage, a folder per machine, a counter in Redis, a `.status` file, what each process has loaded | start, install, uninstall, change a setting, reload | processes share a folder and a counter; reloads are queued, merged and left out; notices while a process starts | one syncer, nobody waits for nobody, what was told is loaded |
| Directus: everything else; Camunda | external | | | external definitions |

The components of the platform meet in four places: the `license_applications`
records in Directus, the process instances in Camunda, the deployed resources
in Camunda, and the memory of the platform process. The three parts of Directus
share Redis and the bus with each other, under different keys and channels, and
nothing else, so each has a module of its own. `PROJECT.json` lists the hazards
of each, line by line.

## 2. Modules

```
EligibilityRule    LicenseProcess
        \            /      \
        LicenseRecords       (pure operators)
       /      |       \
SubmitHandler TaskHandler ExternalTaskWorker
       \      |       /
       LicenseWorkflow  -- implements -->  LicenseLifecycle
       /             \
MCLicenseWorkflow   LicenseWorkflow_proofs -- LicenseLifecycle_proofs
                               |
                      QuietWorkflow_proofs

EligibilityRule -- AdminConsole -- MCAdminConsole
                        |
                 AdminConsole_proofs

MCCollabRoom    -- CollabRoom    -- CollabRoom_proofs
MCSchemaCache   -- SchemaCache   -- SchemaCache_proofs
MCExtensionSync -- ExtensionSync -- ExtensionSync_proofs -- InstalledExtensions_proofs
                        |
                  (implements)
                        |
                   MachineLock
```

**EligibilityRule** has no variables. A row of the table is a record of three
sets of accepted input values (a `-` cell is `BOOLEAN`), four outputs and the
place of the row. `DecisionRows` generates the rows for the settings,
`FirstHit` is hit policy FIRST, `ReadSettings` is `getDecisionState`.
`Eligible` states the meaning without rows. Fees are integer hundredths of a
rial. The workflow modules use `Eligible`; that the rows say the same is
`TableDecides`, checked and proved in AdminConsole.

**LicenseProcess** plays the diagram on one instance: `at` is the main token,
`round` counts the entries of the field visit (so that a task of an earlier
round is not the task of a later one), `armed` is the review timer and
`escalating` holds the rounds whose escalation is open. `Active` is what
`GET /process-instance/:id` finds. The rules by which Camunda moves tokens are
external; the diagram is the repository's.

**LicenseRecords** is the shared state: `record`, `instance`, `lastCode` (a
code is the application id and the clock; here a counter, so a code is never
used twice), the `requirement` in force and the count of `faults`. Columns that
no property looks at are left out: `final_fee`, the notification columns, and
`revision_loop_used`.

**SubmitHandler**, **TaskHandler**, **ExternalTaskWorker**: one slot per
activation in progress, one action per awaited call, so everything may happen
between two calls. What the activation holds in local variables is in its slot.
`SubmitFails`, `TaskFails` and `HandlerFails` end an activation at any point:
together with the action of the call before it, that is a call that fails before or
after it had its effect. The forms are the five combinations of step, outcome
and status the portal's page sends. A new record has no code, no eligibility
and no visit date (`NewRecord`): the page's submission carries only what its
form schema names, and `getFormSchema` (`directusClient.js:104`) leaves those
columns out.

**LicenseWorkflow** composes them with the timer, changes of the requirement,
the startup's backfill, and `Crash`: all activations are lost, the services
keep their state and their locks. Two history variables, which no action reads,
say where the code is beaten by a race: `raced` holds the identities that one
submission found free while another, which had found it free too, was about to
file it; `overtaken` holds the applications that the engine rejected, or whose
licence the worker issued, while a handler of an earlier step still had a
different status to store (`Overtakes`, `MayStore`).

**LicenseLifecycle** is the abstract specification: stages, whether the visit
date is set, whether a licence was given. `Lifecycle` in LicenseWorkflow maps
the token to the stage and the record's columns to the two flags.

**AdminConsole** has the deployed table, the deployed process (its drawing and
the limit of its timer), the canvas file, the lead time, the promotion log, the
activations and the startup. `during[x]` is a history variable: a snapshot of
what was in force at each moment since activation x first read something. A
drawing is abstracted to a model value and its limit: a number of minutes, 0
for no timer, or one of `DayTimers`, which the canvas can write
(`processCanvas.js:154`) and the panel and the promotion read back as none
(`ReadLimit`). `Init` is the state after a publication: the file and the engine
agree. `platform/data/processCanvases.json` of this commit holds another
drawing (payment, specialist approval, review, issue; no decision table, no
visit date, no timer) than the diagram in `camunda-module`: which of the two
runs depends on the startup's redeployment. LicenseProcess is the diagram in
`camunda-module`.

**CollabRoom** is one room over several nodes. `room` is its entry in the shared
store: whether it has metadata, how often it was opened (`session`), how often
each client is in the list, and who holds which field. A callback of
`this.store` runs under the store's lock and is one step; a handler's awaits
separate its steps (`act`): among them, that the item exists is checked before
the room is created, and a room is unregistered before the others are told that
it is closed. `registry` and `pending` are the messenger's
registry, whose updates nobody waits for; `clients`, `loaded`, `listener` and
`alive` are each node's memory. `sweep` is the leave that follows a lost
connection, `cleanup` the interval of a node, `job` the cluster's job, `removal`
the closing after the item was deleted. What the edits say and the messages
that spread them are left out. One job of the cluster runs at a time
(the code schedules it with a lock per period), and the ticks of one node's
interval do not overlap.

**SchemaCache** is `getSchema` on several nodes. A call counts itself in at the
Redis counter; the first builds, the others subscribe and wait, time out and
try again. A schema is the number of changes it includes. Messages of the bus
may be handled in any order, because large ones are decompressed
asynchronously. A wait times out only after it has subscribed. The history
variables say what went wrong before: `reset` (a call deleted a counter it found
too high), `orphaned` (a builder died or could not publish) and `crossed` (a
change overlapped a build, or a process died, failed or lost the message that
announces a change: the publish at `cache.ts:119` is not awaited).

**ExtensionSync** is several processes on several machines. `storage` holds the
extensions, `folder` each machine's copy of them; an extension is there whole,
in part or not. `counter` is in Redis, `statusFile` on the machine's disk. `pc`
is the step of a process' load, `job` and `pending` its reload queue: one job at
a time and one that waits, `Reload` leaves out any more. `work` is the listing
and the copies under way. `op` is the change a process is making and has not
told yet, `notices` the reload messages it has not handled. Notices are small,
so the bus hands them on in order. `missed` (changes told while a process did
not listen), `dropped` (extensions whose reload was left out), `late`
(processes that subscribed after the message) and `abandoned` (machines whose
counter a dead process left) are history variables: no action reads them.

**MachineLock** is the abstract specification of what the counter of a machine
is for: a lock that one process owns and gives back, and that is lost with an
owner that dies. `Lock` in ExtensionSync maps the owners to the processes
between counting themselves in and deleting the counter (`Holds`), and the lost
locks to `abandoned`. The counter's value, above 1 while others wait, is gone.

`PROJECT.json` maps each definition to its lines. Definitions introduced by
`Variant:` in a comment are mutations, used only to show that a property can
fail; no action uses them.

## 3. Runs

All runs take an instance small enough to be explored completely.

| Run | Shows |
|---|---|
| `race` | two completions, a submission, a change of the requirement, a poll, the timer, one fault: types, `LicenseOnlyWhenDecided`, `DecisionAgreesWithEngine`, `EffectsPrecedeProgress`; until something fails, `NoSecondCode` |
| `deliver` | two polls, a completion, a round of changes, one fault, under `FairSpec`: the refinement of LicenseLifecycle; until something fails, `PollsDisjoint`; every external task is done in the end |
| `fixedRule` | two applications, two submissions at the same time, two faults, one requirement: `VerdictAgreesWithEngine`, `OneApplicationPerIdentity` |
| `console` | two admins at the same time, three updates of any kind, the startup, one failed call or restart: types, `TableDecides`, `CarriesOneHalf`, `PromotedWasLive` |
| `room` | two clients on two nodes, three messages, a lost connection, a crash or a deletion, under `FairSpec`: types, `OneLeader`, `LostClientsLeave`, `EmptyRoomCloses` |
| `focus` | two messages handled at the same time, one of them by a client that connects late: `FocusExclusive` |
| `schema` | two calls on two nodes, a change, two faults, any initial counter, under `FairSpec`: types, `OneBuilder`, `LockHasBuilder`, `StaleOnlyByCrossing`, `CallsProgress`, `CallsEnd` |
| `extensions` | two processes on one machine or on two, two extensions, two changes, one fault: types, `OneSyncer`, `CounterHasSyncer`, `WaiterIsServed`, `StatusFileTells`, `InstalledIsLoaded`, `SettingsAreLoaded`, the refinement of MachineLock |

Some promises the code keeps only under a condition, which the run or the
property states:

- `OneApplicationPerIdentity` excepts the identities in `raced`. The run reaches
  the exception: two concurrent submissions file an identity twice
  (`server.js:351`).
- `DecisionAgreesWithEngine` excepts the applications in `overtaken` from its
  last two parts. The run reaches both exceptions: a completion so slow that it
  finds the instance gone after the rejection issues a licence to the rejected
  (`server.js:500`), and the late patch of an approval leaves `approved`
  where the worker had written `completed`, or that of an earlier step leaves
  `under_review` (`server.js:515`). Its first two parts, that an approval
  or a rejection is shown only if the engine took it, have no exception.
- `VerdictAgreesWithEngine` holds while the requirement does not change: the
  record's eligibility comes from a second evaluation (`MCRequirements` in
  `fixedRule.cfg`).
- "An update changes what it names and nothing else" is not what the code keeps
  when two updates overlap: each deploys the whole table from what it read, and
  undoes what the other deployed in between (`camundaClient.js:222`).
  `CarriesOneHalf` bounds the loss: the half that an update does not name is
  deployed as it was at some moment since its own read.
- A promotion reads its parts one by one, so what it records may never have been
  in force at one moment when two kinds of settings changed meanwhile.
  `PromotedWasLive` promises that moment otherwise, and each part always.
- `LicenseOnlyWhenDecided` is lost when `EngineMayFail` is `TRUE`: any answer
  but 2xx to the look-up of a live instance reads as the end of the process
  (`camundaClient.js:61`), and a licence is issued in the middle of it.
- `OneBuilder` holds until a call deletes a counter it found too high, and
  `StaleOnlyByCrossing` names a change that overlaps a build, or whose
  announcement fails or is lost: the old schema stays in memory until the next
  change.
- `WaiterIsServed` names two exceptions, both reached: a syncer that died leaves
  its counter in Redis, and every later sync of that machine waits for ever; a
  process that subscribes after the message waits for ever, too.
- `StatusFileTells` and `InstalledIsLoaded` are about processes that share their
  folder with no other.
  Of two on one machine, a reload that finds `.status` loads the folder while
  the other still copies into it (`sync.ts:33`).

The models also contain, and no property here could exclude:

- a record whose process could not be started stays `submitted`, and its
  identity cannot file again (409) without help;
- publications that overlap or fail leave file and engine with different
  drawings, although `server.js:778` writes the file so that a reload shows the
  live diagram;
- the cleanup interval may close a room between its creation and the push of
  its first client: that client gets INIT of a room without metadata, and the
  next message initialises the room again, without it;
- `setSyncStatus(IDLE)` fails when the `.status` file is gone, which two syncs
  of one machine can bring about; the failure ends the process (`Settle`).

*Bounds.* One application suffices where a property is about one application:
the handlers of different applications share nothing but the worker's polls and
the bound on faults. Two slots of a kind are enough for every race between two
activations the properties speak of. `MaxRounds = 1` lets a review be sent back
once, so that an escalation of the first round can meet the second. `MaxFaults`
bounds failed calls, crashes and early expiries together; one is enough to reach
each repair, two lets a repair be interrupted. `MaxTasks` is the code's 10,
never reached by these instances. Two admins are enough for each race of the
console: what an update or a promotion is disturbed by is one deployment after
another, whoever makes them. The fees 10.00 and 3.33 with 50 and 15
percent include a product that must be rounded. `MaxUpdates` bounds admin
requests.

The room starts with the clients in `Inside`, so that three messages
(`MaxMessages`) are enough for a leave, a join and a focus; `Cleaners` are the
nodes whose interval fires and `Handlers` the messages handled at once. One
event (`MaxEvents`) is a lost connection, a crash or a deletion. The schema has
the code's three attempts and an iteration limit of 5 instead of 100, with a
counter that may start at any value below it, so that the limit is reached. In
`extensions` each extension changes at most once. A process
makes one change at a time. With two changes in all, no request that names an
extension is left out: `dropped` has the three changes for that, and the theorems hold
for any number. The processes of Init are up to date or have not started.

*Deadlock* is not checked: when every application is over, or every message,
change and fault the bounds allow is spent, nothing has to happen.

*Symmetry* is used for the slots of activations in `race`, for admins and
drawings in `console`, and for processes,
machines and extensions in `extensions` and `dropped`, whose Init and
Next treat them alike, MachineLock's too; never where a run checks liveness.

*Fairness* (`Fairness` in LicenseWorkflow). Weak fairness of the steps of a
running activation: an awaited call is answered in the end, or the activation
fails, which the bound on faults limits. Weak fairness of each poll's steps:
`setInterval` starts polls for as long as the process lives, and a poll handles
what it fetched. Weak fairness of lock expiry: the engine's clock goes on. No
fairness for users, admins, the timer, failures or crashes. The liveness
properties are about external tasks only, which need no user.

In CollabRoom the steps of a handler that has begun, of a node's interval and
of the cluster's job are weakly fair: the store answers, and timers fire; none
for messages of the apps, lost connections, crashes and deletions. In
SchemaCache each call's own step is weakly fair, its timeout included; no
fairness for the delivery of messages, so `CallsEnd` holds although messages
may never come. ExtensionSync states no fairness: a wait without end is what the
code has, and the safety property `WaiterIsServed` says exactly when.

### Disagreements the runs show

Each of these runs finds a violation of one property that states what a
comment, a text of the page or a message of the code says.

| Run | What happens |
|---|---|
| `ineligible` | an application the decision refuses gets a licence, because its instance is over at once |
| `startupUndoes` | the startup deploys the canvas file over the live process: a saved draft goes live, a changed time limit is lost |
| `ghost` | a join whose handler reaches `room.join` after its socket closed puts the client into the registry, and nothing takes it out while its node lives: the room is never empty again |
| `dropped` | a process that reloads and has a reload queued leaves out the notice of a third change, and never copies the extension it named |

## 4. Proofs

Every theorem holds for all values of the constants that satisfy the named
assumptions `RecordsAssumption`, `MaxRoundsAssumption`, `MaxTasksAssumption`,
`ConsoleAssumption`, `CollabAssumption`, `SchemaAssumption` and
`ExtensionAssumption`; further ones are named in the theorem.

*LicenseWorkflow_proofs.* `TypeCorrect` is `Spec => []TypeOK`. The safety
theorems `LicenseSafe` and `ProgressSafe`, and `DecisionSafe` below, assume
`~EngineMayFail`: without it the first one is false (section 3).
None of these properties is inductive, because what a handler writes is
decided by what it saw some steps before. The invariant `SafetyInv` therefore
adds what each activation knows:

- `RecordInv`: these properties (of the decision, that the status shown is not
  ahead of the engine), and that a record not yet created has no
  instance and no visit date;
- `SubmitInv`: a submission past the start owns a record and a process, and one
  that is to issue has seen the instance end;
- `TaskInv`: after `completeTask` succeeded, the engine is where the form sent
  it or later; an activation that reads, rewrites or issues a licence is on an
  application that is decided, and one that carries a code carries a real one;
- `WorkerInv`: the task a poll works on was open when it was fetched, and the
  effect of a task whose completion is being reported is stored.

Stages such as "decided" are stable under every action, which is why knowledge
once gained stays true while others step. The step is proved action by action,
and per conjunct under it.

*LicenseLifecycle_proofs.* `WorkflowImplementsLifecycle` uses `SafetyInv`:
every step is quiet, moves one token, stores a code, or stores a visit date,
and each of the four kinds is a step of the lifecycle or a stutter.

*AdminConsole_proofs.* `ConsoleTypeCorrect` carries "the deployed table is one
the generator made" through every update and restart. With it
`TableAlwaysDecides` is a fact about `DecisionRows`: exactly one of its rows is
the first that accepts given facts, and `ReadSettings` recovers the settings.

`PromotionsWereLive` and `UpdatesCarryOneHalf` are about any number of admins,
beside failures, restarts and the startup. Their invariant `ReadInv` says of
each activation that what it has read, or is about to deploy, is found among the
moments in `during` (`ReadsInForce`, `CarriesOver`), and that these reach up to
now. For the promotion, `OneKindChanged` then shows that parts read at
different moments were in force together if one kind of settings alone changed.

*QuietWorkflow_proofs.* What holds until a named race or fault disturbs it.
`OneIdentity` is about any number of submitters: `NotTaken` says that what the
look-up found is still true when the record is created, `NotShared` that no two
submissions are about to file one identity, both unless it was raced.
`DecisionSafe`: `DecisionInv` says of an application that no decision has
overtaken that, once it is rejected or its licence is issued, whatever status a
handler still has to store is that decision's own; `NoNewStatus` that past the
review no handler comes to hold another one. `VerdictsAgree` assumes one
requirement: `RuleInv` says of a record, a submission and the backfill that a
verdict they hold is the requirement's answer to the record's facts, and that
the instance took the branch of that answer. `PollsApart` (no further
assumption) and `NoCodeTwice` (`~EngineMayFail`) are about executions without a
fault so far: `PollsInv` says that what a poll has fetched is locked, so that
no other poll can fetch it; `CodeInv` says that a task that issues belongs to
an application without a code or with one this poll wrote, and that whoever
else is to issue has seen the instance end.

*CollabRoom_proofs.* `TypeCorrect`; `FocusIsExclusive`, which is inductive once
every step is shown to be a callback on the room that keeps, clears or tests
focuses; `OneLeaderOnly`, whose invariant `AllPast` adds that a task that is to
unregister a session is past that session's closing: the room is closed or in a
later session.

*SchemaCache_proofs.* `SchemaTypeCorrect` carries `AttemptsLeft`, that a call
between its entry and its wait has attempts left. `OneBuilderAlways` adds
`FreeMeansIdle`, that a counter at zero has no builder; `OldOnlyByCrossing`
uses `Fresh`: unless a change crossed a build, what a build has read and what
is on its way to other nodes is the database's schema. `CallsComeNearer` is the
safety half of the liveness property `CallsEnd`: `StepsLeft`, a natural number
that counts what the attempts and the place of a call leave it, goes down with
every step of the call, also with a message, a failure or a crash that meets
it. What remains for fairness is that some step is taken.

*ExtensionSync_proofs.* `ExtensionsTypeCorrect` carries `ProbesOne`, that only
the sync of one extension probes for it. `OneSyncerOnly` and
`CounterAlwaysHasSyncer` are proved together with `HoldersCount`: who copies has
counted itself in, so the next finds the counter above zero.
`CounterImplementsLock` maps each step to `Take`, `Give`, `Lose` or a stutter;
that a lost lock is not taken again needs `LostKeepsCount`, that its counter
stands with nobody left to delete it. For
`WaitersAreServed` the property is inductive by itself: a waiter's syncer either
copies on, or its message wakes every waiter of the machine, or it dies and the
machine is one of the abandoned. `SettingsReachAll` is about reloads that are
left out: `Expects` says that a process has the settings, or is at a step from
which it will read them, or has a reload queued, or a notice, or that the author
of the change has not told it yet; `QuietInv` says that a process that does not
listen has neither, and one without a job has nothing queued. Because a reload
is left out only while another is queued, `Expects` survives it. That argument
fails for extensions, whose reloads copy only what they name: run `dropped`.

*InstalledExtensions_proofs.* `InstalledReachAll` is `Spec => []InstalledIsLoaded`.
Its invariant `ArrivesInv` follows one extension that is whole in the storage to
one process with a folder of its own, which did not miss its notice or leave
out its reload (`Arrives`): it is *coming* (a request that covers it is queued,
or noticed, or the author of the change has yet to tell), or it is being
*fetched* by a load that will copy it, or the load is *lost* (it waits for a
dead syncer, or its sync failed and ends the process), or it is in the folder
and a step that reads the folder is still ahead or done. That every step keeps
this rests on:

- `AuthorInv` and `AskedInv`: a change under way is the only one of its
  extension and the storage is as far as that change is; who is asked to reload
  an extension is asked after its change is over;
- `SyncInv`: a sync removes or cleans up only what is gone from the storage for
  good, and of an extension that was never stored there is no trace in any
  folder or listing;
- `LoadInv`: a start syncs by force, and a failed sync ends the process;
- `StatusFileTells`, itself a property (`StatusFileAlwaysTells`): without it a
  reload could find the file of a sync that is over, skip its own and read an
  old folder.

`ExtensionAssumption` keeps the names of requests ("all", "own") and of
extensions apart: in the code they are different fields of an options record.

*Model-checked only.* Liveness is out of the prover's reach: the external tasks
of `deliver` under `FairSpec`, `LostClientsLeave`, `EmptyRoomCloses` and
`CallsEnd`. Every invariant, action property and refinement that a passing run
checks is stated by a theorem.

## 5. Not modelled, and why

- Directus and Camunda as services of the platform: a call is one atomic change
  or a failure. Answers do not overtake each other within one activation, as
  each is awaited.
- Contents of drawings: `validate` and `compileCanvas`. LicenseWorkflow runs
  the diagram in `camunda-module`, which is what the default canvas compiles to.
- Redeployments of the diagram do not move running instances: Camunda keeps an
  instance on the version it was started with.
- Binary floating point in the fee, time zones, wording, HTML.
- The service token, field permissions, dashboard, sessions, CI scripts: see
  the inventory; a component with state of its own is in the plan.
- Collaboration: the edited values, their sanitising by permissions, `save`
  and `discard`, versions, closing every room when the setting is switched off,
  a node that is slow to answer a ping and is taken for dead, and the app's
  numbering of updates and count of users.
- Schema cache: `bypassCache`, `CACHE_SCHEMA=false`, the bus of a single node,
  the other caches of `cache.ts`. The selects that read a schema are one step.
- Extensions: the watcher, bundling and registration, the sandbox, the content
  of files and settings, and deployments without Redis, where counter and bus
  are those of one process. A process makes one change at a time. `publish` and
  `delete` of the syncer use one connection, so the message goes first.
- The rest of Directus (items, fields, permissions, flows, files, its web
  application): a product of its own of some 2,600 source files, most of them
  requests over one database without state between them. It is nearly all of the
  repository's 284,000 lines, which is why the definitions here map to well
  under one percent of them; the parts of Directus chosen are those in which
  nodes coordinate.

## 6. Plan

Done: the licence workflow with its lifecycle, the admin settings, and
Directus' collaboration rooms, schema cache and extension synchronisation.

1. **ProcessCanvas**: `validate` and `compileCanvas` as operators over sets of
   shapes and connections. The default canvas compiles to the flow of
   LicenseProcess; every drawing that validates has a flow out of each element,
   no two elements or flows share an id, conditions of a gateway are exclusive;
   labels against the outcomes the forms send. Runs enumerate drawings of up to
   four shapes.
2. **Time limit**: durations written by the canvas and by the panel against
   the panel's reader; publications against time-limit updates.
3. **FieldPermissions**: the matrix, field administration, redaction and the
   filter of the submission; a field's permissions follow the field.
4. **ServiceToken**: the cached token of the Directus client, concurrent
   logins, expiry and revocation, the failing calls that result.
5. **Dashboard**: ten reads of different moments, and what the counts may
   claim about the records.
6. **Directus**: the flow manager's reloads, which follow the pattern of
   ExtensionSync; the lock and key-value stores of `directus/packages/memory`,
   with an abstract specification of each; nodes that are slow but alive in
   CollabRoom.
7. **Proofs**: lemmas about `compileCanvas`; the safety half of
   `EmptyRoomCloses`, as `CallsProgress` is of `CallsEnd`.
