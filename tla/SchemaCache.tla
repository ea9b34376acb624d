---------------------------- MODULE SchemaCache ----------------------------
(***************************************************************************)
(* The database schema as the nodes of a Directus cluster keep it: each    *)
(* node caches it in memory, calls of getSchema that find no cache count   *)
(* themselves in at a Redis counter, the first reads the database and      *)
(* publishes what it read, the others wait for that message, and a change  *)
(* of the schema purges the caches by another message.                     *)
(*                                                                         *)
(* Messages of a node are handled in any order: large ones are compressed  *)
(* and decompressed asynchronously.  A schema is the number of changes it  *)
(* includes.                                                               *)
(***************************************************************************)
EXTENDS Naturals

CONSTANTS
    Nodes,
    Calls,          \* calls of getSchema that may come, each once
    At,             \* At[r]: the node that call r comes to
    None,           \* no schema: an empty cache, a failed read
    MaxAttempts,    \* MAX_ATTEMPTS, 3 in the source
    MaxIterations,  \* CACHE_SCHEMA_MAX_ITERATIONS
    MaxChanges,     \* bound on changes of the schema
    MaxFaults       \* bound on crashes, failed reads and publications

ASSUME SchemaAssumption ==
    /\ At \in [Calls -> Nodes]
    /\ None \notin Nat
    /\ MaxAttempts \in Nat /\ MaxIterations \in Nat \ {0, 1}
    /\ MaxChanges \in Nat /\ MaxFaults \in Nat

VARIABLES
    db,         \* the schema in the database
    cache,      \* per node: memorySchemaCache
    lock,       \* the counter schemaCache--preparing
    call,       \* per call: its step, its attempt, the schema it has
    listeners,  \* per node: the waits subscribed to schemaCache--done
    done,       \* per node: schemaCache--done messages not handled yet
    changed,    \* per node: schemaChanged messages not handled yet
    change,     \* per node: the change of the schema it is making
    faults,
    reset,      \* history: has a call deleted the counter it found too high
    orphaned,   \* history: was the counter left behind by its builder
    crossed     \* history: a change overlapped a build, or was not announced to all

cacheVars   == <<db, cache>>
messageVars == <<listeners, done, changed>>
historyVars == <<reset, orphaned, crossed>>
vars == <<cacheVars, lock, call, messageVars, change, faults, historyVars>>

Goes(r, pc)        == call' = [call EXCEPT ![r].pc = pc]
Finishes(r, pc, s) == call' = [call EXCEPT ![r].pc = pc, ![r].schema = s]

\* Variant: a wait that timed out does not count as an attempt.
RetriesUncounted(r) == call' = [call EXCEPT ![r].pc = "enter"]

Retries(r)         == call' = [call EXCEPT ![r].pc = "enter", ![r].attempt = @ + 1]

----------------------------------------------------------------------------
(* getSchema *)

\* Variant: no limit on the attempts.
EnterForEver(r) ==
    /\ call[r].pc = "enter"
    /\ IF cache[At[r]] # None THEN Finishes(r, "returned", cache[At[r]])
                              ELSE Goes(r, "count")
    /\ UNCHANGED <<cacheVars, lock, messageVars, change, faults, historyVars>>

Enter(r) ==
    /\ call[r].pc = "enter"
    /\ \/ cache[At[r]] # None /\ Finishes(r, "returned", cache[At[r]])
       \/ cache[At[r]] = None /\ call[r].attempt >= MaxAttempts /\ Goes(r, "failed")
       \/ cache[At[r]] = None /\ call[r].attempt < MaxAttempts /\ Goes(r, "count")
    /\ UNCHANGED <<cacheVars, lock, messageVars, change, faults, historyVars>>

\* The first to count itself in builds; the counter may be found too high.
Count(r) ==
    /\ call[r].pc = "count"
    /\ lock' = lock + 1
    /\ Goes(r, CASE lock' >= MaxIterations -> "reset"
                 [] lock' = 1              -> "read"
                 [] OTHER                  -> "subscribe")
    /\ UNCHANGED <<cacheVars, messageVars, change, faults, historyVars>>

ResetLock(r) ==
    /\ call[r].pc = "reset"
    /\ lock' = 0 /\ reset' = TRUE /\ orphaned' = FALSE
    /\ Goes(r, "subscribe")
    /\ UNCHANGED <<cacheVars, messageVars, change, faults, crossed>>

\* A message published before this step is missed.
Subscribe(r) ==
    /\ call[r].pc = "subscribe"
    /\ listeners' = [listeners EXCEPT ![At[r]] = @ \cup {<<r, call[r].attempt>>}]
    /\ Goes(r, "wait")
    /\ UNCHANGED <<cacheVars, lock, done, changed, change, faults, historyVars>>

\* Variant: a wait that times out frees the counter for the next call.
TimeoutFreeing(r) ==
    /\ call[r].pc = "wait"
    /\ Retries(r) /\ lock' = 0
    /\ UNCHANGED <<cacheVars, messageVars, change, faults, historyVars>>

\* Variant: a wait has no time limit.
TimeoutNever(r) == FALSE /\ UNCHANGED vars

\* The listener stays subscribed.
Timeout(r) ==
    /\ call[r].pc = "wait"
    /\ Retries(r)
    /\ UNCHANGED <<cacheVars, lock, messageVars, change, faults, historyVars>>

\* All listeners of the node hear the message, those that timed out included,
\* and unsubscribe; a failed build makes those that still wait try again.
HearDone(n, m) ==
    LET waits(r) == call[r].pc = "wait" /\ <<r, call[r].attempt>> \in listeners[n]
    IN
    /\ m \in done[n]
    /\ done' = [done EXCEPT ![n] = @ \ {m}]
    /\ listeners' = [listeners EXCEPT ![n] = {}]
    /\ cache' = IF listeners[n] # {} /\ m.schema # None
                THEN [cache EXCEPT ![n] = m.schema] ELSE cache
    /\ call' = [r \in Calls |->
                  IF ~waits(r) THEN call[r]
                  ELSE IF m.schema = None
                  THEN [call[r] EXCEPT !.pc = "enter", !.attempt = @ + 1]
                  ELSE [call[r] EXCEPT !.pc = "returned", !.schema = m.schema]]
    /\ UNCHANGED <<db, lock, changed, change, faults, historyVars>>

ReadDatabase(r) ==
    /\ call[r].pc = "read"
    /\ Finishes(r, "store", db)
    /\ UNCHANGED <<cacheVars, lock, messageVars, change, faults, historyVars>>

Store(r) ==
    /\ call[r].pc = "store"
    /\ cache' = [cache EXCEPT ![At[r]] = call[r].schema]
    /\ Goes(r, "publish")
    /\ UNCHANGED <<db, lock, messageVars, change, faults, historyVars>>

\* Redis delivers to the nodes that are subscribed at this moment.
Publish(r) ==
    /\ call[r].pc = "publish"
    /\ done' = [n \in Nodes |->
                  IF listeners[n] = {} THEN done[n]
                  ELSE done[n] \cup {[from |-> r, schema |-> call[r].schema]}]
    /\ Goes(r, "release")
    /\ UNCHANGED <<cacheVars, lock, listeners, changed, change, faults, historyVars>>

\* Variant: the counter is freed only after a build that went well.
ReleaseOnSuccess(r) ==
    /\ call[r].pc = "release"
    /\ lock' = IF call[r].schema = None THEN lock ELSE 0
    /\ Goes(r, IF call[r].schema = None THEN "failed" ELSE "returned")
    /\ UNCHANGED <<cacheVars, messageVars, change, faults, historyVars>>

\* Whoever counted itself in since a reset loses its count as well.
Release(r) ==
    /\ call[r].pc = "release"
    /\ lock' = 0 /\ orphaned' = FALSE
    /\ Goes(r, IF call[r].schema = None THEN "failed" ELSE "returned")
    /\ UNCHANGED <<cacheVars, messageVars, change, faults, reset, crossed>>

----------------------------------------------------------------------------
(* Changes of the schema, and the purge of the caches. *)

InFlight(r) == call[r].pc \in {"store", "publish"} /\ call[r].schema # None

\* A build that has read the database when the schema changes has read the
\* old schema.
ChangeSchema(n) ==
    /\ change[n] = "idle" /\ db < MaxChanges
    /\ db' = db + 1
    /\ change' = [change EXCEPT ![n] = "committed"]
    /\ crossed' = (crossed \/ \/ \E r \in Calls : InFlight(r)
                              \/ \E m \in Nodes : \E d \in done[m] : d.schema # None)
    /\ UNCHANGED <<cache, lock, call, messageVars, faults, reset, orphaned>>

\* clearSystemCache empties the node's own memory, then tells everyone.
PurgeOwn(n) ==
    /\ change[n] = "committed"
    /\ cache' = [cache EXCEPT ![n] = None]
    /\ change' = [change EXCEPT ![n] = "purged"]
    /\ UNCHANGED <<db, lock, call, messageVars, faults, historyVars>>

Announce(n) ==
    /\ change[n] = "purged"
    /\ changed' = [m \in Nodes |-> changed[m] + 1]
    /\ change' = [change EXCEPT ![n] = "idle"]
    /\ UNCHANGED <<cacheVars, lock, call, listeners, done, faults, historyVars>>

\* Variant: only a message that asks for it purges the schema.
HearChangedIgnoring(n) ==
    /\ changed[n] > 0
    /\ changed' = [changed EXCEPT ![n] = @ - 1]
    /\ UNCHANGED <<cacheVars, lock, call, listeners, done, change, faults, historyVars>>

HearChanged(n) ==
    /\ changed[n] > 0
    /\ changed' = [changed EXCEPT ![n] = @ - 1]
    /\ cache' = [cache EXCEPT ![n] = None]
    /\ UNCHANGED <<db, lock, call, listeners, done, change, faults, historyVars>>

----------------------------------------------------------------------------
(* Faults. *)

Faults == faults < MaxFaults /\ faults' = faults + 1

Builds(r) == call[r].pc \in {"read", "store", "publish", "release"}

ReadFails(r) ==
    /\ call[r].pc = "read" /\ Faults
    /\ Finishes(r, "publish", None)
    /\ UNCHANGED <<cacheVars, lock, messageVars, change, historyVars>>

\* The publication throws, and the counter is not deleted any more.
PublishFails(r) ==
    /\ call[r].pc = "publish" /\ Faults
    /\ Goes(r, "failed")
    /\ orphaned' = TRUE
    /\ UNCHANGED <<cacheVars, lock, messageVars, change, reset, crossed>>

\* The purge throws before its message, or the message, which clearSystemCache
\* does not await, reaches some nodes only, or none.
AnnounceFails(n) ==
    /\ change[n] # "idle" /\ Faults
    /\ \E reached \in SUBSET Nodes :
          /\ reached # {} => change[n] = "purged"
          /\ changed' = [m \in Nodes |->
                           IF m \in reached THEN changed[m] + 1 ELSE changed[m]]
    /\ change' = [change EXCEPT ![n] = "idle"]
    /\ crossed' = TRUE
    /\ UNCHANGED <<cacheVars, lock, call, listeners, done, reset, orphaned>>

\* A node dies with its calls, its memory and its messages, and starts again.
Crash(n) ==
    LET dies(r) == At[r] = n /\ call[r] # [pc |-> "enter", attempt |-> 0, schema |-> None]
                   /\ call[r].pc \notin {"returned", "failed"}
    IN
    /\ Faults
    /\ call' = [r \in Calls |-> IF dies(r) THEN [call[r] EXCEPT !.pc = "failed"] ELSE call[r]]
    /\ orphaned' = (orphaned \/ \E r \in Calls : dies(r) /\ Builds(r))
    /\ crossed' = (crossed \/ change[n] # "idle")
    /\ cache' = [cache EXCEPT ![n] = None]
    /\ listeners' = [listeners EXCEPT ![n] = {}]
    /\ done' = [done EXCEPT ![n] = {}]
    /\ changed' = [changed EXCEPT ![n] = 0]
    /\ change' = [change EXCEPT ![n] = "idle"]
    /\ UNCHANGED <<db, lock, reset>>

----------------------------------------------------------------------------
\* A builder that died earlier may have left the counter behind.
Init ==
    /\ db = 0 /\ faults = 0
    /\ lock \in 0 .. MaxIterations - 1
    /\ cache = [n \in Nodes |-> None]
    /\ call = [r \in Calls |-> [pc |-> "enter", attempt |-> 0, schema |-> None]]
    /\ listeners = [n \in Nodes |-> {}]
    /\ done = [n \in Nodes |-> {}]
    /\ changed = [n \in Nodes |-> 0]
    /\ change = [n \in Nodes |-> "idle"]
    /\ reset = FALSE /\ orphaned = (lock > 0) /\ crossed = FALSE

CallStep(r) ==
    \/ Enter(r) \/ Count(r) \/ ResetLock(r) \/ Subscribe(r) \/ Timeout(r)
    \/ ReadDatabase(r) \/ Store(r) \/ Publish(r) \/ Release(r)

NodeStep(n) ==
    \/ PurgeOwn(n) \/ Announce(n) \/ HearChanged(n)
    \/ \E m \in done[n] : HearDone(n, m)

Next ==
    \/ \E r \in Calls : CallStep(r) \/ ReadFails(r) \/ PublishFails(r)
    \/ \E n \in Nodes : NodeStep(n) \/ ChangeSchema(n) \/ AnnounceFails(n) \/ Crash(n)

\* Redis and the database answer, and timers fire.
Fairness == \A r \in Calls : WF_vars(CallStep(r))

Spec     == Init /\ [][Next]_vars
FairSpec == Spec /\ Fairness

----------------------------------------------------------------------------
(* What the cache promises. *)

Schemas == Nat \cup {None}

CallRecord ==
    [pc : {"enter", "count", "reset", "subscribe", "wait", "read", "store", "publish",
           "release", "returned", "failed"},
     attempt : 0 .. MaxAttempts, schema : Schemas]

\* Every variable stays within its set of values: no call counts its attempts
\* beyond MAX_ATTEMPTS.
TypeOK ==
    /\ db \in Nat /\ lock \in Nat /\ faults \in Nat
    /\ cache \in [Nodes -> Schemas]
    /\ call \in [Calls -> CallRecord]
    /\ listeners \in [Nodes -> SUBSET (Calls \X (0 .. MaxAttempts))]
    /\ done \in [Nodes -> SUBSET [from : Calls, schema : Schemas]]
    /\ changed \in [Nodes -> Nat]
    /\ change \in [Nodes -> {"idle", "committed", "purged"}]
    /\ reset \in BOOLEAN /\ orphaned \in BOOLEAN /\ crossed \in BOOLEAN

\* Until a call deletes a counter it found too high, one call of the cluster at
\* a time reads the schema, in spite of timeouts, failures and crashes.
OneBuilder ==
    ~reset => \A r, s \in Calls : Builds(r) /\ Builds(s) => r = s

\* The counter keeps no call waiting for nobody: while it stands, a call that
\* builds will delete it, unless that call died or could not publish.
LockHasBuilder ==
    ~orphaned /\ lock > 0 => \E r \in Calls : Builds(r)

Purging(n) == changed[n] > 0 \/ \E m \in Nodes : change[m] # "idle"

\* A node that serves an old schema is about to be told, unless a build was
\* under way when the schema changed or the message of a change was lost, with its
\* node or on its way: those two leave an old schema in memory until the next change.
StaleOnlyByCrossing ==
    ~crossed => \A n \in Nodes : cache[n] \in {None, db} \/ Purging(n)

\* The steps a call may still take: within an attempt its place, and for each
\* attempt left a whole round.
Place(pc) ==
    CASE pc = "enter"                -> 10
      [] pc = "count"                -> 9
      [] pc = "reset"                -> 8
      [] pc = "subscribe"            -> 7
      [] pc = "read"                 -> 6
      [] pc = "store"                -> 5
      [] pc \in {"wait", "publish"}   -> 4
      [] pc = "release"              -> 3
      [] OTHER                       -> 0

StepsLeft(r) == 11 * (MaxAttempts - call[r].attempt) + Place(call[r].pc)

\* Whatever happens, a call that moves comes nearer its end: no order of resets,
\* timeouts, messages, failures and crashes brings it back to a step of the same
\* attempt, or lets it try once more than MAX_ATTEMPTS.
CallsProgress ==
    [][\A r \in Calls : call'[r] = call[r] \/ StepsLeft(r)' < StepsLeft(r)]_vars

\* A call ends, whatever messages it missed and whoever died holding the
\* counter: waits are limited in time and in number.
CallsEnd == \A r \in Calls : <>(call[r].pc \in {"returned", "failed"})

=============================================================================
