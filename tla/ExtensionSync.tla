--------------------------- MODULE ExtensionSync ---------------------------
(***************************************************************************)
(* The extensions of a Directus cluster.  They are kept in a storage; each *)
(* machine has a folder with a copy, shared by the processes that run on   *)
(* it.  A change of the extensions or of their settings is told to the     *)
(* other processes, and each reloads: its manager queues the reload, the   *)
(* first process of a machine to count itself in at a Redis counter copies *)
(* the storage into the folder, the others wait for its message, and then  *)
(* each reads the folder and the settings.                                 *)
(*                                                                         *)
(* An extension in the storage or in a folder is there whole, in part, or  *)
(* not.  The settings are the number of changes made to them.              *)
(***************************************************************************)
EXTENDS Naturals, Sequences, FiniteSets

CONSTANTS
    Procs, Machines,
    Layouts,     \* the placements of the processes on the machines
    Exts,        \* extensions of the registry folder
    None,        \* no request
    MaxChanges,  \* bound on changes; an extension changes at most once
    MaxFaults    \* bound on crashes and failed storage calls

ASSUME ExtensionAssumption ==
    /\ Layouts \subseteq [Procs -> Machines]
    /\ None \notin Exts \cup {"start", "update", "all", "own"}
    /\ Exts \cap {"start", "update", "all", "own", "settings"} = {}
    /\ MaxChanges \in Nat /\ MaxFaults \in Nat

VARIABLES
    home,        \* per process: its machine, never changed
    storage,     \* EXTENSIONS_LOCATION, per extension
    setting,     \* the settings in the database
    folder,      \* per machine: the local copy, per extension
    statusFile,  \* per machine: does the .status file exist
    counter,     \* per machine: the counter extensions-sync/<machine>
    pc,          \* per process: the step of its load
    job,         \* per process: the request it loads for
    pending,     \* per process: the request waiting in its reload queue
    work,        \* per process: what its copying has listed, opened and left
    loaded,      \* per process: the extensions it has registered
    seen,        \* per process: the settings it has registered
    hears,       \* per process: is it subscribed to extensions.reload
    notices,     \* per process: extensions.reload messages not handled yet
    op,          \* per process: the change it is making
    touched,     \* extensions changed so far
    faults,
    missed,      \* history, per process: changes told while it did not listen
    dropped,     \* history, per process: extensions whose notice reload left out
    late,        \* history: processes that subscribed after the message
    abandoned    \* history: machines whose counter a dead process left behind

placeVars   == <<storage, folder, statusFile, counter>>
reloadVars  == <<pc, job, pending>>
loadVars    == <<loaded, seen, hears>>
changeVars  == <<setting, op, touched>>
historyVars == <<missed, dropped, late, abandoned>>
vars == <<home, placeVars, reloadVars, work, loadVars, notices, changeVars,
          faults, historyVars>>

Settings == "settings"
Items    == Exts \cup {Settings}
States   == {"none", "part", "whole"}

\* What reload is asked for: "start" syncs by force, "update" and "all" sync
\* everything, an extension syncs that one, "own" syncs nothing.
Requests == Exts \cup {"start", "update", "all", "own"}

Scope(r) == IF r \in Exts THEN {r} ELSE Exts
Nothing  == [e \in Exts |-> "none"]
NoWork   == [listed |-> Nothing, open |-> {}, stale |-> {}, failed |-> FALSE]
NoOp     == [step |-> "none", item |-> Settings]

\* The part of a sync between counting itself in and deleting the counter, and
\* the part of it before the others are told.
Holds(p)  == pc[p] \in {"prepare", "probe", "remove", "scan", "list", "copy", "clean",
                        "publish", "release"}
Copies(p) == Holds(p) /\ pc[p] # "release"

Goes(p, step) == pc' = [pc EXCEPT ![p] = step]

----------------------------------------------------------------------------
(* reload: one job at a time, and one in the queue. *)

\* Variant: a running job is taken to handle the additional changes as well.
ReloadOnce(p, r) ==
    \/ /\ pc[p] = "idle"
       /\ Goes(p, "check")
       /\ job' = [job EXCEPT ![p] = r]
       /\ UNCHANGED <<pending, dropped>>
    \/ /\ pc[p] # "idle"
       /\ dropped' = [dropped EXCEPT ![p] = @ \cup ({r} \cap Exts)]
       /\ UNCHANGED reloadVars

Reload(p, r) ==
    \/ /\ pc[p] = "idle"
       /\ Goes(p, "check")
       /\ job' = [job EXCEPT ![p] = r]
       /\ UNCHANGED <<pending, dropped>>
    \/ /\ pc[p] # "idle" /\ pending[p] = None
       /\ pending' = [pending EXCEPT ![p] = r]
       /\ UNCHANGED <<pc, job, dropped>>
    \/ /\ pc[p] # "idle" /\ pending[p] # None
       /\ dropped' = [dropped EXCEPT ![p] = @ \cup ({r} \cap Exts)]
       /\ UNCHANGED reloadVars

\* The next job starts at once.
NextJob(p) ==
    IF pending[p] = None
    THEN /\ Goes(p, "idle")
         /\ job' = [job EXCEPT ![p] = "start"]
         /\ UNCHANGED pending
    ELSE /\ Goes(p, "check")
         /\ job' = [job EXCEPT ![p] = pending[p]]
         /\ pending' = [pending EXCEPT ![p] = None]

----------------------------------------------------------------------------
(* syncExtensions *)

\* Variant: a start too takes the status file for a sync under way.
CheckUnforced(p) ==
    /\ pc[p] = "check"
    /\ Goes(p, IF job[p] = "own" \/ statusFile[home[p]] THEN "read" ELSE "count")
    /\ UNCHANGED <<home, placeVars, job, pending, work, loadVars, notices, changeVars,
                   faults, historyVars>>

Check(p) ==
    /\ pc[p] = "check"
    /\ Goes(p, IF job[p] = "own" \/ (job[p] # "start" /\ statusFile[home[p]])
               THEN "read" ELSE "count")
    /\ UNCHANGED <<home, placeVars, job, pending, work, loadVars, notices, changeVars,
                   faults, historyVars>>

\* Variant: the second to count itself in syncs too.
CountTwo(p) ==
    /\ pc[p] = "count"
    /\ counter' = [counter EXCEPT ![home[p]] = @ + 1]
    /\ Goes(p, IF counter[home[p]] < 2 THEN "prepare" ELSE "subscribe")
    /\ UNCHANGED <<home, storage, folder, statusFile, job, pending, work, loadVars,
                   notices, changeVars, faults, historyVars>>

Count(p) ==
    /\ pc[p] = "count"
    /\ counter' = [counter EXCEPT ![home[p]] = @ + 1]
    /\ Goes(p, IF counter[home[p]] = 0 THEN "prepare" ELSE "subscribe")
    /\ UNCHANGED <<home, storage, folder, statusFile, job, pending, work, loadVars,
                   notices, changeVars, faults, historyVars>>

\* A message published before this step is missed.
Subscribe(p) ==
    /\ pc[p] = "subscribe"
    /\ Goes(p, "wait")
    /\ late' = IF \E q \in Procs : home[q] = home[p] /\ Copies(q) THEN late
                                                                 ELSE late \cup {p}
    /\ UNCHANGED <<home, placeVars, job, pending, work, loadVars, notices, changeVars,
                   faults, missed, dropped, abandoned>>

Prepare(p) ==
    /\ pc[p] = "prepare"
    /\ statusFile' = [statusFile EXCEPT ![home[p]] = TRUE]
    /\ Goes(p, IF job[p] \in Exts THEN "probe" ELSE "scan")
    /\ UNCHANGED <<home, storage, folder, counter, job, pending, work, loadVars, notices,
                   changeVars, faults, historyVars>>

Probe(p) ==
    /\ pc[p] = "probe"
    /\ \/ storage[job[p]] # "none" /\ Goes(p, "scan")
       \/ storage[job[p]] # "whole" /\ Goes(p, "remove")
    /\ UNCHANGED <<home, placeVars, job, pending, work, loadVars, notices, changeVars,
                   faults, historyVars>>

RemoveLocal(p) ==
    /\ pc[p] = "remove"
    /\ folder' = [folder EXCEPT ![home[p]][job[p]] = "none"]
    /\ Goes(p, "publish")
    /\ UNCHANGED <<home, storage, statusFile, counter, job, pending, work, loadVars,
                   notices, changeVars, faults, historyVars>>

\* readLocalFiles
Scan(p) ==
    /\ pc[p] = "scan"
    /\ work' = [work EXCEPT ![p].stale =
                  {e \in Scope(job[p]) : folder[home[p]][e] # "none"}]
    /\ Goes(p, "list")
    /\ UNCHANGED <<home, placeVars, job, pending, loadVars, notices, changeVars, faults,
                   historyVars>>

\* Variant: what was scanned counts as left over, listed or not.
ListForgetting(p) ==
    /\ pc[p] = "list"
    /\ work' = [work EXCEPT ![p].listed =
                  [e \in Exts |-> IF e \in Scope(job[p]) THEN storage[e] ELSE "none"]]
    /\ Goes(p, "copy")
    /\ UNCHANGED <<home, placeVars, job, pending, loadVars, notices, changeVars, faults,
                   historyVars>>

List(p) ==
    /\ pc[p] = "list"
    /\ work' = [work EXCEPT
                  ![p].listed = [e \in Exts |-> IF e \in Scope(job[p]) THEN storage[e]
                                                                     ELSE "none"],
                  ![p].stale = {e \in @ : storage[e] = "none"}]
    /\ Goes(p, "copy")
    /\ UNCHANGED <<home, placeVars, job, pending, loadVars, notices, changeVars, faults,
                   historyVars>>

\* Files listed from a whole extension are gone once its removal has begun.
Gone(p, e) == storage[e] = "none" \/ (work[p].listed[e] = "whole" /\ storage[e] = "part")

Open(p, e) ==
    /\ ~Gone(p, e)
    /\ work' = [work EXCEPT ![p].open = @ \cup {e}]
    /\ folder' = IF work[p].listed[e] = "whole"
                 THEN [folder EXCEPT ![home[p]][e] = "part"] ELSE folder

\* compareFileMetadata finds every file unchanged.
Skip(p, e) ==
    /\ job[p] # "start" /\ ~Gone(p, e) /\ folder[home[p]][e] = "whole"
    /\ work' = [work EXCEPT ![p].listed[e] = "none"]
    /\ UNCHANGED folder

Fail(p, e) ==
    /\ Gone(p, e)
    /\ work' = [work EXCEPT ![p].failed = TRUE]
    /\ UNCHANGED folder

Fetch(p, e) ==
    /\ pc[p] = "copy" /\ ~work[p].failed
    /\ work[p].listed[e] # "none" /\ e \notin work[p].open
    /\ Open(p, e) \/ Skip(p, e) \/ Fail(p, e)
    /\ UNCHANGED <<home, storage, statusFile, counter, reloadVars, loadVars, notices,
                   changeVars, faults, historyVars>>

\* What a partial listing copies adds nothing to a whole copy.
Save(p, e) ==
    /\ folder' = IF work[p].listed[e] = "whole"
                 THEN [folder EXCEPT ![home[p]][e] = "whole"]
                 ELSE [folder EXCEPT ![home[p]][e] = IF @ = "whole" THEN @ ELSE "part"]
    /\ work' = [work EXCEPT ![p].open = @ \ {e}, ![p].listed[e] = "none"]

Break(p, e) ==
    /\ Gone(p, e)
    /\ work' = [work EXCEPT ![p].open = @ \ {e}, ![p].failed = TRUE]
    /\ UNCHANGED folder

Store(p, e) ==
    /\ pc[p] = "copy" /\ e \in work[p].open
    /\ Save(p, e) \/ Break(p, e)
    /\ UNCHANGED <<home, storage, statusFile, counter, reloadVars, loadVars, notices,
                   changeVars, faults, historyVars>>

\* The copies begun are awaited, after a failure too.
CopyEnds(p) ==
    /\ pc[p] = "copy" /\ work[p].open = {}
    /\ \/ work[p].failed /\ Goes(p, "publish")
       \/ /\ ~work[p].failed /\ \A e \in Exts : work[p].listed[e] = "none"
          /\ Goes(p, "clean")
    /\ UNCHANGED <<home, placeVars, job, pending, work, loadVars, notices, changeVars,
                   faults, historyVars>>

\* Directories left over go; files at the top of the synced path stay, which of
\* an extension synced alone is a part of it.
Clean(p) ==
    LET left == IF job[p] \in Exts THEN "part" ELSE "none" IN
    /\ pc[p] = "clean"
    /\ folder' = [folder EXCEPT ![home[p]] =
                    [e \in Exts |-> IF e \in work[p].stale THEN left ELSE @[e]]]
    /\ Goes(p, "publish")
    /\ UNCHANGED <<home, storage, statusFile, counter, job, pending, work, loadVars,
                   notices, changeVars, faults, historyVars>>

\* Variant: the message reaches the processes of other machines.
PublishElsewhere(p) ==
    LET woken == {q \in Procs : home[q] # home[p] /\ pc[q] = "wait"} IN
    /\ pc[p] = "publish"
    /\ pc' = [q \in Procs |-> IF q = p THEN "release"
                              ELSE IF q \in woken THEN "read" ELSE pc[q]]
    /\ late' = late \ woken
    /\ UNCHANGED <<home, placeVars, job, pending, work, loadVars, notices, changeVars,
                   faults, missed, dropped, abandoned>>

\* Redis delivers to those that are subscribed at this moment.
Publish(p) ==
    LET woken == {q \in Procs : home[q] = home[p] /\ pc[q] = "wait"} IN
    /\ pc[p] = "publish"
    /\ pc' = [q \in Procs |-> IF q = p THEN "release"
                              ELSE IF q \in woken THEN "read" ELSE pc[q]]
    /\ late' = late \ woken
    /\ UNCHANGED <<home, placeVars, job, pending, work, loadVars, notices, changeVars,
                   faults, missed, dropped, abandoned>>

\* Variant: a sync that failed keeps the counter.
ReleaseOnSuccess(p) ==
    /\ pc[p] = "release"
    /\ counter' = IF work[p].failed THEN counter ELSE [counter EXCEPT ![home[p]] = 0]
    /\ Goes(p, "settle")
    /\ UNCHANGED <<home, storage, folder, statusFile, job, pending, work, loadVars,
                   notices, changeVars, faults, historyVars>>

Release(p) ==
    /\ pc[p] = "release"
    /\ counter' = [counter EXCEPT ![home[p]] = 0]
    /\ Goes(p, "settle")
    /\ UNCHANGED <<home, storage, folder, statusFile, job, pending, work, loadVars,
                   notices, changeVars, faults, historyVars>>

----------------------------------------------------------------------------
(* A process ends, by a crash or by process.exit. *)

\* Changes it has made and not told the others.
Untold(p) ==
    IF op[p].step = "none" \/ (op[p].step = "reload" /\ op[p].item # Settings)
    THEN {} ELSE {op[p].item}

\* Variant: the subscription to reloads outlives the process.
DiesListening(p) ==
    /\ Goes(p, "down")
    /\ job' = [job EXCEPT ![p] = "start"]
    /\ pending' = [pending EXCEPT ![p] = None]
    /\ work' = [work EXCEPT ![p] = NoWork]
    /\ loaded' = [loaded EXCEPT ![p] = Nothing]
    /\ seen' = [seen EXCEPT ![p] = 0]
    /\ UNCHANGED hears
    /\ notices' = [notices EXCEPT ![p] = <<>>]
    /\ op' = [op EXCEPT ![p] = NoOp]
    /\ missed' = [q \in Procs |-> IF q = p \/ pc[q] = "down" THEN {}
                                  ELSE missed[q] \cup Untold(p)]
    /\ dropped' = [dropped EXCEPT ![p] = {}]
    /\ late' = late \ {p}
    /\ UNCHANGED <<home, setting, touched>>

Dies(p) ==
    /\ Goes(p, "down")
    /\ job' = [job EXCEPT ![p] = "start"]
    /\ pending' = [pending EXCEPT ![p] = None]
    /\ work' = [work EXCEPT ![p] = NoWork]
    /\ loaded' = [loaded EXCEPT ![p] = Nothing]
    /\ seen' = [seen EXCEPT ![p] = 0]
    /\ hears' = [hears EXCEPT ![p] = FALSE]
    /\ notices' = [notices EXCEPT ![p] = <<>>]
    /\ op' = [op EXCEPT ![p] = NoOp]
    /\ missed' = [q \in Procs |-> IF q = p \/ pc[q] = "down" THEN {}
                                  ELSE missed[q] \cup Untold(p)]
    /\ dropped' = [dropped EXCEPT ![p] = {}]
    /\ late' = late \ {p}
    /\ UNCHANGED <<home, setting, touched>>

\* The removal of the status file fails when the file is not there; that, and a
\* failed sync, end the process.
Settle(p) ==
    /\ pc[p] = "settle"
    /\ statusFile' = [statusFile EXCEPT ![home[p]] = FALSE]
    /\ \/ /\ work[p].failed \/ ~statusFile[home[p]]
          /\ Dies(p)
       \/ /\ ~work[p].failed /\ statusFile[home[p]]
          /\ Goes(p, "read")
          /\ work' = [work EXCEPT ![p] = NoWork]
          /\ UNCHANGED <<home, job, pending, loadVars, notices, changeVars, missed,
                         dropped, late>>
    /\ UNCHANGED <<storage, folder, counter, faults, abandoned>>

----------------------------------------------------------------------------
(* The rest of load, and the start of a process. *)

\* getExtensions
ReadFolder(p) ==
    /\ pc[p] = "read"
    /\ loaded' = [loaded EXCEPT ![p] = folder[home[p]]]
    /\ Goes(p, "settings")
    /\ UNCHANGED <<home, placeVars, job, pending, work, seen, hears, notices, changeVars,
                   faults, historyVars>>

\* getExtensionsSettings
ReadSettings(p) ==
    /\ pc[p] = "settings"
    /\ seen' = [seen EXCEPT ![p] = setting]
    /\ Goes(p, "register")
    /\ UNCHANGED <<home, placeVars, job, pending, work, loaded, hears, notices, changeVars,
                   faults, historyVars>>

\* Who asked for an update waits for its reload.
Done(p) == IF op[p].step = "loading" /\ job[p] = "update"
           THEN op' = [op EXCEPT ![p].step = "tell"] ELSE UNCHANGED op

\* What was read is registered, and the load is over.  A process listens for
\* reloads only once it has loaded.
Register(p) ==
    /\ pc[p] = "register"
    /\ \/ /\ ~hears[p] /\ Goes(p, "idle")
          /\ hears' = [hears EXCEPT ![p] = TRUE]
          /\ UNCHANGED <<job, pending, op>>
       \/ /\ hears[p] /\ NextJob(p) /\ Done(p)
          /\ UNCHANGED hears
    /\ UNCHANGED <<home, placeVars, work, loaded, seen, notices, setting, touched, faults,
                   historyVars>>

\* Variant: a process that starts deletes the counter it finds.
StartClearing(p) ==
    /\ pc[p] = "down"
    /\ Goes(p, "check")
    /\ counter' = [counter EXCEPT ![home[p]] = 0]
    /\ UNCHANGED <<home, storage, folder, statusFile, job, pending, work, loadVars,
                   notices, changeVars, faults, historyVars>>

Start(p) ==
    /\ pc[p] = "down"
    /\ Goes(p, "check")
    /\ UNCHANGED <<home, placeVars, job, pending, work, loadVars, notices, changeVars,
                   faults, historyVars>>

----------------------------------------------------------------------------
(* Changes: an extension is installed or uninstalled, or a setting changes. *)

MayChange(p) ==
    /\ hears[p] /\ op[p].step = "none"
    /\ Cardinality(touched) + setting < MaxChanges

Begins(p, step, item) == op' = [op EXCEPT ![p] = [step |-> step, item |-> item]]
Moves(p, step)        == op' = [op EXCEPT ![p].step = step]

Install(p, e) ==
    /\ MayChange(p) /\ e \notin touched /\ storage[e] = "none"
    /\ storage' = [storage EXCEPT ![e] = "part"]
    /\ touched' = touched \cup {e}
    /\ Begins(p, "upload", e)
    /\ UNCHANGED <<home, folder, statusFile, counter, reloadVars, work, loadVars, notices,
                   setting, faults, historyVars>>

Uninstall(p, e) ==
    /\ MayChange(p) /\ e \notin touched /\ storage[e] = "whole"
    /\ storage' = [storage EXCEPT ![e] = "part"]
    /\ touched' = touched \cup {e}
    /\ Begins(p, "delete", e)
    /\ UNCHANGED <<home, folder, statusFile, counter, reloadVars, work, loadVars, notices,
                   setting, faults, historyVars>>

\* The upload, or the deletion, ends.
StorageDone(p) ==
    LET e == op[p].item IN
    /\ \/ op[p].step = "upload" /\ storage' = [storage EXCEPT ![e] = "whole"]
       \/ op[p].step = "delete" /\ storage' = [storage EXCEPT ![e] = "none"]
    /\ Moves(p, IF op[p].step = "upload" THEN "move" ELSE "unlink")
    /\ UNCHANGED <<home, folder, statusFile, counter, reloadVars, work, loadVars, notices,
                   setting, touched, faults, historyVars>>

\* The process' own folder follows.
FolderDone(p) ==
    /\ op[p].step \in {"move", "unlink"}
    /\ folder' = [folder EXCEPT ![home[p]][op[p].item] =
                    IF op[p].step = "move" THEN "whole" ELSE "none"]
    /\ Moves(p, "tell")
    /\ UNCHANGED <<home, storage, statusFile, counter, reloadVars, work, loadVars, notices,
                   setting, touched, faults, historyVars>>

\* broadcastReloadNotification: the sender ignores its own message.
Tell(p) ==
    LET to     == {q \in Procs \ {p} : hears[q]}
        notice == IF op[p].item = Settings THEN "all" ELSE op[p].item
    IN
    /\ op[p].step = "tell"
    /\ notices' = [q \in Procs |-> IF q \in to THEN Append(notices[q], notice)
                                   ELSE notices[q]]
    /\ missed' = [q \in Procs |-> IF q \in to \cup {p} \/ pc[q] = "down" THEN missed[q]
                                  ELSE missed[q] \cup {op[p].item}]
    /\ IF op[p].item = Settings THEN op' = [op EXCEPT ![p] = NoOp] ELSE Moves(p, "reload")
    /\ UNCHANGED <<home, placeVars, reloadVars, work, loadVars, setting, touched, faults,
                   dropped, late, abandoned>>

\* install and uninstall reload what their own folder holds already.
ReloadOwn(p) ==
    /\ op[p].step = "reload" /\ op[p].item # Settings
    /\ Reload(p, "own")
    /\ op' = [op EXCEPT ![p] = NoOp]
    /\ UNCHANGED <<home, placeVars, work, loadVars, notices, setting, touched, faults,
                   missed, late, abandoned>>

UpdateSetting(p) ==
    /\ MayChange(p)
    /\ setting' = setting + 1
    /\ Begins(p, "reload", Settings)
    /\ UNCHANGED <<home, placeVars, reloadVars, work, loadVars, notices, touched, faults,
                   historyVars>>

\* updateOne tells the others when its reload is over, or was left out.
ReloadUpdate(p) ==
    /\ op[p].step = "reload" /\ op[p].item = Settings
    /\ Reload(p, "update")
    /\ Moves(p, IF pc[p] # "idle" /\ pending[p] # None THEN "tell" ELSE "loading")
    /\ UNCHANGED <<home, placeVars, work, loadVars, notices, setting, touched, faults,
                   missed, late, abandoned>>

Receive(p) ==
    /\ notices[p] # <<>>
    /\ notices' = [notices EXCEPT ![p] = Tail(@)]
    /\ Reload(p, Head(notices[p]))
    /\ UNCHANGED <<home, placeVars, work, loadVars, changeVars, faults, missed, late,
                   abandoned>>

----------------------------------------------------------------------------
(* Faults. *)

Faults == faults < MaxFaults /\ faults' = faults + 1

\* The counter is in Redis and the status file on the disk: both stay.
Crash(p) ==
    /\ pc[p] # "down" /\ Faults
    /\ Dies(p)
    /\ abandoned' = IF Holds(p) THEN abandoned \cup {home[p]} ELSE abandoned
    /\ UNCHANGED placeVars

\* A read of the storage, or its listing, fails.
StorageFails(p) ==
    /\ pc[p] \in {"list", "copy"} /\ Faults
    /\ work' = [work EXCEPT ![p].failed = TRUE]
    /\ Goes(p, "copy")
    /\ UNCHANGED <<home, placeVars, job, pending, loadVars, notices, changeVars,
                   historyVars>>

\* The local copy is kept as it is.
ProbeFails(p) ==
    /\ pc[p] = "probe" /\ Faults
    /\ Goes(p, "publish")
    /\ missed' = [missed EXCEPT ![p] = @ \cup {job[p]}]
    /\ UNCHANGED <<home, placeVars, job, pending, work, loadVars, notices, changeVars,
                   dropped, late, abandoned>>

----------------------------------------------------------------------------
\* Some processes run and are up to date, the others are yet to start.
Init ==
    /\ home \in Layouts
    /\ storage \in [Exts -> {"none", "whole"}] /\ setting = 0
    /\ hears \in [Procs -> BOOLEAN]
    /\ folder = [m \in Machines |-> IF \E p \in Procs : home[p] = m /\ hears[p]
                                    THEN storage ELSE Nothing]
    /\ statusFile = [m \in Machines |-> FALSE]
    /\ counter = [m \in Machines |-> 0]
    /\ pc = [p \in Procs |-> IF hears[p] THEN "idle" ELSE "down"]
    /\ job = [p \in Procs |-> "start"]
    /\ pending = [p \in Procs |-> None]
    /\ work = [p \in Procs |-> NoWork]
    /\ loaded = [p \in Procs |-> IF hears[p] THEN storage ELSE Nothing]
    /\ seen = [p \in Procs |-> 0]
    /\ notices = [p \in Procs |-> <<>>]
    /\ op = [p \in Procs |-> NoOp]
    /\ touched = {} /\ faults = 0
    /\ missed = [p \in Procs |-> {}]
    /\ dropped = [p \in Procs |-> {}]
    /\ late = {} /\ abandoned = {}

SyncStep(p) ==
    \/ Check(p) \/ Count(p) \/ Subscribe(p) \/ Prepare(p) \/ Probe(p) \/ RemoveLocal(p)
    \/ Scan(p) \/ List(p) \/ CopyEnds(p) \/ Clean(p) \/ Publish(p) \/ Release(p)
    \/ Settle(p)
    \/ \E e \in Exts : Fetch(p, e) \/ Store(p, e)

LoadStep(p) == SyncStep(p) \/ ReadFolder(p) \/ ReadSettings(p) \/ Register(p)

ChangeStep(p) ==
    \/ StorageDone(p) \/ FolderDone(p) \/ Tell(p) \/ ReloadOwn(p) \/ ReloadUpdate(p)
    \/ UpdateSetting(p)
    \/ \E e \in Exts : Install(p, e) \/ Uninstall(p, e)

Next == \E p \in Procs :
    \/ LoadStep(p) \/ ChangeStep(p) \/ Receive(p) \/ Start(p)
    \/ Crash(p) \/ StorageFails(p) \/ ProbeFails(p)

Spec == Init /\ [][Next]_vars

----------------------------------------------------------------------------
(* What the synchronisation promises. *)

Steps == {"down", "idle", "check", "count", "subscribe", "wait", "prepare", "probe",
          "remove", "scan", "list", "copy", "clean", "publish", "release", "settle",
          "read", "settings", "register"}

\* Every variable stays within its set of values; the copying of a process is
\* about extensions, and a process that listens is up.
TypeOK ==
    /\ home \in Layouts
    /\ storage \in [Exts -> States] /\ setting \in Nat
    /\ folder \in [Machines -> [Exts -> States]]
    /\ statusFile \in [Machines -> BOOLEAN]
    /\ counter \in [Machines -> Nat]
    /\ pc \in [Procs -> Steps]
    /\ job \in [Procs -> Requests]
    /\ pending \in [Procs -> Requests \cup {None}]
    /\ work \in [Procs -> [listed : [Exts -> States], open : SUBSET Exts,
                            stale : SUBSET Exts, failed : BOOLEAN]]
    /\ loaded \in [Procs -> [Exts -> States]]
    /\ seen \in [Procs -> Nat]
    /\ hears \in [Procs -> BOOLEAN]
    /\ notices \in [Procs -> Seq(Requests)]
    /\ op \in [Procs -> [step : {"none", "upload", "delete", "move", "unlink", "tell",
                                  "reload", "loading"}, item : Items]]
    /\ touched \subseteq Exts /\ faults \in Nat
    /\ missed \in [Procs -> SUBSET Items]
    /\ dropped \in [Procs -> SUBSET Exts]
    /\ late \subseteq Procs /\ abandoned \subseteq Machines
    /\ \A p \in Procs : hears[p] => pc[p] # "down"

\* One process of a machine at a time writes into its folder as the syncer,
\* however many start, reload or die together.
OneSyncer ==
    \A p, q \in Procs : home[p] = home[q] /\ Holds(p) /\ Holds(q) => p = q

Owners == {p \in Procs : Holds(p)}

Lock == INSTANCE MachineLock WITH owners <- Owners, lost <- abandoned

\* The counter is a lock of the machine: one process takes it and gives it back,
\* and a lock whose owner died is lost.  No timeout, restart or later reload
\* takes it again.
ImplementsLock == Lock!Spec

\* A counter that stands has a process that will delete it, unless that process
\* died: only a crash keeps a machine from syncing again.
CounterHasSyncer ==
    \A m \in Machines : counter[m] > 0 /\ m \notin abandoned =>
        \E p \in Procs : home[p] = m /\ Holds(p)

\* A process that waits for the syncer of its machine will be told, unless the
\* syncer died, or told the others before this one had subscribed.
WaiterIsServed ==
    \A p \in Procs : pc[p] = "wait" /\ p \notin late /\ home[p] \notin abandoned =>
        \E q \in Procs : home[q] = home[p] /\ Copies(q)

Alone(p) == \A q \in Procs \ {p} : home[q] # home[p]

Starting == {"check", "count", "subscribe", "wait", "prepare"}
Syncing  == {"probe", "remove", "scan", "list", "copy", "clean", "publish", "release",
             "settle"}

\* In the folder of one process the status file tells that it is being written:
\* it is there for as long as a sync writes, and if it is there otherwise a crash
\* left it, and the load that comes next syncs by force and will remove it.
StatusFileTells ==
    \A p \in Procs : Alone(p) =>
        /\ pc[p] \in Syncing => statusFile[home[p]]
        /\ statusFile[home[p]] => \/ pc[p] \in Syncing \cup {"down"}
                                  \/ pc[p] \in Starting /\ job[p] = "start"

AtRest ==
    \A p \in Procs : /\ pc[p] \in {"idle", "down"}
                     /\ notices[p] = <<>> /\ op[p].step = "none"

\* When all is quiet, a process that shares its folder with no other has loaded
\* every extension of the storage whole, but for those it was not told of and
\* those its reload left out.
InstalledIsLoaded ==
    AtRest => \A p \in Procs : Alone(p) /\ pc[p] = "idle" =>
        \A e \in Exts \ (missed[p] \cup dropped[p]) :
            storage[e] = "whole" => loaded[p][e] = "whole"

\* When all is quiet, every process has the settings of the database, whatever
\* reloads were left out, unless the change came while it started or its author
\* died before telling.
SettingsAreLoaded ==
    AtRest => \A p \in Procs : pc[p] = "idle" /\ Settings \notin missed[p] =>
        seen[p] = setting

\* manager.ts says of a reload it leaves out that the pending job will already
\* handle the additional changes.
PendingHandlesAll ==
    AtRest => \A p \in Procs : Alone(p) /\ pc[p] = "idle" =>
        \A e \in dropped[p] \ missed[p] :
            storage[e] = "whole" => loaded[p][e] = "whole"

=============================================================================
