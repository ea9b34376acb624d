------------------------- MODULE ExtensionSync_proofs -------------------------
(***************************************************************************)
(* Proofs about ExtensionSync, for any number of processes, machines,      *)
(* extensions, changes and faults: its types, that one process of a        *)
(* machine copies, that a counter has its syncer and implements the lock   *)
(* of MachineLock, that waiters are told, and that a change of the         *)
(* settings reaches every process that listens.                            *)
(***************************************************************************)
EXTENDS ExtensionSync, TLAPS

USE ExtensionAssumption

----------------------------------------------------------------------------
(* Types. *)

WorkRecord == [listed : [Exts -> States], open : SUBSET Exts, stale : SUBSET Exts,
               failed : BOOLEAN]
OpRecord == [step : {"none", "upload", "delete", "move", "unlink", "tell", "reload",
                     "loading"}, item : Items]

LEMMA Constants ==
  /\ Nothing \in [Exts -> States] /\ NoWork \in WorkRecord /\ NoOp \in OpRecord
  /\ "start" \in Requests /\ "all" \in Requests /\ "own" \in Requests
  /\ "update" \in Requests /\ None \notin Requests
  /\ Settings \in Items
BY DEF Nothing, NoWork, NoOp, Requests, States, WorkRecord, OpRecord, Items, Settings

LEMMA TypeStart == Init => TypeOK
<1> SUFFICES ASSUME Init PROVE TypeOK
  OBVIOUS
<1>1. storage \in [Exts -> States]
  BY DEF Init, States
<1>2. folder \in [Machines -> [Exts -> States]]
  BY <1>1, Constants DEF Init
<1>3. loaded \in [Procs -> [Exts -> States]]
  BY <1>1, Constants DEF Init
<1>4. pc \in [Procs -> Steps] /\ \A p \in Procs : hears[p] => pc[p] # "down"
  BY DEF Init, Steps
<1>5. op \in [Procs -> OpRecord] /\ work \in [Procs -> WorkRecord]
  BY Constants DEF Init
<1>6. /\ home \in Layouts /\ setting \in Nat
      /\ statusFile \in [Machines -> BOOLEAN] /\ counter \in [Machines -> Nat]
      /\ job \in [Procs -> Requests] /\ pending \in [Procs -> Requests \cup {None}]
      /\ seen \in [Procs -> Nat] /\ hears \in [Procs -> BOOLEAN]
      /\ notices \in [Procs -> Seq(Requests)]
      /\ touched \subseteq Exts /\ faults \in Nat
      /\ missed \in [Procs -> SUBSET Items] /\ dropped \in [Procs -> SUBSET Exts]
      /\ late \subseteq Procs /\ abandoned \subseteq Machines
  BY Constants DEF Init
<1> QED  BY <1>1, <1>2, <1>3, <1>4, <1>5, <1>6 DEF TypeOK, WorkRecord, OpRecord

\* What is known of one process.
LEMMA ProcType ==
  ASSUME TypeOK, NEW p \in Procs
  PROVE  /\ home \in [Procs -> Machines] /\ home[p] \in Machines
         /\ pc[p] \in Steps /\ job[p] \in Requests /\ pending[p] \in Requests \cup {None}
         /\ work[p] \in WorkRecord /\ op[p] \in OpRecord
         /\ notices[p] \in Seq(Requests)
BY DEF TypeOK, WorkRecord, OpRecord

LEMMA Moved ==
  ASSUME TypeOK, NEW p \in Procs, NEW step \in Steps, Goes(p, step)
  PROVE  /\ pc' \in [Procs -> Steps] /\ pc'[p] = step
         /\ \A q \in Procs \ {p} : pc'[q] = pc[q]
BY DEF TypeOK, Goes

----------------------------------------------------------------------------
(* The reload queue. *)

LEMMA ReloadEffect ==
  ASSUME TypeOK, NEW p \in Procs, NEW r \in Requests, Reload(p, r)
  PROVE  /\ pc' \in [Procs -> Steps] /\ job' \in [Procs -> Requests]
         /\ pending' \in [Procs -> Requests \cup {None}]
         /\ dropped' \in [Procs -> SUBSET Exts]
         /\ \A q \in Procs \ {p} : pc'[q] = pc[q] /\ pending'[q] = pending[q]
         /\ \/ pc[p] = "idle" /\ pc'[p] = "check" /\ pending'[p] = pending[p]
            \/ pc[p] # "idle" /\ pc'[p] = pc[p] /\ pending'[p] # None
<1>1. CASE pc[p] = "idle"
  <2>1. Goes(p, "check") /\ job' = [job EXCEPT ![p] = r] /\ UNCHANGED <<pending, dropped>>
    BY <1>1 DEF Reload
  <2>2. "check" \in Steps
    BY DEF Steps
  <2> QED  BY <1>1, <2>1, <2>2, Moved DEF TypeOK
<1>2. CASE pc[p] # "idle" /\ pending[p] = None
  <2>1. pending' = [pending EXCEPT ![p] = r] /\ UNCHANGED <<pc, job, dropped>>
    BY <1>2 DEF Reload
  <2> QED  BY <1>2, <2>1, Constants DEF TypeOK
<1>3. CASE pc[p] # "idle" /\ pending[p] # None
  <2>1. /\ dropped' = [dropped EXCEPT ![p] = @ \cup ({r} \cap Exts)]
        /\ UNCHANGED reloadVars
    BY <1>3 DEF Reload
  <2> QED  BY <1>3, <2>1 DEF TypeOK, reloadVars
<1> QED  BY <1>1, <1>2, <1>3

LEMMA NextJobEffect ==
  ASSUME TypeOK, NEW p \in Procs, NextJob(p)
  PROVE  /\ pc' \in [Procs -> Steps] /\ job' \in [Procs -> Requests]
         /\ pending' \in [Procs -> Requests \cup {None}]
         /\ \A q \in Procs \ {p} : pc'[q] = pc[q] /\ pending'[q] = pending[q]
         /\ pending'[p] = None
         /\ \/ pending[p] = None /\ pc'[p] = "idle"
            \/ pending[p] # None /\ pc'[p] = "check"
<1>1. "idle" \in Steps /\ "check" \in Steps
  BY DEF Steps
<1>2. CASE pending[p] = None
  <2>1. /\ Goes(p, "idle") /\ job' = [job EXCEPT ![p] = "start"]
        /\ UNCHANGED pending
    BY <1>2 DEF NextJob
  <2>2. pc' \in [Procs -> Steps] /\ pc'[p] = "idle" /\ \A q \in Procs \ {p} : pc'[q] = pc[q]
    BY <1>1, <2>1, Moved
  <2> QED  BY <1>2, <2>1, <2>2, Constants DEF TypeOK
<1>3. CASE pending[p] # None
  <2>1. /\ Goes(p, "check") /\ job' = [job EXCEPT ![p] = pending[p]]
        /\ pending' = [pending EXCEPT ![p] = None]
    BY <1>3 DEF NextJob
  <2>2. pending[p] \in Requests
    BY <1>3, ProcType
  <2>3. pc' \in [Procs -> Steps] /\ pc'[p] = "check" /\ \A q \in Procs \ {p} : pc'[q] = pc[q]
    BY <1>1, <2>1, Moved
  <2> QED  BY <1>3, <2>1, <2>2, <2>3 DEF TypeOK
<1> QED  BY <1>2, <1>3

\* A process that ends leaves nothing of its own behind.
LEMMA DiesEffect ==
  ASSUME TypeOK, NEW p \in Procs, Dies(p)
  PROVE  /\ pc' \in [Procs -> Steps] /\ pc'[p] = "down" /\ ~hears'[p]
         /\ job' \in [Procs -> Requests] /\ pending' \in [Procs -> Requests \cup {None}]
         /\ work' \in [Procs -> WorkRecord] /\ loaded' \in [Procs -> [Exts -> States]]
         /\ seen' \in [Procs -> Nat] /\ hears' \in [Procs -> BOOLEAN]
         /\ notices' \in [Procs -> Seq(Requests)] /\ op' \in [Procs -> OpRecord]
         /\ missed' \in [Procs -> SUBSET Items] /\ dropped' \in [Procs -> SUBSET Exts]
         /\ late' \subseteq Procs
         /\ pending'[p] = None /\ notices'[p] = <<>> /\ op'[p] = NoOp
         /\ \A q \in Procs \ {p} :
              /\ pc'[q] = pc[q] /\ pending'[q] = pending[q] /\ notices'[q] = notices[q]
              /\ hears'[q] = hears[q] /\ op'[q] = op[q] /\ seen'[q] = seen[q]
<1>1. "down" \in Steps /\ Goes(p, "down")
  BY DEF Steps, Dies
<1>2. pc' \in [Procs -> Steps] /\ pc'[p] = "down" /\ \A q \in Procs \ {p} : pc'[q] = pc[q]
  BY <1>1, Moved
<1>3. Untold(p) \subseteq Items
  BY ProcType DEF Untold, OpRecord
<1>4. missed' \in [Procs -> SUBSET Items]
  BY <1>3 DEF Dies, TypeOK
<1>5. /\ work' \in [Procs -> WorkRecord] /\ op' \in [Procs -> OpRecord]
      /\ op'[p] = NoOp /\ \A q \in Procs \ {p} : op'[q] = op[q]
  BY Constants DEF Dies, TypeOK, WorkRecord, OpRecord
<1>6. /\ job' \in [Procs -> Requests] /\ pending' \in [Procs -> Requests \cup {None}]
      /\ pending'[p] = None /\ \A q \in Procs \ {p} : pending'[q] = pending[q]
  BY Constants DEF Dies, TypeOK
<1>7. /\ loaded' \in [Procs -> [Exts -> States]]
      /\ seen' \in [Procs -> Nat] /\ hears' \in [Procs -> BOOLEAN] /\ ~hears'[p]
      /\ \A q \in Procs \ {p} : hears'[q] = hears[q] /\ seen'[q] = seen[q]
  BY Constants DEF Dies, TypeOK
<1>8. /\ notices' \in [Procs -> Seq(Requests)] /\ notices'[p] = <<>>
      /\ \A q \in Procs \ {p} : notices'[q] = notices[q]
  BY DEF Dies, TypeOK
<1>9. dropped' \in [Procs -> SUBSET Exts] /\ late' \subseteq Procs
  BY DEF Dies, TypeOK
<1> QED  BY <1>2, <1>4, <1>5, <1>6, <1>7, <1>8, <1>9

----------------------------------------------------------------------------
(* Every step keeps the types. *)

\* Only a sync of one extension probes the storage for it.
ProbesOne == \A p \in Procs : pc[p] \in {"probe", "remove"} => job[p] \in Exts

LEMMA TypeOfCounting ==
  ASSUME TypeOK, NEW p \in Procs,
         Check(p) \/ Count(p) \/ Subscribe(p) \/ Prepare(p) \/ Publish(p) \/ Release(p)
  PROVE  TypeOK'
<1>1. ASSUME Check(p) PROVE TypeOK'
  <2>1. PICK step \in Steps : Goes(p, step)
    BY <1>1 DEF Check, Steps
  <2>2. pc' \in [Procs -> Steps] /\ \A q \in Procs : hears[q] => pc'[q] # "down"
    BY <1>1, <2>1, Moved DEF Check, TypeOK, Goes
  <2> QED  BY <1>1, <2>2 DEF Check, TypeOK, placeVars, loadVars, changeVars, historyVars
<1>2. ASSUME Count(p) PROVE TypeOK'
  <2>1. counter' \in [Machines -> Nat]
    BY <1>2, ProcType DEF Count, TypeOK
  <2>2. pc' \in [Procs -> Steps] /\ \A q \in Procs : hears[q] => pc'[q] # "down"
    BY <1>2, Moved DEF Count, TypeOK, Goes, Steps
  <2> QED  BY <1>2, <2>1, <2>2 DEF Count, TypeOK, loadVars, changeVars, historyVars
<1>3. ASSUME Subscribe(p) PROVE TypeOK'
  <2>1. pc' \in [Procs -> Steps] /\ \A q \in Procs : hears[q] => pc'[q] # "down"
    BY <1>3, Moved DEF Subscribe, TypeOK, Goes, Steps
  <2>2. late' \subseteq Procs
    BY <1>3 DEF Subscribe, TypeOK
  <2> QED  BY <1>3, <2>1, <2>2 DEF Subscribe, TypeOK, placeVars, loadVars, changeVars
<1>4. ASSUME Prepare(p) PROVE TypeOK'
  <2>1. pc' \in [Procs -> Steps] /\ \A q \in Procs : hears[q] => pc'[q] # "down"
    BY <1>4, Moved DEF Prepare, TypeOK, Goes, Steps
  <2>2. statusFile' \in [Machines -> BOOLEAN]
    BY <1>4, ProcType DEF Prepare, TypeOK
  <2> QED  BY <1>4, <2>1, <2>2 DEF Prepare, TypeOK, loadVars, changeVars, historyVars
<1>5. ASSUME Publish(p) PROVE TypeOK'
  <2>1. pc' \in [Procs -> Steps] /\ \A q \in Procs : hears[q] => pc'[q] # "down"
    <3>1. pc' = [q \in Procs |-> IF q = p THEN "release"
                                ELSE IF q \in {r \in Procs : /\ home[r] = home[p]
                                                             /\ pc[r] = "wait"}
                                     THEN "read" ELSE pc[q]]
      BY <1>5 DEF Publish
    <3>2. /\ "release" \in Steps /\ "read" \in Steps
          /\ \A q \in Procs : pc[q] \in Steps /\ (hears[q] => pc[q] # "down")
      BY DEF Steps, TypeOK
    <3> QED  BY <3>1, <3>2
  <2>2. late' \subseteq Procs
    BY <1>5 DEF Publish, TypeOK
  <2> QED  BY <1>5, <2>1, <2>2 DEF Publish, TypeOK, placeVars, loadVars, changeVars
<1>6. ASSUME Release(p) PROVE TypeOK'
  <2>1. pc' \in [Procs -> Steps] /\ \A q \in Procs : hears[q] => pc'[q] # "down"
    BY <1>6, Moved DEF Release, TypeOK, Goes, Steps
  <2>2. counter' \in [Machines -> Nat]
    BY <1>6, ProcType DEF Release, TypeOK
  <2> QED  BY <1>6, <2>1, <2>2 DEF Release, TypeOK, loadVars, changeVars, historyVars
<1> QED  BY <1>1, <1>2, <1>3, <1>4, <1>5, <1>6

LEMMA TypeOfCopying ==
  ASSUME TypeOK, NEW p \in Procs,
         \/ Probe(p) \/ RemoveLocal(p) \/ Scan(p) \/ List(p) \/ CopyEnds(p) \/ Clean(p)
         \/ \E e \in Exts : Fetch(p, e) \/ Store(p, e)
  PROVE  TypeOK'
<1>0. /\ home \in [Procs -> Machines] /\ home[p] \in Machines
      /\ work \in [Procs -> WorkRecord] /\ work[p] \in WorkRecord
      /\ folder \in [Machines -> [Exts -> States]] /\ storage \in [Exts -> States]
  BY ProcType DEF TypeOK, WorkRecord
<1>1. ASSUME Probe(p) PROVE TypeOK'
  <2>1. PICK step \in Steps \ {"down"} : Goes(p, step)
    BY <1>1 DEF Probe, Steps
  <2>2. pc' \in [Procs -> Steps] /\ \A q \in Procs : hears[q] => pc'[q] # "down"
    BY <2>1, Moved DEF TypeOK
  <2> QED  BY <1>1, <2>2 DEF Probe, TypeOK, placeVars, loadVars, changeVars, historyVars
<1>2. ASSUME RemoveLocal(p) PROVE TypeOK'
  <2>1. pc' \in [Procs -> Steps] /\ \A q \in Procs : hears[q] => pc'[q] # "down"
    BY <1>2, Moved DEF RemoveLocal, TypeOK, Goes, Steps
  <2>2. folder' \in [Machines -> [Exts -> States]]
    BY <1>0, <1>2 DEF RemoveLocal, States
  <2> QED  BY <1>2, <2>1, <2>2 DEF RemoveLocal, TypeOK, loadVars, changeVars, historyVars
<1>3. ASSUME Scan(p) PROVE TypeOK'
  <2>1. pc' \in [Procs -> Steps] /\ \A q \in Procs : hears[q] => pc'[q] # "down"
    BY <1>3, Moved DEF Scan, TypeOK, Goes, Steps
  <2>2. {e \in Scope(job[p]) : folder[home[p]][e] # "none"} \subseteq Exts
    BY DEF Scope
  <2>3. work' \in [Procs -> WorkRecord]
    BY <1>0, <1>3, <2>2 DEF Scan, WorkRecord
  <2> QED  BY <1>3, <2>1, <2>3 DEF Scan, TypeOK, WorkRecord, placeVars, loadVars,
                                   changeVars, historyVars
<1>4. ASSUME List(p) PROVE TypeOK'
  <2>1. pc' \in [Procs -> Steps] /\ \A q \in Procs : hears[q] => pc'[q] # "down"
    BY <1>4, Moved DEF List, TypeOK, Goes, Steps
  <2>2. [e \in Exts |-> IF e \in Scope(job[p]) THEN storage[e] ELSE "none"]
          \in [Exts -> States]
    BY <1>0 DEF States
  <2>3. {e \in work[p].stale : storage[e] = "none"} \subseteq Exts
    BY <1>0 DEF WorkRecord
  <2>4. work' \in [Procs -> WorkRecord]
    BY <1>0, <1>4, <2>2, <2>3 DEF List, WorkRecord
  <2> QED  BY <1>4, <2>1, <2>4 DEF List, TypeOK, WorkRecord, placeVars, loadVars,
                                   changeVars, historyVars
<1>5. ASSUME CopyEnds(p) PROVE TypeOK'
  <2>1. PICK step \in Steps \ {"down"} : Goes(p, step)
    BY <1>5 DEF CopyEnds, Steps
  <2>2. pc' \in [Procs -> Steps] /\ \A q \in Procs : hears[q] => pc'[q] # "down"
    BY <2>1, Moved DEF TypeOK
  <2> QED  BY <1>5, <2>2 DEF CopyEnds, TypeOK, placeVars, loadVars, changeVars, historyVars
<1>6. ASSUME Clean(p) PROVE TypeOK'
  <2>1. pc' \in [Procs -> Steps] /\ \A q \in Procs : hears[q] => pc'[q] # "down"
    BY <1>6, Moved DEF Clean, TypeOK, Goes, Steps
  <2>2. \A left \in States :
          [e \in Exts |-> IF e \in work[p].stale THEN left ELSE folder[home[p]][e]]
            \in [Exts -> States]
    BY <1>0
  <2>3. (IF job[p] \in Exts THEN "part" ELSE "none") \in States
    BY DEF States
  <2>4. folder' \in [Machines -> [Exts -> States]]
    BY <1>0, <1>6, <2>2, <2>3 DEF Clean
  <2> QED  BY <1>6, <2>1, <2>4 DEF Clean, TypeOK, loadVars, changeVars, historyVars
<1>7. ASSUME NEW e \in Exts, Fetch(p, e) PROVE TypeOK'
  <2>1. work' \in [Procs -> WorkRecord] /\ folder' \in [Machines -> [Exts -> States]]
    <3>1. CASE Open(p, e)
      BY <1>0, <3>1 DEF Open, WorkRecord, States
    <3>2. CASE Skip(p, e)
      BY <1>0, <3>2 DEF Skip, WorkRecord, States
    <3>3. CASE Fail(p, e)
      BY <1>0, <3>3 DEF Fail, WorkRecord
    <3> QED  BY <1>7, <3>1, <3>2, <3>3 DEF Fetch
  <2> QED  BY <1>7, <2>1 DEF Fetch, TypeOK, WorkRecord, reloadVars, loadVars, changeVars,
                             historyVars
<1>8. ASSUME NEW e \in Exts, Store(p, e) PROVE TypeOK'
  <2>1. work' \in [Procs -> WorkRecord] /\ folder' \in [Machines -> [Exts -> States]]
    <3>1. CASE Save(p, e)
      <4>1. work' \in [Procs -> WorkRecord]
        BY <1>0, <3>1 DEF Save, WorkRecord, States
      <4>2. folder' \in [Machines -> [Exts -> States]]
        BY <1>0, <3>1 DEF Save, States
      <4> QED  BY <4>1, <4>2
    <3>2. CASE Break(p, e)
      BY <1>0, <3>2 DEF Break, WorkRecord
    <3> QED  BY <1>8, <3>1, <3>2 DEF Store
  <2> QED  BY <1>8, <2>1 DEF Store, TypeOK, WorkRecord, reloadVars, loadVars, changeVars,
                             historyVars
<1> QED  BY <1>1, <1>2, <1>3, <1>4, <1>5, <1>6, <1>7, <1>8

LEMMA TypeOfLoading ==
  ASSUME TypeOK, ProbesOne, NEW p \in Procs,
         \/ Settle(p) \/ ReadFolder(p) \/ ReadSettings(p) \/ Register(p) \/ Start(p)
         \/ Crash(p) \/ StorageFails(p) \/ ProbeFails(p)
  PROVE  TypeOK'
<1>0. /\ home \in [Procs -> Machines] /\ home[p] \in Machines
      /\ work \in [Procs -> WorkRecord] /\ work[p] \in WorkRecord
  BY ProcType DEF TypeOK, WorkRecord
<1>d. ASSUME Dies(p)
      PROVE  \A q \in Procs : hears'[q] => pc'[q] # "down"
  <2>1. /\ ~hears'[p]
        /\ \A q \in Procs \ {p} : pc'[q] = pc[q] /\ hears'[q] = hears[q]
    BY <1>d, DiesEffect
  <2>2. \A q \in Procs : hears[q] => pc[q] # "down"
    BY DEF TypeOK
  <2> QED  BY <2>1, <2>2
<1>1. ASSUME Settle(p) PROVE TypeOK'
  <2>1. statusFile' \in [Machines -> BOOLEAN]
    BY <1>1, <1>0 DEF Settle, TypeOK
  <2>2. CASE Dies(p)
    BY <1>1, <1>d, <2>1, <2>2, DiesEffect DEF Settle, Dies, TypeOK, WorkRecord, OpRecord
  <2>3. CASE /\ Goes(p, "read") /\ work' = [work EXCEPT ![p] = NoWork]
             /\ UNCHANGED <<home, job, pending, loadVars, notices, changeVars, missed,
                            dropped, late>>
    <3>1. pc' \in [Procs -> Steps] /\ \A q \in Procs : hears[q] => pc'[q] # "down"
      BY <2>3, Moved DEF TypeOK, Goes, Steps
    <3>2. work' \in [Procs -> WorkRecord]
      BY <1>0, <2>3, Constants
    <3> QED  BY <1>1, <2>1, <2>3, <3>1, <3>2
             DEF Settle, TypeOK, WorkRecord, loadVars, changeVars
  <2> QED  BY <1>1, <2>2, <2>3 DEF Settle
<1>2. ASSUME ReadFolder(p) PROVE TypeOK'
  <2>1. pc' \in [Procs -> Steps] /\ \A q \in Procs : hears[q] => pc'[q] # "down"
    BY <1>2, Moved DEF ReadFolder, TypeOK, Goes, Steps
  <2>2. loaded' \in [Procs -> [Exts -> States]]
    BY <1>2, <1>0 DEF ReadFolder, TypeOK
  <2> QED  BY <1>2, <2>1, <2>2 DEF ReadFolder, TypeOK, placeVars, changeVars, historyVars
<1>3. ASSUME ReadSettings(p) PROVE TypeOK'
  <2>1. pc' \in [Procs -> Steps] /\ \A q \in Procs : hears[q] => pc'[q] # "down"
    BY <1>3, Moved DEF ReadSettings, TypeOK, Goes, Steps
  <2>2. seen' \in [Procs -> Nat]
    BY <1>3 DEF ReadSettings, TypeOK
  <2> QED  BY <1>3, <2>1, <2>2 DEF ReadSettings, TypeOK, placeVars, changeVars, historyVars
<1>4. ASSUME Register(p) PROVE TypeOK'
  <2>1. CASE /\ Goes(p, "idle") /\ hears' = [hears EXCEPT ![p] = TRUE]
             /\ UNCHANGED <<job, pending, op>>
    <3>1. pc' \in [Procs -> Steps] /\ \A q \in Procs : hears'[q] => pc'[q] # "down"
      BY <2>1, Moved DEF TypeOK, Goes, Steps
    <3> QED  BY <1>4, <2>1, <3>1 DEF Register, TypeOK, placeVars, historyVars
  <2>2. CASE NextJob(p) /\ Done(p) /\ UNCHANGED hears
    <3>1. \A q \in Procs : hears'[q] => pc'[q] # "down"
      BY <2>2, NextJobEffect DEF TypeOK
    <3>2. op' \in [Procs -> OpRecord]
      <4>1. op \in [Procs -> OpRecord]
        BY DEF TypeOK, OpRecord
      <4>2. [op[p] EXCEPT !.step = "tell"] \in OpRecord
        BY <4>1 DEF OpRecord
      <4>3. op' = op \/ op' = [op EXCEPT ![p] = [op[p] EXCEPT !.step = "tell"]]
        BY <2>2 DEF Done
      <4> QED  BY <4>1, <4>2, <4>3
    <3> QED  BY <1>4, <2>2, <3>1, <3>2, NextJobEffect
             DEF Register, TypeOK, OpRecord, placeVars, historyVars
  <2> QED  BY <1>4, <2>1, <2>2 DEF Register
<1>5. ASSUME Start(p) PROVE TypeOK'
  <2>1. pc' \in [Procs -> Steps] /\ \A q \in Procs : hears[q] => pc'[q] # "down"
    BY <1>5, Moved DEF Start, TypeOK, Goes, Steps
  <2> QED  BY <1>5, <2>1 DEF Start, TypeOK, placeVars, loadVars, changeVars, historyVars
<1>6. ASSUME Crash(p) PROVE TypeOK'
  <2>1. abandoned' \subseteq Machines /\ faults' \in Nat
    BY <1>6, <1>0 DEF Crash, Faults, TypeOK
  <2> QED  BY <1>6, <1>d, <2>1, DiesEffect
           DEF Crash, Dies, TypeOK, WorkRecord, OpRecord, placeVars
<1>7. ASSUME StorageFails(p) PROVE TypeOK'
  <2>1. pc' \in [Procs -> Steps] /\ \A q \in Procs : hears[q] => pc'[q] # "down"
    BY <1>7, Moved DEF StorageFails, TypeOK, Goes, Steps
  <2>2. work' \in [Procs -> WorkRecord] /\ faults' \in Nat
    <3>1. [work[p] EXCEPT !.failed = TRUE] \in WorkRecord
      BY <1>0 DEF WorkRecord
    <3>2. work' = [work EXCEPT ![p] = [work[p] EXCEPT !.failed = TRUE]]
      BY <1>7 DEF StorageFails
    <3>3. faults' \in Nat
      BY <1>7 DEF StorageFails, Faults, TypeOK
    <3> QED  BY <1>0, <3>1, <3>2, <3>3
  <2> QED  BY <1>7, <2>1, <2>2 DEF StorageFails, TypeOK, WorkRecord, placeVars, loadVars,
                                   changeVars, historyVars
<1>8. ASSUME ProbeFails(p) PROVE TypeOK'
  <2>1. pc' \in [Procs -> Steps] /\ \A q \in Procs : hears[q] => pc'[q] # "down"
    BY <1>8, Moved DEF ProbeFails, TypeOK, Goes, Steps
  <2>2. faults' \in Nat
    BY <1>8 DEF ProbeFails, Faults, TypeOK
  <2>3. {job[p]} \subseteq Items
    BY <1>8 DEF ProbeFails, ProbesOne, Items
  <2>4. missed' \in [Procs -> SUBSET Items]
    BY <1>8, <2>3 DEF ProbeFails, TypeOK
  <2> QED  BY <1>8, <2>1, <2>2, <2>4 DEF ProbeFails, TypeOK, placeVars, loadVars, changeVars
<1> QED  BY <1>1, <1>2, <1>3, <1>4, <1>5, <1>6, <1>7, <1>8

LEMMA TypeOfChanges ==
  ASSUME TypeOK, NEW p \in Procs, ChangeStep(p) \/ Receive(p)
  PROVE  TypeOK'
<1>0. /\ home \in [Procs -> Machines] /\ home[p] \in Machines
      /\ op \in [Procs -> OpRecord] /\ op[p] \in OpRecord
      /\ folder \in [Machines -> [Exts -> States]] /\ storage \in [Exts -> States]
  BY ProcType DEF TypeOK, OpRecord
<1>b. ASSUME NEW step \in {"upload", "delete", "reload"}, NEW item \in Items,
             Begins(p, step, item)
      PROVE  op' \in [Procs -> OpRecord]
  <2>1. [step |-> step, item |-> item] \in OpRecord
    BY DEF OpRecord
  <2> QED  BY <1>0, <1>b, <2>1 DEF Begins
<1>m. ASSUME NEW step \in {"move", "unlink", "tell", "reload", "loading"}, Moves(p, step)
      PROVE  op' \in [Procs -> OpRecord]
  <2>1. [op[p] EXCEPT !.step = step] \in OpRecord
    BY <1>0 DEF OpRecord
  <2>2. op' = [op EXCEPT ![p] = [op[p] EXCEPT !.step = step]]
    BY <1>m DEF Moves
  <2> QED  BY <1>0, <2>1, <2>2
<1>1. ASSUME NEW e \in Exts, Install(p, e) \/ Uninstall(p, e) PROVE TypeOK'
  <2>1. op' \in [Procs -> OpRecord]
    BY <1>1, <1>b DEF Install, Uninstall, Items
  <2>2. storage' \in [Exts -> States] /\ touched' \subseteq Exts
    <3>1. storage' = [storage EXCEPT ![e] = "part"] /\ touched' = touched \cup {e}
      BY <1>1 DEF Install, Uninstall
    <3>2. "part" \in States /\ touched \subseteq Exts
      BY DEF States, TypeOK
    <3> QED  BY <1>0, <3>1, <3>2
  <2>3. UNCHANGED <<home, folder, statusFile, counter, reloadVars, work, loadVars, notices,
                    setting, faults, historyVars>>
    BY <1>1 DEF Install, Uninstall
  <2> QED  BY <2>1, <2>2, <2>3 DEF TypeOK, OpRecord, reloadVars, loadVars, historyVars
<1>2. ASSUME StorageDone(p) PROVE TypeOK'
  <2>1. op' \in [Procs -> OpRecord]
    <3>1. CASE op[p].step = "upload"
      BY <1>2, <1>m, <3>1 DEF StorageDone
    <3>2. CASE op[p].step # "upload"
      BY <1>2, <1>m, <3>2 DEF StorageDone
    <3> QED  BY <3>1, <3>2
  <2>2. storage' \in [Exts -> States]
    BY <1>0, <1>2 DEF StorageDone, States
  <2> QED  BY <1>2, <2>1, <2>2 DEF StorageDone, TypeOK, OpRecord, reloadVars, loadVars,
                                   historyVars
<1>3. ASSUME FolderDone(p) PROVE TypeOK'
  <2>1. op' \in [Procs -> OpRecord]
    BY <1>3, <1>m DEF FolderDone
  <2>2. folder' \in [Machines -> [Exts -> States]]
    BY <1>0, <1>3 DEF FolderDone, States
  <2> QED  BY <1>3, <2>1, <2>2 DEF FolderDone, TypeOK, OpRecord, reloadVars, loadVars,
                                   historyVars
<1>4. ASSUME Tell(p) PROVE TypeOK'
  <2> DEFINE notice == IF op[p].item = Settings THEN "all" ELSE op[p].item
  <2>1. notice \in Requests /\ {op[p].item} \subseteq Items
    BY <1>0, Constants DEF OpRecord, Items, Requests
  <2> HIDE DEF notice
  <2>2. notices' \in [Procs -> Seq(Requests)]
    <3>1. notices' = [q \in Procs |-> IF q \in {r \in Procs \ {p} : hears[r]}
                                      THEN Append(notices[q], notice) ELSE notices[q]]
      BY <1>4 DEF Tell, notice
    <3>2. \A q \in Procs : Append(notices[q], notice) \in Seq(Requests)
      BY <2>1, ProcType
    <3> QED  BY <3>1, <3>2, ProcType
  <2>3. missed' \in [Procs -> SUBSET Items]
    BY <1>4, <2>1 DEF Tell, TypeOK
  <2>4. op' \in [Procs -> OpRecord]
    BY <1>0, <1>4, <1>m, Constants DEF Tell
  <2> QED  BY <1>4, <2>2, <2>3, <2>4 DEF Tell, TypeOK, OpRecord, placeVars, reloadVars,
                                         loadVars
<1>5. ASSUME ReloadOwn(p) PROVE TypeOK'
  <2>1. op' \in [Procs -> OpRecord]
    BY <1>0, <1>5, Constants DEF ReloadOwn
  <2>2. /\ pc' \in [Procs -> Steps] /\ job' \in [Procs -> Requests]
        /\ pending' \in [Procs -> Requests \cup {None}]
        /\ dropped' \in [Procs -> SUBSET Exts]
        /\ \A q \in Procs : hears[q] => pc'[q] # "down"
    BY <1>5, ReloadEffect, Constants DEF ReloadOwn, TypeOK
  <2> QED  BY <1>5, <2>1, <2>2 DEF ReloadOwn, TypeOK, OpRecord, placeVars, loadVars
<1>6. ASSUME UpdateSetting(p) PROVE TypeOK'
  <2>1. op' \in [Procs -> OpRecord]
    BY <1>6, <1>b, Constants DEF UpdateSetting
  <2> QED  BY <1>6, <2>1 DEF UpdateSetting, TypeOK, OpRecord, placeVars, reloadVars,
                             loadVars, historyVars
<1>7. ASSUME ReloadUpdate(p) PROVE TypeOK'
  <2>1. op' \in [Procs -> OpRecord]
    <3>1. CASE pc[p] # "idle" /\ pending[p] # None
      BY <1>7, <1>m, <3>1 DEF ReloadUpdate
    <3>2. CASE ~(pc[p] # "idle" /\ pending[p] # None)
      BY <1>7, <1>m, <3>2 DEF ReloadUpdate
    <3> QED  BY <3>1, <3>2
  <2>2. /\ pc' \in [Procs -> Steps] /\ job' \in [Procs -> Requests]
        /\ pending' \in [Procs -> Requests \cup {None}]
        /\ dropped' \in [Procs -> SUBSET Exts]
        /\ \A q \in Procs : hears[q] => pc'[q] # "down"
    BY <1>7, ReloadEffect, Constants DEF ReloadUpdate, TypeOK
  <2> QED  BY <1>7, <2>1, <2>2 DEF ReloadUpdate, TypeOK, OpRecord, placeVars, loadVars
<1>8. ASSUME Receive(p) PROVE TypeOK'
  <2>1. Head(notices[p]) \in Requests /\ Tail(notices[p]) \in Seq(Requests)
    BY <1>8, ProcType DEF Receive
  <2>2. notices' \in [Procs -> Seq(Requests)]
    BY <1>8, <2>1 DEF Receive, TypeOK
  <2>3. /\ pc' \in [Procs -> Steps] /\ job' \in [Procs -> Requests]
        /\ pending' \in [Procs -> Requests \cup {None}]
        /\ dropped' \in [Procs -> SUBSET Exts]
        /\ \A q \in Procs : hears[q] => pc'[q] # "down"
    BY <1>8, <2>1, ReloadEffect DEF Receive, TypeOK
  <2> QED  BY <1>8, <2>2, <2>3 DEF Receive, TypeOK, placeVars, loadVars, changeVars
<1> QED  BY <1>1, <1>2, <1>3, <1>4, <1>5, <1>6, <1>7, <1>8 DEF ChangeStep

LEMMA TypeStep ==
  ASSUME TypeOK, ProbesOne, [Next]_vars
  PROVE  TypeOK'
<1>1. CASE UNCHANGED vars
  BY <1>1 DEF TypeOK, vars, placeVars, reloadVars, loadVars, changeVars, historyVars
<1>2. ASSUME NEW p \in Procs,
             \/ LoadStep(p) \/ ChangeStep(p) \/ Receive(p) \/ Start(p)
             \/ Crash(p) \/ StorageFails(p) \/ ProbeFails(p)
      PROVE  TypeOK'
  BY <1>2, TypeOfCounting, TypeOfCopying, TypeOfLoading, TypeOfChanges
     DEF LoadStep, SyncStep
<1> QED  BY <1>1, <1>2 DEF Next

LEMMA ProbesOneStep ==
  ASSUME TypeOK, ProbesOne, [Next]_vars
  PROVE  ProbesOne'
<1>0. SUFFICES ASSUME NEW q \in Procs, pc'[q] \in {"probe", "remove"}
               PROVE  job'[q] \in Exts
  BY DEF ProbesOne
<1>1. CASE pc'[q] = pc[q] /\ job'[q] = job[q]
  BY <1>0, <1>1 DEF ProbesOne
<1>2. CASE UNCHANGED vars
  BY <1>1, <1>2 DEF vars, reloadVars
<1>3. ASSUME NEW p \in Procs, ChangeStep(p) \/ Receive(p)
      PROVE  pc'[q] = "check" \/ (pc'[q] = pc[q] /\ job'[q] = job[q])
  <2>1. \A r : Reload(p, r) => pc'[q] = "check" \/ (pc'[q] = pc[q] /\ job'[q] = job[q])
    BY DEF Reload, Goes, reloadVars, TypeOK
  <2> QED  BY <1>3, <2>1 DEF ChangeStep, Receive, ReloadOwn, ReloadUpdate, StorageDone,
                             FolderDone, Tell, UpdateSetting, Install, Uninstall, reloadVars
<1>4. ASSUME NEW p \in Procs, SyncStep(p) \/ ReadFolder(p) \/ ReadSettings(p) \/ Start(p)
                              \/ StorageFails(p) \/ ProbeFails(p)
      PROVE  job'[q] \in Exts
  <2>1. CASE Settle(p)
    BY <1>0, <1>1, <2>1, DiesEffect DEF Settle, Dies, Goes, TypeOK
  <2>2. CASE Check(p) \/ Count(p) \/ Subscribe(p) \/ Prepare(p) \/ Probe(p)
             \/ RemoveLocal(p) \/ Scan(p) \/ List(p)
    <3>1. /\ job' = job /\ \A r \in Procs \ {p} : pc'[r] = pc[r]
          /\ pc'[p] \in {"probe", "remove"} => job[p] \in Exts
      BY <2>2 DEF Check, Count, Subscribe, Prepare, Probe, RemoveLocal, Scan, List, Goes,
                  TypeOK, ProbesOne
    <3> QED  BY <1>0, <3>1 DEF ProbesOne
  <2>3. CASE CopyEnds(p) \/ Clean(p) \/ Publish(p) \/ Release(p)
             \/ \E e \in Exts : Fetch(p, e) \/ Store(p, e)
    <3>1. job' = job /\ (pc'[q] = pc[q] \/ pc'[q] \notin {"probe", "remove"})
      BY <2>3 DEF CopyEnds, Clean, Publish, Release, Fetch, Store, Goes, TypeOK, reloadVars
    <3> QED  BY <1>0, <1>1, <3>1
  <2>4. CASE ReadFolder(p) \/ ReadSettings(p) \/ Start(p) \/ StorageFails(p) \/ ProbeFails(p)
    <3>1. job' = job /\ (pc'[q] = pc[q] \/ pc'[q] \notin {"probe", "remove"})
      BY <2>4 DEF ReadFolder, ReadSettings, Start, StorageFails, ProbeFails, Goes, TypeOK
    <3> QED  BY <1>0, <1>1, <3>1
  <2> QED  BY <1>4, <2>1, <2>2, <2>3, <2>4 DEF SyncStep
<1>5. ASSUME NEW p \in Procs, Register(p) \/ Crash(p)
      PROVE  job'[q] \in Exts
  <2>1. CASE Crash(p)
    BY <1>0, <1>1, <2>1 DEF Crash, Dies, Goes, TypeOK
  <2>2. CASE Register(p)
    BY <1>0, <1>1, <2>2 DEF Register, NextJob, Goes, TypeOK
  <2> QED  BY <1>5, <2>1, <2>2
<1> QED  BY <1>0, <1>1, <1>2, <1>3, <1>4, <1>5 DEF Next, LoadStep

LEMMA TypeAlways == Spec => [](TypeOK /\ ProbesOne)
<1>1. Init => TypeOK /\ ProbesOne
  <2>1. Init => ProbesOne
    BY DEF Init, ProbesOne
  <2> QED  BY <2>1, TypeStart
<1>2. TypeOK /\ ProbesOne /\ [Next]_vars => (TypeOK /\ ProbesOne)'
  BY TypeStep, ProbesOneStep
<1> QED  BY <1>1, <1>2, PTL DEF Spec

\* The variables of the synchronisation keep their types, in every execution and
\* for any number of processes, machines and extensions.
THEOREM ExtensionsTypeCorrect == Spec => []TypeOK
BY TypeAlways, PTL

----------------------------------------------------------------------------
(* Who copies, and who waits. *)

\* A step that moves nobody into or out of the copying, and makes nobody wait.
SameSync ==
  /\ home' = home /\ counter' = counter /\ abandoned' = abandoned
  /\ \A q \in Procs : /\ Holds(q)' <=> Holds(q)
                      /\ Copies(q)' <=> Copies(q)
                      /\ pc'[q] = "wait" /\ q \notin late' => pc[q] = "wait" /\ q \notin late

LEMMA OthersSame ==
  ASSUME TypeOK, NEW p \in Procs,
         home' = home, counter' = counter, abandoned' = abandoned, late \ {p} \subseteq late',
         \A q \in Procs \ {p} : pc'[q] = pc[q],
         Holds(p)' <=> Holds(p), Copies(p)' <=> Copies(p),
         pc'[p] = "wait" => pc[p] = "wait" /\ late' = late
  PROVE  SameSync
BY DEF SameSync, Holds, Copies

LEMMA SyncEffect ==
  ASSUME TypeOK, [Next]_vars
  PROVE  SameSync \/ \E p \in Procs : Count(p) \/ Subscribe(p) \/ Publish(p) \/ Release(p)
                                      \/ Crash(p)
<1>1. CASE UNCHANGED vars
  BY <1>1 DEF SameSync, Holds, Copies, vars, placeVars, reloadVars, historyVars
<1>2. ASSUME NEW p \in Procs, Check(p) \/ Prepare(p) \/ Probe(p) \/ RemoveLocal(p)
                              \/ Scan(p) \/ List(p) \/ CopyEnds(p) \/ Clean(p)
      PROVE  SameSync
  <2>1. /\ home' = home /\ counter' = counter /\ abandoned' = abandoned /\ late' = late
        /\ \A q \in Procs \ {p} : pc'[q] = pc[q]
        /\ \/ pc[p] = "check" /\ pc'[p] \in {"read", "count"}
           \/ /\ pc[p] \in {"prepare", "probe", "remove", "scan", "list", "copy", "clean"}
              /\ pc'[p] \in {"probe", "remove", "scan", "list", "copy", "clean", "publish"}
    BY <1>2 DEF Check, Prepare, Probe, RemoveLocal, Scan, List, CopyEnds, Clean, Goes,
                TypeOK, placeVars, historyVars
  <2>2. /\ Holds(p)' <=> Holds(p)
        /\ Copies(p)' <=> Copies(p)
    BY <2>1 DEF Holds, Copies
  <2> QED  BY <2>1, <2>2, OthersSame
<1>3. ASSUME NEW p \in Procs, NEW e \in Exts, Fetch(p, e) \/ Store(p, e)
      PROVE  SameSync
  BY <1>3 DEF Fetch, Store, SameSync, Holds, Copies, reloadVars, historyVars
<1>4. ASSUME NEW p \in Procs, Settle(p)
      PROVE  SameSync
  <2>1. /\ home' = home /\ counter' = counter /\ abandoned' = abandoned
        /\ late \ {p} \subseteq late'
        /\ \A q \in Procs \ {p} : pc'[q] = pc[q]
        /\ pc[p] = "settle" /\ pc'[p] \in {"down", "read"}
    BY <1>4 DEF Settle, Dies, Goes, TypeOK
  <2>2. /\ Holds(p)' <=> Holds(p)
        /\ Copies(p)' <=> Copies(p)
    BY <2>1 DEF Holds, Copies
  <2> QED  BY <2>1, <2>2, OthersSame
<1>5. ASSUME NEW p \in Procs, ReadFolder(p) \/ ReadSettings(p) \/ Register(p) \/ Start(p)
      PROVE  SameSync
  <2>1. /\ home' = home /\ counter' = counter /\ abandoned' = abandoned /\ late' = late
        /\ \A q \in Procs \ {p} : pc'[q] = pc[q]
        /\ pc[p] \in {"read", "settings", "register", "down"}
        /\ pc'[p] \in {"settings", "register", "idle", "check"}
    BY <1>5 DEF ReadFolder, ReadSettings, Register, NextJob, Start, Goes, TypeOK, placeVars,
                historyVars
  <2>2. /\ Holds(p)' <=> Holds(p)
        /\ Copies(p)' <=> Copies(p)
    BY <2>1 DEF Holds, Copies
  <2> QED  BY <2>1, <2>2, OthersSame
<1>6. ASSUME NEW p \in Procs, StorageFails(p) \/ ProbeFails(p)
      PROVE  SameSync
  <2>1. /\ home' = home /\ counter' = counter /\ abandoned' = abandoned /\ late' = late
        /\ \A q \in Procs \ {p} : pc'[q] = pc[q]
        /\ pc[p] \in {"list", "copy", "probe"} /\ pc'[p] \in {"copy", "publish"}
    BY <1>6 DEF StorageFails, ProbeFails, Goes, TypeOK, placeVars, historyVars
  <2>2. /\ Holds(p)' <=> Holds(p)
        /\ Copies(p)' <=> Copies(p)
    BY <2>1 DEF Holds, Copies
  <2> QED  BY <2>1, <2>2, OthersSame
<1>7. ASSUME NEW p \in Procs, ReloadOwn(p) \/ ReloadUpdate(p) \/ Receive(p)
      PROVE  SameSync
  <2>1. PICK r : Reload(p, r)
    BY <1>7 DEF ReloadOwn, ReloadUpdate, Receive
  <2>2. /\ home' = home /\ counter' = counter /\ abandoned' = abandoned /\ late' = late
        /\ \A q \in Procs \ {p} : pc'[q] = pc[q]
        /\ pc'[p] = pc[p] \/ (pc[p] = "idle" /\ pc'[p] = "check")
    BY <1>7, <2>1 DEF ReloadOwn, ReloadUpdate, Receive, Reload, Goes, TypeOK, placeVars,
                      reloadVars
  <2>3. /\ Holds(p)' <=> Holds(p)
        /\ Copies(p)' <=> Copies(p)
    BY <2>2 DEF Holds, Copies
  <2> QED  BY <2>2, <2>3, OthersSame
<1>8. ASSUME NEW p \in Procs, StorageDone(p) \/ FolderDone(p) \/ Tell(p) \/ UpdateSetting(p)
                              \/ \E e \in Exts : Install(p, e) \/ Uninstall(p, e)
      PROVE  SameSync
  <2>1. home' = home /\ counter' = counter /\ abandoned' = abandoned /\ late' = late /\ pc' = pc
    BY <1>8 DEF StorageDone, FolderDone, Tell, UpdateSetting, Install, Uninstall, placeVars,
                reloadVars, historyVars
  <2> QED  BY <2>1 DEF SameSync, Holds, Copies
<1> QED  BY <1>1, <1>2, <1>3, <1>4, <1>5, <1>6, <1>7, <1>8
         DEF Next, LoadStep, SyncStep, ChangeStep

\* Who copies has counted itself in.
HoldersCount == \A p \in Procs : Holds(p) => counter[home[p]] > 0

CounterInv == OneSyncer /\ CounterHasSyncer /\ HoldersCount

LEMMA CounterStep ==
  ASSUME TypeOK, CounterInv, [Next]_vars
  PROVE  CounterInv'
<1>0. home \in [Procs -> Machines] /\ counter \in [Machines -> Nat]
  BY ProcType DEF TypeOK
<1>1. CASE SameSync
  BY <1>1 DEF SameSync, CounterInv, OneSyncer, CounterHasSyncer, HoldersCount
<1>2. ASSUME NEW p \in Procs, Count(p) PROVE CounterInv'
  <2>1. /\ home' = home /\ abandoned' = abandoned /\ pc[p] = "count"
        /\ counter' \in [Machines -> Nat] /\ counter'[home[p]] = counter[home[p]] + 1
        /\ \A m \in Machines \ {home[p]} : counter'[m] = counter[m]
        /\ \A q \in Procs \ {p} : pc'[q] = pc[q]
        /\ pc'[p] = IF counter[home[p]] = 0 THEN "prepare" ELSE "subscribe"
    BY <1>0, <1>2, ProcType DEF Count, Goes, TypeOK, historyVars
  <2>2. /\ \A q \in Procs \ {p} : Holds(q)' <=> Holds(q)
        /\ ~Holds(p) /\ (Holds(p)' <=> counter[home[p]] = 0)
    BY <2>1 DEF Holds
  <2>3. OneSyncer' /\ HoldersCount'
    BY <1>0, <2>1, <2>2 DEF CounterInv, OneSyncer, HoldersCount
  <2>4. CounterHasSyncer'
    BY <1>0, <2>1, <2>2 DEF CounterInv, CounterHasSyncer
  <2> QED  BY <2>3, <2>4 DEF CounterInv
<1>3. ASSUME NEW p \in Procs, Release(p) PROVE CounterInv'
  <2>1. /\ home' = home /\ abandoned' = abandoned /\ pc[p] = "release"
        /\ counter' \in [Machines -> Nat] /\ counter'[home[p]] = 0
        /\ \A m \in Machines \ {home[p]} : counter'[m] = counter[m]
        /\ \A q \in Procs \ {p} : pc'[q] = pc[q]
        /\ pc'[p] = "settle"
    BY <1>0, <1>3, ProcType DEF Release, Goes, TypeOK, historyVars
  <2>2. /\ \A q \in Procs \ {p} : Holds(q)' <=> Holds(q)
        /\ Holds(p) /\ ~Holds(p)'
    BY <2>1 DEF Holds
  <2>3. OneSyncer' /\ HoldersCount'
    BY <1>0, <2>1, <2>2 DEF CounterInv, OneSyncer, HoldersCount
  <2>4. CounterHasSyncer'
    BY <1>0, <2>1, <2>2 DEF CounterInv, CounterHasSyncer
  <2> QED  BY <2>3, <2>4 DEF CounterInv
<1>4. ASSUME NEW p \in Procs, Crash(p) PROVE CounterInv'
  <2>1. /\ home' = home /\ counter' = counter
        /\ abandoned \subseteq abandoned' /\ (Holds(p) => home[p] \in abandoned')
        /\ \A q \in Procs \ {p} : pc'[q] = pc[q]
        /\ pc'[p] = "down"
    BY <1>4 DEF Crash, Dies, Goes, TypeOK, placeVars
  <2>2. /\ \A q \in Procs \ {p} : Holds(q)' <=> Holds(q)
        /\ ~Holds(p)'
    BY <2>1 DEF Holds
  <2> QED  BY <1>0, <2>1, <2>2 DEF CounterInv, OneSyncer, CounterHasSyncer, HoldersCount
<1>5. ASSUME NEW p \in Procs, Subscribe(p) \/ Publish(p) PROVE CounterInv'
  <2>1. /\ home' = home /\ counter' = counter /\ abandoned' = abandoned
        /\ \A q \in Procs : pc'[q] = pc[q]
                            \/ (pc[q] = "publish" /\ pc'[q] = "release")
                            \/ (pc[q] \in {"wait", "subscribe"} /\ pc'[q] \in {"read", "wait"})
    BY <1>5 DEF Subscribe, Publish, Goes, TypeOK, placeVars
  <2>2. \A q \in Procs : Holds(q)' <=> Holds(q)
    BY <2>1 DEF Holds
  <2> QED  BY <2>1, <2>2 DEF CounterInv, OneSyncer, CounterHasSyncer, HoldersCount
<1> QED  BY <1>1, <1>2, <1>3, <1>4, <1>5, SyncEffect

LEMMA CounterAlways == Spec => []CounterInv
<1>1. Init => CounterInv
  BY DEF Init, CounterInv, OneSyncer, CounterHasSyncer, HoldersCount, Holds
<1>2. TypeOK /\ CounterInv /\ [Next]_vars => CounterInv'
  BY CounterStep
<1> QED  BY <1>1, <1>2, TypeAlways, PTL DEF Spec

\* At most one process of a machine copies, however many of them start, reload,
\* fail or die.
THEOREM OneSyncerOnly == Spec => []OneSyncer
<1>1. CounterInv => OneSyncer
  BY DEF CounterInv
<1> QED  BY <1>1, CounterAlways, PTL

\* Only a crash leaves a counter that nobody will delete.
THEOREM CounterAlwaysHasSyncer == Spec => []CounterHasSyncer
<1>1. CounterInv => CounterHasSyncer
  BY DEF CounterInv
<1> QED  BY <1>1, CounterAlways, PTL

----------------------------------------------------------------------------
(* The counter implements the lock of a machine. *)

\* The counter of a lost lock stands, and nobody copies there.
LostKeepsCount ==
  \A m \in abandoned : /\ counter[m] > 0
                       /\ \A p \in Procs : home[p] = m => ~Holds(p)

LEMMA LockStart == Init => Lock!Init /\ LostKeepsCount
<1> SUFFICES ASSUME Init PROVE Lock!Init /\ LostKeepsCount
  OBVIOUS
<1>1. \A p \in Procs : ~Holds(p)
  BY DEF Init, Holds
<1>2. home \in [Procs -> Machines]
  BY DEF Init
<1> QED  BY <1>1, <1>2 DEF Init, Lock!Init, Owners, LostKeepsCount

LEMMA LockStep ==
  ASSUME TypeOK, CounterInv, LostKeepsCount, [Next]_vars
  PROVE  [Lock!Next]_(Lock!vars) /\ LostKeepsCount'
<1>0. /\ home \in [Procs -> Machines] /\ counter \in [Machines -> Nat]
      /\ abandoned \subseteq Machines /\ OneSyncer /\ HoldersCount
  BY ProcType DEF TypeOK, CounterInv
<1>1. CASE SameSync
  BY <1>1 DEF SameSync, Owners, LostKeepsCount, Lock!vars
<1>2. ASSUME NEW p \in Procs, Count(p)
      PROVE  [Lock!Next]_(Lock!vars) /\ LostKeepsCount'
  <2>1. /\ home' = home /\ abandoned' = abandoned
        /\ counter'[home[p]] = counter[home[p]] + 1
        /\ \A m \in Machines \ {home[p]} : counter'[m] = counter[m]
        /\ \A q \in Procs \ {p} : Holds(q)' <=> Holds(q)
        /\ ~Holds(p) /\ (Holds(p)' <=> counter[home[p]] = 0)
    BY <1>0, <1>2 DEF Count, Goes, TypeOK, Holds, historyVars
  <2>2. LostKeepsCount'
    BY <1>0, <2>1 DEF LostKeepsCount
  <2>3. CASE counter[home[p]] = 0
    <3>1. \A q \in Owners : home[q] # home[p]
      BY <1>0, <2>3 DEF HoldersCount, Owners
    <3>2. home[p] \notin abandoned
      BY <1>0, <2>3 DEF LostKeepsCount
    <3>3. Owners' = Owners \cup {p}
      BY <2>1, <2>3 DEF Owners
    <3>4. Lock!Take(p)
      BY <2>1, <3>1, <3>2, <3>3 DEF Lock!Take
    <3> QED  BY <2>2, <3>4 DEF Lock!Next
  <2>4. CASE counter[home[p]] # 0
    BY <2>1, <2>2, <2>4 DEF Owners, Lock!vars
  <2> QED  BY <2>3, <2>4
<1>3. ASSUME NEW p \in Procs, Release(p)
      PROVE  [Lock!Next]_(Lock!vars) /\ LostKeepsCount'
  <2>1. /\ home' = home /\ abandoned' = abandoned
        /\ \A m \in Machines \ {home[p]} : counter'[m] = counter[m]
        /\ \A q \in Procs \ {p} : Holds(q)' <=> Holds(q)
        /\ Holds(p) /\ ~Holds(p)'
    BY <1>0, <1>3 DEF Release, Goes, TypeOK, Holds, historyVars
  <2>2. LostKeepsCount'
    BY <1>0, <2>1 DEF LostKeepsCount
  <2>3. Lock!Give(p)
    BY <2>1 DEF Lock!Give, Owners
  <2> QED  BY <2>2, <2>3 DEF Lock!Next
<1>4. ASSUME NEW p \in Procs, Crash(p)
      PROVE  [Lock!Next]_(Lock!vars) /\ LostKeepsCount'
  <2>1. /\ home' = home /\ counter' = counter
        /\ abandoned' = IF Holds(p) THEN abandoned \cup {home[p]} ELSE abandoned
        /\ \A q \in Procs \ {p} : Holds(q)' <=> Holds(q)
        /\ ~Holds(p)'
    BY <1>4 DEF Crash, Dies, Goes, TypeOK, Holds, placeVars
  <2>2. CASE Holds(p)
    <3>1. counter[home[p]] > 0 /\ \A q \in Procs \ {p} : home[q] = home[p] => ~Holds(q)
      BY <1>0, <2>2 DEF HoldersCount, OneSyncer
    <3>2. LostKeepsCount'
      BY <1>0, <2>1, <2>2, <3>1 DEF LostKeepsCount
    <3>3. Lock!Lose(p)
      BY <2>1, <2>2 DEF Lock!Lose, Owners
    <3> QED  BY <3>2, <3>3 DEF Lock!Next
  <2>3. CASE ~Holds(p)
    <3>1. LostKeepsCount'
      BY <1>0, <2>1, <2>3 DEF LostKeepsCount
    <3> QED  BY <2>1, <2>3, <3>1 DEF Owners, Lock!vars
  <2> QED  BY <2>2, <2>3
<1>5. ASSUME NEW p \in Procs, Subscribe(p) \/ Publish(p)
      PROVE  [Lock!Next]_(Lock!vars) /\ LostKeepsCount'
  <2>1. /\ home' = home /\ counter' = counter /\ abandoned' = abandoned
        /\ \A q \in Procs : pc'[q] = pc[q]
                            \/ (pc[q] = "publish" /\ pc'[q] = "release")
                            \/ (pc[q] \in {"wait", "subscribe"} /\ pc'[q] \in {"read", "wait"})
    BY <1>5 DEF Subscribe, Publish, Goes, TypeOK, placeVars
  <2>2. \A q \in Procs : Holds(q)' <=> Holds(q)
    BY <2>1 DEF Holds
  <2> QED  BY <2>1, <2>2 DEF Owners, LostKeepsCount, Lock!vars
<1> QED  BY <1>1, <1>2, <1>3, <1>4, <1>5, SyncEffect

\* The counter, its message and its deletion implement a lock per machine that
\* one process at a time owns and that a crash of its owner loses for good.
THEOREM CounterImplementsLock == Spec => ImplementsLock
<1> QED
  BY LockStart, LockStep, TypeAlways, CounterAlways, PTL DEF Spec, ImplementsLock, Lock!Spec

----------------------------------------------------------------------------
(* Who waits is told. *)

LEMMA WaiterStep ==
  ASSUME TypeOK, WaiterIsServed, [Next]_vars
  PROVE  WaiterIsServed'
<1>1. CASE SameSync
  BY <1>1 DEF SameSync, WaiterIsServed
<1>2. ASSUME NEW p \in Procs, Count(p) \/ Release(p) PROVE WaiterIsServed'
  <2>1. /\ home' = home /\ abandoned' = abandoned /\ late' = late
        /\ \A q \in Procs \ {p} : pc'[q] = pc[q]
        /\ pc[p] \in {"count", "release"} /\ pc'[p] \in {"prepare", "subscribe", "settle"}
    BY <1>2 DEF Count, Release, Goes, TypeOK, historyVars
  <2>2. \A q \in Procs : Copies(q) => Copies(q)'
    BY <2>1 DEF Copies, Holds
  <2> QED  BY <2>1, <2>2 DEF WaiterIsServed
<1>3. ASSUME NEW p \in Procs, Subscribe(p) PROVE WaiterIsServed'
  <2>1. /\ home' = home /\ abandoned' = abandoned
        /\ late' = IF \E q \in Procs : home[q] = home[p] /\ Copies(q) THEN late
                                                                     ELSE late \cup {p}
        /\ \A q \in Procs \ {p} : pc'[q] = pc[q]
        /\ pc[p] = "subscribe" /\ pc'[p] = "wait"
    BY <1>3 DEF Subscribe, Goes, TypeOK
  <2>2. \A q \in Procs : Copies(q) => Copies(q)'
    BY <2>1 DEF Copies, Holds
  <2> QED  BY <2>1, <2>2 DEF WaiterIsServed
<1>4. ASSUME NEW p \in Procs, Publish(p) PROVE WaiterIsServed'
  <2>1. /\ home' = home /\ abandoned' = abandoned
        /\ \A q \in Procs : pc'[q] = "wait" =>
             /\ pc[q] = "wait" /\ home[q] # home[p]
             /\ q \notin late' => q \notin late
        /\ \A q \in Procs : home[q] # home[p] => pc'[q] = pc[q]
    BY <1>4 DEF Publish, TypeOK
  <2>2. \A q \in Procs : home[q] # home[p] /\ Copies(q) => Copies(q)'
    BY <2>1 DEF Copies, Holds
  <2> QED  BY <2>1, <2>2 DEF WaiterIsServed
<1>5. ASSUME NEW p \in Procs, Crash(p) PROVE WaiterIsServed'
  <2>1. /\ home' = home
        /\ abandoned \subseteq abandoned' /\ (Holds(p) => home[p] \in abandoned')
        /\ \A q \in Procs \ {p} : pc'[q] = pc[q] /\ (q \notin late' => q \notin late)
        /\ pc'[p] = "down"
    BY <1>5 DEF Crash, Dies, Goes, TypeOK, placeVars
  <2>2. \A q \in Procs \ {p} : Copies(q) => Copies(q)'
    BY <2>1 DEF Copies, Holds
  <2> QED  BY <2>1, <2>2 DEF WaiterIsServed, Copies
<1> QED  BY <1>1, <1>2, <1>3, <1>4, <1>5, SyncEffect

\* Whoever waits will be told, for any number of processes and faults, but for a
\* syncer that died and a message that came before the subscription.
THEOREM WaitersAreServed == Spec => []WaiterIsServed
<1>1. Init => WaiterIsServed
  BY DEF Init, WaiterIsServed
<1>2. TypeOK /\ WaiterIsServed /\ [Next]_vars => WaiterIsServed'
  BY WaiterStep
<1> QED  BY <1>1, <1>2, TypeAlways, PTL DEF Spec

----------------------------------------------------------------------------
(* The settings. *)

Rest == {"idle", "down", "register"}

\* A process that does not listen has nothing to reload for, and one without a
\* job has none in its queue.
QuietInv ==
  \A p \in Procs :
    /\ ~hears[p] => notices[p] = <<>> /\ op[p].step = "none" /\ pending[p] = None
    /\ pc[p] \in {"idle", "down"} => pending[p] = None
    /\ pc[p] = "down" => ~hears[p]

\* A process has the settings, or will read them, or will be told to.
Expects(p) ==
  \/ seen[p] = setting
  \/ pc[p] \notin Rest
  \/ pending[p] # None
  \/ notices[p] # <<>>
  \/ \E q \in Procs \ {p} : op[q].item = Settings /\ op[q].step # "none"
  \/ op[p].item = Settings /\ op[p].step = "reload"

SettingInv == \A p \in Procs : pc[p] # "down" /\ Settings \notin missed[p] => Expects(p)

\* A step of a load, up to the reading of the settings.
Reads ==
  /\ setting' = setting /\ seen' = seen /\ notices' = notices /\ op' = op
  /\ pending' = pending /\ hears' = hears
  /\ \A q \in Procs : /\ missed[q] \subseteq missed'[q]
                      /\ pc'[q] = pc[q] \/ pc'[q] \notin Rest

LEMMA ReadsKeeps ==
  ASSUME QuietInv, SettingInv, Reads
  PROVE  QuietInv' /\ SettingInv'
<1>1. QuietInv'
  BY DEF QuietInv, Reads, Rest
<1>2. SettingInv'
  BY DEF SettingInv, Expects, Reads, Rest
<1> QED  BY <1>1, <1>2

LEMMA ReadingSteps ==
  ASSUME TypeOK, NEW p \in Procs,
         \/ SyncStep(p) /\ ~Settle(p)
         \/ ReadFolder(p) \/ Start(p) \/ StorageFails(p) \/ ProbeFails(p)
  PROVE  Reads
<1>1. CASE Check(p) \/ Count(p) \/ Subscribe(p) \/ Prepare(p) \/ Probe(p) \/ RemoveLocal(p)
           \/ Scan(p) \/ List(p)
  BY <1>1 DEF Check, Count, Subscribe, Prepare, Probe, RemoveLocal, Scan, List, Goes, Reads,
              Rest, TypeOK, loadVars, changeVars, historyVars, reloadVars
<1>2. CASE CopyEnds(p) \/ Clean(p) \/ Publish(p) \/ Release(p)
           \/ \E e \in Exts : Fetch(p, e) \/ Store(p, e)
  BY <1>2 DEF CopyEnds, Clean, Publish, Release, Fetch, Store, Goes, Reads,
              Rest, TypeOK, loadVars, changeVars, historyVars, reloadVars
<1>3. CASE ReadFolder(p) \/ Start(p)
  BY <1>3 DEF ReadFolder, Start, Goes, Reads, Rest, TypeOK, loadVars, changeVars,
              historyVars, reloadVars
<1>4. CASE StorageFails(p)
  BY <1>4 DEF StorageFails, Goes, Reads, Rest, TypeOK, loadVars, changeVars, historyVars,
              reloadVars
<1>5. CASE ProbeFails(p)
  <2>1. \A q \in Procs : missed[q] \subseteq missed'[q]
    BY <1>5 DEF ProbeFails, TypeOK
  <2>2. \A q \in Procs : pc'[q] = pc[q] \/ pc'[q] \notin Rest
    BY <1>5 DEF ProbeFails, Goes, Rest, TypeOK
  <2> QED  BY <1>5, <2>1, <2>2 DEF ProbeFails, Reads, loadVars, changeVars
<1> QED  BY <1>1, <1>2, <1>3, <1>4, <1>5 DEF SyncStep

LEMMA ReadSettingsStep ==
  ASSUME TypeOK, QuietInv, SettingInv, NEW p \in Procs, ReadSettings(p)
  PROVE  QuietInv' /\ SettingInv'
<1>1. /\ setting' = setting /\ notices' = notices /\ op' = op /\ pending' = pending
      /\ hears' = hears /\ missed' = missed
      /\ seen'[p] = setting /\ \A q \in Procs \ {p} : seen'[q] = seen[q] /\ pc'[q] = pc[q]
      /\ pc[p] = "settings" /\ pc'[p] = "register"
  BY DEF ReadSettings, Goes, TypeOK, changeVars, historyVars
<1>2. QuietInv'
  BY <1>1 DEF QuietInv
<1>3. SettingInv'
  BY <1>1 DEF SettingInv, Expects
<1> QED  BY <1>2, <1>3

LEMMA RegisterStep ==
  ASSUME TypeOK, QuietInv, SettingInv, NEW p \in Procs, Register(p)
  PROVE  QuietInv' /\ SettingInv'
<1>0. /\ setting' = setting /\ notices' = notices /\ seen' = seen /\ missed' = missed
      /\ pc[p] = "register"
  BY DEF Register, historyVars
<1>1. CASE ~hears[p] /\ Goes(p, "idle") /\ hears' = [hears EXCEPT ![p] = TRUE]
           /\ UNCHANGED <<job, pending, op>>
  <2>1. /\ pc'[p] = "idle" /\ hears'[p] /\ pending[p] = None /\ notices[p] = <<>>
        /\ \A q \in Procs \ {p} : pc'[q] = pc[q] /\ hears'[q] = hears[q]
    BY <1>1 DEF Goes, TypeOK, QuietInv
  <2>2. QuietInv'
    BY <1>0, <1>1, <2>1 DEF QuietInv
  <2>3. SettingInv'
    BY <1>0, <1>1, <2>1 DEF SettingInv, Expects, Rest
  <2> QED  BY <2>2, <2>3
<1>2. CASE hears[p] /\ NextJob(p) /\ Done(p) /\ UNCHANGED hears
  <2>1. /\ \A q \in Procs \ {p} : pc'[q] = pc[q] /\ pending'[q] = pending[q]
        /\ pending'[p] = None
        /\ \/ pending[p] = None /\ pc'[p] = "idle"
           \/ pending[p] # None /\ pc'[p] = "check"
    BY <1>2, NextJobEffect
  <2>2. /\ \A q \in Procs \ {p} : op'[q] = op[q]
        /\ op'[p].item = op[p].item
        /\ \/ op'[p].step = op[p].step
           \/ op[p].step = "loading" /\ op'[p].step = "tell"
    BY <1>2 DEF Done, TypeOK
  <2>3. QuietInv'
    BY <1>0, <1>2, <2>1, <2>2 DEF QuietInv
  <2>4. ASSUME NEW r \in Procs, pc'[r] # "down", Settings \notin missed'[r]
        PROVE  Expects(r)'
    <3>1. Expects(r)
      BY <1>0, <2>1, <2>4 DEF SettingInv
    <3>2. CASE r = p
      BY <1>0, <2>1, <2>2, <3>1, <3>2 DEF Expects, Rest
    <3>3. CASE r # p
      BY <1>0, <2>1, <2>2, <3>1, <3>3 DEF Expects
    <3> QED  BY <3>2, <3>3
  <2> QED  BY <2>3, <2>4 DEF SettingInv
<1> QED  BY <1>1, <1>2 DEF Register

LEMMA DiesStep ==
  ASSUME TypeOK, QuietInv, SettingInv, NEW p \in Procs, Dies(p)
  PROVE  QuietInv' /\ SettingInv'
<1>0. /\ pc'[p] = "down" /\ ~hears'[p]
      /\ pending'[p] = None /\ notices'[p] = <<>> /\ op'[p].step = "none"
      /\ \A q \in Procs \ {p} :
           /\ pc'[q] = pc[q] /\ pending'[q] = pending[q] /\ notices'[q] = notices[q]
           /\ hears'[q] = hears[q] /\ op'[q] = op[q] /\ seen'[q] = seen[q]
  BY DiesEffect DEF NoOp
<1>1. /\ setting' = setting
      /\ \A q \in Procs \ {p} : pc[q] # "down" => missed'[q] = missed[q] \cup Untold(p)
  BY DEF Dies, TypeOK
<1>2. QuietInv'
  <2>1. SUFFICES ASSUME NEW q \in Procs
                 PROVE  /\ ~hears'[q] => /\ notices'[q] = <<>> /\ op'[q].step = "none"
                                         /\ pending'[q] = None
                        /\ pc'[q] \in {"idle", "down"} => pending'[q] = None
                        /\ pc'[q] = "down" => ~hears'[q]
    BY DEF QuietInv
  <2>2. CASE q = p
    BY <1>0, <2>2
  <2>3. CASE q # p
    BY <1>0, <2>3 DEF QuietInv
  <2> QED  BY <2>2, <2>3
<1>3. op[p].item = Settings /\ op[p].step # "none" => Settings \in Untold(p)
  BY DEF Untold
<1>4. ASSUME NEW r \in Procs, pc'[r] # "down", Settings \notin missed'[r]
      PROVE  Expects(r)'
  <2>1. /\ r # p /\ pc[r] # "down" /\ Settings \notin missed[r]
        /\ ~(op[p].item = Settings /\ op[p].step # "none")
    BY <1>0, <1>1, <1>3, <1>4
  <2>2. Expects(r)
    BY <2>1 DEF SettingInv
  <2>3. /\ pc'[r] = pc[r] /\ pending'[r] = pending[r] /\ notices'[r] = notices[r]
        /\ op'[r] = op[r] /\ seen'[r] = seen[r]
    BY <1>0, <2>1
  <2>4. CASE \E q \in Procs \ {r} : op[q].item = Settings /\ op[q].step # "none"
    <3>1. PICK q \in Procs \ {r} : op[q].item = Settings /\ op[q].step # "none"
      BY <2>4
    <3>2. op'[q] = op[q]
      BY <1>0, <2>1, <3>1
    <3> QED  BY <3>1, <3>2 DEF Expects
  <2>5. CASE ~\E q \in Procs \ {r} : op[q].item = Settings /\ op[q].step # "none"
    BY <1>1, <2>2, <2>3, <2>5 DEF Expects
  <2> QED  BY <2>4, <2>5
<1> QED  BY <1>2, <1>4 DEF SettingInv

\* A reload asked for is done, or waits, or follows one that waits.
LEMMA ReloadingSteps ==
  ASSUME TypeOK, QuietInv, SettingInv, NEW p \in Procs,
         ReloadOwn(p) \/ ReloadUpdate(p) \/ Receive(p)
  PROVE  QuietInv' /\ SettingInv'
<1>1. PICK r \in Requests : Reload(p, r)
  <2>1. Receive(p) => Head(notices[p]) \in Requests
    BY ProcType DEF Receive
  <2> QED  BY <2>1, Constants DEF ReloadOwn, ReloadUpdate, Receive
<1>2. /\ \A q \in Procs \ {p} : pc'[q] = pc[q] /\ pending'[q] = pending[q]
      /\ \/ pc[p] = "idle" /\ pc'[p] = "check" /\ pending'[p] = pending[p]
         \/ pc[p] # "idle" /\ pc'[p] = pc[p] /\ pending'[p] # None
  BY <1>1, ReloadEffect
<1>3. /\ setting' = setting /\ seen' = seen /\ missed' = missed /\ hears' = hears
      /\ \A q \in Procs \ {p} : notices'[q] = notices[q] /\ op'[q] = op[q]
      /\ hears[p]
  <2>1. CASE ReloadOwn(p) \/ ReloadUpdate(p)
    BY <2>1 DEF ReloadOwn, ReloadUpdate, Moves, QuietInv, TypeOK, loadVars
  <2>2. CASE Receive(p)
    BY <2>2 DEF Receive, QuietInv, TypeOK, loadVars, changeVars
  <2> QED  BY <2>1, <2>2
<1>4. op[p].item = Settings /\ op[p].step # "none"
        => op'[p].item = Settings /\ op'[p].step # "none"
  <2>1. CASE ReloadOwn(p)
    BY <2>1 DEF ReloadOwn
  <2>2. CASE ReloadUpdate(p)
    BY <2>2 DEF ReloadUpdate, Moves, TypeOK
  <2>3. CASE Receive(p)
    BY <2>3 DEF Receive, changeVars
  <2> QED  BY <2>1, <2>2, <2>3
<1>5. QuietInv'
  BY <1>2, <1>3 DEF QuietInv
<1>6. ASSUME NEW q \in Procs, pc'[q] # "down", Settings \notin missed'[q]
      PROVE  Expects(q)'
  <2>1. CASE q = p
    BY <1>2, <2>1 DEF Expects, Rest
  <2>2. CASE q # p
    <3>1. Expects(q)
      BY <1>2, <1>3, <1>6, <2>2 DEF SettingInv
    <3> QED  BY <1>2, <1>3, <1>4, <2>2, <3>1 DEF Expects
  <2> QED  BY <2>1, <2>2
<1> QED  BY <1>5, <1>6 DEF SettingInv

LEMMA TellStep ==
  ASSUME TypeOK, QuietInv, SettingInv, NEW p \in Procs, Tell(p)
  PROVE  QuietInv' /\ SettingInv'
<1> DEFINE notice == IF op[p].item = Settings THEN "all" ELSE op[p].item
<1>0. /\ setting' = setting /\ seen' = seen /\ hears' = hears /\ pc' = pc
      /\ pending' = pending /\ op[p].step = "tell" /\ hears[p]
  BY DEF Tell, QuietInv, reloadVars, loadVars
<1>1. \A q \in Procs : /\ missed[q] \subseteq missed'[q]
                       /\ q # p /\ ~hears[q] /\ pc[q] # "down" => op[p].item \in missed'[q]
  BY DEF Tell, TypeOK
<1>2. /\ \A q \in Procs : hears[q] /\ q # p => notices'[q] = Append(notices[q], notice)
      /\ \A q \in Procs : ~(hears[q] /\ q # p) => notices'[q] = notices[q]
  BY DEF Tell
<1> HIDE DEF notice
<1>3. \A q \in Procs : hears[q] /\ q # p => notices'[q] # <<>>
  <2>1. ASSUME NEW q \in Procs PROVE Append(notices[q], notice) # <<>>
    BY ProcType
  <2> QED  BY <1>2, <2>1
<1>4. /\ \A q \in Procs \ {p} : op'[q] = op[q]
      /\ op[p].item # Settings => op'[p].item # Settings
      /\ op'[p].step \in {"none", "reload"} /\ (op'[p].step = "reload" => op'[p].item # Settings)
  BY DEF Tell, Moves, NoOp, TypeOK
<1>5. QuietInv'
  BY <1>0, <1>2, <1>4 DEF QuietInv
<1>6. ASSUME NEW r \in Procs, pc'[r] # "down", Settings \notin missed'[r]
      PROVE  Expects(r)'
  <2>1. Expects(r)
    BY <1>0, <1>1, <1>6 DEF SettingInv
  <2>2. CASE r # p /\ hears[r]
    BY <1>3, <2>2 DEF Expects
  <2>3. CASE r # p /\ ~hears[r]
    BY <1>0, <1>1, <1>2, <1>4, <1>6, <2>1, <2>3 DEF Expects
  <2>4. CASE r = p
    BY <1>0, <1>2, <1>4, <2>1, <2>4 DEF Expects
  <2> QED  BY <2>2, <2>3, <2>4
<1> QED  BY <1>5, <1>6 DEF SettingInv

LEMMA ChangingSteps ==
  ASSUME TypeOK, QuietInv, SettingInv, NEW p \in Procs,
         \/ StorageDone(p) \/ FolderDone(p) \/ UpdateSetting(p)
         \/ \E e \in Exts : Install(p, e) \/ Uninstall(p, e)
  PROVE  QuietInv' /\ SettingInv'
<1>1. CASE UpdateSetting(p)
  <2>1. /\ pc' = pc /\ pending' = pending /\ seen' = seen /\ hears' = hears
        /\ notices' = notices /\ missed' = missed /\ hears[p]
        /\ op'[p].item = Settings /\ op'[p].step = "reload"
        /\ \A q \in Procs \ {p} : op'[q] = op[q]
    BY <1>1 DEF UpdateSetting, MayChange, Begins, TypeOK, reloadVars, loadVars, historyVars
  <2>2. QuietInv'
    BY <2>1 DEF QuietInv
  <2>3. SettingInv'
    BY <2>1 DEF SettingInv, Expects
  <2> QED  BY <2>2, <2>3
<1>2. CASE \/ StorageDone(p) \/ FolderDone(p)
           \/ \E e \in Exts : Install(p, e) \/ Uninstall(p, e)
  <2>1. /\ setting' = setting /\ pc' = pc /\ pending' = pending /\ seen' = seen
        /\ hears' = hears /\ notices' = notices /\ missed' = missed
        /\ \A q \in Procs \ {p} : op'[q] = op[q]
    BY <1>2 DEF StorageDone, FolderDone, Install, Uninstall, Begins, Moves, TypeOK,
                reloadVars, loadVars, historyVars
  <2>2. /\ hears[p] /\ op[p].step # "reload"
        /\ op[p].step # "none" => op'[p].item = op[p].item /\ op'[p].step # "none"
    <3>1. CASE StorageDone(p) \/ FolderDone(p)
      BY <3>1 DEF StorageDone, FolderDone, Moves, TypeOK, QuietInv
    <3>2. CASE \E e \in Exts : Install(p, e) \/ Uninstall(p, e)
      BY <3>2 DEF Install, Uninstall, MayChange
    <3> QED  BY <1>2, <3>1, <3>2
  <2>3. QuietInv'
    BY <2>1, <2>2 DEF QuietInv
  <2>4. SettingInv'
    BY <2>1, <2>2 DEF SettingInv, Expects
  <2> QED  BY <2>3, <2>4
<1> QED  BY <1>1, <1>2

LEMMA SettleStep ==
  ASSUME TypeOK, QuietInv, SettingInv, NEW p \in Procs, Settle(p)
  PROVE  QuietInv' /\ SettingInv'
<1>1. CASE Dies(p)
  BY <1>1, DiesStep
<1>2. CASE /\ Goes(p, "read")
           /\ UNCHANGED <<home, job, pending, loadVars, notices, changeVars, missed,
                          dropped, late>>
  <2>1. Reads
    BY <1>2 DEF Reads, Goes, Rest, TypeOK, loadVars, changeVars
  <2> QED  BY <2>1, ReadsKeeps
<1> QED  BY <1>1, <1>2 DEF Settle

LEMMA SettingStep ==
  ASSUME TypeOK, QuietInv, SettingInv, [Next]_vars
  PROVE  QuietInv' /\ SettingInv'
<1>1. CASE UNCHANGED vars
  BY <1>1, ReadsKeeps DEF Reads, vars, reloadVars, loadVars, changeVars, historyVars
<1>2. ASSUME NEW p \in Procs,
             \/ SyncStep(p) \/ ReadFolder(p) \/ Start(p) \/ StorageFails(p) \/ ProbeFails(p)
      PROVE  QuietInv' /\ SettingInv'
  BY <1>2, ReadingSteps, ReadsKeeps, SettleStep
<1>3. ASSUME NEW p \in Procs, Crash(p)
      PROVE  QuietInv' /\ SettingInv'
  BY <1>3, DiesStep DEF Crash
<1>4. ASSUME NEW p \in Procs,
             ReadSettings(p) \/ Register(p) \/ ChangeStep(p) \/ Receive(p)
      PROVE  QuietInv' /\ SettingInv'
  BY <1>4, ReadSettingsStep, RegisterStep, ReloadingSteps, TellStep, ChangingSteps
     DEF ChangeStep
<1> QED  BY <1>1, <1>2, <1>3, <1>4 DEF Next, LoadStep

\* A change of the settings reaches every process that was told of it, for any
\* number of processes and changes, whatever reloads were left out.
THEOREM SettingsReachAll == Spec => []SettingsAreLoaded
<1>1. Init => QuietInv /\ SettingInv
  BY DEF Init, QuietInv, SettingInv, Expects, NoOp
<1>2. TypeOK /\ QuietInv /\ SettingInv /\ [Next]_vars => QuietInv' /\ SettingInv'
  BY SettingStep
<1>3. QuietInv /\ SettingInv => SettingsAreLoaded
  BY DEF QuietInv, SettingInv, Expects, SettingsAreLoaded, AtRest, Rest
<1> QED  BY <1>1, <1>2, <1>3, TypeAlways, PTL DEF Spec

=============================================================================
