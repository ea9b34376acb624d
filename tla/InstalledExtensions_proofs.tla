---------------------- MODULE InstalledExtensions_proofs ----------------------
(***************************************************************************)
(* That an extension installed anywhere is loaded everywhere: a process    *)
(* that shares its folder with no other loads, for any number of           *)
(* processes, extensions, changes and faults, every whole extension of     *)
(* the storage it was told of and whose reload it did not leave out.       *)
(***************************************************************************)
EXTENDS ExtensionSync_proofs

USE ExtensionAssumption

----------------------------------------------------------------------------
(* Who changes an extension, and who is told. *)

\* q is making a change of an extension.
Active(q) == op[q].step # "none" /\ op[q].item \in Exts

\* What the storage holds of an extension at a step of its change.
Found(step) == CASE step \in {"upload", "delete"} -> {"part"}
                 [] step = "move"                 -> {"whole"}
                 [] step = "unlink"               -> {"none"}
                 [] OTHER                         -> {"none", "whole"}

\* A change under way is the only one of its extension, and the storage is as
\* far as the change is.
AuthorInv ==
  /\ \A q \in Procs :
       /\ op[q].step \in {"upload", "delete", "move", "unlink"} => op[q].item \in Exts
       /\ op[q].step = "loading" => op[q].item = Settings
       /\ Active(q) => op[q].item \in touched /\ storage[op[q].item] \in Found(op[q].step)
  /\ \A q, r \in Procs : q # r /\ Active(q) /\ Active(r) => op[q].item # op[r].item

Noted(p, e) == \E i \in 1 .. Len(notices[p]) : notices[p][i] = e

\* p loads, or is to load, for a change of e.
Asked(p, e) == job[p] = e \/ pending[p] = e \/ Noted(p, e)

\* Who is asked to reload an extension is asked after its only change is over.
AskedInv == \A p \in Procs, e \in Exts : Asked(p, e) => e \in touched /\ storage[e] # "part"

LEMMA NotedAppended ==
  ASSUME NEW s \in Seq(Requests), NEW x \in Requests, NEW e
  PROVE  (\E i \in 1 .. Len(Append(s, x)) : Append(s, x)[i] = e)
           <=> (\E i \in 1 .. Len(s) : s[i] = e) \/ e = x
<1>1. /\ Len(Append(s, x)) = Len(s) + 1 /\ Len(s) \in Nat
      /\ Append(s, x)[Len(s) + 1] = x
      /\ \A i \in 1 .. Len(s) : Append(s, x)[i] = s[i]
  OBVIOUS
<1> QED  BY <1>1

LEMMA NotedTail ==
  ASSUME NEW s \in Seq(Requests), s # <<>>, NEW e
  PROVE  (\E i \in 1 .. Len(s) : s[i] = e)
           <=> (\E i \in 1 .. Len(Tail(s)) : Tail(s)[i] = e) \/ e = Head(s)
<1>1. /\ Len(s) \in Nat \ {0} /\ Len(Tail(s)) = Len(s) - 1 /\ Head(s) = s[1]
      /\ \A i \in 1 .. Len(Tail(s)) : Tail(s)[i] = s[i + 1]
  OBVIOUS
<1>2. ASSUME NEW i \in 1 .. Len(s), s[i] = e, e # Head(s)
      PROVE  i - 1 \in 1 .. Len(Tail(s)) /\ Tail(s)[i - 1] = e
  BY <1>1, <1>2
<1>3. ASSUME NEW i \in 1 .. Len(Tail(s)), Tail(s)[i] = e
      PROVE  i + 1 \in 1 .. Len(s) /\ s[i + 1] = e
  BY <1>1, <1>3
<1>4. 1 \in 1 .. Len(s)
  BY <1>1
<1> QED  BY <1>1, <1>2, <1>3, <1>4

\* No extension bears the name of another request.
LEMMA Names ==
  ASSUME NEW e \in Exts
  PROVE  e \notin {"start", "update", "all", "own", Settings, None} /\ e \in Requests
<1>1. e # None
  OBVIOUS
<1>2. e \notin {"start", "update", "all", "own", "settings"}
  OBVIOUS
<1> QED  BY <1>1, <1>2 DEF Settings, Requests

\* A step that leaves the changes of extensions as they are, and asks nobody for
\* a reload that was not asked for.
SameChanges ==
  /\ storage' = storage /\ touched' = touched
  /\ \A q \in Procs :
       \/ op'[q] = op[q]
       \/ /\ op'[q].item = Settings
          /\ op'[q].step \notin {"upload", "delete", "move", "unlink"}
  /\ \A q \in Procs, e \in Exts : Asked(q, e)' => Asked(q, e)

LEMMA SameChangesKeeps ==
  ASSUME AuthorInv, AskedInv, SameChanges
  PROVE  AuthorInv' /\ AskedInv'
<1>1. \A q \in Procs : Active(q)' => Active(q) /\ op'[q] = op[q]
  BY Names DEF SameChanges, Active
<1>2. AuthorInv'
  BY <1>1 DEF AuthorInv, SameChanges
<1>3. AskedInv'
  BY DEF AskedInv, SameChanges
<1> QED  BY <1>2, <1>3

LEMMA AskedByReload ==
  ASSUME TypeOK, NEW p \in Procs, NEW r \in Requests, Reload(p, r)
  PROVE  \A q \in Procs, e \in Exts :
           job'[q] = e \/ pending'[q] = e => job[q] = e \/ pending[q] = e \/ (q = p /\ r = e)
BY DEF Reload, Goes, reloadVars, TypeOK

LEMMA SameChangesOfSync ==
  ASSUME TypeOK, NEW p \in Procs,
         \/ SyncStep(p) /\ ~Settle(p)
         \/ ReadFolder(p) \/ ReadSettings(p) \/ Start(p) \/ StorageFails(p) \/ ProbeFails(p)
  PROVE  storage' = storage /\ touched' = touched /\ op' = op /\ job' = job
           /\ pending' = pending /\ notices' = notices
<1>1. CASE Check(p) \/ Count(p) \/ Subscribe(p) \/ Prepare(p) \/ Probe(p) \/ RemoveLocal(p)
           \/ Scan(p) \/ List(p)
  BY <1>1 DEF Check, Count, Subscribe, Prepare, Probe, RemoveLocal, Scan, List,
              placeVars, changeVars
<1>2. CASE CopyEnds(p) \/ Clean(p) \/ Publish(p) \/ Release(p)
           \/ \E e \in Exts : Fetch(p, e) \/ Store(p, e)
  BY <1>2 DEF CopyEnds, Clean, Publish, Release, Fetch, Store, placeVars, changeVars,
              reloadVars
<1>3. CASE ReadFolder(p) \/ ReadSettings(p) \/ Start(p) \/ StorageFails(p) \/ ProbeFails(p)
  BY <1>3 DEF ReadFolder, ReadSettings, Start, StorageFails, ProbeFails, placeVars,
              changeVars
<1> QED  BY <1>1, <1>2, <1>3 DEF SyncStep

LEMMA SameChangesOfDying ==
  ASSUME TypeOK, NEW p \in Procs, Dies(p), storage' = storage
  PROVE  SameChanges
<1>1. /\ job' = [job EXCEPT ![p] = "start"] /\ pending' = [pending EXCEPT ![p] = None]
      /\ notices' = [notices EXCEPT ![p] = <<>>] /\ op' = [op EXCEPT ![p] = NoOp]
      /\ touched' = touched
  BY DEF Dies
<1>2. \A q \in Procs \ {p} : /\ job'[q] = job[q] /\ pending'[q] = pending[q]
                             /\ notices'[q] = notices[q] /\ op'[q] = op[q]
  BY <1>1 DEF TypeOK
<1>3. job'[p] = "start" /\ pending'[p] = None /\ notices'[p] = <<>> /\ op'[p] = NoOp
  BY <1>1 DEF TypeOK
<1>4. \A e \in Exts : ~Asked(p, e)'
  <2>1. Len(<<>>) = 0
    OBVIOUS
  <2> QED  BY <1>3, <2>1, Names DEF Asked, Noted
<1>5. \A q \in Procs \ {p}, e \in Exts : Asked(q, e)' => Asked(q, e)
  BY <1>2 DEF Asked, Noted
<1> QED  BY <1>1, <1>2, <1>3, <1>4, <1>5 DEF SameChanges, NoOp

LEMMA SameChangesOfLoading ==
  ASSUME TypeOK, AuthorInv, NEW p \in Procs,
         \/ LoadStep(p) \/ Start(p) \/ Crash(p) \/ StorageFails(p) \/ ProbeFails(p)
  PROVE  SameChanges
<1>1. CASE \/ SyncStep(p) /\ ~Settle(p)
           \/ ReadFolder(p) \/ ReadSettings(p) \/ Start(p) \/ StorageFails(p)
           \/ ProbeFails(p)
  BY <1>1, SameChangesOfSync DEF SameChanges, Asked, Noted
<1>2. CASE Settle(p)
  <2>1. CASE Dies(p)
    BY <1>2, <2>1, SameChangesOfDying DEF Settle
  <2>2. CASE UNCHANGED <<job, pending, notices, changeVars>>
    BY <1>2, <2>2 DEF Settle, SameChanges, Asked, Noted, changeVars
  <2> QED  BY <1>2, <2>1, <2>2 DEF Settle
<1>3. CASE Crash(p)
  BY <1>3, SameChangesOfDying DEF Crash, placeVars
<1>4. CASE Register(p)
  <2>1. storage' = storage /\ touched' = touched /\ notices' = notices
    BY <1>4 DEF Register, placeVars
  <2>2. \A q \in Procs : /\ job'[q] \in {job[q], pending[q], "start"}
                         /\ pending'[q] \in {pending[q], None}
    BY <1>4 DEF Register, NextJob, TypeOK
  <2>3. \A q \in Procs, e \in Exts : Asked(q, e)' => Asked(q, e)
    BY <2>1, <2>2, Names DEF Asked, Noted
  <2>4. \A q \in Procs : \/ op'[q] = op[q]
                         \/ op'[q].item = Settings /\ op'[q].step = "tell"
    BY <1>4 DEF Register, Done, AuthorInv, TypeOK
  <2> QED  BY <2>1, <2>3, <2>4 DEF SameChanges
<1> QED  BY <1>1, <1>2, <1>3, <1>4 DEF LoadStep

LEMMA SameChangesOfReloading ==
  ASSUME TypeOK, NEW p \in Procs,
         ReloadOwn(p) \/ ReloadUpdate(p) \/ Receive(p) \/ UpdateSetting(p)
  PROVE  SameChanges
<1>1. CASE ReloadOwn(p) \/ ReloadUpdate(p)
  <2>1. PICK r \in {"own", "update"} : Reload(p, r)
    BY <1>1 DEF ReloadOwn, ReloadUpdate
  <2>2. \A q \in Procs, e \in Exts :
          job'[q] = e \/ pending'[q] = e => job[q] = e \/ pending[q] = e
    BY <2>1, AskedByReload, Names, Constants
  <2>3. notices' = notices /\ storage' = storage /\ touched' = touched
    BY <1>1 DEF ReloadOwn, ReloadUpdate, placeVars
  <2>4. \A q \in Procs :
          \/ op'[q] = op[q]
          \/ op'[q].item = Settings /\ op'[q].step \in {"none", "tell", "loading"}
    <3>1. CASE ReloadOwn(p)
      BY <3>1 DEF ReloadOwn, NoOp, TypeOK
    <3>2. CASE ReloadUpdate(p)
      BY <3>2 DEF ReloadUpdate, Moves, TypeOK
    <3> QED  BY <1>1, <3>1, <3>2
  <2>5. \A q \in Procs, e \in Exts : Asked(q, e)' => Asked(q, e)
    BY <2>2, <2>3 DEF Asked, Noted
  <2> QED  BY <2>3, <2>4, <2>5 DEF SameChanges
<1>2. CASE Receive(p)
  <2>1. /\ notices[p] \in Seq(Requests) /\ notices[p] # <<>>
        /\ Reload(p, Head(notices[p])) /\ Head(notices[p]) \in Requests
    BY <1>2, ProcType DEF Receive
  <2>2. /\ notices'[p] = Tail(notices[p])
        /\ \A q \in Procs \ {p} : notices'[q] = notices[q]
        /\ storage' = storage /\ touched' = touched /\ op' = op
    BY <1>2 DEF Receive, placeVars, changeVars, TypeOK
  <2>3. \A e \in Exts : Noted(p, e)' \/ Head(notices[p]) = e => Noted(p, e)
    BY <2>1, <2>2, NotedTail DEF Noted
  <2>4. \A q \in Procs \ {p}, e \in Exts : Noted(q, e)' => Noted(q, e)
    BY <2>2 DEF Noted
  <2>5. \A q \in Procs, e \in Exts : Asked(q, e)' => Asked(q, e)
    BY <2>1, <2>3, <2>4, AskedByReload DEF Asked
  <2> QED  BY <2>2, <2>5 DEF SameChanges
<1>3. CASE UpdateSetting(p)
  <2>1. /\ op'[p].item = Settings /\ op'[p].step = "reload"
        /\ \A q \in Procs \ {p} : op'[q] = op[q]
    BY <1>3 DEF UpdateSetting, Begins, TypeOK
  <2>2. /\ storage' = storage /\ touched' = touched
        /\ job' = job /\ pending' = pending /\ notices' = notices
    BY <1>3 DEF UpdateSetting, placeVars, reloadVars
  <2> QED  BY <2>1, <2>2 DEF SameChanges, Asked, Noted
<1> QED  BY <1>1, <1>2, <1>3

\* A step of a change of an extension.
LEMMA BegunChange ==
  ASSUME TypeOK, AuthorInv, AskedInv, NEW p \in Procs, NEW e \in Exts,
         Install(p, e) \/ Uninstall(p, e)
  PROVE  AuthorInv' /\ AskedInv'
<1>1. /\ e \notin touched /\ op[p].step = "none" /\ touched' = touched \cup {e}
      /\ storage'[e] = "part" /\ \A x \in Exts \ {e} : storage'[x] = storage[x]
      /\ op'[p].item = e /\ op'[p].step \in {"upload", "delete"}
      /\ \A q \in Procs \ {p} : op'[q] = op[q]
      /\ job' = job /\ pending' = pending /\ notices' = notices
  BY DEF Install, Uninstall, MayChange, Begins, reloadVars, TypeOK
<1>2. \A q \in Procs : Active(q) => op[q].item # e
  BY <1>1 DEF AuthorInv
<1>3. \A q \in Procs \ {p} : Active(q)' => Active(q)
  BY <1>1 DEF Active
<1>4. AuthorInv'
  <2>1. Active(p)' /\ storage'[op'[p].item] \in Found(op'[p].step)
    BY <1>1 DEF Active, Found
  <2>2. ASSUME NEW q \in Procs \ {p}
        PROVE  /\ op'[q].step \in {"upload", "delete", "move", "unlink"} => op'[q].item \in Exts
               /\ op'[q].step = "loading" => op'[q].item = Settings
               /\ Active(q)' => /\ op'[q].item \in touched' /\ op'[q].item # e
                                /\ storage'[op'[q].item] \in Found(op'[q].step)
    BY <1>1, <1>2, <1>3 DEF AuthorInv, Active
  <2>3. \A q, r \in Procs \ {p} : q # r /\ Active(q)' /\ Active(r)' => op'[q].item # op'[r].item
    BY <1>1, <1>3 DEF AuthorInv
  <2> QED  BY <1>1, <2>1, <2>2, <2>3 DEF AuthorInv
<1>5. AskedInv'
  BY <1>1 DEF AskedInv, Asked, Noted
<1> QED  BY <1>4, <1>5

\* The step of a change that goes on, with the storage it leaves.
LEMMA GoneOn ==
  ASSUME TypeOK, AuthorInv, NEW p \in Procs, Active(p),
         op'[p].item = op[p].item,
         op'[p].step \in {"move", "unlink", "tell", "reload"},
         \A q \in Procs \ {p} : op'[q] = op[q],
         touched' = touched,
         storage'[op[p].item] \in Found(op'[p].step),
         \A x \in Exts \ {op[p].item} : storage'[x] = storage[x]
  PROVE  AuthorInv'
<1>1. \A q \in Procs \ {p} : /\ Active(q)' => Active(q)
                             /\ Active(q) => op[q].item # op[p].item /\ op[q].item \in Exts
  BY DEF AuthorInv, Active
<1>2. Active(p)' /\ op[p].item \in Exts /\ op[p].item \in touched
  BY DEF Active, AuthorInv
<1>3. ASSUME NEW q \in Procs
      PROVE  /\ op'[q].step \in {"upload", "delete", "move", "unlink"} => op'[q].item \in Exts
             /\ op'[q].step = "loading" => op'[q].item = Settings
             /\ Active(q)' => /\ op'[q].item \in touched'
                              /\ storage'[op'[q].item] \in Found(op'[q].step)
  <2>1. CASE q = p
    BY <1>2, <2>1
  <2>2. CASE q # p
    BY <1>1, <2>2 DEF AuthorInv
  <2> QED  BY <2>1, <2>2
<1>4. \A q, r \in Procs : q # r /\ Active(q)' /\ Active(r)' => op'[q].item # op'[r].item
  BY <1>1, <1>2 DEF AuthorInv
<1> QED  BY <1>3, <1>4 DEF AuthorInv

LEMMA StorageDoneChange ==
  ASSUME TypeOK, AuthorInv, AskedInv, NEW p \in Procs, StorageDone(p)
  PROVE  AuthorInv' /\ AskedInv'
<1> DEFINE e == op[p].item
<1>1. op[p].step \in {"upload", "delete"} /\ e \in Exts /\ Active(p)
  BY DEF StorageDone, AuthorInv, Active
<1>2. /\ op'[p].item = e
      /\ \/ op[p].step = "upload" /\ op'[p].step = "move" /\ storage'[e] = "whole"
         \/ op[p].step = "delete" /\ op'[p].step = "unlink" /\ storage'[e] = "none"
      /\ \A q \in Procs \ {p} : op'[q] = op[q]
      /\ \A x \in Exts \ {e} : storage'[x] = storage[x]
      /\ touched' = touched /\ job' = job /\ pending' = pending /\ notices' = notices
  BY <1>1 DEF StorageDone, Moves, reloadVars, TypeOK
<1>3. storage[e] = "part"
  BY <1>1 DEF AuthorInv, Found
<1>4. storage'[e] \in Found(op'[p].step)
  BY <1>2 DEF Found
<1>5. AuthorInv'
  BY <1>1, <1>2, <1>4, GoneOn
<1>6. AskedInv'
  BY <1>1, <1>2, <1>3 DEF AskedInv, Asked, Noted
<1> QED  BY <1>5, <1>6

LEMMA FolderDoneChange ==
  ASSUME TypeOK, AuthorInv, AskedInv, NEW p \in Procs, FolderDone(p)
  PROVE  AuthorInv' /\ AskedInv'
<1>1. op[p].step \in {"move", "unlink"} /\ op[p].item \in Exts /\ Active(p)
  BY DEF FolderDone, AuthorInv, Active
<1>2. /\ op'[p].item = op[p].item /\ op'[p].step = "tell"
      /\ \A q \in Procs \ {p} : op'[q] = op[q]
      /\ storage' = storage
      /\ touched' = touched /\ job' = job /\ pending' = pending /\ notices' = notices
  BY DEF FolderDone, Moves, reloadVars, TypeOK
<1>3. storage[op[p].item] \in Found(op'[p].step)
  BY <1>1, <1>2 DEF AuthorInv, Found
<1>4. AuthorInv'
  BY <1>1, <1>2, <1>3, GoneOn
<1>5. AskedInv'
  BY <1>2 DEF AskedInv, Asked, Noted
<1> QED  BY <1>4, <1>5

\* Whom a message reaches.
LEMMA TellEffect ==
  ASSUME TypeOK, NEW p \in Procs, Tell(p)
  PROVE  /\ \A q \in Procs, e \in Exts :
              Noted(q, e)' <=> Noted(q, e) \/ (q # p /\ hears[q] /\ op[p].item = e)
         /\ \A q \in Procs : missed[q] \subseteq missed'[q]
         /\ \A q \in Procs \ {p} :
              ~hears[q] /\ pc[q] # "down" => op[p].item \in missed'[q]
<1> DEFINE notice == IF op[p].item = Settings THEN "all" ELSE op[p].item
<1>1. notice \in Requests /\ \A e \in Exts : notice = e <=> op[p].item = e
  BY ProcType, Names, Constants DEF OpRecord, Items, Requests
<1>2. /\ \A q \in Procs : hears[q] /\ q # p => notices'[q] = Append(notices[q], notice)
      /\ \A q \in Procs : ~(hears[q] /\ q # p) => notices'[q] = notices[q]
  BY DEF Tell
<1> HIDE DEF notice
<1>3. ASSUME NEW q \in Procs, NEW e \in Exts
      PROVE  Noted(q, e)' <=> Noted(q, e) \/ (q # p /\ hears[q] /\ op[p].item = e)
  <2>1. CASE hears[q] /\ q # p
    <3>1. notices'[q] = Append(notices[q], notice) /\ notices[q] \in Seq(Requests)
      BY <1>2, <2>1, ProcType
    <3>2. Noted(q, e)' <=> Noted(q, e) \/ e = notice
      BY <1>1, <3>1, NotedAppended DEF Noted
    <3> QED  BY <1>1, <2>1, <3>2
  <2>2. CASE ~(hears[q] /\ q # p)
    BY <1>2, <2>2 DEF Noted
  <2> QED  BY <2>1, <2>2
<1>4. \A q \in Procs : /\ missed[q] \subseteq missed'[q]
                       /\ q # p /\ ~hears[q] /\ pc[q] # "down" => op[p].item \in missed'[q]
  BY DEF Tell, TypeOK
<1> QED  BY <1>3, <1>4

LEMMA TellChange ==
  ASSUME TypeOK, AuthorInv, AskedInv, NEW p \in Procs, Tell(p)
  PROVE  AuthorInv' /\ AskedInv'
<1>1. /\ op[p].step = "tell" /\ storage' = storage /\ touched' = touched
      /\ job' = job /\ pending' = pending
      /\ \A q \in Procs \ {p} : op'[q] = op[q]
  BY DEF Tell, Moves, placeVars, reloadVars, TypeOK
<1>2. CASE op[p].item = Settings
  <2>1. op'[p] = NoOp
    BY <1>2 DEF Tell, TypeOK
  <2>2. \A q \in Procs, e \in Exts : Asked(q, e)' => Asked(q, e)
    BY <1>1, <1>2, TellEffect, Names DEF Asked
  <2> QED  BY <1>1, <2>1, <2>2, SameChangesKeeps DEF SameChanges, NoOp
<1>3. CASE op[p].item # Settings
  <2>1. op[p].item \in Exts /\ Active(p)
    BY <1>1, <1>3, ProcType DEF OpRecord, Items, Active
  <2>2. op'[p].item = op[p].item /\ op'[p].step = "reload"
    BY <1>3 DEF Tell, Moves, TypeOK
  <2>3. storage[op[p].item] \in {"none", "whole"} /\ op[p].item \in touched
    BY <1>1, <2>1 DEF AuthorInv, Found
  <2>4. AuthorInv'
    BY <1>1, <2>1, <2>2, <2>3, GoneOn DEF Found
  <2>5. AskedInv'
    BY <1>1, <2>3, TellEffect DEF AskedInv, Asked
  <2> QED  BY <2>4, <2>5
<1> QED  BY <1>2, <1>3

LEMMA ChangeInvStep ==
  ASSUME TypeOK, AuthorInv, AskedInv, [Next]_vars
  PROVE  AuthorInv' /\ AskedInv'
<1>1. CASE UNCHANGED vars
  BY <1>1, SameChangesKeeps DEF SameChanges, Asked, Noted, vars, placeVars, changeVars,
                                reloadVars
<1>2. ASSUME NEW p \in Procs,
             \/ LoadStep(p) \/ Start(p) \/ Crash(p) \/ StorageFails(p) \/ ProbeFails(p)
      PROVE  AuthorInv' /\ AskedInv'
  BY <1>2, SameChangesOfLoading, SameChangesKeeps
<1>3. ASSUME NEW p \in Procs, ChangeStep(p) \/ Receive(p)
      PROVE  AuthorInv' /\ AskedInv'
  BY <1>3, SameChangesOfReloading, SameChangesKeeps, BegunChange, StorageDoneChange,
     FolderDoneChange, TellChange DEF ChangeStep
<1> QED  BY <1>1, <1>2, <1>3 DEF Next

LEMMA ChangesAlways == Spec => [](TypeOK /\ ProbesOne /\ AuthorInv /\ AskedInv)
<1>1. Init => AuthorInv /\ AskedInv
  <2>1. Init => AuthorInv
    BY DEF Init, AuthorInv, Active, NoOp
  <2>2. Len(<<>>) = 0
    OBVIOUS
  <2>3. Init => AskedInv
    BY <2>2, Names DEF Init, AskedInv, Asked, Noted
  <2> QED  BY <2>1, <2>3
<1>2. TypeOK /\ AuthorInv /\ AskedInv /\ [Next]_vars => AuthorInv' /\ AskedInv'
  BY ChangeInvStep
<1> QED  BY <1>1, <1>2, TypeAlways, PTL DEF Spec

----------------------------------------------------------------------------
(* What a sync knows of the extensions it copies, removes and leaves. *)

\* An extension alone is removed only when it is gone for good.
RemoveInv == \A p \in Procs : pc[p] = "remove" => storage[job[p]] = "none"

\* No trace of an extension that was never in the storage.
NewInv ==
  \A e \in Exts : storage[e] = "none" /\ e \notin touched =>
    /\ \A m \in Machines : folder[m][e] = "none"
    /\ \A p \in Procs : work[p].listed[e] = "none" /\ e \notin work[p].open

\* What is cleaned up is gone for good.
StaleInv ==
  \A p \in Procs : \A e \in work[p].stale :
    /\ pc[p] \in {"list", "copy", "clean"} /\ storage[e] = "none" => e \in touched
    /\ pc[p] = "clean" \/ (pc[p] = "copy" /\ ~work[p].failed) => storage[e] = "none"

SyncInv == RemoveInv /\ NewInv /\ StaleInv

LEMMA StorageMoves ==
  ASSUME TypeOK, AuthorInv, [Next]_vars
  PROVE  /\ touched \subseteq touched'
         /\ \A e \in Exts :
              \/ storage'[e] = storage[e]
              \/ e \notin touched /\ e \in touched' /\ storage'[e] = "part"
              \/ /\ e \in touched /\ storage[e] = "part"
                 /\ storage'[e] \in {"none", "whole"}
<1>1. CASE UNCHANGED vars
  BY <1>1 DEF vars, placeVars, changeVars
<1>2. ASSUME NEW p \in Procs,
             \/ LoadStep(p) \/ Start(p) \/ Crash(p) \/ StorageFails(p) \/ ProbeFails(p)
      PROVE  storage' = storage /\ touched' = touched
  BY <1>2, SameChangesOfLoading DEF SameChanges
<1>3. ASSUME NEW p \in Procs,
             ReloadOwn(p) \/ ReloadUpdate(p) \/ Receive(p) \/ UpdateSetting(p)
      PROVE  storage' = storage /\ touched' = touched
  BY <1>3, SameChangesOfReloading DEF SameChanges
<1>4. ASSUME NEW p \in Procs, FolderDone(p) \/ Tell(p)
      PROVE  storage' = storage /\ touched' = touched
  BY <1>4 DEF FolderDone, Tell, placeVars
<1>5. ASSUME NEW p \in Procs, NEW e \in Exts, Install(p, e) \/ Uninstall(p, e)
      PROVE  /\ e \notin touched /\ touched' = touched \cup {e} /\ storage'[e] = "part"
             /\ \A x \in Exts \ {e} : storage'[x] = storage[x]
  BY <1>5 DEF Install, Uninstall, TypeOK
<1>6. ASSUME NEW p \in Procs, StorageDone(p)
      PROVE  /\ touched' = touched /\ op[p].item \in touched
             /\ storage[op[p].item] = "part" /\ storage'[op[p].item] \in {"none", "whole"}
             /\ \A x \in Exts \ {op[p].item} : storage'[x] = storage[x]
  <2>1. op[p].step \in {"upload", "delete"} /\ op[p].item \in Exts /\ Active(p)
    BY <1>6 DEF StorageDone, AuthorInv, Active
  <2>2. op[p].item \in touched /\ storage[op[p].item] = "part"
    BY <2>1 DEF AuthorInv, Found
  <2> QED  BY <1>6, <2>1, <2>2 DEF StorageDone, TypeOK
<1> QED  BY <1>1, <1>2, <1>3, <1>4, <1>5, <1>6 DEF Next, ChangeStep

\* A step that touches no file and begins none of the steps that do.
NoFiles ==
  /\ folder' = folder
  /\ \A q \in Procs :
       /\ work'[q] = work[q] \/ work'[q] = NoWork
       /\ \/ pc'[q] = pc[q] /\ job'[q] = job[q]
          \/ pc'[q] = pc[q] /\ pc[q] # "remove"
          \/ pc'[q] \notin {"remove", "list", "copy", "clean"}

LEMMA NoFilesKeeps ==
  ASSUME TypeOK, ProbesOne, AuthorInv, AskedInv, SyncInv, [Next]_vars, NoFiles
  PROVE  SyncInv'
<1>1. RemoveInv'
  <2>1. SUFFICES ASSUME NEW p \in Procs, pc'[p] = "remove"
                 PROVE  storage'[job'[p]] = "none"
    BY DEF RemoveInv
  <2>2. pc[p] = "remove" /\ job'[p] = job[p] /\ job[p] \in Exts
    BY <2>1 DEF NoFiles, ProbesOne
  <2>3. storage[job[p]] = "none" /\ job[p] \in touched
    BY <2>2 DEF SyncInv, RemoveInv, AskedInv, Asked
  <2> QED  BY <2>2, <2>3, StorageMoves
<1>2. NewInv'
  <2>1. \A e \in Exts : storage'[e] = "none" /\ e \notin touched'
                          => storage[e] = "none" /\ e \notin touched
    BY StorageMoves
  <2> QED  BY <2>1 DEF SyncInv, NewInv, NoFiles, NoWork, Nothing
<1>3. StaleInv'
  <2>1. SUFFICES ASSUME NEW p \in Procs, NEW e \in work'[p].stale
                 PROVE  /\ pc'[p] \in {"list", "copy", "clean"} /\ storage'[e] = "none"
                             => e \in touched'
                        /\ pc'[p] = "clean" \/ (pc'[p] = "copy" /\ ~work'[p].failed)
                             => storage'[e] = "none"
    BY DEF StaleInv
  <2>2. work'[p] = work[p] /\ e \in Exts
    <3>1. work[p].stale \subseteq Exts
      BY ProcType DEF WorkRecord
    <3> QED  BY <2>1, <3>1 DEF NoFiles, NoWork
  <2>3. CASE pc'[p] = pc[p]
    <3>1. /\ pc[p] \in {"list", "copy", "clean"} /\ storage[e] = "none" => e \in touched
          /\ pc[p] = "clean" \/ (pc[p] = "copy" /\ ~work[p].failed) => storage[e] = "none"
      BY <2>1, <2>2 DEF SyncInv, StaleInv
    <3> QED  BY <2>2, <2>3, <3>1, StorageMoves
  <2>4. CASE pc'[p] # pc[p]
    BY <2>4 DEF NoFiles
  <2> QED  BY <2>3, <2>4
<1> QED  BY <1>1, <1>2, <1>3 DEF SyncInv

LEMMA NoFilesSteps ==
  ASSUME TypeOK, NEW p \in Procs,
         \/ Check(p) \/ Count(p) \/ Subscribe(p) \/ Prepare(p) \/ Publish(p) \/ Release(p)
         \/ Settle(p) \/ ReadFolder(p) \/ ReadSettings(p) \/ Register(p)
         \/ Start(p) \/ Crash(p) \/ ProbeFails(p)
  PROVE  NoFiles
<1>1. CASE Check(p) \/ Count(p) \/ Subscribe(p) \/ Prepare(p) \/ Release(p)
  BY <1>1 DEF Check, Count, Subscribe, Prepare, Release, Goes, NoFiles, placeVars, TypeOK
<1>2. CASE Publish(p)
  BY <1>2 DEF Publish, NoFiles, placeVars, TypeOK
<1>3. ASSUME Dies(p), folder' = folder PROVE NoFiles
  <2>1. /\ pc'[p] = "down" /\ work'[p] = NoWork
        /\ \A q \in Procs \ {p} : pc'[q] = pc[q] /\ job'[q] = job[q] /\ work'[q] = work[q]
    BY <1>3 DEF Dies, Goes, TypeOK
  <2> QED  BY <1>3, <2>1 DEF NoFiles
<1>4. CASE Settle(p)
  <2>1. folder' = folder
    BY <1>4 DEF Settle
  <2>2. CASE Goes(p, "read") /\ work' = [work EXCEPT ![p] = NoWork] /\ job' = job
    BY <2>1, <2>2 DEF Goes, NoFiles, TypeOK
  <2> QED  BY <1>3, <1>4, <2>1, <2>2 DEF Settle
<1>5. CASE Crash(p)
  BY <1>3, <1>5 DEF Crash, placeVars
<1>6. CASE ReadFolder(p) \/ ReadSettings(p) \/ Start(p) \/ ProbeFails(p)
  BY <1>6 DEF ReadFolder, ReadSettings, Start, ProbeFails, Goes, NoFiles, placeVars, TypeOK
<1>7. CASE Register(p)
  <2>1. /\ folder' = folder /\ work' = work
        /\ pc'[p] \in {"idle", "check"}
        /\ \A q \in Procs \ {p} : pc'[q] = pc[q] /\ job'[q] = job[q]
    BY <1>7 DEF Register, NextJob, Goes, placeVars, TypeOK
  <2> QED  BY <2>1 DEF NoFiles
<1> QED  BY <1>1, <1>2, <1>4, <1>5, <1>6, <1>7

LEMMA NoFilesOfChanges ==
  ASSUME TypeOK, NEW p \in Procs, (ChangeStep(p) /\ ~FolderDone(p)) \/ Receive(p)
  PROVE  NoFiles
<1>1. CASE ReloadOwn(p) \/ ReloadUpdate(p) \/ Receive(p)
  <2>1. PICK r : Reload(p, r)
    BY <1>1 DEF ReloadOwn, ReloadUpdate, Receive
  <2>2. folder' = folder /\ work' = work
    BY <1>1 DEF ReloadOwn, ReloadUpdate, Receive, placeVars
  <2>3. \A q \in Procs : \/ pc'[q] = pc[q] /\ job'[q] = job[q]
                         \/ pc'[q] = "check"
    BY <2>1 DEF Reload, Goes, reloadVars, TypeOK
  <2> QED  BY <2>2, <2>3 DEF NoFiles
<1>2. CASE \/ StorageDone(p) \/ Tell(p) \/ UpdateSetting(p)
           \/ \E e \in Exts : Install(p, e) \/ Uninstall(p, e)
  BY <1>2 DEF StorageDone, Tell, UpdateSetting, Install, Uninstall, NoFiles, placeVars,
              reloadVars
<1> QED  BY <1>1, <1>2 DEF ChangeStep

\* What is known of the files of a process and of its machine.
LEMMA FileTypes ==
  ASSUME TypeOK, NEW p \in Procs
  PROVE  /\ home[p] \in Machines /\ work[p] \in WorkRecord
         /\ work \in [Procs -> WorkRecord] /\ pc \in [Procs -> Steps]
         /\ folder \in [Machines -> [Exts -> States]] /\ storage \in [Exts -> States]
BY ProcType DEF TypeOK, WorkRecord

\* A step of p's sync that leaves storage and changes alone keeps what holds of
\* the other processes.
LEMMA OthersSync ==
  ASSUME SyncInv, NEW p \in Procs,
         storage' = storage, touched' = touched, job' = job,
         \A q \in Procs \ {p} : pc'[q] = pc[q] /\ work'[q] = work[q],
         pc'[p] = "remove" => storage[job[p]] = "none",
         \A e \in Exts : storage[e] = "none" /\ e \notin touched =>
           /\ \A m \in Machines : folder'[m][e] = "none"
           /\ work'[p].listed[e] = "none" /\ e \notin work'[p].open,
         \A e \in work'[p].stale :
           /\ pc'[p] \in {"list", "copy", "clean"} /\ storage[e] = "none" => e \in touched
           /\ pc'[p] = "clean" \/ (pc'[p] = "copy" /\ ~work'[p].failed)
                => storage[e] = "none"
  PROVE  SyncInv'
<1>1. RemoveInv'
  BY DEF SyncInv, RemoveInv
<1>2. NewInv'
  BY DEF SyncInv, NewInv
<1>3. StaleInv'
  BY DEF SyncInv, StaleInv
<1> QED  BY <1>1, <1>2, <1>3 DEF SyncInv

LEMMA SyncOfListing ==
  ASSUME TypeOK, ProbesOne, AuthorInv, AskedInv, SyncInv, NEW p \in Procs,
         Probe(p) \/ RemoveLocal(p) \/ Scan(p) \/ List(p)
  PROVE  SyncInv'
<1>0. /\ storage' = storage /\ touched' = touched /\ job' = job
      /\ \A q \in Procs \ {p} : pc'[q] = pc[q] /\ work'[q] = work[q]
  BY DEF Probe, RemoveLocal, Scan, List, Goes, placeVars, changeVars, TypeOK
<1>1. ASSUME NEW e \in Exts, storage[e] = "none", e \notin touched
      PROVE  /\ \A m \in Machines : folder[m][e] = "none"
             /\ work[p].listed[e] = "none" /\ e \notin work[p].open
  BY <1>1 DEF SyncInv, NewInv
<1>2. CASE Probe(p)
  <2>1. job[p] \in Exts /\ storage[job[p]] # "part"
    BY <1>2 DEF Probe, ProbesOne, AskedInv, Asked
  <2>2. /\ folder' = folder /\ work' = work /\ pc'[p] \in {"scan", "remove"}
        /\ pc'[p] = "remove" => storage[job[p]] = "none"
    BY <1>2, <2>1, FileTypes DEF Probe, Goes, placeVars, States
  <2> QED  BY <1>0, <1>1, <2>2, OthersSync
<1>3. CASE RemoveLocal(p)
  <2>1. /\ work' = work /\ pc'[p] = "publish"
        /\ \A m \in Machines, e \in Exts : folder'[m][e] \in {folder[m][e], "none"}
    BY <1>3, FileTypes DEF RemoveLocal, Goes
  <2> QED  BY <1>0, <1>1, <2>1, OthersSync
<1>4. CASE Scan(p)
  <2>1. /\ folder' = folder /\ pc'[p] = "list"
        /\ work'[p].listed = work[p].listed /\ work'[p].open = work[p].open
        /\ work'[p].stale = {e \in Scope(job[p]) : folder[home[p]][e] # "none"}
    BY <1>4, FileTypes DEF Scan, Goes, placeVars, WorkRecord
  <2>2. \A e \in work'[p].stale : storage[e] = "none" => e \in touched
    BY <1>1, <2>1, FileTypes DEF Scope
  <2> QED  BY <1>0, <1>1, <2>1, <2>2, OthersSync
<1>5. CASE List(p)
  <2>1. /\ folder' = folder /\ pc[p] = "list" /\ pc'[p] = "copy"
        /\ work'[p].listed = [e \in Exts |-> IF e \in Scope(job[p]) THEN storage[e]
                                                                  ELSE "none"]
        /\ work'[p].open = work[p].open
        /\ work'[p].stale = {e \in work[p].stale : storage[e] = "none"}
    BY <1>5, FileTypes DEF List, Goes, placeVars, WorkRecord
  <2>2. \A e \in work'[p].stale : storage[e] = "none" /\ e \in touched
    BY <2>1 DEF SyncInv, StaleInv
  <2> QED  BY <1>0, <1>1, <2>1, <2>2, OthersSync
<1> QED  BY <1>2, <1>3, <1>4, <1>5

LEMMA SyncOfCopying ==
  ASSUME TypeOK, SyncInv, NEW p \in Procs, NEW x \in Exts, Fetch(p, x) \/ Store(p, x)
  PROVE  SyncInv'
<1>0. /\ storage' = storage /\ touched' = touched /\ job' = job /\ pc' = pc
      /\ pc[p] = "copy"
  BY DEF Fetch, Store, reloadVars, changeVars
<1>1. ASSUME NEW e \in Exts, storage[e] = "none", e \notin touched
      PROVE  /\ \A m \in Machines : folder[m][e] = "none"
             /\ work[p].listed[e] = "none" /\ e \notin work[p].open /\ Gone(p, e)
  BY <1>1 DEF SyncInv, NewInv, Gone
<1>2. \A e \in work[p].stale : /\ storage[e] = "none" => e \in touched
                               /\ ~work[p].failed => storage[e] = "none"
  BY <1>0 DEF SyncInv, StaleInv
<1>3. /\ \A q \in Procs \ {p} : work'[q] = work[q]
      /\ work'[p].stale = work[p].stale /\ (work[p].failed => work'[p].failed)
      /\ work'[p].open \subseteq work[p].open
           \cup (IF Fetch(p, x) /\ Open(p, x) THEN {x} ELSE {})
      /\ \A e \in Exts : work'[p].listed[e] \in {work[p].listed[e], "none"}
      /\ \A m \in Machines, e \in Exts : folder'[m][e] # folder[m][e] =>
           e = x /\ (x \in work[p].open \/ ~Gone(p, x))
  <2>1. CASE Fetch(p, x)
    <3>1. CASE Open(p, x)
      BY <2>1, <3>1, FileTypes DEF Open, WorkRecord
    <3>2. CASE Skip(p, x)
      BY <3>2, FileTypes DEF Skip, WorkRecord
    <3>3. CASE Fail(p, x)
      BY <3>3, FileTypes DEF Fail, WorkRecord
    <3> QED  BY <2>1, <3>1, <3>2, <3>3 DEF Fetch
  <2>2. CASE Store(p, x)
    <3>1. CASE Save(p, x)
      BY <2>2, <3>1, FileTypes DEF Store, Save, WorkRecord
    <3>2. CASE Break(p, x)
      BY <3>2, FileTypes DEF Break, WorkRecord
    <3> QED  BY <2>2, <3>1, <3>2 DEF Store
  <2> QED  BY <2>1, <2>2
<1>4. ASSUME NEW e \in Exts, storage[e] = "none", e \notin touched
      PROVE  /\ \A m \in Machines : folder'[m][e] = "none"
             /\ work'[p].listed[e] = "none" /\ e \notin work'[p].open
  <2>1. e = x => ~Open(p, x)
    BY <1>1, <1>4 DEF Open
  <2> QED  BY <1>1, <1>3, <1>4, <2>1
<1> QED  BY <1>0, <1>2, <1>3, <1>4, OthersSync

LEMMA SyncOfCleaning ==
  ASSUME TypeOK, SyncInv, NEW p \in Procs, CopyEnds(p) \/ Clean(p) \/ StorageFails(p)
  PROVE  SyncInv'
<1>0. /\ storage' = storage /\ touched' = touched /\ job' = job
      /\ \A q \in Procs \ {p} : pc'[q] = pc[q] /\ work'[q] = work[q]
  BY DEF CopyEnds, Clean, StorageFails, Goes, placeVars, changeVars, TypeOK
<1>1. ASSUME NEW e \in Exts, storage[e] = "none", e \notin touched
      PROVE  /\ \A m \in Machines : folder[m][e] = "none"
             /\ work[p].listed[e] = "none" /\ e \notin work[p].open
             /\ pc[p] = "clean" => e \notin work[p].stale
  BY <1>1 DEF SyncInv, NewInv, StaleInv
<1>2. CASE CopyEnds(p)
  <2>1. /\ folder' = folder /\ work' = work /\ pc[p] = "copy"
        /\ \/ pc'[p] = "publish"
           \/ pc'[p] = "clean" /\ ~work[p].failed
    BY <1>2, FileTypes DEF CopyEnds, Goes, placeVars
  <2>2. \A e \in work[p].stale : /\ storage[e] = "none" => e \in touched
                                 /\ ~work[p].failed => storage[e] = "none"
    BY <2>1 DEF SyncInv, StaleInv
  <2> QED  BY <1>0, <1>1, <2>1, <2>2, OthersSync
<1>3. CASE Clean(p)
  <2>1. work' = work /\ pc[p] = "clean" /\ pc'[p] = "publish"
    BY <1>3, FileTypes DEF Clean, Goes
  <2>2. \A m \in Machines, e \in Exts : folder'[m][e] # folder[m][e] => e \in work[p].stale
    BY <1>3, FileTypes DEF Clean
  <2> QED  BY <1>0, <1>1, <2>1, <2>2, OthersSync
<1>4. CASE StorageFails(p)
  <2>1. /\ folder' = folder /\ pc[p] \in {"list", "copy"} /\ pc'[p] = "copy"
        /\ work'[p].failed /\ work'[p].stale = work[p].stale
        /\ work'[p].listed = work[p].listed /\ work'[p].open = work[p].open
    BY <1>4, FileTypes DEF StorageFails, Goes, placeVars, WorkRecord
  <2>2. \A e \in work[p].stale : storage[e] = "none" => e \in touched
    BY <2>1 DEF SyncInv, StaleInv
  <2> QED  BY <1>0, <1>1, <2>1, <2>2, OthersSync
<1> QED  BY <1>2, <1>3, <1>4

LEMMA SyncOfAuthor ==
  ASSUME TypeOK, AuthorInv, SyncInv, NEW p \in Procs, FolderDone(p)
  PROVE  SyncInv'
<1>1. op[p].step \in {"move", "unlink"} /\ op[p].item \in touched
  BY DEF FolderDone, AuthorInv, Active
<1>2. /\ storage' = storage /\ touched' = touched /\ job' = job /\ pc' = pc /\ work' = work
      /\ \A m \in Machines, e \in Exts : folder'[m][e] # folder[m][e] => e = op[p].item
  BY FileTypes DEF FolderDone, reloadVars
<1>3. \A e \in Exts : storage[e] = "none" /\ e \notin touched =>
        \A m \in Machines : folder'[m][e] = "none"
  BY <1>1, <1>2 DEF SyncInv, NewInv
<1> QED  BY <1>2, <1>3 DEF SyncInv, RemoveInv, NewInv, StaleInv

LEMMA SyncInvStep ==
  ASSUME TypeOK, ProbesOne, AuthorInv, AskedInv, SyncInv, [Next]_vars
  PROVE  SyncInv'
<1>1. CASE UNCHANGED vars
  BY <1>1, NoFilesKeeps DEF NoFiles, vars, placeVars, reloadVars
<1>2. ASSUME NEW p \in Procs,
             LoadStep(p) \/ Start(p) \/ Crash(p) \/ StorageFails(p) \/ ProbeFails(p)
      PROVE  SyncInv'
  BY <1>2, NoFilesSteps, NoFilesKeeps, SyncOfListing, SyncOfCopying, SyncOfCleaning
     DEF LoadStep, SyncStep
<1>3. ASSUME NEW p \in Procs, ChangeStep(p) \/ Receive(p)
      PROVE  SyncInv'
  BY <1>3, NoFilesOfChanges, NoFilesKeeps, SyncOfAuthor
<1> QED  BY <1>1, <1>2, <1>3 DEF Next

----------------------------------------------------------------------------
(* How a load begins and ends. *)

\* A process that starts syncs by force, and one whose sync failed ends.
LoadInv ==
  \A p \in Procs :
    /\ pc[p] = "down" => job[p] = "start"
    /\ work[p].failed => pc[p] \in {"copy", "publish", "release", "settle"}

\* A step of p changes the load of p only, and wakes others where it publishes.
LEMMA LoadEffect ==
  ASSUME TypeOK, NEW p \in Procs,
         \/ LoadStep(p) \/ ChangeStep(p) \/ Receive(p) \/ Start(p)
         \/ Crash(p) \/ StorageFails(p) \/ ProbeFails(p)
  PROVE  /\ home' = home
         /\ \A m \in Machines \ {home[p]} : statusFile'[m] = statusFile[m]
         /\ \A q \in Procs \ {p} :
              /\ job'[q] = job[q] /\ pending'[q] = pending[q] /\ work'[q] = work[q]
              /\ loaded'[q] = loaded[q] /\ dropped'[q] = dropped[q] /\ op'[q] = op[q]
              /\ \/ pc'[q] = pc[q]
                 \/ home[q] = home[p] /\ pc[q] = "wait" /\ pc'[q] = "read"
<1>1. CASE Check(p) \/ Count(p) \/ Subscribe(p) \/ Prepare(p) \/ Probe(p) \/ RemoveLocal(p)
           \/ Scan(p) \/ List(p)
  BY <1>1, FileTypes DEF Check, Count, Subscribe, Prepare, Probe, RemoveLocal, Scan, List,
     Goes, placeVars, loadVars, changeVars, historyVars, TypeOK
<1>2. CASE CopyEnds(p) \/ Clean(p) \/ Publish(p) \/ Release(p)
  BY <1>2, FileTypes DEF CopyEnds, Clean, Publish, Release, Goes, placeVars, loadVars,
     changeVars, historyVars, TypeOK
<1>3. ASSUME NEW e \in Exts, Fetch(p, e) \/ Store(p, e)
      PROVE  /\ UNCHANGED <<home, statusFile, reloadVars, loaded, dropped, op>>
             /\ \A q \in Procs \ {p} : work'[q] = work[q]
  BY <1>3, FileTypes DEF Fetch, Store, Open, Skip, Fail, Save, Break, loadVars, changeVars,
     historyVars
<1>4. ASSUME Dies(p)
      PROVE  /\ home' = home
             /\ \A q \in Procs \ {p} :
                  /\ job'[q] = job[q] /\ pending'[q] = pending[q] /\ work'[q] = work[q]
                  /\ loaded'[q] = loaded[q] /\ dropped'[q] = dropped[q]
                  /\ op'[q] = op[q] /\ pc'[q] = pc[q]
  BY <1>4 DEF Dies, Goes, TypeOK
<1>5. CASE Settle(p)
  <2>1. \A m \in Machines \ {home[p]} : statusFile'[m] = statusFile[m]
    BY <1>5 DEF Settle, TypeOK
  <2>2. CASE /\ Goes(p, "read") /\ work' = [work EXCEPT ![p] = NoWork]
             /\ UNCHANGED <<home, job, pending, loadVars, changeVars, dropped>>
    BY <2>1, <2>2 DEF Goes, TypeOK, loadVars, changeVars
  <2> QED  BY <1>4, <1>5, <2>1, <2>2 DEF Settle
<1>6. CASE Crash(p)
  BY <1>4, <1>6 DEF Crash, placeVars
<1>7. CASE ReadFolder(p) \/ ReadSettings(p) \/ Start(p) \/ StorageFails(p) \/ ProbeFails(p)
  BY <1>7 DEF ReadFolder, ReadSettings, Start, StorageFails, ProbeFails, Goes, TypeOK,
     placeVars, loadVars, changeVars, historyVars
<1>8. CASE Register(p)
  <2>1. UNCHANGED <<home, statusFile, work, loaded, dropped>>
    BY <1>8 DEF Register, placeVars, historyVars
  <2>2. \A q \in Procs \ {p} : /\ pc'[q] = pc[q] /\ job'[q] = job[q]
                               /\ pending'[q] = pending[q] /\ op'[q] = op[q]
    BY <1>8 DEF Register, NextJob, Done, Goes, TypeOK
  <2> QED  BY <2>1, <2>2
<1>9. ASSUME NEW r, Reload(p, r)
      PROVE  \A q \in Procs \ {p} : /\ pc'[q] = pc[q] /\ job'[q] = job[q]
                                    /\ pending'[q] = pending[q] /\ dropped'[q] = dropped[q]
  BY <1>9 DEF Reload, Goes, reloadVars, TypeOK
<1>10. CASE ReloadOwn(p) \/ ReloadUpdate(p) \/ Receive(p)
  <2>1. \E r : Reload(p, r)
    BY <1>10 DEF ReloadOwn, ReloadUpdate, Receive
  <2>2. UNCHANGED <<home, statusFile, work, loaded>>
    BY <1>10 DEF ReloadOwn, ReloadUpdate, Receive, placeVars, loadVars
  <2>3. \A q \in Procs \ {p} : op'[q] = op[q]
    BY <1>10 DEF ReloadOwn, ReloadUpdate, Receive, Moves, changeVars, TypeOK
  <2> QED  BY <1>9, <2>1, <2>2, <2>3
<1>11. CASE \/ StorageDone(p) \/ FolderDone(p) \/ Tell(p) \/ UpdateSetting(p)
            \/ \E e \in Exts : Install(p, e) \/ Uninstall(p, e)
  <2>1. UNCHANGED <<home, statusFile, reloadVars, work, loaded, dropped>>
    BY <1>11 DEF StorageDone, FolderDone, Tell, UpdateSetting, Install, Uninstall,
       placeVars, loadVars, historyVars
  <2>2. \A q \in Procs \ {p} : op'[q] = op[q]
    BY <1>11 DEF StorageDone, FolderDone, Tell, UpdateSetting, Install, Uninstall, Begins,
       Moves, TypeOK
  <2> QED  BY <2>1, <2>2 DEF reloadVars
<1> QED
  BY <1>1, <1>2, <1>3, <1>5, <1>6, <1>7, <1>8, <1>10, <1>11
     DEF LoadStep, SyncStep, ChangeStep, reloadVars

\* The steps of a load that leave the status file and the request alone.
Onward(p) ==
  \/ pc[p] = "down" /\ pc'[p] = "check"
  \/ pc[p] = "check" /\ pc'[p] = "count"
  \/ pc[p] = "count" /\ pc'[p] \in {"prepare", "subscribe"}
  \/ pc[p] = "subscribe" /\ pc'[p] = "wait"
  \/ pc[p] = "probe" /\ pc'[p] \in {"scan", "remove", "publish"}
  \/ pc[p] = "scan" /\ pc'[p] = "list"
  \/ pc[p] \in {"list", "copy"} /\ pc'[p] = "copy"
  \/ pc[p] = "copy" /\ pc'[p] = "clean"
  \/ pc[p] \in {"copy", "remove", "clean"} /\ pc'[p] = "publish"
  \/ pc[p] = "publish" /\ pc'[p] = "release"
  \/ pc[p] = "release" /\ pc'[p] = "settle"
  \/ pc[p] = "read" /\ pc'[p] = "settings"
  \/ pc[p] = "settings" /\ pc'[p] = "register"

\* How the load of p itself goes on.
LEMMA OwnLoadEffect ==
  ASSUME TypeOK, NEW p \in Procs,
         \/ LoadStep(p) \/ ChangeStep(p) \/ Receive(p) \/ Start(p)
         \/ Crash(p) \/ StorageFails(p) \/ ProbeFails(p)
  PROVE  \/ /\ pc'[p] = pc[p] /\ job'[p] = job[p]
            /\ statusFile'[home[p]] = statusFile[home[p]]
            /\ work'[p].failed => work[p].failed \/ pc[p] = "copy"
         \/ /\ pc'[p] = "down" /\ job'[p] = "start" /\ ~work'[p].failed
         \/ /\ pc[p] = "idle" /\ pc'[p] = "check" /\ work'[p] = work[p]
            /\ statusFile'[home[p]] = statusFile[home[p]]
         \/ /\ pc[p] = "register" /\ pc'[p] \in {"idle", "check"} /\ work'[p] = work[p]
            /\ statusFile'[home[p]] = statusFile[home[p]]
         \/ /\ pc[p] = "settle" /\ pc'[p] = "read" /\ ~work'[p].failed
            /\ statusFile'[home[p]] = FALSE
         \/ /\ pc[p] = "prepare" /\ pc'[p] \in {"probe", "scan"} /\ work'[p] = work[p]
            /\ job'[p] = job[p] /\ statusFile'[home[p]] = TRUE
         \/ /\ job'[p] = job[p] /\ statusFile'[home[p]] = statusFile[home[p]]
            /\ Onward(p) /\ (pc'[p] = "clean" => ~work'[p].failed)
            /\ work'[p].failed => work[p].failed \/ pc'[p] = "copy"
         \/ /\ pc[p] = "check" /\ pc'[p] = "read" /\ job'[p] = job[p] /\ work'[p] = work[p]
            /\ statusFile' = statusFile
            /\ job[p] = "own" \/ (job[p] # "start" /\ statusFile[home[p]])
<1>1. CASE Check(p) \/ Prepare(p)
  <2>1. CASE Check(p)
    BY <2>1, FileTypes DEF Check, Goes, placeVars, Onward
  <2>2. CASE Prepare(p)
    <3>1. statusFile'[home[p]] = TRUE
      BY <2>2, FileTypes DEF Prepare, TypeOK
    <3> QED  BY <2>2, <3>1, FileTypes DEF Prepare, Goes
  <2> QED  BY <1>1, <2>1, <2>2
<1>2. CASE \/ Count(p) \/ Subscribe(p) \/ Probe(p) \/ RemoveLocal(p)
           \/ Clean(p) \/ Publish(p) \/ Release(p)
  <2>1. Onward(p) /\ pc'[p] # "clean"
    BY <1>2, FileTypes DEF Count, Subscribe, Probe, RemoveLocal, Clean, Publish, Release,
       Goes, Onward
  <2>2. job' = job /\ statusFile' = statusFile /\ work' = work
    BY <1>2 DEF Count, Subscribe, Probe, RemoveLocal, Clean, Publish, Release, placeVars
  <2> QED  BY <2>1, <2>2
<1>3. CASE Scan(p) \/ List(p) \/ StorageFails(p)
  <2>1. Onward(p) /\ pc'[p] # "clean"
    BY <1>3, FileTypes DEF Scan, List, StorageFails, Goes, Onward
  <2>2. job' = job /\ statusFile' = statusFile
    BY <1>3 DEF Scan, List, StorageFails, placeVars
  <2>3. work'[p].failed => work[p].failed \/ pc'[p] = "copy"
    <3>1. CASE Scan(p) \/ List(p)
      <4>1. Scan(p) => work'[p].failed = work[p].failed
        BY FileTypes DEF Scan, WorkRecord
      <4>2. List(p) => pc'[p] = "copy"
        BY FileTypes DEF List, Goes
      <4> QED  BY <3>1, <4>1, <4>2
    <3>2. CASE StorageFails(p)
      BY <3>2, FileTypes DEF StorageFails, Goes
    <3> QED  BY <1>3, <3>1, <3>2
  <2> QED  BY <2>1, <2>2, <2>3
<1>4. CASE CopyEnds(p)
  <2>1. Onward(p) /\ (pc'[p] = "clean" => ~work[p].failed)
    BY <1>4, FileTypes DEF CopyEnds, Goes, Onward
  <2>2. job' = job /\ statusFile' = statusFile /\ work' = work
    BY <1>4 DEF CopyEnds, placeVars
  <2> QED  BY <2>1, <2>2
<1>5. CASE \E e \in Exts : Fetch(p, e) \/ Store(p, e)
  BY <1>5, FileTypes DEF Fetch, Store, reloadVars
<1>6. ASSUME Dies(p)
      PROVE  pc'[p] = "down" /\ job'[p] = "start" /\ ~work'[p].failed
  BY <1>6, FileTypes DEF Dies, Goes, NoWork, TypeOK
<1>7. CASE Settle(p)
  <2>1. CASE /\ Goes(p, "read") /\ work' = [work EXCEPT ![p] = NoWork]
    <3>1. statusFile'[home[p]] = FALSE
      BY <1>7, FileTypes DEF Settle, TypeOK
    <3> QED  BY <1>7, <2>1, <3>1, FileTypes DEF Settle, Goes, NoWork
  <2> QED  BY <1>6, <1>7, <2>1 DEF Settle
<1>8. CASE Crash(p)
  BY <1>6, <1>8 DEF Crash
<1>9. CASE ReadFolder(p) \/ ReadSettings(p) \/ Start(p) \/ ProbeFails(p)
  <2>1. Onward(p) /\ pc'[p] # "clean"
    BY <1>9, FileTypes DEF ReadFolder, ReadSettings, Start, ProbeFails, Goes, Onward
  <2>2. job' = job /\ statusFile' = statusFile /\ work' = work
    BY <1>9 DEF ReadFolder, ReadSettings, Start, ProbeFails, placeVars
  <2> QED  BY <2>1, <2>2
<1>10. CASE Register(p)
  BY <1>10, FileTypes DEF Register, NextJob, Goes, placeVars
<1>11. CASE ReloadOwn(p) \/ ReloadUpdate(p) \/ Receive(p)
  <2>1. \E r : Reload(p, r)
    BY <1>11 DEF ReloadOwn, ReloadUpdate, Receive
  <2>2. statusFile' = statusFile /\ work' = work
    BY <1>11 DEF ReloadOwn, ReloadUpdate, Receive, placeVars
  <2> QED  BY <2>1, <2>2, FileTypes DEF Reload, Goes, reloadVars
<1>12. CASE \/ StorageDone(p) \/ FolderDone(p) \/ Tell(p) \/ UpdateSetting(p)
            \/ \E e \in Exts : Install(p, e) \/ Uninstall(p, e)
  BY <1>12 DEF StorageDone, FolderDone, Tell, UpdateSetting, Install, Uninstall,
     placeVars, reloadVars
<1> QED
  BY <1>1, <1>2, <1>3, <1>4, <1>5, <1>7, <1>8, <1>9, <1>10, <1>11, <1>12
     DEF LoadStep, SyncStep, ChangeStep

LEMMA LoadInvStep ==
  ASSUME TypeOK, LoadInv, StatusFileTells, [Next]_vars
  PROVE  LoadInv' /\ StatusFileTells'
<1>1. CASE UNCHANGED vars
  BY <1>1 DEF LoadInv, StatusFileTells, Alone, vars, placeVars, reloadVars
<1>2. ASSUME NEW p \in Procs,
             \/ LoadStep(p) \/ ChangeStep(p) \/ Receive(p) \/ Start(p)
             \/ Crash(p) \/ StorageFails(p) \/ ProbeFails(p)
      PROVE  LoadInv' /\ StatusFileTells'
  <2>1. /\ home' = home
        /\ \A m \in Machines \ {home[p]} : statusFile'[m] = statusFile[m]
        /\ \A q \in Procs \ {p} :
             /\ job'[q] = job[q] /\ work'[q] = work[q]
             /\ \/ pc'[q] = pc[q]
                \/ home[q] = home[p] /\ pc[q] = "wait" /\ pc'[q] = "read"
    BY <1>2, LoadEffect
  <2>2. LoadInv'
    <3>1. \A q \in Procs \ {p} :
            /\ pc'[q] = "down" => job'[q] = "start"
            /\ work'[q].failed => pc'[q] \in {"copy", "publish", "release", "settle"}
      BY <2>1 DEF LoadInv
    <3>2. /\ pc'[p] = "down" => job'[p] = "start"
          /\ work'[p].failed => pc'[p] \in {"copy", "publish", "release", "settle"}
      <4>1. /\ pc[p] = "down" => job[p] = "start"
            /\ work[p].failed => pc[p] \in {"copy", "publish", "release", "settle"}
        BY DEF LoadInv
      <4>2. pc'[p] = "down" => job'[p] = "start"
        BY <1>2, <4>1, OwnLoadEffect DEF Onward
      <4>3. work'[p].failed => pc'[p] \in {"copy", "publish", "release", "settle"}
        BY <1>2, <4>1, OwnLoadEffect DEF Onward
      <4> QED  BY <4>2, <4>3
    <3> QED  BY <3>1, <3>2 DEF LoadInv
  <2>3. ASSUME NEW q \in Procs, Alone(q)'
        PROVE  /\ pc'[q] \in Syncing => statusFile'[home'[q]]
               /\ statusFile'[home'[q]] => \/ pc'[q] \in Syncing \cup {"down"}
                                           \/ pc'[q] \in Starting /\ job'[q] = "start"
    <3>1. Alone(q) /\ home[q] \in Machines
      BY <2>1, <2>3, FileTypes DEF Alone
    <3>2. /\ pc[q] \in Syncing => statusFile[home[q]]
          /\ statusFile[home[q]] => \/ pc[q] \in Syncing \cup {"down"}
                                    \/ pc[q] \in Starting /\ job[q] = "start"
      BY <3>1 DEF StatusFileTells
    <3>3. CASE q = p
      <4>1. pc'[p] \in Syncing => statusFile'[home'[p]]
        BY <1>2, <2>1, <3>2, <3>3, OwnLoadEffect DEF Onward, Syncing
      <4>2. statusFile'[home'[p]] => \/ pc'[p] \in Syncing \cup {"down"}
                                     \/ pc'[p] \in Starting /\ job'[p] = "start"
        <5>1. CASE pc[p] = "down"
          BY <1>2, <5>1, OwnLoadEffect DEF LoadInv, Onward, Starting
        <5>2. CASE pc[p] = "prepare" \/ ~statusFile[home[p]]
          BY <1>2, <2>1, <3>2, <3>3, <5>2, OwnLoadEffect DEF Syncing, Starting, Onward
        <5>3. CASE pc[p] \in Syncing \/ (pc[p] \in Starting /\ job[p] = "start")
          BY <1>2, <2>1, <5>3, OwnLoadEffect DEF Syncing, Starting, Onward
        <5> QED  BY <3>2, <3>3, <5>1, <5>2, <5>3
      <4> QED  BY <3>3, <4>1, <4>2
    <3>4. CASE q # p
      <4>1. home[q] # home[p]
        BY <3>1, <3>4 DEF Alone
      <4> QED  BY <2>1, <3>1, <3>2, <3>4, <4>1 DEF Syncing
    <3> QED  BY <3>3, <3>4
  <2> QED  BY <2>2, <2>3 DEF StatusFileTells
<1> QED  BY <1>1, <1>2 DEF Next

----------------------------------------------------------------------------
(* A whole extension of the storage arrives at every process that is told. *)

\* The request r syncs e.
Covers(r, e) == r # "own" /\ e \in Scope(r)

\* p has a request for e in its queue, or a message, or will get one.
Coming(p, e) ==
  \/ pending[p] # None /\ Covers(pending[p], e)
  \/ Noted(p, e)
  \/ \E q \in Procs \ {p} : op[q].item = e /\ op[q].step \in {"move", "tell"}

\* The sync under way at p will list e.
Fetching(p, e) ==
  Covers(job[p], e) /\ pc[p] \in {"check", "count", "prepare", "probe", "scan", "list"}

\* p waits for a process of its machine that is no more, or will end itself.
Lost(p) == pc[p] \in {"subscribe", "wait"} \/ work[p].failed

\* e is in the folder of p, or among what p will copy there.
Has(p, e) ==
  \/ folder[home[p]][e] = "whole"
  \/ pc[p] = "copy" /\ work[p].listed[e] = "whole"

\* p has read e from its folder, or is yet to read its folder.
WillRead(p, e) ==
  \/ loaded[p][e] = "whole"
  \/ pc[p] \notin {"idle", "down", "settings", "register"}
  \/ pending[p] # None
  \/ op[p].item = e /\ op[p].step \in {"tell", "reload"}

Arrives(p, e) ==
  \/ Coming(p, e) \/ Fetching(p, e) \/ Lost(p)
  \/ op[p].item = e /\ op[p].step = "move"
  \/ Has(p, e) /\ WillRead(p, e)

ArrivesInv ==
  \A p \in Procs : Alone(p) /\ pc[p] # "down" =>
    \A e \in Exts \ (missed[p] \cup dropped[p]) : storage[e] = "whole" => Arrives(p, e)

LEMMA CoversAll ==
  ASSUME NEW e \in Exts
  PROVE  /\ \A r \in {"start", "update", "all"} : Covers(r, e)
         /\ Covers(e, e) /\ ~Covers("own", e)
         /\ \A r \in Exts : Covers(r, e) => r = e
BY Names DEF Covers, Scope

\* The files of other machines are out of p's reach.
LEMMA FolderEffect ==
  ASSUME TypeOK, NEW p \in Procs,
         \/ LoadStep(p) \/ ChangeStep(p) \/ Receive(p) \/ Start(p)
         \/ Crash(p) \/ StorageFails(p) \/ ProbeFails(p)
  PROVE  \A m \in Machines \ {home[p]} : folder'[m] = folder[m]
<1>1. CASE \/ Check(p) \/ Count(p) \/ Subscribe(p) \/ Prepare(p) \/ Publish(p) \/ Release(p)
           \/ Settle(p) \/ ReadFolder(p) \/ ReadSettings(p) \/ Register(p)
           \/ Start(p) \/ Crash(p) \/ ProbeFails(p)
  BY <1>1, NoFilesSteps DEF NoFiles
<1>2. CASE (ChangeStep(p) /\ ~FolderDone(p)) \/ Receive(p)
  BY <1>2, NoFilesOfChanges DEF NoFiles
<1>3. CASE Probe(p) \/ Scan(p) \/ List(p) \/ CopyEnds(p) \/ StorageFails(p)
  BY <1>3 DEF Probe, Scan, List, CopyEnds, StorageFails, placeVars
<1>4. CASE RemoveLocal(p) \/ Clean(p) \/ FolderDone(p)
  BY <1>4, FileTypes DEF RemoveLocal, Clean, FolderDone
<1>5. ASSUME NEW e \in Exts, Fetch(p, e) \/ Store(p, e)
      PROVE  \A m \in Machines \ {home[p]} : folder'[m] = folder[m]
  BY <1>5, FileTypes DEF Fetch, Store, Open, Skip, Fail, Save, Break
<1> QED  BY <1>1, <1>2, <1>3, <1>4, <1>5 DEF LoadStep, SyncStep, ChangeStep

\* What a process was not told of stays on record.
LEMMA HistoryGrows ==
  ASSUME TypeOK, NEW p \in Procs,
         \/ LoadStep(p) \/ ChangeStep(p) \/ Receive(p) \/ Start(p)
         \/ Crash(p) \/ StorageFails(p) \/ ProbeFails(p)
  PROVE  \A q \in Procs : pc[q] # "down" /\ pc'[q] # "down" =>
           missed[q] \subseteq missed'[q] /\ dropped[q] \subseteq dropped'[q]
<1>1. CASE SyncStep(p) /\ ~Settle(p)
  BY <1>1 DEF SyncStep, Check, Count, Subscribe, Prepare, Probe, RemoveLocal, Scan, List,
     CopyEnds, Clean, Publish, Release, Fetch, Store, historyVars
<1>2. ASSUME Dies(p)
      PROVE  \A q \in Procs : pc[q] # "down" /\ pc'[q] # "down" =>
               missed[q] \subseteq missed'[q] /\ dropped[q] \subseteq dropped'[q]
  BY <1>2 DEF Dies, Goes, TypeOK
<1>3. CASE Settle(p) \/ Crash(p)
  BY <1>2, <1>3 DEF Settle, Crash
<1>4. CASE ReadFolder(p) \/ ReadSettings(p) \/ Register(p) \/ Start(p) \/ StorageFails(p)
  BY <1>4 DEF ReadFolder, ReadSettings, Register, Start, StorageFails, historyVars
<1>5. CASE ProbeFails(p)
  BY <1>5 DEF ProbeFails, TypeOK
<1>6. CASE ReloadOwn(p) \/ ReloadUpdate(p) \/ Receive(p)
  <2>1. missed' = missed /\ \E r : Reload(p, r)
    BY <1>6 DEF ReloadOwn, ReloadUpdate, Receive
  <2>2. PICK r : Reload(p, r)
    BY <2>1
  <2>3. dropped' = dropped \/ dropped' = [dropped EXCEPT ![p] = @ \cup ({r} \cap Exts)]
    BY <2>2 DEF Reload
  <2>4. ASSUME NEW q \in Procs PROVE dropped[q] \subseteq dropped'[q]
    <3>1. dropped'[q] = dropped[q] \/ dropped'[q] = dropped[q] \cup ({r} \cap Exts)
      BY <2>3 DEF TypeOK
    <3> QED  BY <3>1
  <2> QED  BY <2>1, <2>4
<1>7. CASE Tell(p)
  BY <1>7, TellEffect DEF Tell
<1>8. CASE \/ StorageDone(p) \/ FolderDone(p) \/ UpdateSetting(p)
           \/ \E e \in Exts : Install(p, e) \/ Uninstall(p, e)
  BY <1>8 DEF StorageDone, FolderDone, UpdateSetting, Install, Uninstall, historyVars
<1> QED  BY <1>1, <1>3, <1>4, <1>5, <1>6, <1>7, <1>8 DEF LoadStep, ChangeStep

\* What a step of p does for another process of the changes p makes, and of its
\* messages.
LEMMA OthersHear ==
  ASSUME TypeOK, AuthorInv, NEW p \in Procs, NEW q \in Procs \ {p}, NEW e \in Exts,
         pc[q] # "down",
         \/ LoadStep(p) \/ ChangeStep(p) \/ Receive(p) \/ Start(p)
         \/ Crash(p) \/ StorageFails(p) \/ ProbeFails(p)
  PROVE  /\ Noted(q, e) => Noted(q, e)'
         /\ op[p].item = e /\ op[p].step \in {"move", "tell"} =>
              \/ op'[p].item = e /\ op'[p].step \in {"move", "tell"}
              \/ Noted(q, e)' \/ e \in missed'[q]
<1>1. CASE \/ SyncStep(p) /\ ~Settle(p)
           \/ ReadFolder(p) \/ ReadSettings(p) \/ Start(p) \/ StorageFails(p)
           \/ ProbeFails(p)
  BY <1>1, SameChangesOfSync DEF Noted
<1>2. ASSUME Dies(p)
      PROVE  /\ Noted(q, e) => Noted(q, e)'
             /\ op[p].item = e /\ op[p].step \in {"move", "tell"} => e \in missed'[q]
  BY <1>2 DEF Dies, Untold, Noted, TypeOK
<1>3. CASE Settle(p)
  <2>1. CASE UNCHANGED <<notices, changeVars>>
    BY <2>1 DEF Noted, changeVars
  <2> QED  BY <1>2, <1>3, <2>1 DEF Settle
<1>4. CASE Crash(p)
  BY <1>2, <1>4 DEF Crash
<1>5. CASE Register(p)
  BY <1>5 DEF Register, Done, Noted, TypeOK
<1>6. CASE ReloadOwn(p) \/ ReloadUpdate(p)
  BY <1>6 DEF ReloadOwn, ReloadUpdate, Noted
<1>7. CASE Receive(p)
  BY <1>7 DEF Receive, Noted, changeVars, TypeOK
<1>8. CASE Tell(p)
  BY <1>8, TellEffect
<1>9. CASE FolderDone(p)
  BY <1>9 DEF FolderDone, Moves, Noted, TypeOK
<1>10. CASE StorageDone(p)
  BY <1>10 DEF StorageDone, Noted
<1>11. CASE \/ UpdateSetting(p) \/ \E x \in Exts : Install(p, x) \/ Uninstall(p, x)
  BY <1>11 DEF UpdateSetting, Install, Uninstall, MayChange, Noted
<1> QED
  BY <1>1, <1>3, <1>4, <1>5, <1>6, <1>7, <1>8, <1>9, <1>10, <1>11 DEF LoadStep, ChangeStep

\* An extension becomes whole by the step of who installs it.
LEMMA BecomesWhole ==
  ASSUME TypeOK, AuthorInv, NEW p \in Procs, NEW e \in Exts,
         storage[e] # "whole", storage'[e] = "whole",
         \/ LoadStep(p) \/ ChangeStep(p) \/ Receive(p) \/ Start(p)
         \/ Crash(p) \/ StorageFails(p) \/ ProbeFails(p)
  PROVE  op'[p].item = e /\ op'[p].step = "move"
<1>1. CASE LoadStep(p) \/ Start(p) \/ Crash(p) \/ StorageFails(p) \/ ProbeFails(p)
  BY <1>1, SameChangesOfLoading DEF SameChanges
<1>2. CASE ReloadOwn(p) \/ ReloadUpdate(p) \/ Receive(p) \/ UpdateSetting(p)
  BY <1>2, SameChangesOfReloading DEF SameChanges
<1>3. CASE FolderDone(p) \/ Tell(p)
  BY <1>3 DEF FolderDone, Tell, placeVars
<1>4. CASE \E x \in Exts : Install(p, x) \/ Uninstall(p, x)
  BY <1>4 DEF Install, Uninstall, TypeOK
<1>5. CASE StorageDone(p)
  BY <1>5 DEF StorageDone, Moves, TypeOK
<1> QED  BY <1>1, <1>2, <1>3, <1>4, <1>5 DEF ChangeStep

\* What arrives at a process arrives whatever another one does.
LEMMA ArrivesAtOthers ==
  ASSUME TypeOK, AuthorInv, ArrivesInv, NEW p \in Procs,
         \/ LoadStep(p) \/ ChangeStep(p) \/ Receive(p) \/ Start(p)
         \/ Crash(p) \/ StorageFails(p) \/ ProbeFails(p),
         NEW q \in Procs \ {p}, Alone(q), pc'[q] # "down",
         NEW e \in Exts, e \notin missed'[q], e \notin dropped'[q], storage'[e] = "whole"
  PROVE  Arrives(q, e)'
<1>1. /\ home' = home /\ home[q] # home[p] /\ home[q] \in Machines
      /\ pc'[q] = pc[q] /\ job'[q] = job[q] /\ pending'[q] = pending[q]
      /\ work'[q] = work[q] /\ loaded'[q] = loaded[q] /\ op'[q] = op[q]
      /\ folder'[home[q]] = folder[home[q]]
      /\ \A r \in Procs \ {p} : op'[r] = op[r]
  BY LoadEffect, FolderEffect, FileTypes DEF Alone
<1>2. CASE storage[e] # "whole"
  BY <1>2, BecomesWhole DEF Arrives, Coming
<1>3. CASE storage[e] = "whole"
  <2>1. Arrives(q, e)
    BY <1>1, <1>3, HistoryGrows DEF ArrivesInv
  <2>2. Coming(q, e) => Coming(q, e)'
    BY <1>1, OthersHear DEF Coming
  <2> QED  BY <1>1, <2>1, <2>2 DEF Arrives, Fetching, Lost, Has, WillRead
<1> QED  BY <1>2, <1>3

\* What the load of p knows when it stands before a step of its own.
Ready(p, e) ==
  /\ TypeOK /\ ProbesOne /\ SyncInv /\ LoadInv /\ StatusFileTells /\ Alone(p)
  /\ storage[e] = "whole" /\ e \notin missed'[p]

\* What p has is read, or a sync of p is to get it.
Here(p, e) == Fetching(p, e) \/ Lost(p) \/ (Has(p, e) /\ WillRead(p, e))

\* The steps that come before the copying lead to it, or to waiting in vain.
LEMMA HereBeforeCopying ==
  ASSUME NEW p \in Procs, NEW e \in Exts, Ready(p, e), Here(p, e),
         \/ Check(p) \/ Count(p) \/ Subscribe(p) \/ Prepare(p) \/ Probe(p) \/ Scan(p)
         \/ ProbeFails(p)
  PROVE  Here(p, e)'
<1>1. /\ home' = home /\ folder' = folder /\ job' = job
      /\ work'[p].failed = work[p].failed /\ pc[p] # "copy"
  BY FileTypes DEF Ready, Check, Count, Subscribe, Prepare, Probe, Scan, ProbeFails, placeVars,
     WorkRecord
<1>2. ~work[p].failed
  BY DEF Ready, LoadInv, Check, Count, Subscribe, Prepare, Probe, Scan, ProbeFails
<1>3. /\ pc'[p] \in {"read", "count", "prepare", "subscribe", "wait", "probe", "scan",
                    "remove", "list", "publish"}
  BY FileTypes DEF Ready, Check, Count, Subscribe, Prepare, Probe, Scan, ProbeFails, Goes
<1>4. Has(p, e) => Has(p, e)' /\ WillRead(p, e)'
  BY <1>1, <1>3 DEF Has, WillRead
<1>5. CASE Fetching(p, e)
  <2>1. CASE Check(p)
    <3>1. pc[p] = "check" /\ job[p] # "own"
      BY <1>5, <2>1 DEF Check, Fetching, Covers
    <3>2. job[p] = "start" \/ ~statusFile[home[p]]
      BY <3>1 DEF Ready, StatusFileTells, Syncing, Starting
    <3>3. pc'[p] = "count"
      BY <2>1, <3>1, <3>2, FileTypes DEF Ready, Check, Goes
    <3> QED  BY <1>1, <1>5, <3>3 DEF Here, Fetching
  <2>2. CASE Count(p)
    BY <1>1, <1>5, <2>2, FileTypes DEF Ready, Count, Goes, Here, Fetching, Lost
  <2>3. CASE Subscribe(p)
    BY <1>5, <2>3 DEF Subscribe, Fetching
  <2>4. CASE Prepare(p) \/ Scan(p)
    BY <1>1, <1>5, <2>4, FileTypes DEF Ready, Prepare, Scan, Goes, Here, Fetching
  <2>5. CASE Probe(p) \/ ProbeFails(p)
    <3>1. job[p] = e
      BY <1>5, <2>5, CoversAll DEF Ready, ProbesOne, Probe, ProbeFails, Fetching
    <3>2. CASE Probe(p)
      BY <1>1, <1>5, <3>1, <3>2, FileTypes DEF Ready, Probe, Goes, Here, Fetching
    <3>3. CASE ProbeFails(p)
      BY <3>1, <3>3 DEF Ready, ProbeFails, TypeOK
    <3> QED  BY <2>5, <3>2, <3>3
  <2> QED  BY <2>1, <2>2, <2>3, <2>4, <2>5
<1>6. CASE Lost(p)
  BY <1>2, <1>6, FileTypes DEF Ready, Lost, Here, Check, Count, Subscribe, Prepare, Probe, Scan,
     ProbeFails, Goes
<1> QED  BY <1>4, <1>5, <1>6 DEF Here

\* Copying keeps what it has, or fails.
LEMMA HereCopying ==
  ASSUME NEW p \in Procs, NEW e \in Exts, Ready(p, e), Here(p, e),
         \/ List(p) \/ CopyEnds(p) \/ StorageFails(p)
         \/ \E x \in Exts : Fetch(p, x) \/ Store(p, x)
  PROVE  Here(p, e)'
<1>1. CASE List(p)
  <2>1. /\ home' = home /\ folder' = folder /\ pc[p] = "list" /\ pc'[p] = "copy"
        /\ e \in Scope(job[p]) => work'[p].listed[e] = "whole"
    BY <1>1, FileTypes DEF Ready, List, Goes, placeVars, WorkRecord
  <2>2. ~work[p].failed
    BY <2>1 DEF Ready, LoadInv
  <2>3. e \in Scope(job[p]) \/ folder[home[p]][e] = "whole"
    BY <2>1, <2>2 DEF Here, Fetching, Covers, Lost, Has
  <2> QED  BY <2>1, <2>3 DEF Here, Has, WillRead
<1>2. CASE StorageFails(p)
  <2>1. work'[p].failed
    BY <1>2, FileTypes DEF Ready, StorageFails, WorkRecord
  <2> QED  BY <2>1 DEF Here, Lost
<1>3. CASE CopyEnds(p)
  <2>1. /\ home' = home /\ folder' = folder /\ work' = work /\ pc[p] = "copy"
        /\ pc'[p] \in {"publish", "clean"}
        /\ work[p].failed \/ work[p].listed[e] = "none"
    BY <1>3, FileTypes DEF Ready, CopyEnds, Goes, placeVars
  <2> QED  BY <2>1 DEF Here, Fetching, Lost, Has, WillRead
<1>4. ASSUME NEW x \in Exts, Fetch(p, x)
      PROVE  Here(p, e)'
  <2>1. /\ home' = home /\ pc' = pc /\ pc[p] = "copy" /\ ~work[p].failed
        /\ Has(p, e)
    BY <1>4 DEF Fetch, reloadVars, Here, Fetching, Lost
  <2>2. CASE Open(p, x)
    <3>1. work'[p].listed = work[p].listed
      BY <2>2, FileTypes DEF Ready, Open, WorkRecord
    <3>2. \/ folder'[home[p]][e] = folder[home[p]][e]
          \/ work[p].listed[e] = "whole"
      BY <2>2, FileTypes DEF Ready, Open
    <3> QED  BY <2>1, <3>1, <3>2 DEF Here, Has, WillRead
  <2>3. CASE Skip(p, x)
    <3>1. folder' = folder /\ folder[home[p]][x] = "whole"
      BY <2>3 DEF Skip
    <3>2. e # x => work'[p].listed[e] = work[p].listed[e]
      BY <2>3, FileTypes DEF Ready, Skip, WorkRecord
    <3> QED  BY <2>1, <3>1, <3>2 DEF Here, Has, WillRead
  <2>4. CASE Fail(p, x)
    <3>1. work'[p].failed
      BY <2>4, FileTypes DEF Ready, Fail, WorkRecord
    <3> QED  BY <3>1 DEF Here, Lost
  <2> QED  BY <1>4, <2>2, <2>3, <2>4 DEF Fetch
<1>5. ASSUME NEW x \in Exts, Store(p, x)
      PROVE  Here(p, e)'
  <2>1. home' = home /\ pc' = pc /\ pc[p] = "copy"
    BY <1>5 DEF Store, reloadVars
  <2>2. CASE Save(p, x)
    <3>1. work'[p].failed = work[p].failed
      BY <2>2, FileTypes DEF Ready, Save, WorkRecord
    <3>2. CASE e = x
      <4>1. \/ work[p].listed[e] = "whole" /\ folder'[home[p]][e] = "whole"
            \/ /\ work[p].listed[e] # "whole"
               /\ folder[home[p]][e] = "whole" => folder'[home[p]][e] = "whole"
        BY <2>2, <3>2, FileTypes DEF Ready, Save
      <4> QED  BY <2>1, <3>1, <4>1 DEF Here, Fetching, Lost, Has, WillRead
    <3>3. CASE e # x
      <4>1. /\ work'[p].listed[e] = work[p].listed[e]
            /\ folder'[home[p]][e] = folder[home[p]][e]
        BY <2>2, <3>3, FileTypes DEF Ready, Save, WorkRecord
      <4> QED  BY <2>1, <3>1, <4>1 DEF Here, Fetching, Lost, Has, WillRead
    <3> QED  BY <3>2, <3>3
  <2>3. CASE Break(p, x)
    <3>1. work'[p].failed
      BY <2>3, FileTypes DEF Ready, Break, WorkRecord
    <3> QED  BY <3>1 DEF Here, Lost
  <2> QED  BY <1>5, <2>2, <2>3 DEF Store
<1> QED  BY <1>1, <1>2, <1>3, <1>4, <1>5

\* What has been copied stays in the folder until it is read.
LEMMA HereAfterCopying ==
  ASSUME NEW p \in Procs, NEW e \in Exts, Ready(p, e), Here(p, e), pc'[p] # "down",
         \/ RemoveLocal(p) \/ Clean(p) \/ Publish(p) \/ Release(p) \/ Settle(p)
         \/ ReadFolder(p) \/ ReadSettings(p)
  PROVE  Here(p, e)'
<1>1. CASE RemoveLocal(p)
  <2>1. /\ home' = home /\ pc[p] = "remove" /\ pc'[p] = "publish" /\ job[p] \in Exts
        /\ \A x \in Exts \ {job[p]} : folder'[home[p]][x] = folder[home[p]][x]
    BY <1>1, FileTypes DEF Ready, ProbesOne, RemoveLocal, Goes
  <2>2. ~work[p].failed /\ job[p] # e
    BY <2>1 DEF Ready, LoadInv, SyncInv, RemoveInv
  <2> QED  BY <2>1, <2>2 DEF Here, Fetching, Lost, Has, WillRead
<1>2. CASE Clean(p)
  <2>1. /\ home' = home /\ pc[p] = "clean" /\ pc'[p] = "publish"
        /\ \A x \in Exts \ work[p].stale : folder'[home[p]][x] = folder[home[p]][x]
    BY <1>2, FileTypes DEF Ready, Clean, Goes
  <2>2. ~work[p].failed /\ e \notin work[p].stale
    BY <2>1 DEF Ready, LoadInv, SyncInv, StaleInv
  <2> QED  BY <2>1, <2>2 DEF Here, Fetching, Lost, Has, WillRead
<1>3. CASE Publish(p) \/ Release(p)
  <2>1. /\ home' = home /\ folder' = folder /\ work' = work
        /\ pc[p] \in {"publish", "release"} /\ pc'[p] \in {"release", "settle"}
    BY <1>3, FileTypes DEF Ready, Publish, Release, Goes, placeVars
  <2> QED  BY <2>1 DEF Here, Fetching, Lost, Has, WillRead
<1>4. CASE Settle(p)
  <2>1. ~Dies(p)
    BY FileTypes DEF Ready, Dies, Goes
  <2>2. /\ home' = home /\ folder' = folder /\ ~work[p].failed
        /\ pc[p] = "settle" /\ pc'[p] = "read"
    BY <1>4, <2>1, FileTypes DEF Ready, Settle, Goes
  <2> QED  BY <2>2 DEF Here, Fetching, Lost, Has, WillRead
<1>5. CASE ReadFolder(p)
  <2>1. /\ home' = home /\ folder' = folder /\ pc[p] = "read"
        /\ loaded'[p] = folder[home[p]]
    BY <1>5 DEF Ready, ReadFolder, placeVars, TypeOK
  <2>2. ~work[p].failed
    BY <2>1 DEF Ready, LoadInv
  <2> QED  BY <2>1, <2>2 DEF Here, Fetching, Lost, Has, WillRead
<1>6. CASE ReadSettings(p)
  <2>1. /\ home' = home /\ folder' = folder /\ pending' = pending /\ op' = op
        /\ loaded' = loaded /\ pc[p] = "settings"
    BY <1>6 DEF ReadSettings, placeVars, changeVars
  <2>2. ~work[p].failed
    BY <2>1 DEF Ready, LoadInv
  <2> QED  BY <2>1, <2>2 DEF Here, Fetching, Lost, Has, WillRead
<1> QED  BY <1>1, <1>2, <1>3, <1>4, <1>5, <1>6

LEMMA ArrivesBySync ==
  ASSUME NEW p \in Procs, NEW e \in Exts, Ready(p, e), Arrives(p, e), pc'[p] # "down",
         \/ SyncStep(p) \/ ReadFolder(p) \/ ReadSettings(p)
         \/ StorageFails(p) \/ ProbeFails(p)
  PROVE  Arrives(p, e)'
<1>1. Here(p, e) => Here(p, e)'
  BY HereBeforeCopying, HereCopying, HereAfterCopying DEF SyncStep
<1>2. op' = op /\ pending' = pending /\ notices' = notices
  <2>1. CASE Settle(p)
    <3>1. ~Dies(p)
      BY FileTypes DEF Ready, Dies, Goes
    <3> QED  BY <2>1, <3>1 DEF Settle, changeVars
  <2>2. CASE ~Settle(p)
    BY <2>2, SameChangesOfSync DEF Ready
  <2> QED  BY <2>1, <2>2
<1>3. Coming(p, e) => Coming(p, e)'
  BY <1>2 DEF Coming, Noted
<1> QED  BY <1>1, <1>2, <1>3 DEF Arrives, Here

\* A load that ends has read e, or the next one is to.
LEMMA ArrivesByRegister ==
  ASSUME NEW p \in Procs, NEW e \in Exts, Ready(p, e), AuthorInv, QuietInv, Arrives(p, e),
         Register(p)
  PROVE  Arrives(p, e)'
<1>1. /\ home' = home /\ folder' = folder /\ work' = work /\ loaded' = loaded
      /\ notices' = notices /\ pc[p] = "register"
      /\ \A q \in Procs \ {p} : op'[q] = op[q]
  BY DEF Ready, Register, Done, placeVars, TypeOK
<1>2. ~Fetching(p, e) /\ ~Lost(p)
  BY <1>1 DEF Ready, LoadInv, Fetching, Lost
<1>3. op[p].item = e => op'[p] = op[p]
  BY Names DEF Ready, AuthorInv, Register, Done, TypeOK
<1>4. CASE pending[p] = None
  <2>1. pending' = pending
    BY <1>4 DEF Register, NextJob
  <2>2. Coming(p, e) => Coming(p, e)'
    BY <1>1, <1>4, <2>1 DEF Coming, Noted
  <2>3. Has(p, e) /\ WillRead(p, e) => Has(p, e)' /\ WillRead(p, e)'
    BY <1>1, <1>3, <1>4, <2>1 DEF Has, WillRead
  <2> QED  BY <1>2, <1>3, <2>2, <2>3 DEF Arrives
<1>5. CASE pending[p] # None
  <2>1. pc'[p] = "check" /\ job'[p] = pending[p]
    BY <1>5 DEF Ready, QuietInv, Register, NextJob, Goes, TypeOK
  <2>2. Coming(p, e) => Coming(p, e)' \/ Fetching(p, e)'
    BY <1>1, <2>1 DEF Coming, Noted, Fetching
  <2>3. Has(p, e) => Has(p, e)' /\ WillRead(p, e)'
    BY <1>1, <2>1 DEF Has, WillRead
  <2> QED  BY <1>2, <1>3, <2>2, <2>3 DEF Arrives
<1> QED  BY <1>4, <1>5

\* A reload asked for leaves p with what it had, and with a folder to read.
LEMMA HereByReload ==
  ASSUME NEW p \in Procs, NEW e \in Exts, Ready(p, e), QuietInv, NEW r \in Requests,
         Reload(p, r), UNCHANGED <<home, folder, work, loaded>>
  PROVE  /\ Here(p, e) => Here(p, e)'
         /\ pending[p] # None => pending'[p] = pending[p]
         /\ r = e => \/ Fetching(p, e)' \/ e \in dropped'[p]
                     \/ pending'[p] # None /\ Covers(pending'[p], e)
<1>1. \/ /\ pc[p] = "idle" /\ pc'[p] = "check" /\ job'[p] = r
         /\ pending[p] = None /\ pending'[p] = pending[p]
      \/ /\ pc[p] # "idle" /\ pc'[p] = pc[p] /\ job'[p] = job[p]
         /\ pending[p] = None /\ pending'[p] = r
      \/ /\ pc[p] # "idle" /\ pc'[p] = pc[p] /\ job'[p] = job[p]
         /\ pending[p] # None /\ pending'[p] = pending[p]
         /\ r \in Exts => r \in dropped'[p]
  BY DEF Ready, QuietInv, Reload, Goes, reloadVars, TypeOK
<1>2. r # None /\ (r = e => Covers(r, e))
  BY Constants, CoversAll DEF Requests
<1>3. pc'[p] = "check" \/ pending'[p] # None
  BY <1>1, <1>2
<1>4. WillRead(p, e)'
  BY <1>3 DEF WillRead
<1>5. Has(p, e) => Has(p, e)'
  BY <1>1 DEF Has
<1>6. (Fetching(p, e) => Fetching(p, e)') /\ (Lost(p) => Lost(p)')
  BY <1>1 DEF Fetching, Lost
<1>7. pending[p] # None => pending'[p] = pending[p]
  BY <1>1
<1>8. r = e => \/ Fetching(p, e)' \/ e \in dropped'[p]
               \/ pending'[p] # None /\ Covers(pending'[p], e)
  BY <1>1, <1>2 DEF Fetching
<1> QED  BY <1>4, <1>5, <1>6, <1>7, <1>8 DEF Here

LEMMA ArrivesByReload ==
  ASSUME NEW p \in Procs, NEW e \in Exts, Ready(p, e), QuietInv, Arrives(p, e),
         e \notin dropped'[p],
         ReloadOwn(p) \/ ReloadUpdate(p) \/ Receive(p)
  PROVE  Arrives(p, e)'
<1>1. UNCHANGED <<home, folder, work, loaded>>
  BY DEF ReloadOwn, ReloadUpdate, Receive, placeVars, loadVars
<1>2. \A q \in Procs \ {p} : op'[q] = op[q]
  BY DEF Ready, ReloadOwn, ReloadUpdate, Receive, Moves, changeVars, TypeOK
<1>3. CASE ReloadOwn(p) \/ ReloadUpdate(p)
  <2>1. PICK r \in {"own", "update"} : Reload(p, r)
    BY <1>3 DEF ReloadOwn, ReloadUpdate
  <2>2. r \in Requests
    BY DEF Requests
  <2>3. /\ Here(p, e) => Here(p, e)'
        /\ pending[p] # None => pending'[p] = pending[p]
    BY <1>1, <2>1, <2>2, HereByReload
  <2>4. notices' = notices /\ op[p].step = "reload"
    BY <1>3 DEF ReloadOwn, ReloadUpdate
  <2>5. Coming(p, e) => Coming(p, e)'
    BY <1>2, <2>3, <2>4 DEF Coming, Noted
  <2> QED  BY <2>3, <2>4, <2>5 DEF Arrives, Here
<1>4. CASE Receive(p)
  <2>1. /\ notices[p] \in Seq(Requests) /\ notices[p] # <<>>
        /\ Reload(p, Head(notices[p])) /\ Head(notices[p]) \in Requests
        /\ notices'[p] = Tail(notices[p]) /\ op' = op
    BY <1>4, ProcType DEF Ready, Receive, changeVars, TypeOK
  <2>2. /\ Here(p, e) => Here(p, e)'
        /\ pending[p] # None => pending'[p] = pending[p]
        /\ Head(notices[p]) = e =>
             Fetching(p, e)' \/ (pending'[p] # None /\ Covers(pending'[p], e))
    BY <1>1, <2>1, HereByReload
  <2>3. Noted(p, e) => Noted(p, e)' \/ Head(notices[p]) = e
    BY <2>1, NotedTail DEF Noted
  <2>4. Coming(p, e) => Coming(p, e)' \/ Fetching(p, e)'
    BY <2>1, <2>2, <2>3 DEF Coming
  <2> QED  BY <2>1, <2>2, <2>4 DEF Arrives, Here
<1> QED  BY <1>3, <1>4

LEMMA ArrivesByChange ==
  ASSUME NEW p \in Procs, NEW e \in Exts, Ready(p, e), AuthorInv, Arrives(p, e),
         \/ StorageDone(p) \/ FolderDone(p) \/ Tell(p) \/ UpdateSetting(p)
         \/ \E x \in Exts : Install(p, x) \/ Uninstall(p, x)
  PROVE  Arrives(p, e)'
<1>1. /\ home' = home /\ pc' = pc /\ job' = job /\ pending' = pending /\ work' = work
      /\ loaded' = loaded
      /\ \A q \in Procs \ {p} : op'[q] = op[q]
  BY DEF Ready, StorageDone, FolderDone, Tell, UpdateSetting, Install, Uninstall, Begins,
     Moves, placeVars, reloadVars, loadVars, TypeOK
<1>2. notices'[p] = notices[p]
  BY DEF Ready, StorageDone, FolderDone, Tell, UpdateSetting, Install, Uninstall, TypeOK
<1>3. Coming(p, e) => Coming(p, e)'
  BY <1>1, <1>2 DEF Coming, Noted
<1>4. Fetching(p, e) \/ Lost(p) => Fetching(p, e)' \/ Lost(p)'
  BY <1>1 DEF Fetching, Lost
<1>5. CASE FolderDone(p)
  <2>1. CASE op[p].item = e
    <3>1. Active(p) /\ op[p].step \in {"move", "unlink"}
      BY <1>5, <2>1 DEF FolderDone, Active
    <3>2. op[p].step = "move"
      BY <2>1, <3>1 DEF Ready, AuthorInv, Found
    <3>3. folder'[home[p]][e] = "whole" /\ op'[p].item = e /\ op'[p].step = "tell"
      BY <1>5, <2>1, <3>2, FileTypes DEF Ready, FolderDone, Moves, TypeOK
    <3> QED  BY <1>1, <3>3 DEF Arrives, Has, WillRead
  <2>2. CASE op[p].item # e
    <3>1. folder'[home[p]][e] = folder[home[p]][e]
      BY <1>5, <2>2, FileTypes DEF Ready, FolderDone
    <3>2. Has(p, e) /\ WillRead(p, e) => Has(p, e)' /\ WillRead(p, e)'
      BY <1>1, <2>2, <3>1 DEF Has, WillRead
    <3> QED  BY <1>3, <1>4, <2>2, <3>2 DEF Arrives
  <2> QED  BY <2>1, <2>2
<1>6. CASE ~FolderDone(p)
  <2>1. folder' = folder
    BY <1>6 DEF StorageDone, Tell, UpdateSetting, Install, Uninstall, placeVars
  <2>2. op[p].item = e /\ op[p].step \in {"move", "tell", "reload"} =>
          \/ op'[p] = op[p]
          \/ op[p].step = "tell" /\ op'[p].item = e /\ op'[p].step = "reload"
    BY <1>6, Names DEF Ready, StorageDone, Tell, UpdateSetting, Install, Uninstall, MayChange,
       Moves, TypeOK
  <2>3. Has(p, e) /\ WillRead(p, e) => Has(p, e)' /\ WillRead(p, e)'
    BY <1>1, <2>1, <2>2 DEF Has, WillRead
  <2> QED  BY <1>3, <1>4, <2>2, <2>3 DEF Arrives
<1> QED  BY <1>5, <1>6

LEMMA ArrivesInvStep ==
  ASSUME TypeOK, ProbesOne, AuthorInv, AskedInv, SyncInv, LoadInv, StatusFileTells,
         QuietInv, ArrivesInv, [Next]_vars
  PROVE  ArrivesInv'
<1>1. CASE UNCHANGED vars
  BY <1>1 DEF ArrivesInv, Alone, Arrives, Coming, Noted, Fetching, Lost, Has, WillRead, vars,
     placeVars, reloadVars, loadVars, changeVars, historyVars
<1>2. ASSUME NEW p \in Procs,
             \/ LoadStep(p) \/ ChangeStep(p) \/ Receive(p) \/ Start(p)
             \/ Crash(p) \/ StorageFails(p) \/ ProbeFails(p),
             NEW q \in Procs, Alone(q)', pc'[q] # "down",
             NEW e \in Exts, e \notin missed'[q], e \notin dropped'[q],
             storage'[e] = "whole"
      PROVE  Arrives(q, e)'
  <2>1. Alone(q)
    BY <1>2, LoadEffect DEF Alone
  <2>2. CASE q # p
    BY <1>2, <2>1, <2>2, ArrivesAtOthers
  <2>3. CASE q = p
    <3>1. CASE storage[e] # "whole"
      BY <1>2, <2>3, <3>1, BecomesWhole DEF Arrives
    <3>2. CASE pc[p] = "down"
      <4>1. pc'[p] = "check" /\ job'[p] = "start"
        BY <1>2, <2>3, <3>2, OwnLoadEffect DEF LoadInv, Onward
      <4> QED  BY <2>3, <4>1, CoversAll DEF Arrives, Fetching
    <3>3. CASE storage[e] = "whole" /\ pc[p] # "down"
      <4>1. Ready(p, e) /\ Arrives(p, e)
        BY <1>2, <2>1, <2>3, <3>3, HistoryGrows DEF Ready, ArrivesInv
      <4>2. ~Start(p) /\ ~Crash(p)
        BY <1>2, <2>3, <3>3, FileTypes DEF Start, Crash, Dies, Goes
      <4> QED  BY <1>2, <2>3, <4>1, <4>2, ArrivesBySync, ArrivesByRegister, ArrivesByReload,
                  ArrivesByChange DEF LoadStep, ChangeStep
    <3> QED  BY <3>1, <3>2, <3>3
  <2> QED  BY <2>2, <2>3
<1> QED  BY <1>1, <1>2 DEF ArrivesInv, Next

LEMMA ArrivesAlways ==
  Spec => [](QuietInv /\ LoadInv /\ StatusFileTells /\ ArrivesInv)
<1> DEFINE Known == /\ SyncInv /\ LoadInv /\ StatusFileTells /\ QuietInv /\ SettingInv
                    /\ ArrivesInv
<1>1. Init => Known
  <2>1. Init => SyncInv
    BY DEF Init, SyncInv, RemoveInv, NewInv, StaleInv, NoWork, Nothing
  <2>2. Init => LoadInv
    BY DEF Init, LoadInv, NoWork
  <2>3. Init => StatusFileTells
    BY DEF Init, StatusFileTells, Syncing
  <2>4. Init => QuietInv /\ SettingInv
    BY DEF Init, QuietInv, SettingInv, Expects, NoOp
  <2>5. ASSUME Init PROVE ArrivesInv
    <3>1. SUFFICES ASSUME NEW p \in Procs, pc[p] # "down", NEW e \in Exts,
                          storage[e] = "whole"
                   PROVE  Has(p, e) /\ WillRead(p, e)
      BY DEF ArrivesInv, Arrives
    <3>2. hears[p] /\ home[p] \in Machines
      BY <2>5, <3>1 DEF Init
    <3>3. folder[home[p]] = storage /\ loaded[p] = storage
      BY <2>5, <3>2 DEF Init
    <3> QED  BY <3>1, <3>3 DEF Has, WillRead
  <2> QED  BY <2>1, <2>2, <2>3, <2>4, <2>5
<1>2. TypeOK /\ ProbesOne /\ AuthorInv /\ AskedInv /\ Known /\ [Next]_vars => Known'
  BY SyncInvStep, LoadInvStep, SettingStep, ArrivesInvStep
<1>3. Known => QuietInv /\ LoadInv /\ StatusFileTells /\ ArrivesInv
  OBVIOUS
<1> HIDE DEF Known
<1> QED  BY <1>1, <1>2, <1>3, ChangesAlways, PTL DEF Spec

\* In a folder of one process the status file is there exactly while its sync
\* writes, or a crash left it to the next load, which syncs by force.
THEOREM StatusFileAlwaysTells == Spec => []StatusFileTells
BY ArrivesAlways, PTL

\* When all is quiet, a process that shares its folder with no other has loaded
\* every whole extension it was told of and whose reload it did not leave out,
\* for any processes, extensions, changes and faults.
THEOREM InstalledReachAll == Spec => []InstalledIsLoaded
<1>1. QuietInv /\ LoadInv /\ ArrivesInv => InstalledIsLoaded
  <2>1. SUFFICES ASSUME QuietInv, LoadInv, ArrivesInv, AtRest, NEW p \in Procs, Alone(p),
                        pc[p] = "idle", NEW e \in Exts \ (missed[p] \cup dropped[p]),
                        storage[e] = "whole"
                 PROVE  loaded[p][e] = "whole"
    BY DEF InstalledIsLoaded
  <2>2. Arrives(p, e) /\ pending[p] = None /\ ~work[p].failed
    BY <2>1 DEF ArrivesInv, QuietInv, LoadInv
  <2>3. ~Coming(p, e) /\ op[p].step = "none"
    <3>1. Len(<<>>) = 0
      OBVIOUS
    <3> QED  BY <2>1, <2>2, <3>1 DEF AtRest, Coming, Noted
  <2> QED  BY <2>1, <2>2, <2>3 DEF Arrives, Fetching, Lost, WillRead
<1> QED  BY <1>1, ArrivesAlways, PTL

=============================================================================
