------------------------- MODULE SchemaCache_proofs -------------------------
(***************************************************************************)
(* Proofs about SchemaCache, for any number of nodes, calls, attempts,     *)
(* changes and faults: its types, that every step of a call brings it      *)
(* nearer its end, that one call at a time builds, that the counter has a  *)
(* builder, and that only the two races leave an old schema.               *)
(***************************************************************************)
EXTENDS SchemaCache, TLAPS

USE SchemaAssumption

----------------------------------------------------------------------------
(* What the three ways to move a call do. *)

Pcs == {"enter", "count", "reset", "subscribe", "wait", "read", "store", "publish",
        "release", "returned", "failed"}

LEMMA CallType ==
  ASSUME TypeOK, NEW r \in Calls
  PROVE  /\ call[r] \in CallRecord /\ call[r].pc \in Pcs
         /\ call[r].attempt \in 0 .. MaxAttempts /\ call[r].schema \in Schemas
         /\ At[r] \in Nodes
<1>1. call[r] \in CallRecord
  BY DEF TypeOK
<1> QED  BY <1>1 DEF CallRecord, Pcs

LEMMA GoesEffect ==
  ASSUME TypeOK, NEW r \in Calls, NEW pc \in Pcs, Goes(r, pc)
  PROVE  /\ call' \in [Calls -> CallRecord]
         /\ call'[r].pc = pc /\ call'[r].attempt = call[r].attempt
         /\ call'[r].schema = call[r].schema
         /\ \A s \in Calls \ {r} : call'[s] = call[s]
<1>1. call[r] \in CallRecord /\ call \in [Calls -> CallRecord]
  BY DEF TypeOK
<1>2. call' = [call EXCEPT ![r] = [call[r] EXCEPT !.pc = pc]]
  BY DEF Goes
<1>3. /\ [call[r] EXCEPT !.pc = pc] \in CallRecord
      /\ [call[r] EXCEPT !.pc = pc].pc = pc
      /\ [call[r] EXCEPT !.pc = pc].attempt = call[r].attempt
      /\ [call[r] EXCEPT !.pc = pc].schema = call[r].schema
  BY <1>1 DEF CallRecord, Pcs
<1> QED  BY <1>1, <1>2, <1>3

LEMMA FinishesEffect ==
  ASSUME TypeOK, NEW r \in Calls, NEW pc \in Pcs, NEW s \in Schemas, Finishes(r, pc, s)
  PROVE  /\ call' \in [Calls -> CallRecord]
         /\ call'[r].pc = pc /\ call'[r].attempt = call[r].attempt /\ call'[r].schema = s
         /\ \A q \in Calls \ {r} : call'[q] = call[q]
<1>1. call[r] \in CallRecord /\ call \in [Calls -> CallRecord]
  BY DEF TypeOK
<1> DEFINE new == [[call[r] EXCEPT !.pc = pc] EXCEPT !.schema = s]
<1>2. call' = [call EXCEPT ![r] = [call[r] EXCEPT !.pc = pc, !.schema = s]]
  BY DEF Finishes
<1>3. /\ [call[r] EXCEPT !.pc = pc, !.schema = s] \in CallRecord
      /\ [call[r] EXCEPT !.pc = pc, !.schema = s].pc = pc
      /\ [call[r] EXCEPT !.pc = pc, !.schema = s].attempt = call[r].attempt
      /\ [call[r] EXCEPT !.pc = pc, !.schema = s].schema = s
  BY <1>1 DEF CallRecord, Pcs
<1> QED  BY <1>1, <1>2, <1>3

LEMMA RetriesEffect ==
  ASSUME TypeOK, NEW r \in Calls, call[r].attempt < MaxAttempts, Retries(r)
  PROVE  /\ call' \in [Calls -> CallRecord]
         /\ call'[r].pc = "enter" /\ call'[r].attempt = call[r].attempt + 1
         /\ \A s \in Calls \ {r} : call'[s] = call[s]
<1>1. call[r] \in CallRecord /\ call \in [Calls -> CallRecord]
  BY DEF TypeOK
<1>2. call[r].attempt + 1 \in 0 .. MaxAttempts
  BY <1>1 DEF CallRecord
<1>3. call' = [call EXCEPT ![r] = [call[r] EXCEPT !.pc = "enter",
                                                  !.attempt = call[r].attempt + 1]]
  BY DEF Retries
<1>4. /\ [call[r] EXCEPT !.pc = "enter", !.attempt = call[r].attempt + 1] \in CallRecord
      /\ [call[r] EXCEPT !.pc = "enter", !.attempt = call[r].attempt + 1].pc = "enter"
      /\ [call[r] EXCEPT !.pc = "enter", !.attempt = call[r].attempt + 1].attempt
           = call[r].attempt + 1
  BY <1>1, <1>2 DEF CallRecord
<1> QED  BY <1>1, <1>3, <1>4

\* Only calls that wait hear a message.
LEMMA HearEffect ==
  ASSUME TypeOK, NEW n \in Nodes, NEW m \in done[n], HearDone(n, m),
         \A r \in Calls : call[r].pc = "wait" => call[r].attempt < MaxAttempts
  PROVE  /\ call' \in [Calls -> CallRecord]
         /\ \A r \in Calls : \/ call'[r] = call[r]
                             \/ call[r].pc = "wait" /\ call'[r].pc \in {"enter", "returned"}
<1>1. m.schema \in Schemas
  BY DEF TypeOK
<1>2. ASSUME NEW r \in Calls, call[r].pc = "wait"
      PROVE  LET again == [call[r] EXCEPT !.pc = "enter", !.attempt = @ + 1]
                 ends  == [call[r] EXCEPT !.pc = "returned", !.schema = m.schema]
             IN  /\ again \in CallRecord /\ again.pc = "enter"
                 /\ ends \in CallRecord /\ ends.pc = "returned"
  <2>1. call[r] \in CallRecord /\ call[r].attempt + 1 \in 0 .. MaxAttempts
    BY <1>2, CallType
  <2>2. /\ [call[r] EXCEPT !.pc = "enter", !.attempt = call[r].attempt + 1] \in CallRecord
        /\ [call[r] EXCEPT !.pc = "enter", !.attempt = call[r].attempt + 1].pc = "enter"
    BY <2>1 DEF CallRecord
  <2>3. /\ [call[r] EXCEPT !.pc = "returned", !.schema = m.schema] \in CallRecord
        /\ [call[r] EXCEPT !.pc = "returned", !.schema = m.schema].pc = "returned"
    BY <1>1, <2>1 DEF CallRecord
  <2> QED  BY <2>2, <2>3
<1>3. ASSUME NEW r \in Calls
      PROVE  /\ call'[r] \in CallRecord
             /\ \/ call'[r] = call[r]
                \/ call[r].pc = "wait" /\ call'[r].pc \in {"enter", "returned"}
  <2>1. call[r] \in CallRecord
    BY CallType
  <2>2. CASE call[r].pc = "wait"
    BY <1>2, <2>1, <2>2 DEF HearDone
  <2>3. CASE call[r].pc # "wait"
    BY <2>1, <2>3 DEF HearDone
  <2> QED  BY <2>2, <2>3
<1>4. call' \in [Calls -> CallRecord]
  BY <1>3 DEF HearDone
<1> QED  BY <1>3, <1>4

\* A crash ends calls of its node, and touches no other.
LEMMA CrashEffect ==
  ASSUME TypeOK, NEW n \in Nodes, Crash(n)
  PROVE  /\ call' \in [Calls -> CallRecord]
         /\ \A r \in Calls : \/ call'[r] = call[r]
                             \/ call'[r].pc = "failed"
         /\ (\E r \in Calls : Builds(r) /\ call'[r] # call[r]) => orphaned'
         /\ orphaned => orphaned'
<1>1. \A r \in Calls : /\ [call[r] EXCEPT !.pc = "failed"] \in CallRecord
                       /\ [call[r] EXCEPT !.pc = "failed"].pc = "failed"
  BY CallType DEF CallRecord
<1>2. call' \in [Calls -> CallRecord]
  BY <1>1, CallType DEF Crash
<1>3. \A r \in Calls : call'[r] = call[r] \/ call'[r].pc = "failed"
  BY <1>1 DEF Crash
<1>4. (\E r \in Calls : Builds(r) /\ call'[r] # call[r]) => orphaned'
  BY DEF Crash
<1> QED  BY <1>2, <1>3, <1>4 DEF Crash

----------------------------------------------------------------------------
(* Types, with the attempts a call has left.                               *)

AttemptsLeft ==
    \A r \in Calls :
        call[r].pc \notin {"enter", "returned", "failed"} => call[r].attempt < MaxAttempts

LEMMA CallStepTypes ==
  ASSUME TypeOK, AttemptsLeft, NEW r \in Calls,
         CallStep(r) \/ ReadFails(r) \/ PublishFails(r)
  PROVE  TypeOK' /\ AttemptsLeft'
<1>1. call[r].attempt \in 0 .. MaxAttempts /\ call[r].schema \in Schemas /\ At[r] \in Nodes
  BY CallType
<1>2. db \in Schemas /\ None \in Schemas /\ cache[At[r]] \in Schemas
  BY <1>1 DEF TypeOK, Schemas
<1>3. ASSUME call' \in [Calls -> CallRecord],
             \A s \in Calls \ {r} : call'[s] = call[s],
             \/ call'[r].pc \in {"enter", "returned", "failed"}
             \/ call'[r].attempt < MaxAttempts
      PROVE  AttemptsLeft'
  BY <1>3 DEF AttemptsLeft
<1>4. CASE Enter(r)
  <2>1. CASE Finishes(r, "returned", cache[At[r]])
    BY <1>2, <1>3, <1>4, <2>1, FinishesEffect DEF TypeOK, Enter, Pcs, cacheVars, messageVars, historyVars
  <2>2. CASE Goes(r, "failed")
    BY <1>3, <1>4, <2>2, GoesEffect DEF TypeOK, Enter, Pcs, cacheVars, messageVars, historyVars
  <2>3. CASE Goes(r, "count") /\ call[r].attempt < MaxAttempts
    BY <1>3, <1>4, <2>3, GoesEffect DEF TypeOK, Enter, Pcs, cacheVars, messageVars, historyVars
  <2> QED  BY <1>4, <2>1, <2>2, <2>3 DEF Enter
<1>5. CASE Timeout(r)
  <2>1. call[r].attempt < MaxAttempts
    BY <1>5 DEF AttemptsLeft, Timeout
  <2> QED  BY <1>3, <1>5, <2>1, RetriesEffect DEF TypeOK, Timeout, cacheVars, messageVars, historyVars
<1>6. CASE Count(r) \/ ResetLock(r) \/ Subscribe(r) \/ ReadDatabase(r) \/ Store(r)
           \/ Publish(r) \/ Release(r) \/ ReadFails(r) \/ PublishFails(r)
  <2>1. call[r].attempt < MaxAttempts
    BY <1>6 DEF AttemptsLeft, Count, ResetLock, Subscribe, ReadDatabase, Store, Publish,
       Release, ReadFails, PublishFails
  <2>2. \/ \E pc \in Pcs : Goes(r, pc)
        \/ \E pc \in Pcs, s \in Schemas : Finishes(r, pc, s)
    BY <1>2, <1>6 DEF Count, ResetLock, Subscribe, ReadDatabase, Store, Publish, Release,
       ReadFails, PublishFails, Pcs
  <2>3. /\ call' \in [Calls -> CallRecord] /\ \A s \in Calls \ {r} : call'[s] = call[s]
        /\ call'[r].attempt = call[r].attempt
    BY <2>2, GoesEffect, FinishesEffect
  <2>4. AttemptsLeft'
    BY <1>3, <2>1, <2>3
  <2>5. lock' \in Nat /\ faults' \in Nat /\ db' \in Nat
    BY <1>6 DEF TypeOK, Count, ResetLock, Subscribe, ReadDatabase, Store, Publish,
       Release, ReadFails, PublishFails, Faults, cacheVars, messageVars, historyVars
  <2>6. cache' \in [Nodes -> Schemas]
    BY <1>1, <1>6 DEF TypeOK, Count, ResetLock, Subscribe, ReadDatabase, Store, Publish,
       Release, ReadFails, PublishFails, cacheVars, messageVars, historyVars
  <2>7. listeners' \in [Nodes -> SUBSET (Calls \X (0 .. MaxAttempts))]
    <3>1. CASE Subscribe(r)
      <4>1. <<r, call[r].attempt>> \in Calls \X (0 .. MaxAttempts)
        BY <1>1
      <4> QED  BY <1>1, <3>1, <4>1 DEF TypeOK, Subscribe
    <3>2. CASE ~Subscribe(r)
      BY <1>6, <3>2 DEF TypeOK, Count, ResetLock, ReadDatabase, Store, Publish,
         Release, ReadFails, PublishFails, cacheVars, messageVars, historyVars
    <3> QED  BY <3>1, <3>2
  <2>8. done' \in [Nodes -> SUBSET [from : Calls, schema : Schemas]]
    <3>1. CASE Publish(r)
      <4>1. [from |-> r, schema |-> call[r].schema] \in [from : Calls, schema : Schemas]
        BY <1>1
      <4> QED  BY <3>1, <4>1 DEF TypeOK, Publish
    <3>2. CASE ~Publish(r)
      BY <1>6, <3>2 DEF TypeOK, Count, ResetLock, Subscribe, ReadDatabase, Store,
         Release, ReadFails, PublishFails, cacheVars, messageVars, historyVars
    <3> QED  BY <3>1, <3>2
  <2>9. changed' = changed /\ change' = change
    BY <1>6 DEF Count, ResetLock, Subscribe, ReadDatabase, Store, Publish,
       Release, ReadFails, PublishFails, cacheVars, messageVars, historyVars
  <2>10. reset' \in BOOLEAN /\ orphaned' \in BOOLEAN /\ crossed' \in BOOLEAN
    BY <1>6 DEF TypeOK, Count, ResetLock, Subscribe, ReadDatabase, Store, Publish,
       Release, ReadFails, PublishFails, cacheVars, messageVars, historyVars
  <2> QED  BY <2>3, <2>4, <2>5, <2>6, <2>7, <2>8, <2>9, <2>10 DEF TypeOK
<1> QED  BY <1>4, <1>5, <1>6 DEF CallStep

LEMMA NodeStepTypes ==
  ASSUME TypeOK, AttemptsLeft, NEW n \in Nodes,
         NodeStep(n) \/ ChangeSchema(n) \/ AnnounceFails(n) \/ Crash(n)
  PROVE  TypeOK' /\ AttemptsLeft'
<1>1. CASE PurgeOwn(n) \/ Announce(n) \/ HearChanged(n)
  BY <1>1 DEF TypeOK, AttemptsLeft, Schemas, PurgeOwn, Announce, HearChanged, cacheVars, messageVars, historyVars
<1>2. ASSUME NEW m \in done[n], HearDone(n, m)
      PROVE  TypeOK' /\ AttemptsLeft'
  <2>1. /\ call' \in [Calls -> CallRecord]
        /\ \A r \in Calls : \/ call'[r] = call[r]
                            \/ call[r].pc = "wait" /\ call'[r].pc \in {"enter", "returned"}
    BY <1>2, HearEffect DEF AttemptsLeft
  <2>2. AttemptsLeft'
    BY <2>1 DEF AttemptsLeft
  <2>3. m.schema \in Schemas
    BY DEF TypeOK
  <2>4. cache' \in [Nodes -> Schemas]
    BY <1>2, <2>3 DEF TypeOK, HearDone
  <2>5. /\ listeners' \in [Nodes -> SUBSET (Calls \X (0 .. MaxAttempts))]
        /\ done' \in [Nodes -> SUBSET [from : Calls, schema : Schemas]]
    BY <1>2 DEF TypeOK, HearDone
  <2>6. UNCHANGED <<db, lock, changed, change, faults, historyVars>>
    BY <1>2 DEF HearDone
  <2> QED  BY <2>1, <2>2, <2>4, <2>5, <2>6 DEF TypeOK, historyVars
<1>3. CASE ChangeSchema(n)
  <2>1. crossed' \in BOOLEAN
    BY <1>3 DEF ChangeSchema
  <2> QED  BY <1>3, <2>1 DEF TypeOK, AttemptsLeft, ChangeSchema, cacheVars, messageVars, historyVars
<1>4. CASE Crash(n)
  <2>1. call' \in [Calls -> CallRecord] /\ AttemptsLeft'
    BY <1>4, CrashEffect DEF AttemptsLeft
  <2>2. orphaned' \in BOOLEAN /\ crossed' \in BOOLEAN
    BY <1>4 DEF Crash
  <2>3. /\ cache' \in [Nodes -> Schemas]
        /\ listeners' \in [Nodes -> SUBSET (Calls \X (0 .. MaxAttempts))]
        /\ done' \in [Nodes -> SUBSET [from : Calls, schema : Schemas]]
        /\ changed' \in [Nodes -> Nat]
        /\ change' \in [Nodes -> {"idle", "committed", "purged"}]
    BY <1>4 DEF TypeOK, Schemas, Crash
  <2> QED  BY <1>4, <2>1, <2>2, <2>3 DEF TypeOK, Crash, Faults
<1>5. CASE AnnounceFails(n)
  BY <1>5 DEF TypeOK, AttemptsLeft, AnnounceFails, Faults, cacheVars
<1> QED  BY <1>1, <1>2, <1>3, <1>4, <1>5 DEF NodeStep

LEMMA InitTypes == Init => TypeOK /\ AttemptsLeft
<1> SUFFICES ASSUME Init PROVE TypeOK /\ AttemptsLeft
  OBVIOUS
<1>1. [pc |-> "enter", attempt |-> 0, schema |-> None] \in CallRecord
  BY DEF CallRecord, Schemas
<1>2. orphaned \in BOOLEAN
  BY DEF Init
<1>3. call \in [Calls -> CallRecord] /\ AttemptsLeft
  BY <1>1 DEF Init, AttemptsLeft
<1>4. lock \in Nat
  BY DEF Init
<1> QED  BY <1>2, <1>3, <1>4 DEF Init, TypeOK, Schemas

LEMMA NextTypes == TypeOK /\ AttemptsLeft /\ [Next]_vars => TypeOK' /\ AttemptsLeft'
<1> SUFFICES ASSUME TypeOK, AttemptsLeft, [Next]_vars PROVE TypeOK' /\ AttemptsLeft'
  OBVIOUS
<1>1. CASE UNCHANGED vars
  BY <1>1 DEF TypeOK, AttemptsLeft, vars, cacheVars, messageVars, historyVars
<1>2. CASE Next
  BY <1>2, CallStepTypes, NodeStepTypes DEF Next
<1> QED  BY <1>1, <1>2

\* Type correctness: in particular, no call goes on past its attempts.
THEOREM SchemaTypeCorrect == Spec => [](TypeOK /\ AttemptsLeft)
BY InitTypes, NextTypes, PTL DEF Spec

----------------------------------------------------------------------------
(* Every step of a call brings it nearer its end.                          *)

Nearer(r) == call'[r] = call[r] \/ StepsLeft(r)' < StepsLeft(r)

LEMMA PlaceRange == \A pc : Place(pc) \in 0 .. 10
BY DEF Place

\* A step within an attempt goes to a later place.
LEMMA LaterPlace ==
  ASSUME TypeOK, NEW r \in Calls, call'[r].attempt = call[r].attempt,
         Place(call'[r].pc) < Place(call[r].pc)
  PROVE  Nearer(r)
<1>1. call[r].attempt \in 0 .. MaxAttempts
  BY CallType
<1>2. Place(call'[r].pc) \in Nat /\ Place(call[r].pc) \in Nat
  BY PlaceRange
<1> QED  BY <1>1, <1>2 DEF Nearer, StepsLeft

\* A new attempt begins with more steps, but with one attempt less.
LEMMA NextAttempt ==
  ASSUME TypeOK, NEW r \in Calls, call[r].pc = "wait", call'[r].pc = "enter",
         call[r].attempt < MaxAttempts, call'[r].attempt = call[r].attempt + 1
  PROVE  Nearer(r)
<1>1. call[r].attempt \in 0 .. MaxAttempts
  BY CallType
<1>2. Place("wait") = 4 /\ Place("enter") = 10
  BY DEF Place
<1> QED  BY <1>1, <1>2 DEF Nearer, StepsLeft

LEMMA OwnProgress ==
  ASSUME TypeOK, AttemptsLeft, NEW r \in Calls,
         CallStep(r) \/ ReadFails(r) \/ PublishFails(r)
  PROVE  \A s \in Calls : Nearer(s)
<1>1. db \in Schemas /\ None \in Schemas /\ cache[At[r]] \in Schemas /\ lock \in Nat
  BY CallType DEF TypeOK, Schemas
<1>2. SUFFICES Nearer(r) /\ \A s \in Calls \ {r} : call'[s] = call[s]
  BY DEF Nearer
<1>3. CASE Enter(r)
  <2>1. PICK pc \in {"returned", "failed", "count"} :
          Goes(r, pc) \/ Finishes(r, pc, cache[At[r]])
    BY <1>3 DEF Enter
  <2>2. /\ call'[r].pc = pc /\ call'[r].attempt = call[r].attempt
        /\ \A s \in Calls \ {r} : call'[s] = call[s]
    BY <1>1, <2>1, GoesEffect, FinishesEffect DEF Pcs
  <2>3. Place(pc) < Place(call[r].pc)
    BY <1>3 DEF Enter, Place
  <2> QED  BY <2>2, <2>3, LaterPlace
<1>4. CASE Timeout(r)
  <2>1. call[r].attempt < MaxAttempts /\ call[r].pc = "wait" /\ Retries(r)
    BY <1>4 DEF AttemptsLeft, Timeout
  <2> QED  BY <2>1, RetriesEffect, NextAttempt
<1>5. CASE ReadDatabase(r) \/ ReadFails(r)
  <2>1. PICK pc \in {"store", "publish"}, s \in Schemas : Finishes(r, pc, s)
    BY <1>1, <1>5 DEF ReadDatabase, ReadFails
  <2>2. /\ call'[r].pc = pc /\ call'[r].attempt = call[r].attempt
        /\ \A q \in Calls \ {r} : call'[q] = call[q]
    BY <2>1, FinishesEffect DEF Pcs
  <2>3. Place(pc) < Place(call[r].pc)
    BY <1>5 DEF ReadDatabase, ReadFails, Place
  <2> QED  BY <2>2, <2>3, LaterPlace
<1>6. CASE Count(r) \/ ResetLock(r) \/ Subscribe(r) \/ Store(r) \/ Publish(r) \/ Release(r)
           \/ PublishFails(r)
  <2>1. \E pc \in Pcs : Goes(r, pc) /\ Place(pc) < Place(call[r].pc)
    <3>1. CASE Count(r)
      <4>1. PICK pc \in {"reset", "read", "subscribe"} : Goes(r, pc)
        BY <3>1 DEF Count
      <4> QED  BY <3>1, <4>1 DEF Count, Pcs, Place
    <3>2. CASE ResetLock(r) \/ Subscribe(r) \/ Store(r) \/ Publish(r)
      BY <3>2 DEF ResetLock, Subscribe, Store, Publish, Pcs, Place
    <3>3. CASE Release(r) \/ PublishFails(r)
      <4>1. PICK pc \in {"failed", "returned"} : Goes(r, pc)
        BY <3>3 DEF Release, PublishFails
      <4> QED  BY <3>3, <4>1 DEF Release, PublishFails, Pcs, Place
    <3> QED  BY <1>6, <3>1, <3>2, <3>3
  <2>2. PICK pc \in Pcs : Goes(r, pc) /\ Place(pc) < Place(call[r].pc)
    BY <2>1
  <2> QED  BY <2>2, GoesEffect, LaterPlace
<1> QED  BY <1>3, <1>4, <1>5, <1>6 DEF CallStep

LEMMA NodeProgress ==
  ASSUME TypeOK, AttemptsLeft, NEW n \in Nodes,
         NodeStep(n) \/ ChangeSchema(n) \/ AnnounceFails(n) \/ Crash(n)
  PROVE  \A r \in Calls : Nearer(r)
<1>1. CASE PurgeOwn(n) \/ Announce(n) \/ HearChanged(n) \/ ChangeSchema(n) \/ AnnounceFails(n)
  BY <1>1 DEF PurgeOwn, Announce, HearChanged, ChangeSchema, AnnounceFails, Nearer
<1>2. ASSUME NEW m \in done[n], HearDone(n, m), NEW r \in Calls, call'[r] # call[r]
      PROVE  Nearer(r)
  <2>1. call[r].pc = "wait" /\ call[r].attempt < MaxAttempts /\ call[r] \in CallRecord
    BY <1>2, CallType DEF HearDone, AttemptsLeft
  <2>2. \/ call'[r] = [call[r] EXCEPT !.pc = "enter", !.attempt = call[r].attempt + 1]
        \/ call'[r] = [call[r] EXCEPT !.pc = "returned", !.schema = m.schema]
    BY <1>2 DEF HearDone
  <2>3. \/ call'[r].pc = "enter" /\ call'[r].attempt = call[r].attempt + 1
        \/ call'[r].pc = "returned" /\ call'[r].attempt = call[r].attempt
    BY <2>1, <2>2 DEF CallRecord
  <2>4. Place("returned") < Place("wait")
    BY DEF Place
  <2> QED  BY <2>1, <2>3, <2>4, LaterPlace, NextAttempt
<1>3. ASSUME Crash(n), NEW r \in Calls, call'[r] # call[r]
      PROVE  Nearer(r)
  <2>1. /\ call'[r] = [call[r] EXCEPT !.pc = "failed"]
        /\ call[r].pc \notin {"returned", "failed"}
    BY <1>3 DEF Crash
  <2>2. call[r].pc \in Pcs /\ call'[r].pc = "failed" /\ call'[r].attempt = call[r].attempt
    BY <2>1, CallType DEF CallRecord
  <2>3. Place(call'[r].pc) < Place(call[r].pc)
    BY <2>1, <2>2 DEF Pcs, Place
  <2> QED  BY <2>2, <2>3, LaterPlace
<1> QED  BY <1>1, <1>2, <1>3 DEF NodeStep, Nearer

\* Each step of a call, its own or one done to it, lowers StepsLeft, a natural
\* number, whatever the order of timeouts, messages, failures and crashes: no call
\* moves more often than 11 times per attempt of MAX_ATTEMPTS and 10 times after.
THEOREM CallsComeNearer == Spec => CallsProgress
<1>1. TypeOK /\ AttemptsLeft /\ [Next]_vars => [\A r \in Calls : Nearer(r)]_vars
  BY OwnProgress, NodeProgress DEF Next
<1>2. [\A r \in Calls : Nearer(r)]_vars
        => [\A r \in Calls : call'[r] = call[r] \/ StepsLeft(r)' < StepsLeft(r)]_vars
  BY DEF Nearer
<1> QED  BY <1>1, <1>2, SchemaTypeCorrect, PTL DEF Spec, CallsProgress

----------------------------------------------------------------------------
(* The counter and those who build.                                        *)

SameBuilders == \A r \in Calls : Builds(r)' = Builds(r)

\* The first to count itself in becomes a builder.
Begins(r) == /\ lock = 0 /\ lock' = 1
             /\ \A s \in Calls \ {r} : Builds(s)' = Builds(s)
             /\ Builds(r)'

\* A builder frees the counter, or is lost and leaves it.
Frees(r) == /\ Builds(r) /\ lock' = 0
            /\ \A s \in Calls \ {r} : Builds(s)' = Builds(s)
            /\ ~Builds(r)'

Loses == /\ lock' = lock /\ orphaned'
         /\ \A r \in Calls : Builds(r)' => Builds(r)

Flags == UNCHANGED <<reset, orphaned>>

LockStep ==
    \/ SameBuilders /\ lock' = lock /\ reset' = reset /\ (orphaned => orphaned')
    \/ SameBuilders /\ lock' > 1 /\ lock > 0 /\ Flags
    \/ SameBuilders /\ lock' = 0 /\ reset'
    \/ \E r \in Calls : Begins(r) /\ Flags
    \/ \E r \in Calls : Frees(r) /\ reset' = reset
    \/ Loses /\ reset' = reset

LEMMA CallLockSteps ==
  ASSUME TypeOK, AttemptsLeft, NEW r \in Calls,
         CallStep(r) \/ ReadFails(r) \/ PublishFails(r)
  PROVE  LockStep
<1>1. db \in Schemas /\ None \in Schemas /\ cache[At[r]] \in Schemas /\ lock \in Nat
  BY CallType DEF TypeOK, Schemas
<1>2. ASSUME \A s \in Calls \ {r} : call'[s] = call[s]
      PROVE  \A s \in Calls \ {r} : Builds(s)' = Builds(s)
  BY <1>2 DEF Builds
<1>3. CASE Enter(r)
  <2>1. \/ Finishes(r, "returned", cache[At[r]])
        \/ Goes(r, "failed") \/ Goes(r, "count")
    BY <1>3 DEF Enter
  <2>2. /\ \A s \in Calls \ {r} : call'[s] = call[s]
        /\ call'[r].pc \in {"returned", "failed", "count"}
    BY <1>1, <2>1, FinishesEffect, GoesEffect DEF Pcs
  <2>3. call[r].pc = "enter"
    BY <1>3 DEF Enter
  <2>4. SameBuilders
    BY <1>2, <2>2, <2>3 DEF SameBuilders, Builds
  <2> QED  BY <1>3, <2>4 DEF Enter, LockStep, cacheVars, messageVars, historyVars
<1>4. CASE Timeout(r)
  <2>1. call[r].attempt < MaxAttempts /\ call[r].pc = "wait" /\ Retries(r)
    BY <1>4 DEF AttemptsLeft, Timeout
  <2>2. SameBuilders
    BY <1>2, <2>1, RetriesEffect DEF SameBuilders, Builds
  <2> QED  BY <1>4, <2>2 DEF Timeout, LockStep, cacheVars, messageVars, historyVars
<1>5. CASE Count(r)
  <2>1. call[r].pc = "count" /\ lock' = lock + 1 /\ Flags
    BY <1>5 DEF Count, Flags, cacheVars, messageVars, historyVars
  <2>2. CASE lock' = 1
    <3>1. Goes(r, "read")
      BY <1>5, <2>2 DEF Count
    <3>2. Begins(r)
      BY <1>1, <1>2, <2>1, <2>2, <3>1, GoesEffect DEF Begins, Builds, Pcs
    <3> QED  BY <2>1, <3>2 DEF LockStep
  <2>3. CASE lock' # 1
    <3>1. Goes(r, "reset") \/ Goes(r, "subscribe")
      BY <1>5, <2>3 DEF Count
    <3>2. SameBuilders
      BY <1>2, <2>1, <3>1, GoesEffect DEF SameBuilders, Builds, Pcs
    <3>3. lock' > 1 /\ lock > 0
      BY <1>1, <2>1, <2>3
    <3> QED  BY <2>1, <3>2, <3>3 DEF LockStep
  <2> QED  BY <2>2, <2>3
<1>6. CASE ResetLock(r)
  <2>1. SameBuilders
    BY <1>2, <1>6, GoesEffect DEF ResetLock, SameBuilders, Builds, Pcs
  <2> QED  BY <1>6, <2>1 DEF ResetLock, LockStep
<1>7. CASE Subscribe(r)
  <2>1. SameBuilders
    BY <1>2, <1>7, GoesEffect DEF Subscribe, SameBuilders, Builds, Pcs
  <2> QED  BY <1>7, <2>1 DEF Subscribe, LockStep, cacheVars, messageVars, historyVars
<1>8. CASE ReadDatabase(r) \/ ReadFails(r)
  <2>1. /\ call[r].pc = "read"
        /\ Finishes(r, "store", db) \/ Finishes(r, "publish", None)
    BY <1>8 DEF ReadDatabase, ReadFails
  <2>2. SameBuilders
    BY <1>1, <1>2, <2>1, FinishesEffect DEF SameBuilders, Builds, Pcs
  <2> QED  BY <1>8, <2>2 DEF ReadDatabase, ReadFails, LockStep, cacheVars, messageVars, historyVars
<1>9. CASE Store(r) \/ Publish(r)
  <2>1. /\ call[r].pc \in {"store", "publish"}
        /\ Goes(r, "publish") \/ Goes(r, "release")
    BY <1>9 DEF Store, Publish
  <2>2. SameBuilders
    BY <1>2, <2>1, GoesEffect DEF SameBuilders, Builds, Pcs
  <2> QED  BY <1>9, <2>2 DEF Store, Publish, LockStep, cacheVars, messageVars, historyVars
<1>10. CASE Release(r)
  <2>1. Goes(r, "failed") \/ Goes(r, "returned")
    BY <1>10 DEF Release
  <2>2. Frees(r)
    BY <1>2, <1>10, <2>1, GoesEffect DEF Release, Frees, Builds, Pcs
  <2> QED  BY <1>10, <2>2 DEF Release, LockStep
<1>11. CASE PublishFails(r)
  <2>1. \A s \in Calls : Builds(s)' => Builds(s)
    BY <1>2, <1>11, GoesEffect DEF PublishFails, Builds, Pcs
  <2> QED  BY <1>11, <2>1 DEF PublishFails, Loses, LockStep
<1> QED  BY <1>3, <1>4, <1>5, <1>6, <1>7, <1>8, <1>9, <1>10, <1>11 DEF CallStep

LEMMA NodeLockSteps ==
  ASSUME TypeOK, AttemptsLeft, NEW n \in Nodes,
         NodeStep(n) \/ ChangeSchema(n) \/ AnnounceFails(n) \/ Crash(n)
  PROVE  LockStep
<1>1. CASE PurgeOwn(n) \/ Announce(n) \/ HearChanged(n) \/ ChangeSchema(n) \/ AnnounceFails(n)
  <2>1. call' = call /\ lock' = lock /\ Flags
    BY <1>1 DEF PurgeOwn, Announce, HearChanged, ChangeSchema, AnnounceFails, Flags, cacheVars, messageVars, historyVars
  <2> QED  BY <2>1 DEF LockStep, SameBuilders, Builds, Flags
<1>2. ASSUME NEW m \in done[n], HearDone(n, m)
      PROVE  LockStep
  <2>1. SameBuilders
    BY <1>2, HearEffect DEF AttemptsLeft, SameBuilders, Builds
  <2> QED  BY <1>2, <2>1 DEF HearDone, LockStep, cacheVars, messageVars, historyVars
<1>3. CASE Crash(n)
  <2>1. \A r \in Calls : Builds(r)' => Builds(r)
    BY <1>3, CrashEffect DEF Builds
  <2>2. CASE orphaned'
    BY <1>3, <2>1, <2>2 DEF Crash, Loses, LockStep
  <2>3. CASE ~orphaned'
    <3>1. SameBuilders
      BY <1>3, <2>1, <2>3, CrashEffect DEF SameBuilders, Builds
    <3> QED  BY <1>3, <3>1, CrashEffect DEF Crash, LockStep
  <2> QED  BY <2>2, <2>3
<1> QED  BY <1>1, <1>2, <1>3 DEF NodeStep

LEMMA LockSteps == TypeOK /\ AttemptsLeft /\ [Next]_vars => LockStep
<1> SUFFICES ASSUME TypeOK, AttemptsLeft, [Next]_vars PROVE LockStep
  OBVIOUS
<1>1. CASE UNCHANGED vars
  BY <1>1 DEF LockStep, SameBuilders, Builds, vars, cacheVars, messageVars, historyVars
<1>2. CASE Next
  BY <1>2, CallLockSteps, NodeLockSteps DEF Next
<1> QED  BY <1>1, <1>2

\* A free counter has no builder behind it.
FreeMeansIdle == ~reset /\ lock = 0 => \A r \in Calls : ~Builds(r)

\* Without a reset one call at a time builds: who counts itself in first finds
\* the counter free, and only its builder frees it.
THEOREM OneBuilderAlways == Spec => []OneBuilder
<1>1. Init => OneBuilder /\ FreeMeansIdle
  BY DEF Init, OneBuilder, FreeMeansIdle, Builds
<1>2. TypeOK /\ LockStep /\ OneBuilder /\ FreeMeansIdle => OneBuilder' /\ FreeMeansIdle'
  <2> SUFFICES ASSUME TypeOK, LockStep, OneBuilder, FreeMeansIdle
               PROVE  OneBuilder' /\ FreeMeansIdle'
    OBVIOUS
  <2>1. CASE SameBuilders /\ reset' = reset /\ (lock' = lock \/ lock' > 1)
    BY <2>1 DEF TypeOK, SameBuilders, OneBuilder, FreeMeansIdle
  <2>2. CASE reset'
    BY <2>2 DEF OneBuilder, FreeMeansIdle
  <2>3. ASSUME NEW r \in Calls, Begins(r), Flags
        PROVE  OneBuilder' /\ FreeMeansIdle'
    BY <2>3 DEF Begins, Flags, OneBuilder, FreeMeansIdle
  <2>4. ASSUME NEW r \in Calls, Frees(r), reset' = reset
        PROVE  OneBuilder' /\ FreeMeansIdle'
    <3>1. CASE reset
      BY <2>4, <3>1 DEF OneBuilder, FreeMeansIdle
    <3>2. CASE ~reset
      <4>1. \A s \in Calls \ {r} : ~Builds(s)
        BY <2>4, <3>2 DEF Frees, OneBuilder
      <4>2. \A s \in Calls : ~Builds(s)'
        BY <2>4, <4>1 DEF Frees
      <4> QED  BY <4>2 DEF OneBuilder, FreeMeansIdle
    <3> QED  BY <3>1, <3>2
  <2>5. CASE Loses /\ reset' = reset
    BY <2>5 DEF Loses, OneBuilder, FreeMeansIdle
  <2> QED  BY <2>1, <2>2, <2>3, <2>4, <2>5 DEF LockStep, Flags
<1> QED  BY <1>1, <1>2, LockSteps, SchemaTypeCorrect, PTL DEF Spec

\* A counter that stands has a builder that will free it, unless one died or
\* failed to publish since the counter was last freed.
THEOREM LockAlwaysHasBuilder == Spec => []LockHasBuilder
<1>1. Init => LockHasBuilder
  BY DEF Init, LockHasBuilder
<1>2. TypeOK /\ LockStep /\ LockHasBuilder => LockHasBuilder'
  <2> SUFFICES ASSUME TypeOK, LockStep, LockHasBuilder, ~orphaned', lock' > 0
               PROVE  \E r \in Calls : Builds(r)'
    BY DEF LockHasBuilder
  <2>1. CASE SameBuilders /\ lock > 0 /\ ~orphaned
    BY <2>1 DEF SameBuilders, LockHasBuilder
  <2>2. ASSUME NEW r \in Calls, Begins(r)
        PROVE  \E s \in Calls : Builds(s)'
    BY <2>2 DEF Begins
  <2> QED  BY <2>1, <2>2 DEF LockStep, Flags, Frees, Loses
<1> QED  BY <1>1, <1>2, LockSteps, SchemaTypeCorrect, PTL DEF Spec

----------------------------------------------------------------------------
(* Old schemas: what is on its way to a memory is new, and an old memory is *)
(* about to be purged.                                                      *)

FreshCalls  == \A r \in Calls : InFlight(r) => call[r].schema = db
FreshDone   == \A n \in Nodes : \A d \in done[n] : d.schema \in {None, db}
FreshCaches == \A n \in Nodes : cache[n] \in {None, db} \/ Purging(n)
Fresh       == ~crossed => FreshCalls /\ FreshDone /\ FreshCaches

LEMMA FreshCallsStep ==
  ASSUME FreshCalls, NEW r \in Calls, db' = db,
         \A s \in Calls \ {r} : call'[s] = call[s],
         \/ call'[r].pc \notin {"store", "publish"}
         \/ call'[r].schema \in {None, db}
  PROVE  FreshCalls'
<1> SUFFICES ASSUME NEW s \in Calls, InFlight(s)' PROVE call'[s].schema = db
  BY DEF FreshCalls
<1>1. CASE s = r
  BY <1>1 DEF InFlight
<1>2. CASE s # r
  BY <1>2 DEF FreshCalls, InFlight
<1> QED  BY <1>1, <1>2

LEMMA FreshCall ==
  ASSUME TypeOK, AttemptsLeft, Fresh, ~crossed', NEW r \in Calls,
         CallStep(r) \/ ReadFails(r) \/ PublishFails(r)
  PROVE  FreshCalls' /\ FreshDone' /\ FreshCaches'
<1>1. /\ db' = db /\ UNCHANGED <<changed, change, crossed>>
  BY DEF CallStep, Enter, Count, ResetLock, Subscribe, Timeout, ReadDatabase, Store, Publish,
         Release, ReadFails, PublishFails, cacheVars, messageVars, historyVars
<1>2. FreshCalls /\ FreshDone /\ FreshCaches
  BY <1>1 DEF Fresh
<1>3. call[r].schema \in Schemas /\ cache[At[r]] \in Schemas /\ db \in Schemas /\ None \in Schemas
  BY CallType DEF TypeOK, Schemas
<1>4. CASE \/ Enter(r) \/ Count(r) \/ ResetLock(r) \/ Subscribe(r) \/ Timeout(r)
           \/ ReadDatabase(r) \/ ReadFails(r) \/ Release(r) \/ PublishFails(r)
  <2>1. cache' = cache /\ done' = done
    BY <1>4 DEF Enter, Count, ResetLock, Subscribe, Timeout, ReadDatabase,
         Release, ReadFails, PublishFails, cacheVars, messageVars
  <2>2. FreshDone' /\ FreshCaches'
    BY <1>1, <1>2, <2>1 DEF FreshDone, FreshCaches, Purging
  <2>3. CASE Timeout(r)
    <3>1. call[r].attempt < MaxAttempts /\ Retries(r)
      BY <2>3 DEF AttemptsLeft, Timeout
    <3> QED  BY <1>1, <1>2, <2>2, <3>1, RetriesEffect, FreshCallsStep
  <2>4. CASE ReadDatabase(r) \/ ReadFails(r)
    <3>1. Finishes(r, "store", db) \/ Finishes(r, "publish", None)
      BY <2>4 DEF ReadDatabase, ReadFails
    <3>2. /\ \A s \in Calls \ {r} : call'[s] = call[s]
          /\ call'[r].schema \in {None, db}
      BY <1>3, <3>1, FinishesEffect DEF Pcs
    <3> QED  BY <1>1, <1>2, <2>2, <3>2, FreshCallsStep
  <2>5. CASE Enter(r) \/ Count(r) \/ ResetLock(r) \/ Subscribe(r) \/ Release(r) \/ PublishFails(r)
    <3>1. \/ Finishes(r, "returned", cache[At[r]])
          \/ \E pc \in Pcs \ {"store", "publish"} : Goes(r, pc)
      BY <2>5 DEF Enter, Count, ResetLock, Subscribe, Release, PublishFails, Pcs
    <3>2. /\ \A s \in Calls \ {r} : call'[s] = call[s]
          /\ call'[r].pc \notin {"store", "publish"}
      BY <1>3, <3>1, FinishesEffect, GoesEffect DEF Pcs
    <3> QED  BY <1>1, <1>2, <2>2, <3>2, FreshCallsStep
  <2> QED  BY <1>4, <2>3, <2>4, <2>5
<1>5. CASE Store(r) \/ Publish(r)
  <2>1. /\ call[r].pc \in {"store", "publish"}
        /\ Goes(r, "publish") \/ Goes(r, "release")
    BY <1>5 DEF Store, Publish
  <2>2. call[r].schema \in {None, db}
    BY <1>2, <2>1 DEF FreshCalls, InFlight
  <2>3. FreshCalls'
    BY <1>1, <1>2, <2>1, <2>2, GoesEffect, FreshCallsStep DEF Pcs
  <2>4. FreshDone'
    BY <1>1, <1>2, <1>5, <2>2 DEF Store, Publish, messageVars, FreshDone
  <2>5. \A n \in Nodes : cache'[n] = cache[n] \/ cache'[n] = call[r].schema
    BY <1>5 DEF Store, Publish, cacheVars, TypeOK
  <2>6. FreshCaches'
    BY <1>1, <1>2, <2>2, <2>5 DEF FreshCaches, Purging
  <2> QED  BY <2>3, <2>4, <2>6
<1> QED  BY <1>4, <1>5 DEF CallStep

LEMMA FreshNode ==
  ASSUME TypeOK, AttemptsLeft, Fresh, ~crossed', NEW n \in Nodes,
         NodeStep(n) \/ ChangeSchema(n) \/ AnnounceFails(n) \/ Crash(n)
  PROVE  FreshCalls' /\ FreshDone' /\ FreshCaches'
<1>1. CASE PurgeOwn(n) \/ Announce(n) \/ HearChanged(n)
  <2>1. UNCHANGED <<db, call, done, crossed>>
    BY <1>1 DEF PurgeOwn, Announce, HearChanged, cacheVars, messageVars, historyVars
  <2>2. FreshCalls /\ FreshDone /\ FreshCaches
    BY <2>1 DEF Fresh
  <2>3. FreshCalls' /\ FreshDone'
    BY <2>1, <2>2 DEF FreshCalls, FreshDone, InFlight
  <2>4. CASE PurgeOwn(n)
    <3>1. change'[n] # "idle"
      BY <2>4 DEF PurgeOwn, TypeOK
    <3> QED  BY <2>3, <3>1 DEF FreshCaches, Purging
  <2>5. CASE Announce(n)
    <3>1. \A m \in Nodes : changed'[m] > 0
      BY <2>5 DEF Announce, TypeOK
    <3> QED  BY <2>3, <3>1 DEF FreshCaches, Purging
  <2>6. CASE HearChanged(n)
    <3>1. /\ cache'[n] = None /\ change' = change
          /\ \A m \in Nodes \ {n} : cache'[m] = cache[m] /\ changed'[m] = changed[m]
      BY <2>6 DEF HearChanged, TypeOK
    <3>2. \A m \in Nodes \ {n} : cache'[m] \in {None, db} \/ Purging(m)'
      BY <2>2, <3>1 DEF FreshCaches, Purging
    <3> QED  BY <2>1, <2>3, <3>1, <3>2 DEF FreshCaches
  <2> QED  BY <1>1, <2>4, <2>5, <2>6
<1>2. ASSUME NEW m \in done[n], HearDone(n, m)
      PROVE  FreshCalls' /\ FreshDone' /\ FreshCaches'
  <2>1. UNCHANGED <<db, changed, change, crossed>>
    BY <1>2 DEF HearDone, historyVars
  <2>2. FreshCalls /\ FreshDone /\ FreshCaches
    BY <2>1 DEF Fresh
  <2>3. FreshCalls'
    <3>1. ASSUME NEW r \in Calls, InFlight(r)'
          PROVE  call'[r].schema = db
      <4>1. call'[r] = call[r]
        BY <1>2, <3>1, HearEffect DEF AttemptsLeft, InFlight
      <4> QED  BY <2>2, <3>1, <4>1 DEF FreshCalls, InFlight
    <3> QED  BY <2>1, <3>1 DEF FreshCalls
  <2>4. FreshDone'
    BY <1>2, <2>1, <2>2 DEF FreshDone, HearDone, TypeOK
  <2>5. m.schema \in {None, db}
    BY <2>2 DEF FreshDone
  <2>6. \A k \in Nodes : cache'[k] = cache[k] \/ cache'[k] = m.schema
    BY <1>2 DEF HearDone, TypeOK
  <2>7. FreshCaches'
    BY <2>1, <2>2, <2>5, <2>6 DEF FreshCaches, Purging
  <2> QED  BY <2>3, <2>4, <2>7
<1>3. CASE ChangeSchema(n)
  <2>1. /\ \A r \in Calls : ~InFlight(r)
        /\ \A k \in Nodes : \A d \in done[k] : d.schema = None
    BY <1>3 DEF ChangeSchema
  <2>2. call' = call /\ done' = done /\ change'[n] # "idle"
    BY <1>3 DEF ChangeSchema, messageVars, TypeOK
  <2> QED  BY <2>1, <2>2 DEF FreshCalls, FreshDone, FreshCaches, InFlight, Purging
<1>4. CASE Crash(n)
  <2>1. db' = db /\ ~crossed /\ change[n] = "idle"
    BY <1>4 DEF Crash
  <2>2. FreshCalls /\ FreshDone /\ FreshCaches
    BY <2>1 DEF Fresh
  <2>3. FreshCalls'
    <3>1. ASSUME NEW r \in Calls, InFlight(r)'
          PROVE  call'[r].schema = db
      <4>1. call'[r] = call[r]
        BY <1>4, <3>1 DEF Crash, TypeOK, CallRecord, InFlight
      <4> QED  BY <2>2, <3>1, <4>1 DEF FreshCalls, InFlight
    <3> QED  BY <2>1, <3>1 DEF FreshCalls
  <2>4. FreshDone'
    BY <1>4, <2>1, <2>2 DEF FreshDone, Crash, TypeOK
  <2>5. /\ cache'[n] = None /\ change' = change
        /\ \A m \in Nodes \ {n} : cache'[m] = cache[m] /\ changed'[m] = changed[m]
    BY <1>4, <2>1 DEF Crash, TypeOK
  <2>6. \A m \in Nodes \ {n} : cache'[m] \in {None, db} \/ Purging(m)'
    BY <2>2, <2>5 DEF FreshCaches, Purging
  <2>7. FreshCaches'
    BY <2>1, <2>5, <2>6 DEF FreshCaches
  <2> QED  BY <2>3, <2>4, <2>7
<1>5. CASE AnnounceFails(n)
  BY <1>5 DEF AnnounceFails
<1> QED  BY <1>1, <1>2, <1>3, <1>4, <1>5 DEF NodeStep

\* An old schema stays in a node's memory only until the message that is on
\* its way, if no change overlapped a build and every change was announced to all.
THEOREM OldOnlyByCrossing == Spec => []StaleOnlyByCrossing
<1>1. Init => Fresh
  BY DEF Init, Fresh, FreshCalls, FreshDone, FreshCaches, InFlight
<1>2. TypeOK /\ AttemptsLeft /\ Fresh /\ [Next]_vars => Fresh'
  <2> SUFFICES ASSUME TypeOK, AttemptsLeft, Fresh, [Next]_vars, ~crossed'
               PROVE  FreshCalls' /\ FreshDone' /\ FreshCaches'
    BY DEF Fresh
  <2>1. CASE UNCHANGED vars
    BY <2>1 DEF Fresh, FreshCalls, FreshDone, FreshCaches, InFlight, Purging,
         vars, cacheVars, messageVars, historyVars
  <2>2. CASE Next
    BY <2>2, FreshCall, FreshNode DEF Next
  <2> QED  BY <2>1, <2>2
<1>3. Fresh => StaleOnlyByCrossing
  BY DEF Fresh, FreshCaches, StaleOnlyByCrossing
<1> QED  BY <1>1, <1>2, <1>3, SchemaTypeCorrect, PTL DEF Spec

=============================================================================
