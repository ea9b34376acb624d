------------------------- MODULE CollabRoom_proofs -------------------------
(***************************************************************************)
(* Proofs about CollabRoom, for any number of nodes, clients, fields,      *)
(* messages and events: its types, that a field has one holder, and that a *)
(* session of the room has one leader that closes it.                      *)
(***************************************************************************)
EXTENDS CollabRoom, TLAPS

USE CollabAssumption

----------------------------------------------------------------------------
(* The store's callbacks keep the record's type. *)

LEMMA CallbackTypes ==
  ASSUME room \in RoomRecord
  PROVE  /\ Emptied \in RoomRecord
         /\ Initialized \in RoomRecord
         /\ \A c \in Clients : Joined(c) \in RoomRecord
         /\ \A c \in Clients \cup {None} : Left(c) \in RoomRecord
         /\ \A c \in Clients, f \in Fields \cup {None} : Focused(c, f) \in RoomRecord
<1>1. Emptied \in RoomRecord
  BY DEF RoomRecord, Emptied, NoClients
<1>2. Initialized \in RoomRecord
  BY DEF RoomRecord, Initialized, NoClients
<1>3. ASSUME NEW c \in Clients
      PROVE  Joined(c) \in RoomRecord
  BY DEF RoomRecord, Joined
<1>4. ASSUME NEW c \in Clients \cup {None}
      PROVE  Left(c) \in RoomRecord
  BY DEF RoomRecord, Left
<1>5. ASSUME NEW c \in Clients, NEW f \in Fields \cup {None}
      PROVE  Focused(c, f) \in RoomRecord
  BY DEF RoomRecord, Focused
<1> QED  BY <1>1, <1>2, <1>3, <1>4, <1>5

ActPcs == {"begin", "create", "ensure", "register", "member", "push", "init",
           "leave", "focus", "byUser", "reread", "write"}

\* A handler that goes on keeps its client, its kind and its field.
LEMMA GoesType ==
  ASSUME TypeOK, NEW h \in Handlers, act[h].pc # "idle",
         NEW pc \in ActPcs, Goes(h, pc)
  PROVE  act' \in [Handlers -> Activation \cup {Idle}]
<1>1. act[h] \in Activation
  BY DEF TypeOK, Idle
<1>2. [act[h] EXCEPT !.pc = pc] \in Activation
  BY <1>1 DEF Activation, ActPcs
<1>3. act' = [act EXCEPT ![h] = [act[h] EXCEPT !.pc = pc]]
  BY DEF Goes
<1>4. act \in [Handlers -> Activation \cup {Idle}]
  BY DEF TypeOK
<1> QED  BY <1>2, <1>3, <1>4

LEMMA EndsType ==
  ASSUME TypeOK, NEW h \in Handlers, Ends(h)
  PROVE  act' \in [Handlers -> Activation \cup {Idle}]
BY DEF TypeOK, Ends

LEMMA AddClientType ==
  ASSUME TypeOK, NEW c \in Clients, AddClient(c)
  PROVE  /\ clients' \in [Nodes -> SUBSET Clients]
         /\ pending' \subseteq [op : {"add", "remove"}, client : Clients]
BY DEF TypeOK, AddClient

LEMMA SendCloseType ==
  ASSUME TypeOK, SendClose
  PROVE  broadcast' \in [Nodes -> Nat]
BY DEF TypeOK, SendClose

\* Connections keep the types.
LEMMA ClientTypes ==
  ASSUME TypeOK, NEW c \in Clients,
         Connect(c) \/ Disconnect(c) \/ SweepMember(c) \/ SweepLeave(c) \/ Abandon(c)
  PROVE  TypeOK'
<1>1. CASE Connect(c)
  BY AddClientType, <1>1 DEF TypeOK, Connect, storeVars, nodeVars, appVars, taskVars, envVars
<1>2. CASE Disconnect(c)
  BY <1>2 DEF TypeOK, Disconnect, storeVars, nodeVars, appVars, taskVars, envVars, Happens
<1>3. CASE SweepMember(c)
  BY <1>3 DEF TypeOK, SweepMember, storeVars, nodeVars, appVars, taskVars, envVars
<1>4. CASE SweepLeave(c)
  BY CallbackTypes, <1>4 DEF TypeOK, SweepLeave, storeVars, nodeVars, appVars, taskVars, envVars
<1>5. CASE Abandon(c)
  BY <1>5 DEF TypeOK, Abandon, storeVars, nodeVars, appVars, taskVars, envVars
<1> QED  BY <1>1, <1>2, <1>3, <1>4, <1>5

\* A handler under way has a client, a kind and a field.
LEMMA ActType ==
  ASSUME TypeOK, NEW h \in Handlers, act[h].pc # "idle"
  PROVE  /\ act[h] \in Activation
         /\ act[h].client \in Clients /\ act[h].kind \in Kinds
         /\ act[h].field \in Fields \cup {None}
         /\ Home[act[h].client] \in Nodes
<1>1. act[h] \in Activation
  BY DEF TypeOK, Idle
<1> QED  BY <1>1 DEF Activation

\* Sending a message puts a well typed activation into an idle slot.
LEMMA SendTypes ==
  ASSUME TypeOK, NEW h \in Handlers, SendSome(h)
  PROVE  TypeOK'
<1>1. PICK c \in Clients, kind \in Kinds, f \in Fields \cup {None} : Send(h, c, kind, f)
  BY DEF SendSome, Kinds
<1>2. [pc |-> "begin", client |-> c, kind |-> kind, field |-> f] \in Activation
  BY DEF Activation
<1>3. act' \in [Handlers -> Activation \cup {Idle}]
  BY <1>1, <1>2 DEF TypeOK, Send
<1>4. app' \in [Clients -> {"out", "joining", "in"}]
  BY <1>1 DEF TypeOK, Send
<1>5. sent' \in Nat
  BY <1>1 DEF TypeOK, Send
<1>6. UNCHANGED <<storeVars, socket, nodeVars, sweep, cleanup, removal, job, stored, events>>
  BY <1>1 DEF Send
<1> QED  BY <1>3, <1>4, <1>5, <1>6 DEF TypeOK, storeVars, nodeVars, appVars, taskVars, envVars

LEMMA JoinCheckTypes ==
  ASSUME TypeOK, NEW h \in Handlers, JoinCheck(h)
  PROVE  TypeOK'
<1>1. act[h].pc # "idle"
  BY DEF JoinCheck, At
<1>2. act' \in [Handlers -> Activation \cup {Idle}]
  BY <1>1, GoesType, EndsType DEF JoinCheck, ActPcs
<1> QED  BY <1>2 DEF TypeOK, JoinCheck, Others, storeVars, nodeVars, appVars, taskVars, envVars

LEMMA JoinCreateTypes ==
  ASSUME TypeOK, NEW h \in Handlers, JoinCreate(h)
  PROVE  TypeOK'
<1>1. act[h].pc # "idle"
  BY DEF JoinCreate, At
<1>2. act[h].client \in Clients /\ act[h].field \in Fields \cup {None} /\ Home[act[h].client] \in Nodes
  BY <1>1, ActType
<1>3. act' \in [Handlers -> Activation \cup {Idle}]
  BY <1>1, GoesType, EndsType DEF JoinCreate, At, ActPcs, Kinds
<1> QED  BY <1>2, <1>3, AddClientType DEF TypeOK, JoinCreate, RegisterRoom, Others, storeVars, nodeVars, appVars, taskVars, envVars

LEMMA PushTypes ==
  ASSUME TypeOK, NEW h \in Handlers, Push(h)
  PROVE  TypeOK'
<1>1. act[h].pc # "idle"
  BY DEF Push, At
<1>2. act[h].client \in Clients /\ act[h].field \in Fields \cup {None} /\ Home[act[h].client] \in Nodes
  BY <1>1, ActType
<1>3. act' \in [Handlers -> Activation \cup {Idle}]
  BY <1>1, GoesType, EndsType DEF Push, At, ActPcs, Kinds
<1> QED  BY <1>2, <1>3, CallbackTypes DEF TypeOK, Push, RegisterRoom, Others, storeVars, nodeVars, appVars, taskVars, envVars

LEMMA SendInitTypes ==
  ASSUME TypeOK, NEW h \in Handlers, SendInit(h)
  PROVE  TypeOK'
<1>1. act[h].pc # "idle"
  BY DEF SendInit, At
<1>2. act[h].client \in Clients /\ act[h].field \in Fields \cup {None} /\ Home[act[h].client] \in Nodes
  BY <1>1, ActType
<1>3. act' \in [Handlers -> Activation \cup {Idle}]
  BY <1>1, GoesType, EndsType DEF SendInit, At, ActPcs, Kinds
<1> QED  BY <1>2, <1>3 DEF TypeOK, SendInit, RegisterRoom, Others, storeVars, nodeVars, appVars, taskVars, envVars

LEMMA GetRoomTypes ==
  ASSUME TypeOK, NEW h \in Handlers, GetRoom(h)
  PROVE  TypeOK'
<1>1. act[h].pc # "idle"
  BY DEF GetRoom, At
<1>2. act[h].client \in Clients /\ act[h].field \in Fields \cup {None} /\ Home[act[h].client] \in Nodes
  BY <1>1, ActType
<1>3. act' \in [Handlers -> Activation \cup {Idle}]
  BY <1>1, GoesType, EndsType DEF GetRoom, At, ActPcs, Kinds
<1> QED  BY <1>2, <1>3 DEF TypeOK, GetRoom, RegisterRoom, Others, storeVars, nodeVars, appVars, taskVars, envVars

LEMMA EnsureInitializedTypes ==
  ASSUME TypeOK, NEW h \in Handlers, EnsureInitialized(h)
  PROVE  TypeOK'
<1>1. act[h].pc # "idle"
  BY DEF EnsureInitialized, At
<1>2. act[h].client \in Clients /\ act[h].field \in Fields \cup {None} /\ Home[act[h].client] \in Nodes
  BY <1>1, ActType
<1>3. act' \in [Handlers -> Activation \cup {Idle}]
  BY <1>1, GoesType, EndsType DEF EnsureInitialized, At, ActPcs, Kinds
<1> QED  BY <1>2, <1>3, CallbackTypes DEF TypeOK, EnsureInitialized, RegisterRoom, Others, storeVars, nodeVars, appVars, taskVars, envVars

LEMMA CheckMemberTypes ==
  ASSUME TypeOK, NEW h \in Handlers, CheckMember(h)
  PROVE  TypeOK'
<1>1. act[h].pc # "idle"
  BY DEF CheckMember, At
<1>2. act[h].client \in Clients /\ act[h].field \in Fields \cup {None} /\ Home[act[h].client] \in Nodes
  BY <1>1, ActType
<1>3. act' \in [Handlers -> Activation \cup {Idle}]
  BY <1>1, GoesType, EndsType DEF CheckMember, At, ActPcs, Kinds
<1> QED  BY <1>2, <1>3 DEF TypeOK, CheckMember, RegisterRoom, Others, storeVars, nodeVars, appVars, taskVars, envVars

LEMMA LeaveRoomTypes ==
  ASSUME TypeOK, NEW h \in Handlers, LeaveRoom(h)
  PROVE  TypeOK'
<1>1. act[h].pc # "idle"
  BY DEF LeaveRoom, At
<1>2. act[h].client \in Clients /\ act[h].field \in Fields \cup {None} /\ Home[act[h].client] \in Nodes
  BY <1>1, ActType
<1>3. act' \in [Handlers -> Activation \cup {Idle}]
  BY <1>1, GoesType, EndsType DEF LeaveRoom, At, ActPcs, Kinds
<1> QED  BY <1>2, <1>3, CallbackTypes DEF TypeOK, LeaveRoom, RegisterRoom, Others, storeVars, nodeVars, appVars, taskVars, envVars

LEMMA FocusFieldTypes ==
  ASSUME TypeOK, NEW h \in Handlers, FocusField(h)
  PROVE  TypeOK'
<1>1. act[h].pc # "idle"
  BY DEF FocusField, At
<1>2. act[h].client \in Clients /\ act[h].field \in Fields \cup {None} /\ Home[act[h].client] \in Nodes
  BY <1>1, ActType
<1>3. act' \in [Handlers -> Activation \cup {Idle}]
  BY <1>1, GoesType, EndsType DEF FocusField, At, ActPcs, Kinds
<1> QED  BY <1>2, <1>3, CallbackTypes DEF TypeOK, FocusField, RegisterRoom, Others, storeVars, nodeVars, appVars, taskVars, envVars

LEMMA ReadFocusTypes ==
  ASSUME TypeOK, NEW h \in Handlers, ReadFocus(h)
  PROVE  TypeOK'
<1>1. act[h].pc # "idle"
  BY DEF ReadFocus, At
<1>2. act[h].client \in Clients /\ act[h].field \in Fields \cup {None} /\ Home[act[h].client] \in Nodes
  BY <1>1, ActType
<1>3. act' \in [Handlers -> Activation \cup {Idle}]
  BY <1>1, GoesType, EndsType DEF ReadFocus, At, ActPcs, Kinds
<1> QED  BY <1>2, <1>3 DEF TypeOK, ReadFocus, RegisterRoom, Others, storeVars, nodeVars, appVars, taskVars, envVars

LEMMA WriteFieldTypes ==
  ASSUME TypeOK, NEW h \in Handlers, WriteField(h)
  PROVE  TypeOK'
<1>1. act[h].pc # "idle"
  BY DEF WriteField, At
<1>2. act[h].client \in Clients /\ act[h].field \in Fields \cup {None} /\ Home[act[h].client] \in Nodes
  BY <1>1, ActType
<1>3. act' \in [Handlers -> Activation \cup {Idle}]
  BY <1>1, GoesType, EndsType DEF WriteField, At, ActPcs, Kinds
<1> QED  BY <1>2, <1>3 DEF TypeOK, WriteField, RegisterRoom, Others, storeVars, nodeVars, appVars, taskVars, envVars

LEMMA RegisterType ==
  ASSUME TypeOK, NEW n \in Nodes, RegisterRoom(n) \/ UnregisterRoom(n)
  PROVE  registry' \in [Nodes -> [clients : SUBSET Clients, rooms : BOOLEAN]]
<1> DEFINE Entry == [clients : SUBSET Clients, rooms : BOOLEAN]
<1>1. registry \in [Nodes -> Entry] /\ registry[n] \in Entry
  BY DEF TypeOK
<1>2. PICK b \in BOOLEAN : registry' = [registry EXCEPT ![n] = [registry[n] EXCEPT !.rooms = b]]
  BY DEF RegisterRoom, UnregisterRoom
<1>3. [registry[n] EXCEPT !.rooms = b] \in Entry
  BY <1>1
<1> QED  BY <1>1, <1>2, <1>3

LEMMA JoinRegisterTypes ==
  ASSUME TypeOK, NEW h \in Handlers, JoinRegister(h)
  PROVE  TypeOK'
<1>1. act[h].pc # "idle"
  BY DEF JoinRegister, At
<1>2. act[h].client \in Clients /\ Home[act[h].client] \in Nodes
  BY <1>1, ActType
<1>3. act' \in [Handlers -> Activation \cup {Idle}]
  BY <1>1, GoesType, EndsType DEF JoinRegister, ActPcs
<1>4. registry' \in [Nodes -> [clients : SUBSET Clients, rooms : BOOLEAN]]
  BY <1>2, RegisterType DEF JoinRegister
<1>5. /\ clients' \in [Nodes -> SUBSET Clients]
      /\ pending' \subseteq [op : {"add", "remove"}, client : Clients]
  BY <1>2, AddClientType DEF JoinRegister, TypeOK
<1>6. listener' \in [Nodes -> BOOLEAN]
  BY <1>2 DEF JoinRegister, TypeOK
<1>7. UNCHANGED <<room, loaded, alive, broadcast, Others>>
  BY DEF JoinRegister
<1> QED  BY <1>3, <1>4, <1>5, <1>6, <1>7 DEF TypeOK, Others, storeVars, nodeVars, appVars, taskVars, envVars

----------------------------------------------------------------------------
(* Redis, the cleanup, the deletion and the cluster's job. *)

LEMMA ApplyTypes ==
  ASSUME TypeOK, NEW p \in pending, ApplyPending(p)
  PROVE  TypeOK'
<1> DEFINE Entry == [clients : SUBSET Clients, rooms : BOOLEAN]
<1>1. p.client \in Clients /\ Home[p.client] \in Nodes
  BY DEF TypeOK
<1>2. registry \in [Nodes -> Entry] /\ registry[Home[p.client]] \in Entry
  BY <1>1 DEF TypeOK
<1>3. PICK others \in SUBSET Clients : registry' =
        [registry EXCEPT ![Home[p.client]] = [registry[Home[p.client]] EXCEPT !.clients = others]]
  BY <1>1, <1>2 DEF ApplyPending
<1>4. [registry[Home[p.client]] EXCEPT !.clients = others] \in Entry
  BY <1>2
<1>5. registry' \in [Nodes -> Entry]
  BY <1>2, <1>3, <1>4
<1> QED  BY <1>5 DEF TypeOK, ApplyPending, storeVars, nodeVars, appVars, taskVars, envVars

LEMMA DeliverTypes ==
  ASSUME TypeOK, NEW n \in Nodes, DeliverClose(n)
  PROVE  TypeOK'
<1>1. broadcast' \in [Nodes -> Nat]
  BY DEF TypeOK, DeliverClose
<1>2. loaded' \in [Nodes -> BOOLEAN] /\ listener' \in [Nodes -> BOOLEAN]
  BY DEF TypeOK, DeliverClose
<1>3. UNCHANGED <<storeVars, clients, alive, appVars, taskVars, envVars>>
  BY DEF DeliverClose
<1> QED  BY <1>1, <1>2, <1>3 DEF TypeOK, storeVars, nodeVars, appVars, taskVars, envVars

\* A task that moves on keeps its clients and its session.
LEMMA CloserTypes ==
  ASSUME NEW k \in CloserTask
  PROVE  /\ Resting \in CloserTask /\ [Resting EXCEPT !.pc = "event"] \in CloserTask
         /\ \A T \in SUBSET Clients :
              [Resting EXCEPT !.pc = "list", !.todo = T] \in CloserTask
         /\ \A pc \in {"idle", "list", "sweep", "leave", "close", "unregister", "tell"} :
              /\ [k EXCEPT !.pc = pc] \in CloserTask
              /\ \A T \in SUBSET Clients : [k EXCEPT !.pc = pc, !.todo = T] \in CloserTask
              /\ \A s \in Nat : [k EXCEPT !.pc = pc, !.session = s] \in CloserTask
              /\ [k EXCEPT !.pc = pc, !.client = None] \in CloserTask
              /\ \A c \in Clients, T \in SUBSET Clients :
                   [k EXCEPT !.pc = pc, !.client = c, !.todo = T] \in CloserTask
         /\ \A T \in SUBSET Clients : [k EXCEPT !.todo = T] \in CloserTask
BY DEF CloserTask, Resting

LEMMA TellTypes ==
  ASSUME TypeOK, NEW n \in Nodes, SendClose, Dispose(n)
  PROVE  broadcast' \in [Nodes -> Nat] /\ listener' \in [Nodes -> BOOLEAN]
<1>1. listener' \in [Nodes -> BOOLEAN]
  BY DEF TypeOK, Dispose
<1> QED  BY <1>1, SendCloseType

\* What the cleanup's steps have in common: only the tasks, the room, the
\* registry and the memory of the nodes change.
LEMMA CleanupTypes ==
  ASSUME TypeOK, NEW n \in Nodes, Cleanup(n)
  PROVE  TypeOK'
<1> DEFINE k == cleanup[n]
           Task == CloserTask
<1>1. k \in Task /\ cleanup \in [Nodes -> Task]
  BY DEF TypeOK
<1>2. k.client \in Clients \cup {None} /\ k.todo \in SUBSET Clients /\ room.session \in Nat
  BY <1>1 DEF TypeOK, CloserTask, RoomRecord
<1>3. ASSUME NEW t \in Task, cleanup' = [cleanup EXCEPT ![n] = t]
      PROVE  cleanup' \in [Nodes -> Task]
  BY <1>1, <1>3
<1>4. CASE CleanupTick(n)
  <2>1. RegisteredClients \in SUBSET Clients
    BY DEF TypeOK, RegisteredClients
  <2>2. [Resting EXCEPT !.pc = "list", !.todo = RegisteredClients] \in Task
    BY <1>1, <2>1, CloserTypes
  <2>3. cleanup' \in [Nodes -> Task]
    BY <1>3, <1>4, <2>2 DEF CleanupTick
  <2> QED  BY <1>4, <2>3 DEF TypeOK, CleanupTick, storeVars, nodeVars, appVars, taskVars, envVars
<1>5. CASE CleanupList(n)
  <2> DEFINE todo == IF loaded[n] THEN Members \ k.todo ELSE {}
  <2>1. todo \in SUBSET Clients
    BY DEF Members
  <2>2. [k EXCEPT !.pc = "sweep", !.todo = todo] \in Task
    BY <1>1, <2>1, CloserTypes
  <2>3. cleanup' = [cleanup EXCEPT ![n] = [k EXCEPT !.pc = "sweep", !.todo = todo]]
    BY <1>5 DEF CleanupList
  <2>4. cleanup' \in [Nodes -> Task]
    BY <1>3, <2>2, <2>3
  <2> QED  BY <1>5, <2>4 DEF TypeOK, CleanupList, storeVars, nodeVars, appVars, taskVars, envVars
<1>6. CASE CleanupSweep(n)
  <2>1. PICK t \in Task : cleanup' = [cleanup EXCEPT ![n] = t]
    <3>1. ASSUME NEW c \in k.todo,
                 cleanup' = [cleanup EXCEPT ![n] =
                    IF loaded[n] /\ c \in Members
                    THEN [k EXCEPT !.pc = "leave", !.client = c, !.todo = @ \ {c}]
                    ELSE [k EXCEPT !.todo = @ \ {c}]]
          PROVE  \E t \in Task : cleanup' = [cleanup EXCEPT ![n] = t]
      <4>1. c \in Clients /\ k.todo \ {c} \in SUBSET Clients
        BY <1>2, <3>1
      <4>2. [k EXCEPT !.pc = "leave", !.client = c, !.todo = k.todo \ {c}] \in Task
        BY <1>1, <4>1, CloserTypes
      <4>3. [k EXCEPT !.todo = k.todo \ {c}] \in Task
        BY <1>1, <4>1, CloserTypes
      <4> QED  BY <3>1, <4>2, <4>3
    <3>2. ASSUME CleanupGoes(n, IF loaded[n] THEN "close" ELSE "idle")
          PROVE  \E t \in Task : cleanup' = [cleanup EXCEPT ![n] = t]
      <4>1. [k EXCEPT !.pc = "close"] \in Task /\ [k EXCEPT !.pc = "idle"] \in Task
        BY <1>1, CloserTypes
      <4> QED  BY <3>2, <4>1 DEF CleanupGoes
    <3> QED  BY <1>6, <3>1, <3>2 DEF CleanupSweep
  <2>2. cleanup' \in [Nodes -> Task]
    BY <1>3, <2>1
  <2> QED  BY <1>6, <2>2 DEF TypeOK, CleanupSweep, storeVars, nodeVars, appVars, taskVars, envVars
<1>7. CASE CleanupLeave(n)
  <2>1. [k EXCEPT !.pc = "sweep", !.client = None] \in Task
    BY <1>1, CloserTypes
  <2>2. cleanup' = [cleanup EXCEPT ![n] = [k EXCEPT !.pc = "sweep", !.client = None]]
    BY <1>7 DEF CleanupLeave
  <2>3. cleanup' \in [Nodes -> Task]
    BY <1>3, <2>1, <2>2
  <2>4. room' \in RoomRecord
    BY <1>2, <1>7, CallbackTypes DEF TypeOK, CleanupLeave
  <2> QED  BY <1>7, <2>3, <2>4 DEF TypeOK, CleanupLeave, storeVars, nodeVars, appVars, taskVars, envVars
<1>8. CASE CleanupClose(n)
  <2>1. /\ [k EXCEPT !.pc = "unregister", !.session = room.session] \in Task
        /\ [k EXCEPT !.pc = "idle"] \in Task
    BY <1>1, <1>2, CloserTypes
  <2>2. \/ cleanup' = [cleanup EXCEPT ![n] = [k EXCEPT !.pc = "unregister",
                                                       !.session = room.session]]
        \/ cleanup' = [cleanup EXCEPT ![n] = [k EXCEPT !.pc = "idle"]]
    BY <1>8 DEF CleanupClose, CleanupGoes
  <2>3. cleanup' \in [Nodes -> Task]
    BY <1>3, <2>1, <2>2
  <2>4. room' \in RoomRecord
    BY <1>8, CallbackTypes DEF TypeOK, CleanupClose
  <2> QED  BY <1>8, <2>3, <2>4 DEF TypeOK, CleanupClose, storeVars, nodeVars, appVars, taskVars, envVars
<1>9. CASE CleanupUnregister(n)
  <2>1. [k EXCEPT !.pc = "tell"] \in Task
    BY <1>1, CloserTypes
  <2>2. cleanup' = [cleanup EXCEPT ![n] = [k EXCEPT !.pc = "tell"]]
    BY <1>9 DEF CleanupUnregister, CleanupGoes
  <2>3. cleanup' \in [Nodes -> Task]
    BY <1>3, <2>1, <2>2
  <2>4. registry' \in [Nodes -> [clients : SUBSET Clients, rooms : BOOLEAN]]
    BY <1>9, RegisterType DEF CleanupUnregister
  <2> QED  BY <1>9, <2>3, <2>4 DEF TypeOK, CleanupUnregister, nodeVars, appVars, taskVars, envVars
<1>10. CASE CleanupTell(n)
  <2>1. cleanup' \in [Nodes -> Task]
    BY <1>1, <1>3, <1>10, CloserTypes DEF CleanupTell
  <2>2. loaded' \in [Nodes -> BOOLEAN]
    BY <1>10 DEF TypeOK, CleanupTell
  <2> QED  BY <1>10, <2>1, <2>2, TellTypes DEF TypeOK, CleanupTell, storeVars, nodeVars, appVars, taskVars, envVars
<1> QED  BY <1>4, <1>5, <1>6, <1>7, <1>8, <1>9, <1>10 DEF Cleanup

LEMMA DeleteTypes ==
  ASSUME TypeOK, DeleteItem
  PROVE  TypeOK'
<1>1. [Resting EXCEPT !.pc = "event"] \in CloserTask
  BY DEF CloserTask, Resting
<1>2. removal' \in [Nodes -> CloserTask]
  BY <1>1 DEF TypeOK, DeleteItem
<1>3. stored' \in BOOLEAN
  BY Zenon DEF DeleteItem
<1>4. events' \in Nat
  BY DEF TypeOK, DeleteItem, Happens
<1>5. UNCHANGED <<storeVars, nodeVars, appVars, act, sweep, cleanup, job, sent>>
  BY DEF DeleteItem
<1> QED  BY <1>2, <1>3, <1>4, <1>5 DEF TypeOK, storeVars, nodeVars, appVars

LEMMA RemovalTypes ==
  ASSUME TypeOK, NEW n \in Nodes, Removal(n)
  PROVE  TypeOK'
<1> DEFINE k == removal[n]
           Task == CloserTask
<1>1. k \in Task /\ removal \in [Nodes -> Task] /\ room.session \in Nat
  BY DEF TypeOK, RoomRecord
<1>2. ASSUME NEW t \in Task, removal' = [removal EXCEPT ![n] = t]
      PROVE  removal' \in [Nodes -> Task]
  BY <1>1, <1>2
<1>3. CASE RemovalStart(n)
  <2>1. [k EXCEPT !.pc = "close"] \in Task /\ [k EXCEPT !.pc = "idle"] \in Task
    BY <1>1, CloserTypes
  <2>2. \/ removal' = [removal EXCEPT ![n] = [k EXCEPT !.pc = "close"]]
        \/ removal' = [removal EXCEPT ![n] = [k EXCEPT !.pc = "idle"]]
    BY <1>3 DEF RemovalStart
  <2>3. removal' \in [Nodes -> Task]
    BY <1>2, <2>1, <2>2
  <2>4. app' \in [Clients -> {"out", "joining", "in"}]
    BY <1>3 DEF TypeOK, RemovalStart
  <2>5. UNCHANGED <<storeVars, socket, nodeVars, act, sweep, cleanup, job, envVars>>
    BY <1>3 DEF RemovalStart
  <2> QED  BY <2>3, <2>4, <2>5 DEF TypeOK, storeVars, nodeVars, appVars, taskVars, envVars
<1>4. CASE RemovalClose(n)
  <2>1. Resting \in Task /\ [k EXCEPT !.pc = "unregister", !.session = room.session] \in Task
    BY <1>1, CloserTypes
  <2>2. \/ removal' = [removal EXCEPT ![n] = [k EXCEPT !.pc = "unregister",
                                                       !.session = room.session]]
        \/ removal' = [removal EXCEPT ![n] = Resting]
    BY <1>4 DEF RemovalClose
  <2>3. removal' \in [Nodes -> Task]
    BY <1>2, <2>1, <2>2
  <2>4. room' \in RoomRecord /\ listener' \in [Nodes -> BOOLEAN]
    BY <1>4, CallbackTypes DEF TypeOK, RemovalClose, Dispose
  <2> QED  BY <1>4, <2>3, <2>4 DEF TypeOK, RemovalClose, storeVars, nodeVars, appVars, taskVars, envVars
<1>5. CASE RemovalUnregister(n)
  <2>1. [k EXCEPT !.pc = "tell"] \in Task
    BY <1>1, CloserTypes
  <2>2. removal' = [removal EXCEPT ![n] = [k EXCEPT !.pc = "tell"]]
    BY <1>5 DEF RemovalUnregister
  <2>3. removal' \in [Nodes -> Task]
    BY <1>2, <2>1, <2>2
  <2>4. registry' \in [Nodes -> [clients : SUBSET Clients, rooms : BOOLEAN]]
    BY <1>5, RegisterType DEF RemovalUnregister
  <2> QED  BY <1>5, <2>3, <2>4 DEF TypeOK, RemovalUnregister, nodeVars, appVars, taskVars, envVars
<1>6. CASE RemovalTell(n)
  <2>1. removal' \in [Nodes -> Task]
    BY <1>1, <1>2, <1>6, CloserTypes DEF RemovalTell
  <2> QED  BY <1>6, <2>1, TellTypes DEF TypeOK, RemovalTell, storeVars, nodeVars, appVars, taskVars, envVars
<1> QED  BY <1>3, <1>4, <1>5, <1>6 DEF Removal

LEMMA CrashTypes ==
  ASSUME TypeOK, NEW n \in Nodes, Crash(n)
  PROVE  TypeOK'
<1>1. cleanup' \in [Nodes -> CloserTask] /\ removal' \in [Nodes -> CloserTask]
  <2>1. Resting \in CloserTask
    BY DEF CloserTask, Resting
  <2> QED  BY <2>1 DEF TypeOK, Crash
<1>2. act' \in [Handlers -> Activation \cup {Idle}] /\ job' \in JobTask \cup {Idle}
  BY DEF TypeOK, Crash
<1>3. /\ socket' \in [Clients -> {"new", "open", "closed"}]
      /\ app' \in [Clients -> {"out", "joining", "in"}]
      /\ sweep' \in [Clients -> {"idle", "member", "leave"}]
  BY DEF TypeOK, Crash
<1>4. /\ clients' \in [Nodes -> SUBSET Clients]
      /\ loaded' \in [Nodes -> BOOLEAN] /\ listener' \in [Nodes -> BOOLEAN]
      /\ alive' \in [Nodes -> BOOLEAN] /\ broadcast' \in [Nodes -> Nat]
  BY DEF TypeOK, Crash
<1>5. pending' \subseteq [op : {"add", "remove"}, client : Clients]
  BY DEF TypeOK, Crash
<1> QED  BY <1>1, <1>2, <1>3, <1>4, <1>5 DEF TypeOK, Crash, Happens

LEMMA PruneTypes ==
  ASSUME TypeOK, NEW m \in Nodes, JobPrune(m)
  PROVE  TypeOK'
<1> DEFINE dead == {n \in Nodes : ~alive[n] /\ registry[n] # Forgotten}
           todo == UNION {registry[n].clients : n \in dead}
<1>1. registry' \in [Nodes -> [clients : SUBSET Clients, rooms : BOOLEAN]]
  BY DEF TypeOK, JobPrune, Forgotten
<1>2. todo \in SUBSET Clients
  BY DEF TypeOK
<1>3. \A pc \in {"ensure", "load"} :
        [pc |-> pc, node |-> m, todo |-> todo, client |-> None, session |-> 0] \in JobTask
  BY <1>2 DEF JobTask
<1>4. job' \in JobTask \cup {Idle}
  BY <1>3 DEF JobPrune
<1> QED  BY <1>1, <1>4 DEF TypeOK, JobPrune, storeVars, nodeVars, appVars, taskVars, envVars

LEMMA JobTypes ==
  ASSUME TypeOK, Job
  PROVE  TypeOK'
<1> DEFINE Pcs == {"load", "ensure", "sweep", "leave", "close", "unregister", "tell"}
<1>1. job \in JobTask
  <2>1. job.pc # "idle"
    BY DEF Job, JobGetRoom, JobEnsure, JobSweep, JobLeave, JobClose, JobUnregister, JobTell
  <2> QED  BY <2>1 DEF TypeOK, Idle
<1>2. /\ job.node \in Nodes /\ job.client \in Clients \cup {None}
      /\ job.todo \in SUBSET Clients /\ room.session \in Nat
  BY <1>1 DEF TypeOK, JobTask, RoomRecord
<1>3. /\ \A pc \in Pcs : /\ [job EXCEPT !.pc = pc] \in JobTask
                         /\ [job EXCEPT !.pc = pc, !.client = None] \in JobTask
                         /\ \A s \in Nat : [job EXCEPT !.pc = pc, !.session = s] \in JobTask
                         /\ \A c \in Clients, T \in SUBSET Clients :
                              [job EXCEPT !.pc = pc, !.client = c, !.todo = T] \in JobTask
      /\ \A T \in SUBSET Clients : [job EXCEPT !.todo = T] \in JobTask
  BY <1>1 DEF JobTask
<1>4. CASE JobGetRoom
  <2>1. job' \in JobTask \cup {Idle}
    BY <1>3, <1>4 DEF JobGetRoom, JobGoes
  <2>2. loaded' \in [Nodes -> BOOLEAN]
    BY <1>2, <1>4 DEF TypeOK, RoomRecord, JobGetRoom
  <2> QED  BY <1>4, <2>1, <2>2 DEF TypeOK, JobGetRoom, storeVars, nodeVars, appVars, taskVars, envVars
<1>5. CASE JobEnsure
  <2>1. job' \in JobTask \cup {Idle}
    BY <1>3, <1>5 DEF JobEnsure, JobGoes
  <2> QED  BY <1>5, <2>1, CallbackTypes DEF TypeOK, JobEnsure, storeVars, nodeVars, appVars, taskVars, envVars
<1>6. CASE JobSweep
  <2>1. ASSUME NEW c \in job.todo,
               job' = IF c \in Members
                      THEN [job EXCEPT !.pc = "leave", !.client = c, !.todo = @ \ {c}]
                      ELSE [job EXCEPT !.todo = @ \ {c}]
        PROVE  job' \in JobTask
    <3>1. c \in Clients /\ job.todo \ {c} \in SUBSET Clients
      BY <1>2, <2>1
    <3>2. /\ [job EXCEPT !.pc = "leave", !.client = c, !.todo = job.todo \ {c}] \in JobTask
          /\ [job EXCEPT !.todo = job.todo \ {c}] \in JobTask
      BY <1>3, <3>1
    <3> QED  BY <2>1, <3>2
  <2>2. job' \in JobTask
    BY <1>3, <1>6, <2>1 DEF JobSweep, JobGoes
  <2> QED  BY <1>6, <2>2 DEF TypeOK, JobSweep, storeVars, nodeVars, appVars, taskVars, envVars
<1>7. CASE JobLeave
  <2>1. job' \in JobTask
    BY <1>3, <1>7 DEF JobLeave
  <2>2. room' \in RoomRecord
    BY <1>2, <1>7, CallbackTypes DEF TypeOK, JobLeave
  <2> QED  BY <1>7, <2>1, <2>2 DEF TypeOK, JobLeave, storeVars, nodeVars, appVars, taskVars, envVars
<1>8. CASE JobClose
  <2>1. job' \in JobTask \cup {Idle}
    BY <1>2, <1>3, <1>8 DEF JobClose
  <2>2. room' \in RoomRecord
    BY <1>8, CallbackTypes DEF TypeOK, JobClose
  <2> QED  BY <1>8, <2>1, <2>2 DEF TypeOK, JobClose, storeVars, nodeVars, appVars, taskVars, envVars
<1>9. CASE JobUnregister
  <2>1. job' \in JobTask
    BY <1>3, <1>9 DEF JobUnregister, JobGoes
  <2>2. registry' \in [Nodes -> [clients : SUBSET Clients, rooms : BOOLEAN]]
    BY <1>2, <1>9, RegisterType DEF JobUnregister
  <2> QED  BY <1>9, <2>1, <2>2 DEF TypeOK, JobUnregister, nodeVars, appVars, taskVars, envVars
<1>10. CASE JobTell
  <2>1. loaded' \in [Nodes -> BOOLEAN]
    BY <1>10 DEF TypeOK, JobTell
  <2> QED  BY <1>2, <1>10, <2>1, TellTypes DEF TypeOK, JobTell, storeVars, nodeVars, appVars, taskVars, envVars
<1> QED  BY <1>4, <1>5, <1>6, <1>7, <1>8, <1>9, <1>10 DEF Job

----------------------------------------------------------------------------
LEMMA InitTypes == Init => TypeOK
<1> SUFFICES ASSUME Init PROVE TypeOK
  OBVIOUS
<1>1. room \in RoomRecord
  BY DEF Init, RoomRecord
<1>2. registry \in [Nodes -> [clients : SUBSET Clients, rooms : BOOLEAN]]
  BY DEF Init, InsideAt, Used
<1>3. /\ clients \in [Nodes -> SUBSET Clients]
      /\ loaded \in [Nodes -> BOOLEAN] /\ listener \in [Nodes -> BOOLEAN]
  BY DEF Init, InsideAt, Used
<1>4. Resting \in CloserTask
  BY DEF Resting, CloserTask
<1> QED  BY <1>1, <1>2, <1>3, <1>4 DEF Init, TypeOK

LEMMA HandleTypes ==
  ASSUME TypeOK, NEW h \in Handlers, Handle(h)
  PROVE  TypeOK'
BY JoinCheckTypes, JoinCreateTypes, JoinRegisterTypes, PushTypes, SendInitTypes, GetRoomTypes,
   EnsureInitializedTypes, CheckMemberTypes, LeaveRoomTypes, FocusFieldTypes,
   ReadFocusTypes, WriteFieldTypes DEF Handle

LEMMA NextTypes == TypeOK /\ [Next]_vars => TypeOK'
<1> SUFFICES ASSUME TypeOK, [Next]_vars PROVE TypeOK'
  OBVIOUS
<1>1. CASE UNCHANGED vars
  BY <1>1 DEF TypeOK, vars, storeVars, nodeVars, appVars, taskVars, envVars
<1>2. CASE Next
  BY <1>2, ClientTypes, SendTypes, HandleTypes, ApplyTypes, DeliverTypes, CleanupTypes,
     RemovalTypes, CrashTypes, PruneTypes, DeleteTypes, JobTypes DEF Next
<1> QED  BY <1>1, <1>2

\* Type correctness: no interleaving of joins, leaves, crashes, cleanups and
\* closes builds a room, a registry or a task outside its set of values.
THEOREM TypeCorrect == Spec => []TypeOK
BY InitTypes, NextTypes, PTL DEF Spec

----------------------------------------------------------------------------
(* What a step does to the room in the store, and to those who close it.   *)

\* The callbacks of the store but the one of close.
Callback ==
    \/ room' = room
    \/ room' = Initialized
    \/ \E c \in Clients : room' = Joined(c)
    \/ \E c \in Clients \cup {None} : room' = Left(c)
    \/ \E c \in Clients, f \in Fields \cup {None} : ~Taken(c, f) /\ room' = Focused(c, f)

\* A task does not become the leader, and a leader keeps its session.
Follows(t, u) == Closing(u) => Closing(t) /\ u.session = t.session

QuietStep ==
    /\ Callback
    /\ \A n \in Nodes : Follows(cleanup[n], cleanup'[n]) /\ Follows(removal[n], removal'[n])
    /\ Follows(job, job')

\* One task becomes the leader of the session it ends.
CloseStep ==
    /\ room.open /\ room' = Emptied
    /\ \/ \E n \in Nodes : /\ cleanup'[n].session = room.session
                           /\ \A m \in Nodes \ {n} : cleanup'[m] = cleanup[m]
                           /\ UNCHANGED <<removal, job>>
       \/ \E n \in Nodes : /\ removal'[n].session = room.session
                           /\ \A m \in Nodes \ {n} : removal'[m] = removal[m]
                           /\ UNCHANGED <<cleanup, job>>
       \/ job'.session = room.session /\ UNCHANGED <<cleanup, removal>>

LEMMA HandlerSteps ==
  ASSUME TypeOK, NEW h \in Handlers, SendSome(h) \/ Handle(h)
  PROVE  Callback /\ UNCHANGED <<cleanup, removal, job>>
<1>1. CASE SendSome(h)
  BY <1>1 DEF SendSome, Send, Callback, storeVars
<1>2. CASE Handle(h)
  <2>1. act[h].client \in Clients /\ act[h].field \in Fields \cup {None}
    <3>1. act[h].pc # "idle"
      BY <1>2 DEF Handle, JoinCheck, JoinCreate, JoinRegister, Push, SendInit, GetRoom,
         EnsureInitialized, CheckMember, LeaveRoom, FocusField, ReadFocus, WriteField, At
    <3> QED  BY <3>1, ActType
  <2>2. CASE JoinCheck(h) \/ JoinCreate(h) \/ JoinRegister(h) \/ SendInit(h) \/ GetRoom(h)
             \/ CheckMember(h) \/ ReadFocus(h) \/ WriteField(h)
    BY <2>2 DEF JoinCheck, JoinCreate, JoinRegister, SendInit, GetRoom, CheckMember, ReadFocus,
       WriteField, Callback, Others, storeVars
  <2>3. CASE Push(h) \/ EnsureInitialized(h) \/ LeaveRoom(h)
    BY <2>1, <2>3 DEF Push, EnsureInitialized, LeaveRoom, Callback, Others
  <2>4. CASE FocusField(h)
    BY <2>1, <2>4 DEF FocusField, Callback, Others
  <2> QED  BY <1>2, <2>2, <2>3, <2>4 DEF Handle
<1> QED  BY <1>1, <1>2

LEMMA ClientSteps ==
  ASSUME TypeOK, NEW c \in Clients,
         Connect(c) \/ Disconnect(c) \/ SweepMember(c) \/ SweepLeave(c) \/ Abandon(c)
  PROVE  Callback /\ UNCHANGED <<cleanup, removal, job>>
BY DEF Connect, Disconnect, SweepMember, SweepLeave, Abandon, Callback, storeVars, taskVars

LEMMA CleanupSteps ==
  ASSUME TypeOK, NEW n \in Nodes, Cleanup(n)
  PROVE  QuietStep \/ CloseStep
<1>1. cleanup \in [Nodes -> CloserTask] /\ cleanup[n] \in CloserTask
  BY DEF TypeOK
<1>2. cleanup[n].client \in Clients \cup {None}
  BY <1>1 DEF CloserTask
<1>3. CASE CleanupClose(n) /\ MayClose(FALSE)
  <2>1. /\ cleanup' = [cleanup EXCEPT ![n] = [cleanup[n] EXCEPT !.pc = "unregister",
                                                               !.session = room.session]]
        /\ room.open /\ room' = Emptied /\ UNCHANGED <<removal, job>>
    BY <1>3 DEF CleanupClose, MayClose
  <2>2. cleanup'[n].session = room.session /\ \A m \in Nodes \ {n} : cleanup'[m] = cleanup[m]
    BY <1>1, <2>1 DEF CloserTask
  <2> QED  BY <2>1, <2>2 DEF CloseStep
<1>4. CASE ~(CleanupClose(n) /\ MayClose(FALSE))
  <2>1. \A m \in Nodes \ {n} : cleanup'[m] = cleanup[m]
    BY <1>1 DEF Cleanup, CleanupTick, CleanupList, CleanupSweep, CleanupLeave,
       CleanupClose, CleanupUnregister, CleanupTell, CleanupGoes
  <2>2. Follows(cleanup[n], cleanup'[n])
    <3>1. CASE CleanupTick(n) \/ CleanupTell(n)
      <4>1. Resting.pc = "idle" /\ [Resting EXCEPT !.pc = "list", !.todo = RegisteredClients].pc = "list"
        BY DEF Resting
      <4>2. cleanup'[n].pc \in {"idle", "list"}
        BY <1>1, <3>1, <4>1 DEF CleanupTick, CleanupTell
      <4> QED  BY <4>2 DEF Follows, Closing
    <3>2. CASE CleanupList(n)
      <4>1. cleanup'[n].pc = "sweep"
        BY <1>1, <3>2 DEF CloserTask, CleanupList
      <4> QED  BY <4>1 DEF Follows, Closing
    <3>3. CASE CleanupLeave(n)
      <4>1. cleanup'[n].pc = "sweep"
        BY <1>1, <3>3 DEF CloserTask, CleanupLeave
      <4> QED  BY <4>1 DEF Follows, Closing
    <3>4. CASE CleanupSweep(n)
      <4> DEFINE k == cleanup[n]
      <4>1. ASSUME NEW c \in k.todo,
                   cleanup' = [cleanup EXCEPT ![n] =
                      IF loaded[n] /\ c \in Members
                      THEN [k EXCEPT !.pc = "leave", !.client = c, !.todo = @ \ {c}]
                      ELSE [k EXCEPT !.todo = @ \ {c}]]
            PROVE  cleanup'[n].pc \in {"leave", "sweep"}
        <5>1. [k EXCEPT !.pc = "leave", !.client = c, !.todo = @ \ {c}].pc = "leave"
          BY <1>1 DEF CloserTask
        <5>2. [k EXCEPT !.todo = @ \ {c}].pc = "sweep"
          BY <1>1, <3>4 DEF CloserTask, CleanupSweep
        <5> QED  BY <1>1, <4>1, <5>1, <5>2
      <4>2. ASSUME CleanupGoes(n, IF loaded[n] THEN "close" ELSE "idle")
            PROVE  cleanup'[n].pc \in {"close", "idle"}
        BY <1>1, <4>2 DEF CloserTask, CleanupGoes
      <4>3. cleanup'[n].pc \in {"leave", "sweep", "close", "idle"}
        BY <3>4, <4>1, <4>2 DEF CleanupSweep
      <4> QED  BY <4>3 DEF Follows, Closing
    <3>5. CASE CleanupClose(n)
      <4>1. cleanup'[n].pc = "idle"
        <5>1. cleanup' = [cleanup EXCEPT ![n] = [cleanup[n] EXCEPT !.pc = "idle"]]
          BY <1>4, <3>5 DEF CleanupClose, CleanupGoes
        <5>2. [cleanup[n] EXCEPT !.pc = "idle"].pc = "idle"
          BY <1>1 DEF CloserTask
        <5> QED  BY <1>1, <5>1, <5>2
      <4> QED  BY <4>1 DEF Follows, Closing
    <3>6. CASE CleanupUnregister(n)
      <4>1. cleanup' = [cleanup EXCEPT ![n] = [cleanup[n] EXCEPT !.pc = "tell"]]
        BY <3>6 DEF CleanupUnregister, CleanupGoes
      <4>2. [cleanup[n] EXCEPT !.pc = "tell"].session = cleanup[n].session
        BY <1>1 DEF CloserTask
      <4>3. Closing(cleanup[n])
        BY <3>6 DEF CleanupUnregister, Closing
      <4> QED  BY <1>1, <4>1, <4>2, <4>3 DEF Follows
    <3> QED  BY <1>4, <3>1, <3>2, <3>3, <3>4, <3>5, <3>6 DEF Cleanup
  <2>3. Callback /\ UNCHANGED <<removal, job>>
    BY <1>2, <1>4 DEF Cleanup, CleanupTick, CleanupList, CleanupSweep, CleanupLeave,
       CleanupClose, CleanupUnregister, CleanupTell, Callback, storeVars
  <2> QED  BY <2>1, <2>2, <2>3 DEF QuietStep, Follows
<1> QED  BY <1>3, <1>4

LEMMA RemovalSteps ==
  ASSUME TypeOK, NEW n \in Nodes, Removal(n)
  PROVE  QuietStep \/ CloseStep
<1>1. removal \in [Nodes -> CloserTask] /\ removal[n] \in CloserTask
  BY DEF TypeOK
<1>2. CASE RemovalClose(n) /\ MayClose(TRUE)
  <2>1. /\ removal' = [removal EXCEPT ![n] = [removal[n] EXCEPT !.pc = "unregister",
                                                               !.session = room.session]]
        /\ room.open /\ room' = Emptied /\ UNCHANGED <<cleanup, job>>
    BY <1>2 DEF RemovalClose, MayClose
  <2>2. removal'[n].session = room.session /\ \A m \in Nodes \ {n} : removal'[m] = removal[m]
    BY <1>1, <2>1 DEF CloserTask
  <2> QED  BY <2>1, <2>2 DEF CloseStep
<1>3. CASE ~(RemovalClose(n) /\ MayClose(TRUE))
  <2>1. \A m \in Nodes \ {n} : removal'[m] = removal[m]
    BY <1>1 DEF Removal, RemovalStart, RemovalClose, RemovalUnregister, RemovalTell
  <2>2. Follows(removal[n], removal'[n])
    <3>1. CASE RemovalStart(n)
      <4>1. removal'[n].pc \in {"close", "idle"}
        BY <1>1, <3>1 DEF CloserTask, RemovalStart
      <4> QED  BY <4>1 DEF Follows, Closing
    <3>2. CASE RemovalClose(n) \/ RemovalTell(n)
      <4>1. removal'[n] = Resting
        BY <1>1, <1>3, <3>2 DEF RemovalClose, RemovalTell
      <4> QED  BY <4>1 DEF Resting, Follows, Closing
    <3>3. CASE RemovalUnregister(n)
      <4>1. removal'[n].session = removal[n].session
        BY <1>1, <3>3 DEF CloserTask, RemovalUnregister
      <4>2. Closing(removal[n])
        BY <3>3 DEF RemovalUnregister, Closing
      <4> QED  BY <4>1, <4>2 DEF Follows
    <3> QED  BY <1>3, <3>1, <3>2, <3>3 DEF Removal
  <2>3. room' = room /\ UNCHANGED <<cleanup, job>>
    BY <1>3 DEF Removal, RemovalStart, RemovalClose, RemovalUnregister, RemovalTell, storeVars
  <2> QED  BY <2>1, <2>2, <2>3 DEF QuietStep, Callback, Follows
<1> QED  BY <1>2, <1>3

LEMMA JobSteps ==
  ASSUME TypeOK, Job
  PROVE  QuietStep \/ CloseStep
<1>1. job \in JobTask
  <2>1. job.pc # "idle"
    BY DEF Job, JobGetRoom, JobEnsure, JobSweep, JobLeave, JobClose, JobUnregister, JobTell
  <2> QED  BY <2>1 DEF TypeOK, Idle
<1>2. job.client \in Clients \cup {None}
  BY <1>1 DEF JobTask
<1>3. CASE JobClose /\ MayClose(FALSE)
  <2>1. job'.session = room.session /\ UNCHANGED <<cleanup, removal>>
    BY <1>1, <1>3 DEF JobClose, JobTask
  <2> QED  BY <1>3, <2>1 DEF JobClose, MayClose, CloseStep
<1>4. CASE ~(JobClose /\ MayClose(FALSE))
  <2>1. Follows(job, job')
    <3>1. CASE JobGetRoom \/ JobEnsure \/ JobLeave
      <4>1. job'.pc \in {"ensure", "sweep", "idle"}
        <5>1. /\ [job EXCEPT !.pc = "ensure"].pc = "ensure"
              /\ [job EXCEPT !.pc = "sweep"].pc = "sweep"
              /\ [job EXCEPT !.pc = "sweep", !.client = None].pc = "sweep"
          BY <1>1 DEF JobTask
        <5>2. Idle.pc = "idle"
          BY DEF Idle
        <5> QED  BY <3>1, <5>1, <5>2 DEF JobGetRoom, JobEnsure, JobLeave, JobGoes
      <4> QED  BY <4>1 DEF Follows, Closing
    <3>2. CASE JobSweep
      <4>1. ASSUME NEW c \in job.todo,
                   job' = IF c \in Members
                          THEN [job EXCEPT !.pc = "leave", !.client = c, !.todo = @ \ {c}]
                          ELSE [job EXCEPT !.todo = @ \ {c}]
            PROVE  job'.pc \in {"leave", "sweep"}
        <5>1. [job EXCEPT !.pc = "leave", !.client = c, !.todo = @ \ {c}].pc = "leave"
          BY <1>1 DEF JobTask
        <5>2. [job EXCEPT !.todo = @ \ {c}].pc = "sweep"
          BY <1>1, <3>2 DEF JobTask, JobSweep
        <5> QED  BY <4>1, <5>1, <5>2
      <4>2. job'.pc \in {"leave", "sweep", "close"}
        <5>1. [job EXCEPT !.pc = "close"].pc = "close"
          BY <1>1 DEF JobTask
        <5> QED  BY <3>2, <4>1, <5>1 DEF JobSweep, JobGoes
      <4> QED  BY <4>2 DEF Follows, Closing
    <3>3. CASE JobClose \/ JobTell
      <4>1. job' = Idle
        BY <1>4, <3>3 DEF JobClose, JobTell
      <4> QED  BY <4>1 DEF Idle, Follows, Closing
    <3>4. CASE JobUnregister
      <4>1. job'.session = job.session
        BY <1>1, <3>4 DEF JobTask, JobUnregister, JobGoes
      <4>2. Closing(job)
        BY <3>4 DEF JobUnregister, Closing
      <4> QED  BY <4>1, <4>2 DEF Follows
    <3> QED  BY <1>4, <3>1, <3>2, <3>3, <3>4 DEF Job
  <2>2. Callback /\ UNCHANGED <<cleanup, removal>>
    BY <1>2, <1>4 DEF Job, JobGetRoom, JobEnsure, JobSweep, JobLeave, JobClose,
       JobUnregister, JobTell, Callback, storeVars
  <2> QED  BY <2>1, <2>2 DEF QuietStep, Follows
<1> QED  BY <1>3, <1>4

LEMMA OtherSteps ==
  ASSUME TypeOK,
         \/ \E p \in pending : ApplyPending(p)
         \/ \E n \in Nodes : DeliverClose(n) \/ Crash(n) \/ JobPrune(n)
         \/ DeleteItem \/ UNCHANGED vars
  PROVE  QuietStep
<1>1. room' = room
  BY DEF ApplyPending, DeliverClose, Crash, JobPrune, DeleteItem, vars, storeVars
<1>2. cleanup \in [Nodes -> CloserTask] /\ removal \in [Nodes -> CloserTask]
  BY DEF TypeOK
<1>3. CASE \/ \E p \in pending : ApplyPending(p)
           \/ \E n \in Nodes : DeliverClose(n)
           \/ UNCHANGED vars
  BY <1>1, <1>3 DEF ApplyPending, DeliverClose, vars, taskVars, QuietStep, Callback, Follows
<1>4. ASSUME NEW m \in Nodes, Crash(m)
      PROVE  QuietStep
  <2>1. ~Closing(Resting) /\ ~Closing(Idle)
    BY DEF Resting, Idle, Closing
  <2>2. \A n \in Nodes : Follows(cleanup[n], cleanup'[n]) /\ Follows(removal[n], removal'[n])
    BY <1>2, <1>4, <2>1 DEF Crash, Follows
  <2>3. Follows(job, job')
    BY <1>4, <2>1 DEF Crash, Follows
  <2> QED  BY <1>1, <2>2, <2>3 DEF QuietStep, Callback
<1>5. ASSUME NEW m \in Nodes, JobPrune(m)
      PROVE  QuietStep
  <2>1. ~Closing(job')
    BY <1>5 DEF JobPrune, Idle, Closing
  <2>2. UNCHANGED <<cleanup, removal>>
    BY <1>5 DEF JobPrune
  <2> QED  BY <1>1, <2>1, <2>2 DEF QuietStep, Callback, Follows
<1>6. CASE DeleteItem
  <2>1. ~Closing([Resting EXCEPT !.pc = "event"])
    BY DEF Resting, Closing
  <2>2. \A n \in Nodes : Follows(removal[n], removal'[n])
    BY <1>2, <1>6, <2>1 DEF DeleteItem, Follows
  <2>3. UNCHANGED <<cleanup, job>>
    BY <1>6 DEF DeleteItem
  <2> QED  BY <1>1, <2>2, <2>3 DEF QuietStep, Callback, Follows
<1> QED  BY <1>3, <1>4, <1>5, <1>6

LEMMA StepKinds == TypeOK /\ [Next]_vars => QuietStep \/ CloseStep
<1> SUFFICES ASSUME TypeOK, [Next]_vars PROVE QuietStep \/ CloseStep
  OBVIOUS
<1>1. ASSUME Callback, UNCHANGED <<cleanup, removal, job>>
      PROVE  QuietStep
  BY <1>1 DEF QuietStep, Follows
<1>2. CASE UNCHANGED vars
  BY <1>2, OtherSteps
<1>3. CASE Next
  BY <1>1, <1>3, ClientSteps, HandlerSteps, CleanupSteps, RemovalSteps, JobSteps,
     OtherSteps DEF Next
<1> QED  BY <1>2, <1>3

----------------------------------------------------------------------------
LEMMA FocusStep ==
  ASSUME TypeOK, FocusExclusive, QuietStep \/ CloseStep
  PROVE  FocusExclusive'
<1>1. room \in RoomRecord
  BY DEF TypeOK
<1>2. CASE room' = room
  BY <1>2 DEF FocusExclusive
<1>3. CASE room' = Initialized \/ room' = Emptied
  BY <1>3 DEF FocusExclusive, Initialized, Emptied, NoClients
<1>4. ASSUME NEW c \in Clients, room' = Joined(c)
      PROVE  FocusExclusive'
  BY <1>1, <1>4 DEF FocusExclusive, Joined, RoomRecord
<1>5. ASSUME NEW c \in Clients \cup {None}, room' = Left(c)
      PROVE  FocusExclusive'
  BY <1>1, <1>5 DEF FocusExclusive, Left, RoomRecord
<1>6. ASSUME NEW c \in Clients, NEW f \in Fields \cup {None},
             ~Taken(c, f), room' = Focused(c, f)
      PROVE  FocusExclusive'
  BY <1>1, <1>6 DEF FocusExclusive, Focused, Taken, RoomRecord
<1> QED  BY <1>2, <1>3, <1>4, <1>5, <1>6 DEF QuietStep, Callback, CloseStep

\* No two clients hold one field, whichever of the handlers, sweeps and jobs of
\* any node run between the check of a focus and the ones before it.
THEOREM FocusIsExclusive == Spec => []FocusExclusive
<1>1. Init => FocusExclusive
  BY DEF Init, FocusExclusive
<1>2. TypeOK /\ FocusExclusive /\ [Next]_vars => FocusExclusive'
  BY StepKinds, FocusStep
<1> QED  BY <1>1, <1>2, TypeCorrect, PTL DEF Spec

----------------------------------------------------------------------------
\* The session a leader ended is over: it is not the one that is open now.
Past(t) ==
    Closing(t) => /\ t.session \in Nat /\ t.session <= room.session
                  /\ room.open => t.session < room.session

AllPast == Past(job) /\ \A n \in Nodes : Past(cleanup[n]) /\ Past(removal[n])

LEMMA QuietLeaders ==
  ASSUME TypeOK, AllPast, OneLeader, QuietStep
  PROVE  AllPast' /\ OneLeader'
<1>1. /\ room'.session \in Nat /\ room.session \in Nat
      /\ \/ room'.session = room.session /\ (room'.open => room.open)
         \/ room'.session = room.session + 1
  <2>1. room \in RoomRecord
    BY DEF TypeOK
  <2>2. CASE room' = room
    BY <2>1, <2>2 DEF RoomRecord
  <2>3. CASE room' = Initialized
    BY <2>1, <2>3 DEF RoomRecord, Initialized, NoClients
  <2>4. ASSUME NEW c, room' = Joined(c) \/ room' = Left(c)
        PROVE  room.session \in Nat /\ room'.session = room.session /\ room'.open = room.open
    BY <2>1, <2>4 DEF RoomRecord, Joined, Left
  <2>5. ASSUME NEW c, NEW f, room' = Focused(c, f)
        PROVE  room.session \in Nat /\ room'.session = room.session /\ room'.open = room.open
    BY <2>1, <2>5 DEF RoomRecord, Focused
  <2> QED  BY <2>2, <2>3, <2>4, <2>5 DEF QuietStep, Callback
<1>2. /\ \A n \in Nodes : Past(cleanup[n])' /\ Past(removal[n])'
      /\ Past(job)'
  BY <1>1 DEF AllPast, Past, QuietStep, Follows
<1>3. OneLeader'
  BY DEF QuietStep, Follows, OneLeader, Apart
<1> QED  BY <1>2, <1>3 DEF AllPast

LEMMA CloseLeaders ==
  ASSUME TypeOK, AllPast, OneLeader, CloseStep
  PROVE  AllPast' /\ OneLeader'
<1>1. room.session \in Nat /\ room'.session = room.session /\ ~room'.open
  BY DEF CloseStep, TypeOK, RoomRecord, Emptied, NoClients
<1>2. /\ \A n \in Nodes : Past(cleanup[n])' /\ Past(removal[n])'
      /\ Past(job)'
  BY <1>1 DEF AllPast, Past, CloseStep
<1>3. \A t : Past(t) /\ Closing(t) => t.session # room.session
  BY <1>1 DEF Past, CloseStep
<1>4. OneLeader'
  BY <1>3 DEF AllPast, CloseStep, OneLeader, Apart
<1> QED  BY <1>2, <1>4 DEF AllPast

\* A session of the room is ended by one of those who try to close it: the one
\* that unregisters it and tells the other nodes.
THEOREM OneLeaderOnly == Spec => []OneLeader
<1>1. Init => AllPast /\ OneLeader
  BY DEF Init, AllPast, OneLeader, Past, Apart, Closing, Resting, Idle
<1>2. TypeOK /\ AllPast /\ OneLeader /\ [Next]_vars => AllPast' /\ OneLeader'
  BY StepKinds, QuietLeaders, CloseLeaders
<1> QED  BY <1>1, <1>2, TypeCorrect, PTL DEF Spec

=============================================================================
