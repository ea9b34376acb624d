----------------------------- MODULE CollabRoom -----------------------------
(***************************************************************************)
(* One room of collaborative editing, of several Directus nodes that share *)
(* a Redis store: who is in the room and who holds which field, the life   *)
(* of the room in the store and in each node's memory, the registry of     *)
(* sockets and rooms, the cleanup of each node and of the cluster.         *)
(*                                                                         *)
(* A callback of this.store runs under the store's lock and is one step;   *)
(* a handler's awaits are the points where others interleave.  The values  *)
(* of the edits, and the messages that spread them, are left out.          *)
(***************************************************************************)
EXTENDS Naturals, FiniteSets

CONSTANTS
    Nodes,        \* the nodes of the cluster
    Clients,      \* connections; a new connection is a new client
    Fields,       \* the fields of the item
    Home,         \* Home[c]: the node client c connects to
    Inside,       \* the clients that are in the room when the model starts
    Cleaners,     \* the nodes whose cleanup interval fires
    Handlers,     \* bound on messages a cluster handles at the same time
    None,         \* no field
    MaxMessages,  \* bound on messages the apps send
    MaxEvents     \* bound on lost connections, crashes and deletions

ASSUME CollabAssumption ==
    /\ Home \in [Clients -> Nodes]
    /\ Inside \subseteq Clients /\ Cleaners \subseteq Nodes
    /\ None \notin Fields
    /\ MaxMessages \in Nat /\ MaxEvents \in Nat

VARIABLES
    room,      \* the store: is it initialised, how often, members, focuses
    registry,  \* per node: its sockets, and whether it registered the room
    pending,   \* registry updates under way that nobody waits for
    socket,    \* the state of each connection
    app,       \* what each app believes: out, joining or in the room
    clients,   \* per node: messenger.clients
    loaded,    \* per node: is the room in roomManager.rooms
    listener,  \* per node: does it listen to the room's broadcasts
    alive,     \* per node
    broadcast, \* per node: close broadcasts not delivered yet
    act,       \* the messages being handled
    sweep,     \* per client: the leave that follows a lost connection
    cleanup,   \* per node: the local cleanup interval
    removal,   \* per node: the handling of the item's deletion
    job,       \* the cleanup job of the cluster
    stored,    \* is the item in the database
    sent, events   \* how many messages and events there have been

storeVars == <<room, registry, pending>>
nodeVars  == <<clients, loaded, listener, alive, broadcast>>
appVars   == <<socket, app>>
taskVars  == <<act, sweep, cleanup, removal, job>>
envVars   == <<stored, sent, events>>
vars == <<storeVars, nodeVars, appVars, taskVars, envVars>>

Kinds == {"join", "leave", "focus", "update"}

Idle    == [pc |-> "idle"]
Resting == [pc |-> "idle", todo |-> {}, client |-> None, session |-> 0]

----------------------------------------------------------------------------
(* The store's callbacks. *)

NoClients(open, session) ==
    [open |-> open, session |-> session,
     members |-> [c \in Clients |-> 0], focus |-> [c \in Clients |-> None]]

Emptied == NoClients(FALSE, room.session)

Members == {c \in Clients : room.members[c] > 0}

\* ensureInitialized: a room without metadata starts with no client at all.
Initialized ==
    IF room.open THEN room ELSE NoClients(TRUE, room.session + 1)

\* The push of join does not look at the list again.
Joined(c) == [room EXCEPT !.members[c] = @ + 1]

\* Variant: a leave removes one entry of the client.
LeftOnce(c) == [room EXCEPT !.members[c] = @ - 1, !.focus[c] = None]

Left(c) == [room EXCEPT !.members[c] = 0, !.focus[c] = None]

\* Variant: a node looks at its own clients only.
TakenHere(c, f) ==
    f # None /\ \E d \in Clients \ {c} : Home[d] = Home[c] /\ room.focus[d] = f

Taken(c, f) == f # None /\ \E d \in Clients \ {c} : room.focus[d] = f

Focused(c, f) == [room EXCEPT !.focus[c] = f]

\* Variant: the metadata is not looked at.
MayCloseAgain(force) == force \/ Members = {}

\* Variant: the test of the clients is the wrong way round.
MayCloseUsed(force) == room.open /\ (force \/ Members # {})

\* close: the callback's two reasons to leave the room alone.
MayClose(force) == room.open /\ (force \/ Members = {})

----------------------------------------------------------------------------
(* The messenger. *)

RegisteredClients == UNION {registry[n].clients : n \in Nodes}

AddClient(c) ==
    LET n == Home[c] IN
    IF c \in clients[n] THEN UNCHANGED <<clients, pending>>
    ELSE /\ clients' = [clients EXCEPT ![n] = @ \cup {c}]
         /\ pending' = pending \cup {[op |-> "add", client |-> c]}

ApplyPending(p) ==
    LET n == Home[p.client] IN
    /\ p \in pending
    /\ pending' = pending \ {p}
    /\ registry' = [registry EXCEPT ![n].clients =
                      IF p.op = "add" THEN @ \cup {p.client} ELSE @ \ {p.client}]
    /\ UNCHANGED <<room, nodeVars, appVars, taskVars, envVars>>

RegisterRoom(n)   == registry' = [registry EXCEPT ![n].rooms = TRUE]
UnregisterRoom(n) == registry' = [registry EXCEPT ![n].rooms = FALSE]

\* sendRoom: Redis delivers to every subscriber, the sender included.
SendClose ==
    broadcast' = [m \in Nodes |-> broadcast[m] + IF alive[m] THEN 1 ELSE 0]

Dispose(n) == listener' = [listener EXCEPT ![n] = FALSE]

DeliverClose(n) ==
    /\ broadcast[n] > 0
    /\ broadcast' = [broadcast EXCEPT ![n] = @ - 1]
    /\ IF listener[n]
       THEN /\ loaded' = [loaded EXCEPT ![n] = FALSE]
            /\ listener' = [listener EXCEPT ![n] = ~loaded[n]]
       ELSE UNCHANGED <<loaded, listener>>
    /\ UNCHANGED <<storeVars, clients, alive, appVars, taskVars, envVars>>

----------------------------------------------------------------------------
(* Connections. *)

Happens == events < MaxEvents /\ events' = events + 1

Connect(c) ==
    /\ socket[c] = "new" /\ alive[Home[c]]
    /\ socket' = [socket EXCEPT ![c] = "open"]
    /\ AddClient(c)
    /\ UNCHANGED <<room, registry, app, loaded, listener, alive, broadcast,
                   taskVars, envVars>>

\* The messenger forgets the client; the handler leaves the rooms loaded here.
Disconnect(c) ==
    LET n == Home[c] IN
    /\ socket[c] = "open" /\ Happens
    /\ socket' = [socket EXCEPT ![c] = "closed"]
    /\ app' = [app EXCEPT ![c] = "out"]
    /\ clients' = [clients EXCEPT ![n] = @ \ {c}]
    /\ pending' = pending \cup {[op |-> "remove", client |-> c]}
    /\ sweep' = [sweep EXCEPT ![c] = IF loaded[n] THEN "member" ELSE "idle"]
    /\ UNCHANGED <<room, registry, loaded, listener, alive, broadcast, act,
                   cleanup, removal, job, stored, sent>>

SweepMember(c) ==
    /\ sweep[c] = "member"
    /\ sweep' = [sweep EXCEPT ![c] = IF c \in Members THEN "leave" ELSE "idle"]
    /\ UNCHANGED <<storeVars, nodeVars, appVars, act, cleanup, removal, job, envVars>>

SweepLeave(c) ==
    /\ sweep[c] = "leave"
    /\ sweep' = [sweep EXCEPT ![c] = "idle"]
    /\ room' = Left(c)
    /\ UNCHANGED <<registry, pending, nodeVars, appVars, act, cleanup, removal,
                   job, envVars>>

----------------------------------------------------------------------------
(* The app's messages, and their handlers. *)

\* The app leaves the page: it sends no leave while it waits for INIT.
Abandon(c) ==
    /\ app[c] = "joining"
    /\ app' = [app EXCEPT ![c] = "out"]
    /\ UNCHANGED <<storeVars, socket, nodeVars, taskVars, envVars>>

Send(h, c, kind, f) ==
    /\ act[h].pc = "idle" /\ socket[c] = "open" /\ sent < MaxMessages
    /\ sent' = sent + 1
    /\ app[c] = IF kind = "join" THEN "out" ELSE "in"
    /\ app' = [app EXCEPT ![c] = CASE kind = "join"  -> "joining"
                                   [] kind = "leave" -> "out"
                                   [] OTHER          -> @]
    /\ act' = [act EXCEPT ![h] = [pc |-> "begin", client |-> c, kind |-> kind,
                                  field |-> f]]
    /\ UNCHANGED <<storeVars, socket, nodeVars, sweep, cleanup, removal, job,
                   stored, events>>

\* A join of an app that is out, or a message of one that is in the room.
SendSome(h) ==
    \E c \in Clients :
        \/ Send(h, c, "join", None)
        \/ Send(h, c, "leave", None)
        \/ \E f \in Fields \cup {None} : Send(h, c, "focus", f)
        \/ \E f \in Fields : Send(h, c, "update", f)

Goes(h, pc) == act' = [act EXCEPT ![h].pc = pc]
Ends(h)     == act' = [act EXCEPT ![h] = Idle]

At(h, pc, kinds) == act[h].pc = pc /\ act[h].kind \in kinds

Others == <<sweep, cleanup, removal, job, appVars, envVars>>

\* The item has to exist, and that is looked at once.
JoinCheck(h) ==
    /\ At(h, "begin", {"join"})
    /\ \/ stored /\ Goes(h, "create")
       \/ ~stored /\ Ends(h)
    /\ UNCHANGED <<storeVars, nodeVars, Others>>

\* createRoom: a room in memory is taken to be initialised and registered.
JoinCreate(h) ==
    LET c == act[h].client
        n == Home[c] IN
    /\ At(h, "create", {"join"})
    /\ \/ /\ loaded[n]
          /\ listener' = [listener EXCEPT ![n] = TRUE]
          /\ AddClient(c) /\ Goes(h, "member")
          /\ UNCHANGED loaded
       \/ /\ ~loaded[n]
          /\ loaded' = [loaded EXCEPT ![n] = TRUE]
          /\ Goes(h, "ensure")
          /\ UNCHANGED <<listener, clients, pending>>
    /\ UNCHANGED <<room, registry, alive, broadcast, Others>>

JoinRegister(h) ==
    LET c == act[h].client
        n == Home[c] IN
    /\ At(h, "register", {"join"})
    /\ RegisterRoom(n)
    /\ listener' = [listener EXCEPT ![n] = TRUE]
    /\ IF loaded[n] THEN AddClient(c) /\ Goes(h, "member")
                    ELSE Ends(h) /\ UNCHANGED <<clients, pending>>
    /\ UNCHANGED <<room, loaded, alive, broadcast, Others>>

Push(h) ==
    /\ At(h, "push", {"join"})
    /\ room' = Joined(act[h].client)
    /\ Goes(h, "init")
    /\ UNCHANGED <<registry, pending, nodeVars, Others>>

\* INIT reaches the app over a socket the messenger knows and that is open.
SendInit(h) ==
    LET c == act[h].client IN
    /\ At(h, "init", {"join"})
    /\ app' = [app EXCEPT ![c] =
                 IF @ = "joining" /\ c \in clients[Home[c]] THEN "in" ELSE @]
    /\ Ends(h)
    /\ UNCHANGED <<storeVars, socket, nodeVars, sweep, cleanup, removal, job, envVars>>

\* getRoom: from memory, or from the store into memory, without a listener.
GetRoom(h) ==
    LET n == Home[act[h].client] IN
    /\ At(h, "begin", Kinds \ {"join"})
    /\ \/ (loaded[n] \/ room.open) /\ Goes(h, "ensure")
       \/ ~loaded[n] /\ ~room.open /\ Ends(h)
    /\ loaded' = [loaded EXCEPT ![n] = @ \/ room.open]
    /\ UNCHANGED <<storeVars, clients, listener, alive, broadcast, Others>>

EnsureInitialized(h) ==
    /\ At(h, "ensure", Kinds)
    /\ room' = Initialized
    /\ Goes(h, IF act[h].kind = "join" THEN "register" ELSE "member")
    /\ UNCHANGED <<registry, pending, nodeVars, Others>>

\* hasClient: a member is not pushed again; who is no member is refused.
CheckMember(h) ==
    LET a == act[h]
        in == a.client \in Members IN
    /\ At(h, "member", Kinds)
    /\ CASE a.kind = "join"   -> Goes(h, IF in THEN "init" ELSE "push")
         [] a.kind = "update" -> IF in THEN Goes(h, "byUser") ELSE Ends(h)
         [] OTHER             -> IF in THEN Goes(h, a.kind) ELSE Ends(h)
    /\ UNCHANGED <<storeVars, nodeVars, Others>>

LeaveRoom(h) ==
    /\ At(h, "leave", {"leave"})
    /\ room' = Left(act[h].client)
    /\ Ends(h)
    /\ UNCHANGED <<registry, pending, nodeVars, Others>>

FocusField(h) ==
    LET a == act[h] IN
    /\ At(h, "focus", {"focus", "update"})
    /\ room' = IF Taken(a.client, a.field) THEN room ELSE Focused(a.client, a.field)
    /\ IF a.kind = "update" THEN Goes(h, "reread") ELSE Ends(h)
    /\ UNCHANGED <<registry, pending, nodeVars, Others>>

Holds(a) == room.focus[a.client] = a.field

\* getFocusByUser, before and after the focus that an update asks for.
ReadFocus(h) ==
    /\ \/ At(h, "byUser", {"update"}) /\ Goes(h, IF Holds(act[h]) THEN "write" ELSE "focus")
       \/ At(h, "reread", {"update"}) /\ Holds(act[h]) /\ Goes(h, "write")
       \/ At(h, "reread", {"update"}) /\ ~Holds(act[h]) /\ Ends(h)
    /\ UNCHANGED <<storeVars, nodeVars, Others>>

\* validateChanges lies between the check of the focus and this step.
WriteField(h) ==
    /\ At(h, "write", {"update"})
    /\ Ends(h)
    /\ UNCHANGED <<storeVars, nodeVars, Others>>

Handle(h) ==
    \/ JoinCheck(h) \/ JoinCreate(h) \/ JoinRegister(h) \/ Push(h) \/ SendInit(h)
    \/ GetRoom(h) \/ EnsureInitialized(h) \/ CheckMember(h) \/ LeaveRoom(h)
    \/ FocusField(h) \/ ReadFocus(h) \/ WriteField(h)

----------------------------------------------------------------------------
(* The cleanup interval of a node. *)

CleanupGoes(n, pc) == cleanup' = [cleanup EXCEPT ![n].pc = pc]

CleanupTick(n) ==
    /\ n \in Cleaners /\ alive[n] /\ cleanup[n].pc = "idle"
    /\ cleanup' = [cleanup EXCEPT ![n] =
                     [Resting EXCEPT !.pc = "list", !.todo = RegisteredClients]]
    /\ UNCHANGED <<storeVars, nodeVars, appVars, act, sweep, removal, job, envVars>>

\* Variant: the difference is taken the other way round.
CleanupListSwapped(n) ==
    /\ cleanup[n].pc = "list"
    /\ cleanup' = [cleanup EXCEPT
                     ![n].pc = "sweep",
                     ![n].todo = IF loaded[n] THEN @ \ Members ELSE {}]
    /\ UNCHANGED <<storeVars, nodeVars, appVars, act, sweep, removal, job, envVars>>

\* difference(localClients, globalClients)
CleanupList(n) ==
    /\ cleanup[n].pc = "list"
    /\ cleanup' = [cleanup EXCEPT
                     ![n].pc = "sweep",
                     ![n].todo = IF loaded[n] THEN Members \ @ ELSE {}]
    /\ UNCHANGED <<storeVars, nodeVars, appVars, act, sweep, removal, job, envVars>>

\* getClientRooms: only the rooms in memory.
CleanupSweep(n) ==
    LET k == cleanup[n] IN
    /\ k.pc = "sweep"
    /\ \/ \E c \in k.todo :
            cleanup' = [cleanup EXCEPT ![n] =
                IF loaded[n] /\ c \in Members
                THEN [k EXCEPT !.pc = "leave", !.client = c, !.todo = @ \ {c}]
                ELSE [k EXCEPT !.todo = @ \ {c}]]
       \/ /\ k.todo = {}
          /\ CleanupGoes(n, IF loaded[n] THEN "close" ELSE "idle")
    /\ UNCHANGED <<storeVars, nodeVars, appVars, act, sweep, removal, job, envVars>>

CleanupLeave(n) ==
    /\ cleanup[n].pc = "leave"
    /\ room' = Left(cleanup[n].client)
    /\ cleanup' = [cleanup EXCEPT ![n].pc = "sweep", ![n].client = None]
    /\ UNCHANGED <<registry, pending, nodeVars, appVars, act, sweep, removal, job,
                   envVars>>

CleanupClose(n) ==
    /\ cleanup[n].pc = "close"
    /\ IF MayClose(FALSE)
       THEN /\ room' = Emptied
            /\ cleanup' = [cleanup EXCEPT ![n].pc = "unregister",
                                          ![n].session = room.session]
       ELSE CleanupGoes(n, "idle") /\ UNCHANGED room
    /\ UNCHANGED <<registry, pending, nodeVars, appVars, act, sweep, removal, job,
                   envVars>>

CleanupUnregister(n) ==
    /\ cleanup[n].pc = "unregister"
    /\ UnregisterRoom(n) /\ CleanupGoes(n, "tell")
    /\ UNCHANGED <<room, pending, nodeVars, appVars, act, sweep, removal, job, envVars>>

\* The node that closed the room tells the others, and unloads it.
CleanupTell(n) ==
    /\ cleanup[n].pc = "tell"
    /\ SendClose /\ Dispose(n)
    /\ loaded' = [loaded EXCEPT ![n] = FALSE]
    /\ cleanup' = [cleanup EXCEPT ![n] = Resting]
    /\ UNCHANGED <<storeVars, clients, alive, appVars, act, sweep, removal, job, envVars>>

Cleanup(n) ==
    \/ CleanupTick(n) \/ CleanupList(n) \/ CleanupSweep(n) \/ CleanupLeave(n)
    \/ CleanupClose(n) \/ CleanupUnregister(n) \/ CleanupTell(n)

----------------------------------------------------------------------------
(* The item is deleted: every node hears of it and closes the room by force. *)

DeleteItem ==
    /\ stored /\ Happens
    /\ stored' = FALSE
    /\ removal' = [n \in Nodes |-> IF alive[n] THEN [Resting EXCEPT !.pc = "event"]
                                               ELSE removal[n]]
    /\ UNCHANGED <<storeVars, nodeVars, appVars, act, sweep, cleanup, job, sent>>

RemovalStart(n) ==
    /\ removal[n].pc = "event"
    /\ removal' = [removal EXCEPT ![n].pc = IF loaded[n] THEN "close" ELSE "idle"]
    /\ app' = [c \in Clients |->
                 IF loaded[n] /\ c \in Members /\ app[c] = "in" THEN "out" ELSE app[c]]
    /\ UNCHANGED <<storeVars, socket, nodeVars, act, sweep, cleanup, job, envVars>>

RemovalClose(n) ==
    /\ removal[n].pc = "close"
    /\ IF MayClose(TRUE)
       THEN /\ room' = Emptied
            /\ removal' = [removal EXCEPT ![n].pc = "unregister",
                                          ![n].session = room.session]
            /\ UNCHANGED listener
       ELSE /\ removal' = [removal EXCEPT ![n] = Resting]
            /\ Dispose(n) /\ UNCHANGED room
    /\ UNCHANGED <<registry, pending, clients, loaded, alive, broadcast, appVars,
                   act, sweep, cleanup, job, envVars>>

RemovalUnregister(n) ==
    /\ removal[n].pc = "unregister"
    /\ UnregisterRoom(n)
    /\ removal' = [removal EXCEPT ![n].pc = "tell"]
    /\ UNCHANGED <<room, pending, nodeVars, appVars, act, sweep, cleanup, job, envVars>>

\* dispose only: the room object stays in the memory of the node.
RemovalTell(n) ==
    /\ removal[n].pc = "tell"
    /\ SendClose /\ Dispose(n)
    /\ removal' = [removal EXCEPT ![n] = Resting]
    /\ UNCHANGED <<storeVars, clients, loaded, alive, appVars, act, sweep, cleanup,
                   job, envVars>>

Removal(n) ==
    RemovalStart(n) \/ RemovalClose(n) \/ RemovalUnregister(n) \/ RemovalTell(n)

----------------------------------------------------------------------------
(* A node dies; the cluster's job removes what it leaves behind. *)

Crash(n) ==
    LET mine == {c \in Clients : Home[c] = n} IN
    /\ alive[n] /\ Happens
    /\ alive' = [alive EXCEPT ![n] = FALSE]
    /\ socket' = [c \in Clients |->
                    IF c \in mine /\ socket[c] = "open" THEN "closed" ELSE socket[c]]
    /\ app' = [c \in Clients |-> IF c \in mine THEN "out" ELSE app[c]]
    /\ clients' = [clients EXCEPT ![n] = {}]
    /\ loaded' = [loaded EXCEPT ![n] = FALSE]
    /\ listener' = [listener EXCEPT ![n] = FALSE]
    /\ broadcast' = [broadcast EXCEPT ![n] = 0]
    /\ pending' = {p \in pending : p.client \notin mine}
    /\ act' = [h \in Handlers |->
                 IF act[h].pc # "idle" /\ act[h].client \in mine THEN Idle ELSE act[h]]
    /\ sweep' = [c \in Clients |-> IF c \in mine THEN "idle" ELSE sweep[c]]
    /\ cleanup' = [cleanup EXCEPT ![n] = Resting]
    /\ removal' = [removal EXCEPT ![n] = Resting]
    /\ job' = IF job.pc # "idle" /\ job.node = n THEN Idle ELSE job
    /\ UNCHANGED <<room, registry, stored, sent>>

Forgotten == [clients |-> {}, rooms |-> FALSE]

JobGoes(pc) == job' = [job EXCEPT !.pc = pc]

\* pruneDeadInstances: the nodes that did not answer the ping in time.
JobPrune(m) ==
    LET dead == {n \in Nodes : ~alive[n] /\ registry[n] # Forgotten} IN
    /\ alive[m] /\ job.pc = "idle" /\ dead # {}
    /\ registry' = [n \in Nodes |-> IF n \in dead THEN Forgotten ELSE registry[n]]
    /\ job' = IF \E n \in dead : registry[n].rooms
              THEN [pc |-> IF loaded[m] THEN "ensure" ELSE "load", node |-> m,
                    todo |-> UNION {registry[n].clients : n \in dead},
                    client |-> None, session |-> 0]
              ELSE Idle
    /\ UNCHANGED <<room, pending, nodeVars, appVars, act, sweep, cleanup, removal,
                   envVars>>

JobGetRoom ==
    /\ job.pc = "load"
    /\ loaded' = [loaded EXCEPT ![job.node] = @ \/ room.open]
    /\ IF room.open THEN JobGoes("ensure") ELSE job' = Idle
    /\ UNCHANGED <<storeVars, clients, listener, alive, broadcast, appVars, act,
                   sweep, cleanup, removal, envVars>>

JobEnsure ==
    /\ job.pc = "ensure"
    /\ room' = Initialized
    /\ JobGoes("sweep")
    /\ UNCHANGED <<registry, pending, nodeVars, appVars, act, sweep, cleanup,
                   removal, envVars>>

JobSweep ==
    /\ job.pc = "sweep"
    /\ \/ \E c \in job.todo :
            job' = IF c \in Members
                   THEN [job EXCEPT !.pc = "leave", !.client = c, !.todo = @ \ {c}]
                   ELSE [job EXCEPT !.todo = @ \ {c}]
       \/ job.todo = {} /\ JobGoes("close")
    /\ UNCHANGED <<storeVars, nodeVars, appVars, act, sweep, cleanup, removal, envVars>>

JobLeave ==
    /\ job.pc = "leave"
    /\ room' = Left(job.client)
    /\ job' = [job EXCEPT !.pc = "sweep", !.client = None]
    /\ UNCHANGED <<registry, pending, nodeVars, appVars, act, sweep, cleanup,
                   removal, envVars>>

JobClose ==
    /\ job.pc = "close"
    /\ IF MayClose(FALSE)
       THEN /\ room' = Emptied
            /\ job' = [job EXCEPT !.pc = "unregister", !.session = room.session]
       ELSE job' = Idle /\ UNCHANGED room
    /\ UNCHANGED <<registry, pending, nodeVars, appVars, act, sweep, cleanup,
                   removal, envVars>>

JobUnregister ==
    /\ job.pc = "unregister"
    /\ UnregisterRoom(job.node) /\ JobGoes("tell")
    /\ UNCHANGED <<room, pending, nodeVars, appVars, act, sweep, cleanup, removal,
                   envVars>>

JobTell ==
    LET m == job.node IN
    /\ job.pc = "tell"
    /\ SendClose /\ Dispose(m)
    /\ loaded' = [loaded EXCEPT ![m] = FALSE]
    /\ job' = Idle
    /\ UNCHANGED <<storeVars, clients, alive, appVars, act, sweep, cleanup, removal,
                   envVars>>

Job ==
    \/ JobGetRoom \/ JobEnsure \/ JobSweep \/ JobLeave
    \/ JobClose \/ JobUnregister \/ JobTell

----------------------------------------------------------------------------
InsideAt(n) == {c \in Inside : Home[c] = n}
Used(n)     == InsideAt(n) # {}

\* Some clients may have joined already; the others have not connected yet.
Init ==
    /\ room = [open |-> Inside # {}, session |-> IF Inside # {} THEN 1 ELSE 0,
               members |-> [c \in Clients |-> IF c \in Inside THEN 1 ELSE 0],
               focus |-> [c \in Clients |-> None]]
    /\ registry = [n \in Nodes |-> [clients |-> InsideAt(n), rooms |-> Used(n)]]
    /\ pending = {}
    /\ socket = [c \in Clients |-> IF c \in Inside THEN "open" ELSE "new"]
    /\ app = [c \in Clients |-> IF c \in Inside THEN "in" ELSE "out"]
    /\ clients = [n \in Nodes |-> InsideAt(n)]
    /\ loaded = [n \in Nodes |-> Used(n)]
    /\ listener = [n \in Nodes |-> Used(n)]
    /\ alive = [n \in Nodes |-> TRUE]
    /\ broadcast = [n \in Nodes |-> 0]
    /\ act = [h \in Handlers |-> Idle]
    /\ sweep = [c \in Clients |-> "idle"]
    /\ cleanup = [n \in Nodes |-> Resting]
    /\ removal = [n \in Nodes |-> Resting]
    /\ job = Idle
    /\ stored = TRUE /\ sent = 0 /\ events = 0

Next ==
    \/ \E c \in Clients :
          Connect(c) \/ Disconnect(c) \/ SweepMember(c) \/ SweepLeave(c) \/ Abandon(c)
    \/ \E h \in Handlers : SendSome(h) \/ Handle(h)
    \/ \E p \in pending : ApplyPending(p)
    \/ \E n \in Nodes :
          DeliverClose(n) \/ Cleanup(n) \/ Removal(n) \/ Crash(n) \/ JobPrune(n)
    \/ DeleteItem \/ Job

\* Timers fire, Redis answers and delivers, a handler that runs goes on.
Fairness ==
    /\ \A h \in Handlers : WF_vars(Handle(h))
    /\ \A c \in Clients : WF_vars(SweepMember(c) \/ SweepLeave(c))
    /\ \A c \in Clients, op \in {"add", "remove"} :
          WF_vars(ApplyPending([op |-> op, client |-> c]))
    /\ \A n \in Nodes : WF_vars(DeliverClose(n)) /\ WF_vars(Cleanup(n))
                        /\ WF_vars(Removal(n)) /\ WF_vars(JobPrune(n))
    /\ WF_vars(Job)

Spec     == Init /\ [][Next]_vars
FairSpec == Spec /\ Fairness

----------------------------------------------------------------------------
(* What the room promises. *)

Activation == [pc : {"begin", "create", "ensure", "register", "member", "push",
                     "init", "leave", "focus", "byUser", "reread", "write"},
               client : Clients, kind : Kinds, field : Fields \cup {None}]

CloserTask == [pc : {"idle", "event", "list", "sweep", "leave", "close",
                     "unregister", "tell"},
               todo : SUBSET Clients, client : Clients \cup {None}, session : Nat]

JobTask == [pc : {"load", "ensure", "sweep", "leave", "close", "unregister", "tell"},
            node : Nodes, todo : SUBSET Clients, client : Clients \cup {None},
            session : Nat]

RoomRecord == [open : BOOLEAN, session : Nat, members : [Clients -> Nat],
               focus : [Clients -> Fields \cup {None}]]

\* Every variable stays within its set of values.
TypeOK ==
    /\ room \in RoomRecord
    /\ registry \in [Nodes -> [clients : SUBSET Clients, rooms : BOOLEAN]]
    /\ pending \subseteq [op : {"add", "remove"}, client : Clients]
    /\ socket \in [Clients -> {"new", "open", "closed"}]
    /\ app \in [Clients -> {"out", "joining", "in"}]
    /\ clients \in [Nodes -> SUBSET Clients]
    /\ loaded \in [Nodes -> BOOLEAN] /\ listener \in [Nodes -> BOOLEAN]
    /\ alive \in [Nodes -> BOOLEAN] /\ broadcast \in [Nodes -> Nat]
    /\ act \in [Handlers -> Activation \cup {Idle}]
    /\ sweep \in [Clients -> {"idle", "member", "leave"}]
    /\ cleanup \in [Nodes -> CloserTask] /\ removal \in [Nodes -> CloserTask]
    /\ job \in JobTask \cup {Idle}
    /\ stored \in BOOLEAN
    /\ sent \in Nat /\ events \in Nat

\* A field has one editor: of those who ask for it at the same time, on any
\* node, one gets it (room.ts, focus).
FocusExclusive ==
    \A c, d \in Clients : c # d /\ room.focus[c] # None => room.focus[c] # room.focus[d]

\* A task that has deleted the metadata, and is not done with the rest.
Closing(t) == t.pc \in {"unregister", "tell"}

Apart(t, u) == Closing(t) /\ Closing(u) => t.session # u.session

\* Of the cleanups, the deletions and the cluster's job that close the room at
\* the same time one is the leader, which unregisters the room and then tells
\* the other nodes; the rest find no metadata left (room.ts, close).
OneLeader ==
    /\ \A m, n \in Nodes : Apart(cleanup[m], removal[n])
    /\ \A m, n \in Nodes : m # n => /\ Apart(cleanup[m], cleanup[n])
                                    /\ Apart(removal[m], removal[n])
    /\ \A n \in Nodes : Apart(cleanup[n], job) /\ Apart(removal[n], job)

Loaded == \E n \in Cleaners : alive[n] /\ loaded[n]

\* A client whose connection is gone, with its node or without, is taken off
\* the room by the leave that follows, by the cleanup of a node that has the
\* room in memory, or by the cluster's job; a living node's registry entry may
\* still hold it back (collab.ts, startBackgroundJobs).
LostClientsLeave ==
    \A c \in Clients :
        socket[c] = "closed" /\ c \in Members
          ~> \/ c \notin Members \/ ~Loaded
             \/ alive[Home[c]] /\ c \in RegisteredClients

\* A room that stays empty is closed, if a node has it in memory (room.ts,
\* cleanupRooms).
EmptyRoomCloses ==
    room.open /\ Members = {} ~> ~room.open \/ Members # {} \/ ~Loaded

\* No entry of the registry holds back a lost client: "unsubscribe when a
\* connection drops" (collab.ts:236).  The code does not keep this.
GhostsLeave ==
    \A c \in Clients :
        socket[c] = "closed" /\ c \in Members ~> c \notin Members \/ ~Loaded

=============================================================================
