---------------------------- MODULE MachineLock ----------------------------
(***************************************************************************)
(* What the counter of a machine is for, without the counter: a lock per   *)
(* machine.  One of its processes at a time owns it and gives it back, and *)
(* the lock of an owner that dies is lost: nobody takes it again.          *)
(***************************************************************************)
CONSTANTS Procs, Machines

VARIABLES
    home,    \* per process: its machine
    owners,  \* the processes that own the lock of their machine
    lost     \* machines whose lock was lost

vars == <<home, owners, lost>>

Init ==
    /\ home \in [Procs -> Machines]
    /\ owners = {} /\ lost = {}

Take(p) ==
    /\ home[p] \notin lost
    /\ \A q \in owners : home[q] # home[p]
    /\ owners' = owners \cup {p}
    /\ UNCHANGED <<home, lost>>

Give(p) ==
    /\ p \in owners
    /\ owners' = owners \ {p}
    /\ UNCHANGED <<home, lost>>

Lose(p) ==
    /\ p \in owners
    /\ owners' = owners \ {p}
    /\ lost' = lost \cup {home[p]}
    /\ UNCHANGED home

Next == \E p \in Procs : Take(p) \/ Give(p) \/ Lose(p)

Spec == Init /\ [][Next]_vars

=============================================================================
