-------------------------- MODULE MCExtensionSync --------------------------
(***************************************************************************)
(* Instances of ExtensionSync for TLC: two processes, on two machines or   *)
(* on one.                                                                 *)
(***************************************************************************)
EXTENDS ExtensionSync, TLC

Apart    == {h \in [Procs -> Machines] : \A p, q \in Procs : p # q => h[p] # h[q]}
AnyPlace == [Procs -> Machines]

Symmetry == Permutations(Procs) \cup Permutations(Machines) \cup Permutations(Exts)

=============================================================================
