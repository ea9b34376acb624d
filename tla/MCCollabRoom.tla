---------------------------- MODULE MCCollabRoom ----------------------------
(* Small instances of CollabRoom for TLC. *)
EXTENDS CollabRoom, TLC

CONSTANTS n1, n2, c1, c2, h1, h2

OneNode  == {n1}
TwoNodes == {n1, n2}

HomeApart    == (c1 :> n1) @@ (c2 :> n2)
HomeTogether == (c1 :> n1) @@ (c2 :> n1)

=============================================================================
