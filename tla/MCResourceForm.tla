---------------------------- MODULE MCResourceForm ----------------------------
(* A template without code, and one whose resources need resources of the    *)
(* first for parents.                                                         *)
EXTENDS ResourceForm

CONSTANTS net, vm, old, v1, v2, n1, n2, p1, p2, w1, w2

MCTemplateOf == v1 :> vm @@ v2 :> vm @@ old :> net @@ n1 :> net @@ n2 :> net
MCParentsOf == net :> {} @@ vm :> {net}
MCProjectOf == n1 :> p1 @@ n2 :> None
MCRank == n1 :> 1 @@ n2 :> 2
MCWorkspaceOf == n1 :> None @@ n2 :> w1 @@ p1 :> w1 @@ p2 :> w2
=============================================================================
