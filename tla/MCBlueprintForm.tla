---------------------------- MODULE MCBlueprintForm ----------------------------
(* A chain of three templates, with default wires along it.                   *)
EXTENDS BlueprintForm

CONSTANTS net, vm, app, size

MCFirst == <<app, vm>>
MCParentsOf == net :> {} @@ vm :> {net} @@ app :> {vm}
MCReferences == {<<net, vm>>, <<vm, app>>}
=============================================================================
