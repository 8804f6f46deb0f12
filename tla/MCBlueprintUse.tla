---------------------------- MODULE MCBlueprintUse ----------------------------
EXTENDS BlueprintUse

CONSTANTS net, app, db, n1, n2, a1, a2, d1, size, zone, c1

\* The blueprint has app, with two versions, and db; net is not part of it.
MCMissing == [t \in {app, db} |-> IF t = app THEN {net} ELSE {}]
MCTemplateOf == [v \in {a1, a2, d1} |-> IF v = d1 THEN db ELSE app]
MCLatest == [t \in {app, db} |-> IF t = app THEN a1 ELSE d1]
MCDefault == [v \in {a1, a2, d1} |-> IF v = a1 THEN {size} ELSE {}]
MCRequired == [v \in {a1, a2, d1} |-> IF v = a2 THEN {size, zone} ELSE {size}]
MCWired == [t \in {app, db} |-> IF t = db THEN {size} ELSE {}]
MCWire == [c \in {c1} |-> {<<app, zone>>, <<db, zone>>}]
=============================================================================
