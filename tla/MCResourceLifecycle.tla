------------------------ MODULE MCResourceLifecycle ------------------------
(* Small instances of ResourceLifecycle for TLC. *)
EXTENDS ResourceLifecycle, TLC

CONSTANTS net, vm    \* a network, and a machine attached to it

OneResource == [r \in {vm} |-> {}]
ParentAndChild == (net :> {}) @@ (vm :> {net})

\* What users of one resource do one after the other: no resending, and no
\* previewing of edits.
Ordinary == UserAction \ {"retry", "dryrun_with_temp_state"}

\* The actions that overlap in one run each.
Restarting == {"create", "execute", "retry", "destroy", "delete"}
Relating   == {"create", "approve", "reject", "execute", "destroy", "recreate",
               "delete"}
Previewing == {"create", "approve", "execute", "edit", "destroy",
               "dryrun_with_temp_state"}
Drafting   == {"create", "execute", "edit", "reject",
               "dryrun_with_temp_state"}

\* Requests overlap one another when they concern different resources.
RequestsOnDifferentResources ==
    \A p, q \in Request :
        p # q /\ rq[p] # NoRequest /\ rq[q] # NoRequest => rq[p].res # rq[q].res

\* No worker moves while a request is open, and nobody asks for anything while a
\* worker is at work.
OneAtATime ==
    /\ worker' # worker => \A q \in Request : rq[q] = NoRequest
    /\ rq' # rq => \A w \in Worker : worker[w] = Idle

WorkerSymmetry == Permutations(Worker)
Symmetry == Permutations(Worker) \cup Permutations(Request)
=============================================================================
