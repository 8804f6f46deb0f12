------------------------------ MODULE EntityPage ------------------------------
(***************************************************************************)
(* The page of an entity: the provider that fetches it and follows its     *)
(* events (EntityContext.tsx, EventContext.tsx), the button that asks for  *)
(* an action behind a confirmation (EntityActions.tsx, ActionButton.tsx),  *)
(* and the live tail of its log (LogLiveTail.tsx).                         *)
(*                                                                         *)
(* The server's row is a version number.  A commit is announced to the     *)
(* browser over a websocket that may break; fetches and actions are        *)
(* requests of their own, and nothing orders the three.                    *)
(***************************************************************************)
EXTENDS Integers, SequencesExt, Bags

CONSTANTS
    None,
    MAX_LOG_MESSAGES,   \* lines the tail keeps
    MaxChanges,         \* bound on the commits of the row
    MaxInputs,          \* bound on the events of other entities, the refreshes
                        \* and the confirmations opened, together
    MaxLines,           \* bound on the lines of the log
    MaxFaults           \* bound on failing fetches and lost connections

ASSUME BoundsAssumption ==
    /\ MAX_LOG_MESSAGES \in Nat \ {0}
    /\ {MaxChanges, MaxInputs, MaxLines, MaxFaults} \subseteq Nat

\* null is neither a version nor an entity.
ASSUME NoneAssumption == None \notin Nat \cup [status : Nat, rest : Nat]

VARIABLES
    row,            \* version of the row in the database
    outbox,         \* versions committed and not yet announced
    connected,      \* the websocket is up
    channel,        \* events on their way to the browser, 0 for another entity
    event,          \* the state of EventContext until the effect has seen it
    page,           \* the state of EntityContext
    fetches,        \* fetches in flight: None, or the version the server read
    dialog,         \* the confirmation is open
    submits,        \* actions in flight
    tail,           \* the log tail, while the page's content is mounted
    inputs, lines, faults,
    lost,           \* history: an event of the row never reached the page
    overtaken       \* history: the page showed a version after a newer one

server == <<row, outbox>>
socket == <<connected, channel>>
bounds == <<inputs, lines, faults>>
vars == <<server, socket, event, page, fetches, dialog, submits, tail, bounds,
          lost, overtaken>>

-----------------------------------------------------------------------------
NoTail == [received |-> << >>, pending |-> << >>, shown |-> << >>,
           timer |-> FALSE, armed |-> FALSE]

\* Mutant: nothing waits for the first fetch.
ContentWhileLoading(p) == ~p.error

\* EntityContainer: the content, with its dialog and its tail, is there unless
\* the entity is loading, is missing, or could not be fetched.
Content(p) == ~p.loading /\ ~p.error /\ p.entity # None

\* Whatever unmounts the content takes its state with it; what is in flight
\* goes on, and has no dialog to close.
Render(p) ==
    /\ page' = p
    /\ IF Content(p) THEN UNCHANGED tail ELSE tail' = NoTail

Unmounting(p, inFlight) ==
    IF Content(p) THEN inFlight
    ELSE {[s EXCEPT !.mounted = FALSE, !.shown = FALSE] : s \in inFlight}

Older(e, f) == f # None /\ (e.status < f.status \/ e.rest < f.rest)

\* The page shows e.
Shows(e) ==
    /\ overtaken' = (IF e.status = row /\ e.rest = row THEN FALSE
                     ELSE overtaken \/ Older(e, page.entity))
    /\ lost' = (lost /\ ~(e.status = row /\ e.rest = row))

-----------------------------------------------------------------------------
(* The server.                                                             *)

\* A worker, another user: the row is committed, then announced.
Change ==
    /\ row < MaxChanges
    /\ row' = row + 1
    /\ outbox' = outbox \cup {row'}
    /\ UNCHANGED <<socket, event, page, fetches, dialog, submits, tail, bounds,
                   lost, overtaken>>

\* Processes announce their commits independently; without a socket there is no
\* queue to keep the event.
Announce ==
    /\ \E v \in outbox :
        /\ outbox' = outbox \ {v}
        /\ channel' = IF connected THEN Append(channel, v) ELSE channel
        /\ lost' = (lost \/ ~connected)
    /\ UNCHANGED <<row, connected, event, page, fetches, dialog, submits, tail, bounds,
                   overtaken>>

AnnounceOther ==
    /\ connected /\ inputs < MaxInputs
    /\ inputs' = inputs + 1
    /\ channel' = Append(channel, 0)
    /\ UNCHANGED <<server, connected, event, page, fetches, dialog, submits, tail,
                   lines, faults, lost, overtaken>>

\* The client connects again by itself; it fetches nothing.
Disconnect ==
    /\ connected /\ faults < MaxFaults
    /\ connected' = FALSE
    /\ channel' = << >>
    /\ faults' = faults + 1
    /\ lost' = (lost \/ \E i \in DOMAIN channel : channel[i] # 0)
    /\ UNCHANGED <<server, event, page, fetches, dialog, submits, tail,
                   inputs, lines, overtaken>>

Reconnect ==
    /\ ~connected
    /\ connected' = TRUE
    /\ UNCHANGED <<server, channel, event, page, fetches, dialog, submits, tail, bounds,
                   lost, overtaken>>

-----------------------------------------------------------------------------
(* Events.                                                                 *)

\* A message replaces the one before, even if no effect has seen that.
Receive ==
    /\ channel # << >>
    /\ event' = Head(channel)
    /\ channel' = Tail(channel)
    /\ lost' = (lost \/ event \notin {None, 0})
    /\ UNCHANGED <<server, connected, page, fetches, dialog, submits, tail, bounds,
                   overtaken>>

\* Mutant: an event that arrives before the entity is dropped.
MergedIntoEntity(v, p) ==
    IF v = 0 \/ p.entity = None THEN p ELSE [p EXCEPT !.entity = [status |-> v, rest |-> v]]

\* An event of the entity is merged into it, or stands for it.
Merged(v, p) == IF v = 0 THEN p ELSE [p EXCEPT !.entity = [status |-> v, rest |-> v]]

EventEffect ==
    /\ event # None
    /\ event' = None
    /\ LET p == Merged(event, page)
       IN  /\ Render(p)
           /\ IF event = 0 THEN UNCHANGED <<lost, overtaken>>
              ELSE Shows([status |-> event, rest |-> event])
    /\ UNCHANGED <<server, socket, fetches, dialog, submits, bounds>>

-----------------------------------------------------------------------------
(* Fetches.                                                                *)

\* refreshEntity without an argument: the button, or an editor that has saved.
Refresh ==
    /\ inputs < MaxInputs
    /\ inputs' = inputs + 1
    /\ fetches' = fetches (+) SetToBag({None})
    /\ Render([page EXCEPT !.loading = TRUE])
    /\ dialog' = FALSE
    /\ submits' = Unmounting([page EXCEPT !.loading = TRUE], submits)
    /\ UNCHANGED <<server, socket, event, lines, faults, lost, overtaken>>

Read ==
    /\ BagIn(None, fetches)
    /\ fetches' = (fetches (-) SetToBag({None})) (+) SetToBag({row})
    /\ UNCHANGED <<server, socket, event, page, dialog, submits, tail, bounds,
                   lost, overtaken>>

\* Each answer replaces the entity, and ends the loading of all.
Fetched ==
    \E v \in BagToSet(fetches) \ {None} :
        /\ fetches' = fetches (-) SetToBag({v})
        /\ Render([entity |-> [status |-> v, rest |-> v], loading |-> FALSE, error |-> FALSE])
        /\ Shows([status |-> v, rest |-> v])
        /\ UNCHANGED <<server, socket, event, dialog, submits, bounds>>

\* Mutant: loading ends with a good answer.
FailedPage(p) == [p EXCEPT !.error = TRUE]

ErrorPage(p) == [p EXCEPT !.error = TRUE, !.loading = FALSE]

FetchFails ==
    /\ faults < MaxFaults
    /\ faults' = faults + 1
    /\ \E v \in BagToSet(fetches) : fetches' = fetches (-) SetToBag({v})
    /\ Render(ErrorPage(page))
    /\ dialog' = FALSE
    /\ submits' = Unmounting(ErrorPage(page), submits)
    /\ UNCHANGED <<server, socket, event, inputs, lines, lost, overtaken>>

-----------------------------------------------------------------------------
(* Actions.                                                                *)

OpenDialog ==
    /\ Content(page) /\ ~dialog
    /\ inputs < MaxInputs
    /\ inputs' = inputs + 1
    /\ dialog' = TRUE
    /\ UNCHANGED <<server, socket, event, page, fetches, submits, tail,
                   lines, faults, lost, overtaken>>

\* Closing it forgets that its action is in flight.
CloseDialog ==
    /\ dialog
    /\ dialog' = FALSE
    /\ submits' = {[s EXCEPT !.shown = FALSE] : s \in submits}
    /\ UNCHANGED <<server, socket, event, page, fetches, tail, bounds, lost, overtaken>>

\* Mutant: the button is not disabled.
ReadyAlways(inFlight) == dialog

\* The button is disabled while the action it asked for is in flight.
Ready(inFlight) == dialog /\ \A s \in inFlight : ~s.shown

\* The entity of this render is what the answer will be merged into.
Submit ==
    /\ Ready(submits)
    /\ submits' = submits \cup
            {[before |-> page.entity, after |-> None,
              id |-> CHOOSE n \in 1 .. Cardinality(submits) + 1 : \A s \in submits : s.id # n,
              mounted |-> TRUE, shown |-> TRUE]}
    /\ UNCHANGED <<server, socket, event, page, fetches, dialog, tail, bounds,
                   lost, overtaken>>

\* The server commits what the action does to the row.
Perform ==
    \E s \in submits :
        /\ s.after = None
        /\ row < MaxChanges
        /\ row' = row + 1
        /\ outbox' = outbox \cup {row'}
        /\ submits' = (submits \ {s}) \cup {[s EXCEPT !.after = row']}
        /\ UNCHANGED <<socket, event, page, fetches, dialog, tail, bounds,
                       lost, overtaken>>

\* The answer has the status; the rest is as it was.  Closing the dialog is
\* turning it over.
Performed ==
    \E s \in submits :
        /\ s.after # None
        /\ submits' = submits \ {s}
        /\ LET e == [status |-> s.after, rest |-> s.before.rest]
           IN  Render([page EXCEPT !.entity = e]) /\ Shows(e)
        /\ dialog' = IF s.mounted THEN ~dialog ELSE dialog
        /\ UNCHANGED <<server, socket, event, fetches, bounds>>

Refused ==
    \E s \in submits :
        /\ s.after = None
        /\ submits' = submits \ {s}
        /\ UNCHANGED <<server, socket, event, page, fetches, dialog, tail, bounds,
                       lost, overtaken>>

-----------------------------------------------------------------------------
(* The log tail.                                                           *)

OnTail == UNCHANGED <<server, socket, event, page, fetches, dialog, submits,
                      inputs, faults, lost, overtaken>>

\* handleLogMessage: a line waits for the batch, whose timer it starts.
Line ==
    /\ Content(page) /\ lines < MaxLines
    /\ lines' = lines + 1
    /\ tail' = [tail EXCEPT !.received = Append(@, lines'), !.pending = Append(@, lines'),
                            !.timer = TRUE, !.armed = @ \/ ~tail.timer]
    /\ OnTail

\* Mutants: the first lines are kept; the timer is not forgotten.
KeptFirst(s) == IF Len(s) > MAX_LOG_MESSAGES THEN SubSeq(s, 1, MAX_LOG_MESSAGES) ELSE s
FlushedOnce(t, shown) == [t EXCEPT !.shown = shown, !.pending = << >>, !.armed = FALSE]

Kept(s) == IF Len(s) > MAX_LOG_MESSAGES
           THEN SubSeq(s, Len(s) - MAX_LOG_MESSAGES + 1, Len(s)) ELSE s

Flushed(t, shown) ==
    [t EXCEPT !.shown = shown, !.pending = << >>, !.armed = FALSE, !.timer = FALSE]

Flush == /\ tail.armed
         /\ tail' = Flushed(tail, Kept(tail.shown \o tail.pending))
         /\ UNCHANGED lines /\ OnTail

-----------------------------------------------------------------------------
Init ==
    /\ row = 0 /\ outbox = {}
    /\ connected = TRUE /\ channel = << >> /\ event = None
    /\ page = [entity |-> None, loading |-> TRUE, error |-> FALSE]
    /\ fetches = SetToBag({None})
    /\ dialog = FALSE /\ submits = {} /\ tail = NoTail
    /\ inputs = 0 /\ lines = 0 /\ faults = 0
    /\ lost = FALSE /\ overtaken = FALSE

Next ==
    \/ Change \/ Announce \/ AnnounceOther \/ Disconnect \/ Reconnect
    \/ Receive \/ EventEffect
    \/ Refresh \/ Read \/ Fetched \/ FetchFails
    \/ OpenDialog \/ CloseDialog \/ Submit \/ Perform \/ Performed \/ Refused
    \/ Line \/ Flush

Spec == Init /\ [][Next]_vars

-----------------------------------------------------------------------------
(* What holds.                                                             *)

Shown == [status : 0 .. MaxChanges, rest : 0 .. MaxChanges]

\* Every part keeps its type.
TypeOK ==
    /\ row \in 0 .. MaxChanges /\ outbox \subseteq 1 .. MaxChanges
    /\ connected \in BOOLEAN /\ channel \in Seq(0 .. MaxChanges)
    /\ event \in 0 .. MaxChanges \cup {None}
    /\ page \in [entity : Shown \cup {None}, loading : BOOLEAN, error : BOOLEAN]
    /\ BagToSet(fetches) \subseteq 0 .. MaxChanges \cup {None}
    /\ dialog \in BOOLEAN
    /\ submits \subseteq [before : Shown, after : 1 .. MaxChanges \cup {None},
                          id : Nat, mounted : BOOLEAN, shown : BOOLEAN]

Quiet == outbox = {} /\ channel = << >> /\ event = None /\ fetches = EmptyBag /\ submits = {}

\* When nothing is on its way the page shows the row, unless an event was lost
\* with the connection or under a later one, an answer or an event came after a
\* newer one, or there is an error to show.
PageIsCurrent ==
    Quiet /\ ~lost /\ ~overtaken /\ ~page.error =>
        page.entity = [status |-> row, rest |-> row]

\* The spinner that replaces the page is there only while a fetch is in flight.
LoadingEnds == page.loading => fetches # EmptyBag

\* A confirmation asks for its action once: of the actions in flight at most one
\* is that of the dialog on the screen.  (Closed and opened again, by hand or by
\* the answer to an earlier one, it is a new confirmation.)
OneActionAtATime == \A s, t \in submits : s.shown /\ t.shown => s = t

\* The tail shows, in order and without gaps, the last of the lines it received
\* that have left the batch.
TailIsLog ==
    /\ IsSuffix(tail.pending, tail.received)
    /\ LET flushed == SubSeq(tail.received, 1, Len(tail.received) - Len(tail.pending))
       IN  /\ IsSuffix(tail.shown, flushed)
           /\ Len(tail.shown) = IF Len(flushed) < MAX_LOG_MESSAGES THEN Len(flushed)
                                ELSE MAX_LOG_MESSAGES

\* No line waits in a batch without a timer.
NoStrandedLine == tail.pending # << >> => tail.armed
=============================================================================
