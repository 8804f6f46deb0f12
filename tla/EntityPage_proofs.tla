--------------------------- MODULE EntityPage_proofs ---------------------------
(***************************************************************************)
(* Theorems about EntityPage, for every bound and every length of the log  *)
(* tail.                                                                   *)
(***************************************************************************)
EXTENDS EntityPage, Induction, FiniteSetTheorems, SequenceTheorems, TLAPS

-----------------------------------------------------------------------------
(* Actions in flight.                                                      *)

\* There is always an identifier that no action in flight has.
LEMMA FreshId ==
    ASSUME NEW S, IsFiniteSet(S)
    PROVE  \E n \in 1 .. Cardinality(S) + 1 : \A s \in S : s.id # n
<1> DEFINE f == [s \in S |-> s.id]
           T == {f[s] : s \in S}
           c == Cardinality(S)
<1>1. c \in Nat
  BY FS_CardinalityType
<1>2. IsFiniteSet(T) /\ Cardinality(T) <= c
  BY FiniteImage
<1>3. Cardinality(T) \in Nat
  BY <1>2, FS_CardinalityType
<1>4. Cardinality(1 .. c + 1) = c + 1
  BY <1>1, FS_Interval
<1>5. ~(1 .. c + 1 \subseteq T)
  <2> SUFFICES ASSUME 1 .. c + 1 \subseteq T PROVE FALSE
    OBVIOUS
  <2> HIDE DEF T, c
  <2>1. Cardinality(1 .. c + 1) <= Cardinality(T)
    BY <1>2, FS_Subset
  <2> QED
    BY <1>1, <1>2, <1>3, <1>4, <2>1
<1> QED
  BY <1>5

-----------------------------------------------------------------------------
(* What is known of the row, everywhere, is a version it has had.          *)

EntityUpTo(n) == [status : 0 .. n, rest : 0 .. n]

SubmissionUpTo(n) ==
    [before : EntityUpTo(n), after : 1 .. n \cup {None}, id : Nat,
     mounted : BOOLEAN, shown : BOOLEAN]

KnownVersions ==
    /\ row \in 0 .. MaxChanges
    /\ outbox \subseteq 1 .. row
    /\ channel \in Seq(Nat) /\ \A i \in 1 .. Len(channel) : channel[i] <= row
    /\ event \in 0 .. row \cup {None}
    /\ page \in [entity : EntityUpTo(row) \cup {None}, loading : BOOLEAN, error : BOOLEAN]
    /\ BagToSet(fetches) \subseteq 0 .. row \cup {None}
    /\ submits \subseteq SubmissionUpTo(row)

\* The dialog, and the actions that may still close it, are part of the content.
DialogInContent ==
    /\ connected \in BOOLEAN /\ dialog \in BOOLEAN
    /\ IsFiniteSet(submits)
    /\ dialog => Content(page)
    /\ \A s \in submits : s.mounted => Content(page)

TypeInv == KnownVersions /\ DialogInContent

\* A commit makes no version unknown.
LEMMA KnownGrows ==
    ASSUME NEW n \in Nat
    PROVE  /\ 0 .. n \subseteq 0 .. n + 1 /\ 1 .. n \subseteq 1 .. n + 1
           /\ EntityUpTo(n) \subseteq EntityUpTo(n + 1)
           /\ SubmissionUpTo(n) \subseteq SubmissionUpTo(n + 1)
<1>1. 0 .. n \subseteq 0 .. n + 1 /\ 1 .. n \subseteq 1 .. n + 1
  OBVIOUS
<1>2. EntityUpTo(n) \subseteq EntityUpTo(n + 1)
  BY <1>1 DEF EntityUpTo
<1>3. SubmissionUpTo(n) \subseteq SubmissionUpTo(n + 1)
  <2> HIDE DEF EntityUpTo
  <2> QED
    BY <1>1, <1>2, Zenon DEF SubmissionUpTo
<1> QED
  BY <1>1, <1>2, <1>3

\* Unmounting the content keeps the actions in flight, without their dialog.
LEMMA UnmountingType ==
    ASSUME TypeInv, NEW p
    PROVE  /\ Unmounting(p, submits) \subseteq SubmissionUpTo(row)
           /\ IsFiniteSet(Unmounting(p, submits))
           /\ ~Content(p) => \A s \in Unmounting(p, submits) : ~s.mounted /\ ~s.shown
<1> DEFINE f == [s \in submits |-> [s EXCEPT !.mounted = FALSE, !.shown = FALSE]]
<1>1. CASE Content(p)
  BY <1>1 DEF TypeInv, KnownVersions, DialogInContent, Unmounting
<1>2. CASE ~Content(p)
  <2>1. Unmounting(p, submits) = {f[s] : s \in submits}
    BY <1>2 DEF Unmounting
  <2>2. IsFiniteSet(Unmounting(p, submits))
    <3>1. IsFiniteSet(submits) /\ DOMAIN f = submits
      BY DEF TypeInv, DialogInContent
    <3> HIDE DEF f
    <3> QED
      BY <2>1, <3>1, FiniteImage
  <2>3. \A s \in submits : /\ f[s] \in SubmissionUpTo(row)
                           /\ ~f[s].mounted /\ ~f[s].shown
    BY DEF TypeInv, KnownVersions, SubmissionUpTo
  <2> QED
    BY <2>1, <2>2, <2>3
<1> QED
  BY <1>1, <1>2

\* A sequence is one over any set that has its elements.
LEMMA SeqOverElements ==
    ASSUME NEW R, NEW S, NEW s \in Seq(R), \A i \in 1 .. Len(s) : s[i] \in S
    PROVE  s \in Seq(S)
  OBVIOUS

-----------------------------------------------------------------------------
(* Type correctness.                                                       *)

\* The page before its first fetch is well typed.
LEMMA InitTypeInv == Init => TypeInv
<1> SUFFICES ASSUME Init PROVE TypeInv
  OBVIOUS
<1>1. 0 \in 0 .. MaxChanges
  BY BoundsAssumption
<1>2. BagToSet(fetches) = {None}
  BY DEF Init, BagToSet, SetToBag
<1>3. channel \in Seq(Nat) /\ \A i \in 1 .. Len(channel) : channel[i] <= row
  BY DEF Init
<1>4. KnownVersions
  BY <1>1, <1>2, <1>3 DEF Init, KnownVersions
<1>5. DialogInContent
  BY FS_EmptySet DEF Init, DialogInContent
<1> QED
  BY <1>4, <1>5 DEF TypeInv

\* A commit: what was known before still is.
LEMMA CommitType ==
    ASSUME TypeInv, row < MaxChanges, row' = row + 1
    PROVE  /\ row' \in 0 .. MaxChanges
           /\ outbox \cup {row'} \subseteq 1 .. row'
           /\ \A i \in 1 .. Len(channel) : channel[i] <= row'
           /\ event \in 0 .. row' \cup {None}
           /\ page \in [entity : EntityUpTo(row') \cup {None}, loading : BOOLEAN, error : BOOLEAN]
           /\ BagToSet(fetches) \subseteq 0 .. row' \cup {None}
           /\ submits \subseteq SubmissionUpTo(row')
<1>1. row \in Nat /\ row' \in 1 .. MaxChanges
  BY BoundsAssumption DEF TypeInv, KnownVersions
<1>2. /\ 0 .. row \subseteq 0 .. row' /\ 1 .. row \subseteq 1 .. row'
      /\ EntityUpTo(row) \subseteq EntityUpTo(row')
      /\ SubmissionUpTo(row) \subseteq SubmissionUpTo(row')
  BY <1>1, KnownGrows
<1>3. \A i \in 1 .. Len(channel) : channel[i] <= row'
  BY <1>1 DEF TypeInv, KnownVersions
<1> HIDE DEF EntityUpTo, SubmissionUpTo
<1> QED
  BY <1>1, <1>2, <1>3 DEF TypeInv, KnownVersions

\* The server and the socket: what they announce and lose has been committed.
LEMMA ServerStepType ==
    ASSUME TypeInv, Change \/ Announce \/ AnnounceOther \/ Disconnect \/ Reconnect \/ Receive
    PROVE  TypeInv'
<1>1. CASE Change
  BY <1>1, CommitType DEF Change, TypeInv, KnownVersions, DialogInContent, Content, socket, bounds
<1>2. CASE Announce
  <2>1. outbox' \subseteq 1 .. row /\ channel' \in Seq(Nat)
          /\ \A i \in 1 .. Len(channel') : channel'[i] <= row
    BY <1>2 DEF Announce, TypeInv, KnownVersions
  <2> QED
    BY <1>2, <2>1 DEF Announce, TypeInv, KnownVersions, DialogInContent, Content, bounds
<1>3. CASE AnnounceOther
  <2>1. channel' \in Seq(Nat) /\ \A i \in 1 .. Len(channel') : channel'[i] <= row
    BY <1>3 DEF AnnounceOther, TypeInv, KnownVersions
  <2> QED
    BY <1>3, <2>1 DEF AnnounceOther, TypeInv, KnownVersions, DialogInContent, Content, server
<1>4. CASE Disconnect
  <2>1. channel' \in Seq(Nat) /\ \A i \in 1 .. Len(channel') : channel'[i] <= row
    BY <1>4 DEF Disconnect
  <2> QED
    BY <1>4, <2>1 DEF Disconnect, TypeInv, KnownVersions, DialogInContent, Content, server
<1>5. CASE Reconnect
  BY <1>5 DEF Reconnect, TypeInv, KnownVersions, DialogInContent, Content, server, bounds
<1>6. CASE Receive
  <2>1. /\ channel' \in Seq(Nat) /\ \A i \in 1 .. Len(channel') : channel'[i] <= row
        /\ event' \in 0 .. row
    BY <1>6 DEF Receive, TypeInv, KnownVersions
  <2> QED
    BY <1>6, <2>1 DEF Receive, TypeInv, KnownVersions, DialogInContent, Content, server, bounds
<1> QED
  BY <1>1, <1>2, <1>3, <1>4, <1>5, <1>6

\* Events and fetches: what they put on the page the row has been.
LEMMA FetchStepType ==
    ASSUME TypeInv, EventEffect \/ Refresh \/ Read \/ Fetched \/ FetchFails
    PROVE  TypeInv'
<1>1. CASE EventEffect
  <2>1. /\ page' = Merged(event, page)
        /\ UNCHANGED <<row, outbox, connected, channel, fetches, dialog, submits>>
        /\ event' = None
    BY <1>1 DEF EventEffect, Render, server, socket, bounds
  <2>2. event \in 0 .. row
    BY <1>1 DEF EventEffect, TypeInv, KnownVersions
  <2>3. page' \in [entity : EntityUpTo(row) \cup {None}, loading : BOOLEAN, error : BOOLEAN]
    BY <2>1, <2>2 DEF Merged, TypeInv, KnownVersions, EntityUpTo
  <2>4. Content(page) => Content(page')
    BY <2>1, <2>2, NoneAssumption DEF Merged, Content, TypeInv, KnownVersions
  <2> QED
    BY <2>1, <2>3, <2>4 DEF TypeInv, KnownVersions, DialogInContent
<1>2. CASE Refresh
  <2> DEFINE p == [page EXCEPT !.loading = TRUE]
  <2>1. /\ page' = p /\ dialog' = FALSE /\ submits' = Unmounting(p, submits)
        /\ UNCHANGED <<row, outbox, connected, channel, event>>
        /\ BagToSet(fetches') = BagToSet(fetches) \cup {None}
    BY <1>2, BagAddSet DEF Refresh, Render, server, socket
  <2>2. p \in [entity : EntityUpTo(row) \cup {None}, loading : BOOLEAN, error : BOOLEAN]
    BY DEF TypeInv, KnownVersions
  <2>3. ~Content(p)
    BY DEF Content, TypeInv, KnownVersions
  <2> HIDE DEF p
  <2> QED
    BY <2>1, <2>2, <2>3, UnmountingType DEF TypeInv, KnownVersions, DialogInContent
<1>3. CASE Read
  <2> DEFINE rest == fetches (-) SetToBag({None})
  <2>1. BagToSet(rest) \subseteq BagToSet(fetches)
    BY BagRemoveSet
  <2>2. fetches' = rest (+) SetToBag({row})
    BY <1>3 DEF Read
  <2> HIDE DEF rest
  <2>3. BagToSet(fetches') = BagToSet(rest) \cup {row}
    BY <2>2, BagAddSet
  <2>4. row' = row /\ row \in 0 .. row
    BY <1>3 DEF Read, TypeInv, KnownVersions, server
  <2>5. BagToSet(fetches') \subseteq 0 .. row' \cup {None}
    BY <2>1, <2>3, <2>4 DEF TypeInv, KnownVersions
  <2> QED
    BY <1>3, <2>5 DEF Read, TypeInv, KnownVersions, DialogInContent, Content, server, socket, bounds
<1>4. CASE Fetched
  <2>1. PICK v \in BagToSet(fetches) \ {None} :
          /\ fetches' = fetches (-) SetToBag({v})
          /\ page' = [entity |-> [status |-> v, rest |-> v], loading |-> FALSE, error |-> FALSE]
          /\ UNCHANGED <<row, outbox, connected, channel, event, dialog, submits>>
    BY <1>4 DEF Fetched, Render, server, socket, bounds
  <2>2. v \in 0 .. row
    BY DEF TypeInv, KnownVersions
  <2>3. page' \in [entity : EntityUpTo(row) \cup {None}, loading : BOOLEAN, error : BOOLEAN]
    BY <2>1, <2>2 DEF EntityUpTo
  <2>4. Content(page')
    BY <2>1, <2>2, NoneAssumption DEF Content, TypeInv, KnownVersions
  <2>5. BagToSet(fetches') \subseteq BagToSet(fetches)
    BY <2>1, BagRemoveSet
  <2> QED
    BY <2>1, <2>3, <2>4, <2>5 DEF TypeInv, KnownVersions, DialogInContent
<1>5. CASE FetchFails
  <2>1. /\ page' = ErrorPage(page) /\ dialog' = FALSE
        /\ submits' = Unmounting(ErrorPage(page), submits)
        /\ UNCHANGED <<row, outbox, connected, channel, event>>
    BY <1>5 DEF FetchFails, Render, server, socket
  <2>2. BagToSet(fetches') \subseteq BagToSet(fetches)
    BY <1>5, BagRemoveSet DEF FetchFails
  <2>3. ErrorPage(page) \in
          [entity : EntityUpTo(row) \cup {None}, loading : BOOLEAN, error : BOOLEAN]
    BY DEF ErrorPage, TypeInv, KnownVersions
  <2>4. ~Content(ErrorPage(page))
    BY DEF ErrorPage, Content, TypeInv, KnownVersions
  <2> QED
    BY <2>1, <2>2, <2>3, <2>4, UnmountingType DEF TypeInv, KnownVersions, DialogInContent
<1> QED
  BY <1>1, <1>2, <1>3, <1>4, <1>5

\* Confirmations and their actions: an action remembers the entity its dialog
\* was shown with.
LEMMA ActionStepType ==
    ASSUME TypeInv, OpenDialog \/ CloseDialog \/ Submit \/ Perform \/ Performed \/ Refused
    PROVE  TypeInv'
<1>1. CASE OpenDialog
  BY <1>1 DEF OpenDialog, TypeInv, KnownVersions, DialogInContent, Content, server, socket
<1>2. CASE CloseDialog
  <2> DEFINE f == [s \in submits |-> [s EXCEPT !.shown = FALSE]]
  <2>1. submits' = {f[s] : s \in submits}
    BY <1>2 DEF CloseDialog
  <2>2. IsFiniteSet(submits')
    <3>1. IsFiniteSet(submits) /\ DOMAIN f = submits
      BY DEF TypeInv, DialogInContent
    <3> HIDE DEF f
    <3> QED
      BY <2>1, <3>1, FiniteImage
  <2>3. \A s \in submits : f[s] \in SubmissionUpTo(row) /\ f[s].mounted = s.mounted
    BY DEF TypeInv, KnownVersions, SubmissionUpTo
  <2>4. /\ submits' \subseteq SubmissionUpTo(row)
        /\ \A s \in submits' : s.mounted => Content(page)
    BY <2>1, <2>3 DEF TypeInv, DialogInContent
  <2> QED
    BY <1>2, <2>2, <2>4 DEF CloseDialog, TypeInv, KnownVersions, DialogInContent, Content,
                            server, socket, bounds
<1>3. CASE Submit
  <2> DEFINE n == CHOOSE n \in 1 .. Cardinality(submits) + 1 : \A s \in submits : s.id # n
             new == [before |-> page.entity, after |-> None, id |-> n,
                     mounted |-> TRUE, shown |-> TRUE]
  <2>1. n \in Nat
    <3>1. IsFiniteSet(submits) /\ Cardinality(submits) \in Nat
      BY FS_CardinalityType DEF TypeInv, DialogInContent
    <3>2. n \in 1 .. Cardinality(submits) + 1
      BY <3>1, FreshId
    <3> QED
      BY <3>1, <3>2
  <2>2. Content(page) /\ dialog
    BY <1>3 DEF Submit, Ready, TypeInv, DialogInContent
  <2>3. page.entity \in EntityUpTo(row)
    BY <2>2 DEF Content, TypeInv, KnownVersions
  <2> HIDE DEF n
  <2>4. new \in SubmissionUpTo(row)
    BY <2>1, <2>3 DEF SubmissionUpTo
  <2>5. submits' = submits \cup {new}
    BY <1>3 DEF Submit, n
  <2>6. /\ submits' \subseteq SubmissionUpTo(row) /\ IsFiniteSet(submits')
        /\ \A s \in submits' : s.mounted => Content(page)
    BY <2>2, <2>4, <2>5, FS_AddElement DEF TypeInv, KnownVersions, DialogInContent
  <2> QED
    BY <1>3, <2>6 DEF Submit, TypeInv, KnownVersions, DialogInContent, Content,
                      server, socket, bounds
<1>4. CASE Perform
  <2>1. PICK s \in submits :
          /\ row < MaxChanges /\ row' = row + 1 /\ outbox' = outbox \cup {row'}
          /\ submits' = (submits \ {s}) \cup {[s EXCEPT !.after = row']}
          /\ UNCHANGED <<connected, channel, event, page, fetches, dialog>>
    BY <1>4 DEF Perform, socket
  <2>2. /\ submits \subseteq SubmissionUpTo(row') /\ row' \in 1 .. row'
    BY <2>1, CommitType DEF TypeInv, KnownVersions
  <2>3. [s EXCEPT !.after = row'] \in SubmissionUpTo(row')
        /\ [s EXCEPT !.after = row'].mounted = s.mounted
    BY <2>2 DEF SubmissionUpTo
  <2>4. IsFiniteSet(submits')
    BY <2>1, FS_AddElement, FS_RemoveElement DEF TypeInv, DialogInContent
  <2>5. submits' \subseteq SubmissionUpTo(row') /\ \A t \in submits' : t.mounted => Content(page)
    BY <2>1, <2>2, <2>3 DEF TypeInv, DialogInContent
  <2> QED
    BY <2>1, <2>4, <2>5, CommitType DEF TypeInv, KnownVersions, DialogInContent, Content
<1>5. CASE Performed
  <2>1. PICK s \in submits :
          /\ s.after # None
          /\ submits' = submits \ {s}
          /\ page' = [page EXCEPT !.entity = [status |-> s.after, rest |-> s.before.rest]]
          /\ dialog' = IF s.mounted THEN ~dialog ELSE dialog
          /\ UNCHANGED <<row, outbox, connected, channel, event, fetches>>
    BY <1>5 DEF Performed, Render, server, socket, bounds
  <2>2. [status |-> s.after, rest |-> s.before.rest] \in EntityUpTo(row)
    BY <2>1 DEF TypeInv, KnownVersions, SubmissionUpTo, EntityUpTo
  <2>3. [status |-> s.after, rest |-> s.before.rest] # None
    BY <2>2, NoneAssumption DEF TypeInv, KnownVersions, EntityUpTo
  <2>4. page' \in [entity : EntityUpTo(row) \cup {None}, loading : BOOLEAN, error : BOOLEAN]
    BY <2>1, <2>2 DEF TypeInv, KnownVersions
  <2>5. Content(page) => Content(page')
    BY <2>1, <2>3 DEF Content, TypeInv, KnownVersions
  <2>6. dialog' \in BOOLEAN /\ (dialog' => Content(page'))
    BY <2>1, <2>5 DEF TypeInv, DialogInContent
  <2>7. IsFiniteSet(submits')
    BY <2>1, FS_RemoveElement DEF TypeInv, DialogInContent
  <2> QED
    BY <2>1, <2>4, <2>5, <2>6, <2>7 DEF TypeInv, KnownVersions, DialogInContent
<1>6. CASE Refused
  <2>1. PICK s \in submits : submits' = submits \ {s}
    BY <1>6 DEF Refused
  <2>2. IsFiniteSet(submits')
    BY <2>1, FS_RemoveElement DEF TypeInv, DialogInContent
  <2> QED
    BY <1>6, <2>1, <2>2 DEF Refused, TypeInv, KnownVersions, DialogInContent, Content,
                            server, socket, bounds
<1> QED
  BY <1>1, <1>2, <1>3, <1>4, <1>5, <1>6

\* Every step keeps the types.
LEMMA NextTypeInv == TypeInv /\ [Next]_vars => TypeInv'
<1> SUFFICES ASSUME TypeInv, [Next]_vars PROVE TypeInv'
  OBVIOUS
<1>1. CASE Line \/ Flush \/ UNCHANGED vars
  <2>1. UNCHANGED <<row, outbox, connected, channel, event, page, fetches, dialog, submits>>
    BY <1>1 DEF Line, Flush, OnTail, vars, server, socket
  <2> QED
    BY <2>1 DEF TypeInv, KnownVersions, DialogInContent, Content
<1>2. CASE Next /\ ~(Line \/ Flush)
  BY <1>2, ServerStepType, FetchStepType, ActionStepType DEF Next
<1> QED
  BY <1>1, <1>2

\* What TypeInv knows up to the row's version, TypeOK says up to the bound.
LEMMA TypeInvGivesTypeOK == TypeInv => TypeOK
<1> SUFFICES ASSUME TypeInv PROVE TypeOK
  OBVIOUS
<1>1. row \in Nat /\ MaxChanges \in Nat /\ row <= MaxChanges
  BY BoundsAssumption DEF TypeInv, KnownVersions
<1>2. 0 .. row \subseteq 0 .. MaxChanges /\ 1 .. row \subseteq 1 .. MaxChanges
  BY <1>1
<1>3. channel \in Seq(0 .. MaxChanges)
  <2>1. channel \in Seq(Nat) /\ \A i \in 1 .. Len(channel) : channel[i] \in 0 .. MaxChanges
    BY <1>1 DEF TypeInv, KnownVersions
  <2> QED
    BY <2>1, SeqOverElements
<1>4. EntityUpTo(row) \subseteq Shown
  BY <1>2 DEF EntityUpTo, Shown
<1>5. page \in [entity : Shown \cup {None}, loading : BOOLEAN, error : BOOLEAN]
  BY <1>4 DEF TypeInv, KnownVersions
<1>6. SubmissionUpTo(row) \subseteq [before : Shown, after : 1 .. MaxChanges \cup {None},
                                     id : Nat, mounted : BOOLEAN, shown : BOOLEAN]
  BY <1>2, <1>4, Zenon DEF SubmissionUpTo
<1> QED
  BY <1>1, <1>2, <1>3, <1>5, <1>6 DEF TypeInv, KnownVersions, DialogInContent, TypeOK

\* Every part of the page keeps its type, and no part holds a version the row
\* has not had.
THEOREM TypeCorrect == Spec => []TypeOK
  BY InitTypeInv, NextTypeInv, TypeInvGivesTypeOK, PTL DEF Spec

-----------------------------------------------------------------------------
(* Loading and confirmations.                                              *)

\* The first fetch is sent as the page opens.
LEMMA InitLoadingEnds == Init => LoadingEnds
<1> SUFFICES ASSUME Init PROVE fetches # EmptyBag
  BY DEF LoadingEnds
<1>1. None \in DOMAIN fetches /\ DOMAIN EmptyBag = {}
  BY DEF Init, SetToBag, EmptyBag
<1> QED
  BY <1>1

\* Whatever takes a fetch away ends the loading.
LEMMA NextLoadingEnds == TypeInv /\ LoadingEnds /\ [Next]_vars => LoadingEnds'
<1> SUFFICES ASSUME TypeInv, LoadingEnds, [Next]_vars PROVE LoadingEnds'
  OBVIOUS
<1>1. CASE Refresh
  BY <1>1, BagAddSet DEF Refresh, LoadingEnds
<1>2. CASE Read
  <2> DEFINE rest == fetches (-) SetToBag({None})
  <2>1. fetches' = rest (+) SetToBag({row})
    BY <1>2 DEF Read
  <2> HIDE DEF rest
  <2> QED
    BY <2>1, BagAddSet DEF LoadingEnds
<1>3. CASE Fetched \/ FetchFails
  <2>1. ASSUME Fetched PROVE page'.loading = FALSE
    BY <2>1 DEF Fetched, Render
  <2>2. ASSUME FetchFails PROVE page'.loading = FALSE
    BY <2>2 DEF FetchFails, Render, ErrorPage, TypeInv, KnownVersions
  <2> QED
    BY <1>3, <2>1, <2>2 DEF LoadingEnds
<1>4. CASE EventEffect
  BY <1>4 DEF EventEffect, Render, Merged, LoadingEnds, TypeInv, KnownVersions
<1>5. CASE Performed
  BY <1>5 DEF Performed, Render, LoadingEnds, TypeInv, KnownVersions
<1>6. CASE UNCHANGED <<page, fetches>>
  BY <1>6 DEF LoadingEnds
<1>7. [Next]_vars => \/ Refresh \/ Read \/ Fetched \/ FetchFails \/ EventEffect \/ Performed
                     \/ UNCHANGED <<page, fetches>>
  BY DEF Next, Change, Announce, AnnounceOther, Disconnect, Reconnect, Receive, OpenDialog,
         CloseDialog, Submit, Perform, Refused, Line, Flush, OnTail, vars
<1> QED
  BY <1>1, <1>2, <1>3, <1>4, <1>5, <1>6, <1>7

\* The spinner is replaced by an answer, by an error, or waits for a fetch that
\* is still in flight.
THEOREM LoadingTerminates == Spec => []LoadingEnds
  BY InitTypeInv, NextTypeInv, InitLoadingEnds, NextLoadingEnds, PTL DEF Spec

\* The button stays disabled until the action of this confirmation has been
\* answered, or the confirmation is another one.
THEOREM ConfirmedOnce == Spec => []OneActionAtATime
<1>1. Init => OneActionAtATime
  BY DEF Init, OneActionAtATime
<1>2. TypeInv /\ OneActionAtATime /\ [Next]_vars => OneActionAtATime'
  <2> SUFFICES ASSUME TypeInv, OneActionAtATime, [Next]_vars PROVE OneActionAtATime'
    OBVIOUS
  <2>1. CASE Refresh \/ FetchFails
    <3>1. PICK p : submits' = Unmounting(p, submits)
      BY <2>1 DEF Refresh, FetchFails
    <3>2. CASE Content(p)
      BY <3>1, <3>2 DEF Unmounting, OneActionAtATime
    <3>3. CASE ~Content(p)
      BY <3>1, <3>3, UnmountingType DEF OneActionAtATime
    <3> QED
      BY <3>2, <3>3
  <2>2. CASE CloseDialog
    <3>1. \A s \in submits' : ~s.shown
      BY <2>2 DEF CloseDialog, TypeInv, KnownVersions, SubmissionUpTo
    <3> QED
      BY <3>1 DEF OneActionAtATime
  <2>3. CASE Submit
    BY <2>3 DEF Submit, Ready, OneActionAtATime
  <2>4. CASE Perform
    <3>1. PICK s \in submits : submits' = (submits \ {s}) \cup {[s EXCEPT !.after = row']}
      BY <2>4 DEF Perform
    <3>2. [s EXCEPT !.after = row'].shown = s.shown
      BY DEF TypeInv, KnownVersions, SubmissionUpTo
    <3> QED
      BY <3>1, <3>2 DEF OneActionAtATime
  <2>5. CASE Performed \/ Refused
    BY <2>5 DEF Performed, Refused, OneActionAtATime
  <2>6. CASE UNCHANGED submits
    BY <2>6 DEF OneActionAtATime
  <2>7. [Next]_vars => \/ Refresh \/ FetchFails \/ CloseDialog \/ Submit \/ Perform
                       \/ Performed \/ Refused \/ UNCHANGED submits
    BY DEF Next, Change, Announce, AnnounceOther, Disconnect, Reconnect, Receive, EventEffect,
           Read, Fetched, OpenDialog, Line, Flush, OnTail, vars
  <2> QED
    BY <2>1, <2>2, <2>3, <2>4, <2>5, <2>6, <2>7
<1> QED
  BY <1>1, <1>2, InitTypeInv, NextTypeInv, PTL DEF Spec

-----------------------------------------------------------------------------
(* The page catches up with the row.                                       *)

\* Unless the exception has been noted, the row's last version is the one on
\* the page, or is still on its way there as an event.
LastIsAnnounced ==
    ~lost /\ ~overtaken /\ row > 0 =>
        \/ row \in outbox \/ event = row
        \/ \E i \in 1 .. Len(channel) : channel[i] = row
        \/ page.entity = [status |-> row, rest |-> row]

\* A page with nothing to show is loading, or shows why not.
NothingMeansWaiting == page.entity = None => page.loading \/ page.error

CurrentInv ==
    /\ TypeInv /\ LoadingEnds
    /\ lost \in BOOLEAN /\ overtaken \in BOOLEAN
    /\ LastIsAnnounced /\ NothingMeansWaiting

\* Whatever the page shows, it is the row, or an older entity that does not
\* replace the row unnoticed.
LEMMA ShowsKeepsAnnounced ==
    ASSUME CurrentInv, NEW e \in EntityUpTo(row), Shows(e), page'.entity = e,
           UNCHANGED <<row, outbox, channel>>, event' = event \/ (event = e.status /\ e.status = e.rest)
    PROVE  LastIsAnnounced' /\ lost' \in BOOLEAN /\ overtaken' \in BOOLEAN
<1>1. CASE e.status = row /\ e.rest = row
  <2>1. e = [status |-> row, rest |-> row]
    BY <1>1 DEF EntityUpTo
  <2> QED
    BY <1>1, <2>1 DEF Shows, LastIsAnnounced, CurrentInv
<1>2. CASE ~(e.status = row /\ e.rest = row)
  <2>1. row \in Nat /\ e.status \in 0 .. row /\ e.rest \in 0 .. row
    BY DEF CurrentInv, TypeInv, KnownVersions, EntityUpTo
  <2>2. lost' = lost /\ overtaken' = (overtaken \/ Older(e, page.entity))
    BY <1>2 DEF Shows, CurrentInv
  <2>3. CASE page.entity = [status |-> row, rest |-> row]
    <3>1. page.entity # None
      BY <2>1, <2>3, NoneAssumption
    <3>2. Older(e, page.entity)
      BY <1>2, <2>1, <2>3, <3>1 DEF Older
    <3> QED
      BY <2>2, <3>2 DEF LastIsAnnounced, CurrentInv, Older
  <2>4. CASE page.entity # [status |-> row, rest |-> row]
    <3>1. event = row => event' = row
      BY <1>2
    <3> QED
      BY <2>2, <2>4, <3>1 DEF LastIsAnnounced, CurrentInv, Older
  <2> QED
    BY <2>3, <2>4
<1> QED
  BY <1>1, <1>2

\* Every step keeps the last version announced, and a page with nothing to show
\* waiting.
LEMMA NextCurrentInv == CurrentInv /\ [Next]_vars => CurrentInv'
<1> SUFFICES ASSUME CurrentInv, [Next]_vars
             PROVE  /\ lost' \in BOOLEAN /\ overtaken' \in BOOLEAN
                    /\ LastIsAnnounced' /\ NothingMeansWaiting'
  BY NextTypeInv, NextLoadingEnds DEF CurrentInv
<1>1. CASE Change \/ Perform
  <2>1. /\ row' = row + 1 /\ row' \in outbox' /\ row \in Nat
        /\ UNCHANGED <<page, lost, overtaken>>
    BY <1>1 DEF Change, Perform, CurrentInv, TypeInv, KnownVersions
  <2> QED
    BY <2>1 DEF CurrentInv, LastIsAnnounced, NothingMeansWaiting
<1>2. CASE Announce
  <2>1. PICK v \in outbox :
          /\ outbox' = outbox \ {v}
          /\ channel' = IF connected THEN Append(channel, v) ELSE channel
          /\ lost' = (lost \/ ~connected)
          /\ UNCHANGED <<row, event, page, overtaken>>
    BY <1>2 DEF Announce
  <2>2. CASE ~connected
    BY <2>1, <2>2 DEF CurrentInv, LastIsAnnounced, NothingMeansWaiting
  <2>3. CASE connected
    <3>1. v \in Nat /\ channel \in Seq(Nat)
      BY DEF CurrentInv, TypeInv, KnownVersions
    <3>2. \A x : x = v \/ (\E i \in 1 .. Len(channel) : channel[i] = x)
                 => \E i \in 1 .. Len(channel') : channel'[i] = x
      BY <2>1, <2>3, <3>1
    <3>3. row \in outbox \/ (\E i \in 1 .. Len(channel) : channel[i] = row)
            => row \in outbox' \/ (\E i \in 1 .. Len(channel') : channel'[i] = row)
      BY <2>1, <3>2
    <3> QED
      BY <2>1, <2>3, <3>3 DEF CurrentInv, LastIsAnnounced, NothingMeansWaiting
  <2> QED
    BY <2>2, <2>3
<1>3. CASE AnnounceOther
  <2>1. /\ channel' = Append(channel, 0) /\ channel \in Seq(Nat)
        /\ UNCHANGED <<row, outbox, event, page, lost, overtaken>>
    BY <1>3 DEF AnnounceOther, CurrentInv, TypeInv, KnownVersions, server
  <2>2. (\E i \in 1 .. Len(channel) : channel[i] = row)
          => \E i \in 1 .. Len(channel') : channel'[i] = row
    BY <2>1
  <2> QED
    BY <2>1, <2>2 DEF CurrentInv, LastIsAnnounced, NothingMeansWaiting
<1>4. CASE Disconnect
  <2>1. /\ lost' = (lost \/ \E i \in DOMAIN channel : channel[i] # 0)
        /\ channel' = << >> /\ channel \in Seq(Nat)
        /\ UNCHANGED <<row, outbox, event, page, overtaken>>
    BY <1>4 DEF Disconnect, CurrentInv, TypeInv, KnownVersions, server
  <2>2. row > 0 /\ (\E i \in 1 .. Len(channel) : channel[i] = row) => lost'
    <3>1. row > 0 /\ (\E i \in 1 .. Len(channel) : channel[i] = row)
            => \E i \in DOMAIN channel : channel[i] # 0
      BY <2>1
    <3> QED
      BY <2>1, <3>1, Zenon
  <2> QED
    BY <2>1, <2>2 DEF CurrentInv, LastIsAnnounced, NothingMeansWaiting
<1>5. CASE Receive
  <2>1. /\ channel # << >> /\ channel \in Seq(Nat)
        /\ event' = Head(channel) /\ channel' = Tail(channel)
        /\ lost' = (lost \/ event \notin {None, 0})
        /\ UNCHANGED <<row, outbox, page, overtaken>>
    BY <1>5 DEF Receive, CurrentInv, TypeInv, KnownVersions, server
  <2>2. (\E i \in 1 .. Len(channel) : channel[i] = row)
          => event' = row \/ \E i \in 1 .. Len(channel') : channel'[i] = row
    <3> SUFFICES ASSUME NEW i \in 1 .. Len(channel), channel[i] = row
                 PROVE  event' = row \/ \E j \in 1 .. Len(channel') : channel'[j] = row
      OBVIOUS
    <3>1. CASE i = 1
      BY <2>1, <3>1
    <3>2. CASE i # 1
      <4>1. i - 1 \in 1 .. Len(channel') /\ channel'[i - 1] = channel[i]
        BY <2>1, <3>2
      <4> QED
        BY <4>1
    <3> QED
      BY <3>1, <3>2
  <2>3. row > 0 /\ event = row => lost'
    <3>1. row > 0 /\ event = row => event \notin {None, 0}
      BY NoneAssumption DEF CurrentInv, TypeInv, KnownVersions
    <3> QED
      BY <2>1, <3>1, Zenon
  <2> QED
    BY <2>1, <2>2, <2>3 DEF CurrentInv, LastIsAnnounced, NothingMeansWaiting
<1>6. CASE EventEffect
  <2>1. CASE event = 0
    <3>1. /\ event' = None /\ page' = page
          /\ UNCHANGED <<row, outbox, channel, lost, overtaken>>
      BY <1>6, <2>1 DEF EventEffect, Render, Merged, server, socket
    <3> QED
      BY <2>1, <3>1 DEF CurrentInv, LastIsAnnounced, NothingMeansWaiting
  <2>2. CASE event # 0
    <3> DEFINE e == [status |-> event, rest |-> event]
    <3>1. Shows(e) /\ page'.entity = e /\ UNCHANGED <<row, outbox, channel>>
      BY <1>6, <2>2 DEF EventEffect, Render, Merged, server, socket, CurrentInv, TypeInv,
                        KnownVersions
    <3>2. e \in EntityUpTo(row) /\ e.status = event /\ e.rest = event
      BY <1>6 DEF EventEffect, EntityUpTo, CurrentInv, TypeInv, KnownVersions
    <3>3. e # None
      BY <3>2, NoneAssumption DEF EntityUpTo, CurrentInv, TypeInv, KnownVersions
    <3> HIDE DEF e
    <3> QED
      BY <3>1, <3>2, <3>3, ShowsKeepsAnnounced DEF NothingMeansWaiting
  <2> QED
    BY <2>1, <2>2
<1>7. CASE Fetched
  <2>1. PICK v \in BagToSet(fetches) \ {None} :
          /\ page' = [entity |-> [status |-> v, rest |-> v], loading |-> FALSE, error |-> FALSE]
          /\ Shows([status |-> v, rest |-> v])
          /\ UNCHANGED <<row, outbox, channel, event>>
    BY <1>7 DEF Fetched, Render, server, socket
  <2> DEFINE e == [status |-> v, rest |-> v]
  <2>2. e \in EntityUpTo(row) /\ Shows(e) /\ page'.entity = e
    BY <2>1 DEF EntityUpTo, CurrentInv, TypeInv, KnownVersions
  <2>3. e # None
    BY <2>2, NoneAssumption DEF EntityUpTo, CurrentInv, TypeInv, KnownVersions
  <2> HIDE DEF e
  <2> QED
    BY <2>1, <2>2, <2>3, ShowsKeepsAnnounced DEF NothingMeansWaiting
<1>8. CASE Performed
  <2>1. PICK s \in submits :
          LET e == [status |-> s.after, rest |-> s.before.rest]
          IN  /\ s.after # None
              /\ page' = [page EXCEPT !.entity = e]
              /\ Shows(e)
              /\ UNCHANGED <<row, outbox, channel, event>>
    BY <1>8 DEF Performed, Render, server, socket
  <2>2. [status |-> s.after, rest |-> s.before.rest] \in EntityUpTo(row)
    BY <2>1 DEF CurrentInv, TypeInv, KnownVersions, SubmissionUpTo, EntityUpTo
  <2>3. PICK e \in EntityUpTo(row) :
          Shows(e) /\ page'.entity = e /\ UNCHANGED <<row, outbox, channel, event>>
    BY <2>1, <2>2 DEF CurrentInv, TypeInv, KnownVersions
  <2>4. e # None
    BY <2>3, NoneAssumption DEF EntityUpTo, CurrentInv, TypeInv, KnownVersions
  <2> QED
    BY <2>3, <2>4, ShowsKeepsAnnounced DEF NothingMeansWaiting
<1>9. CASE Refresh \/ FetchFails
  <2>1. /\ UNCHANGED <<row, outbox, channel, event, lost, overtaken>>
        /\ page'.entity = page.entity /\ (page'.loading \/ page'.error)
    BY <1>9 DEF Refresh, FetchFails, Render, ErrorPage, server, socket, CurrentInv, TypeInv,
                KnownVersions
  <2> QED
    BY <2>1 DEF CurrentInv, LastIsAnnounced, NothingMeansWaiting
<1>10. CASE UNCHANGED <<row, outbox, channel, event, page, lost, overtaken>>
  BY <1>10 DEF CurrentInv, LastIsAnnounced, NothingMeansWaiting
<1>11. [Next]_vars => \/ Change \/ Perform \/ Announce \/ AnnounceOther \/ Disconnect
                      \/ Receive \/ EventEffect \/ Fetched \/ Performed \/ Refresh \/ FetchFails
                      \/ UNCHANGED <<row, outbox, channel, event, page, lost, overtaken>>
  BY DEF Next, Reconnect, Read, OpenDialog, CloseDialog, Submit, Refused, Line, Flush, OnTail,
         vars, server, socket
<1> QED
  BY <1>1, <1>2, <1>3, <1>4, <1>5, <1>6, <1>7, <1>8, <1>9, <1>10, <1>11

\* When nothing is on its way the page shows the row, whatever the order in
\* which events, answers and fetches came, unless one of the three exceptions
\* was noted.
THEOREM PageCatchesUp == Spec => []PageIsCurrent
<1>1. Init => CurrentInv
  <2> SUFFICES ASSUME Init PROVE CurrentInv
    OBVIOUS
  <2>1. TypeInv /\ LoadingEnds
    BY InitTypeInv, InitLoadingEnds
  <2>2. lost \in BOOLEAN /\ overtaken \in BOOLEAN
    BY DEF Init
  <2>3. ~(row > 0)
    BY DEF Init
  <2>4. page.loading
    BY Zenon DEF Init
  <2> QED
    BY <2>1, <2>2, <2>3, <2>4 DEF CurrentInv, LastIsAnnounced, NothingMeansWaiting
<1>2. CurrentInv => PageIsCurrent
  <2> SUFFICES ASSUME CurrentInv, Quiet, ~lost, ~overtaken, ~page.error
               PROVE  page.entity = [status |-> row, rest |-> row]
    BY DEF PageIsCurrent
  <2>1. CASE row > 0
    <3>1. row # None /\ channel = << >> /\ outbox = {} /\ event = None
      BY NoneAssumption DEF Quiet, CurrentInv, TypeInv, KnownVersions
    <3>2. Len(channel) = 0
      BY <3>1
    <3> QED
      BY <2>1, <3>1, <3>2 DEF CurrentInv, LastIsAnnounced
  <2>2. CASE row = 0
    <3>1. page.entity # None
      BY DEF Quiet, CurrentInv, LoadingEnds, NothingMeansWaiting
    <3>2. page.entity \in [status : 0 .. 0, rest : 0 .. 0]
      BY <2>2, <3>1 DEF CurrentInv, TypeInv, KnownVersions, EntityUpTo
    <3> QED
      BY <2>2, <3>2
  <2> QED
    BY <2>1, <2>2 DEF CurrentInv, TypeInv, KnownVersions
<1> QED
  BY <1>1, <1>2, NextCurrentInv, PTL DEF Spec

-----------------------------------------------------------------------------
(* The log tail.                                                           *)

\* TailIsLog line by line: of the lines received, the batch has the last, and
\* what is shown ends where the batch begins.
LogTail(received, pending, shown) ==
    LET flushed == Len(received) - Len(pending)
    IN  /\ Len(pending) <= Len(received)
        /\ \A i \in 1 .. Len(pending) : pending[i] = received[flushed + i]
        /\ Len(shown) = IF flushed < MAX_LOG_MESSAGES THEN flushed ELSE MAX_LOG_MESSAGES
        /\ \A i \in 1 .. Len(shown) : shown[i] = received[flushed - Len(shown) + i]

\* The first n elements of a sequence.
LEMMA PrefixOf ==
    ASSUME NEW s \in Seq(Nat), NEW n \in 0 .. Len(s)
    PROVE  /\ SubSeq(s, 1, n) \in Seq(Nat) /\ Len(SubSeq(s, 1, n)) = n
           /\ \A i \in 1 .. n : SubSeq(s, 1, n)[i] = s[i]
<1>1. \A i \in 1 .. n : s[i] \in Nat
  OBVIOUS
<1>2. /\ SubSeq(s, 1, n) \in Seq(Nat)
      /\ Len(SubSeq(s, 1, n)) = IF 1 <= n THEN n - 1 + 1 ELSE 0
      /\ \A i \in 1 .. n - 1 + 1 : SubSeq(s, 1, n)[i] = s[1 + i - 1]
  BY <1>1, SubSeqProperties
<1> QED
  BY <1>2

\* A suffix, element by element.
LEMMA SuffixByElement ==
    ASSUME NEW s \in Seq(Nat), NEW t \in Seq(Nat), Len(s) <= Len(t),
           \A i \in 1 .. Len(s) : s[i] = t[Len(t) - Len(s) + i]
    PROVE  IsSuffix(s, t)
<1> DEFINE rs == Reverse(s)
           rt == Reverse(t)
           n == Len(s)
<1>1. /\ rs \in Seq(Nat) /\ Len(rs) = n
      /\ \A i \in 1 .. n : rs[i] = s[(n - i) + 1]
  BY DEF Reverse
<1>2. /\ rt \in Seq(Nat) /\ Len(rt) = Len(t)
      /\ \A i \in 1 .. Len(t) : rt[i] = t[(Len(t) - i) + 1]
  BY DEF Reverse
<1>3. n \in Nat /\ Len(t) \in Nat /\ n \in 0 .. Len(t)
  OBVIOUS
<1> HIDE DEF rs, rt
<1>4. \A i \in 1 .. n : rs[i] = rt[i]
  <2> SUFFICES ASSUME NEW i \in 1 .. n PROVE rs[i] = rt[i]
    OBVIOUS
  <2>1. (n - i) + 1 \in 1 .. n /\ i \in 1 .. Len(t)
    OBVIOUS
  <2>2. s[(n - i) + 1] = t[Len(t) - n + ((n - i) + 1)]
    BY <2>1
  <2>3. Len(t) - n + ((n - i) + 1) = (Len(t) - i) + 1
    OBVIOUS
  <2> QED
    BY <1>1, <1>2, <2>1, <2>2, <2>3
<1> HIDE DEF n
<1>5. /\ SubSeq(rs, 1, n) \in Seq(Nat) /\ Len(SubSeq(rs, 1, n)) = n
      /\ \A i \in 1 .. n : SubSeq(rs, 1, n)[i] = rs[i]
  BY <1>1, <1>3, PrefixOf
<1>6. /\ SubSeq(rt, 1, n) \in Seq(Nat) /\ Len(SubSeq(rt, 1, n)) = n
      /\ \A i \in 1 .. n : SubSeq(rt, 1, n)[i] = rt[i]
  BY <1>2, <1>3, PrefixOf
<1>7. SubSeq(rs, 1, n) = SubSeq(rt, 1, n)
  BY <1>4, <1>5, <1>6, SeqEqual
<1> QED
  BY <1>1, <1>2, <1>3, <1>7 DEF IsSuffix, IsPrefix, rs, rt

\* Line by line, and in terms of suffixes.
LEMMA LogTailSuffixes ==
    ASSUME NEW R \in Seq(Nat), NEW P \in Seq(Nat), NEW H \in Seq(Nat), LogTail(R, P, H)
    PROVE  /\ IsSuffix(P, R)
           /\ LET F == SubSeq(R, 1, Len(R) - Len(P))
              IN  /\ IsSuffix(H, F)
                  /\ Len(H) = IF Len(F) < MAX_LOG_MESSAGES THEN Len(F) ELSE MAX_LOG_MESSAGES
<1> DEFINE n == Len(R) - Len(P)
           F == SubSeq(R, 1, n)
<1>1. n \in 0 .. Len(R)
  BY DEF LogTail
<1>2. Len(P) <= Len(R) /\ \A i \in 1 .. Len(P) : P[i] = R[n + i]
  BY Zenon DEF LogTail
<1>3. /\ Len(H) = IF n < MAX_LOG_MESSAGES THEN n ELSE MAX_LOG_MESSAGES
      /\ \A i \in 1 .. Len(H) : H[i] = R[n - Len(H) + i]
  BY Zenon DEF LogTail
<1>4. IsSuffix(P, R)
  BY <1>2, SuffixByElement
<1> HIDE DEF n
<1>5. F \in Seq(Nat) /\ Len(F) = n /\ \A i \in 1 .. n : F[i] = R[i]
  BY <1>1, PrefixOf
<1> HIDE DEF F
<1>6. Len(H) <= n /\ \A i \in 1 .. Len(H) : n - Len(H) + i \in 1 .. n
  BY <1>1, <1>3, BoundsAssumption
<1>7. \A i \in 1 .. Len(H) : H[i] = F[Len(F) - Len(H) + i]
  BY <1>3, <1>5, <1>6
<1>8. IsSuffix(H, F)
  BY <1>5, <1>6, <1>7, SuffixByElement
<1> QED
  BY <1>3, <1>4, <1>5, <1>8 DEF F, n

\* A line that is received waits in the batch.
LEMMA LineKeepsLog ==
    ASSUME NEW R \in Seq(Nat), NEW P \in Seq(Nat), NEW H \in Seq(Nat), LogTail(R, P, H),
           NEW l \in Nat
    PROVE  LogTail(Append(R, l), Append(P, l), H)
<1> DEFINE r == Append(R, l)
           p == Append(P, l)
           n == Len(R) - Len(P)
<1>1. /\ Len(r) = Len(R) + 1 /\ \A i \in 1 .. Len(R) : r[i] = R[i]
      /\ Len(p) = Len(P) + 1 /\ \A i \in 1 .. Len(P) : p[i] = P[i]
      /\ r[Len(R) + 1] = l /\ p[Len(P) + 1] = l
  BY AppendProperties
<1>2. Len(P) <= Len(R) /\ n \in Nat /\ n = Len(R) - Len(P)
  BY DEF LogTail
<1>3. \A i \in 1 .. Len(P) : P[i] = R[n + i]
  BY Zenon DEF LogTail
<1>4. /\ Len(H) = IF n < MAX_LOG_MESSAGES THEN n ELSE MAX_LOG_MESSAGES
      /\ \A i \in 1 .. Len(H) : H[i] = R[n - Len(H) + i]
  BY Zenon DEF LogTail
<1> HIDE DEF r, p, n
<1>5. Len(r) - Len(p) = n /\ Len(p) <= Len(r)
  BY <1>1, <1>2
<1>6. \A i \in 1 .. Len(p) : p[i] = r[n + i]
  <2> SUFFICES ASSUME NEW i \in 1 .. Len(p) PROVE p[i] = r[n + i]
    OBVIOUS
  <2>1. CASE i <= Len(P)
    <3>1. i \in 1 .. Len(P) /\ n + i \in 1 .. Len(R)
      BY <1>1, <1>2, <2>1
    <3> QED
      BY <1>1, <1>3, <3>1
  <2>2. CASE ~(i <= Len(P))
    <3>1. Len(P) \in Nat /\ Len(R) \in Nat /\ i \in 1 .. Len(P) + 1
      BY <1>1
    <3>2. i = Len(P) + 1
      BY <2>2, <3>1
    <3>3. n + i = Len(R) + 1
      BY <1>2, <3>1, <3>2
    <3> QED
      BY <1>1, <3>2, <3>3
  <2> QED
    BY <2>1, <2>2
<1>7. \A i \in 1 .. Len(H) : H[i] = r[n - Len(H) + i]
  <2> SUFFICES ASSUME NEW i \in 1 .. Len(H) PROVE H[i] = r[n - Len(H) + i]
    OBVIOUS
  <2>1. n - Len(H) + i \in 1 .. Len(R)
    <3>1. /\ Len(H) \in Nat /\ Len(R) \in Nat /\ Len(P) \in Nat
          /\ MAX_LOG_MESSAGES \in Nat
      BY BoundsAssumption
    <3>2. Len(H) <= n /\ n <= Len(R)
      BY <1>2, <1>4, <3>1
    <3> QED
      BY <1>2, <3>1, <3>2
  <2> QED
    BY <1>1, <1>4, <2>1
<1> QED
  BY <1>4, <1>5, <1>6, <1>7 DEF LogTail, r, p

\* The last lines of a list, as many as the tail keeps.
LEMMA KeptIsLast ==
    ASSUME NEW s \in Seq(Nat)
    PROVE  /\ Kept(s) \in Seq(Nat)
           /\ Len(Kept(s)) = IF Len(s) > MAX_LOG_MESSAGES THEN MAX_LOG_MESSAGES ELSE Len(s)
           /\ \A i \in 1 .. Len(Kept(s)) : Kept(s)[i] = s[Len(s) - Len(Kept(s)) + i]
<1> DEFINE m == Len(s) - MAX_LOG_MESSAGES + 1
           k == SubSeq(s, m, Len(s))
<1>1. MAX_LOG_MESSAGES \in Nat \ {0}
  BY BoundsAssumption
<1>2. CASE Len(s) > MAX_LOG_MESSAGES
  <2>1. m \in Int /\ Len(s) \in Int /\ m <= Len(s) /\ \A i \in m .. Len(s) : s[i] \in Nat
    BY <1>1, <1>2
  <2>2. /\ k \in Seq(Nat) /\ Len(k) = Len(s) - m + 1
        /\ \A i \in 1 .. Len(s) - m + 1 : k[i] = s[m + i - 1]
    <3> HIDE DEF m
    <3> QED
      BY <2>1, SubSeqProperties
  <2>3. Kept(s) = k
    BY <1>2 DEF Kept
  <2>4. Len(s) - m + 1 = MAX_LOG_MESSAGES
    BY <1>1
  <2>5. \A i \in 1 .. MAX_LOG_MESSAGES : m + i - 1 = Len(s) - MAX_LOG_MESSAGES + i
    BY <1>1
  <2> HIDE DEF k, m
  <2>6. Len(k) = MAX_LOG_MESSAGES /\ \A i \in 1 .. MAX_LOG_MESSAGES :
           k[i] = s[Len(s) - MAX_LOG_MESSAGES + i]
    BY <2>2, <2>4, <2>5
  <2> QED
    BY <1>2, <2>2, <2>3, <2>6
<1>3. CASE ~(Len(s) > MAX_LOG_MESSAGES)
  BY <1>3 DEF Kept
<1> QED
  BY <1>2, <1>3

\* The batch joins what is shown, of which the last lines are kept.
LEMMA FlushKeepsLog ==
    ASSUME NEW R \in Seq(Nat), NEW P \in Seq(Nat), NEW H \in Seq(Nat), LogTail(R, P, H)
    PROVE  Kept(H \o P) \in Seq(Nat) /\ LogTail(R, << >>, Kept(H \o P))
<1> DEFINE n == Len(R) - Len(P)
           s == H \o P
           k == Kept(s)
<1>1. MAX_LOG_MESSAGES \in Nat \ {0}
  BY BoundsAssumption
<1>2. Len(P) <= Len(R) /\ n \in Nat /\ n = Len(R) - Len(P)
  BY DEF LogTail
<1>3. \A i \in 1 .. Len(P) : P[i] = R[n + i]
  BY Zenon DEF LogTail
<1>4. /\ Len(H) = IF n < MAX_LOG_MESSAGES THEN n ELSE MAX_LOG_MESSAGES
      /\ \A i \in 1 .. Len(H) : H[i] = R[n - Len(H) + i]
  BY Zenon DEF LogTail
<1>5. /\ s \in Seq(Nat) /\ Len(s) = Len(H) + Len(P)
      /\ \A i \in 1 .. Len(H) + Len(P) : s[i] = IF i <= Len(H) THEN H[i] ELSE P[i - Len(H)]
  BY ConcatProperties
<1> HIDE DEF s, n
<1>6. /\ k \in Seq(Nat)
      /\ Len(k) = IF Len(s) > MAX_LOG_MESSAGES THEN MAX_LOG_MESSAGES ELSE Len(s)
      /\ \A i \in 1 .. Len(k) : k[i] = s[Len(s) - Len(k) + i]
  BY <1>5, KeptIsLast
<1> HIDE DEF k
<1>7. Len(s) <= Len(R)
  BY <1>1, <1>2, <1>4, <1>5
<1>8. \A i \in 1 .. Len(s) : s[i] = R[Len(R) - Len(s) + i]
  <2> SUFFICES ASSUME NEW i \in 1 .. Len(s) PROVE s[i] = R[Len(R) - Len(s) + i]
    OBVIOUS
  <2>1. Len(R) - Len(s) + i = n - Len(H) + i /\ i \in 1 .. Len(H) + Len(P)
    BY <1>2, <1>5
  <2>2. CASE i <= Len(H)
    <3>1. i \in 1 .. Len(H)
      BY <2>2
    <3> QED
      BY <1>4, <1>5, <2>1, <2>2, <3>1
  <2>3. CASE ~(i <= Len(H))
    <3>1. i - Len(H) \in 1 .. Len(P) /\ n + (i - Len(H)) = n - Len(H) + i
      BY <1>2, <2>1, <2>3
    <3>2. s[i] = P[i - Len(H)]
      BY <1>5, <2>1, <2>3
    <3> QED
      BY <1>3, <2>1, <3>1, <3>2
  <2> QED
    BY <2>2, <2>3
<1>9. Len(k) = IF Len(R) < MAX_LOG_MESSAGES THEN Len(R) ELSE MAX_LOG_MESSAGES
  <2>1. Len(R) \in Nat /\ Len(P) \in Nat /\ Len(H) \in Nat
    OBVIOUS
  <2>2. CASE n < MAX_LOG_MESSAGES
    BY <1>1, <1>2, <1>4, <1>5, <1>6, <2>1, <2>2
  <2>3. CASE ~(n < MAX_LOG_MESSAGES)
    <3>1. Len(s) = MAX_LOG_MESSAGES + Len(P) /\ ~(Len(R) < MAX_LOG_MESSAGES)
      BY <1>1, <1>2, <1>4, <1>5, <2>1, <2>3
    <3> QED
      BY <1>1, <1>6, <2>1, <3>1
  <2> QED
    BY <2>2, <2>3
<1>10. \A i \in 1 .. Len(k) : k[i] = R[Len(R) - Len(k) + i]
  <2> SUFFICES ASSUME NEW i \in 1 .. Len(k) PROVE k[i] = R[Len(R) - Len(k) + i]
    OBVIOUS
  <2>1. /\ Len(s) - Len(k) + i \in 1 .. Len(s)
        /\ Len(R) - Len(s) + (Len(s) - Len(k) + i) = Len(R) - Len(k) + i
    BY <1>1, <1>5, <1>6
  <2>2. k[i] = s[Len(s) - Len(k) + i]
    BY <1>6
  <2> QED
    BY <1>8, <2>1, <2>2
<1>11. Len(<< >>) <= Len(R) /\ Len(R) - Len(<< >>) = Len(R) /\ 1 .. Len(<< >>) = {}
  OBVIOUS
<1>12. LogTail(R, << >>, k)
  BY <1>9, <1>10, <1>11, Zenon DEF LogTail
<1> QED
  BY <1>6, <1>12 DEF k, s

TailType ==
    /\ lines \in Nat
    /\ tail \in [received : Seq(Nat), pending : Seq(Nat), shown : Seq(Nat),
                 timer : BOOLEAN, armed : BOOLEAN]

\* The timer's variable is set exactly while the timer runs.
TimerIsArmed == tail.timer = tail.armed /\ NoStrandedLine

TailInv ==
    /\ TailType /\ TimerIsArmed
    /\ LogTail(tail.received, tail.pending, tail.shown)

\* Content that is not there has no lines.
LEMMA NoTailInv ==
    ASSUME tail' = NoTail, lines' \in Nat
    PROVE  TailInv'
<1>1. TailType'
  BY DEF TailType, NoTail
<1>2. LogTail(<< >>, << >>, << >>)
  <2>1. Len(<< >>) = 0 /\ 0 < MAX_LOG_MESSAGES
    BY BoundsAssumption
  <2> QED
    BY <2>1 DEF LogTail
<1> QED
  BY <1>1, <1>2 DEF TailInv, TimerIsArmed, NoStrandedLine, NoTail

\* The page starts without a tail.
LEMMA InitTailInv == Init => TailInv
<1> SUFFICES ASSUME Init PROVE TailInv
  OBVIOUS
<1>1. TailType
  BY DEF Init, TailType, NoTail
<1>2. LogTail(<< >>, << >>, << >>)
  <2>1. Len(<< >>) = 0 /\ 0 < MAX_LOG_MESSAGES
    BY BoundsAssumption
  <2> QED
    BY <2>1 DEF LogTail
<1> QED
  BY <1>1, <1>2 DEF Init, TailInv, TimerIsArmed, NoStrandedLine, NoTail

\* A line, a flush, and whatever unmounts the content.
LEMMA NextTailInv == TailInv /\ [Next]_vars => TailInv'
<1> SUFFICES ASSUME TailInv, [Next]_vars PROVE TailInv'
  OBVIOUS
<1>1. /\ tail.received \in Seq(Nat) /\ tail.pending \in Seq(Nat) /\ tail.shown \in Seq(Nat)
      /\ tail.timer \in BOOLEAN /\ tail.armed \in BOOLEAN
      /\ LogTail(tail.received, tail.pending, tail.shown)
  BY DEF TailInv, TailType
<1>2. CASE Line
  <2> DEFINE r == Append(tail.received, lines')
             p == Append(tail.pending, lines')
  <2>1. lines' \in Nat
    BY <1>2 DEF Line, TailInv, TailType
  <2>2. tail' = [tail EXCEPT !.received = r, !.pending = p, !.timer = TRUE,
                             !.armed = @ \/ ~tail.timer]
    BY <1>2 DEF Line
  <2>3. (tail.armed \/ ~tail.timer) = TRUE
    BY <1>1 DEF TailInv, TimerIsArmed
  <2>4. tail' = [received |-> r, pending |-> p, shown |-> tail.shown,
                 timer |-> TRUE, armed |-> TRUE]
    BY <2>2, <2>3 DEF TailInv, TailType
  <2>5. r \in Seq(Nat) /\ p \in Seq(Nat)
    BY <1>1, <2>1
  <2>6. LogTail(r, p, tail.shown)
    BY <1>1, <2>1, LineKeepsLog
  <2> HIDE DEF r, p
  <2> QED
    BY <1>1, <2>1, <2>4, <2>5, <2>6 DEF TailInv, TailType, TimerIsArmed, NoStrandedLine
<1>3. CASE Flush
  <2> DEFINE k == Kept(tail.shown \o tail.pending)
  <2>1. tail' = [received |-> tail.received, pending |-> << >>, shown |-> k,
                 timer |-> FALSE, armed |-> FALSE]
    BY <1>3 DEF Flush, Flushed, TailInv, TailType
  <2>2. lines' \in Nat
    BY <1>3 DEF Flush, TailInv, TailType
  <2>3. k \in Seq(Nat) /\ LogTail(tail.received, << >>, k)
    BY <1>1, FlushKeepsLog
  <2> HIDE DEF k
  <2> QED
    BY <1>1, <2>1, <2>2, <2>3 DEF TailInv, TailType, TimerIsArmed, NoStrandedLine
<1>4. CASE tail' = NoTail /\ lines' = lines
  BY <1>4, NoTailInv DEF TailInv, TailType
<1>5. CASE UNCHANGED <<tail, lines>>
  BY <1>5 DEF TailInv, TailType, TimerIsArmed, NoStrandedLine
<1>6. [Next]_vars => \/ Line \/ Flush \/ (tail' = NoTail /\ lines' = lines)
                     \/ UNCHANGED <<tail, lines>>
  BY DEF Next, Change, Announce, AnnounceOther, Disconnect, Reconnect, Receive, EventEffect,
         Refresh, Read, Fetched, FetchFails, OpenDialog, CloseDialog, Submit, Perform,
         Performed, Refused, Render, vars, bounds
<1> QED
  BY <1>2, <1>3, <1>4, <1>5, <1>6

\* Whatever the length of the log and of the tail, batches lose, repeat and
\* reorder no line.
THEOREM TailShowsTheLog == Spec => []TailIsLog
<1>1. TailInv => TailIsLog
  BY LogTailSuffixes DEF TailInv, TailType, TailIsLog
<1> QED
  BY <1>1, InitTailInv, NextTailInv, PTL DEF Spec

\* Every line that waits has a timer that will show it.
THEOREM WaitingLinesAreFlushed == Spec => []NoStrandedLine
<1>1. TailInv => NoStrandedLine
  BY DEF TailInv, TimerIsArmed
<1> QED
  BY <1>1, InitTailInv, NextTailInv, PTL DEF Spec
=============================================================================
