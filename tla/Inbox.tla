---------------------------------- MODULE Inbox ----------------------------------
(***************************************************************************)
(* The notifications on record and the app's paged view of them: one view, *)
(* whose requests overlap, are cancelled, fail and are answered late, over *)
(* a store that the dispatcher, the retention sweep and other clients      *)
(* change meanwhile.  A notification is its id; ids grow with created_on.  *)
(***************************************************************************)
EXTENDS Ordering, FiniteSetsExt, SequencesExt

CONSTANTS
    None,
    MaxId,          \* bound: ids of notifications
    OnRecord,       \* unread notifications on record when the app is opened
    PageSize,       \* phonePageSize, widePageSize
    MaxInFlight,    \* bound: list requests not yet answered or dropped
    MaxChanges      \* bound: what users, dispatcher and sweep do altogether

ASSUME InboxAssumption ==
    /\ MaxId \in Nat \ {0} /\ OnRecord \in 0..MaxId
    /\ PageSize \in Nat \ {0}
    /\ MaxChanges \in Nat

Filter == {"new", "old", "all"}

VARIABLES
    store,      \* table notifications: is_new of the ids on record
    requests,   \* GET /api/notifications; current: its token is fetchToken
    mark,       \* the one request to mark as read or new that is under way
    app,        \* the fields of the two State classes
    visible,    \* the refresh timer runs
    changes     \* how much has happened

vars == <<store, requests, mark, app, visible, changes>>

Id == 1..MaxId
Item == [id: Id, is_new: BOOLEAN]
Listing == BoundedSeq(Item, PageSize)

Request ==
    [current: BOOLEAN, filter: Filter, page: 0..MaxId,
     why: {"reset", "turn", "refresh"}, stage: {"sent", "listed", "answered"},
     items: Listing, total: 0..MaxId]
Mark ==
    [kind: {"read", "new", "all"}, id: Id, stage: {"sent", "flagged", "done", "failed"}]
App ==
    [filter: Filter, page: 0..MaxId, total: 0..MaxId, items: Listing,
     loading: BOOLEAN, error: BOOLEAN]

TypeOK ==
    /\ store \in UNION {[S -> BOOLEAN] : S \in SUBSET Id}
    /\ requests \subseteq Request
    /\ Cardinality({r \in requests : r.current}) <= 1
    /\ mark \in Mark \cup {None}
    /\ app \in App
    /\ visible \in BOOLEAN
    /\ changes \in 0..MaxChanges

FetchOf(filter, page, why) ==
    [current |-> TRUE, filter |-> filter, page |-> page, why |-> why,
     stage |-> "sent", items |-> <<>>, total |-> 0]

Init ==
    /\ store = [id \in 1..OnRecord |-> TRUE]
    /\ requests = {FetchOf("new", 0, "reset")}
    /\ mark = None
    /\ app = [filter |-> "new", page |-> 0, total |-> 0, items |-> <<>>,
              loading |-> TRUE, error |-> FALSE]
    /\ visible = TRUE
    /\ changes = 0

Change == changes < MaxChanges /\ changes' = changes + 1
-----------------------------------------------------------------------------
(***************************************************************************)
(* The table.                                                              *)
(***************************************************************************)
Selected(filter) == {id \in DOMAIN store : filter # "all" => store[id] = (filter = "new")}

ListPage(filter, page) ==
    LET ids == Descending(Selected(filter))
        shown == SubSeq(ids, page * PageSize + 1, Min({(page + 1) * PageSize, Len(ids)}))
    IN  [i \in DOMAIN shown |-> [id |-> shown[i], is_new |-> store[shown[i]]]]

Count(filter) == Cardinality(Selected(filter))

Flag(ids, is_new) == store' = [id \in DOMAIN store |-> IF id \in ids THEN is_new ELSE store[id]]

(* SQLite gives a row the greatest id on record plus one. *)
Insert ==
    /\ Change
    /\ LET id == Max(DOMAIN store \cup {0}) + 1
       IN  id <= MaxId /\ store' = [k \in DOMAIN store \cup {id} |-> k = id \/ store[k]]
    /\ UNCHANGED <<requests, mark, app, visible>>

PurgeOldest ==
    /\ Change
    /\ DOMAIN store # {}
    /\ store' = [k \in DOMAIN store \ {Min(DOMAIN store)} |-> store[k]]
    /\ UNCHANGED <<requests, mark, app, visible>>

(* Another client of the API. *)
OtherClient ==
    /\ Change
    /\ \E ids \in {{id} : id \in DOMAIN store}, is_new \in BOOLEAN : Flag(ids, is_new)
    /\ UNCHANGED <<requests, mark, app, visible>>

(* The handler's two statements, with anything in between. *)
Lists(r) ==
    /\ r.stage = "sent"
    /\ requests' = (requests \ {r})
           \cup {[r EXCEPT !.stage = "listed", !.items = ListPage(r.filter, r.page)]}
    /\ UNCHANGED <<store, mark, app, visible, changes>>

Counts(r) ==
    /\ r.stage = "listed"
    /\ requests' = (requests \ {r})
           \cup {[r EXCEPT !.stage = "answered", !.total = Count(r.filter)]}
    /\ UNCHANGED <<store, mark, app, visible, changes>>

(* mark_as_old and mark_as_new of a row that is gone change nothing. *)
Flags ==
    /\ mark # None /\ mark.stage = "sent"
    /\ Flag(IF mark.kind = "all" THEN DOMAIN store ELSE {mark.id}, mark.kind = "new")
    /\ mark' = [mark EXCEPT !.stage = IF mark.kind = "read" THEN "flagged" ELSE "done"]
    /\ UNCHANGED <<requests, app, visible, changes>>

(* GET /api/notifications/{id} flags first and reads then: 404. *)
ReadsBack ==
    /\ mark # None /\ mark.stage = "flagged"
    /\ mark' = [mark EXCEPT !.stage = IF mark.id \in DOMAIN store THEN "done" ELSE "failed"]
    /\ UNCHANGED <<store, requests, app, visible, changes>>

(* No answer: the statement may have been executed. *)
MarkFails ==
    /\ mark # None /\ mark.stage # "failed"
    /\ mark' = [mark EXCEPT !.stage = "failed"]
    /\ UNCHANGED <<store, requests, app, visible, changes>>
-----------------------------------------------------------------------------
(***************************************************************************)
(* Fetching a page.                                                        *)
(***************************************************************************)
(* The token of the request under way is cancelled, and the request with it,
   unless its answer has arrived already: that may still be delivered. *)
Superseded ==
    {[r EXCEPT !.current = FALSE] : r \in {q \in requests : q.stage = "answered"}}

Fetch(view, page, why) ==
    /\ Cardinality(requests) < MaxInFlight
    /\ requests' = Superseded \cup {FetchOf(view.filter, page, why)}
    /\ app' = [view EXCEPT !.loading = (view.items = <<>>), !.error = FALSE]

IdsOf(rows) == {n.id : n \in ToSet(rows)}

(* The rows with some ids, in their order. *)
Kept(rows, ids) == Elements(rows, {i \in DOMAIN rows : rows[i].id \in ids})

(* The rows that stay, each as it has just come. *)
Updated(rows, incoming) ==
    LET kept == Kept(rows, IdsOf(incoming))
    IN  [k \in DOMAIN kept |-> CHOOSE n \in ToSet(incoming) : n.id = kept[k].id]

(* The rows after the first i that came have been looked at: each that is new is
   inserted at the place it has in what came, or at the end. *)
Place(rows, incoming, i) ==
    IF incoming[i].id \in IdsOf(rows) THEN rows
    ELSE InsertAt(rows, Min({i, Len(rows) + 1}), incoming[i])

Merge(rows, incoming) ==
    LET merged[i \in 0..Len(incoming)] ==
          IF i = 0 THEN rows ELSE Place(merged[i - 1], incoming, i)
    IN  merged[Len(incoming)]

(* Mutant: a row that stays is left as it is. *)
ReconcileAsShown(items, incoming) == Merge(Kept(items, IdsOf(incoming)), incoming)

(* Mutant: whatever arrived is put on top. *)
ReconcileOnTop(items, incoming) ==
    LET known == Updated(items, incoming)
    IN  Reverse(Kept(incoming, IdsOf(incoming) \ IdsOf(known))) \o known

(* Rows that are gone leave, the others take over what came, and each new row is
   inserted. *)
Reconcile(items, incoming) == Merge(Updated(items, incoming), incoming)

(* A refresh merges into the rows that are shown; all else replaces them. *)
Applied(r) ==
    [app EXCEPT !.page = r.page, !.total = r.total, !.loading = FALSE,
        !.items = IF r.why = "refresh" /\ ~app.loading THEN Reconcile(app.items, r.items)
                  ELSE r.items]

(* Mutant: an answer is shown whether or not it has been superseded. *)
LateToo(r) == TRUE

Accepted(r) == r.current

Answered(r) ==
    /\ r.stage = "answered"
    /\ requests' = requests \ {r}
    /\ app' = IF Accepted(r) THEN Applied(r) ELSE app
    /\ UNCHANGED <<store, mark, visible, changes>>

(* No answer, or an error: the rows stay, and the error is shown instead. *)
Failed(r) ==
    /\ r.current
    /\ requests' = requests \ {r}
    /\ app' = [app EXCEPT !.error = TRUE, !.loading = FALSE]
    /\ UNCHANGED <<store, mark, visible, changes>>

Cancelled(r) ==
    /\ ~r.current
    /\ requests' = requests \ {r}
    /\ UNCHANGED <<store, mark, app, visible, changes>>
-----------------------------------------------------------------------------
(***************************************************************************)
(* What the user and the timer do.                                         *)
(***************************************************************************)
(* The timer, or pulling the list down. *)
Refresh ==
    /\ visible
    /\ Fetch(app, app.page, "refresh")
    /\ UNCHANGED <<store, mark, visible, changes>>

(* The app is paused, or another screen covers the list. *)
Leave ==
    /\ visible /\ visible' = FALSE
    /\ Change
    /\ UNCHANGED <<store, requests, mark, app>>

Return ==
    /\ ~visible /\ visible' = TRUE
    /\ Fetch(app, app.page, "refresh")
    /\ UNCHANGED <<store, mark, changes>>

SelectFilter ==
    /\ visible /\ Change
    /\ \E f \in Filter : Fetch([app EXCEPT !.filter = f], 0, "reset")
    /\ UNCHANGED <<store, mark, visible>>

RowsShown == visible /\ ~app.loading /\ ~app.error /\ app.items # <<>>

TotalPages == Max({1, (app.total + PageSize - 1) \div PageSize})

(* First and previous, next and last, unless a page is being turned already. *)
TurnPage ==
    /\ RowsShown /\ Change
    /\ ~\E r \in requests : r.current /\ r.why = "turn"
    /\ \E page \in {p \in {0, app.page - 1} : app.page > 0}
                   \cup {p \in {app.page + 1, TotalPages - 1} : app.page < TotalPages - 1} :
           Fetch(app, page, "turn")
    /\ UNCHANGED <<store, mark, visible>>

MarkOne ==
    /\ RowsShown /\ mark = None /\ Change
    /\ \E i \in DOMAIN app.items :
           mark' = [kind |-> IF app.items[i].is_new THEN "read" ELSE "new",
                    id |-> app.items[i].id, stage |-> "sent"]
    /\ UNCHANGED <<store, requests, app, visible>>

MarkAllAsRead ==
    /\ visible /\ app.filter = "new" /\ app.items # <<>> /\ mark = None /\ Change
    /\ mark' = [kind |-> "all", id |-> 1, stage |-> "sent"]
    /\ UNCHANGED <<store, requests, app, visible>>

(* Mutant: the total is not checked before it is counted down. *)
RemoveUnchecked(id) ==
    [app EXCEPT !.items = Kept(@, Id \ {id}), !.total = @ - 1]

(* onRemove: the card of a row that a refresh has removed still counts it out. *)
RemoveAndSettle(id) ==
    [app EXCEPT !.items = Kept(@, Id \ {id}),
                !.total = Max({@ - 1, 0})]

SetIsNew(id, is_new) ==
    [app EXCEPT !.items = [i \in DOMAIN @ |->
        IF @[i].id = id THEN [@[i] EXCEPT !.is_new = is_new] ELSE @[i]]]

(* The filter that is selected NOW decides whether the row leaves the list; a
   row that has been swiped is not counted out once it is gone. *)
MarkAnswered ==
    /\ mark # None /\ mark.stage = "done"
    /\ mark' = None
    /\ IF mark.kind = "all"
       THEN Fetch(app, app.page, "refresh")
       ELSE /\ \/ app.filter = "all" /\ app' = SetIsNew(mark.id, mark.kind = "new")
               \/ app.filter # "all" /\ app' = RemoveAndSettle(mark.id)
               \/ /\ app.filter # "all" /\ mark.id \notin IdsOf(app.items)
                  /\ app' = app
            /\ requests' = requests
    /\ UNCHANGED <<store, visible, changes>>

MarkAnsweredWithError ==
    /\ mark # None /\ mark.stage = "failed"
    /\ mark' = None
    /\ UNCHANGED <<store, requests, app, visible, changes>>
-----------------------------------------------------------------------------
Serve == \E r \in requests : Lists(r) \/ Counts(r)

Next ==
    \/ Insert \/ PurgeOldest \/ OtherClient
    \/ \E r \in requests :
           Lists(r) \/ Counts(r) \/ Answered(r) \/ Failed(r) \/ Cancelled(r)
    \/ Flags \/ ReadsBack \/ MarkFails \/ MarkAnswered \/ MarkAnsweredWithError
    \/ Refresh \/ Leave \/ Return
    \/ SelectFilter \/ TurnPage \/ MarkOne \/ MarkAllAsRead

Spec == Init /\ [][Next]_vars

(* The timer ticks once a minute; a request takes less, and is not failed by the
   network for ever.  A cancelled request ends, and so does a request to mark. *)
FairSpec ==
    /\ Spec
    /\ WF_vars(Refresh)
    /\ SF_vars(\E r \in requests : r.current /\ Lists(r))
    /\ SF_vars(\E r \in requests : r.current /\ Counts(r))
    /\ SF_vars(\E r \in requests : r.current /\ Answered(r))
    /\ WF_vars(\E r \in requests : Cancelled(r))
    /\ WF_vars(Flags \/ ReadsBack \/ MarkAnswered \/ MarkAnsweredWithError)
-----------------------------------------------------------------------------
(***************************************************************************)
(* Properties.                                                             *)
(***************************************************************************)
(* Once no request is under way and no error is shown, the rows belong to the
   filter that is selected: an answer to a request made before the filter was
   changed is never shown, however late it comes, and a mark that is answered
   after the filter was changed leaves no row that does not belong
   (paginated_list_state.dart:70, notifications_list.dart:206). *)
SettledShowsFilter ==
    /\ ~app.error
    /\ app.filter # "all"
    /\ \A r \in requests : ~r.current
    => \A i \in DOMAIN app.items : app.items[i].is_new = (app.filter = "new")

(* Whatever refreshes, removals and page turns overlap, the rows are shown newest
   first, none twice: merging an answer row by row gives what replacing the list
   would (notifications_list.dart:280). *)
NewestFirst ==
    \A i, j \in DOMAIN app.items : i < j => app.items[i].id > app.items[j].id

(* When the list stays in view and users, dispatcher and sweep leave the rest
   alone, it comes to show what is on record for its filter and page, and the
   total: nothing that was lost, cancelled, answered late or removed by hand on
   the way stays wrong for good (notifications_list.dart:118). *)
ListConverges ==
    <>[]visible =>
        <>[](/\ app.items = ListPage(app.filter, app.page)
             /\ app.total = Count(app.filter))
=============================================================================
