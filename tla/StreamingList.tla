----------------------------- MODULE StreamingList -----------------------------
(***************************************************************************)
(* The list of the UI kit that shows a search while it streams             *)
(* (packages/ui/src/widgets): the reducer of streaming.ts, which folds the *)
(* events of a stream into a state, and what StreamingList.tsx renders of  *)
(* it.  A lane is a supplier of the search.  Labels and layout are left    *)
(* out; an item is known by its lane and its place among the lane's.       *)
(***************************************************************************)
EXTENDS Integers, Sequences, SequencesExt

\* initialStreamingListState
InitialList == [lanes |-> <<>>, items |-> <<>>, completion |-> "streaming"]

PendingLane(id) == [id |-> id, status |-> "pending", itemCount |-> 0, failureKind |-> "none"]

\* What an event changes of its lane.
Patched(lane, event) ==
    IF event.type = "lane_results"
    THEN [lane EXCEPT !.status = "results", !.itemCount = Len(event.items)]
    ELSE [lane EXCEPT !.status = "failed", !.failureKind = event.kind]

AppendLane(lanes, event) ==                                          \* mutant
    Append(lanes, Patched(PendingLane(event.laneId), event))

\* A lane the started frame never announced still shows up.
UpsertLane(lanes, event) ==
    IF \E i \in DOMAIN lanes : lanes[i].id = event.laneId
    THEN [i \in DOMAIN lanes |->
             IF lanes[i].id = event.laneId THEN Patched(lanes[i], event) ELSE lanes[i]]
    ELSE Append(lanes, Patched(PendingLane(event.laneId), event))

Started(event) ==
    [InitialList EXCEPT !.lanes = [i \in DOMAIN event.laneIds |-> PendingLane(event.laneIds[i])]]

\* streamingListReducer
StreamingListReducer(list, event) ==
    CASE event.type = "started" -> Started(event)
      [] event.type = "lane_results" ->
            [list EXCEPT !.lanes = UpsertLane(@, event), !.items = @ \o event.items]
      [] event.type = "lane_failed" -> [list EXCEPT !.lanes = UpsertLane(@, event)]
      [] event.type = "completed" -> [list EXCEPT !.completion = event.status]
      [] event.type = "stream_failed" -> [list EXCEPT !.completion = "failed"]

\* The application's part, which feeds the frames it was sent to the reducer.
EventOfFrame(frame) ==
    CASE frame.type = "search.started" ->
            [type |-> "started", laneIds |-> SetToSeq(frame.suppliers)]
      [] frame.type = "supplier.results" ->
            [type |-> "lane_results", laneId |-> frame.supplier,
             items |-> [i \in 1 .. frame.answer.offers |-> <<frame.supplier, i>>]]
      [] frame.type = "supplier.failed" ->
            [type |-> "lane_failed", laneId |-> frame.supplier, kind |-> frame.kind]
      [] frame.type = "search.completed" ->
            [type |-> "completed", status |-> frame.status]
      [] frame.type = "search.failed" -> [type |-> "stream_failed"]

ListAfter(frames) ==
    FoldLeft(LAMBDA list, frame : StreamingListReducer(list, EventOfFrame(frame)),
             InitialList, frames)
-----------------------------------------------------------------------------
(* StreamingList.tsx                                                       *)

\* The number on the chip of a lane; only one that answered has any.
LaneChip(lane) ==
    [id |-> lane.id, look |-> lane.status,
     count |-> IF lane.status = "results" THEN lane.itemCount ELSE 0]

Render(list) ==
    LET streaming == list.completion = "streaming"
        done == ~streaming
    IN  [chips |-> [i \in DOMAIN list.lanes |-> LaneChip(list.lanes[i])],
         progress |-> streaming,
         warning |-> list.completion = "budget_exhausted",
         error |-> list.completion = "failed",
         items |-> list.items,
         empty |-> done /\ list.completion # "failed" /\ list.items = <<>>]
=============================================================================
