-------------------------------- MODULE Outbox --------------------------------
(***************************************************************************)
(* The domain-event outbox (packages/booking-engine/src/events.ts): each   *)
(* operation of the booking runner inserts one booking_event row in its    *)
(* transaction, hands the event to the sink after the commit and stamps    *)
(* published_at; the worker's sweep does the same for the rows an earlier  *)
(* dispatch left unstamped, the oldest first.  Several worker processes    *)
(* may sweep, and a process may die between any two of its statements.     *)
(*                                                                         *)
(* One step is one statement against the tenant database or one call of    *)
(* the sink.  occurred_at is the instant the transaction began, so a row   *)
(* may appear later than a younger one.                                    *)
(***************************************************************************)
EXTENDS Integers, FiniteSets

CONSTANTS
    Events,      \* booking_event rows, one for each operation of the runner
    Poison,      \* those the sink never takes
    Workers,     \* worker processes that sweep this tenant
    Limit,       \* rows one sweep takes
    Age,         \* age from which a row is the sweep's (OUTBOX_REDELIVERY_AGE_MS)
    None,        \* SQL null, or no event in hand
    Horizon,     \* bound: the last instant a transaction begins
    MaxFaults    \* bound: deaths, database errors, refusals and lost answers

ASSUME EventsAssumption == Poison \subseteq Events /\ None \notin Events
ASSUME LimitAssumption == Limit \in Nat \ {0} /\ Age \in Nat
ASSUME BoundAssumption == Horizon \in Nat /\ MaxFaults \in Nat /\ None \notin Int

VARIABLES
    now,
    occurred,    \* occurred_at of each event, None before its transaction
    committed,   \* rows that are visible
    published,   \* published_at of each row
    inline,      \* the operation that emits each event
    pass,        \* the redelivery sweep of each worker
    told,        \* events the sink accepted from their own operation
    gave,        \* how often it accepted each from each sweep (two stand for more)
    lost,        \* events accepted by the sink whose stamp then failed
    faults

vars == <<now, occurred, committed, published, inline, pass, told, gave, lost, faults>>

Time == 0..(Horizon + Age)

Passes ==
    [pc     : {"idle", "loading", "publishing", "stamping"},
     cutoff : Int,
     todo   : SUBSET Events,
     hand   : Events \union {None}]

NoPass == [pc |-> "idle", cutoff |-> 0, todo |-> {}, hand |-> None]

Fault == faults < MaxFaults /\ faults' = faults + 1

\* The sink's answer to e, delivered or not, positive or not.
Refuses(e) == IF e \in Poison THEN UNCHANGED faults ELSE Fault
-----------------------------------------------------------------------------
(* An operation of the runner and its dispatch                             *)

Begin(e) ==
    /\ inline[e] = "idle" /\ now <= Horizon
    /\ inline' = [inline EXCEPT ![e] = "begun"]
    /\ occurred' = [occurred EXCEPT ![e] = now]
    /\ UNCHANGED <<now, committed, published, pass, told, gave, lost, faults>>

Commit(e) ==
    /\ inline[e] = "begun"
    /\ inline' = [inline EXCEPT ![e] = "publishing"]
    /\ committed' = committed \union {e}
    /\ UNCHANGED <<now, occurred, published, pass, told, gave, lost, faults>>

\* A publication that throws is contained: the operation answers all the same.
Publish(e) ==
    /\ inline[e] = "publishing"
    /\ \/ /\ inline' = [inline EXCEPT ![e] = "answered"]
          /\ Refuses(e)
          /\ UNCHANGED <<told, lost>>
       \/ /\ e \notin Poison
          /\ told' = told \union {e}
          /\ \/ /\ inline' = [inline EXCEPT ![e] = "stamping"]
                /\ UNCHANGED <<lost, faults>>
             \/ /\ inline' = [inline EXCEPT ![e] = "answered"]
                /\ lost' = lost \union {e}
                /\ Fault
    /\ UNCHANGED <<now, occurred, committed, published, pass, gave>>

Stamp(e) ==
    published' = [published EXCEPT ![e] = IF @ = None THEN now ELSE @]

InlineStamp(e) ==
    /\ inline[e] = "stamping"
    /\ Stamp(e)
    /\ inline' = [inline EXCEPT ![e] = "answered"]
    /\ UNCHANGED <<now, occurred, committed, pass, told, gave, lost, faults>>

\* The process dies or a statement fails: before the commit nothing remains of
\* the operation, after it the caller is told of an error, or of nothing.
InlineStops(e) ==
    /\ inline[e] \in {"begun", "publishing", "stamping"}
    /\ inline' = [inline EXCEPT ![e] = "stopped"]
    /\ lost' = IF inline[e] = "stamping" THEN lost \union {e} ELSE lost
    /\ Fault
    /\ UNCHANGED <<now, occurred, committed, published, pass, told, gave>>
-----------------------------------------------------------------------------
(* republishUnpublished                                                    *)

\* The cutoff is computed before the connection to the tenant is opened.
SweepStart(w) ==
    /\ pass[w].pc = "idle"
    /\ pass' = [pass EXCEPT ![w].pc = "loading", ![w].cutoff = now - Age]
    /\ UNCHANGED <<now, occurred, committed, published, inline, told, gave, lost, faults>>

DueDespiteStamp(e, cutoff) == e \in committed /\ occurred[e] <= cutoff    \* mutant

Due(e, cutoff) ==
    e \in committed /\ published[e] = None /\ occurred[e] <= cutoff

Older(e, f) == occurred[e] < occurred[f]

\* ORDER BY occurred_at LIMIT: no row left out is older than one taken.
Batches(cutoff) ==
    LET due == {e \in Events : Due(e, cutoff)}
    IN  {batch \in SUBSET due :
            /\ Cardinality(batch) <= Limit
            /\ Cardinality(batch) = Limit \/ batch = due
            /\ \A e \in due \ batch, f \in batch : ~Older(e, f)}

SweepLoad(w) ==
    /\ pass[w].pc = "loading"
    /\ \E batch \in Batches(pass[w].cutoff) :
          pass' = [pass EXCEPT
              ![w].pc = "publishing", ![w].cutoff = 0, ![w].todo = batch]
    /\ UNCHANGED <<now, occurred, committed, published, inline, told, gave, lost, faults>>

\* The rows of the batch are taken in the order of the query.
Oldest(w) == {e \in pass[w].todo : \A f \in pass[w].todo : ~Older(f, e)}

\* The pass drops e from its batch, or keeps it in hand to stamp it.
Skip(w, e) == pass' = [pass EXCEPT ![w].todo = @ \ {e}]

Take(w, e) ==
    pass' = [pass EXCEPT ![w].pc = "stamping", ![w].todo = @ \ {e}, ![w].hand = e]

Counted(w, e) == gave' = [gave EXCEPT ![w][e] = IF @ < 2 THEN @ + 1 ELSE @]

SweepRefusedBreaks(w, e) ==                                          \* mutant
    /\ Refuses(e)
    /\ pass' = [pass EXCEPT ![w].todo = {}]
    /\ UNCHANGED <<gave, lost>>

\* A publication that throws leaves the row to a later sweep.
SweepRefused(w, e) ==
    /\ Refuses(e)
    /\ Skip(w, e)
    /\ UNCHANGED <<gave, lost>>

SweepAccepted(w, e) ==
    /\ e \notin Poison
    /\ Counted(w, e)
    /\ \/ Take(w, e) /\ UNCHANGED <<lost, faults>>
       \/ Skip(w, e) /\ lost' = lost \union {e} /\ Fault

SweepPublish(w) ==
    /\ pass[w].pc = "publishing"
    /\ \E e \in Oldest(w) : SweepRefused(w, e) \/ SweepAccepted(w, e)
    /\ UNCHANGED <<now, occurred, committed, published, inline, told>>

SweepStamp(w) ==
    /\ pass[w].pc = "stamping"
    /\ Stamp(pass[w].hand)
    /\ pass' = [pass EXCEPT ![w].pc = "publishing", ![w].hand = None]
    /\ UNCHANGED <<now, occurred, committed, inline, told, gave, lost, faults>>

SweepEnd(w) ==
    /\ pass[w].pc = "publishing" /\ pass[w].todo = {}
    /\ pass' = [pass EXCEPT ![w] = NoPass]
    /\ UNCHANGED <<now, occurred, committed, published, inline, told, gave, lost, faults>>

\* The worker dies or a statement fails: the rest of the batch is left.
SweepStops(w) ==
    /\ pass[w].pc # "idle"
    /\ pass' = [pass EXCEPT ![w] = NoPass]
    /\ lost' = IF pass[w].pc = "stamping" THEN lost \union {pass[w].hand} ELSE lost
    /\ Fault
    /\ UNCHANGED <<now, occurred, committed, published, inline, told, gave>>
-----------------------------------------------------------------------------
Tick ==
    /\ now < Horizon + Age
    /\ now' = now + 1
    /\ UNCHANGED <<occurred, committed, published, inline, pass, told, gave, lost, faults>>

Init ==
    /\ now = 0
    /\ occurred = [e \in Events |-> None]
    /\ committed = {}
    /\ published = [e \in Events |-> None]
    /\ inline = [e \in Events |-> "idle"]
    /\ pass = [w \in Workers |-> NoPass]
    /\ told = {}
    /\ gave = [w \in Workers |-> [e \in Events |-> 0]]
    /\ lost = {}
    /\ faults = 0

Operation(e) == Begin(e) \/ Commit(e) \/ Publish(e) \/ InlineStamp(e) \/ InlineStops(e)

SweepStep(w) ==
    \/ SweepStart(w) \/ SweepLoad(w) \/ SweepPublish(w) \/ SweepStamp(w) \/ SweepEnd(w)

Next ==
    \/ Tick
    \/ \E e \in Events : Operation(e)
    \/ \E w \in Workers : SweepStep(w) \/ SweepStops(w)

Spec == Init /\ [][Next]_vars
-----------------------------------------------------------------------------
\* Rows, operations and passes have their types; a pass has a row in hand
\* exactly while its next statement stamps it.
TypeOK ==
    /\ now \in Time
    /\ occurred \in [Events -> Time \union {None}]
    /\ committed \subseteq Events
    /\ published \in [Events -> Time \union {None}]
    /\ inline \in [Events -> {"idle", "begun", "publishing", "stamping", "answered", "stopped"}]
    /\ pass \in [Workers -> Passes]
    /\ told \subseteq Events
    /\ gave \in [Workers -> [Events -> 0..2]]
    /\ lost \subseteq Events
    /\ faults \in 0..MaxFaults
    /\ \A w \in Workers : pass[w].pc = "stamping" <=> pass[w].hand # None

\* An event is stamped only after a consumer took it, whoever stamps it and
\* whoever published it: dispatch leaves the row of a publication that threw.
StampedMeansReceived ==
    \A e \in Events :
        published[e] # None => e \in told \/ \E w \in Workers : gave[w][e] > 0

\* One worker hands an event to the sink twice only if a stamp of that event
\* failed: a sweep never starts again with what an earlier one finished, however
\* many sweeps and dispatches publish it at the same time.
NoRepeatWithoutLoss ==
    \A w \in Workers, e \in Events : gave[w][e] > 1 => e \in lost

\* Of the dispatches racing for an event the first to stamp it wins:
\* published_at is the instant of the first publication that was recorded.
StampIsKept ==
    [][\A e \in Events : published[e] # None => published'[e] = published[e]]_vars

\* At-least-once delivery: a committed event that the sink can take is stamped
\* at last, although its own dispatch died or failed, and although events that
\* always fail are ahead of it -- as long as those do not fill a sweep.
EveryEventArrives ==
    Cardinality(Poison) < Limit =>
        \A e \in Events \ Poison : e \in committed ~> published[e] # None
=============================================================================
