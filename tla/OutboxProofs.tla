----------------------------- MODULE OutboxProofs -----------------------------
(***************************************************************************)
(* Proofs about the outbox: for any number of events, workers and faults,  *)
(* a stamp is evidence of a delivery, the first stamp stays, and a worker  *)
(* repeats a delivery only when the stamp of the earlier one failed.       *)
(***************************************************************************)
EXTENDS Outbox, TLAPS

\* Strengthening of StampedMeansReceived: the sink's answer precedes the UPDATE.
ReceivedInv ==
    /\ StampedMeansReceived
    /\ \A e \in Events : inline[e] = "stamping" => e \in told
    /\ \A w \in Workers : pass[w].pc = "stamping" => gave[w][pass[w].hand] > 0

\* Strengthening of NoRepeatWithoutLoss: what a worker delivered without a loss
\* is stamped or about to be, so its next batch cannot hold it.
RepeatInv ==
    \A w \in Workers, e \in Events :
        /\ gave[w][e] > 0 => e \in lost \/ published[e] # None \/ pass[w].hand = e
        /\ gave[w][e] > 1 => e \in lost
        /\ e \in pass[w].todo => e \in lost \/ gave[w][e] = 0

IInv == TypeOK /\ ReceivedInv /\ RepeatInv

StampsKept == \A e \in Events : published[e] # None => published'[e] = published[e]

Kept == IInv' /\ StampsKept
-----------------------------------------------------------------------------
(* The initial states satisfy the invariant.                               *)
LEMMA InitInv == Init => IInv
<1> SUFFICES ASSUME Init PROVE IInv
    OBVIOUS
<1>1. NoPass \in Passes /\ NoPass.pc = "idle" /\ NoPass.hand = None /\ NoPass.todo = {}
    BY DEF NoPass, Passes
<1>2. TypeOK
    BY <1>1, BoundAssumption, LimitAssumption DEF Init, TypeOK, Time
<1>3. ReceivedInv
    BY <1>1 DEF Init, ReceivedInv, StampedMeansReceived
<1>4. RepeatInv
    BY <1>1 DEF Init, RepeatInv
<1> QED BY <1>2, <1>3, <1>4 DEF IInv

(* A fault, or its absence, keeps the count within its bound.              *)
LEMMA FaultsTyped ==
    ASSUME TypeOK
    PROVE  /\ Fault => faults' \in 0..MaxFaults
           /\ \A e : Refuses(e) => faults' \in 0..MaxFaults
BY BoundAssumption DEF TypeOK, Fault, Refuses

(* The stamp is a time, and an earlier one stays.                          *)
LEMMA StampTyped ==
    ASSUME TypeOK, NEW e \in Events, Stamp(e)
    PROVE  /\ published' \in [Events -> Time \union {None}]
           /\ published'[e] # None
           /\ \A f \in Events \ {e} : published'[f] = published[f]
           /\ StampsKept
<1>1. now # None
    BY BoundAssumption DEF TypeOK, Time
<1> QED BY <1>1 DEF TypeOK, Stamp, StampsKept
-----------------------------------------------------------------------------
(* The steps of the operations and of the clock.                           *)

LEMMA TickKeeps ==
    ASSUME IInv, Tick
    PROVE  Kept
<1>1. TypeOK'
    BY BoundAssumption, LimitAssumption DEF IInv, TypeOK, Time, Tick
<1>2. ReceivedInv' /\ RepeatInv' /\ StampsKept
    BY DEF IInv, ReceivedInv, StampedMeansReceived, RepeatInv, StampsKept, Tick
<1> QED BY <1>1, <1>2 DEF IInv, Kept

LEMMA BeginKeeps ==
    ASSUME IInv, NEW e \in Events, Begin(e)
    PROVE  Kept
<1>1. TypeOK'
    BY DEF IInv, TypeOK, Begin
<1>2. ReceivedInv' /\ RepeatInv' /\ StampsKept
    BY DEF IInv, TypeOK, ReceivedInv, StampedMeansReceived, RepeatInv, StampsKept, Begin
<1> QED BY <1>1, <1>2 DEF IInv, Kept

LEMMA CommitKeeps ==
    ASSUME IInv, NEW e \in Events, Commit(e)
    PROVE  Kept
<1>1. TypeOK'
    BY DEF IInv, TypeOK, Commit
<1>2. ReceivedInv' /\ RepeatInv' /\ StampsKept
    BY DEF IInv, TypeOK, ReceivedInv, StampedMeansReceived, RepeatInv, StampsKept, Commit
<1> QED BY <1>1, <1>2 DEF IInv, Kept

LEMMA PublishKeeps ==
    ASSUME IInv, NEW e \in Events, Publish(e)
    PROVE  Kept
<1>1. told' \subseteq Events /\ told \subseteq told' /\ lost' \subseteq Events /\ lost \subseteq lost'
    BY DEF IInv, TypeOK, Publish
<1>2. faults' \in 0..MaxFaults
    BY FaultsTyped DEF IInv, TypeOK, Publish
<1>3. /\ inline' \in [Events -> {"idle", "begun", "publishing", "stamping", "answered",
                                 "stopped"}]
      /\ inline'[e] = "stamping" => e \in told'
      /\ \A f \in Events \ {e} : inline'[f] = inline[f]
    BY DEF IInv, TypeOK, Publish
<1>4. UNCHANGED <<now, occurred, committed, published, pass, gave>>
    BY DEF Publish
<1>5. TypeOK'
    BY <1>1, <1>2, <1>3, <1>4 DEF IInv, TypeOK
<1>6. ReceivedInv' /\ RepeatInv' /\ StampsKept
    BY <1>1, <1>3, <1>4 DEF IInv, ReceivedInv, StampedMeansReceived, RepeatInv, StampsKept
<1> QED BY <1>5, <1>6 DEF IInv, Kept

LEMMA InlineStampKeeps ==
    ASSUME IInv, NEW e \in Events, InlineStamp(e)
    PROVE  Kept
<1>1. TypeOK'
    BY StampTyped DEF IInv, TypeOK, InlineStamp
<1>2. ReceivedInv'
    BY StampTyped DEF IInv, TypeOK, ReceivedInv, StampedMeansReceived, InlineStamp
<1>3. RepeatInv' /\ StampsKept
    BY StampTyped DEF IInv, RepeatInv, StampsKept, InlineStamp
<1> QED BY <1>1, <1>2, <1>3 DEF IInv, Kept

LEMMA InlineStopsKeeps ==
    ASSUME IInv, NEW e \in Events, InlineStops(e)
    PROVE  Kept
<1>1. lost' \subseteq Events /\ lost \subseteq lost'
    BY DEF IInv, TypeOK, InlineStops
<1>2. TypeOK'
    BY <1>1, FaultsTyped DEF IInv, TypeOK, InlineStops
<1>3. ReceivedInv' /\ RepeatInv' /\ StampsKept
    BY <1>1 DEF IInv, TypeOK, ReceivedInv, StampedMeansReceived, RepeatInv, StampsKept,
                InlineStops
<1> QED BY <1>2, <1>3 DEF IInv, Kept
-----------------------------------------------------------------------------
(* The steps of a sweep.                                                   *)

LEMMA SweepStartKeeps ==
    ASSUME IInv, NEW w \in Workers, SweepStart(w)
    PROVE  Kept
<1> DEFINE cutoff == now - Age
           s == [pass[w] EXCEPT !.pc = "loading", !.cutoff = cutoff]
<1>1. pass' = [pass EXCEPT ![w] = s] /\ pass[w].pc = "idle"
    BY DEF SweepStart
<1>a. cutoff \in Int
    BY BoundAssumption, LimitAssumption DEF IInv, TypeOK, Time
<1> HIDE DEF cutoff
<1>2. /\ s \in Passes /\ s.pc = "loading"
      /\ s.todo = pass[w].todo /\ s.hand = pass[w].hand
    BY <1>a DEF IInv, TypeOK, Passes
<1> HIDE DEF s
<1>3. TypeOK'
    BY <1>1, <1>2 DEF IInv, TypeOK, SweepStart
<1>4. ReceivedInv' /\ RepeatInv' /\ StampsKept
    BY <1>1, <1>2 DEF IInv, TypeOK, ReceivedInv, StampedMeansReceived, RepeatInv,
                      StampsKept, SweepStart
<1> QED BY <1>3, <1>4 DEF IInv, Kept

LEMMA SweepLoadKeeps ==
    ASSUME IInv, NEW w \in Workers, SweepLoad(w)
    PROVE  Kept
<1> DEFINE none == 0
<1>1. PICK batch \in Batches(pass[w].cutoff) :
          pass' = [pass EXCEPT ![w].pc = "publishing", ![w].cutoff = none, ![w].todo = batch]
    BY DEF SweepLoad
<1>2. batch \subseteq Events /\ \A e \in batch : published[e] = None
    BY <1>1 DEF Batches, Due
<1>n. none \in Int
    OBVIOUS
<1> HIDE DEF none
<1> DEFINE s == [pass[w] EXCEPT !.pc = "publishing", !.cutoff = none, !.todo = batch]
<1>3. pass' = [pass EXCEPT ![w] = s] /\ pass[w].pc = "loading"
    BY <1>1 DEF SweepLoad
<1>4. /\ s \in Passes /\ s.pc = "publishing"
      /\ s.todo = batch /\ s.hand = pass[w].hand /\ s.hand = None
    BY <1>2, <1>3, <1>n DEF IInv, TypeOK, Passes
<1> HIDE DEF s
<1>5. TypeOK'
    BY <1>3, <1>4 DEF IInv, TypeOK, SweepLoad
<1>6. ReceivedInv' /\ StampsKept
    BY <1>3, <1>4 DEF IInv, TypeOK, ReceivedInv, StampedMeansReceived, StampsKept, SweepLoad
<1>7. \A e \in batch : e \in lost \/ gave[w][e] = 0
    <2>1. SUFFICES ASSUME NEW e \in batch, e \notin lost PROVE gave[w][e] = 0
        OBVIOUS
    <2>2. e \in Events /\ published[e] = None /\ pass[w].hand # e
        BY <1>2, <1>4, EventsAssumption
    <2>3. gave[w][e] \in 0..2 /\ ~(gave[w][e] > 0)
        BY <2>1, <2>2 DEF IInv, TypeOK, RepeatInv
    <2> QED BY <2>3
<1>8. RepeatInv'
    BY <1>3, <1>4, <1>7 DEF IInv, TypeOK, RepeatInv, SweepLoad
<1> QED BY <1>5, <1>6, <1>8 DEF IInv, Kept

(* Leaving a row out of the batch, or taking it in hand.                   *)
LEMMA SkipTyped ==
    ASSUME TypeOK, NEW w \in Workers, NEW e \in Events, pass[w].pc = "publishing",
           Skip(w, e)
    PROVE  /\ pass' \in [Workers -> Passes]
           /\ pass'[w].pc = "publishing" /\ pass'[w].todo = pass[w].todo \ {e}
           /\ pass'[w].hand = None
           /\ \A v \in Workers \ {w} : pass'[v] = pass[v]
<1> DEFINE s == [pass[w] EXCEPT !.todo = @ \ {e}]
<1>1. pass' = [pass EXCEPT ![w] = s]
    BY DEF Skip
<1>2. pass[w] \in Passes /\ pass[w].hand = None
    BY DEF TypeOK
<1>3. /\ s \in Passes /\ s.pc = "publishing" /\ s.hand = None
      /\ s.todo = pass[w].todo \ {e}
    BY <1>2 DEF Passes
<1> HIDE DEF s
<1> QED BY <1>1, <1>3 DEF TypeOK

LEMMA TakeTyped ==
    ASSUME TypeOK, NEW w \in Workers, NEW e \in Events, Take(w, e)
    PROVE  /\ pass' \in [Workers -> Passes]
           /\ pass'[w].pc = "stamping" /\ pass'[w].todo = pass[w].todo \ {e}
           /\ pass'[w].hand = e /\ e # None
           /\ \A v \in Workers \ {w} : pass'[v] = pass[v]
<1> DEFINE s == [pass[w] EXCEPT !.pc = "stamping", !.todo = @ \ {e}, !.hand = e]
<1>1. pass' = [pass EXCEPT ![w] = s]
    BY DEF Take
<1>2. /\ s \in Passes /\ s.pc = "stamping" /\ s.hand = e
      /\ s.todo = pass[w].todo \ {e}
    BY DEF TypeOK, Passes
<1> HIDE DEF s
<1> QED BY <1>1, <1>2, EventsAssumption DEF TypeOK

LEMMA CountedTyped ==
    ASSUME TypeOK, NEW w \in Workers, NEW e \in Events, Counted(w, e)
    PROVE  /\ gave' \in [Workers -> [Events -> 0..2]]
           /\ gave'[w][e] > 0
           /\ gave[w][e] = 0 => gave'[w][e] = 1
           /\ \A v \in Workers, f \in Events :
                 /\ v # w \/ f # e => gave'[v][f] = gave[v][f]
                 /\ gave[v][f] > 0 => gave'[v][f] > 0
<1> DEFINE n == gave[w][e]
           m == IF n < 2 THEN n + 1 ELSE n
<1>1. n \in 0..2 /\ m \in 0..2 /\ m > 0 /\ (n = 0 => m = 1)
    BY DEF TypeOK
<1>2. gave' = [gave EXCEPT ![w][e] = m]
    BY DEF Counted
<1> HIDE DEF n, m
<1>3. gave' \in [Workers -> [Events -> 0..2]] /\ gave'[w][e] = m
    BY <1>1, <1>2 DEF TypeOK
<1>4. \A v \in Workers, f \in Events : v # w \/ f # e => gave'[v][f] = gave[v][f]
    BY <1>2 DEF TypeOK
<1>5. gave[w][e] = n
    BY DEF n
<1> QED BY <1>1, <1>3, <1>4, <1>5

LEMMA SweepRefusedKeeps ==
    ASSUME IInv, NEW w \in Workers, NEW e \in Events, pass[w].pc = "publishing",
           SweepRefused(w, e),
           UNCHANGED <<now, occurred, committed, published, inline, told>>
    PROVE  Kept
<1>1. TypeOK'
    BY SkipTyped, FaultsTyped DEF IInv, TypeOK, SweepRefused
<1>2. ReceivedInv' /\ StampsKept
    BY SkipTyped DEF IInv, ReceivedInv, StampedMeansReceived, StampsKept, SweepRefused
<1>3. RepeatInv'
    <2>1. pass[w].hand = None
        BY DEF IInv, TypeOK
    <2> QED BY <2>1, SkipTyped, EventsAssumption DEF IInv, RepeatInv, SweepRefused
<1> QED BY <1>1, <1>2, <1>3 DEF IInv, Kept

LEMMA SweepAcceptedKeeps ==
    ASSUME IInv, NEW w \in Workers, NEW e \in pass[w].todo, pass[w].pc = "publishing",
           SweepAccepted(w, e),
           UNCHANGED <<now, occurred, committed, published, inline, told>>
    PROVE  Kept
<1>1. e \in Events /\ pass[w].hand = None /\ TypeOK
    BY DEF IInv, TypeOK, Passes
<1>2. /\ gave' \in [Workers -> [Events -> 0..2]]
      /\ gave'[w][e] > 0
      /\ gave[w][e] = 0 => gave'[w][e] = 1
      /\ \A v \in Workers, f \in Events :
            /\ v # w \/ f # e => gave'[v][f] = gave[v][f]
            /\ gave[v][f] > 0 => gave'[v][f] > 0
    BY <1>1, CountedTyped DEF SweepAccepted
<1>3. /\ pass' \in [Workers -> Passes]
      /\ pass'[w].todo = pass[w].todo \ {e}
      /\ \A v \in Workers \ {w} : pass'[v] = pass[v]
      /\ \/ /\ pass'[w].pc = "stamping" /\ pass'[w].hand = e /\ e # None
            /\ lost' = lost /\ faults' = faults
         \/ /\ pass'[w].pc = "publishing" /\ pass'[w].hand = None
            /\ lost' = lost \union {e} /\ faults' \in 0..MaxFaults
    <2>1. CASE Take(w, e) /\ UNCHANGED <<lost, faults>>
        BY <1>1, <2>1, TakeTyped
    <2>2. CASE Skip(w, e) /\ lost' = lost \union {e} /\ Fault
        BY <1>1, <2>2, SkipTyped, FaultsTyped
    <2> QED BY <2>1, <2>2 DEF SweepAccepted
<1>4. TypeOK'
    <2>1. lost' \subseteq Events /\ faults' \in 0..MaxFaults
        BY <1>1, <1>3 DEF TypeOK
    <2>2. \A v \in Workers : pass'[v].pc = "stamping" <=> pass'[v].hand # None
        BY <1>1, <1>3 DEF TypeOK
    <2> QED BY <1>1, <1>2, <1>3, <2>1, <2>2 DEF TypeOK
<1>5. StampedMeansReceived' /\ StampsKept
    BY <1>2 DEF IInv, ReceivedInv, StampedMeansReceived, StampsKept
<1>6. ReceivedInv'
    <2>1. \A v \in Workers : pass'[v].pc = "stamping" => gave'[v][pass'[v].hand] > 0
        <3>1. SUFFICES ASSUME NEW v \in Workers, pass'[v].pc = "stamping"
                       PROVE  gave'[v][pass'[v].hand] > 0
            OBVIOUS
        <3>2. CASE v = w
            BY <1>2, <1>3, <3>1, <3>2
        <3>3. CASE v # w
            <4>1. pass'[v] = pass[v] /\ pass[v].hand \in Events /\ gave[v][pass[v].hand] > 0
                BY <1>3, <3>1, <3>3 DEF IInv, TypeOK, ReceivedInv, Passes
            <4> QED BY <1>2, <4>1
        <3> QED BY <3>2, <3>3
    <2> QED BY <1>5, <2>1 DEF IInv, ReceivedInv
<1>7. RepeatInv'
    <2>1. SUFFICES ASSUME NEW v \in Workers, NEW f \in Events
                   PROVE  /\ gave'[v][f] > 0 =>
                               f \in lost' \/ published'[f] # None \/ pass'[v].hand = f
                          /\ gave'[v][f] > 1 => f \in lost'
                          /\ f \in pass'[v].todo => f \in lost' \/ gave'[v][f] = 0
        BY DEF RepeatInv
    <2>2. lost \subseteq lost'
        BY <1>3
    <2>3. CASE v # w
        BY <1>2, <1>3, <2>2, <2>3 DEF IInv, RepeatInv
    <2>4. CASE v = w /\ f # e
        BY <1>1, <1>2, <1>3, <2>2, <2>4, EventsAssumption DEF IInv, RepeatInv
    <2>5. CASE v = w /\ f = e
        <3>1. e \in lost \/ gave[w][e] = 0
            BY <1>1 DEF IInv, RepeatInv
        <3> QED BY <1>1, <1>2, <1>3, <2>2, <2>5, <3>1
    <2> QED BY <2>3, <2>4, <2>5
<1> QED BY <1>4, <1>5, <1>6, <1>7 DEF IInv, Kept

LEMMA SweepPublishKeeps ==
    ASSUME IInv, NEW w \in Workers, SweepPublish(w)
    PROVE  Kept
<1>1. PICK e \in Oldest(w) : SweepRefused(w, e) \/ SweepAccepted(w, e)
    BY DEF SweepPublish
<1>2. e \in pass[w].todo /\ e \in Events
    BY DEF Oldest, IInv, TypeOK, Passes
<1> QED BY <1>1, <1>2, SweepRefusedKeeps, SweepAcceptedKeeps DEF SweepPublish

LEMMA SweepStampKeeps ==
    ASSUME IInv, NEW w \in Workers, SweepStamp(w)
    PROVE  Kept
<1> DEFINE e == pass[w].hand
           s == [pass[w] EXCEPT !.pc = "publishing", !.hand = None]
<1>1. e \in Events /\ gave[w][e] > 0
    BY DEF IInv, TypeOK, Passes, ReceivedInv, SweepStamp
<1>2. /\ published' \in [Events -> Time \union {None}]
      /\ published'[e] # None
      /\ \A f \in Events \ {e} : published'[f] = published[f]
      /\ StampsKept
    BY <1>1, StampTyped DEF IInv, SweepStamp
<1>3. pass' = [pass EXCEPT ![w] = s]
    BY DEF SweepStamp
<1>4. s \in Passes /\ s.pc = "publishing" /\ s.hand = None /\ s.todo = pass[w].todo
    BY DEF IInv, TypeOK, Passes
<1> HIDE DEF s, e
<1>5. TypeOK'
    <2>1. \A v \in Workers : pass'[v].pc = "stamping" <=> pass'[v].hand # None
        BY <1>3, <1>4 DEF IInv, TypeOK
    <2>2. pass' \in [Workers -> Passes]
        BY <1>3, <1>4 DEF IInv, TypeOK
    <2> QED BY <1>2, <2>1, <2>2 DEF IInv, TypeOK, SweepStamp
<1>6. ReceivedInv'
    BY <1>1, <1>2, <1>3, <1>4 DEF IInv, TypeOK, ReceivedInv, StampedMeansReceived, SweepStamp
<1>7. RepeatInv'
    <2>1. e = pass[w].hand
        BY DEF e
    <2> QED BY <1>1, <1>2, <1>3, <1>4, <2>1 DEF IInv, TypeOK, RepeatInv, SweepStamp
<1> QED BY <1>2, <1>5, <1>6, <1>7 DEF IInv, Kept

(* A pass that is over, at its end or by a fault.                          *)
LEMMA PassOver ==
    ASSUME TypeOK, NEW w \in Workers, pass' = [pass EXCEPT ![w] = NoPass]
    PROVE  /\ pass' \in [Workers -> Passes]
           /\ pass'[w].pc = "idle" /\ pass'[w].todo = {} /\ pass'[w].hand = None
           /\ \A v \in Workers \ {w} : pass'[v] = pass[v]
<1>1. NoPass \in Passes /\ NoPass.pc = "idle" /\ NoPass.hand = None /\ NoPass.todo = {}
    BY DEF NoPass, Passes
<1> QED BY <1>1 DEF TypeOK

LEMMA SweepEndKeeps ==
    ASSUME IInv, NEW w \in Workers, SweepEnd(w)
    PROVE  Kept
<1>1. pass[w].hand = None
    BY DEF IInv, TypeOK, SweepEnd
<1>2. TypeOK'
    BY PassOver DEF IInv, TypeOK, SweepEnd
<1>3. ReceivedInv' /\ StampsKept
    BY PassOver DEF IInv, ReceivedInv, StampedMeansReceived, StampsKept, SweepEnd
<1>4. RepeatInv'
    BY <1>1, PassOver, EventsAssumption DEF IInv, RepeatInv, SweepEnd
<1> QED BY <1>2, <1>3, <1>4 DEF IInv, Kept

LEMMA SweepStopsKeeps ==
    ASSUME IInv, NEW w \in Workers, SweepStops(w)
    PROVE  Kept
<1>1. /\ lost' \subseteq Events /\ lost \subseteq lost'
      /\ pass[w].hand # None => pass[w].hand \in lost'
    BY DEF IInv, TypeOK, Passes, SweepStops
<1>2. TypeOK'
    BY <1>1, PassOver, FaultsTyped DEF IInv, TypeOK, SweepStops
<1>3. ReceivedInv' /\ StampsKept
    BY PassOver DEF IInv, ReceivedInv, StampedMeansReceived, StampsKept, SweepStops
<1>4. RepeatInv'
    BY <1>1, PassOver, EventsAssumption DEF IInv, RepeatInv, SweepStops
<1> QED BY <1>2, <1>3, <1>4 DEF IInv, Kept
-----------------------------------------------------------------------------
(* The theorems of the module rest on this one.                            *)
LEMMA NextKeeps == IInv /\ [Next]_vars => Kept
<1> SUFFICES ASSUME IInv, [Next]_vars PROVE Kept
    OBVIOUS
<1>1. CASE Tick
    BY <1>1, TickKeeps
<1>2. CASE \E e \in Events : Operation(e)
    BY <1>2, BeginKeeps, CommitKeeps, PublishKeeps, InlineStampKeeps, InlineStopsKeeps
       DEF Operation
<1>3. CASE \E w \in Workers : SweepStep(w) \/ SweepStops(w)
    BY <1>3, SweepStartKeeps, SweepLoadKeeps, SweepPublishKeeps, SweepStampKeeps,
       SweepEndKeeps, SweepStopsKeeps DEF SweepStep
<1>4. CASE UNCHANGED vars
    BY <1>4 DEF vars, IInv, TypeOK, ReceivedInv, StampedMeansReceived, RepeatInv, Kept,
                StampsKept
<1> QED BY <1>1, <1>2, <1>3, <1>4 DEF Next

LEMMA SpecIInv == Spec => []IInv
<1>1. IInv /\ [Next]_vars => IInv'
    BY NextKeeps DEF Kept
<1> QED BY InitInv, <1>1, PTL DEF Spec

\* Rows, operations and passes keep their types for any sizes and bounds, and a
\* pass has a row in hand exactly while it stamps it.
THEOREM OutboxTyped == Spec => []TypeOK
<1>1. IInv => TypeOK
    BY DEF IInv
<1> QED BY SpecIInv, <1>1, PTL

\* published_at is evidence: the sink took the event before the row was stamped,
\* whatever dispatches and sweeps raced, died or failed.
THEOREM StampIsEvidence == Spec => []StampedMeansReceived
<1>1. IInv => StampedMeansReceived
    BY DEF IInv, ReceivedInv
<1> QED BY SpecIInv, <1>1, PTL

\* A worker delivers an event again only after a stamp of that event failed.
THEOREM RepeatsHaveACause == Spec => []NoRepeatWithoutLoss
<1>1. IInv => NoRepeatWithoutLoss
    BY DEF IInv, RepeatInv, NoRepeatWithoutLoss
<1> QED BY SpecIInv, <1>1, PTL

\* The first recorded publication stays recorded.
THEOREM FirstStampWins == Spec => StampIsKept
<1>1. IInv /\ [Next]_vars => StampsKept
    BY NextKeeps DEF Kept
<1>2. IInv /\ [Next]_vars => [StampsKept]_vars
    BY <1>1
<1> QED BY SpecIInv, <1>2, PTL DEF Spec, StampIsKept, StampsKept
=============================================================================
