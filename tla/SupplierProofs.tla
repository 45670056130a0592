---------------------------- MODULE SupplierProofs ----------------------------
(***************************************************************************)
(* Proofs about the ways to the suppliers.  The client (SupplierTransport): *)
(* whatever the number of callers, the threshold, the retry policy and the *)
(* budgets, the breaker counts right and never wedges, bookings are dialed *)
(* once, answers come by the deadline, and a second probe of a supplier in *)
(* doubt comes a cooldown after the first.  The fan-out of a search        *)
(* (HotelSearch): whatever the number of searches and suppliers, each      *)
(* supplier is reported once and counted right, what arrived in time is    *)
(* returned, no rate is foreign, every rate is for the party that asked,   *)
(* and the portal's list tells the search.  The keys of a search           *)
(* (SearchKeys): one for one question, for parties of every size.          *)
(***************************************************************************)
EXTENDS SupplierTransport, MCHotelSearch, FiniteSetTheorems, SequenceTheorems,
        WellFoundedInduction, TLAPS

\* Where a send is tells what its locals hold.
SendInv ==
    \A c \in Calls :
        /\ pc[c] = "idle" => c \notin probing
        /\ InFlight(c) => attempt[c] >= 1 /\ deadline[c] <= now + Budget
        /\ c \notin Idempotent => attempt[c] <= 1 /\ pc[c] # "sleeping"
        /\ pc[c] \in {"dialed", "settling"} => now <= deadline[c] + Lag
        /\ pc[c] = "sleeping" => wake[c] < deadline[c] /\ now <= wake[c] + Lag
        /\ mode = "live" => outcome[c] # "miss"

\* A taken slot is a half-open breaker's, and some send under way holds it.
SlotInv ==
    /\ probeInFlight => state = "half_open" /\ probing # {}
    /\ mode = "live" /\ state = "half_open" => probeInFlight

\* Probes of an earlier half-open phase were admitted before the breaker opened
\* again, and so a cooldown before the next probe.
ProbeInv ==
    /\ openedAt <= now
    /\ ProbesApart
    /\ mode = "live" /\ state = "open" =>
          \A c \in probing : deadline[c] <= openedAt + Budget

IInv == TypeOK /\ SendInv /\ SlotInv /\ CountIsTheStreak /\ ProbeInv
-----------------------------------------------------------------------------
(* A backoff delay is a natural number.                                    *)
LEMMA DelayIsNat ==
    ASSUME NEW n, NEW delay \in BackoffDelays(n)
    PROVE  delay \in Nat
BY DEF BackoffDelays

(* The initial states satisfy the invariant.                               *)
LEMMA InitInv == Init => IInv
<1> SUFFICES ASSUME Init PROVE IInv
    OBVIOUS
<1> USE BreakerAssumption, TimeAssumption DEF Init
<1>1. probeInFlight \in BOOLEAN /\ outcome \in [Calls -> Outcomes]
    BY DEF Outcomes
<1>2. TypeOK
    BY <1>1 DEF TypeOK
<1>3. SendInv
    BY DEF SendInv, InFlight
<1>4. SlotInv /\ CountIsTheStreak /\ ProbeInv
    BY DEF SlotInv, CountIsTheStreak, ProbeInv, ProbesApart
<1> QED BY <1>2, <1>3, <1>4 DEF IInv

LEMMA SendKeeps ==
    ASSUME IInv, NEW c \in Calls, Send(c)
    PROVE  IInv'
<1> USE CallsAssumption, BreakerAssumption, RetryAssumption, TimeAssumption DEF IInv
<1> PICK by \in now .. now + Budget :
        /\ deadline' = [deadline EXCEPT ![c] = by]
        /\ Attempt(c, 1, by)
    BY DEF Send
<1>1. TypeOK'
    <2>1. probeInFlight' \in BOOLEAN
        BY DEF TypeOK, Send, AssertCanCall
    <2>2. state' \in {"closed", "open", "half_open"} /\ probing' \subseteq Calls
        BY DEF TypeOK, Send, AssertCanCall
    <2>3. /\ UNCHANGED <<mode, now, failures, openedAt, wake, streak>>
          /\ deadline' \in [Calls -> Nat]
        BY DEF TypeOK, Send, AssertCanCall
    <2>4. attempt' \in [Calls -> Nat]
        BY DEF TypeOK, Attempt
    <2>5. pc' \in [Calls -> {"idle", "dialed", "sleeping", "settling"}]
        BY DEF TypeOK, Attempt
    <2>6. outcome' \in [Calls -> Outcomes]
        BY DEF TypeOK, Attempt, Outcomes
    <2> QED BY <2>1, <2>2, <2>3, <2>4, <2>5, <2>6 DEF TypeOK
<1>2. SendInv'
    BY DEF TypeOK, SendInv, Send, AssertCanCall, Attempt, InFlight
<1>3. SlotInv'
    BY DEF TypeOK, SlotInv, Send, AssertCanCall, Refuses
<1>4. CountIsTheStreak'
    BY DEF TypeOK, CountIsTheStreak, Send, AssertCanCall
<1>5. ProbeInv'
    <2>1. CASE state = "closed"
        <3>1. UNCHANGED <<state, probing, now, openedAt, mode>>
            BY <2>1 DEF Send, AssertCanCall
        <3>2. \A d \in probing : deadline'[d] = deadline[d]
            BY DEF TypeOK, SendInv, Send
        <3> QED BY <3>1, <3>2 DEF ProbeInv, ProbesApart, Outlived, TypeOK
    <2>2. CASE state # "closed"
        <3>1. state' = "half_open" /\ probing' = probing \union {c} /\ UNCHANGED <<now, openedAt, mode>>
            BY <2>2 DEF Send, AssertCanCall
        <3>2. c \notin probing /\ \A d \in probing : deadline'[d] = deadline[d]
            BY DEF TypeOK, SendInv, Send
        <3>3. ASSUME mode = "live", NEW d \in probing
              PROVE  Outlived(d)
            <4>1. state = "open" /\ now - openedAt >= Cooldown
                BY <2>2, <3>3 DEF TypeOK, SlotInv, Send, AssertCanCall, Refuses, CoolingDown
            <4>2. deadline[d] <= openedAt + Budget
                BY <3>3, <4>1 DEF ProbeInv
            <4> QED BY <4>1, <4>2 DEF TypeOK, Outlived
        <3> QED BY <3>1, <3>2, <3>3 DEF ProbeInv, ProbesApart, Outlived, TypeOK
    <2> QED BY <2>1, <2>2
<1> QED BY <1>1, <1>2, <1>3, <1>4, <1>5

LEMMA BackOffKeeps ==
    ASSUME IInv, NEW c \in Calls, BackOff(c)
    PROVE  IInv'
<1> USE CallsAssumption, BreakerAssumption, RetryAssumption, TimeAssumption DEF IInv
<1> PICK delay \in BackoffDelays(attempt[c]) :
        /\ deadline[c] - now > delay
        /\ wake' = [wake EXCEPT ![c] = now + delay]
    BY DEF BackOff
<1>0. delay \in Nat
    BY DelayIsNat
<1>1. TypeOK'
    BY <1>0 DEF TypeOK, BackOff, breakerVars
<1>2. SendInv'
    <2>1. pc[c] = "dialed" /\ (c \notin Idempotent => attempt[c] < 1)
        BY DEF BackOff, CanAnswer, MayRetry, MaxAttemptsOf
    <2> QED BY <1>0, <2>1 DEF TypeOK, SendInv, BackOff, InFlight, breakerVars
<1>3. SlotInv' /\ CountIsTheStreak' /\ ProbeInv'
    BY DEF TypeOK, SlotInv, CountIsTheStreak, ProbeInv, ProbesApart, Outlived, BackOff,
           breakerVars
<1> QED BY <1>1, <1>2, <1>3

LEMMA EndLoopKeeps ==
    ASSUME IInv, NEW c \in Calls, EndLoop(c)
    PROVE  IInv'
<1> USE CallsAssumption, BreakerAssumption, RetryAssumption, TimeAssumption DEF IInv
<1> PICK o \in Outcomes : CanAnswer(c, o) /\ outcome' = [outcome EXCEPT ![c] = o]
    BY DEF EndLoop
<1>1. TypeOK'
    BY DEF TypeOK, EndLoop, breakerVars
<1>2. SendInv'
    BY DEF TypeOK, SendInv, EndLoop, InFlight, CanAnswer, breakerVars
<1>3. SlotInv' /\ CountIsTheStreak' /\ ProbeInv'
    BY DEF TypeOK, SlotInv, CountIsTheStreak, ProbeInv, ProbesApart, Outlived, EndLoop,
           breakerVars
<1> QED BY <1>1, <1>2, <1>3

LEMMA WakeUpKeeps ==
    ASSUME IInv, NEW c \in Calls, WakeUp(c)
    PROVE  IInv'
<1> USE CallsAssumption, BreakerAssumption, RetryAssumption, TimeAssumption DEF IInv
<1>1. TypeOK'
    BY DEF TypeOK, WakeUp, Attempt, breakerVars, Outcomes
<1>2. SendInv'
    BY DEF TypeOK, SendInv, WakeUp, Attempt, InFlight, breakerVars
<1>3. SlotInv' /\ CountIsTheStreak' /\ ProbeInv'
    BY DEF TypeOK, SlotInv, CountIsTheStreak, ProbeInv, ProbesApart, Outlived, WakeUp,
           breakerVars
<1> QED BY <1>1, <1>2, <1>3

LEMMA SettleKeeps ==
    ASSUME IInv, NEW c \in Calls, Settle(c)
    PROVE  IInv'
<1> USE CallsAssumption, BreakerAssumption, RetryAssumption, TimeAssumption DEF IInv
<1>1. TypeOK'
    <2>1. probeInFlight' \in BOOLEAN
        BY DEF TypeOK, Settle, RecordInconclusive, RecordFailure, RecordSuccess, Trip
    <2>2. state' \in {"closed", "open", "half_open"} /\ openedAt' \in Nat
        BY DEF TypeOK, Settle, RecordInconclusive, RecordFailure, RecordSuccess, Trip
    <2>3. failures' \in 0 .. Threshold - 1
        BY DEF TypeOK, Settle, RecordInconclusive, RecordFailure, RecordSuccess, Trips,
               Trip
    <2>4. streak' \in Nat
        BY DEF TypeOK, Settle
    <2>5. /\ UNCHANGED <<mode, now>>
          /\ probing' \subseteq Calls
          /\ pc' \in [Calls -> {"idle", "dialed", "sleeping", "settling"}]
        BY DEF TypeOK, Settle
    <2>6. /\ attempt' \in [Calls -> Nat]
          /\ deadline' \in [Calls -> Nat]
          /\ wake' \in [Calls -> Nat]
        BY DEF TypeOK, Settle
    <2>7. outcome' \in [Calls -> Outcomes]
        BY DEF TypeOK, Settle, Outcomes
    <2> QED BY <2>1, <2>2, <2>3, <2>4, <2>5, <2>6, <2>7 DEF TypeOK
<1>2. SendInv'
    BY DEF TypeOK, SendInv, Settle, InFlight
<1>3. SlotInv'
    BY DEF TypeOK, SlotInv, SendInv, Settle, RecordInconclusive, RecordFailure,
           RecordSuccess, Trips, Trip
<1>4. CountIsTheStreak'
    BY DEF TypeOK, CountIsTheStreak, Settle, RecordInconclusive, RecordFailure,
           RecordSuccess, Trips, Trip
<1>5. ProbeInv'
    <2>1. probing' \subseteq probing /\ UNCHANGED <<mode, now>>
        BY DEF Settle
    <2>2. \A d \in probing' : deadline'[d] = deadline[d]
        BY DEF Settle, TypeOK
    <2>3. \/ state' = state /\ openedAt' = openedAt
          \/ state' = "open" /\ openedAt' = now
          \/ state' = "closed" /\ openedAt' = openedAt
        BY DEF Settle, RecordInconclusive, RecordFailure, RecordSuccess, Trip
    <2>4. \A d \in probing : deadline[d] <= now + Budget
        BY DEF SendInv, TypeOK, InFlight
    <2> QED BY <2>1, <2>2, <2>3, <2>4 DEF ProbeInv, ProbesApart, Outlived, TypeOK
<1> QED BY <1>1, <1>2, <1>3, <1>4, <1>5

LEMMA TickKeeps ==
    ASSUME IInv, Tick
    PROVE  IInv'
<1> USE CallsAssumption, BreakerAssumption, RetryAssumption, TimeAssumption
        DEF IInv, breakerVars, callVars
<1>1. TypeOK'
    BY DEF TypeOK, Tick
<1>2. SendInv'
    BY DEF TypeOK, SendInv, Tick, MayLag, InFlight
<1>3. SlotInv' /\ CountIsTheStreak' /\ ProbeInv'
    BY DEF TypeOK, SlotInv, CountIsTheStreak, ProbeInv, ProbesApart, Outlived, Tick
<1> QED BY <1>1, <1>2, <1>3

LEMMA NextKeeps == IInv /\ [Next]_vars => IInv'
<1> SUFFICES ASSUME IInv, [Next]_vars PROVE IInv'
    OBVIOUS
<1>1. CASE Tick
    BY <1>1, TickKeeps
<1>2. ASSUME NEW c \in Calls, Send(c) PROVE IInv'
    BY <1>2, SendKeeps
<1>3. ASSUME NEW c \in Calls, BackOff(c) PROVE IInv'
    BY <1>3, BackOffKeeps
<1>4. ASSUME NEW c \in Calls, EndLoop(c) PROVE IInv'
    BY <1>4, EndLoopKeeps
<1>5. ASSUME NEW c \in Calls, WakeUp(c) PROVE IInv'
    BY <1>5, WakeUpKeeps
<1>6. ASSUME NEW c \in Calls, Settle(c) PROVE IInv'
    BY <1>6, SettleKeeps
<1>7. CASE UNCHANGED vars
    BY <1>7 DEF vars, breakerVars, callVars, IInv, TypeOK, SendInv, SlotInv,
                CountIsTheStreak, ProbeInv, ProbesApart, Outlived, InFlight
<1> QED BY <1>1, <1>2, <1>3, <1>4, <1>5, <1>6, <1>7 DEF Next

LEMMA Invariance == Spec => []IInv
BY InitInv, NextKeeps, PTL DEF Spec
-----------------------------------------------------------------------------
(* The client's variables keep their types, and the failure count stays    *)
(* below the threshold, whatever the interleaving of sends.                *)
THEOREM TransportTyped == Spec => []TypeOK
BY Invariance, PTL DEF IInv

(* The breaker never wedges: a taken probe slot has a holder under way.    *)
THEOREM BreakerNeverWedges == Spec => []SlotIsHeld
<1>1. IInv => SlotIsHeld
    BY DEF IInv, TypeOK, SlotInv, SendInv, SlotIsHeld, InFlight
<1> QED BY <1>1, Invariance, PTL

(* A second probe of a live supplier in doubt joins only a cooldown after  *)
(* the first was admitted, whatever the budgets are                        *)
(* (CircuitBreaker.assertCanCall, supplier-sdk/src/transport.ts).          *)
THEOREM SecondProbeIsLate == Spec => []ProbesApart
<1>1. IInv => ProbesApart
    BY DEF IInv, ProbeInv
<1> QED BY <1>1, Invariance, PTL

(* The slot has one holder, who will free it.                              *)
THEOREM ProbesSound == Spec => []ProbesAreSound
BY BreakerNeverWedges, SecondProbeIsLate, PTL DEF ProbesAreSound

(* A booking or cancellation request is dialed once.                       *)
THEOREM BookingsDialedOnce == Spec => []BookSentOnce
<1>1. IInv => BookSentOnce
    BY DEF IInv, SendInv, BookSentOnce
<1> QED BY <1>1, Invariance, PTL

(* A closed breaker counts the failures since the last success.            *)
THEOREM BreakerCountsStreaks == Spec => []CountIsTheStreak
BY Invariance, PTL DEF IInv

(* No send outlives its deadline by more than the lag of a timer.          *)
THEOREM SendsEndInTime == Spec => []AnswersByDeadline
<1>1. IInv => AnswersByDeadline
    BY TimeAssumption DEF IInv, TypeOK, SendInv, AnswersByDeadline, InFlight
<1> QED BY <1>1, Invariance, PTL
-----------------------------------------------------------------------------
(* The fan-out of a search.                                                 *)

\* The budget enumerates what is pending: each of it, once.
LEMMA EnumeratesOnce ==
    ASSUME NEW S, IsFiniteSet(S)
    PROVE  /\ SetToSeq(S) \in [1..Cardinality(S) -> S]
           /\ \A i, j \in 1..Cardinality(S) : SetToSeq(S)[i] = SetToSeq(S)[j] => i = j
           /\ \A s \in S : \E i \in 1..Cardinality(S) : SetToSeq(S)[i] = s
           /\ Cardinality(S) \in Nat
           /\ SetToSeq(S) \in Seq(S)
           /\ Len(SetToSeq(S)) = Cardinality(S)
<1> DEFINE n == Cardinality(S)
<1>1. n \in Nat
  BY FS_CardinalityType
<1>2. PICK g : g \in Bijection(1..n, S)
  BY FS_NatBijection, FS_CountingElements, FS_CardinalityType DEF ExistsBijection
<1>3. g \in [1..n -> S] /\ IsInjective(g)
  BY <1>2 DEF Bijection, Injection, Surjection, IsInjective
<1> DEFINE f == SetToSeq(S)
<1>4. f \in [1..n -> S] /\ IsInjective(f)
  BY <1>3 DEF SetToSeq
<1>5. \A i, j \in 1..n : f[i] = f[j] => i = j
  BY <1>4 DEF IsInjective
<1>6. \A s \in S : \E i \in 1..n : f[i] = s
  <2>1. IsFiniteSet(1..n) /\ Cardinality(1..n) = n
    BY <1>1, FS_Interval
  <2>2. f \in Injection(1..n, S)
    BY <1>4 DEF Injection
  <2>3. f \in Surjection(1..n, S)
    BY <2>1, <2>2, FS_Injection
  <2> QED
    BY <2>3 DEF Surjection
<1>7. f \in Seq(S) /\ Len(f) = n
  BY <1>1, <1>4
<1> QED
  BY <1>1, <1>4, <1>5, <1>6, <1>7
-----------------------------------------------------------------------------
Answers == [applied : Nationalities, offers : Nat]

Tallies == [succeeded : Nat, failed : Nat, offers : Nat]

Kinds == {"none", "supplier_timeout", "supplier_unavailable"}

Running == {"cache", "calling", "storing", "pricing"}

Frames ==
    [type : {"search.started"}, suppliers : SUBSET Suppliers] \union
    [type : {"supplier.results"}, supplier : Suppliers, answer : Answers] \union
    [type : {"supplier.failed"}, supplier : Suppliers, kind : Kinds] \union
    [type : {"search.failed"}] \union
    [type : {"search.completed"}, status : {"complete", "budget_exhausted"}, count : Tallies]

SearchStates ==
    [pc : {"new", "refused", "resolving", "racing", "ended"}, body : Bodies,
     nationality : Nationalities, pending : SUBSET Suppliers, timer : {"off", "armed"},
     gone : BOOLEAN, count : Tallies]

LaneStates ==
    [pc : Running \union {"off", "delivered", "failed"}, answer : Answers \union {Miss},
     todo : Int, kind : Kinds]

SearchTyped ==
    /\ search \in [Searches -> SearchStates]
    /\ lane \in [Searches -> [Suppliers -> LaneStates]]
    /\ frames \in [Searches -> Seq(Frames)]
    /\ availability \in [Suppliers -> [Nationalities -> Answers \union {Miss}]]
    /\ arrived \in [Searches -> SUBSET Suppliers]

\* An answer is cached under the nationality it was priced for.
CacheOwn ==
    \A s \in Suppliers, n \in Nationalities :
        availability[s][n] # Miss => availability[s][n].applied = n

\* Where the frames of a type stand, and whether a supplier is among them.
At(f, type) == {i \in DOMAIN f : f[i].type = type}

Delivered(f, s) == \E i \in At(f, "supplier.results") : f[i].supplier = s

\* A stream starts with the suppliers asked, and goes on with what became of
\* them; or it says that the search failed, and no more.
Shaped(f) ==
    f # <<>> =>
        \/ f = <<SearchFailed>>
        \/ /\ f[1].type = "search.started"
           /\ \A i \in 2..Len(f) :
                 \/ f[i].type = "search.completed"
                 \/ f[i].type \in {"supplier.results", "supplier.failed"}
                       /\ f[i].supplier \in f[1].suppliers

\* What SuppliersAccountedFor says of the frames of one search, and their shape.
Told(f) ==
    /\ Shaped(f)
    /\ \A s \in Suppliers : \A i, j \in DOMAIN f : Reports(f[i], s) /\ Reports(f[j], s) => i = j
    /\ \A last \in At(f, "search.completed") :
          /\ last = Len(f)
          /\ \A s \in f[1].suppliers : \E i \in DOMAIN f : Reports(f[i], s)
          /\ f[last].count.succeeded = Cardinality(At(f, "supplier.results"))
          /\ f[last].count.failed = Cardinality(At(f, "supplier.failed"))
          /\ f[last].count.offers = Cardinality(OffersOf(f))

\* While a search races, its client was told of the suppliers that are no
\* longer pending, of nothing else, and the counters are of what it was told.
Racing(c, f) ==
    /\ f # <<>> /\ f[1].type = "search.started" /\ c.pending \subseteq f[1].suppliers
    /\ \A i \in 2..Len(f) :
          f[i].type \in {"supplier.results", "supplier.failed"} /\ f[i].supplier \notin c.pending
    /\ \A s \in f[1].suppliers \ c.pending : \E i \in DOMAIN f : Reports(f[i], s)
    /\ c.count.succeeded = Cardinality(At(f, "supplier.results"))
    /\ c.count.failed = Cardinality(At(f, "supplier.failed"))
    /\ IsFiniteSet(OffersOf(f)) /\ c.count.offers = Cardinality(OffersOf(f))

StreamOK(c, f) ==
    /\ Told(f)
    /\ c.pc \in {"new", "refused", "resolving"} => f = <<>> /\ c.count = NoCount
    /\ c.pc = "racing" => Racing(c, f)

\* Lanes and frames hold answers to the search's own nationality.
RatesOwn(c, f, l) ==
    /\ \A s \in Suppliers : l[s].pc \in {"storing", "pricing", "delivered"} =>
          l[s].answer \in Answers /\ l[s].answer.applied = c.nationality
    /\ \A i \in At(f, "supplier.results") : f[i].answer.applied = c.nationality

\* A lane that delivered in time is still to be consumed, or was sent.
ArrivedOK(c, f, l, a) ==
    /\ c.timer = "armed" => c.pc = "racing"
    /\ c.pc \in {"new", "refused", "resolving"} => a = {}
    /\ c.pc = "racing" =>
          /\ \A s \in Suppliers : l[s].pc \in Running => s \in c.pending
          /\ \A s \in a : Delivered(f, s) \/ (s \in c.pending /\ l[s].pc = "delivered")
    /\ c.pc = "ended" /\ At(f, "search.completed") # {} => \A s \in a : Delivered(f, s)

SearchOK(c, f, l, a) == StreamOK(c, f) /\ RatesOwn(c, f, l) /\ ArrivedOK(c, f, l, a)

SearchInv ==
    /\ SearchTyped
    /\ CacheOwn
    /\ \A q \in Searches : SearchOK(search[q], frames[q], lane[q], arrived[q])
-----------------------------------------------------------------------------
LEMMA FrameTypes ==
    ASSUME NEW f \in Seq(Frames)
    PROVE  /\ Len(f) \in Nat /\ DOMAIN f = 1..Len(f)
           /\ \A i \in 1..Len(f) : f[i] \in Frames
<1> QED
  BY LenProperties, ElementOfSeq

LEMMA NotEmpty ==
    ASSUME NEW f \in Seq(Frames), f # <<>>
    PROVE  Len(f) # 0 /\ 1 \in 1..Len(f)
<1>1. \A seq \in Seq(Frames) : seq # <<>> => Len(seq) \in Nat \ {0}
  BY EmptySeq, Zenon
<1>2. Len(f) \in Nat \ {0}
  BY <1>1
<1> QED
  BY <1>2

LEMMA AtIsFinite ==
    ASSUME NEW f \in Seq(Frames), NEW type
    PROVE  /\ At(f, type) \subseteq 1..Len(f)
           /\ IsFiniteSet(At(f, type))
           /\ Cardinality(At(f, type)) \in Nat
<1>1. At(f, type) \subseteq 1..Len(f) /\ Len(f) \in Nat
  BY FrameTypes DEF At
<1>2. IsFiniteSet(1..Len(f))
  BY <1>1, FS_Interval
<1> QED
  BY <1>1, <1>2, FS_Subset, FS_CardinalityType

LEMMA AppendOne ==
    ASSUME NEW f \in Seq(Frames), NEW e \in Frames
    PROVE  /\ f \o <<e>> \in Seq(Frames)
           /\ Len(f \o <<e>>) = Len(f) + 1
           /\ DOMAIN (f \o <<e>>) = 1..Len(f) + 1
           /\ \A i \in 1..Len(f) : (f \o <<e>>)[i] = f[i]
           /\ (f \o <<e>>)[Len(f) + 1] = e
           /\ \A type : At(f \o <<e>>, type) =
                 At(f, type) \union IF e.type = type THEN {Len(f) + 1} ELSE {}
           /\ \A type : Cardinality(At(f \o <<e>>, type)) =
                 Cardinality(At(f, type)) + IF e.type = type THEN 1 ELSE 0
<1> DEFINE g == f \o <<e>>
<1>1. <<e>> \in Seq(Frames) /\ Len(<<e>>) = 1 /\ <<e>>[1] = e
  OBVIOUS
<1>2. Len(f) \in Nat /\ DOMAIN f = 1..Len(f)
  BY FrameTypes
<1>3. /\ g \in Seq(Frames) /\ Len(g) = Len(f) + 1
      /\ \A i \in 1..Len(f) + 1 : g[i] = IF i <= Len(f) THEN f[i] ELSE <<e>>[i - Len(f)]
  BY <1>1, ConcatProperties
<1>4. DOMAIN g = 1..Len(f) + 1
  BY <1>3, FrameTypes
<1>5. \A i \in 1..Len(f) : g[i] = f[i]
  BY <1>2, <1>3
<1>6. g[Len(f) + 1] = e
  BY <1>1, <1>2, <1>3
<1> HIDE DEF g
<1>7. ASSUME NEW type
      PROVE  At(g, type) = At(f, type) \union IF e.type = type THEN {Len(f) + 1} ELSE {}
  <2>1. \A i \in DOMAIN g : i \in 1..Len(f) \/ i = Len(f) + 1
    BY <1>2, <1>4
  <2> QED
    BY <2>1, <1>2, <1>4, <1>5, <1>6 DEF At
<1>8. ASSUME NEW type
      PROVE  Cardinality(At(g, type)) = Cardinality(At(f, type)) + IF e.type = type THEN 1 ELSE 0
  <2>1. Len(f) + 1 \notin At(f, type)
    BY <1>2 DEF At
  <2>2. IsFiniteSet(At(f, type)) /\ Cardinality(At(f, type)) \in Nat
    BY AtIsFinite
  <2>3. CASE e.type = type
    BY <1>7, <2>1, <2>2, <2>3, FS_AddElement
  <2>4. CASE e.type # type
    <3>1. At(g, type) = At(f, type)
      BY <1>7, <2>4
    <3> QED
      BY <3>1, <2>2, <2>4
  <2> QED
    BY <2>3, <2>4
<1> QED
  BY <1>3, <1>4, <1>5, <1>6, <1>7, <1>8 DEF g

\* The offers of the frames at some places.
OffersAt(f, I) == UNION {{i} \X (1 .. f[i].answer.offers) : i \in I}

LEMMA OffersOfFrames == \A f : OffersOf(f) = OffersAt(f, At(f, "supplier.results"))
<1> QED
  BY DEF OffersOf, OffersAt, At

LEMMA OffersStay ==
    ASSUME NEW f, NEW g, NEW I, \A i \in I : f[i] = g[i]
    PROVE  OffersAt(f, I) = OffersAt(g, I)
<1> QED
  BY DEF OffersAt

LEMMA FirstPlaces ==
    ASSUME NEW k \in Nat
    PROVE  IsFiniteSet(1..k) /\ Cardinality(1..k) = k
<1> QED
  BY FS_Interval

LEMMA PairsOfOne ==
    ASSUME NEW n, NEW k \in Nat
    PROVE  IsFiniteSet({n} \X (1..k)) /\ Cardinality({n} \X (1..k)) = k
<1>1. IsFiniteSet({n}) /\ Cardinality({n}) = 1
  BY FS_Singleton
<1>2. IsFiniteSet(1..k) /\ Cardinality(1..k) = k
  BY FirstPlaces
<1> DEFINE A == {n}
           B == 1..k
<1> HIDE DEF A, B
<1>3. IsFiniteSet(A \X B) /\ Cardinality(A \X B) = Cardinality(A) * Cardinality(B)
  BY <1>1, <1>2, FS_Product DEF A, B
<1> QED
  BY <1>1, <1>2, <1>3 DEF A, B

\* One more place adds as many offers as it has.
LEMMA OffersGrow ==
    ASSUME NEW f, NEW I, NEW n, n \notin I, f[n].answer.offers \in Nat, IsFiniteSet(OffersAt(f, I))
    PROVE  /\ IsFiniteSet(OffersAt(f, I \union {n}))
           /\ Cardinality(OffersAt(f, I)) \in Nat
           /\ Cardinality(OffersAt(f, I \union {n})) =
                 Cardinality(OffersAt(f, I)) + f[n].answer.offers
<1> DEFINE O == OffersAt(f, I)
           m == f[n].answer.offers
           N == {n} \X (1..m)
<1>1. OffersAt(f, I \union {n}) = O \union N
  BY DEF OffersAt
<1>2. O \cap N = {}
  BY DEF OffersAt
<1>3. IsFiniteSet(N) /\ Cardinality(N) = m
  BY PairsOfOne
<1>4. Cardinality(O) \in Nat
  BY FS_CardinalityType
<1>7. m \in Nat
  OBVIOUS
<1> HIDE DEF O, N, m
<1>8. IsFiniteSet(O)
  BY DEF O
<1>5. /\ IsFiniteSet(O \union N)
      /\ Cardinality(O \union N) = Cardinality(O) + Cardinality(N) - Cardinality(O \cap N)
  BY <1>3, <1>8, FS_Union
<1>6. Cardinality(O \cap N) = 0
  BY <1>2, FS_EmptySet
<1> QED
  <2>1. Cardinality(O \union N) = Cardinality(O) + m
    BY <1>3, <1>4, <1>5, <1>6, <1>7
  <2>2. OffersAt(f, I) = O /\ m = f[n].answer.offers
    BY DEF O, m
  <2> QED
    BY <2>1, <2>2, <1>1, <1>4, <1>5

LEMMA ResultsHaveOffers ==
    ASSUME NEW e \in Frames, e.type = "supplier.results"
    PROVE  e.answer.offers \in Nat
<1> QED
  BY DEF Frames, Answers

LEMMA OffersAppended ==
    ASSUME NEW f \in Seq(Frames), NEW e \in Frames, IsFiniteSet(OffersOf(f))
    PROVE  /\ IsFiniteSet(OffersOf(f \o <<e>>))
           /\ Cardinality(OffersOf(f)) \in Nat
           /\ Cardinality(OffersOf(f \o <<e>>)) = Cardinality(OffersOf(f)) +
                 IF e.type = "supplier.results" THEN e.answer.offers ELSE 0
<1> DEFINE g == f \o <<e>>
           n == Len(f) + 1
           I == At(f, "supplier.results")
<1>1. /\ \A i \in 1..Len(f) : g[i] = f[i]
      /\ g[n] = e
      /\ At(g, "supplier.results") = I \union IF e.type = "supplier.results" THEN {n} ELSE {}
  BY AppendOne
<1>2. I \subseteq 1..Len(f) /\ Len(f) \in Nat
  BY AtIsFinite, FrameTypes
<1> HIDE DEF g, I
<1>3. OffersOf(f) = OffersAt(g, I)
  <2>1. \A i \in I : f[i] = g[i]
    BY <1>1, <1>2
  <2> QED
    BY <2>1, OffersStay, OffersOfFrames DEF I
<1>4. OffersOf(g) = OffersAt(g, At(g, "supplier.results"))
  BY OffersOfFrames
<1>5. Cardinality(OffersOf(f)) \in Nat
  BY FS_CardinalityType
<1>6. CASE e.type = "supplier.results"
  <2>1. n \notin I /\ g[n].answer.offers \in Nat
    BY <1>1, <1>2, <1>6, ResultsHaveOffers
  <2>2. At(g, "supplier.results") = I \union {n}
    BY <1>1, <1>6
  <2> HIDE DEF n
  <2>3. /\ IsFiniteSet(OffersAt(g, I \union {n}))
        /\ Cardinality(OffersAt(g, I \union {n})) = Cardinality(OffersAt(g, I)) + g[n].answer.offers
    BY <2>1, <1>3, OffersGrow
  <2> QED
    BY <2>2, <2>3, <1>1, <1>3, <1>4, <1>5, <1>6 DEF g
<1>7. CASE e.type # "supplier.results"
  <2>1. At(g, "supplier.results") = I
    BY <1>1, <1>7
  <2> QED
    BY <2>1, <1>3, <1>4, <1>5, <1>7 DEF g
<1> QED
  BY <1>6, <1>7

\* A racing search has not been told of its end.
LEMMA RacingHasNotEnded ==
    ASSUME NEW f \in Seq(Frames), NEW c, Racing(c, f)
    PROVE  At(f, "search.completed") = {}
<1>1. \A i \in DOMAIN f : i = 1 \/ i \in 2..Len(f)
  BY FrameTypes
<1> QED
  BY <1>1 DEF At, Racing

\* One more lane is sent and no longer pending.
LEMMA ReportKeeps ==
    ASSUME NEW f \in Seq(Frames), NEW e \in Frames, NEW c, NEW d,
           Told(f), Racing(c, f),
           c.pending \in SUBSET Suppliers,
           e.type \in {"supplier.results", "supplier.failed"}, e.supplier \in c.pending,
           d.pending = c.pending \ {e.supplier},
           d.count.succeeded = c.count.succeeded + IF e.type = "supplier.results" THEN 1 ELSE 0,
           d.count.failed = c.count.failed + IF e.type = "supplier.failed" THEN 1 ELSE 0,
           d.count.offers = c.count.offers + IF e.type = "supplier.results" THEN e.answer.offers ELSE 0
    PROVE  Told(f \o <<e>>) /\ Racing(d, f \o <<e>>)
<1> DEFINE g == f \o <<e>>
<1> DEFINE n == Len(f)
<1>1. n \in Nat /\ DOMAIN f = 1..n
  BY FrameTypes
<1>2. n # 0 /\ 1 \in 1..n
  BY <1>1, NotEmpty DEF Racing
<1>3. /\ Len(g) = n + 1 /\ DOMAIN g = 1..n + 1
      /\ \A i \in 1..n : g[i] = f[i]
      /\ g[n + 1] = e
  BY AppendOne
<1>a. \A type :
        /\ At(g, type) = At(f, type) \union IF e.type = type THEN {n + 1} ELSE {}
        /\ Cardinality(At(g, type)) = Cardinality(At(f, type)) + IF e.type = type THEN 1 ELSE 0
  BY AppendOne
<1>b. /\ IsFiniteSet(OffersOf(g))
      /\ Cardinality(OffersOf(g)) = Cardinality(OffersOf(f)) +
            IF e.type = "supplier.results" THEN e.answer.offers ELSE 0
  BY OffersAppended DEF Racing
<1> HIDE DEF g
<1>4. /\ At(g, "search.completed") = At(f, "search.completed")
      /\ Cardinality(At(g, "supplier.results")) =
            Cardinality(At(f, "supplier.results")) + IF e.type = "supplier.results" THEN 1 ELSE 0
      /\ Cardinality(At(g, "supplier.failed")) =
            Cardinality(At(f, "supplier.failed")) + IF e.type = "supplier.failed" THEN 1 ELSE 0
  BY <1>a
<1>5. At(g, "search.completed") = {}
  BY <1>4, RacingHasNotEnded
<1>6. \A i \in 1..n + 1 : i \in 1..n \/ i = n + 1
  BY <1>1
<1>7. \A i \in 1..n : ~Reports(f[i], e.supplier)
  <2> SUFFICES ASSUME NEW i \in 1..n, Reports(f[i], e.supplier)  PROVE FALSE
    OBVIOUS
  <2>1. CASE i = 1
    BY <2>1 DEF Racing, Reports
  <2>2. CASE i \in 2..n
    BY <2>2 DEF Racing, Reports
  <2> QED
    BY <1>1, <2>1, <2>2
<1>8. \A s \in Suppliers : \A i, j \in DOMAIN g : Reports(g[i], s) /\ Reports(g[j], s) => i = j
  <2> SUFFICES ASSUME NEW s \in Suppliers, NEW i \in DOMAIN g, NEW j \in DOMAIN g,
                      Reports(g[i], s), Reports(g[j], s)
               PROVE  i = j
    OBVIOUS
  <2>1. CASE i \in 1..n /\ j \in 1..n
    BY <2>1, <1>1, <1>3 DEF Told
  <2>2. CASE i = n + 1 /\ j \in 1..n
    BY <2>2, <1>3, <1>7 DEF Reports
  <2>3. CASE j = n + 1 /\ i \in 1..n
    BY <2>3, <1>3, <1>7 DEF Reports
  <2> QED
    BY <1>3, <1>6, <2>1, <2>2, <2>3
<1>10. g # <<>> /\ g[1] = f[1]
  <2>1. 1 \in DOMAIN g
    BY <1>1, <1>3
  <2> QED
    BY <2>1, <1>2, <1>3
<1>c. Shaped(g)
  <2> SUFFICES ASSUME NEW i \in 2..Len(g)
               PROVE  g[i].type \in {"supplier.results", "supplier.failed"}
                         /\ g[i].supplier \in g[1].suppliers
    BY <1>10 DEF Racing, Shaped
  <2>1. CASE i \in 2..n
    <3>1. f # <<SearchFailed>>
      BY DEF Racing, SearchFailed
    <3> QED
      BY <2>1, <3>1, <1>1, <1>3, <1>10 DEF Told, Racing, Shaped
  <2>2. CASE i = n + 1
    BY <2>2, <1>3, <1>10 DEF Racing
  <2> QED
    BY <1>1, <1>3, <2>1, <2>2
<1>9. Told(g)
  BY <1>5, <1>8, <1>c DEF Told
<1>11. ASSUME NEW i \in 2..Len(g)
       PROVE  g[i].type \in {"supplier.results", "supplier.failed"} /\ g[i].supplier \notin d.pending
  <2>1. CASE i \in 2..n
    BY <2>1, <1>1, <1>3 DEF Racing
  <2>2. CASE i = n + 1
    BY <2>2, <1>3
  <2> QED
    BY <1>1, <1>3, <2>1, <2>2
<1>12. ASSUME NEW s \in g[1].suppliers \ d.pending
       PROVE  \E i \in DOMAIN g : Reports(g[i], s)
  <2>1. CASE s = e.supplier
    <3>1. n + 1 \in DOMAIN g /\ Reports(g[n + 1], s)
      BY <1>1, <1>3, <2>1 DEF Reports
    <3> QED
      BY <3>1
  <2>2. CASE s # e.supplier
    <3>1. s \in f[1].suppliers \ c.pending
      BY <1>10, <2>2
    <3>2. PICK i \in DOMAIN f : Reports(f[i], s)
      BY <3>1 DEF Racing
    <3>3. i \in DOMAIN g /\ g[i] = f[i]
      BY <1>1, <1>3
    <3> QED
      BY <3>2, <3>3
  <2> QED
    BY <2>1, <2>2
<1>13. Racing(d, g)
  BY <1>4, <1>b, <1>10, <1>11, <1>12 DEF Racing
<1> QED
  BY <1>9, <1>13 DEF g

\* The last frame of a search with nothing pending.
LEMMA CompletedKeeps ==
    ASSUME NEW f \in Seq(Frames), NEW c, NEW e \in Frames,
           Told(f), Racing(c, f), c.pending = {},
           e.type = "search.completed", e.count = c.count
    PROVE  /\ Told(f \o <<e>>)
           /\ At(f \o <<e>>, "supplier.results") = At(f, "supplier.results")
<1> DEFINE g == f \o <<e>>
<1> DEFINE n == Len(f)
<1>1. n \in Nat /\ DOMAIN f = 1..n
  BY FrameTypes
<1>2. n # 0 /\ 1 \in 1..n
  BY <1>1, NotEmpty DEF Racing
<1>3. /\ Len(g) = n + 1 /\ DOMAIN g = 1..n + 1
      /\ \A i \in 1..n : g[i] = f[i]
      /\ g[n + 1] = e
  BY AppendOne
<1>a. \A type : At(g, type) = At(f, type) \union IF e.type = type THEN {n + 1} ELSE {}
  BY AppendOne
<1> HIDE DEF g
<1>b. OffersOf(g) = OffersOf(f)
  <2>1. At(g, "supplier.results") = At(f, "supplier.results")
    BY <1>a
  <2>2. \A i \in At(f, "supplier.results") : g[i] = f[i]
    BY <1>1, <1>3 DEF At
  <2>3. OffersAt(f, At(f, "supplier.results")) = OffersAt(g, At(f, "supplier.results"))
    BY <2>2, OffersStay
  <2> QED
    BY <2>1, <2>3, OffersOfFrames
<1>4. /\ At(g, "search.completed") = At(f, "search.completed") \union {n + 1}
      /\ At(g, "supplier.results") = At(f, "supplier.results")
      /\ At(g, "supplier.failed") = At(f, "supplier.failed")
  BY <1>a
<1>5. At(g, "search.completed") = {n + 1}
  BY <1>4, RacingHasNotEnded
<1>6. \A i \in DOMAIN g : \A s : Reports(g[i], s) => i \in 1..n /\ Reports(f[i], s)
  <2> SUFFICES ASSUME NEW i \in DOMAIN g, NEW s, Reports(g[i], s)
               PROVE  i \in 1..n /\ Reports(f[i], s)
    OBVIOUS
  <2>1. i # n + 1
    BY <1>3 DEF Reports
  <2>2. i \in 1..n
    BY <2>1, <1>1, <1>3
  <2> QED
    BY <2>2, <1>3
<1>7. \A s \in Suppliers : \A i, j \in DOMAIN g : Reports(g[i], s) /\ Reports(g[j], s) => i = j
  BY <1>1, <1>6 DEF Told
<1>8. g[1] = f[1]
  BY <1>2, <1>3
<1>9. ASSUME NEW s \in g[1].suppliers
      PROVE  \E i \in DOMAIN g : Reports(g[i], s)
  <2>1. PICK i \in DOMAIN f : Reports(f[i], s)
    BY <1>8 DEF Racing
  <2>2. i \in DOMAIN g /\ g[i] = f[i]
    BY <1>1, <1>3
  <2> QED
    BY <2>1, <2>2
<1>10. /\ g[n + 1].count.succeeded = Cardinality(At(g, "supplier.results"))
       /\ g[n + 1].count.failed = Cardinality(At(g, "supplier.failed"))
       /\ g[n + 1].count.offers = Cardinality(OffersOf(g))
  BY <1>3, <1>4, <1>b DEF Racing
<1>c. Shaped(g)
  <2> SUFFICES ASSUME NEW i \in 2..Len(g)
               PROVE  \/ g[i].type = "search.completed"
                      \/ g[i].type \in {"supplier.results", "supplier.failed"}
                            /\ g[i].supplier \in g[1].suppliers
    BY <1>8 DEF Racing, Shaped
  <2>1. CASE i \in 2..n
    <3>1. f # <<SearchFailed>>
      BY DEF Racing, SearchFailed
    <3> QED
      BY <2>1, <3>1, <1>1, <1>3, <1>8 DEF Told, Racing, Shaped
  <2>2. CASE i = n + 1
    BY <2>2, <1>3
  <2> QED
    BY <1>1, <1>3, <2>1, <2>2
<1>11. Told(g)
  BY <1>3, <1>5, <1>7, <1>9, <1>10, <1>c DEF Told
<1> QED
  BY <1>4, <1>11 DEF g

\* A search that gave up its last lanes, k of them.
GivenUp(c, d, k) ==
    /\ d.pending = {}
    /\ d.count.succeeded = c.count.succeeded
    /\ d.count.failed = c.count.failed + k
    /\ d.count.offers = c.count.offers

\* What the budget finds pending is reported as failed, in any order.
LEMMA LateKeeps ==
    ASSUME NEW f \in Seq(Frames), NEW c, NEW d, NEW late, NEW m,
           Told(f), Racing(c, f), c.pending \in SUBSET Suppliers,
           late = SetToSeq(c.pending),
           m = [i \in DOMAIN late |-> Failed(late[i], "supplier_timeout")],
           GivenUp(c, d, Len(late))
    PROVE  /\ m \in Seq(Frames)
           /\ f \o m \in Seq(Frames)
           /\ Told(f \o m)
           /\ Racing(d, f \o m)
           /\ At(f \o m, "supplier.results") = At(f, "supplier.results")
<1> DEFINE g == f \o m
<1> DEFINE n == Len(f)
<1> DEFINE k == Len(late)
<1>1. n \in Nat /\ DOMAIN f = 1..n
  BY FrameTypes
<1>2. n # 0 /\ 1 \in 1..n
  BY <1>1, NotEmpty DEF Racing
<1>3. IsFiniteSet(c.pending)
  BY SuppliersAssumption, FS_Subset
<1>4. /\ k \in Nat /\ late \in [1..k -> c.pending]
      /\ \A i, j \in 1..k : late[i] = late[j] => i = j
      /\ \A s \in c.pending : \E i \in 1..k : late[i] = s
  <2> DEFINE S == c.pending
  <2>1. IsFiniteSet(S) /\ late = SetToSeq(S)
    BY <1>3
  <2> HIDE DEF S
  <2>2. /\ late \in [1..Cardinality(S) -> S]
        /\ \A i, j \in 1..Cardinality(S) : late[i] = late[j] => i = j
        /\ \A s \in S : \E i \in 1..Cardinality(S) : late[i] = s
        /\ Cardinality(S) \in Nat
        /\ Len(late) = Cardinality(S)
    BY <2>1, EnumeratesOnce, SMTT(30)
  <2> QED
    BY <2>2 DEF S
<1>5. \A i \in 1..k : Failed(late[i], "supplier_timeout") \in Frames
  <2> SUFFICES ASSUME NEW i \in 1..k
               PROVE  Failed(late[i], "supplier_timeout") \in Frames
    OBVIOUS
  <2>1. late[i] \in Suppliers
    BY <1>4
  <2> QED
    BY <2>1 DEF Failed, Frames, Kinds
<1>6. /\ m \in Seq(Frames) /\ Len(m) = k
      /\ \A i \in 1..k : m[i] = Failed(late[i], "supplier_timeout")
  BY <1>4, <1>5
<1>7. /\ g \in Seq(Frames) /\ Len(g) = n + k
      /\ \A i \in 1..n + k : g[i] = IF i <= n THEN f[i] ELSE m[i - n]
  <2>1. /\ f \o m \in Seq(Frames) /\ Len(f \o m) = Len(f) + Len(m)
        /\ \A i \in 1..Len(f) + Len(m) : (f \o m)[i] = IF i <= Len(f) THEN f[i] ELSE m[i - Len(f)]
    BY <1>6, ConcatProperties
  <2> QED
    BY <2>1, <1>6
<1>8. DOMAIN g = 1..n + k
  BY <1>7, FrameTypes
<1> HIDE DEF g, n, k
<1>9. \A i \in 1..n : g[i] = f[i] /\ i \in DOMAIN g
  BY <1>1, <1>4, <1>7, <1>8
<1>10. \A i \in DOMAIN g \ 1..n :
          /\ i - n \in 1..k /\ g[i] = Failed(late[i - n], "supplier_timeout")
          /\ g[i].type = "supplier.failed" /\ g[i].supplier = late[i - n]
          /\ late[i - n] \in c.pending
  <2> SUFFICES ASSUME NEW i \in DOMAIN g \ 1..n
               PROVE  /\ i - n \in 1..k /\ g[i] = Failed(late[i - n], "supplier_timeout")
                      /\ g[i].type = "supplier.failed" /\ g[i].supplier = late[i - n]
                      /\ late[i - n] \in c.pending
    OBVIOUS
  <2>1. i \in 1..n + k /\ ~(i <= n) /\ i - n \in 1..k
    BY <1>1, <1>4, <1>8, SMTT(30)
  <2>2. g[i] = Failed(late[i - n], "supplier_timeout")
    BY <2>1, <1>6, <1>7
  <2> QED
    BY <2>1, <2>2, <1>4 DEF Failed
<1>11. ASSUME NEW type, type # "supplier.failed"
       PROVE  At(g, type) = At(f, type)
  <2>1. \A i \in At(g, type) : i \in 1..n
    BY <1>10, <1>11 DEF At
  <2> QED
    BY <2>1, <1>1, <1>9 DEF At
<1>12. At(g, "search.completed") = {}
  BY <1>11, RacingHasNotEnded
<1>13. At(g, "supplier.failed") = At(f, "supplier.failed") \union (n + 1)..(n + k)
  <2>1. \A i \in (n + 1)..(n + k) : i \in DOMAIN g \ 1..n
    BY <1>1, <1>4, <1>8
  <2>2. \A i \in DOMAIN g \ 1..n : i \in (n + 1)..(n + k)
    BY <1>1, <1>4, <1>8
  <2>3. \A i \in At(g, "supplier.failed") : i \in At(f, "supplier.failed") \union (n + 1)..(n + k)
    BY <2>2, <1>1, <1>9 DEF At
  <2>4. \A i \in At(f, "supplier.failed") : i \in At(g, "supplier.failed")
    BY <1>1, <1>9 DEF At
  <2>5. \A i \in (n + 1)..(n + k) : i \in At(g, "supplier.failed")
    BY <2>1, <1>10 DEF At
  <2> QED
    BY <2>3, <2>4, <2>5
<1>14. Cardinality(At(g, "supplier.failed")) = Cardinality(At(f, "supplier.failed")) + k
  <2> DEFINE I == (n + 1)..(n + k)
  <2> DEFINE A == At(f, "supplier.failed")
  <2>1. n + 1 \in Int /\ n + k \in Int
    BY <1>1, <1>4
  <2>2. IsFiniteSet(I) /\ Cardinality(I) = IF n + 1 > n + k THEN 0 ELSE (n + k) - (n + 1) + 1
    BY <2>1, FS_Interval
  <2>3. Cardinality(I) = k
    BY <2>2, <1>1, <1>4
  <2>4. IsFiniteSet(A) /\ Cardinality(A) \in Nat /\ A \subseteq 1..n
    BY AtIsFinite DEF n
  <2>5. A \cap I = {}
    BY <2>4, <1>1, <1>4
  <2> HIDE DEF I, A
  <2>6. Cardinality(A \union I) = Cardinality(A) + Cardinality(I) - Cardinality(A \cap I)
    BY <2>2, <2>4, FS_Union
  <2>7. Cardinality(A \cap I) = 0
    BY <2>5, FS_EmptySet
  <2>8. Cardinality(A \union I) = Cardinality(A) + k
    BY <2>3, <2>4, <2>6, <2>7, <1>4
  <2> QED
    BY <2>8, <1>13 DEF I, A
<1>15. \A i \in DOMAIN f : \A s \in c.pending : ~Reports(f[i], s)
  <2> SUFFICES ASSUME NEW i \in DOMAIN f, NEW s \in c.pending, Reports(f[i], s)  PROVE FALSE
    OBVIOUS
  <2>1. CASE i = 1
    BY <2>1 DEF Racing, Reports
  <2>2. CASE i \in 2..n
    BY <2>2 DEF Racing, Reports, n
  <2> QED
    BY <1>1, <2>1, <2>2
<1>16. \A s \in Suppliers : \A i, j \in DOMAIN g : Reports(g[i], s) /\ Reports(g[j], s) => i = j
  <2> SUFFICES ASSUME NEW s \in Suppliers, NEW i \in DOMAIN g, NEW j \in DOMAIN g,
                      Reports(g[i], s), Reports(g[j], s)
               PROVE  i = j
    OBVIOUS
  <2>1. CASE i \in 1..n /\ j \in 1..n
    BY <2>1, <1>1, <1>9 DEF Told
  <2>2. CASE i \in 1..n /\ j \notin 1..n
    BY <2>2, <1>1, <1>9, <1>10, <1>15 DEF Reports
  <2>3. CASE j \in 1..n /\ i \notin 1..n
    BY <2>3, <1>1, <1>9, <1>10, <1>15 DEF Reports
  <2>4. CASE i \notin 1..n /\ j \notin 1..n
    <3>1. late[i - n] = late[j - n] /\ i - n \in 1..k /\ j - n \in 1..k
      BY <2>4, <1>10 DEF Reports
    <3>2. i - n = j - n
      BY <3>1, <1>4
    <3> QED
      BY <3>2, <1>1, <1>4, <1>8
  <2> QED
    BY <2>1, <2>2, <2>3, <2>4
<1>18. g # <<>> /\ g[1] = f[1]
  BY <1>2, <1>9
<1>23. OffersOf(g) = OffersOf(f)
  <2>1. At(g, "supplier.results") = At(f, "supplier.results")
    BY <1>11
  <2>2. \A i \in At(f, "supplier.results") : g[i] = f[i]
    BY <1>1, <1>9 DEF At
  <2> QED
    BY <2>1, <2>2, OffersStay, OffersOfFrames
<1>24. Shaped(g)
  <2> SUFFICES ASSUME NEW i \in 2..Len(g)
               PROVE  g[i].type \in {"supplier.results", "supplier.failed"}
                         /\ g[i].supplier \in g[1].suppliers
    BY <1>18 DEF Racing, Shaped
  <2>1. CASE i \in 2..n
    <3>1. f # <<SearchFailed>>
      BY DEF Racing, SearchFailed
    <3> QED
      BY <2>1, <3>1, <1>1, <1>9, <1>18 DEF Told, Racing, Shaped, n
  <2>2. CASE i \notin 1..n
    <3>1. i \in DOMAIN g \ 1..n
      BY <2>2, <1>1, <1>4, <1>7, <1>8
    <3> QED
      BY <3>1, <1>10, <1>18 DEF Racing
  <2> QED
    BY <1>1, <1>4, <1>7, <2>1, <2>2
<1>17. Told(g)
  BY <1>12, <1>16, <1>24 DEF Told
<1>19. ASSUME NEW i \in 2..Len(g)
       PROVE  g[i].type \in {"supplier.results", "supplier.failed"} /\ g[i].supplier \notin d.pending
  <2>1. CASE i \in 2..n
    BY <2>1, <1>1, <1>9 DEF Racing, GivenUp, n
  <2>2. CASE i \notin 1..n
    <3>1. i \in DOMAIN g \ 1..n
      BY <2>2, <1>1, <1>4, <1>7, <1>8
    <3> QED
      BY <3>1, <1>10 DEF GivenUp
  <2> QED
    BY <1>1, <1>4, <1>7, <2>1, <2>2
<1>20. ASSUME NEW s \in g[1].suppliers \ d.pending
       PROVE  \E i \in DOMAIN g : Reports(g[i], s)
  <2>1. CASE s \in c.pending
    <3>1. PICK i \in 1..k : late[i] = s
      BY <2>1, <1>4
    <3>2. n + i \in DOMAIN g \ 1..n /\ (n + i) - n = i
      BY <1>1, <1>4, <1>8
    <3>3. Reports(g[n + i], s)
      BY <3>1, <3>2, <1>10 DEF Reports
    <3> QED
      BY <3>2, <3>3
  <2>2. CASE s \notin c.pending
    <3>1. s \in f[1].suppliers \ c.pending
      BY <1>18, <2>2
    <3>2. PICK i \in DOMAIN f : Reports(f[i], s)
      BY <3>1 DEF Racing
    <3> QED
      BY <3>2, <1>1, <1>9
  <2> QED
    BY <2>1, <2>2
<1>21. /\ d.count.succeeded = Cardinality(At(g, "supplier.results"))
       /\ d.count.failed = Cardinality(At(g, "supplier.failed"))
  BY <1>11, <1>14 DEF Racing, GivenUp, k
<1>22. Racing(d, g)
  BY <1>18, <1>19, <1>20, <1>21, <1>23 DEF Racing, GivenUp
<1> QED
  BY <1>6, <1>7, <1>11, <1>17, <1>22 DEF g
-----------------------------------------------------------------------------
\* A step moves one search; the others are as good as they were.
LEMMA OneMoves ==
    ASSUME SearchInv, NEW q \in Searches,
           SearchTyped', CacheOwn',
           \A p \in Searches : p # q =>
               /\ search'[p] = search[p] /\ frames'[p] = frames[p]
               /\ lane'[p] = lane[p] /\ arrived'[p] = arrived[p],
           SearchOK(search'[q], frames'[q], lane'[q], arrived'[q])
    PROVE  SearchInv'
<1>1. ASSUME NEW p \in Searches
      PROVE  SearchOK(search'[p], frames'[p], lane'[p], arrived'[p])
  BY DEF SearchInv
<1> QED
  BY <1>1 DEF SearchInv

LEMMA SearchFields ==
    ASSUME SearchTyped, NEW q \in Searches
    PROVE  /\ search[q].pc \in {"new", "refused", "resolving", "racing", "ended"}
           /\ search[q].nationality \in Nationalities
           /\ search[q].pending \in SUBSET Suppliers
           /\ search[q].timer \in {"off", "armed"}
           /\ search[q].gone \in BOOLEAN
           /\ search[q].count \in Tallies
           /\ frames[q] \in Seq(Frames)
           /\ lane[q] \in [Suppliers -> LaneStates]
           /\ arrived[q] \in SUBSET Suppliers
<1> QED
  BY DEF SearchTyped, SearchStates

LEMMA NoFrameYet ==
    ASSUME NEW c, NEW f, StreamOK(c, f), c.pc \in {"new", "refused", "resolving"}
    PROVE  f = <<>> /\ c.count = NoCount /\ \A type : At(f, type) = {}
<1> QED
  BY DEF StreamOK, At

\* The client is sent nothing: a search is refused, opened, left or torn down.
LEMMA ControllerKeeps ==
    ASSUME SearchInv, NEW q \in Searches, NEW place, NEW timer, NEW gone \in BOOLEAN,
           \/ place = search[q].pc /\ timer = search[q].timer
           \/ place \in {"refused", "resolving", "ended"} /\ search[q].pc \in {"new", "resolving"}
                /\ timer = search[q].timer
           \/ place = "ended" /\ timer = "off" /\ search[q].pc = "racing",
           search' = [search EXCEPT ![q].pc = place, ![q].timer = timer, ![q].gone = gone],
           UNCHANGED <<lane, frames, availability, arrived>>
    PROVE  SearchInv'
<1> DEFINE c == search[q]
<1> DEFINE d == [search[q] EXCEPT !.pc = place, !.timer = timer, !.gone = gone]
<1>1. SearchTyped /\ CacheOwn /\ SearchOK(c, frames[q], lane[q], arrived[q])
  BY DEF SearchInv
<1>2. /\ search' = [search EXCEPT ![q] = d]
      /\ c \in SearchStates
  BY <1>1 DEF SearchTyped
<1>3. d \in SearchStates
  BY <1>2 DEF SearchStates
<1>4. /\ d.pc = place /\ d.timer = timer /\ d.pending = c.pending /\ d.nationality = c.nationality
      /\ d.count = c.count
  BY <1>2 DEF SearchStates
<1> HIDE DEF d
<1>5. SearchTyped' /\ search'[q] = d /\ \A p \in Searches : p # q => search'[p] = search[p]
  <2>1. search \in [Searches -> SearchStates] /\ d \in SearchStates
    BY <1>1, <1>3 DEF SearchTyped
  <2>2. /\ search' \in [Searches -> SearchStates] /\ search'[q] = d
        /\ \A p \in Searches : p # q => search'[p] = search[p]
    BY <2>1, <1>2
  <2> QED
    BY <2>2, <1>1 DEF SearchTyped
<1>6. CacheOwn'
  BY <1>1 DEF CacheOwn
<1>7. frames[q] \in Seq(Frames) /\ arrived[q] \in SUBSET Suppliers
  BY <1>1, SearchFields
<1>8. RatesOwn(d, frames[q], lane[q])
  BY <1>1, <1>4 DEF SearchOK, RatesOwn
<1>9. CASE place = c.pc /\ timer = c.timer
  <2>1. StreamOK(d, frames[q])
    BY <1>1, <1>4, <1>9 DEF SearchOK, StreamOK, Racing
  <2>2. ArrivedOK(d, frames[q], lane[q], arrived[q])
    BY <1>1, <1>4, <1>9 DEF SearchOK, ArrivedOK
  <2>3. SearchOK(d, frames[q], lane[q], arrived[q])
    BY <2>1, <2>2, <1>8 DEF SearchOK
  <2> QED
    BY <2>3, <1>5, <1>6, OneMoves
<1>10. CASE place \in {"refused", "resolving", "ended"} /\ c.pc \in {"new", "resolving"} /\ timer = c.timer
  <2>1. frames[q] = <<>> /\ c.count = NoCount /\ At(frames[q], "search.completed") = {}
    BY <1>1, <1>10, NoFrameYet DEF SearchOK
  <2>2. StreamOK(d, frames[q])
    BY <1>1, <1>4, <1>10, <2>1 DEF SearchOK, StreamOK
  <2>3. ArrivedOK(d, frames[q], lane[q], arrived[q])
    BY <1>1, <1>4, <1>10, <2>1 DEF SearchOK, ArrivedOK
  <2>4. SearchOK(d, frames[q], lane[q], arrived[q])
    BY <2>2, <2>3, <1>8 DEF SearchOK
  <2> QED
    BY <2>4, <1>5, <1>6, OneMoves
<1>11. CASE place = "ended" /\ timer = "off" /\ c.pc = "racing"
  <2>1. At(frames[q], "search.completed") = {}
    BY <1>1, <1>7, <1>11, RacingHasNotEnded DEF SearchOK, StreamOK
  <2>2. StreamOK(d, frames[q])
    BY <1>1, <1>4, <1>11 DEF SearchOK, StreamOK
  <2>3. ArrivedOK(d, frames[q], lane[q], arrived[q])
    BY <1>4, <1>11, <2>1 DEF ArrivedOK
  <2>4. SearchOK(d, frames[q], lane[q], arrived[q])
    BY <2>2, <2>3, <1>8 DEF SearchOK
  <2> QED
    BY <2>4, <1>5, <1>6, OneMoves
<1> QED
  BY <1>9, <1>10, <1>11

\* A lane moves on; it may have delivered, in time or not.
LEMMA LaneKeeps ==
    ASSUME SearchInv, NEW q \in Searches, NEW s \in Suppliers, NEW l,
           lane[q][s].pc \in Running,
           l \in LaneStates,
           l.pc \in {"storing", "pricing", "delivered"} =>
               l.answer \in Answers /\ l.answer.applied = search[q].nationality,
           Becomes(q, s, l),
           availability' \in [Suppliers -> [Nationalities -> Answers \union {Miss}]],
           CacheOwn',
           UNCHANGED <<search, frames>>
    PROVE  SearchInv'
<1> DEFINE c == search[q]
<1> DEFINE f == frames[q]
<1>1. SearchTyped /\ SearchOK(c, f, lane[q], arrived[q])
  BY DEF SearchInv
<1>2. /\ lane' = [lane EXCEPT ![q] = [lane[q] EXCEPT ![s] = l]]
      /\ lane'[q] = [lane[q] EXCEPT ![s] = l]
      /\ lane' \in [Searches -> [Suppliers -> LaneStates]]
      /\ \A p \in Searches : p # q => lane'[p] = lane[p]
  BY <1>1 DEF Becomes, SearchTyped
<1>3. /\ lane'[q][s] = l
      /\ \A r \in Suppliers : r # s => lane'[q][r] = lane[q][r]
  BY <1>1, <1>2 DEF SearchTyped
<1>4. /\ arrived' \in [Searches -> SUBSET Suppliers]
      /\ \A p \in Searches : p # q => arrived'[p] = arrived[p]
      /\ arrived'[q] = arrived[q] \/ (arrived'[q] = arrived[q] \union {s}
            /\ l.pc = "delivered" /\ c.timer = "armed")
  <2>1. arrived \in [Searches -> SUBSET Suppliers]
    BY <1>1 DEF SearchTyped
  <2>2. CASE l.pc = "delivered" /\ search[q].timer = "armed"
    <3>1. arrived' = [arrived EXCEPT ![q] = arrived[q] \union {s}]
      BY <2>2 DEF Becomes
    <3> QED
      BY <3>1, <2>1, <2>2
  <2>3. CASE ~(l.pc = "delivered" /\ search[q].timer = "armed")
    <3>1. arrived' = arrived
      BY <2>3 DEF Becomes
    <3> QED
      BY <3>1, <2>1
  <2> QED
    BY <2>2, <2>3
<1>5. SearchTyped'
  BY <1>1, <1>2, <1>4 DEF SearchTyped
<1>6. StreamOK(c, f)
  BY <1>1 DEF SearchOK
<1>7. RatesOwn(c, f, lane'[q])
  BY <1>1, <1>3 DEF SearchOK, RatesOwn
<1>8. ArrivedOK(c, f, lane'[q], arrived'[q])
  <2>1. ArrivedOK(c, f, lane[q], arrived[q])
    BY <1>1 DEF SearchOK
  <2>2. arrived[q] \in SUBSET Suppliers
    BY <1>1, SearchFields
  <2>3. c.timer = "armed" => c.pc = "racing"
    BY <2>1 DEF ArrivedOK
  <2>4. c.pc = "racing" => s \in c.pending
    BY <2>1 DEF ArrivedOK
  <2>5. c.pc \in {"new", "refused", "resolving"} => arrived'[q] = {}
    BY <2>1, <2>3, <1>4 DEF ArrivedOK
  <2>6. ASSUME c.pc = "racing", NEW r \in Suppliers, lane'[q][r].pc \in Running
        PROVE  r \in c.pending
    <3>1. CASE r = s
      BY <3>1, <2>4, <2>6
    <3>2. CASE r # s
      BY <3>2, <2>1, <2>6, <1>3 DEF ArrivedOK
    <3> QED
      BY <3>1, <3>2
  <2>7. ASSUME c.pc = "racing", NEW r \in arrived'[q]
        PROVE  Delivered(f, r) \/ (r \in c.pending /\ lane'[q][r].pc = "delivered")
    <3>1. CASE r = s /\ r \notin arrived[q]
      BY <3>1, <1>3, <1>4, <2>4, <2>7
    <3>2. CASE r \in arrived[q]
      <4>1. Delivered(f, r) \/ (r \in c.pending /\ lane[q][r].pc = "delivered")
        BY <3>2, <2>1, <2>7 DEF ArrivedOK
      <4>2. lane[q][r].pc = "delivered" => r # s
        BY DEF Running
      <4> QED
        BY <4>1, <4>2, <3>2, <2>2, <1>3
    <3> QED
      BY <3>1, <3>2, <1>4
  <2>8. c.pc = "ended" => arrived'[q] = arrived[q]
    BY <2>3, <1>4
  <2>9. c.pc = "ended" /\ At(f, "search.completed") # {} => \A r \in arrived'[q] : Delivered(f, r)
    BY <2>1, <2>8 DEF ArrivedOK
  <2> QED
    BY <2>3, <2>5, <2>6, <2>7, <2>9 DEF ArrivedOK
<1>9. SearchOK(c, f, lane'[q], arrived'[q])
  BY <1>6, <1>7, <1>8 DEF SearchOK
<1> QED
  BY <1>2, <1>4, <1>5, <1>9, OneMoves

\* The client of a search is sent something, and the generator moves on.
LEMMA StreamKeeps ==
    ASSUME SearchInv, NEW q \in Searches, NEW d \in SearchStates, NEW g \in Seq(Frames),
           search' = [search EXCEPT ![q] = d],
           frames' = [frames EXCEPT ![q] = g],
           UNCHANGED <<lane, availability, arrived>>,
           SearchOK(d, g, lane[q], arrived[q])
    PROVE  SearchInv'
<1>1. SearchTyped /\ CacheOwn
  BY DEF SearchInv
<1>2. /\ search' \in [Searches -> SearchStates] /\ search'[q] = d
      /\ \A p \in Searches : p # q => search'[p] = search[p]
  BY <1>1 DEF SearchTyped
<1>3. /\ frames' \in [Searches -> Seq(Frames)] /\ frames'[q] = g
      /\ \A p \in Searches : p # q => frames'[p] = frames[p]
  BY <1>1 DEF SearchTyped
<1>4. SearchTyped'
  BY <1>1, <1>2, <1>3 DEF SearchTyped
<1>5. CacheOwn'
  BY <1>1 DEF CacheOwn
<1> QED
  BY <1>2, <1>3, <1>4, <1>5, OneMoves

\* A search that fails before any lane is started sends that, unless it was left.
LEMMA FailedKeeps ==
    ASSUME SearchInv, NEW q \in Searches, search[q].pc \in {"new", "resolving"},
           Stream(q, <<SearchFailed>>),
           search' = [search EXCEPT ![q].pc = "ended"],
           UNCHANGED <<lane, availability, arrived>>
    PROVE  SearchInv'
<1> DEFINE c == search[q]
<1> DEFINE d == [search[q] EXCEPT !.pc = "ended"]
<1> DEFINE f == frames[q]
<1> DEFINE g == IF search[q].gone THEN f ELSE f \o <<SearchFailed>>
<1>1. SearchTyped /\ SearchOK(c, f, lane[q], arrived[q])
  BY DEF SearchInv
<1>2. c \in SearchStates /\ f \in Seq(Frames)
  BY <1>1 DEF SearchTyped
<1>3. /\ d \in SearchStates /\ search' = [search EXCEPT ![q] = d]
      /\ d.pc = "ended" /\ d.timer = c.timer /\ d.nationality = c.nationality
  BY <1>1, <1>2 DEF SearchStates, SearchTyped
<1>4. SearchFailed \in Frames /\ SearchFailed.type = "search.failed"
  BY DEF SearchFailed, Frames
<1>5. f = <<>> /\ \A type : At(f, type) = {}
  BY <1>1, NoFrameYet DEF SearchOK
<1>6. /\ g \in Seq(Frames) /\ \A i \in DOMAIN g : g[i] = SearchFailed
      /\ frames' = [frames EXCEPT ![q] = g]
  BY <1>2, <1>4, <1>5 DEF Stream
<1> HIDE DEF d, g
<1>7. \A type : type # "search.failed" => At(g, type) = {}
  BY <1>4, <1>6 DEF At
<1>8. Told(g)
  <2>1. Shaped(g)
    BY <1>5, <1>6 DEF Shaped, g
  <2> QED
    BY <2>1, <1>4, <1>6, <1>7 DEF Told, Reports
<1>9. StreamOK(d, g)
  BY <1>3, <1>8 DEF StreamOK
<1>10. RatesOwn(d, g, lane[q])
  BY <1>1, <1>3, <1>7 DEF SearchOK, RatesOwn
<1>11. ArrivedOK(d, g, lane[q], arrived[q])
  <2>1. c.timer # "armed"
    BY <1>1 DEF SearchOK, ArrivedOK
  <2> QED
    BY <2>1, <1>3, <1>7 DEF ArrivedOK
<1>12. SearchOK(d, g, lane[q], arrived[q])
  BY <1>9, <1>10, <1>11 DEF SearchOK
<1> QED
  BY <1>3, <1>6, <1>12, StreamKeeps

LEMMA RequestKeeps ==
    ASSUME SearchInv, NEW q \in Searches, Request(q)
    PROVE  SearchInv'
<1>1. SearchTyped
  BY DEF SearchInv
<1>2. CASE Refuse(q)
  <2>1. search' = [search EXCEPT ![q].pc = "refused", ![q].timer = search[q].timer,
                                 ![q].gone = search[q].gone]
    BY <1>1, <1>2 DEF Refuse, SearchTyped, SearchStates
  <2>2. search[q].gone \in BOOLEAN
    BY <1>1, SearchFields
  <2>3. search[q].pc = "new" /\ UNCHANGED <<lane, frames, availability, arrived>>
    BY <1>2 DEF Refuse
  <2> QED
    BY <2>1, <2>2, <2>3, ControllerKeeps
<1>3. CASE OpenStream(q)
  <2>1. search' = [search EXCEPT ![q].pc = "resolving", ![q].timer = search[q].timer,
                                 ![q].gone = search[q].gone]
    BY <1>1, <1>3 DEF OpenStream, SearchTyped, SearchStates
  <2>2. search[q].gone \in BOOLEAN
    BY <1>1, SearchFields
  <2>3. search[q].pc = "new" /\ UNCHANGED <<lane, frames, availability, arrived>>
    BY <1>3 DEF OpenStream
  <2> QED
    BY <2>1, <2>2, <2>3, ControllerKeeps
<1>4. CASE OpenAndFail(q)
  BY <1>4, FailedKeeps DEF OpenAndFail
<1> QED
  BY <1>2, <1>3, <1>4 DEF Request

LEMMA DisconnectKeeps ==
    ASSUME SearchInv, NEW q \in Searches, Disconnect(q)
    PROVE  SearchInv'
<1>1. search' = [search EXCEPT ![q].pc = search[q].pc, ![q].timer = search[q].timer, ![q].gone = TRUE]
  BY DEF Disconnect, SearchInv, SearchTyped, SearchStates
<1> QED
  BY <1>1, ControllerKeeps DEF Disconnect

LEMMA AccountsKeep ==
    ASSUME SearchInv, NEW q \in Searches, Accounts(q)
    PROVE  SearchInv'
<1> DEFINE c == search[q]
<1> DEFINE f == frames[q]
<1>1. SearchTyped /\ CacheOwn /\ SearchOK(c, f, lane[q], arrived[q])
  BY DEF SearchInv
<1>2. CASE AccountsFail(q)
  <2>1. /\ search[q].pc = "resolving" /\ Stream(q, <<SearchFailed>>)
        /\ search' = [search EXCEPT ![q].pc = "ended"]
        /\ UNCHANGED <<lane, availability, arrived>>
    BY <1>2 DEF AccountsFail
  <2> QED
    BY <2>1, FailedKeeps
<1>3. CASE ResolvedTooLate(q)
  <2>1. search' = [search EXCEPT ![q].pc = "ended", ![q].timer = search[q].timer,
                                 ![q].gone = search[q].gone]
    BY <1>1, <1>3 DEF ResolvedTooLate, SearchTyped, SearchStates
  <2>2. search[q].gone \in BOOLEAN
    BY <1>1, SearchFields
  <2>3. search[q].pc = "resolving" /\ UNCHANGED <<lane, frames, availability, arrived>>
    BY <1>3 DEF ResolvedTooLate
  <2> QED
    BY <2>1, <2>2, <2>3, ControllerKeeps
<1>4. CASE AccountsResolved(q)
  <2>1. PICK queried \in Enabled[q] :
          /\ Stream(q, <<[type |-> "search.started", suppliers |-> queried]>>)
          /\ search' = [search EXCEPT
                ![q].pc = "racing", ![q].pending = queried,
                ![q].timer = IF queried = {} THEN "off" ELSE "armed"]
          /\ lane' = [lane EXCEPT ![q] = [s \in Suppliers |->
                IF s \in queried THEN [IdleLane EXCEPT !.pc = "cache"] ELSE IdleLane]]
    BY <1>4 DEF AccountsResolved
  <2>2. c.pc = "resolving" /\ ~c.gone /\ UNCHANGED <<availability, arrived>>
    BY <1>4 DEF AccountsResolved
  <2>3. queried \in SUBSET Suppliers
    BY EnabledAssumption
  <2> DEFINE e == [type |-> "search.started", suppliers |-> queried]
  <2> DEFINE g == <<e>>
  <2> DEFINE d == [search[q] EXCEPT !.pc = "racing", !.pending = queried,
                       !.timer = IF queried = {} THEN "off" ELSE "armed"]
  <2> DEFINE l == [s \in Suppliers |->
                      IF s \in queried THEN [IdleLane EXCEPT !.pc = "cache"] ELSE IdleLane]
  <2>4. c \in SearchStates /\ search \in [Searches -> SearchStates]
    BY <1>1 DEF SearchTyped
  <2>5. /\ d \in SearchStates /\ search' = [search EXCEPT ![q] = d]
        /\ d.pc = "racing" /\ d.pending = queried /\ d.count = c.count
    BY <2>1, <2>3, <2>4 DEF SearchStates
  <2>6. f = <<>>
    BY <1>1, <2>2, NoFrameYet DEF SearchOK
  <2>7. e \in Frames /\ e.type = "search.started" /\ e.suppliers = queried
    BY <2>3 DEF Frames
  <2>8. frames' = [frames EXCEPT ![q] = g]
    BY <2>1, <2>2, <2>6 DEF Stream
  <2>9. g \in Seq(Frames) /\ g # <<>> /\ Len(g) = 1 /\ DOMAIN g = {1} /\ g[1] = e
    BY <2>7
  <2>10. /\ \A s \in Suppliers : l[s] \in LaneStates /\ l[s].pc \in {"cache", "off"}
         /\ \A s \in Suppliers : l[s].pc = "cache" => s \in queried
         /\ l \in [Suppliers -> LaneStates]
    BY DEF LaneStates, IdleLane, Running, Kinds
  <2>11. lane' = [lane EXCEPT ![q] = l]
    BY <2>1
  <2>12. arrived[q] = {}
    BY <1>1, <2>2 DEF SearchOK, ArrivedOK
  <2>13. c.count.succeeded = 0 /\ c.count.failed = 0 /\ c.count.offers = 0
    BY <1>1, <2>2, NoFrameYet DEF SearchOK, NoCount
  <2> HIDE DEF d, g, l, e
  <2>14. \A type : type # "search.started" => At(g, type) = {}
    BY <2>7, <2>9 DEF At
  <2>15. Told(g)
    <3>1. Shaped(g)
      BY <2>7, <2>9 DEF Shaped
    <3> QED
      BY <3>1, <2>7, <2>9, <2>14 DEF Told, Reports
  <2>16. Racing(d, g)
    <3>1. /\ Cardinality(At(g, "supplier.results")) = 0
          /\ Cardinality(At(g, "supplier.failed")) = 0
      BY <2>14, FS_EmptySet
    <3>2. g # <<>> /\ g[1].type = "search.started" /\ g[1].suppliers = queried
      BY <2>7, <2>9
    <3>3. d.count.succeeded = 0 /\ d.count.failed = 0 /\ d.count.offers = 0 /\ d.pending = queried
      BY <2>5, <2>13
    <3>4. \A i \in 2..Len(g) : FALSE
      BY <2>9
    <3>5. OffersOf(g) = {}
      BY <2>14, OffersOfFrames DEF OffersAt
    <3> QED
      BY <3>1, <3>2, <3>3, <3>4, <3>5, FS_EmptySet DEF Racing
  <2>17. StreamOK(d, g)
    BY <2>5, <2>15, <2>16 DEF StreamOK
  <2>18. RatesOwn(d, g, l)
    BY <2>10, <2>14 DEF RatesOwn
  <2>19. ArrivedOK(d, g, l, arrived[q])
    BY <2>5, <2>10, <2>12 DEF ArrivedOK, Running
  <2>20. SearchOK(d, g, l, arrived[q])
    BY <2>17, <2>18, <2>19 DEF SearchOK
  <2>21. /\ search' \in [Searches -> SearchStates] /\ search'[q] = d
         /\ \A p \in Searches : p # q => search'[p] = search[p]
    BY <2>4, <2>5
  <2>22. /\ frames' \in [Searches -> Seq(Frames)] /\ frames'[q] = g
         /\ \A p \in Searches : p # q => frames'[p] = frames[p]
    BY <1>1, <2>8, <2>9 DEF SearchTyped
  <2>23. /\ lane' \in [Searches -> [Suppliers -> LaneStates]] /\ lane'[q] = l
         /\ \A p \in Searches : p # q => lane'[p] = lane[p]
    BY <1>1, <2>10, <2>11 DEF SearchTyped
  <2>24. SearchTyped' /\ CacheOwn'
    BY <1>1, <2>2, <2>21, <2>22, <2>23 DEF SearchTyped, CacheOwn
  <2> QED
    BY <2>2, <2>20, <2>21, <2>22, <2>23, <2>24, OneMoves
<1> QED
  BY <1>2, <1>3, <1>4 DEF Accounts

\* What is known of the search and its frames when a lane of it has settled.
LEMMA EventIsFrame ==
    ASSUME SearchInv, NEW q \in Searches, NEW s \in Suppliers,
           lane[q][s].pc \in {"delivered", "failed"}
    PROVE  /\ EventOf(q, s) \in Frames
           /\ EventOf(q, s).supplier = s
           /\ lane[q][s].pc = "delivered" =>
                 /\ EventOf(q, s).type = "supplier.results"
                 /\ EventOf(q, s).answer.applied = search[q].nationality
           /\ lane[q][s].pc = "failed" => EventOf(q, s).type = "supplier.failed"
<1>1. lane[q][s].pc = "delivered" =>
          lane[q][s].answer \in Answers /\ lane[q][s].answer.applied = search[q].nationality
  BY DEF SearchInv, SearchOK, RatesOwn
<1>2. lane[q][s].kind \in Kinds
  BY DEF SearchInv, SearchTyped, LaneStates
<1>3. CASE lane[q][s].pc = "delivered"
  BY <1>1, <1>3 DEF EventOf, Frames
<1>4. CASE lane[q][s].pc = "failed"
  BY <1>2, <1>4 DEF EventOf, Failed, Frames
<1> QED
  BY <1>3, <1>4

LEMMA CountedIsCount ==
    ASSUME NEW count \in Tallies, NEW l, l.pc = "delivered" => l.answer.offers \in Nat
    PROVE  Counted(count, l) \in Tallies
<1> DEFINE n == l.answer.offers
<1>1. count \in [succeeded : Nat, failed : Nat, offers : Nat]
  BY DEF Tallies
<1>2. CASE l.pc = "delivered"
  <2>1. n \in Nat
    BY <1>2
  <2>2. Counted(count, l) = [count EXCEPT !.succeeded = @ + 1, !.offers = @ + n]
    BY <1>2 DEF Counted
  <2> HIDE DEF n
  <2> DEFINE a == count.succeeded + 1
  <2> DEFINE b == count.offers + n
  <2>3. a \in Nat /\ b \in Nat
    BY <1>1, <2>1
  <2>4. Counted(count, l) = [count EXCEPT !.succeeded = a, !.offers = b]
    BY <2>2
  <2> HIDE DEF a, b
  <2>5. [count EXCEPT !.succeeded = a, !.offers = b] \in [succeeded : Nat, failed : Nat, offers : Nat]
    BY <1>1, <2>3
  <2> QED
    BY <2>4, <2>5 DEF Tallies
<1>3. CASE l.pc # "delivered"
  BY <1>1, <1>3 DEF Counted, Tallies
<1> QED
  BY <1>2, <1>3

LEMMA ConsumeKeeps ==
    ASSUME SearchInv, NEW q \in Searches, NEW s \in Suppliers, Consume(q, s)
    PROVE  SearchInv'
<1> DEFINE c == search[q]
<1> DEFINE f == frames[q]
<1> DEFINE e == EventOf(q, s)
<1> DEFINE d == [search[q] EXCEPT !.pending = c.pending \ {s}, !.count = Counted(c.count, lane[q][s])]
<1> DEFINE g == f \o <<e>>
<1>1. SearchTyped /\ CacheOwn /\ SearchOK(c, f, lane[q], arrived[q])
  BY DEF SearchInv
<1>2. /\ c.pc = "racing" /\ ~c.gone /\ s \in c.pending
      /\ lane[q][s].pc \in {"delivered", "failed"}
      /\ UNCHANGED <<lane, availability, arrived>>
  BY DEF Consume, Settled
<1>3. c \in SearchStates /\ search \in [Searches -> SearchStates] /\ f \in Seq(Frames)
  BY <1>1 DEF SearchTyped
<1>4. /\ e \in Frames /\ e.supplier = s
      /\ lane[q][s].pc = "delivered" =>
            e.type = "supplier.results" /\ e.answer.applied = c.nationality
      /\ lane[q][s].pc = "failed" => e.type = "supplier.failed"
  BY <1>2, EventIsFrame
<1>5. Counted(c.count, lane[q][s]) \in Tallies
  <2>1. c.count \in Tallies
    BY <1>3 DEF SearchStates
  <2>2. lane[q][s].pc = "delivered" => lane[q][s].answer.offers \in Nat
    BY <1>1 DEF SearchOK, RatesOwn, Answers
  <2> QED
    BY <2>1, <2>2, CountedIsCount
<1>6. /\ Counted(c.count, lane[q][s]).succeeded =
            c.count.succeeded + IF e.type = "supplier.results" THEN 1 ELSE 0
      /\ Counted(c.count, lane[q][s]).failed =
            c.count.failed + IF e.type = "supplier.failed" THEN 1 ELSE 0
      /\ Counted(c.count, lane[q][s]).offers =
            c.count.offers + IF e.type = "supplier.results" THEN e.answer.offers ELSE 0
  <2>1. c.count \in [succeeded : Nat, failed : Nat, offers : Nat]
    BY <1>3 DEF SearchStates, Tallies
  <2>4. lane[q][s].pc = "delivered" => e.answer = lane[q][s].answer
    BY DEF EventOf
  <2> HIDE DEF c, e
  <2>2. CASE lane[q][s].pc = "delivered"
    BY <2>1, <2>2, <2>4, <1>4 DEF Counted
  <2>3. CASE lane[q][s].pc = "failed"
    BY <2>1, <2>3, <1>4 DEF Counted
  <2> QED
    BY <1>2, <2>2, <2>3
<1>7. /\ d \in SearchStates /\ search' = [search EXCEPT ![q] = d]
      /\ d.pc = "racing" /\ d.pending = c.pending \ {s} /\ d.timer = c.timer
      /\ d.nationality = c.nationality /\ d.count = Counted(c.count, lane[q][s])
  BY <1>2, <1>3, <1>5 DEF Consume, Remaining, SearchStates
<1>8. frames' = [frames EXCEPT ![q] = g]
  BY <1>2 DEF Consume, Stream
<1>9. g \in Seq(Frames)
  BY <1>3, <1>4, AppendOne
<1>10. \A type : At(g, type) = At(f, type) \union IF e.type = type THEN {Len(f) + 1} ELSE {}
  BY <1>3, <1>4, AppendOne
<1>11. (\A i \in 1..Len(f) : g[i] = f[i]) /\ g[Len(f) + 1] = e
  BY <1>3, <1>4, AppendOne
<1>12. DOMAIN f = 1..Len(f) /\ Len(f) \in Nat
  BY <1>3, FrameTypes
<1>13. Told(f) /\ Racing(c, f) /\ c.pending \in SUBSET Suppliers
  BY <1>1, <1>2, <1>3 DEF SearchOK, StreamOK, SearchStates
<1> HIDE DEF d, e
<1>14. Told(g) /\ Racing(d, g)
  <2>1. e.type \in {"supplier.results", "supplier.failed"} /\ e.supplier \in c.pending
        /\ d.pending = c.pending \ {e.supplier}
    BY <1>2, <1>4, <1>7
  <2>2. d.count.succeeded = c.count.succeeded + IF e.type = "supplier.results" THEN 1 ELSE 0
    BY <1>6, <1>7
  <2>3. d.count.failed = c.count.failed + IF e.type = "supplier.failed" THEN 1 ELSE 0
    BY <1>6, <1>7
  <2>4. d.count.offers = c.count.offers + IF e.type = "supplier.results" THEN e.answer.offers ELSE 0
    BY <1>6, <1>7
  <2> QED
    BY <1>3, <1>4, <1>13, <2>1, <2>2, <2>3, <2>4, ReportKeeps
<1> HIDE DEF g
<1>15. StreamOK(d, g)
  BY <1>7, <1>14 DEF StreamOK
<1>16. RatesOwn(d, g, lane[q])
  <2>1. RatesOwn(c, f, lane[q])
    BY <1>1 DEF SearchOK
  <2>2. ASSUME NEW i \in At(g, "supplier.results")
        PROVE  g[i].answer.applied = d.nationality
    <3>1. CASE i \in At(f, "supplier.results")
      BY <3>1, <2>1, <1>7, <1>11, <1>12 DEF RatesOwn, At
    <3>2. CASE i = Len(f) + 1 /\ e.type = "supplier.results"
      BY <3>2, <1>2, <1>4, <1>7, <1>11
    <3> QED
      BY <3>1, <3>2, <1>10
  <2> QED
    BY <2>1, <2>2, <1>7 DEF RatesOwn
<1>17. ArrivedOK(d, g, lane[q], arrived[q])
  <2>1. ArrivedOK(c, f, lane[q], arrived[q]) /\ arrived[q] \in SUBSET Suppliers
    BY <1>1, SearchFields DEF SearchOK
  <2>2. ASSUME NEW r \in Suppliers, lane[q][r].pc \in Running
        PROVE  r \in d.pending
    BY <2>1, <2>2, <1>2, <1>7 DEF ArrivedOK, Running
  <2>3. ASSUME NEW r, Delivered(f, r)
        PROVE  Delivered(g, r)
    <3>1. PICK i \in At(f, "supplier.results") : f[i].supplier = r
      BY <2>3 DEF Delivered
    <3>2. i \in At(g, "supplier.results") /\ g[i] = f[i]
      BY <1>10, <1>11, <1>12 DEF At
    <3> QED
      BY <3>1, <3>2 DEF Delivered
  <2>4. ASSUME NEW r \in arrived[q]
        PROVE  Delivered(g, r) \/ (r \in d.pending /\ lane[q][r].pc = "delivered")
    <3>1. Delivered(f, r) \/ (r \in c.pending /\ lane[q][r].pc = "delivered")
      BY <2>1, <1>2 DEF ArrivedOK
    <3>2. CASE r = s /\ lane[q][s].pc = "delivered"
      <4>1. Len(f) + 1 \in At(g, "supplier.results")
        BY <3>2, <1>4, <1>10
      <4> QED
        BY <3>2, <4>1, <1>4, <1>11 DEF Delivered
    <3> QED
      BY <3>1, <3>2, <2>3, <1>7
  <2> QED
    BY <2>1, <2>2, <2>4, <1>2, <1>7 DEF ArrivedOK
<1>18. SearchOK(d, g, lane[q], arrived[q])
  BY <1>15, <1>16, <1>17 DEF SearchOK
<1> QED
  BY <1>2, <1>7, <1>8, <1>9, <1>18, StreamKeeps

\* The end of a search: the client, unless it left, is sent what completes it.
LEMMA EndKeeps ==
    ASSUME SearchInv, NEW q \in Searches, NEW d \in SearchStates, NEW sent,
           search[q].pc = "racing", search' = [search EXCEPT ![q] = d],
           d.pc = "ended", d.timer = "off", d.nationality = search[q].nationality,
           frames[q] \o sent \in Seq(Frames),
           Told(frames[q] \o sent),
           At(frames[q] \o sent, "supplier.results") = At(frames[q], "supplier.results"),
           \A i \in At(frames[q], "supplier.results") : (frames[q] \o sent)[i] = frames[q][i],
           \A s \in search[q].pending : lane[q][s].pc # "delivered",
           Stream(q, sent),
           UNCHANGED <<lane, availability, arrived>>
    PROVE  SearchInv'
<1> DEFINE c == search[q]
<1> DEFINE f == frames[q]
<1> DEFINE g == IF c.gone THEN f ELSE f \o sent
<1>1. SearchTyped /\ SearchOK(c, f, lane[q], arrived[q])
  BY DEF SearchInv
<1>2. f \in Seq(Frames) /\ g \in Seq(Frames)
  BY <1>1, SearchFields
<1>3. frames' = [frames EXCEPT ![q] = g]
  BY DEF Stream
<1>4. Told(f) /\ Racing(c, f)
  BY <1>1 DEF SearchOK, StreamOK
<1>5. Told(g)
  BY <1>4
<1>6. /\ At(g, "supplier.results") = At(f, "supplier.results")
      /\ \A i \in At(f, "supplier.results") : g[i] = f[i]
  OBVIOUS
<1>7. RatesOwn(d, g, lane[q])
  BY <1>1, <1>6 DEF SearchOK, RatesOwn
<1>8. ASSUME NEW s \in arrived[q]
      PROVE  Delivered(g, s)
  <2>1. Delivered(f, s)
    BY <1>1 DEF SearchOK, ArrivedOK
  <2> QED
    BY <2>1, <1>6 DEF Delivered
<1> HIDE DEF g
<1>9. StreamOK(d, g)
  BY <1>5 DEF StreamOK
<1>10. ArrivedOK(d, g, lane[q], arrived[q])
  BY <1>8 DEF ArrivedOK
<1>11. SearchOK(d, g, lane[q], arrived[q])
  BY <1>7, <1>9, <1>10 DEF SearchOK
<1> QED
  BY <1>2, <1>3, <1>11, StreamKeeps

LEMMA CompletedIsFrame ==
    ASSUME NEW count \in Tallies, NEW status \in {"complete", "budget_exhausted"}
    PROVE  /\ Completed(status, count) \in Frames
           /\ Completed(status, count).type = "search.completed"
           /\ Completed(status, count).count = count
<1> QED
  BY DEF Completed, Frames

LEMMA CompleteKeeps ==
    ASSUME SearchInv, NEW q \in Searches, Complete(q)
    PROVE  SearchInv'
<1> DEFINE c == search[q]
<1> DEFINE f == frames[q]
<1> DEFINE e == Completed("complete", c.count)
<1> DEFINE d == [search[q] EXCEPT !.pc = "ended", !.timer = "off"]
<1>1. SearchTyped /\ SearchOK(c, f, lane[q], arrived[q])
  BY DEF SearchInv
<1>2. /\ c.pc = "racing" /\ c.pending = {} /\ Stream(q, <<e>>)
      /\ UNCHANGED <<lane, availability, arrived>>
  BY DEF Complete
<1>3. c \in SearchStates /\ search \in [Searches -> SearchStates] /\ f \in Seq(Frames)
  BY <1>1 DEF SearchTyped
<1>4. /\ d \in SearchStates /\ search' = [search EXCEPT ![q] = d]
      /\ d.pc = "ended" /\ d.timer = "off" /\ d.nationality = c.nationality
  BY <1>3 DEF Complete, SearchStates
<1>5. e \in Frames /\ e.type = "search.completed" /\ e.count = c.count
  BY <1>3, CompletedIsFrame DEF SearchStates
<1>6. Told(f) /\ Racing(c, f)
  BY <1>1, <1>2 DEF SearchOK, StreamOK
<1> HIDE DEF d, e
<1>7. /\ Told(f \o <<e>>)
      /\ At(f \o <<e>>, "supplier.results") = At(f, "supplier.results")
  BY <1>2, <1>3, <1>5, <1>6, CompletedKeeps
<1>8. f \o <<e>> \in Seq(Frames) /\ \A i \in 1..Len(f) : (f \o <<e>>)[i] = f[i]
  BY <1>3, <1>5, AppendOne
<1>9. \A i \in At(f, "supplier.results") : (f \o <<e>>)[i] = f[i]
  BY <1>3, <1>8, AtIsFinite
<1>10. \A s \in c.pending : lane[q][s].pc # "delivered"
  BY <1>2
<1> QED
  BY <1>2, <1>4, <1>7, <1>8, <1>9, <1>10, EndKeeps

LEMMA BudgetKeeps ==
    ASSUME SearchInv, NEW q \in Searches, BudgetExpires(q)
    PROVE  SearchInv'
<1> DEFINE c == search[q]
<1> DEFINE f == frames[q]
<1> DEFINE late == SetToSeq(c.pending)
<1> DEFINE k == Len(late)
<1> DEFINE count == [c.count EXCEPT !.failed = c.count.failed + k]
<1> DEFINE m == [i \in DOMAIN late |-> Failed(late[i], "supplier_timeout")]
<1> DEFINE e == Completed("budget_exhausted", count)
<1> DEFINE d == [search[q] EXCEPT !.pc = "ended", !.timer = "off", !.count = count]
<1> DEFINE told == [pending |-> {}, count |-> count]
<1>1. SearchTyped /\ SearchOK(c, f, lane[q], arrived[q])
  BY DEF SearchInv
<1>2. /\ TurnBegins /\ c.pc = "racing" /\ c.timer = "armed" /\ Stream(q, m \o <<e>>)
      /\ search' = [search EXCEPT ![q].pc = "ended", ![q].timer = "off", ![q].count = count]
      /\ UNCHANGED <<lane, availability, arrived>>
  BY DEF BudgetExpires
<1>3. c \in SearchStates /\ search \in [Searches -> SearchStates] /\ f \in Seq(Frames)
  BY <1>1 DEF SearchTyped
<1>4. c.pending \in SUBSET Suppliers /\ c.count \in Tallies
  BY <1>3 DEF SearchStates
<1>5. k \in Nat
  <2>1. IsFiniteSet(c.pending)
    BY <1>4, SuppliersAssumption, FS_Subset
  <2> QED
    BY <2>1, EnumeratesOnce
<1>6. /\ count \in Tallies /\ count.succeeded = c.count.succeeded
      /\ count.failed = c.count.failed + k /\ count.offers = c.count.offers
  <2> HIDE DEF k
  <2> QED
    BY <1>4, <1>5 DEF Tallies
<1>7. Told(f) /\ Racing(c, f)
  BY <1>1, <1>2 DEF SearchOK, StreamOK
<1> HIDE DEF count, late, m
<1>8. /\ d \in SearchStates /\ search' = [search EXCEPT ![q] = d]
      /\ d.pc = "ended" /\ d.timer = "off" /\ d.nationality = c.nationality
  BY <1>2, <1>3, <1>6 DEF SearchStates
<1>9. e \in Frames /\ e.type = "search.completed" /\ e.count = count
  BY <1>6, CompletedIsFrame
<1>10. /\ m \in Seq(Frames) /\ f \o m \in Seq(Frames)
       /\ Told(f \o m) /\ Racing(told, f \o m)
       /\ At(f \o m, "supplier.results") = At(f, "supplier.results")
  <2>1. /\ late = SetToSeq(c.pending)
        /\ m = [i \in DOMAIN late |-> Failed(late[i], "supplier_timeout")]
    BY DEF late, m
  <2>2. told.pending = {} /\ told.count = count
    OBVIOUS
  <2>3. GivenUp(c, told, Len(late))
    BY <2>2, <1>6 DEF GivenUp
  <2>4. c.pending \in SUBSET Suppliers /\ f \in Seq(Frames)
    BY <1>3, <1>4
  <2> HIDE DEF told, c, f, k, e, d
  <2> QED
    BY <2>1, <2>3, <2>4, <1>7, LateKeeps, SMTT(30)
<1> DEFINE g == f \o m
<1>11. told.pending = {} /\ told.count = count
  OBVIOUS
<1>12. f \o (m \o <<e>>) = g \o <<e>>
  <2>1. <<e>> \in Seq(Frames)
    BY <1>9
  <2>2. f \in Seq(Frames) /\ m \in Seq(Frames)
    BY <1>3, <1>10
  <2> HIDE DEF e, f
  <2>3. (f \o m) \o <<e>> = f \o (m \o <<e>>)
    BY <2>1, <2>2, ConcatAssociative
  <2> QED
    BY <2>3
<1>13. \A i \in At(f, "supplier.results") : i \in 1..Len(f) /\ g[i] = f[i] /\ i \in 1..Len(g)
  <2>1. Len(g) = Len(f) + Len(m) /\ \A i \in 1..Len(f) + Len(m) :
            g[i] = IF i <= Len(f) THEN f[i] ELSE m[i - Len(f)]
    BY <1>3, <1>10, ConcatProperties
  <2>2. Len(f) \in Nat /\ Len(m) \in Nat
    BY <1>3, <1>10, FrameTypes
  <2>3. At(f, "supplier.results") \subseteq 1..Len(f)
    BY <1>3, AtIsFinite
  <2> QED
    BY <2>1, <2>2, <2>3
<1> HIDE DEF d, e, told, g
<1>14. g \in Seq(Frames) /\ Told(g) /\ Racing(told, g)
  BY <1>10 DEF g
<1>15. /\ Told(g \o <<e>>)
       /\ At(g \o <<e>>, "supplier.results") = At(g, "supplier.results")
  BY <1>9, <1>11, <1>14, CompletedKeeps
<1>16. At(g \o <<e>>, "supplier.results") = At(f, "supplier.results")
  BY <1>15, <1>10 DEF g
<1>17. g \o <<e>> \in Seq(Frames) /\ \A i \in 1..Len(g) : (g \o <<e>>)[i] = g[i]
  BY <1>9, <1>14, AppendOne
<1>18. \A i \in At(f, "supplier.results") : (g \o <<e>>)[i] = f[i]
  BY <1>13, <1>17
<1>19. \A s \in c.pending : lane[q][s].pc # "delivered"
  BY <1>2 DEF TurnBegins, Quiet, Settled
<1> DEFINE sent == m \o <<e>>
<1>20. f \o sent = g \o <<e>> /\ Stream(q, sent)
  BY <1>2, <1>12
<1> HIDE DEF sent
<1>21. /\ f \o sent \in Seq(Frames)
       /\ Told(f \o sent)
       /\ At(f \o sent, "supplier.results") = At(f, "supplier.results")
       /\ \A i \in At(f, "supplier.results") : (f \o sent)[i] = f[i]
  BY <1>15, <1>16, <1>17, <1>18, <1>20
<1> QED
  BY <1>2, <1>8, <1>19, <1>20, <1>21, EndKeeps

LEMMA TurnKeeps ==
    ASSUME SearchInv, NEW q \in Searches, Turn(q)
    PROVE  SearchInv'
<1>1. CASE Complete(q)
  BY <1>1, CompleteKeeps
<1>2. ASSUME NEW s \in Suppliers, Consume(q, s)
      PROVE  SearchInv'
  BY <1>2, ConsumeKeeps
<1>3. ASSUME NEW s \in Suppliers, TearDown(q, s)
      PROVE  SearchInv'
  <2>1. search' = [search EXCEPT ![q].pc = "ended", ![q].timer = "off",
                                 ![q].gone = search[q].gone]
    <3>1. search' = [search EXCEPT ![q].pc = "ended", ![q].timer = "off"]
      BY <1>3 DEF TearDown
    <3>2. search[q] \in SearchStates /\ search \in [Searches -> SearchStates]
      BY DEF SearchInv, SearchTyped
    <3>3. [search[q] EXCEPT !.pc = "ended", !.timer = "off", !.gone = search[q].gone]
            = [search[q] EXCEPT !.pc = "ended", !.timer = "off"]
      BY <3>2 DEF SearchStates
    <3> QED
      BY <3>1, <3>2, <3>3
  <2>2. search[q].gone \in BOOLEAN
    BY SearchFields DEF SearchInv
  <2>3. search[q].pc = "racing" /\ UNCHANGED <<lane, frames, availability, arrived>>
    BY <1>3 DEF TearDown
  <2> QED
    BY <2>1, <2>2, <2>3, ControllerKeeps
<1> QED
  BY <1>1, <1>2, <1>3 DEF Turn

LEMMA PricedIsLane ==
    ASSUME NEW l \in LaneStates, NEW answer \in Answers
    PROVE  Priced(l, answer) \in LaneStates /\ Priced(l, answer).answer = answer
<1>1. answer.offers \in Int
  BY DEF Answers
<1> DEFINE place == IF answer.offers = 0 THEN "delivered" ELSE "pricing"
<1>2. place \in Running \union {"off", "delivered", "failed"}
  BY DEF Running
<1>3. Priced(l, answer) = [l EXCEPT !.answer = answer, !.todo = answer.offers, !.pc = place]
  BY DEF Priced
<1> HIDE DEF place
<1> QED
  BY <1>1, <1>2, <1>3 DEF LaneStates

\* What every step of a lane shares.
LEMMA LaneFacts ==
    ASSUME SearchInv, NEW q \in Searches, NEW s \in Suppliers
    PROVE  /\ lane[q][s] \in LaneStates
           /\ search[q].nationality \in Nationalities
           /\ lane[q][s].pc \in {"storing", "pricing", "delivered"} =>
                 lane[q][s].answer \in Answers /\ lane[q][s].answer.applied = search[q].nationality
           /\ availability \in [Suppliers -> [Nationalities -> Answers \union {Miss}]]
           /\ \A n \in Nationalities : availability[s][n] # Miss =>
                 availability[s][n] \in Answers /\ availability[s][n].applied = n
           /\ CacheOwn
<1>1. SearchTyped /\ CacheOwn /\ RatesOwn(search[q], frames[q], lane[q])
  BY DEF SearchInv, SearchOK
<1>2. lane[q][s] \in LaneStates
  BY <1>1 DEF SearchTyped
<1>3. search[q].nationality \in Nationalities
  BY <1>1, SearchFields
<1>4. lane[q][s].pc \in {"storing", "pricing", "delivered"} =>
          lane[q][s].answer \in Answers /\ lane[q][s].answer.applied = search[q].nationality
  BY <1>1 DEF RatesOwn
<1>5. availability \in [Suppliers -> [Nationalities -> Answers \union {Miss}]]
  BY <1>1 DEF SearchTyped
<1>6. \A n \in Nationalities : availability[s][n] # Miss =>
          availability[s][n] \in Answers /\ availability[s][n].applied = n
  BY <1>1, <1>5 DEF CacheOwn
<1> QED
  BY <1>1, <1>2, <1>3, <1>4, <1>5, <1>6

\* A step of a lane that leaves the cache alone.
LEMMA LaneMoves ==
    ASSUME SearchInv, NEW q \in Searches, NEW s \in Suppliers, NEW l \in LaneStates,
           lane[q][s].pc \in Running,
           l.pc \in {"storing", "pricing", "delivered"} =>
               l.answer \in Answers /\ l.answer.applied = search[q].nationality,
           Becomes(q, s, l),
           UNCHANGED <<search, frames, availability>>
    PROVE  SearchInv'
<1>1. availability' \in [Suppliers -> [Nationalities -> Answers \union {Miss}]] /\ CacheOwn'
  BY LaneFacts DEF CacheOwn
<1> QED
  BY <1>1, LaneKeeps

LEMMA FailsKeeps ==
    ASSUME SearchInv, NEW q \in Searches, NEW s \in Suppliers, NEW kind \in Kinds,
           lane[q][s].pc \in Running, Fails(q, s, kind)
    PROVE  SearchInv'
<1> DEFINE l == [IdleLane EXCEPT !.pc = "failed", !.kind = kind]
<1>1. l \in LaneStates /\ l.pc = "failed"
  <2>1. IdleLane \in LaneStates
    BY DEF IdleLane, LaneStates, Kinds
  <2> QED
    BY <2>1 DEF LaneStates
<1>2. Becomes(q, s, l) /\ UNCHANGED <<search, frames, availability>>
  BY DEF Fails
<1> HIDE DEF l
<1> QED
  BY <1>1, <1>2, LaneMoves

LEMMA StoreKeeps ==
    ASSUME SearchInv, NEW q \in Searches, NEW s \in Suppliers, Store(q, s)
    PROVE  SearchInv'
<1> DEFINE n == search[q].nationality
<1> DEFINE answer == lane[q][s].answer
<1> DEFINE l == Priced(lane[q][s], answer)
<1>1. /\ lane[q][s].pc = "storing" /\ Becomes(q, s, l) /\ UNCHANGED <<search, frames>>
      /\ availability' = availability \/ availability' = [availability EXCEPT ![s][n] = answer]
  BY DEF Store, LaneAt, AvailabilityCacheKey
<1>2. n \in Nationalities /\ answer \in Answers /\ answer.applied = n
  BY <1>1, LaneFacts
<1>3. l \in LaneStates /\ l.answer = answer
  BY <1>2, LaneFacts, PricedIsLane
<1>4. /\ availability \in [Suppliers -> [Nationalities -> Answers \union {Miss}]]
      /\ CacheOwn
  BY LaneFacts
<1> HIDE DEF l, n, answer
<1>5. availability' \in [Suppliers -> [Nationalities -> Answers \union {Miss}]]
  BY <1>1, <1>2, <1>4
<1>6. CacheOwn'
  <2> SUFFICES ASSUME NEW r \in Suppliers, NEW k \in Nationalities, availability'[r][k] # Miss
               PROVE  availability'[r][k].applied = k
    BY DEF CacheOwn
  <2>1. availability'[r][k] = availability[r][k] \/ (r = s /\ k = n /\ availability'[r][k] = answer)
    BY <1>1, <1>2, <1>4
  <2> QED
    BY <2>1, <1>2, <1>4 DEF CacheOwn
<1>7. lane[q][s].pc \in Running
  BY <1>1 DEF Running
<1>8. l.pc \in {"storing", "pricing", "delivered"} =>
          l.answer \in Answers /\ l.answer.applied = search[q].nationality
  BY <1>2, <1>3 DEF n
<1> QED
  BY <1>1, <1>3, <1>5, <1>6, <1>7, <1>8, LaneKeeps

LEMMA LaneStepKeeps ==
    ASSUME SearchInv, NEW q \in Searches, NEW s \in Suppliers, Lane(q, s)
    PROVE  SearchInv'
<1> DEFINE n == search[q].nationality
<1>1. CASE CacheHit(q, s)
  <2> DEFINE cached == availability[s][n]
  <2> DEFINE l == Priced(lane[q][s], cached)
  <2>1. /\ lane[q][s].pc = "cache" /\ cached # Miss /\ Becomes(q, s, l)
        /\ UNCHANGED <<search, frames, availability>>
    BY <1>1 DEF CacheHit, LaneAt, AvailabilityCacheKey
  <2>2. cached \in Answers /\ cached.applied = n
    BY <2>1, LaneFacts
  <2>3. l \in LaneStates /\ l.answer = cached
    BY <2>2, LaneFacts, PricedIsLane
  <2>4. lane[q][s].pc \in Running
    BY <2>1 DEF Running
  <2> HIDE DEF l, cached
  <2> QED
    BY <2>1, <2>2, <2>3, <2>4, LaneMoves
<1>2. CASE CacheMiss(q, s)
  <2> DEFINE l == [lane[q][s] EXCEPT !.pc = "calling"]
  <2>1. /\ lane[q][s].pc = "cache" /\ Becomes(q, s, l)
        /\ UNCHANGED <<search, frames, availability>>
    BY <1>2 DEF CacheMiss, LaneAt
  <2>2. lane[q][s] \in LaneStates
    BY LaneFacts
  <2>3. l \in LaneStates /\ l.pc = "calling" /\ lane[q][s].pc \in Running
    BY <2>1, <2>2 DEF LaneStates, Running
  <2> HIDE DEF l
  <2> QED
    BY <2>1, <2>3, LaneMoves
<1>3. CASE SupplierAnswers(q, s)
  <2>1. PICK offers \in OfferCounts :
          Becomes(q, s, [lane[q][s] EXCEPT !.pc = "storing",
                          !.answer = [applied |-> n, offers |-> offers]])
    BY <1>3 DEF SupplierAnswers
  <2>2. lane[q][s].pc = "calling" /\ UNCHANGED <<search, frames, availability>>
    BY <1>3 DEF SupplierAnswers, LaneAt
  <2> DEFINE answer == [applied |-> n, offers |-> offers]
  <2> DEFINE l == [lane[q][s] EXCEPT !.pc = "storing", !.answer = answer]
  <2>3. answer \in Answers /\ answer.applied = n
    BY LaneFacts, OfferCountsAssumption DEF Answers
  <2>4. Becomes(q, s, l)
    BY <2>1
  <2>5. lane[q][s] \in LaneStates
    BY LaneFacts
  <2> HIDE DEF answer
  <2>6. l \in LaneStates /\ l.answer = answer /\ lane[q][s].pc \in Running
    BY <2>2, <2>3, <2>5 DEF LaneStates, Running
  <2> HIDE DEF l
  <2> QED
    BY <2>2, <2>3, <2>4, <2>6, LaneMoves
<1>4. CASE SupplierFails(q, s)
  <2>1. lane[q][s].pc \in Running
    BY <1>4 DEF SupplierFails, LaneAt, Running
  <2>2. PICK kind \in {"supplier_timeout", "supplier_unavailable"} : Fails(q, s, kind)
    BY <1>4 DEF SupplierFails
  <2>3. kind \in Kinds
    BY DEF Kinds
  <2> QED
    BY <2>1, <2>2, <2>3, FailsKeeps
<1>5. CASE Store(q, s)
  BY <1>5, StoreKeeps
<1>6. CASE IssueOffer(q, s)
  <2> DEFINE place == IF lane[q][s].todo = 1 THEN "delivered" ELSE "pricing"
  <2> DEFINE todo == lane[q][s].todo - 1
  <2> DEFINE l == [lane[q][s] EXCEPT !.todo = todo, !.pc = place]
  <2>1. /\ lane[q][s].pc = "pricing" /\ Becomes(q, s, l)
        /\ UNCHANGED <<search, frames, availability>>
    BY <1>6 DEF IssueOffer, LaneAt
  <2>2. lane[q][s] \in LaneStates /\ lane[q][s].answer \in Answers /\ lane[q][s].answer.applied = n
    BY <2>1, LaneFacts
  <2>3. place \in Running \union {"off", "delivered", "failed"} /\ lane[q][s].pc \in Running
    BY <2>1 DEF Running
  <2>a. todo \in Int
    BY <2>2 DEF LaneStates
  <2> HIDE DEF place, todo
  <2>4. l \in LaneStates /\ l.answer = lane[q][s].answer
    BY <2>2, <2>3, <2>a DEF LaneStates
  <2> HIDE DEF l
  <2> QED
    BY <2>1, <2>2, <2>3, <2>4, LaneMoves
<1>7. CASE IssueFails(q, s)
  <2>1. lane[q][s].pc \in Running /\ Fails(q, s, "supplier_unavailable")
    BY <1>7 DEF IssueFails, LaneAt, Running
  <2>2. "supplier_unavailable" \in Kinds
    BY DEF Kinds
  <2> QED
    BY <2>1, <2>2, FailsKeeps
<1> QED
  BY <1>1, <1>2, <1>3, <1>4, <1>5, <1>6, <1>7 DEF Lane

LEMMA SearchInvInit == SearchInit => SearchInv
<1> SUFFICES ASSUME SearchInit  PROVE SearchInv
  OBVIOUS
<1>1. PICK body \in [Searches -> Bodies], nationality \in [Searches -> Nationalities] :
          search = [q \in Searches |->
            [pc |-> "new", body |-> body[q], nationality |-> nationality[q],
             pending |-> {}, timer |-> "off", gone |-> FALSE, count |-> NoCount]]
  BY DEF SearchInit
<1>2. /\ search \in [Searches -> SearchStates]
      /\ \A q \in Searches : search[q].pc = "new" /\ search[q].timer = "off" /\ search[q].count = NoCount
  BY <1>1 DEF SearchStates, NoCount, Tallies
<1>3. IdleLane \in LaneStates /\ IdleLane.pc = "off"
  BY DEF IdleLane, LaneStates, Kinds
<1>4. /\ lane \in [Searches -> [Suppliers -> LaneStates]]
      /\ \A q \in Searches, s \in Suppliers : lane[q][s].pc = "off"
  BY <1>3 DEF SearchInit
<1>5. /\ frames \in [Searches -> Seq(Frames)] /\ \A q \in Searches : frames[q] = <<>>
      /\ availability \in [Suppliers -> [Nationalities -> Answers \union {Miss}]]
      /\ arrived \in [Searches -> SUBSET Suppliers] /\ \A q \in Searches : arrived[q] = {}
  BY DEF SearchInit
<1>6. SearchTyped
  BY <1>2, <1>4, <1>5 DEF SearchTyped
<1>7. CacheOwn
  BY DEF SearchInit, CacheOwn
<1>8. ASSUME NEW q \in Searches
      PROVE  SearchOK(search[q], frames[q], lane[q], arrived[q])
  <2>1. StreamOK(search[q], frames[q])
    BY <1>2, <1>5 DEF StreamOK, Told, Shaped, At
  <2>2. RatesOwn(search[q], frames[q], lane[q])
    BY <1>4, <1>5 DEF RatesOwn, At
  <2>3. ArrivedOK(search[q], frames[q], lane[q], arrived[q])
    BY <1>2, <1>5 DEF ArrivedOK
  <2> QED
    BY <2>1, <2>2, <2>3 DEF SearchOK
<1> QED
  BY <1>6, <1>7, <1>8 DEF SearchInv

LEMMA SearchInvNext == SearchInv /\ [SearchNext]_searchVars => SearchInv'
<1> SUFFICES ASSUME SearchInv, [SearchNext]_searchVars  PROVE SearchInv'
  OBVIOUS
<1>1. CASE UNCHANGED searchVars
  BY <1>1 DEF searchVars, SearchInv, SearchTyped, CacheOwn
<1>2. ASSUME NEW q \in Searches,
             \/ Request(q) \/ Disconnect(q) \/ Accounts(q) \/ Turn(q) \/ BudgetExpires(q)
             \/ \E s \in Suppliers : Lane(q, s)
      PROVE  SearchInv'
  <2>1. CASE Request(q)
    BY <2>1, RequestKeeps
  <2>2. CASE Disconnect(q)
    BY <2>2, DisconnectKeeps
  <2>3. CASE Accounts(q)
    BY <2>3, AccountsKeep
  <2>4. CASE Turn(q)
    BY <2>4, TurnKeeps
  <2>5. CASE BudgetExpires(q)
    BY <2>5, BudgetKeeps
  <2>6. ASSUME NEW s \in Suppliers, Lane(q, s)
        PROVE  SearchInv'
    BY <2>6, LaneStepKeeps
  <2> QED
    BY <1>2, <2>1, <2>2, <2>3, <2>4, <2>5, <2>6
<1> QED
  BY <1>1, <1>2 DEF SearchNext

\* Whatever lanes, the budget, failures and a leaving client do, and in whatever
\* order, a client is told at most once of each supplier, of all of them if it is
\* told of the end, and the lanes that succeeded and failed and the offers it was
\* sent are counted right (search.service.ts search, relayed by search.controller.ts).
THEOREM SuppliersToldOnce == SearchSpec => []SuppliersAccountedFor
<1>1. SearchInv => SuppliersAccountedFor
  <2> SUFFICES ASSUME SearchInv, NEW q \in Searches  PROVE Told(frames[q])
    BY DEF SuppliersAccountedFor, EachToldOnce, OffersAddUp, Told, At, Sent
  <2> QED
    BY DEF SearchInv, SearchOK, StreamOK
<1> QED
  BY <1>1, SearchInvInit, SearchInvNext, PTL DEF SearchSpec

\* Every lane that delivered before the budget expired is in the answer of a
\* search that completed, however many delivered together and however close to
\* the expiry (search.service.ts, header).
THEOREM ArrivedAreReturned == SearchSpec => []ArrivedIsReturned
<1>1. SearchInv => ArrivedIsReturned
  <2> SUFFICES ASSUME SearchInv, NEW q \in Searches, Sent(q, "search.completed") # {},
                      NEW s \in arrived[q]
               PROVE  ReportedAs(q, s, "supplier.results")
    BY DEF ArrivedIsReturned
  <2>1. At(frames[q], "search.completed") # {}
    BY DEF Sent, At
  <2>2. /\ StreamOK(search[q], frames[q]) /\ ArrivedOK(search[q], frames[q], lane[q], arrived[q])
        /\ search[q].pc \in {"new", "refused", "resolving", "racing", "ended"}
        /\ frames[q] \in Seq(Frames)
    BY SearchFields DEF SearchInv, SearchOK
  <2>3. search[q].pc = "ended"
    BY <2>1, <2>2, NoFrameYet, RacingHasNotEnded DEF StreamOK
  <2>4. Delivered(frames[q], s)
    BY <2>1, <2>2, <2>3 DEF ArrivedOK
  <2> QED
    BY <2>4 DEF Delivered, ReportedAs, Sent, At
<1> QED
  BY <1>1, SearchInvInit, SearchInvNext, PTL DEF SearchSpec

\* No client is shown a rate priced for a nationality that is not its own, through
\* whichever searches share the cache (availability-cache.ts, cache-keys.ts).
THEOREM RatesAreOwn == SearchSpec => []NoForeignRates
<1>1. SearchInv => NoForeignRates
  <2> SUFFICES ASSUME SearchInv, NEW q \in Searches, NEW i \in DOMAIN frames[q],
                      frames[q][i].type = "supplier.results"
               PROVE  frames[q][i].answer.applied = search[q].nationality
    BY DEF NoForeignRates
  <2> QED
    BY DEF SearchInv, SearchOK, RatesOwn, At
<1> QED
  BY <1>1, SearchInvInit, SearchInvNext, PTL DEF SearchSpec
-----------------------------------------------------------------------------
(* Which searches share an answer.                                         *)

LEMMA LeastElement ==
    ASSUME NEW S, S \subseteq Nat, S # {}
    PROVE  \E n \in S : \A m \in S : n <= m
<1>1. PICK n \in S : \A m \in S : ~(<<m, n>> \in OpToRel(<, Nat))
  BY NatLessThanWellFounded, WFMin
<1>2. ASSUME NEW m \in S PROVE n <= m
  <2>1. m < n => <<m, n>> \in OpToRel(<, Nat)
    BY DEF OpToRel
  <2>2. ~(m < n)
    BY <1>1, <2>1
  <2> QED
    BY <2>2
<1> QED
  BY <1>2

\* A strict total order on V, as a set of pairs.
OrdersTotally(R, V) ==
    /\ \A x \in V : <<x, x>> \notin R
    /\ \A x, y \in V : x = y \/ <<x, y>> \in R \/ <<y, x>> \in R
    /\ \A x, y, z \in V : <<x, y>> \in R /\ <<y, z>> \in R => <<x, z>> \in R

\* Equals stay in the order they were listed in.
Ahead(list, R, i, j) == <<list[i], list[j]>> \in R \/ (list[i] = list[j] /\ i < j)

\* A stable sort exists: each entry stands after as many as are ahead of it.
LEMMA StableOrder ==
    ASSUME NEW n \in Nat, NEW V, NEW R, OrdersTotally(R, V), NEW list \in [1..n -> V]
    PROVE  \E order \in [1..n -> 1..n] :
              \A i, j \in 1..n : i < j => Ahead(list, R, order[i], order[j])
<1>1. IsFiniteSet(1..n) /\ Cardinality(1..n) = n
  BY FS_Interval
<1>2. \A i \in 1..n : ~Ahead(list, R, i, i)
  BY DEF OrdersTotally, Ahead
<1>3. ASSUME NEW i \in 1..n, NEW j \in 1..n PROVE i = j \/ Ahead(list, R, i, j) \/ Ahead(list, R, j, i)
  <2>1. list[i] \in V /\ list[j] \in V /\ (i = j \/ i < j \/ j < i)
    OBVIOUS
  <2>2. list[i] = list[j] \/ <<list[i], list[j]>> \in R \/ <<list[j], list[i]>> \in R
    BY <2>1 DEF OrdersTotally
  <2> QED
    BY <2>1, <2>2 DEF Ahead
<1>4. ASSUME NEW i \in 1..n, NEW j \in 1..n, NEW k \in 1..n,
             Ahead(list, R, i, j), Ahead(list, R, j, k)
      PROVE  Ahead(list, R, i, k)
  <2>1. list[i] \in V /\ list[j] \in V /\ list[k] \in V
    OBVIOUS
  <2> QED
    BY <1>4, <2>1 DEF OrdersTotally, Ahead
<1> DEFINE Before(i) == {j \in 1..n : Ahead(list, R, j, i)}
           rank == [i \in 1..n |-> Cardinality(Before(i)) + 1]
<1>5. ASSUME NEW i \in 1..n
      PROVE  IsFiniteSet(Before(i)) /\ Cardinality(Before(i)) \in Nat /\ rank[i] \in 1..n
  <2>1. IsFiniteSet((1..n) \ {i}) /\ Cardinality((1..n) \ {i}) = n - 1
    BY <1>1, FS_RemoveElement
  <2>2. Before(i) \in SUBSET ((1..n) \ {i})
    BY <1>2
  <2> HIDE DEF Before
  <2>3. IsFiniteSet(Before(i)) /\ Cardinality(Before(i)) <= n - 1
    BY <2>1, <2>2, FS_Subset
  <2>4. Cardinality(Before(i)) \in Nat
    BY <2>3, FS_CardinalityType
  <2> QED
    BY <2>3, <2>4
<1>6. ASSUME NEW i \in 1..n, NEW j \in 1..n, Ahead(list, R, i, j)
      PROVE  rank[i] < rank[j]
  <2>1. Before(i) \in SUBSET Before(j)
    BY <1>4, <1>6
  <2>2. i \in Before(j) /\ i \notin Before(i)
    BY <1>2, <1>6
  <2> HIDE DEF Before
  <2>3. Cardinality(Before(i)) <= Cardinality(Before(j)) /\ Cardinality(Before(i)) # Cardinality(Before(j))
    BY <1>5, <2>1, <2>2, FS_Subset
  <2> QED
    BY <1>5, <2>3
<1>7. rank \in [1..n -> 1..n]
  BY <1>5
<1> HIDE DEF rank
<1>8. rank \in Injection(1..n, 1..n)
  <2>1. ASSUME NEW i \in 1..n, NEW j \in 1..n, rank[i] = rank[j] PROVE i = j
    BY <1>3, <1>6, <1>7, <2>1
  <2> QED
    BY <1>7, <2>1 DEF Injection, IsInjective
<1>9. rank \in Surjection(1..n, 1..n)
  BY <1>1, <1>8, FS_Injection
<1>10. \A k \in 1..n : \E i \in 1..n : rank[i] = k
  BY <1>9 DEF Surjection
<1> DEFINE order == [k \in 1..n |-> CHOOSE i \in 1..n : rank[i] = k]
<1>11. order \in [1..n -> 1..n] /\ \A k \in 1..n : rank[order[k]] = k
  BY <1>10
<1> HIDE DEF order
<1>12. ASSUME NEW i \in 1..n, NEW j \in 1..n, i < j PROVE Ahead(list, R, order[i], order[j])
  <2>1. order[i] \in 1..n /\ order[j] \in 1..n /\ rank[order[i]] = i /\ rank[order[j]] = j
    BY <1>11
  <2>2. order[i] # order[j] /\ ~Ahead(list, R, order[j], order[i])
    BY <1>6, <1>12, <2>1
  <2> QED
    BY <1>3, <2>1, <2>2
<1> QED
  BY <1>11, <1>12

\* The numbers up to n, each once, in another order.
Rearranges(order, n) ==
    /\ n \in Nat /\ order \in [1..n -> 1..n]
    /\ \A i, j \in 1..n : order[i] = order[j] => i = j
    /\ \A j \in 1..n : \E i \in 1..n : order[i] = j

\* No entry is ahead of its predecessor.
InOrder(a, n, V, R) ==
    /\ n \in Nat /\ a \in [1..n -> V]
    /\ \A i, j \in 1..n : i < j => <<a[i], a[j]>> \in R \/ a[i] = a[j]

SortOf(list, n, V, R, sorted) ==
    /\ InOrder(sorted, n, V, R)
    /\ \E order : Rearranges(order, n) /\ \A i \in 1..n : sorted[i] = list[order[i]]

LEMMA OrderSorts ==
    ASSUME NEW n \in Nat, NEW V, NEW R, OrdersTotally(R, V), NEW list \in [1..n -> V],
           NEW order \in [1..n -> 1..n],
           \A i, j \in 1..n : i < j => Ahead(list, R, order[i], order[j]),
           NEW sorted, sorted = [i \in 1..n |-> list[order[i]]]
    PROVE  SortOf(list, n, V, R, sorted)
<1>1. ASSUME NEW i \in 1..n, NEW j \in 1..n, order[i] = order[j] PROVE i = j
  <2> SUFFICES ASSUME NEW k \in 1..n, NEW l \in 1..n, order[k] = order[l], k < l PROVE FALSE
    BY <1>1
  <2>1. Ahead(list, R, order[k], order[k])
    OBVIOUS
  <2>2. order[k] \in 1..n /\ list[order[k]] \in V
    OBVIOUS
  <2> QED
    BY <2>1, <2>2 DEF Ahead, OrdersTotally
<1>2. \A j \in 1..n : \E i \in 1..n : order[i] = j
  <2>1. order \in Injection(1..n, 1..n)
    BY <1>1 DEF Injection, IsInjective
  <2>2. order \in Surjection(1..n, 1..n)
    BY <2>1, FS_Interval, FS_Injection
  <2> QED
    BY <2>2 DEF Surjection
<1>3. Rearranges(order, n)
  BY <1>1, <1>2 DEF Rearranges
<1>4. \A i, j \in 1..n : i < j => <<sorted[i], sorted[j]>> \in R \/ sorted[i] = sorted[j]
  BY DEF Ahead
<1>5. sorted \in [1..n -> V] /\ \A i \in 1..n : sorted[i] = list[order[i]]
  OBVIOUS
<1>6. InOrder(sorted, n, V, R)
  BY <1>4, <1>5 DEF InOrder
<1> QED
  BY <1>3, <1>5, <1>6 DEF SortOf

-----------------------------------------------------------------------------
Lists(a, n) == n \in Nat /\ DOMAIN a = 1..n

\* How often x is listed, and where.
Places(a, x) == {i \in DOMAIN a : a[i] = x}

Tally(a, x) == Cardinality(Places(a, x))

LEMMA TallyIsNat ==
    ASSUME NEW n, NEW a, Lists(a, n)
    PROVE  \A x : /\ IsFiniteSet(Places(a, x)) /\ Tally(a, x) \in Nat
                  /\ Tally(a, x) = 0 <=> \A i \in DOMAIN a : a[i] # x
<1> TAKE x
<1> DEFINE A == Places(a, x)
<1>1. IsFiniteSet(A)
  <2>1. n \in Nat /\ A \in SUBSET (1..n)
    BY DEF Lists, Places
  <2>2. IsFiniteSet(1..n)
    BY <2>1, FS_Interval
  <2> HIDE DEF A
  <2> QED
    BY <2>1, <2>2, FS_Subset
<1>2. Cardinality(A) \in Nat /\ (Cardinality(A) = 0 <=> A = {})
  BY <1>1, FS_CardinalityType, FS_EmptySet
<1>3. A = {} <=> \A i \in DOMAIN a : a[i] # x
  BY DEF Places
<1> HIDE DEF A
<1>4. Tally(a, x) = Cardinality(A)
  BY DEF A, Tally
<1> QED
  BY <1>1, <1>2, <1>3, <1>4 DEF A

\* Counts of two lists are equal if each value is listed as often in both.
LEMMA CountsAreTallies ==
    ASSUME NEW n, NEW m, NEW a, NEW b, Lists(a, n), Lists(b, m)
    PROVE  Counts(a) = Counts(b) <=> \A x : Tally(a, x) = Tally(b, x)
<1>1. /\ Counts(a) = [x \in ToSet(a) |-> Tally(a, x)]
      /\ Counts(b) = [x \in ToSet(b) |-> Tally(b, x)]
  BY DEF Counts, Tally, Places
<1>2. \A x : x \in ToSet(a) <=> Tally(a, x) # 0
  <2>1. \A x : Tally(a, x) = 0 <=> \A i \in DOMAIN a : a[i] # x
    BY TallyIsNat
  <2> QED
    BY <2>1 DEF ToSet
<1>3. \A x : x \in ToSet(b) <=> Tally(b, x) # 0
  <2>1. \A x : Tally(b, x) = 0 <=> \A i \in DOMAIN b : b[i] # x
    BY TallyIsNat
  <2> QED
    BY <2>1 DEF ToSet
<1>4. ASSUME Counts(a) = Counts(b), NEW x PROVE Tally(a, x) = Tally(b, x)
  <2>1. ToSet(a) = DOMAIN Counts(a) /\ ToSet(b) = DOMAIN Counts(b)
    BY <1>1
  <2>2. ToSet(a) = ToSet(b)
    BY <1>4, <2>1
  <2>3. CASE x \in ToSet(a)
    <3>1. Counts(a)[x] = Tally(a, x) /\ Counts(b)[x] = Tally(b, x)
      BY <1>1, <2>2, <2>3
    <3> QED
      BY <1>4, <3>1
  <2>4. CASE x \notin ToSet(a)
    BY <1>2, <1>3, <2>2, <2>4
  <2> QED
    BY <2>3, <2>4
<1>5. ASSUME \A x : Tally(a, x) = Tally(b, x) PROVE Counts(a) = Counts(b)
  <2>1. ToSet(a) = ToSet(b)
    BY <1>2, <1>3, <1>5
  <2> QED
    BY <1>1, <1>5, <2>1
<1> QED
  BY <1>4, <1>5

\* A list that is another, rearranged, lists each value as often.
LEMMA RearrangedTallies ==
    ASSUME NEW n, NEW order, Rearranges(order, n), NEW a, Lists(a, n), NEW b, Lists(b, n),
           \A i \in 1..n : b[i] = a[order[i]]
    PROVE  \A x : Tally(a, x) = Tally(b, x)
<1> TAKE x
<1> DEFINE A == Places(a, x)
           B == Places(b, x)
           f == [i \in B |-> order[i]]
<1>0. DOMAIN a = 1..n /\ DOMAIN b = 1..n
  BY DEF Lists
<1>1. f \in Bijection(B, A)
  <2>1. f \in [B -> A]
    BY <1>0 DEF Rearranges, Places
  <2>2. \A i, j \in B : f[i] = f[j] => i = j
    BY <1>0 DEF Rearranges, Places
  <2>3. ASSUME NEW j \in A PROVE \E i \in B : f[i] = j
    <3>1. PICK i \in 1..n : order[i] = j
      BY <1>0 DEF Rearranges, Places
    <3>2. i \in B /\ f[i] = j
      BY <1>0, <3>1 DEF Places
    <3> QED
      BY <3>2
  <2> HIDE DEF f, A, B
  <2> QED
    BY <2>1, <2>2, <2>3 DEF Bijection, Injection, Surjection, IsInjective
<1>2. IsFiniteSet(B)
  BY TallyIsNat
<1> HIDE DEF A, B, f
<1>3. Cardinality(A) = Cardinality(B)
  BY <1>1, <1>2, FS_Bijection DEF ExistsBijection
<1> QED
  BY <1>3 DEF Tally, A, B

\* Lists that are the same up to i, where b has ended or goes on with a greater entry.
Parts(a, b, m, R, i) ==
    /\ \A k \in 1..(i - 1) : k <= m /\ a[k] = b[k]
    /\ i <= m => <<a[i], b[i]>> \in R

\* Where two sorted lists first differ, the lesser of the two entries is
\* listed oftener in its own.
LEMMA FirstDifference ==
    ASSUME NEW n, NEW m, NEW V, NEW R, OrdersTotally(R, V),
           NEW a, NEW b, InOrder(a, n, V, R), InOrder(b, m, V, R),
           NEW i \in 1..n, Parts(a, b, m, R, i)
    PROVE  Tally(a, a[i]) # Tally(b, a[i])
<1> DEFINE x == a[i]
           A == Places(a, x)
           B == Places(b, x)
<1>0. n \in Nat /\ m \in Nat /\ DOMAIN a = 1..n /\ DOMAIN b = 1..m /\ a \in [1..n -> V] /\ b \in [1..m -> V]
  BY DEF InOrder
<1>1. IsFiniteSet(A) /\ IsFiniteSet(B) /\ i \in A
  <2>1. Lists(a, n) /\ Lists(b, m)
    BY <1>0 DEF Lists
  <2>2. i \in A
    BY <1>0 DEF Places
  <2> QED
    BY <2>1, <2>2, TallyIsNat
<1>2. ASSUME NEW j \in B PROVE j \in A \ {i}
  <2>1. j \in 1..m /\ b[j] = x
    BY <1>0 DEF Places
  <2>2. CASE j < i
    <3>1. j \in 1..(i - 1) /\ j \in 1..n
      BY <1>0, <2>1, <2>2
    <3> QED
      BY <1>0, <2>1, <2>2, <3>1 DEF Places, Parts
  <2>3. CASE j >= i
    <3>1. i \in 1..m /\ <<x, b[i]>> \in R /\ x \in V /\ b[i] \in V /\ b[j] \in V
      BY <1>0, <2>1, <2>3 DEF Parts
    <3>2. j = i \/ i < j
      BY <1>0, <2>1, <2>3
    <3>3. b[i] = b[j] \/ <<b[i], b[j]>> \in R
      BY <2>1, <3>1, <3>2 DEF InOrder
    <3>4. <<x, b[j]>> \in R
      BY <3>1, <3>3 DEF OrdersTotally
    <3> QED
      BY <2>1, <3>1, <3>4 DEF OrdersTotally
  <2> QED
    BY <1>0, <2>1, <2>2, <2>3
<1> HIDE DEF A, B
<1>3. IsFiniteSet(A \ {i}) /\ Cardinality(A \ {i}) = Cardinality(A) - 1
  BY <1>1, FS_RemoveElement
<1>4. Cardinality(B) <= Cardinality(A \ {i})
  BY <1>2, <1>3, FS_Subset
<1>5. Cardinality(A) \in Nat /\ Cardinality(B) \in Nat
  BY <1>1, FS_CardinalityType
<1>6. Cardinality(A) # Cardinality(B)
  BY <1>3, <1>4, <1>5
<1> QED
  BY <1>6 DEF A, B, Tally

\* Sorted lists that list each value as often are the same list.
LEMMA SortedIsOne ==
    ASSUME NEW n, NEW m, NEW V, NEW R, OrdersTotally(R, V),
           NEW a, NEW b, InOrder(a, n, V, R), InOrder(b, m, V, R),
           \A x : Tally(a, x) = Tally(b, x)
    PROVE  a = b
<1> DEFINE Differ == {i \in Nat : i >= 1 /\ (i <= n \/ i <= m) /\ ~(i <= n /\ i <= m /\ a[i] = b[i])}
<1>0. n \in Nat /\ m \in Nat /\ a \in [1..n -> V] /\ b \in [1..m -> V]
  BY DEF InOrder
<1>1. CASE Differ = {}
  <2>1. n = m
    <3>1. n > m => n \in Differ
      BY <1>0
    <3>2. m > n => m \in Differ
      BY <1>0
    <3> QED
      BY <1>0, <1>1, <3>1, <3>2
  <2>2. ASSUME NEW i \in 1..n PROVE a[i] = b[i]
    <3>1. i \notin Differ /\ i \in Nat /\ i >= 1 /\ i <= n
      BY <1>0, <1>1
    <3> QED
      BY <3>1
  <2> QED
    BY <1>0, <2>1, <2>2
<1>2. CASE Differ # {}
  <2>1. PICK i \in Differ : \A j \in Differ : i <= j
    BY <1>2, LeastElement
  <2>2. \A k \in 1..(i - 1) : k <= n /\ k <= m /\ a[k] = b[k]
    <3> TAKE k \in 1..(i - 1)
    <3>1. k \notin Differ /\ k \in Nat /\ k >= 1 /\ (k <= n \/ k <= m)
      BY <1>0, <2>1
    <3> QED
      BY <3>1
  <2>3. i \in Nat /\ i >= 1 /\ (i <= n \/ i <= m) /\ ~(i <= n /\ i <= m /\ a[i] = b[i])
    BY <2>1
  <2> HIDE DEF Differ
  <2>4. CASE i <= n /\ (i <= m => <<a[i], b[i]>> \in R)
    <3>1. i \in 1..n
      BY <1>0, <2>3, <2>4
    <3>2. Parts(a, b, m, R, i)
      BY <2>2, <2>4 DEF Parts
    <3>3. Tally(a, a[i]) # Tally(b, a[i])
      BY <3>1, <3>2, FirstDifference
    <3> QED
      BY <3>3
  <2>5. CASE i <= m /\ (i <= n => <<b[i], a[i]>> \in R)
    <3>1. i \in 1..m
      BY <1>0, <2>3, <2>5
    <3>2. Parts(b, a, n, R, i)
      BY <2>2, <2>5 DEF Parts
    <3>3. Tally(b, b[i]) # Tally(a, b[i])
      BY <3>1, <3>2, FirstDifference
    <3> QED
      BY <3>3
  <2>6. CASE i <= n /\ i <= m /\ <<a[i], b[i]>> \notin R /\ <<b[i], a[i]>> \notin R
    <3>1. a[i] \in V /\ b[i] \in V /\ a[i] # b[i]
      BY <1>0, <2>3, <2>6
    <3> QED
      BY <2>6, <3>1 DEF OrdersTotally
  <2> QED
    BY <2>3, <2>4, <2>5, <2>6
<1> QED
  BY <1>1, <1>2

\* Two lists are the same once sorted if and only if they count the same.
LEMMA SortedAlike ==
    ASSUME NEW n, NEW m, NEW V, NEW R, OrdersTotally(R, V),
           NEW a, NEW b, Lists(a, n), Lists(b, m),
           NEW sa, NEW sb, SortOf(a, n, V, R, sa), SortOf(b, m, V, R, sb)
    PROVE  sa = sb <=> Counts(a) = Counts(b)
<1>1. PICK order : Rearranges(order, n) /\ \A i \in 1..n : sa[i] = a[order[i]]
  BY DEF SortOf
<1>2. PICK other : Rearranges(other, m) /\ \A i \in 1..m : sb[i] = b[other[i]]
  BY DEF SortOf
<1>3. InOrder(sa, n, V, R) /\ InOrder(sb, m, V, R)
  BY DEF SortOf
<1>4. Lists(sa, n) /\ Lists(sb, m)
  BY <1>3 DEF InOrder, Lists
<1>5. \A x : Tally(a, x) = Tally(sa, x)
  BY <1>1, <1>4, RearrangedTallies
<1>6. \A x : Tally(b, x) = Tally(sb, x)
  BY <1>2, <1>4, RearrangedTallies
<1>7. Counts(a) = Counts(b) <=> \A x : Tally(a, x) = Tally(b, x)
  BY CountsAreTallies
<1>8. ASSUME \A x : Tally(sa, x) = Tally(sb, x) PROVE sa = sb
  BY <1>3, <1>8, SortedIsOne
<1>9. (\A x : Tally(a, x) = Tally(b, x)) <=> sa = sb
  BY <1>5, <1>6, <1>8
<1> QED
  BY <1>7, <1>9
-----------------------------------------------------------------------------
Less == {p \in Int \X Int : p[1] < p[2]}

LEMMA LessOrders == OrdersTotally(Less, Int)
<1>1. \A x, y \in Int : <<x, y>> \in Less <=> x < y
  BY DEF Less
<1> QED
  BY <1>1 DEF OrdersTotally

LEMMA SortedSorts ==
    ASSUME NEW n \in Nat, NEW list \in [1..n -> Int]
    PROVE  SortOf(list, n, Int, Less, Sorted(list))
<1> DEFINE Fits(order) ==
              \A i, j \in DOMAIN list : i < j =>
                  \/ list[order[i]] < list[order[j]]
                  \/ list[order[i]] = list[order[j]] /\ order[i] < order[j]
           chosen == CHOOSE order \in [DOMAIN list -> DOMAIN list] : Fits(order)
<1>1. DOMAIN list = 1..n
  OBVIOUS
<1>2. ASSUME NEW order \in [1..n -> 1..n], NEW i \in 1..n, NEW j \in 1..n
      PROVE  Ahead(list, Less, order[i], order[j]) <=>
                \/ list[order[i]] < list[order[j]]
                \/ list[order[i]] = list[order[j]] /\ order[i] < order[j]
  <2>1. list[order[i]] \in Int /\ list[order[j]] \in Int
    OBVIOUS
  <2>2. <<list[order[i]], list[order[j]]>> \in Less <=> list[order[i]] < list[order[j]]
    BY <2>1 DEF Less
  <2> QED
    BY <2>2 DEF Ahead
<1>3. \E order \in [1..n -> 1..n] :
        \A i, j \in 1..n : i < j => Ahead(list, Less, order[i], order[j])
  BY LessOrders, StableOrder
<1>4. \E order \in [DOMAIN list -> DOMAIN list] : Fits(order)
  BY <1>1, <1>2, <1>3
<1>5. chosen \in [DOMAIN list -> DOMAIN list] /\ Fits(chosen)
  BY <1>4
<1>6. Sorted(list) = [i \in 1..n |-> list[chosen[i]]]
  BY <1>1 DEF Sorted, SortedBy
<1> HIDE DEF chosen
<1>7. chosen \in [1..n -> 1..n] /\ \A i, j \in 1..n : i < j => Ahead(list, Less, chosen[i], chosen[j])
  BY <1>1, <1>2, <1>5
<1> QED
  BY <1>6, <1>7, LessOrders, OrderSorts

RoomKeys == Int \X Seq(Int)

RoomOrder == {p \in RoomKeys \X RoomKeys : RoomBefore(p[1], p[2])}

\* Lists of one length are equal, or the first entry they differ in tells which is less.
FirstLess(a, b) ==
    \E i \in DOMAIN a : a[i] < b[i] /\ \A j \in 1..(i - 1) : a[j] = b[j]

LEMMA FirstLessOrders ==
    ASSUME NEW n \in Nat
    PROVE  /\ \A a \in [1..n -> Int] : ~FirstLess(a, a)
           /\ \A a, b \in [1..n -> Int] : a = b \/ FirstLess(a, b) \/ FirstLess(b, a)
           /\ \A a, b, c \in [1..n -> Int] : FirstLess(a, b) /\ FirstLess(b, c) => FirstLess(a, c)
<1>1. \A a \in [1..n -> Int] : ~FirstLess(a, a)
  BY DEF FirstLess
<1>2. ASSUME NEW a \in [1..n -> Int], NEW b \in [1..n -> Int], a # b
      PROVE  FirstLess(a, b) \/ FirstLess(b, a)
  <2> DEFINE Differ == {i \in 1..n : a[i] # b[i]}
  <2>1. Differ # {} /\ Differ \subseteq Nat
    BY <1>2
  <2>2. PICK i \in Differ : \A j \in Differ : i <= j
    BY <2>1, LeastElement
  <2>3. i \in 1..n /\ a[i] # b[i] /\ a[i] \in Int /\ b[i] \in Int
    BY <2>2
  <2>4. \A j \in 1..(i - 1) : a[j] = b[j]
    <3> TAKE j \in 1..(i - 1)
    <3>1. j \in 1..n /\ j \notin Differ
      BY <2>2, <2>3
    <3> QED
      BY <3>1
  <2>5. a[i] < b[i] \/ b[i] < a[i]
    BY <2>3
  <2>6. i \in DOMAIN a /\ i \in DOMAIN b
    BY <2>3
  <2> HIDE DEF Differ
  <2> QED
    BY <2>4, <2>5, <2>6 DEF FirstLess
<1>3. ASSUME NEW a \in [1..n -> Int], NEW b \in [1..n -> Int], NEW c \in [1..n -> Int],
             FirstLess(a, b), FirstLess(b, c)
      PROVE  FirstLess(a, c)
  <2>1. PICK i \in 1..n : a[i] < b[i] /\ \A j \in 1..(i - 1) : a[j] = b[j]
    BY <1>3 DEF FirstLess
  <2>2. PICK k \in 1..n : b[k] < c[k] /\ \A j \in 1..(k - 1) : b[j] = c[j]
    BY <1>3 DEF FirstLess
  <2> DEFINE l == IF i <= k THEN i ELSE k
  <2>3. l \in 1..n /\ l <= i /\ l <= k
    OBVIOUS
  <2>4. \A j \in 1..(l - 1) : a[j] = c[j]
    <3> TAKE j \in 1..(l - 1)
    <3>1. j \in 1..(i - 1) /\ j \in 1..(k - 1)
      BY <2>3
    <3> QED
      BY <2>1, <2>2, <3>1
  <2>5. a[l] < c[l]
    <3>1. a[i] \in Int /\ b[i] \in Int /\ c[i] \in Int /\ a[k] \in Int /\ b[k] \in Int /\ c[k] \in Int
      OBVIOUS
    <3>2. CASE i < k
      <4>1. i \in 1..(k - 1) /\ l = i
        BY <3>2
      <4> QED
        BY <2>1, <2>2, <3>1, <4>1
    <3>3. CASE i = k
      BY <2>1, <2>2, <3>1, <3>3
    <3>4. CASE i > k
      <4>1. k \in 1..(i - 1) /\ l = k
        BY <3>4
      <4> QED
        BY <2>1, <2>2, <3>1, <4>1
    <3> QED
      BY <3>2, <3>3, <3>4
  <2> HIDE DEF l
  <2>6. l \in DOMAIN a
    BY <2>3
  <2> QED
    BY <2>4, <2>5, <2>6 DEF FirstLess
<1> QED
  BY <1>1, <1>2, <1>3

LEMMA RoomsAreOrdered == OrdersTotally(RoomOrder, RoomKeys)
<1>1. \A x \in RoomKeys :
        /\ x[1] \in Int /\ x[2] \in Seq(Int) /\ Len(x[2]) \in Nat /\ x[2] \in [1..Len(x[2]) -> Int]
        /\ x = <<x[1], x[2]>>
  BY DEF RoomKeys
<1>2. \A x, y \in RoomKeys :
        <<x, y>> \in RoomOrder <=>
            \/ x[1] < y[1]
            \/ x[1] = y[1] /\ Len(x[2]) < Len(y[2])
            \/ x[1] = y[1] /\ Len(x[2]) = Len(y[2]) /\ FirstLess(x[2], y[2])
  BY DEF RoomOrder, RoomBefore, FirstLess
<1>3. \A x \in RoomKeys : <<x, x>> \notin RoomOrder
  <2> TAKE x \in RoomKeys
  <2>1. ~FirstLess(x[2], x[2])
    BY <1>1, FirstLessOrders
  <2> QED
    BY <1>1, <1>2, <2>1
<1>4. ASSUME NEW x \in RoomKeys, NEW y \in RoomKeys
      PROVE  x = y \/ <<x, y>> \in RoomOrder \/ <<y, x>> \in RoomOrder
  <2>1. CASE x[1] # y[1] \/ Len(x[2]) # Len(y[2])
    BY <1>1, <1>2, <2>1
  <2>2. CASE x[1] = y[1] /\ Len(x[2]) = Len(y[2])
    <3>1. x[2] = y[2] \/ FirstLess(x[2], y[2]) \/ FirstLess(y[2], x[2])
      BY <1>1, <2>2, FirstLessOrders
    <3> QED
      BY <1>1, <1>2, <2>2, <3>1
  <2> QED
    BY <2>1, <2>2
<1>5. ASSUME NEW x \in RoomKeys, NEW y \in RoomKeys, NEW z \in RoomKeys,
             <<x, y>> \in RoomOrder, <<y, z>> \in RoomOrder
      PROVE  <<x, z>> \in RoomOrder
  <2> DEFINE lx == Len(x[2])
             ly == Len(y[2])
             lz == Len(z[2])
  <2>3. /\ x[1] \in Int /\ y[1] \in Int /\ z[1] \in Int /\ lx \in Nat /\ ly \in Nat /\ lz \in Nat
        /\ x[2] \in [1..lx -> Int] /\ y[2] \in [1..ly -> Int] /\ z[2] \in [1..lz -> Int]
    BY <1>1
  <2>4. \/ x[1] < y[1]
        \/ x[1] = y[1] /\ lx < ly
        \/ x[1] = y[1] /\ lx = ly /\ FirstLess(x[2], y[2])
    BY <1>2, <1>5
  <2>5. \/ y[1] < z[1]
        \/ y[1] = z[1] /\ ly < lz
        \/ y[1] = z[1] /\ ly = lz /\ FirstLess(y[2], z[2])
    BY <1>2, <1>5
  <2>6. (\/ x[1] < z[1]
         \/ x[1] = z[1] /\ lx < lz
         \/ x[1] = z[1] /\ lx = lz /\ FirstLess(x[2], z[2])) => <<x, z>> \in RoomOrder
    BY <1>2
  <2> HIDE DEF lx, ly, lz
  <2>1. CASE x[1] = y[1] /\ y[1] = z[1] /\ lx = ly /\ ly = lz
    <3>1. FirstLess(x[2], y[2]) /\ FirstLess(y[2], z[2])
      BY <2>1, <2>3, <2>4, <2>5
    <3>2. lx \in Nat /\ x[2] \in [1..lx -> Int] /\ y[2] \in [1..lx -> Int] /\ z[2] \in [1..lx -> Int]
      BY <2>1, <2>3
    <3>3. \A a, b, c \in [1..lx -> Int] : FirstLess(a, b) /\ FirstLess(b, c) => FirstLess(a, c)
      BY <3>2, FirstLessOrders
    <3>4. FirstLess(x[2], z[2])
      BY <3>1, <3>2, <3>3
    <3> QED
      BY <2>1, <2>6, <3>4
  <2>2. CASE ~(x[1] = y[1] /\ y[1] = z[1] /\ lx = ly /\ ly = lz)
    <3>1. x[1] < z[1] \/ (x[1] = z[1] /\ lx < lz)
      BY <2>2, <2>3, <2>4, <2>5
    <3> QED
      BY <2>6, <3>1
  <2> QED
    BY <2>1, <2>2
<1> QED
  BY <1>3, <1>4, <1>5 DEF OrdersTotally
LEMMA SortedRooms ==
    ASSUME NEW n \in Nat, NEW list \in [1..n -> RoomKeys]
    PROVE  SortOf(list, n, RoomKeys, RoomOrder, SortedBy(list, RoomBefore))
<1> DEFINE Fits(order) ==
              \A i, j \in DOMAIN list : i < j =>
                  \/ RoomBefore(list[order[i]], list[order[j]])
                  \/ list[order[i]] = list[order[j]] /\ order[i] < order[j]
           chosen == CHOOSE order \in [DOMAIN list -> DOMAIN list] : Fits(order)
<1>1. DOMAIN list = 1..n
  OBVIOUS
<1>2. ASSUME NEW order \in [1..n -> 1..n], NEW i \in 1..n, NEW j \in 1..n
      PROVE  Ahead(list, RoomOrder, order[i], order[j]) <=>
                \/ RoomBefore(list[order[i]], list[order[j]])
                \/ list[order[i]] = list[order[j]] /\ order[i] < order[j]
  <2>1. list[order[i]] \in RoomKeys /\ list[order[j]] \in RoomKeys
    OBVIOUS
  <2>2. <<list[order[i]], list[order[j]]>> \in RoomOrder <=> RoomBefore(list[order[i]], list[order[j]])
    BY <2>1 DEF RoomOrder
  <2> QED
    BY <2>2 DEF Ahead
<1>3. \E order \in [1..n -> 1..n] :
        \A i, j \in 1..n : i < j => Ahead(list, RoomOrder, order[i], order[j])
  BY RoomsAreOrdered, StableOrder
<1>4. \E order \in [DOMAIN list -> DOMAIN list] : Fits(order)
  BY <1>1, <1>2, <1>3
<1>5. chosen \in [DOMAIN list -> DOMAIN list] /\ Fits(chosen)
  BY <1>4
<1>6. SortedBy(list, RoomBefore) = [i \in 1..n |-> list[chosen[i]]]
  BY <1>1 DEF SortedBy
<1> HIDE DEF chosen
<1>7. chosen \in [1..n -> 1..n] /\ \A i, j \in 1..n : i < j => Ahead(list, RoomOrder, chosen[i], chosen[j])
  BY <1>1, <1>2, <1>5
<1> QED
  BY <1>6, <1>7, RoomsAreOrdered, OrderSorts

-----------------------------------------------------------------------------
(* What a search asks for.                                                 *)

Party == UNION {[1..n -> [adults : Nat, childAges : Seq(Nat)]] : n \in Nat}

Target == [kind : {"properties"}, ids : Seq(Int)] \union [kind : {"location"}, ids : [1..1 -> Int]]

Lookup(Stays, Nations) ==
    [stay : Stays, target : Target, rooms : Party, nationality : Nations]

\* The keys of a party's rooms, not sorted yet.
Keys(party) == [i \in DOMAIN party |-> <<party[i].adults, Sorted(party[i].childAges)>>]

\* What the party asks for, room by room.
Wants(party) == [i \in DOMAIN party |-> <<party[i].adults, Counts(party[i].childAges)>>]

\* Equal entries in one list of each pair are equal in the other.
Alike(a, b, c, d) ==
    /\ DOMAIN a = DOMAIN c /\ DOMAIN b = DOMAIN d
    /\ \A i, j \in DOMAIN a : a[i] = a[j] <=> c[i] = c[j]
    /\ \A i, j \in DOMAIN b : b[i] = b[j] <=> d[i] = d[j]
    /\ \A i \in DOMAIN a, j \in DOMAIN b : a[i] = b[j] <=> c[i] = d[j]
    /\ \A j \in DOMAIN b, i \in DOMAIN a : b[j] = a[i] <=> d[j] = c[i]

LEMMA AlikeTallies ==
    ASSUME NEW n, NEW m, NEW a, NEW b, NEW c, NEW d, Lists(a, n), Lists(b, m), Alike(a, b, c, d),
           \A x : Tally(a, x) = Tally(b, x)
    PROVE  \A x : Tally(c, x) = Tally(d, x)
<1> TAKE x
<1>0. Lists(c, n) /\ Lists(d, m)
  BY DEF Lists, Alike
<1>1. ASSUME NEW i \in DOMAIN c, c[i] = x PROVE Tally(c, x) = Tally(d, x)
  <2>1. Places(c, x) = Places(a, a[i])
    BY <1>1 DEF Places, Alike
  <2>2. Places(d, x) = Places(b, a[i])
    BY <1>1 DEF Places, Alike
  <2> QED
    BY <2>1, <2>2 DEF Tally
<1>2. ASSUME NEW i \in DOMAIN d, d[i] = x PROVE Tally(c, x) = Tally(d, x)
  <2>1. Places(d, x) = Places(b, b[i])
    BY <1>2 DEF Places, Alike
  <2>2. Places(c, x) = Places(a, b[i])
    BY <1>2 DEF Places, Alike
  <2> QED
    BY <2>1, <2>2 DEF Tally
<1>3. CASE (\A i \in DOMAIN c : c[i] # x) /\ (\A i \in DOMAIN d : d[i] # x)
  BY <1>0, <1>3, TallyIsNat
<1> QED
  BY <1>1, <1>2, <1>3

LEMMA AlikeCounts ==
    ASSUME NEW n, NEW m, NEW a, NEW b, NEW c, NEW d, Lists(a, n), Lists(b, m), Alike(a, b, c, d)
    PROVE  Counts(a) = Counts(b) <=> Counts(c) = Counts(d)
<1>0. Lists(c, n) /\ Lists(d, m) /\ Alike(c, d, a, b)
  BY DEF Lists, Alike
<1>1. (\A x : Tally(a, x) = Tally(b, x)) => \A x : Tally(c, x) = Tally(d, x)
  BY AlikeTallies
<1>2. (\A x : Tally(c, x) = Tally(d, x)) => \A x : Tally(a, x) = Tally(b, x)
  BY <1>0, AlikeTallies
<1>3. Counts(a) = Counts(b) <=> \A x : Tally(a, x) = Tally(b, x)
  BY CountsAreTallies
<1>4. Counts(c) = Counts(d) <=> \A x : Tally(c, x) = Tally(d, x)
  BY <1>0, CountsAreTallies
<1> QED
  BY <1>1, <1>2, <1>3, <1>4

\* Two lists of numbers are sorted to the same if and only if they count the same.
LEMMA SortedCounts ==
    \A a, b \in Seq(Int) : /\ Sorted(a) \in Seq(Int) /\ Len(Sorted(a)) = Len(a)
                           /\ Sorted(a) = Sorted(b) <=> Counts(a) = Counts(b)
<1> TAKE a, b \in Seq(Int)
<1> DEFINE n == Len(a)
           m == Len(b)
<1>1. n \in Nat /\ m \in Nat /\ a \in [1..n -> Int] /\ b \in [1..m -> Int]
  OBVIOUS
<1> HIDE DEF n, m
<1>2. SortOf(a, n, Int, Less, Sorted(a)) /\ SortOf(b, m, Int, Less, Sorted(b))
  BY <1>1, SortedSorts
<1>3. Lists(a, n) /\ Lists(b, m)
  BY <1>1 DEF Lists
<1>4. Sorted(a) = Sorted(b) <=> Counts(a) = Counts(b)
  BY <1>1, <1>2, <1>3, LessOrders, SortedAlike
<1>5. Sorted(a) \in [1..n -> Int]
  BY <1>2 DEF SortOf, InOrder
<1>6. Sorted(a) \in Seq(Int) /\ Len(Sorted(a)) = n
  BY <1>1, <1>5
<1> QED
  BY <1>4, <1>6 DEF n

LEMMA PartyIsList ==
    ASSUME NEW party \in Party
    PROVE  \E n \in Nat : /\ party \in [1..n -> [adults : Nat, childAges : Seq(Nat)]]
                          /\ Lists(party, n) /\ Lists(Keys(party), n) /\ Lists(Wants(party), n)
                          /\ Keys(party) \in [1..n -> RoomKeys]
                          /\ SortOf(Keys(party), n, RoomKeys, RoomOrder, OccupancySignature(party))
<1>1. PICK n \in Nat : party \in [1..n -> [adults : Nat, childAges : Seq(Nat)]]
  BY DEF Party
<1>2. DOMAIN party = 1..n
  BY <1>1
<1>3. Lists(party, n) /\ Lists(Keys(party), n) /\ Lists(Wants(party), n)
  BY <1>2 DEF Lists, Keys, Wants
<1>4. ASSUME NEW i \in 1..n PROVE <<party[i].adults, Sorted(party[i].childAges)>> \in RoomKeys
  <2>1. party[i] \in [adults : Nat, childAges : Seq(Nat)]
    BY <1>1
  <2>2. party[i].adults \in Int /\ party[i].childAges \in Seq(Nat)
    BY <2>1
  <2>3. party[i].childAges \in Seq(Int)
    BY <2>2, SeqDef
  <2> QED
    BY <2>2, <2>3, SortedCounts DEF RoomKeys
<1>5. Keys(party) \in [1..n -> RoomKeys]
  BY <1>2, <1>4 DEF Keys
<1>6. OccupancySignature(party) = SortedBy(Keys(party), RoomBefore)
  BY DEF OccupancySignature, Keys
<1>7. SortOf(Keys(party), n, RoomKeys, RoomOrder, OccupancySignature(party))
  BY <1>5, <1>6, SortedRooms
<1> QED
  BY <1>1, <1>3, <1>5, <1>7

\* Two parties have one signature if and only if they ask for the same rooms.
LEMMA SignatureTellsTheRooms ==
    ASSUME NEW p \in Party, NEW q \in Party
    PROVE  /\ OccupancySignature(p) = OccupancySignature(q) <=> Counts(Keys(p)) = Counts(Keys(q))
           /\ OccupancySignature(p) = OccupancySignature(q) <=> Counts(Wants(p)) = Counts(Wants(q))
<1>1. PICK n \in Nat : /\ p \in [1..n -> [adults : Nat, childAges : Seq(Nat)]]
                       /\ Lists(p, n) /\ Lists(Keys(p), n) /\ Lists(Wants(p), n)
                       /\ SortOf(Keys(p), n, RoomKeys, RoomOrder, OccupancySignature(p))
  BY PartyIsList
<1>2. PICK m \in Nat : /\ q \in [1..m -> [adults : Nat, childAges : Seq(Nat)]]
                       /\ Lists(q, m) /\ Lists(Keys(q), m) /\ Lists(Wants(q), m)
                       /\ SortOf(Keys(q), m, RoomKeys, RoomOrder, OccupancySignature(q))
  BY PartyIsList
<1>3. OccupancySignature(p) = OccupancySignature(q) <=> Counts(Keys(p)) = Counts(Keys(q))
  BY <1>1, <1>2, RoomsAreOrdered, SortedAlike
<1>4. ASSUME NEW x \in [adults : Nat, childAges : Seq(Nat)], NEW y \in [adults : Nat, childAges : Seq(Nat)]
      PROVE  <<x.adults, Sorted(x.childAges)>> = <<y.adults, Sorted(y.childAges)>>
                <=> <<x.adults, Counts(x.childAges)>> = <<y.adults, Counts(y.childAges)>>
  <2>1. x.childAges \in Seq(Int) /\ y.childAges \in Seq(Int)
    <3>1. x.childAges \in Seq(Nat) /\ y.childAges \in Seq(Nat)
      OBVIOUS
    <3> QED
      BY <3>1, SeqDef
  <2>2. Sorted(x.childAges) = Sorted(y.childAges) <=> Counts(x.childAges) = Counts(y.childAges)
    BY <2>1, SortedCounts
  <2> QED
    BY <2>2
<1>5. /\ \A i \in DOMAIN p : p[i] \in [adults : Nat, childAges : Seq(Nat)]
      /\ \A i \in DOMAIN q : q[i] \in [adults : Nat, childAges : Seq(Nat)]
  BY <1>1, <1>2
<1>6. Alike(Keys(p), Keys(q), Wants(p), Wants(q))
  <2>1. /\ DOMAIN Keys(p) = DOMAIN p /\ DOMAIN Keys(q) = DOMAIN q
        /\ DOMAIN Wants(p) = DOMAIN p /\ DOMAIN Wants(q) = DOMAIN q
    BY DEF Keys, Wants
  <2>2. \A i, j \in DOMAIN p : Keys(p)[i] = Keys(p)[j] <=> Wants(p)[i] = Wants(p)[j]
    BY <1>4, <1>5 DEF Keys, Wants
  <2>3. \A i, j \in DOMAIN q : Keys(q)[i] = Keys(q)[j] <=> Wants(q)[i] = Wants(q)[j]
    BY <1>4, <1>5 DEF Keys, Wants
  <2>4. \A i \in DOMAIN p, j \in DOMAIN q : Keys(p)[i] = Keys(q)[j] <=> Wants(p)[i] = Wants(q)[j]
    BY <1>4, <1>5 DEF Keys, Wants
  <2> QED
    BY <2>1, <2>2, <2>3, <2>4 DEF Alike
<1>7. Counts(Keys(p)) = Counts(Keys(q)) <=> Counts(Wants(p)) = Counts(Wants(q))
  BY <1>1, <1>2, <1>6, AlikeCounts
<1> QED
  BY <1>3, <1>7
LEMMA SignatureTellsTheTarget ==
    ASSUME NEW s \in Target, NEW t \in Target
    PROVE  TargetSignature(s) = TargetSignature(t) <=> (s.kind = t.kind /\ Counts(s.ids) = Counts(t.ids))
<1>1. CASE s.kind = "properties" /\ t.kind = "properties"
  <2>1. s.ids \in Seq(Int) /\ t.ids \in Seq(Int)
    BY <1>1 DEF Target
  <2>2. Sorted(s.ids) = Sorted(t.ids) <=> Counts(s.ids) = Counts(t.ids)
    BY <2>1, SortedCounts
  <2> QED
    BY <1>1, <2>2 DEF TargetSignature
<1>2. CASE s.kind = "location" /\ t.kind = "location"
  <2>1. s.ids \in [1..1 -> Int] /\ t.ids \in [1..1 -> Int]
    BY <1>2 DEF Target
  <2>2. ToSet(s.ids) = {s.ids[1]} /\ ToSet(t.ids) = {t.ids[1]}
    BY <2>1 DEF ToSet
  <2>3. DOMAIN Counts(s.ids) = ToSet(s.ids) /\ DOMAIN Counts(t.ids) = ToSet(t.ids)
    BY DEF Counts
  <2>4. Counts(s.ids) = Counts(t.ids) => s.ids[1] = t.ids[1]
    BY <2>2, <2>3
  <2>5. s.ids[1] = t.ids[1] => s.ids = t.ids
    BY <2>1
  <2> QED
    BY <1>2, <2>4, <2>5 DEF TargetSignature
<1>3. CASE s.kind # t.kind
  <2>1. s.kind \in {"properties", "location"} /\ t.kind \in {"properties", "location"}
    BY DEF Target
  <2> QED
    BY <1>3, <2>1 DEF TargetSignature
<1>4. s.kind \in {"properties", "location"} /\ t.kind \in {"properties", "location"}
  BY DEF Target
<1> QED
  BY <1>1, <1>2, <1>3, <1>4

\* However many rooms, children and hotels a search asks for, and of whatever
\* age: two searches for one stay have one key if and only if they ask for the
\* same (cache-keys.ts, availabilityCacheKey).
THEOREM KeysTellWhatIsAsked ==
    ASSUME NEW Stays, NEW Nations,
           NEW one \in Lookup(Stays, Nations), NEW other \in Lookup(Stays, Nations),
           one.stay = other.stay
    PROVE  KeyOf(one) = KeyOf(other) <=> Asked(one) = Asked(other)
<1>1. /\ one.target \in Target /\ other.target \in Target
      /\ one.rooms \in Party /\ other.rooms \in Party
  BY DEF Lookup
<1>2. OccupancySignature(one.rooms) = OccupancySignature(other.rooms)
        <=> Counts(Wants(one.rooms)) = Counts(Wants(other.rooms))
  BY <1>1, SignatureTellsTheRooms
<1>3. TargetSignature(one.target) = TargetSignature(other.target)
        <=> (one.target.kind = other.target.kind /\ Counts(one.target.ids) = Counts(other.target.ids))
  BY <1>1, SignatureTellsTheTarget
<1>4. KeyOf(one) = KeyOf(other) <=>
        /\ TargetSignature(one.target) = TargetSignature(other.target)
        /\ OccupancySignature(one.rooms) = OccupancySignature(other.rooms)
        /\ one.nationality = other.nationality
  BY DEF KeyOf
<1>5. Asked(one) = Asked(other) <=>
        /\ one.target.kind = other.target.kind /\ Counts(one.target.ids) = Counts(other.target.ids)
        /\ one.nationality = other.nationality
        /\ Counts(Wants(one.rooms)) = Counts(Wants(other.rooms))
  BY DEF Asked, Wants
<1> QED
  BY <1>2, <1>3, <1>4, <1>5

-----------------------------------------------------------------------------
(* Who is lodged for a rate that another search priced.                    *)

HeadsOf(party) == [i \in DOMAIN party |-> party[i].adults + Len(party[i].childAges)]

LEMMA HeadsArePriced ==
    ASSUME NEW party \in Party
    PROVE  Heads(PaxRooms(party)) = HeadsOf(party)
BY DEF Heads, PaxRooms, HeadsOf

\* The heads of a party are those of its signature, rearranged.
LEMMA HeadsOfSignature ==
    ASSUME NEW party \in Party
    PROVE  \A x : Tally(HeadsOf(party), x)
                    = Tally([i \in DOMAIN OccupancySignature(party) |->
                                OccupancySignature(party)[i][1] + Len(OccupancySignature(party)[i][2])], x)
<1> DEFINE keys == OccupancySignature(party)
           heads == [i \in DOMAIN keys |-> keys[i][1] + Len(keys[i][2])]
<1>1. PICK n \in Nat : /\ party \in [1..n -> [adults : Nat, childAges : Seq(Nat)]]
                       /\ SortOf(Keys(party), n, RoomKeys, RoomOrder, keys)
  BY PartyIsList
<1>2. PICK order : Rearranges(order, n) /\ \A i \in 1..n : keys[i] = Keys(party)[order[i]]
  BY <1>1 DEF SortOf
<1>3. DOMAIN keys = 1..n /\ DOMAIN party = 1..n
  BY <1>1 DEF SortOf, InOrder
<1> HIDE DEF keys
<1>4. Lists(HeadsOf(party), n) /\ Lists(heads, n)
  BY <1>3 DEF Lists, HeadsOf
<1>5. \A i \in 1..n : heads[i] = HeadsOf(party)[order[i]]
  <2> TAKE i \in 1..n
  <2>1. order[i] \in 1..n
    BY <1>2 DEF Rearranges
  <2>2. party[order[i]] \in [adults : Nat, childAges : Seq(Nat)]
    BY <1>1, <2>1
  <2>3. party[order[i]].childAges \in Seq(Int)
    <3>1. party[order[i]].childAges \in Seq(Nat)
      BY <2>2
    <3> QED
      BY <3>1, SeqDef
  <2>4. Len(Sorted(party[order[i]].childAges)) = Len(party[order[i]].childAges)
    BY <2>3, SortedCounts
  <2>5. keys[i] = <<party[order[i]].adults, Sorted(party[order[i]].childAges)>>
    BY <1>2, <1>3, <2>1 DEF Keys
  <2> QED
    BY <1>3, <2>1, <2>4, <2>5 DEF HeadsOf
<1> HIDE DEF heads
<1>6. \A x : Tally(HeadsOf(party), x) = Tally(heads, x)
  BY <1>2, <1>4, <1>5, RearrangedTallies
<1> QED
  BY <1>6 DEF heads, keys

\* Whatever two parties share a key, and whoever comes: guests that fit the
\* party that books are as many, counted by room, as the rate was priced for;
\* room by room if the two parties list their rooms alike (booking.service.ts,
\* guestsMatchOccupancy; TBO adapter.ts, search and book).
THEOREM AnyGuestsFitTheRate ==
    ASSUME NEW priced \in Party, NEW found \in Party,
           OccupancySignature(priced) = OccupancySignature(found),
           NEW guests \in Seq(Seq(Nat)), GuestsMatchOccupancy(guests, found)
    PROVE  LET heads  == Heads(PaxRooms(priced))
               lodged == Lodged(CustomerDetails(guests))
           IN  /\ Counts(lodged) = Counts(heads)
               /\ Heads(PaxRooms(found)) = heads => lodged = heads
<1> DEFINE lodged == Lodged(CustomerDetails(guests))
<1>1. PICK n \in Nat : found \in [1..n -> [adults : Nat, childAges : Seq(Nat)]] /\ Lists(found, n)
  BY PartyIsList
<1>2. PICK m \in Nat : priced \in [1..m -> [adults : Nat, childAges : Seq(Nat)]] /\ Lists(priced, m)
  BY PartyIsList
<1>3. DOMAIN guests = 1..n
  <2>1. Len(found) = n
    BY <1>1
  <2> QED
    BY <2>1 DEF GuestsMatchOccupancy
<1>4. ASSUME NEW i \in 1..n
      PROVE  Len([k \in DOMAIN guests[i] |-> IF guests[i][k] < 18 THEN "Child" ELSE "Adult"]) = HeadsOf(found)[i]
  <2>1. guests[i] \in Seq(Nat)
    BY <1>3
  <2>2. DOMAIN guests[i] = 1..Len(guests[i]) /\ Len(guests[i]) \in Nat
    BY <2>1
  <2>3. Len([k \in DOMAIN guests[i] |-> IF guests[i][k] < 18 THEN "Child" ELSE "Adult"]) = Len(guests[i])
    BY <2>2
  <2>4. Len(guests[i]) = found[i].adults + Len(found[i].childAges)
    BY <1>3 DEF GuestsMatchOccupancy
  <2> QED
    BY <1>1, <2>3, <2>4 DEF HeadsOf
<1>5. lodged = HeadsOf(found)
  <2>1. lodged = [i \in 1..n |->
                    Len([k \in DOMAIN guests[i] |-> IF guests[i][k] < 18 THEN "Child" ELSE "Adult"])]
    BY <1>3 DEF Lodged, CustomerDetails
  <2>2. DOMAIN HeadsOf(found) = 1..n /\ HeadsOf(found) = [i \in 1..n |-> HeadsOf(found)[i]]
    BY <1>1 DEF HeadsOf
  <2> QED
    BY <1>4, <2>1, <2>2
<1>6. \A x : Tally(HeadsOf(priced), x) = Tally(HeadsOf(found), x)
  BY HeadsOfSignature
<1>7. Lists(HeadsOf(priced), m) /\ Lists(HeadsOf(found), n)
  BY <1>1, <1>2 DEF Lists, HeadsOf
<1>8. Counts(HeadsOf(priced)) = Counts(HeadsOf(found))
  BY <1>6, <1>7, CountsAreTallies
<1> QED
  BY <1>5, <1>8, HeadsArePriced

-----------------------------------------------------------------------------
(* The searches and the parties of the run are such lookups and parties.   *)

LEMMA UpToTwo ==
    ASSUME NEW S, NEW T, S \subseteq T
    PROVE  UpTo(2, S) \subseteq Seq(T)
<1> SUFFICES ASSUME NEW s \in UpTo(2, S) PROVE s \in Seq(T)
  OBVIOUS
<1>1. PICK k \in 0..2 : s \in [1..k -> S]
  BY DEF UpTo
<1>2. k \in Nat /\ s \in [1..k -> T]
  BY <1>1
<1> QED
  BY <1>2

LEMMA PartiesAreParties == \A party \in Parties : party \in Party /\ party # <<>>
<1> DEFINE Rooms == [adults : 1..2, childAges : UpTo(2, {4, 11})]
<1>1. UpTo(2, {4, 11}) \subseteq Seq(Nat)
  BY UpToTwo
<1>2. Rooms \subseteq [adults : Nat, childAges : Seq(Nat)]
  BY <1>1
<1> HIDE DEF Rooms
<1>3. ASSUME NEW party \in UpTo(2, Rooms) PROVE party \in Party
  <2>1. PICK n \in 0..2 : party \in [1..n -> Rooms]
    BY DEF UpTo
  <2>2. n \in Nat /\ party \in [1..n -> [adults : Nat, childAges : Seq(Nat)]]
    BY <1>2, <2>1
  <2> QED
    BY <2>2 DEF Party
<1> QED
  BY <1>3 DEF Parties, Rooms

LEMMA LookupsAreLookups ==
    \A lookup \in Lookups : lookup \in Lookup({"stay"}, {"SA", "IN"}) /\ lookup.stay = "stay"
<1>1. Targets \subseteq Target
  <2>1. UpTo(2, {1, 2}) \subseteq Seq(Int)
    BY UpToTwo
  <2>2. [1..1 -> {1, 2}] \subseteq [1..1 -> Int]
    OBVIOUS
  <2>3. [kind : {"properties"}, ids : UpTo(2, {1, 2}) \ {<<>>}] \subseteq [kind : {"properties"}, ids : Seq(Int)]
    BY <2>1
  <2>4. [kind : {"location"}, ids : [1..1 -> {1, 2}]] \subseteq [kind : {"location"}, ids : [1..1 -> Int]]
    BY <2>2
  <2> QED
    BY <2>3, <2>4 DEF Targets, Target
<1>2. Parties \subseteq Party
  BY PartiesAreParties
<1>3. ASSUME NEW lookup \in Lookups
      PROVE  lookup \in Lookup({"stay"}, {"SA", "IN"}) /\ lookup.stay = "stay"
  <2>1. lookup \in [stay : {"stay"}, target : Targets, rooms : Parties, nationality : {"SA", "IN"}]
    BY DEF Lookups
  <2> QED
    BY <1>1, <1>2, <2>1 DEF Lookup
<1> QED
  BY <1>3

LEMMA GuestsAreLists ==
    ASSUME NEW party \in Parties, NEW guests \in Guests(party)
    PROVE  guests \in Seq(Seq(Nat))
<1> DEFINE Ages(room) == [n \in 1..room.adults |-> 30] \o room.childAges
           whole == [i \in DOMAIN party |-> Ages(party[i])]
<1>1. PICK n \in Nat : party \in [1..n -> [adults : Nat, childAges : Seq(Nat)]]
  BY PartiesAreParties, PartyIsList
<1>2. n >= 1
  <2>1. party # <<>>
    BY PartiesAreParties
  <2> QED
    BY <1>1, <2>1
<1>3. ASSUME NEW i \in 1..n PROVE Ages(party[i]) \in Seq(Nat)
  <2>1. party[i] \in [adults : Nat, childAges : Seq(Nat)]
    BY <1>1
  <2>2. party[i].adults \in Nat /\ party[i].childAges \in Seq(Nat)
    BY <2>1
  <2>3. [k \in 1..party[i].adults |-> 30] \in Seq(Nat)
    BY <2>2
  <2> QED
    BY <2>2, <2>3
<1> HIDE DEF Ages
<1>4. whole \in [1..n -> Seq(Nat)]
  BY <1>1, <1>3
<1>5. whole \in Seq(Seq(Nat)) /\ whole # <<>>
  BY <1>2, <1>4
<1>6. guests \in {whole, [whole EXCEPT ![1] = Append(@, 30)], Tail(whole)}
  BY DEF Guests, Ages
<1> HIDE DEF whole
<1>7. Tail(whole) \in Seq(Seq(Nat))
  BY <1>5
<1>8. [whole EXCEPT ![1] = Append(@, 30)] \in Seq(Seq(Nat))
  <2>1. Append(whole[1], 30) \in Seq(Nat)
    BY <1>2, <1>4
  <2>2. [whole EXCEPT ![1] = Append(@, 30)] \in [1..n -> Seq(Nat)]
    BY <1>4, <2>1
  <2> QED
    BY <2>2
<1> QED
  BY <1>5, <1>6, <1>7, <1>8

LEMMA Shared == SharedByTheSame
<1> DEFINE both == {<<KeyOf(lookup), Asked(lookup)>> : lookup \in Lookups}
<1>1. ASSUME NEW one \in both, NEW other \in both PROVE one[1] = other[1] <=> one[2] = other[2]
  <2>1. PICK a \in Lookups : one = <<KeyOf(a), Asked(a)>>
    OBVIOUS
  <2>2. PICK b \in Lookups : other = <<KeyOf(b), Asked(b)>>
    OBVIOUS
  <2>3. /\ a \in Lookup({"stay"}, {"SA", "IN"}) /\ b \in Lookup({"stay"}, {"SA", "IN"})
        /\ a.stay = b.stay
    BY LookupsAreLookups
  <2>4. KeyOf(a) = KeyOf(b) <=> Asked(a) = Asked(b)
    BY <2>3, KeysTellWhatIsAsked
  <2> QED
    BY <2>1, <2>2, <2>4
<1> QED
  BY <1>1 DEF SharedByTheSame

LEMMA Fit == GuestsFitTheRate
<1>1. ASSUME NEW priced \in Parties, NEW found \in Parties,
             OccupancySignature(priced) = OccupancySignature(found),
             NEW guests \in Guests(found), GuestsMatchOccupancy(guests, found)
      PROVE  LET heads  == Heads(PaxRooms(priced))
                 lodged == Lodged(CustomerDetails(guests))
             IN  /\ Counts(lodged) = Counts(heads)
                 /\ Heads(PaxRooms(found)) = heads => lodged = heads
  <2>1. priced \in Party /\ found \in Party /\ guests \in Seq(Seq(Nat))
    BY PartiesAreParties, GuestsAreLists
  <2> QED
    BY <1>1, <2>1, AnyGuestsFitTheRate
<1> QED
  BY <1>1 DEF GuestsFitTheRate

\* No client is shown, and none books, a rate that was priced for another party
\* than its own: lanes and frames hold answers to the search's nationality, the
\* key loses nothing of what is asked, and the guests are as many as were priced
\* (search.service.ts, cache-keys.ts, booking.service.ts guestsMatchOccupancy).
THEOREM RatesFitTheParty == SearchSpec => []RatesAreForTheParty
<1>1. SharedByTheSame /\ GuestsFitTheRate
  BY Shared, Fit
<1>2. NoForeignRates => RatesAreForTheParty
  BY <1>1 DEF RatesAreForTheParty
<1> QED
  BY <1>2, RatesAreOwn, PTL
-----------------------------------------------------------------------------
(* The list that shows a search.                                            *)

\* A set of naturals that holds zero, and the next of each it holds, holds all.
LEMMA Induct ==
    ASSUME NEW S, 0 \in S, \A n \in Nat : n \in S => n + 1 \in S
    PROVE  \A n \in Nat : n \in S
<1> SUFFICES ASSUME NEW m \in Nat, m \notin S PROVE FALSE
  OBVIOUS
<1> DEFINE Bad == {n \in Nat : n \notin S}
<1>1. PICK n \in Bad : \A k \in Bad : n <= k
  BY LeastElement
<1>2. n \in Nat /\ n \notin S /\ n # 0
  BY <1>1
<1>3. n - 1 \in Nat /\ n - 1 \in S
  BY <1>1, <1>2
<1>4. (n - 1) + 1 \in S
  BY <1>3
<1> QED
  BY <1>2, <1>4

\* A function on the subsets of a finite set may be defined by what it does
\* with one element and with the rest: the recursion of the folds.
Unfolds(g, S, base, pick, step) ==
    \A s \in SUBSET S :
        g[s] = IF s = {} THEN base ELSE step[<<pick[s], g[s \ {pick[s]}]>>]

LEMMA RecursionOnSubsets ==
    ASSUME NEW S, IsFiniteSet(S), NEW V, NEW base \in V,
           NEW pick, \A s \in SUBSET S : s # {} => pick[s] \in s,
           NEW step \in [S \X V -> V]
    PROVE  \E g \in [SUBSET S -> V] : Unfolds(g, S, base, pick, step)
<1> DEFINE Small(m) == {s \in SUBSET S : Cardinality(s) <= m}
           Solves(g, m) == /\ g \in [Small(m) -> V]
                           /\ \A s \in Small(m) :
                                 g[s] = IF s = {} THEN base ELSE step[<<pick[s], g[s \ {pick[s]}]>>]
           Solved == {m \in Nat : \E g \in [Small(m) -> V] : Solves(g, m)}
<1>1. \A s \in SUBSET S : IsFiniteSet(s) /\ Cardinality(s) \in Nat /\ Cardinality(s) <= Cardinality(S)
  BY FS_Subset, FS_CardinalityType
<1>2. \A s \in SUBSET S : s # {} => s \ {pick[s]} \in SUBSET S
                                    /\ Cardinality(s \ {pick[s]}) = Cardinality(s) - 1
  BY <1>1, FS_RemoveElement
<1>3. 0 \in Solved
  <2>1. \A s \in Small(0) : s = {}
    BY <1>1, FS_EmptySet
  <2> DEFINE g == [s \in Small(0) |-> base]
  <2>2. Solves(g, 0)
    BY <2>1
  <2> QED
    BY <2>2
<1>4. ASSUME NEW m \in Nat, m \in Solved PROVE m + 1 \in Solved
  <2>1. PICK g \in [Small(m) -> V] : Solves(g, m)
    BY <1>4
  <2> DEFINE h == [s \in Small(m + 1) |->
                      IF s \in Small(m) THEN g[s] ELSE step[<<pick[s], g[s \ {pick[s]}]>>]]
  <2>2. ASSUME NEW s \in Small(m + 1), s # {}
        PROVE  s \ {pick[s]} \in Small(m) /\ pick[s] \in S
    BY <1>1, <1>2, <2>2
  <2>3. ASSUME NEW s \in Small(m + 1), s \notin Small(m) PROVE s # {}
    BY <1>1, <2>3, FS_EmptySet
  <2>4. Small(m) \subseteq Small(m + 1)
    BY <1>1
  <2> HIDE DEF Small
  <2>5. h \in [Small(m + 1) -> V]
    BY <2>1, <2>2, <2>3
  <2>6. ASSUME NEW s \in Small(m) PROVE h[s] = g[s]
    BY <2>4
  <2>7. ASSUME NEW s \in Small(m + 1)
        PROVE  h[s] = IF s = {} THEN base ELSE step[<<pick[s], h[s \ {pick[s]}]>>]
    <3>1. CASE s \in Small(m)
      <4>1. h[s] = g[s] /\ (s # {} => h[s \ {pick[s]}] = g[s \ {pick[s]}])
        BY <2>2, <2>6, <2>7, <3>1
      <4> QED
        BY <2>1, <3>1, <4>1
    <3>2. CASE s \notin Small(m)
      <4>1. s # {} /\ h[s \ {pick[s]}] = g[s \ {pick[s]}]
        BY <2>2, <2>3, <2>6, <2>7, <3>2
      <4> QED
        BY <2>7, <3>2, <4>1
    <3> QED
      BY <3>1, <3>2
  <2>8. Solves(h, m + 1)
    BY <2>5, <2>7
  <2>9. m + 1 \in Nat
    OBVIOUS
  <2> HIDE DEF Solves, h
  <2> QED
    BY <2>5, <2>8, <2>9
<1>5. \A m \in Nat : m \in Solved
  BY <1>3, <1>4, Induct
<1>6. Small(Cardinality(S)) = SUBSET S /\ Cardinality(S) \in Nat
  BY <1>1, FS_CardinalityType
<1>7. PICK g \in [Small(Cardinality(S)) -> V] : Solves(g, Cardinality(S))
  BY <1>5, <1>6
<1>8. g \in [SUBSET S -> V] /\ Unfolds(g, S, base, pick, step)
  BY <1>6, <1>7 DEF Unfolds
<1> QED
  BY <1>8

ListLanes ==
    [id : Suppliers, status : {"pending", "results", "failed"}, itemCount : Nat, failureKind : Kinds]

ListItems == Suppliers \X Nat

ListStates ==
    [lanes : Seq(ListLanes), items : Seq(ListItems),
     completion : {"streaming", "complete", "budget_exhausted", "failed"}]

LEMMA PatchedIsLane ==
    ASSUME NEW l \in ListLanes, NEW event,
           \/ event.type = "lane_results" /\ Len(event.items) \in Nat
           \/ event.type = "lane_failed" /\ event.kind \in Kinds
    PROVE  Patched(l, event) \in ListLanes /\ Patched(l, event).id = l.id
<1> DEFINE n == Len(event.items)
<1>1. CASE event.type = "lane_results" /\ n \in Nat
  <2>1. Patched(l, event) = [l EXCEPT !.status = "results", !.itemCount = n]
    BY <1>1 DEF Patched
  <2> HIDE DEF n
  <2> QED
    BY <1>1, <2>1 DEF ListLanes
<1>2. CASE event.type = "lane_failed" /\ event.kind \in Kinds
  BY <1>2 DEF Patched, ListLanes
<1> QED
  BY <1>1, <1>2

LEMMA PendingIsLane ==
    ASSUME NEW s \in Suppliers
    PROVE  PendingLane(s) \in ListLanes /\ PendingLane(s).id = s
<1> QED
  BY DEF PendingLane, ListLanes, Kinds

LEMMA UpsertIsLanes ==
    ASSUME NEW lanes \in Seq(ListLanes), NEW event, event.laneId \in Suppliers,
           \/ event.type = "lane_results" /\ Len(event.items) \in Nat
           \/ event.type = "lane_failed" /\ event.kind \in Kinds
    PROVE  UpsertLane(lanes, event) \in Seq(ListLanes)
<1>1. Len(lanes) \in Nat /\ DOMAIN lanes = 1..Len(lanes)
      /\ \A i \in 1..Len(lanes) : lanes[i] \in ListLanes
  BY LenProperties, ElementOfSeq
<1>2. Patched(PendingLane(event.laneId), event) \in ListLanes
  BY PendingIsLane, PatchedIsLane
<1>3. Append(lanes, Patched(PendingLane(event.laneId), event)) \in Seq(ListLanes)
  BY <1>2
<1> DEFINE new == [i \in DOMAIN lanes |->
                     IF lanes[i].id = event.laneId THEN Patched(lanes[i], event) ELSE lanes[i]]
<1>4. \A i \in 1..Len(lanes) : Patched(lanes[i], event) \in ListLanes
  BY <1>1, PatchedIsLane
<1>5. new \in [1..Len(lanes) -> ListLanes]
  BY <1>1, <1>4
<1>6. new \in Seq(ListLanes)
  BY <1>1, <1>5 DEF Seq
<1> QED
  BY <1>3, <1>6 DEF UpsertLane

\* What the list makes of each frame.
LEMMA ReducerSteps ==
    ASSUME NEW list \in ListStates, NEW e \in Frames
    PROVE  LET event == EventOfFrame(e)
               next == StreamingListReducer(list, event)
           IN  /\ next \in ListStates
               /\ e.type = "search.started" =>
                     /\ next.lanes = [i \in DOMAIN SetToSeq(e.suppliers) |->
                                         PendingLane(SetToSeq(e.suppliers)[i])]
                     /\ next.items = <<>> /\ next.completion = "streaming"
               /\ e.type \in {"supplier.results", "supplier.failed"} =>
                     /\ event.laneId = e.supplier
                     /\ next.lanes = UpsertLane(list.lanes, event)
                     /\ next.completion = list.completion
               /\ e.type = "supplier.results" =>
                     /\ event.type = "lane_results"
                     /\ event.items = [i \in 1 .. e.answer.offers |-> <<e.supplier, i>>]
                     /\ next.items = list.items \o event.items
               /\ e.type = "supplier.failed" =>
                     event.type = "lane_failed" /\ next.items = list.items
               /\ e.type = "search.completed" =>
                     next = [list EXCEPT !.completion = e.status]
               /\ e.type = "search.failed" => next = [list EXCEPT !.completion = "failed"]
<1> DEFINE event == EventOfFrame(e)
           next == StreamingListReducer(list, event)
<1>0. /\ list.lanes \in Seq(ListLanes) /\ list.items \in Seq(ListItems)
      /\ list.completion \in {"streaming", "complete", "budget_exhausted", "failed"}
  BY DEF ListStates
<1>1. CASE e.type = "search.started"
  <2>1. e.suppliers \in SUBSET Suppliers
    BY <1>1 DEF Frames
  <2> DEFINE S == e.suppliers
             ids == SetToSeq(S)
  <2>2. IsFiniteSet(S)
    BY <2>1, SuppliersAssumption, FS_Subset
  <2>3. ids \in Seq(Suppliers) /\ Len(ids) \in Nat /\ DOMAIN ids = 1..Len(ids)
    <3> HIDE DEF S
    <3>1. ids \in [1..Cardinality(S) -> S] /\ Cardinality(S) \in Nat /\ Len(ids) = Cardinality(S)
      BY <2>2, EnumeratesOnce
    <3>2. \A i \in 1..Cardinality(S) : ids[i] \in Suppliers
      BY <2>1, <3>1 DEF S
    <3> QED
      BY <3>1, <3>2
  <2>4. event = [type |-> "started", laneIds |-> ids]
    BY <1>1 DEF EventOfFrame
  <2> HIDE DEF ids
  <2> DEFINE lanes == [i \in DOMAIN ids |-> PendingLane(ids[i])]
  <2>5. next = [lanes |-> lanes, items |-> <<>>, completion |-> "streaming"]
    BY <2>4 DEF StreamingListReducer, Started, InitialList
  <2>6. lanes \in Seq(ListLanes)
    <3>1. \A i \in 1..Len(ids) : PendingLane(ids[i]) \in ListLanes
      BY <2>3, PendingIsLane, ElementOfSeq
    <3>2. lanes \in [1..Len(ids) -> ListLanes]
      BY <2>3, <3>1
    <3> QED
      BY <2>3, <3>2 DEF Seq
  <2>7. next \in ListStates
    BY <2>5, <2>6 DEF ListStates
  <2> QED
    BY <1>1, <2>5, <2>7 DEF ids
<1>2. CASE e.type = "supplier.results"
  <2>1. e.supplier \in Suppliers /\ e.answer.offers \in Nat
    BY <1>2, ResultsHaveOffers DEF Frames
  <2> DEFINE items == [i \in 1 .. e.answer.offers |-> <<e.supplier, i>>]
  <2>2. event = [type |-> "lane_results", laneId |-> e.supplier, items |-> items]
    BY <1>2 DEF EventOfFrame
  <2>3. items \in Seq(ListItems) /\ Len(items) \in Nat
    <3> DEFINE m == e.answer.offers
    <3>1. m \in Nat
      BY <2>1
    <3> HIDE DEF m
    <3>2. [i \in 1..m |-> <<e.supplier, i>>] \in [1..m -> ListItems]
      BY <2>1, <3>1 DEF ListItems
    <3>3. [i \in 1..m |-> <<e.supplier, i>>] \in Seq(ListItems)
      BY <3>1, <3>2 DEF Seq
    <3> QED
      BY <3>3, LenProperties DEF m
  <2> HIDE DEF items
  <2>4. next = [list EXCEPT !.lanes = UpsertLane(list.lanes, event), !.items = list.items \o items]
    BY <2>2 DEF StreamingListReducer
  <2>5. UpsertLane(list.lanes, event) \in Seq(ListLanes)
    BY <1>0, <2>1, <2>2, <2>3, UpsertIsLanes
  <2>6. list.items \o items \in Seq(ListItems)
    BY <1>0, <2>3, ConcatProperties
  <2>7. event.laneId = e.supplier /\ event.type = "lane_results" /\ event.items = items
    BY <2>2
  <2> HIDE DEF next, event
  <2> DEFINE lanes == UpsertLane(list.lanes, event)
             all == list.items \o items
  <2> HIDE DEF lanes, all
  <2>8. next = [list EXCEPT !.lanes = lanes, !.items = all]
    BY <2>4 DEF lanes, all
  <2>9. /\ next \in ListStates /\ next.lanes = lanes /\ next.items = all
        /\ next.completion = list.completion
    BY <2>5, <2>6, <2>8 DEF ListStates, lanes, all
  <2> QED
    BY <1>2, <2>7, <2>9 DEF lanes, all, items, next, event
<1>3. CASE e.type = "supplier.failed"
  <2>1. e.supplier \in Suppliers /\ e.kind \in Kinds
    BY <1>3 DEF Frames
  <2>2. event = [type |-> "lane_failed", laneId |-> e.supplier, kind |-> e.kind]
    BY <1>3 DEF EventOfFrame
  <2>4. next = [list EXCEPT !.lanes = UpsertLane(list.lanes, event)]
    BY <2>2 DEF StreamingListReducer
  <2>5. UpsertLane(list.lanes, event) \in Seq(ListLanes)
    BY <1>0, <2>1, <2>2, UpsertIsLanes
  <2>7. event.laneId = e.supplier /\ event.type = "lane_failed"
    BY <2>2
  <2> HIDE DEF next, event
  <2> DEFINE lanes == UpsertLane(list.lanes, event)
  <2> HIDE DEF lanes
  <2>8. next = [list EXCEPT !.lanes = lanes]
    BY <2>4 DEF lanes
  <2>9. /\ next \in ListStates /\ next.lanes = lanes /\ next.items = list.items
        /\ next.completion = list.completion
    BY <2>5, <2>8 DEF ListStates, lanes
  <2> QED
    BY <1>3, <2>7, <2>9 DEF lanes, next, event
<1>4. CASE e.type = "search.completed"
  <2>1. e.status \in {"complete", "budget_exhausted"}
    BY <1>4 DEF Frames
  <2>2. event = [type |-> "completed", status |-> e.status]
    BY <1>4 DEF EventOfFrame
  <2>3. next = [list EXCEPT !.completion = e.status]
    BY <2>2 DEF StreamingListReducer
  <2>4. next \in ListStates
    BY <2>1, <2>3 DEF ListStates
  <2> QED
    BY <1>4, <2>3, <2>4
<1>5. CASE e.type = "search.failed"
  <2>2. event = [type |-> "stream_failed"]
    BY <1>5 DEF EventOfFrame
  <2>3. next = [list EXCEPT !.completion = "failed"]
    BY <2>2 DEF StreamingListReducer
  <2>4. next \in ListStates
    BY <2>3 DEF ListStates
  <2> QED
    BY <1>5, <2>3, <2>4
<1> QED
  BY <1>1, <1>2, <1>3, <1>4, <1>5 DEF Frames

\* The list after a prefix of the frames follows from the list before it.
Follows(f, L) ==
    /\ L \in [0..Len(f) -> ListStates] /\ L[0] = InitialList
    /\ \A n \in Nat : n + 1 \in 1..Len(f) =>
          L[n + 1] = StreamingListReducer(L[n], EventOfFrame(f[n + 1]))

LEMMA InitialIsList == InitialList \in ListStates
<1> QED
  BY DEF InitialList, ListStates

LEMMA ListUnfolds ==
    ASSUME NEW f \in Seq(Frames)
    PROVE  \E L : Follows(f, L) /\ ListAfter(f) = L[Len(f)]
<1> DEFINE D == DOMAIN f
           iter == CHOOSE g : g = [s \in SUBSET D |->
                      IF s = {} THEN InitialList
                      ELSE StreamingListReducer(g[s \ {Max(s)}], EventOfFrame(f[Max(s)]))]
           pick == [s \in SUBSET D |-> Max(s)]
           step == [z \in D \X ListStates |-> StreamingListReducer(z[2], EventOfFrame(f[z[1]]))]
<1>1. ListAfter(f) = iter[D]
  BY DEF ListAfter, FoldLeft, MapThenFoldSet
<1>2. /\ Len(f) \in Nat /\ D = 1..Len(f) /\ IsFiniteSet(D)
      /\ \A i \in D : f[i] \in Frames
  BY FrameTypes, FS_Interval
<1>3. \E g : g = [s \in SUBSET D |->
                      IF s = {} THEN InitialList
                      ELSE StreamingListReducer(g[s \ {Max(s)}], EventOfFrame(f[Max(s)]))]
           /\ g \in [SUBSET D -> ListStates]
  <2>1. \A s \in SUBSET D : s # {} => pick[s] \in s
    <3> SUFFICES ASSUME NEW s \in SUBSET D, s # {}  PROVE Max(s) \in s
      OBVIOUS
    <3> DEFINE T == {Len(f) - i : i \in s}
    <3>1. T \subseteq Nat /\ T # {}
      BY <1>2
    <3>2. PICK t \in T : \A u \in T : t <= u
      BY <3>1, LeastElement
    <3>3. PICK m \in s : t = Len(f) - m
      BY <3>2
    <3>4. ASSUME NEW i \in s  PROVE m >= i
      <4>1. Len(f) - i \in T /\ i \in 1..Len(f) /\ m \in 1..Len(f)
        BY <1>2, <3>3
      <4>2. t <= Len(f) - i
        BY <3>2, <4>1
      <4> QED
        BY <1>2, <3>3, <4>1, <4>2
    <3> QED
      BY <3>4 DEF Max
  <2>2. step \in [D \X ListStates -> ListStates]
    <3>1. ASSUME NEW i \in D, NEW list \in ListStates
          PROVE  StreamingListReducer(list, EventOfFrame(f[i])) \in ListStates
      BY <1>2, ReducerSteps
    <3> QED
      BY <3>1
  <2> HIDE DEF step, pick
  <2>3. PICK g \in [SUBSET D -> ListStates] : Unfolds(g, D, InitialList, pick, step)
    BY <1>2, <2>1, <2>2, InitialIsList, RecursionOnSubsets
  <2>4. ASSUME NEW s \in SUBSET D
        PROVE  g[s] = IF s = {} THEN InitialList
                      ELSE StreamingListReducer(g[s \ {Max(s)}], EventOfFrame(f[Max(s)]))
    <3>1. CASE s = {}
      BY <3>1, <2>3 DEF Unfolds
    <3>2. CASE s # {}
      <4>1. pick[s] = Max(s) /\ pick[s] \in D /\ s \ {pick[s]} \in SUBSET D
        BY <2>1, <3>2 DEF pick
      <4>2. g[s] = step[<<pick[s], g[s \ {pick[s]}]>>]
        BY <2>3, <3>2 DEF Unfolds
      <4>3. step[<<pick[s], g[s \ {pick[s]}]>>] =
              StreamingListReducer(g[s \ {pick[s]}], EventOfFrame(f[pick[s]]))
        BY <4>1 DEF step
      <4> QED
        BY <3>2, <4>1, <4>2, <4>3
    <3> QED
      BY <3>1, <3>2
  <2>5. g = [s \in SUBSET D |->
               IF s = {} THEN InitialList
               ELSE StreamingListReducer(g[s \ {Max(s)}], EventOfFrame(f[Max(s)]))]
    BY <2>4
  <2> QED
    BY <2>5
<1>4. iter = [s \in SUBSET D |->
                IF s = {} THEN InitialList
                ELSE StreamingListReducer(iter[s \ {Max(s)}], EventOfFrame(f[Max(s)]))]
  BY <1>3
<1> HIDE DEF iter
<1>5. iter[{}] = InitialList
  BY <1>4
<1>6. ASSUME NEW n \in Nat, n + 1 \in 1..Len(f)
      PROVE  iter[1 .. n + 1] = StreamingListReducer(iter[1..n], EventOfFrame(f[n + 1]))
  <2> DEFINE s == 1 .. n + 1
  <2>1. s \in SUBSET D /\ s # {}
    BY <1>2, <1>6
  <2>2. Max(s) = n + 1
    <3>1. \A x \in s : (\A y \in s : x >= y) <=> x = n + 1
      OBVIOUS
    <3>2. n + 1 \in s
      OBVIOUS
    <3> QED
      BY <3>1, <3>2 DEF Max
  <2>3. s \ {n + 1} = 1..n
    OBVIOUS
  <2>4. iter[s] = StreamingListReducer(iter[s \ {Max(s)}], EventOfFrame(f[Max(s)]))
    BY <1>4, <2>1
  <2> QED
    BY <2>2, <2>3, <2>4
<1> DEFINE L == [n \in 0..Len(f) |-> iter[1..n]]
<1>7. \A n \in 0..Len(f) : iter[1..n] \in ListStates
  <2> DEFINE Good == {n \in Nat : n <= Len(f) => iter[1..n] \in ListStates}
  <2>1. 0 \in Good
    <3>1. 1..0 = {}
      OBVIOUS
    <3> QED
      BY <3>1, <1>5, InitialIsList
  <2>2. ASSUME NEW n \in Nat, n \in Good  PROVE n + 1 \in Good
    <3> SUFFICES ASSUME n + 1 <= Len(f)  PROVE iter[1 .. n + 1] \in ListStates
      OBVIOUS
    <3>1. n + 1 \in 1..Len(f) /\ n <= Len(f)
      BY <1>2
    <3>2. iter[1..n] \in ListStates /\ f[n + 1] \in Frames
      BY <3>1, <2>2, <1>2
    <3>3. StreamingListReducer(iter[1..n], EventOfFrame(f[n + 1])) \in ListStates
      BY <3>2, ReducerSteps
    <3> QED
      BY <3>1, <3>3, <1>6
  <2> HIDE DEF Good
  <2>3. \A n \in Nat : n \in Good
    BY <2>1, <2>2, Induct
  <2> QED
    BY <2>3, <1>2 DEF Good
<1>8. L[0] = InitialList
  <2>1. 1..0 = {} /\ 0 \in 0..Len(f)
    BY <1>2
  <2> QED
    BY <2>1, <1>5
<1>9. ASSUME NEW n \in Nat, n + 1 \in 1..Len(f)
      PROVE  L[n + 1] = StreamingListReducer(L[n], EventOfFrame(f[n + 1]))
  <2>1. n \in 0..Len(f) /\ n + 1 \in 0..Len(f)
    BY <1>2, <1>9
  <2> QED
    BY <2>1, <1>6, <1>9
<1>10. L \in [0..Len(f) -> ListStates]
  BY <1>7
<1>11. L[Len(f)] = ListAfter(f)
  BY <1>1, <1>2
<1> QED
  BY <1>8, <1>9, <1>10, <1>11 DEF Follows

PlacesOf(items, s) == {i \in DOMAIN items : items[i][1] = s}

\* Where the frames of a type stand among the first n.
Among(f, n, type) == At(f, type) \cap 1..n

LanesTell(f, n, list) ==
    LET ids == SetToSeq(f[1].suppliers) IN
    /\ DOMAIN list.lanes = DOMAIN ids
    /\ \A i \in DOMAIN ids :
          /\ list.lanes[i].id = ids[i]
          /\ list.lanes[i].status = "results" <=>
                \E j \in Among(f, n, "supplier.results") : f[j].supplier = ids[i]
          /\ list.lanes[i].status = "failed" <=>
                \E j \in Among(f, n, "supplier.failed") : f[j].supplier = ids[i]

ItemsTell(f, n, list) ==
    /\ \A i \in DOMAIN list.lanes :
          LET places == PlacesOf(list.items, list.lanes[i].id) IN
          /\ IsFiniteSet(places)
          /\ Cardinality(places) =
                IF list.lanes[i].status = "results" THEN list.lanes[i].itemCount ELSE 0
    /\ IsFiniteSet(OffersAt(f, Among(f, n, "supplier.results")))
    /\ Len(list.items) = Cardinality(OffersAt(f, Among(f, n, "supplier.results")))

EndTells(f, n, list) ==
    /\ Among(f, n, "search.completed") = {} => list.completion = "streaming"
    /\ \A j \in Among(f, n, "search.completed") : list.completion = f[j].status

\* What the list knows after the first n frames of a search that was started.
Tells(f, n, list) == LanesTell(f, n, list) /\ ItemsTell(f, n, list) /\ EndTells(f, n, list)

LEMMA AmongGrows ==
    ASSUME NEW f \in Seq(Frames), NEW n \in Nat, n + 1 \in 1..Len(f), NEW type
    PROVE  Among(f, n + 1, type) =
             Among(f, n, type) \union IF f[n + 1].type = type THEN {n + 1} ELSE {}
<1>1. DOMAIN f = 1..Len(f) /\ Len(f) \in Nat
  BY FrameTypes
<1>2. \A i : i \in 1 .. n + 1 <=> i \in 1..n \/ i = n + 1
  OBVIOUS
<1> QED
  BY <1>1, <1>2 DEF Among, At

LEMMA UpsertKnown ==
    ASSUME NEW lanes, NEW event, NEW k \in DOMAIN lanes, lanes[k].id = event.laneId,
           \A i \in DOMAIN lanes : lanes[i].id = event.laneId => i = k
    PROVE  /\ DOMAIN UpsertLane(lanes, event) = DOMAIN lanes
           /\ UpsertLane(lanes, event)[k] = Patched(lanes[k], event)
           /\ \A i \in DOMAIN lanes : i # k => UpsertLane(lanes, event)[i] = lanes[i]
<1> QED
  BY DEF UpsertLane

\* The items a lane answers with.
ItemsFrom(s, m) == [i \in 1..m |-> <<s, i>>]

\* The items of an answer come last, and are of its lane.
LEMMA ItemsAppended ==
    ASSUME NEW items \in Seq(ListItems), NEW s \in Suppliers, NEW m \in Nat
    PROVE  /\ Len(items \o ItemsFrom(s, m)) = Len(items) + m
           /\ Len(ItemsFrom(s, m)) = m /\ Len(items) \in Nat
           /\ \A r : r # s => PlacesOf(items \o ItemsFrom(s, m), r) = PlacesOf(items, r)
           /\ PlacesOf(items, s) = {} =>
                 /\ IsFiniteSet(PlacesOf(items \o ItemsFrom(s, m), s))
                 /\ Cardinality(PlacesOf(items \o ItemsFrom(s, m), s)) = m
<1> DEFINE new == ItemsFrom(s, m)
           all == items \o new
           n == Len(items)
<1>0. new = [i \in 1..m |-> <<s, i>>]
  BY DEF ItemsFrom
<1> HIDE DEF new
<1>1. new \in [1..m -> ListItems]
  BY <1>0 DEF ListItems
<1>2. new \in Seq(ListItems) /\ Len(new) = m
  BY <1>0, <1>1 DEF Seq
<1>3. n \in Nat /\ DOMAIN items = 1..n
  BY LenProperties
<1>4. /\ all \in Seq(ListItems) /\ Len(all) = n + m
      /\ \A i \in 1 .. n + m : all[i] = IF i <= n THEN items[i] ELSE new[i - n]
  BY <1>2, ConcatProperties
<1>5. DOMAIN all = 1 .. n + m
  BY <1>4, LenProperties
<1> HIDE DEF all, n
<1>6. ASSUME NEW i \in 1..n  PROVE i \in 1 .. n + m /\ all[i] = items[i]
  <2>1. i \in 1 .. n + m /\ i <= n
    BY <1>3
  <2> QED
    BY <2>1, <1>4
<1>7. \A i \in 1 .. n + m : i \notin 1..n => all[i][1] = s /\ i \in (n + 1)..(n + m)
  <2> SUFFICES ASSUME NEW i \in 1 .. n + m, i \notin 1..n
               PROVE  all[i][1] = s /\ i \in (n + 1)..(n + m)
    OBVIOUS
  <2>1. i - n \in 1..m /\ ~(i <= n)
    BY <1>3
  <2>2. new[i - n] = <<s, i - n>>
    BY <2>1, <1>0
  <2>3. all[i] = new[i - n]
    BY <2>1, <1>4
  <2>4. i \in (n + 1)..(n + m)
    BY <2>1, <1>3
  <2>5. <<s, i - n>>[1] = s
    OBVIOUS
  <2> QED
    BY <2>2, <2>3, <2>4, <2>5
<1>8. ASSUME NEW r, r # s  PROVE PlacesOf(all, r) = PlacesOf(items, r)
  BY <1>3, <1>5, <1>6, <1>7, <1>8 DEF PlacesOf
<1>9. ASSUME PlacesOf(items, s) = {}
      PROVE  IsFiniteSet(PlacesOf(all, s)) /\ Cardinality(PlacesOf(all, s)) = m
  <2>1. \A i \in (n + 1)..(n + m) : i \in 1 .. n + m /\ i \notin 1..n
    BY <1>3
  <2>2. PlacesOf(all, s) = (n + 1)..(n + m)
    BY <1>3, <1>5, <1>6, <1>7, <1>9, <2>1 DEF PlacesOf
  <2>3. n + 1 \in Int /\ n + m \in Int
    BY <1>3
  <2>4. /\ IsFiniteSet((n + 1)..(n + m))
        /\ Cardinality((n + 1)..(n + m)) = IF n + 1 > n + m THEN 0 ELSE (n + m) - (n + 1) + 1
    BY <2>3, FS_Interval
  <2>5. Cardinality((n + 1)..(n + m)) = m
    BY <2>4, <1>3
  <2> QED
    BY <2>2, <2>4, <2>5
<1> QED
  BY <1>2, <1>3, <1>4, <1>8, <1>9 DEF all, n, new

\* The suppliers asked are listed once each.
LEMMA IdsOf ==
    ASSUME NEW S \in SUBSET Suppliers
    PROVE  /\ DOMAIN SetToSeq(S) = 1..Cardinality(S)
           /\ \A i \in DOMAIN SetToSeq(S) : SetToSeq(S)[i] \in S
           /\ \A i, j \in DOMAIN SetToSeq(S) : SetToSeq(S)[i] = SetToSeq(S)[j] => i = j
           /\ \A s \in S : \E i \in DOMAIN SetToSeq(S) : SetToSeq(S)[i] = s
<1>1. IsFiniteSet(S)
  BY SuppliersAssumption, FS_Subset
<1>2. /\ SetToSeq(S) \in [1..Cardinality(S) -> S]
      /\ \A i, j \in 1..Cardinality(S) : SetToSeq(S)[i] = SetToSeq(S)[j] => i = j
      /\ \A s \in S : \E i \in 1..Cardinality(S) : SetToSeq(S)[i] = s
  BY <1>1, EnumeratesOnce
<1> QED
  BY <1>2

\* A frame says what became of a lane that was pending, and the list shows it.
LEMMA ReportTells ==
    ASSUME NEW f \in Seq(Frames), Told(f), NEW n \in Nat \ {0}, n + 1 \in 1..Len(f),
           f[1].type = "search.started",
           f[n + 1].type \in {"supplier.results", "supplier.failed"},
           f[n + 1].supplier \in f[1].suppliers,
           NEW list \in ListStates, Tells(f, n, list)
    PROVE  Tells(f, n + 1, StreamingListReducer(list, EventOfFrame(f[n + 1])))
<1> DEFINE e == f[n + 1]
           event == EventOfFrame(e)
           next == StreamingListReducer(list, event)
           ids == SetToSeq(f[1].suppliers)
           answered == e.type = "supplier.results"
<1>1. DOMAIN f = 1..Len(f) /\ Len(f) \in Nat /\ e \in Frames /\ f[1] \in Frames
  BY FrameTypes
<1>2. f[1].suppliers \in SUBSET Suppliers
  BY <1>1 DEF Frames
<1>3. /\ \A i, j \in DOMAIN ids : ids[i] = ids[j] => i = j
      /\ \A s \in f[1].suppliers : \E i \in DOMAIN ids : ids[i] = s
  BY <1>2, IdsOf
<1>4. /\ next \in ListStates /\ event.laneId = e.supplier
      /\ next.lanes = UpsertLane(list.lanes, event) /\ next.completion = list.completion
      /\ answered => /\ event.type = "lane_results" /\ next.items = list.items \o event.items
                     /\ event.items = [i \in 1 .. e.answer.offers |-> <<e.supplier, i>>]
      /\ ~answered => event.type = "lane_failed" /\ next.items = list.items
  <2>1. /\ next \in ListStates /\ event.laneId = e.supplier
        /\ next.lanes = UpsertLane(list.lanes, event) /\ next.completion = list.completion
    BY <1>1, ReducerSteps
  <2>2. ASSUME answered
        PROVE  /\ event.type = "lane_results" /\ next.items = list.items \o event.items
               /\ event.items = [i \in 1 .. e.answer.offers |-> <<e.supplier, i>>]
    <3>1. event.type = "lane_results" /\ next.items = list.items \o event.items
      BY <2>2, <1>1, ReducerSteps
    <3>2. event.items = [i \in 1 .. e.answer.offers |-> <<e.supplier, i>>]
      BY <2>2 DEF EventOfFrame
    <3> QED
      BY <3>1, <3>2
  <2>3. ASSUME ~answered
        PROVE  event.type = "lane_failed" /\ next.items = list.items
    BY <2>3, <1>1, ReducerSteps
  <2> HIDE DEF next, event
  <2> QED
    BY <2>1, <2>2, <2>3
<1>5. LanesTell(f, n, list) /\ ItemsTell(f, n, list) /\ EndTells(f, n, list)
  BY DEF Tells
<1>6. e.supplier \in Suppliers
  BY <1>2
<1> HIDE DEF event, next, ids
<1>7. PICK k \in DOMAIN ids : ids[k] = e.supplier
  BY <1>3
<1>8. /\ DOMAIN list.lanes = DOMAIN ids
      /\ \A i \in DOMAIN ids : list.lanes[i].id = ids[i]
  BY <1>5 DEF LanesTell, ids
<1>9. /\ DOMAIN next.lanes = DOMAIN ids
      /\ next.lanes[k] = Patched(list.lanes[k], event)
      /\ \A i \in DOMAIN ids : i # k => next.lanes[i] = list.lanes[i]
  <2>1. k \in DOMAIN list.lanes /\ list.lanes[k].id = event.laneId
    BY <1>4, <1>7, <1>8
  <2>2. \A i \in DOMAIN list.lanes : list.lanes[i].id = event.laneId => i = k
    BY <1>3, <1>4, <1>7, <1>8
  <2> QED
    <3> DEFINE old == list.lanes
    <3>1. k \in DOMAIN old /\ old[k].id = event.laneId
      BY <2>1
    <3>2. \A i \in DOMAIN old : old[i].id = event.laneId => i = k
      BY <2>2
    <3> HIDE DEF old
    <3>3. /\ DOMAIN UpsertLane(old, event) = DOMAIN old
          /\ UpsertLane(old, event)[k] = Patched(old[k], event)
          /\ \A i \in DOMAIN old : i # k => UpsertLane(old, event)[i] = old[i]
      BY <3>1, <3>2, UpsertKnown
    <3> QED
      BY <3>3, <1>4, <1>8 DEF old
<1>10. \A type : Among(f, n + 1, type) =
                   Among(f, n, type) \union IF e.type = type THEN {n + 1} ELSE {}
  BY AmongGrows
<1>11. \A j \in 1..n : ~Reports(f[j], e.supplier)
  <2> SUFFICES ASSUME NEW j \in 1..n, Reports(f[j], e.supplier)  PROVE FALSE
    OBVIOUS
  <2>1. Reports(e, e.supplier) /\ j \in DOMAIN f /\ n + 1 \in DOMAIN f
    BY <1>1 DEF Reports
  <2>2. j = n + 1
    BY <2>1, <1>6 DEF Told
  <2> QED
    BY <2>2
<1>12. list.lanes[k].status \notin {"results", "failed"}
  <2>1. \A j \in Among(f, n, "supplier.results") \union Among(f, n, "supplier.failed") :
            f[j].supplier # ids[k]
    BY <1>7, <1>11 DEF Among, At, Reports
  <2> QED
    BY <2>1, <1>5 DEF LanesTell, ids
<1>13. list.lanes \in Seq(ListLanes) /\ list.items \in Seq(ListItems)
  BY DEF ListStates
<1>14. list.lanes[k] \in ListLanes
  BY <1>13, <1>7, <1>8, ElementOfSeq
<1>15. /\ next.lanes[k].id = ids[k]
       /\ next.lanes[k].status = IF answered THEN "results" ELSE "failed"
       /\ answered => next.lanes[k].itemCount = Len(event.items)
  <2> DEFINE m == Len(event.items)
  <2> HIDE DEF m
  <2>1. answered => next.lanes[k] = [list.lanes[k] EXCEPT !.status = "results", !.itemCount = m]
    BY <1>4, <1>9 DEF Patched, m
  <2>2. ~answered => next.lanes[k] = [list.lanes[k] EXCEPT !.status = "failed", !.failureKind = event.kind]
    BY <1>4, <1>9 DEF Patched
  <2>3. list.lanes[k].id = ids[k]
    BY <1>7, <1>8
  <2> QED
    BY <2>1, <2>2, <2>3, <1>14 DEF ListLanes, m
<1>16. \A i \in DOMAIN ids : next.lanes[i].id = ids[i]
  BY <1>8, <1>9, <1>15
<1>17. LanesTell(f, n + 1, next)
  <2>1. ASSUME NEW i \in DOMAIN ids
        PROVE  /\ next.lanes[i].status = "results" <=>
                     \E j \in Among(f, n + 1, "supplier.results") : f[j].supplier = ids[i]
               /\ next.lanes[i].status = "failed" <=>
                     \E j \in Among(f, n + 1, "supplier.failed") : f[j].supplier = ids[i]
    <3>1. CASE i = k
      <4>1. \A j \in Among(f, n, "supplier.results") \union Among(f, n, "supplier.failed") :
                f[j].supplier # ids[k]
        BY <1>7, <1>11 DEF Among, At, Reports
      <4>2. f[n + 1].supplier = ids[k]
        BY <1>7
      <4> QED
        BY <3>1, <4>1, <4>2, <1>10, <1>15
    <3>2. CASE i # k
      <4>1. f[n + 1].supplier # ids[i]
        BY <3>2, <1>3, <1>7
      <4>2. next.lanes[i] = list.lanes[i]
        BY <3>2, <1>9
      <4>3. /\ list.lanes[i].status = "results" <=>
                  \E j \in Among(f, n, "supplier.results") : f[j].supplier = ids[i]
            /\ list.lanes[i].status = "failed" <=>
                  \E j \in Among(f, n, "supplier.failed") : f[j].supplier = ids[i]
        BY <1>5 DEF LanesTell, ids
      <4> QED
        BY <4>1, <4>2, <4>3, <1>10
    <3> QED
      BY <3>1, <3>2
  <2> QED
    BY <2>1, <1>9, <1>16 DEF LanesTell, ids
<1>18. ASSUME NEW i \in DOMAIN ids
       PROVE  /\ IsFiniteSet(PlacesOf(list.items, ids[i]))
              /\ Cardinality(PlacesOf(list.items, ids[i])) =
                    IF list.lanes[i].status = "results" THEN list.lanes[i].itemCount ELSE 0
  BY <1>5, <1>8 DEF ItemsTell
<1>19. PlacesOf(list.items, e.supplier) = {}
  <2>1. /\ IsFiniteSet(PlacesOf(list.items, ids[k]))
        /\ Cardinality(PlacesOf(list.items, ids[k])) = 0
    BY <1>12, <1>18
  <2> QED
    BY <2>1, <1>7, FS_EmptySet
<1>20. /\ IsFiniteSet(OffersAt(f, Among(f, n, "supplier.results")))
       /\ Len(list.items) = Cardinality(OffersAt(f, Among(f, n, "supplier.results")))
  BY <1>5 DEF ItemsTell
<1>21. ItemsTell(f, n + 1, next)
  <2>1. CASE answered
    <3> DEFINE m == e.answer.offers
               new == [i \in 1..m |-> <<e.supplier, i>>]
    <3>1. m \in Nat
      BY <1>1, <2>1, ResultsHaveOffers
    <3>2. next.items = list.items \o new /\ event.items = new
      BY <1>4, <2>1
    <3> HIDE DEF m
    <3>3. /\ Len(next.items) = Len(list.items) + m
          /\ Len(new) = m /\ Len(list.items) \in Nat
          /\ \A r : r # e.supplier => PlacesOf(next.items, r) = PlacesOf(list.items, r)
          /\ IsFiniteSet(PlacesOf(next.items, e.supplier))
          /\ Cardinality(PlacesOf(next.items, e.supplier)) = m
      <4> HIDE DEF e
      <4> DEFINE added == new
      <4>1. added = [i \in 1..m |-> <<e.supplier, i>>]
        OBVIOUS
      <4>2. next.items = list.items \o added
        BY <3>2
      <4> HIDE DEF added
      <4> DEFINE s == e.supplier
                 items == list.items
      <4>3. s \in Suppliers /\ items \in Seq(ListItems) /\ PlacesOf(items, s) = {}
        BY <1>6, <1>13, <1>19
      <4> HIDE DEF s, items
      <4>4. added = ItemsFrom(s, m)
        BY <4>1 DEF s, ItemsFrom
      <4>5. Len(items \o ItemsFrom(s, m)) = Len(items) + m
        BY <4>3, <3>1, ItemsAppended
      <4>6. Len(ItemsFrom(s, m)) = m /\ Len(items) \in Nat
        BY <4>3, <3>1, ItemsAppended
      <4>7. \A r : r # s => PlacesOf(items \o ItemsFrom(s, m), r) = PlacesOf(items, r)
        BY <4>3, <3>1, ItemsAppended
      <4>8. IsFiniteSet(PlacesOf(items \o ItemsFrom(s, m), s))
        BY <4>3, <3>1, ItemsAppended
      <4>9. Cardinality(PlacesOf(items \o ItemsFrom(s, m), s)) = m
        BY <4>3, <3>1, ItemsAppended
      <4> QED
        BY <4>2, <4>4, <4>5, <4>6, <4>7, <4>8, <4>9 DEF s, items, added
    <3>4. ASSUME NEW i \in DOMAIN ids
          PROVE  /\ IsFiniteSet(PlacesOf(next.items, ids[i]))
                 /\ Cardinality(PlacesOf(next.items, ids[i])) =
                       IF next.lanes[i].status = "results" THEN next.lanes[i].itemCount ELSE 0
      <4>1. CASE i = k
        BY <4>1, <3>2, <3>3, <2>1, <1>7, <1>15
      <4>2. CASE i # k
        <5>1. ids[i] # e.supplier
          BY <4>2, <1>3, <1>7
        <5> QED
          BY <4>2, <5>1, <3>3, <1>9, <1>18
      <4> QED
        BY <4>1, <4>2
    <3>5. /\ IsFiniteSet(OffersAt(f, Among(f, n + 1, "supplier.results")))
          /\ Cardinality(OffersAt(f, Among(f, n + 1, "supplier.results"))) = Len(list.items) + m
      <4> DEFINE I == Among(f, n, "supplier.results")
                 p == n + 1
      <4>1. p \notin I
        BY DEF Among
      <4>2. Among(f, n + 1, "supplier.results") = I \union {p}
        BY <1>10, <2>1
      <4>3. f[p].answer.offers = m /\ f[p].answer.offers \in Nat
        BY <3>1 DEF m
      <4> HIDE DEF I, p
      <4>4. /\ IsFiniteSet(OffersAt(f, I \union {p}))
            /\ Cardinality(OffersAt(f, I \union {p})) = Cardinality(OffersAt(f, I)) + f[p].answer.offers
        BY <4>1, <4>3, <1>20, OffersGrow DEF I
      <4> QED
        BY <4>2, <4>3, <4>4, <1>20 DEF I
    <3> QED
      BY <3>3, <3>4, <3>5, <1>9, <1>16 DEF ItemsTell
  <2>2. CASE ~answered
    <3>1. next.items = list.items
      BY <1>4, <2>2
    <3>2. Among(f, n + 1, "supplier.results") = Among(f, n, "supplier.results")
      BY <1>10, <2>2
    <3>3. ASSUME NEW i \in DOMAIN ids
          PROVE  /\ IsFiniteSet(PlacesOf(next.items, ids[i]))
                 /\ Cardinality(PlacesOf(next.items, ids[i])) =
                       IF next.lanes[i].status = "results" THEN next.lanes[i].itemCount ELSE 0
      <4>1. CASE i = k
        BY <4>1, <3>1, <2>2, <1>12, <1>15, <1>18
      <4>2. CASE i # k
        BY <4>2, <3>1, <1>9, <1>18
      <4> QED
        BY <4>1, <4>2
    <3> QED
      BY <3>1, <3>2, <3>3, <1>9, <1>16, <1>20 DEF ItemsTell
  <2> QED
    BY <2>1, <2>2
<1>22. EndTells(f, n + 1, next)
  <2>1. Among(f, n + 1, "search.completed") = Among(f, n, "search.completed")
    BY <1>10
  <2> QED
    BY <2>1, <1>4, <1>5 DEF EndTells
<1> QED
  BY <1>17, <1>21, <1>22 DEF Tells, next, event

LEMMA EndIsTold ==
    ASSUME NEW f \in Seq(Frames), Told(f), NEW n \in Nat \ {0}, n + 1 \in 1..Len(f),
           f[n + 1].type = "search.completed",
           NEW list \in ListStates, Tells(f, n, list)
    PROVE  Tells(f, n + 1, StreamingListReducer(list, EventOfFrame(f[n + 1])))
<1> DEFINE e == f[n + 1]
           next == StreamingListReducer(list, EventOfFrame(e))
<1>1. DOMAIN f = 1..Len(f) /\ Len(f) \in Nat /\ e \in Frames
  BY FrameTypes
<1>2. next = [list EXCEPT !.completion = e.status]
  BY <1>1, ReducerSteps
<1>3. next.lanes = list.lanes /\ next.items = list.items /\ next.completion = e.status
  BY <1>2 DEF ListStates
<1>4. \A type : Among(f, n + 1, type) =
                  Among(f, n, type) \union IF e.type = type THEN {n + 1} ELSE {}
  BY AmongGrows
<1>5. /\ Among(f, n + 1, "supplier.results") = Among(f, n, "supplier.results")
      /\ Among(f, n + 1, "supplier.failed") = Among(f, n, "supplier.failed")
  BY <1>4
<1>6. Among(f, n + 1, "search.completed") = {n + 1}
  <2>1. \A j \in At(f, "search.completed") : j = Len(f)
    BY DEF Told
  <2>2. n + 1 \in At(f, "search.completed")
    BY <1>1 DEF At
  <2> QED
    BY <2>1, <2>2 DEF Among
<1> HIDE DEF next
<1>7. LanesTell(f, n + 1, next) /\ ItemsTell(f, n + 1, next)
  BY <1>3, <1>5 DEF Tells, LanesTell, ItemsTell
<1>8. EndTells(f, n + 1, next)
  BY <1>3, <1>6 DEF EndTells
<1> QED
  BY <1>7, <1>8 DEF Tells, next

LEMMA StartTells ==
    ASSUME NEW f \in Seq(Frames), f # <<>>, f[1].type = "search.started"
    PROVE  Tells(f, 1, StreamingListReducer(InitialList, EventOfFrame(f[1])))
<1> DEFINE e == f[1]
           next == StreamingListReducer(InitialList, EventOfFrame(e))
           ids == SetToSeq(e.suppliers)
<1>1. e \in Frames /\ DOMAIN f = 1..Len(f) /\ Len(f) \in Nat
  BY NotEmpty, FrameTypes
<1>2. /\ next.lanes = [i \in DOMAIN ids |-> PendingLane(ids[i])]
      /\ next.items = <<>> /\ next.completion = "streaming"
  BY <1>1, InitialIsList, ReducerSteps
<1>3. \A type : type # "search.started" => Among(f, 1, type) = {}
  BY DEF Among, At
<1> HIDE DEF next
<1>4. LanesTell(f, 1, next)
  BY <1>2, <1>3 DEF LanesTell, PendingLane
<1>5. ItemsTell(f, 1, next)
  <2>1. \A s : PlacesOf(next.items, s) = {}
    BY <1>2 DEF PlacesOf
  <2>2. \A i \in DOMAIN next.lanes : next.lanes[i].status # "results"
    BY <1>2 DEF PendingLane
  <2>3. OffersAt(f, Among(f, 1, "supplier.results")) = {}
    BY <1>3 DEF OffersAt
  <2>4. Len(next.items) = 0
    BY <1>2
  <2> QED
    BY <2>1, <2>2, <2>3, <2>4, FS_EmptySet DEF ItemsTell
<1>6. EndTells(f, 1, next)
  BY <1>2, <1>3 DEF EndTells
<1> QED
  BY <1>4, <1>5, <1>6 DEF Tells, next

LEMMA ListTells ==
    ASSUME NEW f \in Seq(Frames), f # <<>>, f[1].type = "search.started", Told(f)
    PROVE  ListAfter(f) \in ListStates /\ Tells(f, Len(f), ListAfter(f))
<1>1. PICK L : Follows(f, L) /\ ListAfter(f) = L[Len(f)]
  BY ListUnfolds
<1>2. /\ Len(f) \in Nat /\ Len(f) # 0 /\ DOMAIN f = 1..Len(f)
  BY NotEmpty, FrameTypes
<1>3. L \in [0..Len(f) -> ListStates] /\ L[0] = InitialList
  BY <1>1 DEF Follows
<1>4. \A n \in Nat : n + 1 \in 1..Len(f) =>
          L[n + 1] = StreamingListReducer(L[n], EventOfFrame(f[n + 1]))
  BY <1>1 DEF Follows
<1>5. Tells(f, 1, L[1])
  <2>1. 0 + 1 \in 1..Len(f) /\ 0 + 1 = 1
    BY <1>2
  <2>2. L[1] = StreamingListReducer(InitialList, EventOfFrame(f[1]))
    BY <2>1, <1>3, <1>4
  <2> QED
    BY <2>2, StartTells
<1>6. \A i \in 2..Len(f) : \/ f[i].type = "search.completed"
                           \/ f[i].type \in {"supplier.results", "supplier.failed"}
                                 /\ f[i].supplier \in f[1].suppliers
  <2>1. f # <<SearchFailed>>
    BY DEF SearchFailed
  <2> QED
    BY <2>1 DEF Told, Shaped
<1> DEFINE Good == {n \in Nat : n + 1 <= Len(f) => Tells(f, n + 1, L[n + 1])}
<1>7. 0 \in Good
  BY <1>5
<1>8. ASSUME NEW n \in Nat, n \in Good  PROVE n + 1 \in Good
  <2> SUFFICES ASSUME (n + 1) + 1 <= Len(f)
               PROVE  Tells(f, (n + 1) + 1, L[(n + 1) + 1])
    OBVIOUS
  <2> DEFINE m == n + 1
  <2>1. /\ m \in Nat \ {0} /\ m + 1 \in 1..Len(f) /\ m + 1 \in 2..Len(f) /\ m \in 0..Len(f)
        /\ m <= Len(f)
    BY <1>2
  <2>2. Tells(f, m, L[m])
    BY <1>8, <2>1
  <2> HIDE DEF m
  <2>3. L[m] \in ListStates
    BY <2>1, <1>3
  <2>4. L[m + 1] = StreamingListReducer(L[m], EventOfFrame(f[m + 1]))
    BY <2>1, <1>4
  <2>5. CASE f[m + 1].type = "search.completed"
    <3>1. Tells(f, m + 1, StreamingListReducer(L[m], EventOfFrame(f[m + 1])))
      BY <2>1, <2>2, <2>3, <2>5, EndIsTold
    <3> QED
      BY <3>1, <2>4 DEF m
  <2>6. CASE f[m + 1].type \in {"supplier.results", "supplier.failed"}
               /\ f[m + 1].supplier \in f[1].suppliers
    <3>1. Tells(f, m + 1, StreamingListReducer(L[m], EventOfFrame(f[m + 1])))
      BY <2>1, <2>2, <2>3, <2>6, ReportTells
    <3> QED
      BY <3>1, <2>4 DEF m
  <2> QED
    BY <2>1, <2>5, <2>6, <1>6
<1> HIDE DEF Good
<1>9. \A n \in Nat : n \in Good
  BY <1>7, <1>8, Induct
<1>10. Tells(f, Len(f), L[Len(f)])
  <2>1. Len(f) - 1 \in Nat /\ (Len(f) - 1) + 1 = Len(f)
    BY <1>2
  <2>2. Len(f) - 1 \in Good
    BY <2>1, <1>9
  <2> QED
    BY <2>1, <2>2 DEF Good
<1> QED
  BY <1>1, <1>2, <1>3, <1>10

\* What ListTellsTheSearch says of the frames of one search.
Shown(f) ==
    LET view == Render(ListAfter(f))
        completed == At(f, "search.completed")
    IN  /\ view.progress <=> completed = {} /\ At(f, "search.failed") = {}
        /\ \A i, j \in DOMAIN view.chips : view.chips[i].id = view.chips[j].id => i = j
        /\ \A asked \in At(f, "search.started") :
              {view.chips[i].id : i \in DOMAIN view.chips} = f[asked].suppliers
        /\ \A i \in DOMAIN view.chips :
              view.chips[i].count =
                Cardinality({j \in DOMAIN view.items : view.items[j][1] = view.chips[i].id})
        /\ view.empty => \E last \in completed : f[last].count.offers = 0
        /\ \A last \in completed :
              LET count == f[last].count IN
              /\ Showing(view, "pending") = {}
              /\ Cardinality(Showing(view, "results")) = count.succeeded
              /\ Cardinality(Showing(view, "failed")) = count.failed
              /\ Len(view.items) = count.offers
              /\ view.warning <=> f[last].status = "budget_exhausted"
              /\ ~view.error

LEMMA Rendered ==
    ASSUME NEW list
    PROVE  /\ Render(list).chips = [i \in DOMAIN list.lanes |-> LaneChip(list.lanes[i])]
           /\ Render(list).items = list.items
           /\ Render(list).progress <=> list.completion = "streaming"
           /\ Render(list).warning <=> list.completion = "budget_exhausted"
           /\ Render(list).error <=> list.completion = "failed"
           /\ Render(list).empty <=>
                 list.completion \notin {"streaming", "failed"} /\ list.items = <<>>
<1>1. Render(list).chips = [i \in DOMAIN list.lanes |-> LaneChip(list.lanes[i])]
  BY DEF Render
<1>2. Render(list).items = list.items
  BY DEF Render
<1>3. Render(list).progress <=> list.completion = "streaming"
  BY DEF Render
<1>4. Render(list).warning <=> list.completion = "budget_exhausted"
  BY DEF Render
<1>5. Render(list).error <=> list.completion = "failed"
  BY DEF Render
<1>6. Render(list).empty <=> list.completion \notin {"streaming", "failed"} /\ list.items = <<>>
  BY DEF Render
<1> QED
  BY <1>1, <1>2, <1>3, <1>4, <1>5, <1>6

LEMMA NothingShown == Shown(<<>>)
<1> DEFINE f == <<>>
<1>1. f \in Seq(Frames) /\ Len(f) = 0
  OBVIOUS
<1>2. ListAfter(f) = InitialList
  BY <1>1, ListUnfolds DEF Follows
<1>3. \A type : At(f, type) = {}
  BY DEF At
<1> HIDE DEF f
<1>4. /\ DOMAIN Render(ListAfter(f)).chips = {}
      /\ Render(ListAfter(f)).progress /\ ~Render(ListAfter(f)).empty
  <2>1. /\ DOMAIN ListAfter(f).lanes = {}
        /\ ListAfter(f).completion = "streaming"
    BY <1>2 DEF InitialList
  <2> HIDE DEF f
  <2> QED
    BY <2>1, Rendered
<1>5. Shown(f)
  BY <1>3, <1>4 DEF Shown
<1> QED
  BY <1>5 DEF f

LEMMA FailureShown == Shown(<<SearchFailed>>)
<1> DEFINE f == <<SearchFailed>>
<1>1. f \in Seq(Frames) /\ Len(f) = 1 /\ DOMAIN f = {1} /\ f[1] = SearchFailed
      /\ SearchFailed \in Frames /\ SearchFailed.type = "search.failed"
  BY DEF SearchFailed, Frames
<1> HIDE DEF f
<1>2. PICK L : Follows(f, L) /\ ListAfter(f) = L[1]
  BY <1>1, ListUnfolds
<1>3. L[1] = StreamingListReducer(L[0], EventOfFrame(f[1])) /\ L[0] = InitialList
  <2>1. 0 \in Nat /\ 0 + 1 \in 1..Len(f) /\ 0 + 1 = 1
    BY <1>1
  <2>2. \A n \in Nat : n + 1 \in 1..Len(f) =>
            L[n + 1] = StreamingListReducer(L[n], EventOfFrame(f[n + 1]))
    BY <1>2 DEF Follows
  <2>3. L[0 + 1] = StreamingListReducer(L[0], EventOfFrame(f[0 + 1]))
    BY <2>1, <2>2
  <2> QED
    BY <2>1, <2>3, <1>2 DEF Follows
<1>4. ListAfter(f) = [InitialList EXCEPT !.completion = "failed"]
  <2>1. ListAfter(f) = StreamingListReducer(InitialList, EventOfFrame(SearchFailed))
    BY <1>1, <1>2, <1>3
  <2> QED
    BY <2>1, <1>1, InitialIsList, ReducerSteps
<1>5. /\ At(f, "search.completed") = {} /\ At(f, "search.started") = {}
      /\ At(f, "search.failed") # {}
  BY <1>1 DEF At
<1>6. /\ DOMAIN Render(ListAfter(f)).chips = {}
      /\ ~Render(ListAfter(f)).progress /\ ~Render(ListAfter(f)).empty
  <2>1. /\ DOMAIN ListAfter(f).lanes = {}
        /\ ListAfter(f).completion = "failed"
    BY <1>4 DEF InitialList
  <2> QED
    BY <2>1, Rendered
<1>7. Shown(f)
  BY <1>5, <1>6 DEF Shown
<1> QED
  BY <1>7 DEF f

\* Each supplier with a frame of the type stands there once: as many lanes are
\* shown so as there are frames.
LEMMA AsManyLanes ==
    ASSUME NEW f \in Seq(Frames), Told(f), NEW type \in {"supplier.results", "supplier.failed"}
    PROVE  Cardinality({f[j].supplier : j \in At(f, type)}) = Cardinality(At(f, type))
<1> DEFINE A == At(f, type)
           S == {f[j].supplier : j \in A}
           g == [j \in A |-> f[j].supplier]
<1>1. IsFiniteSet(A) /\ A \subseteq DOMAIN f
  BY AtIsFinite DEF At
<1>2. \A j \in A : f[j].supplier \in Suppliers /\ Reports(f[j], f[j].supplier)
  <2>1. \A j \in A : f[j] \in Frames /\ f[j].type = type
    BY FrameTypes DEF At
  <2> QED
    BY <2>1 DEF Frames, Reports
<1>3. \A i, j \in A : g[i] = g[j] => i = j
  <2> SUFFICES ASSUME NEW i \in A, NEW j \in A, f[i].supplier = f[j].supplier  PROVE i = j
    OBVIOUS
  <2> QED
    BY <1>1, <1>2 DEF Told
<1>4. g \in Bijection(A, S)
  <2>1. g \in [A -> S] /\ \A s \in S : \E j \in A : g[j] = s
    OBVIOUS
  <2> HIDE DEF g, S, A
  <2> QED
    BY <2>1, <1>3 DEF Bijection, Injection, Surjection, IsInjective
<1>5. ExistsBijection(A, S)
  BY <1>4 DEF ExistsBijection
<1> HIDE DEF A, S
<1> QED
  BY <1>1, <1>5, FS_Bijection DEF A, S

LEMMA StartedShown ==
    ASSUME NEW f \in Seq(Frames), f # <<>>, f[1].type = "search.started", Told(f)
    PROVE  Shown(f)
<1> DEFINE list == ListAfter(f)
           view == Render(ListAfter(f))
           ids == SetToSeq(f[1].suppliers)
           completed == At(f, "search.completed")
<1>1. list \in ListStates /\ LanesTell(f, Len(f), list) /\ ItemsTell(f, Len(f), list)
      /\ EndTells(f, Len(f), list)
  BY ListTells DEF Tells
<1>2. DOMAIN f = 1..Len(f) /\ Len(f) \in Nat /\ \A i \in DOMAIN f : f[i] \in Frames
  BY FrameTypes
<1>3. 1 \in DOMAIN f
  BY <1>2, NotEmpty
<1>4. \A type : Among(f, Len(f), type) = At(f, type)
  BY <1>2 DEF Among, At
<1>5. /\ \A i, j \in DOMAIN ids : ids[i] = ids[j] => i = j
      /\ \A s \in f[1].suppliers : \E i \in DOMAIN ids : ids[i] = s
      /\ \A i \in DOMAIN ids : ids[i] \in f[1].suppliers
  <2>1. f[1].suppliers \in SUBSET Suppliers
    BY <1>2, <1>3 DEF Frames
  <2> QED
    BY <2>1, IdsOf
<1>6. \A i \in 2..Len(f) : \/ f[i].type = "search.completed"
                           \/ f[i].type \in {"supplier.results", "supplier.failed"}
                                 /\ f[i].supplier \in f[1].suppliers
  <2>1. f # <<SearchFailed>>
    BY DEF SearchFailed
  <2> QED
    BY <2>1 DEF Told, Shaped
<1>7. \A i \in DOMAIN f : i = 1 \/ i \in 2..Len(f)
  BY <1>2
<1>8. /\ At(f, "search.failed") = {} /\ \A i \in At(f, "search.started") : i = 1
      /\ \A i \in At(f, "supplier.results") \union At(f, "supplier.failed") :
            f[i].supplier \in f[1].suppliers
  BY <1>6, <1>7 DEF At
<1>9. \A last \in completed : /\ last = Len(f) /\ last \in DOMAIN f
                              /\ f[last].status \in {"complete", "budget_exhausted"}
                              /\ list.completion = f[last].status
  <2>1. \A last \in completed : last = Len(f) /\ last \in DOMAIN f /\ f[last].type = "search.completed"
    BY DEF Told, At
  <2>2. \A last \in completed : f[last].status \in {"complete", "budget_exhausted"}
    BY <2>1, <1>2 DEF Frames
  <2>3. \A last \in completed : list.completion = f[last].status
    BY <1>1, <1>4 DEF EndTells
  <2> QED
    BY <2>1, <2>2, <2>3
<1>10. completed = {} => list.completion = "streaming"
  BY <1>1, <1>4 DEF EndTells
<1>11. /\ view.chips = [i \in DOMAIN list.lanes |-> LaneChip(list.lanes[i])]
       /\ view.items = list.items
       /\ view.progress <=> list.completion = "streaming"
       /\ view.warning <=> list.completion = "budget_exhausted"
       /\ view.error <=> list.completion = "failed"
       /\ view.empty <=> list.completion \notin {"streaming", "failed"} /\ list.items = <<>>
  BY Rendered
<1>12. /\ DOMAIN list.lanes = DOMAIN ids
       /\ \A i \in DOMAIN ids :
             /\ list.lanes[i].id = ids[i]
             /\ list.lanes[i].status = "results" <=>
                   \E j \in At(f, "supplier.results") : f[j].supplier = ids[i]
             /\ list.lanes[i].status = "failed" <=>
                   \E j \in At(f, "supplier.failed") : f[j].supplier = ids[i]
  BY <1>1, <1>4 DEF LanesTell
<1>13. \A i \in DOMAIN ids : list.lanes[i].status \in {"pending", "results", "failed"}
  <2>1. list.lanes \in Seq(ListLanes)
    BY <1>1 DEF ListStates
  <2>2. \A i \in DOMAIN list.lanes : list.lanes[i] \in ListLanes
    BY <2>1, ElementOfSeq, LenProperties
  <2> QED
    BY <2>2, <1>12 DEF ListLanes
<1> HIDE DEF list, view, ids, completed
<1>14. /\ DOMAIN view.chips = DOMAIN ids
       /\ \A i \in DOMAIN ids :
             /\ view.chips[i].id = ids[i]
             /\ view.chips[i].look = list.lanes[i].status
             /\ view.chips[i].count =
                   IF list.lanes[i].status = "results" THEN list.lanes[i].itemCount ELSE 0
  BY <1>11, <1>12 DEF LaneChip
<1>15. view.progress <=> completed = {} /\ At(f, "search.failed") = {}
  BY <1>8, <1>9, <1>10, <1>11
<1>16. \A i, j \in DOMAIN view.chips : view.chips[i].id = view.chips[j].id => i = j
  BY <1>5, <1>14
<1>17. \A asked \in At(f, "search.started") :
          {view.chips[i].id : i \in DOMAIN view.chips} = f[asked].suppliers
  <2>1. {view.chips[i].id : i \in DOMAIN view.chips} = f[1].suppliers
    BY <1>5, <1>14
  <2> QED
    BY <2>1, <1>8
<1>18. \A i \in DOMAIN view.chips :
          view.chips[i].count =
            Cardinality({j \in DOMAIN view.items : view.items[j][1] = view.chips[i].id})
  <2> SUFFICES ASSUME NEW i \in DOMAIN ids
               PROVE  view.chips[i].count =
                        Cardinality({j \in DOMAIN view.items : view.items[j][1] = view.chips[i].id})
    BY <1>14
  <2>2. {j \in DOMAIN view.items : view.items[j][1] = view.chips[i].id} = PlacesOf(list.items, ids[i])
    BY <1>11, <1>14 DEF PlacesOf
  <2>1. \A k \in DOMAIN list.lanes : Cardinality(PlacesOf(list.items, list.lanes[k].id)) =
            IF list.lanes[k].status = "results" THEN list.lanes[k].itemCount ELSE 0
    BY <1>1 DEF ItemsTell
  <2>3. i \in DOMAIN list.lanes /\ list.lanes[i].id = ids[i]
    BY <1>12
  <2> DEFINE places == PlacesOf(list.items, ids[i])
  <2>4. Cardinality(places) =
            IF list.lanes[i].status = "results" THEN list.lanes[i].itemCount ELSE 0
    BY <2>1, <2>3
  <2> HIDE DEF places
  <2>5. view.chips[i].count = Cardinality(places)
    BY <2>4, <1>14
  <2> QED
    BY <2>2, <2>5 DEF places
<1>19. Len(list.items) = Cardinality(OffersOf(f))
  BY <1>1, <1>4, OffersOfFrames DEF ItemsTell
<1>20. \A last \in completed :
          /\ Len(view.items) = f[last].count.offers
          /\ \A s \in f[1].suppliers : \E i \in DOMAIN f : Reports(f[i], s)
          /\ f[last].count.succeeded = Cardinality(At(f, "supplier.results"))
          /\ f[last].count.failed = Cardinality(At(f, "supplier.failed"))
  BY <1>11, <1>19 DEF Told, completed
<1>21. view.empty => \E last \in completed : f[last].count.offers = 0
  <2> SUFFICES ASSUME view.empty  PROVE \E last \in completed : f[last].count.offers = 0
    OBVIOUS
  <2>1. completed # {} /\ view.items = <<>>
    BY <1>10, <1>11
  <2>2. Len(view.items) = 0
    BY <2>1
  <2> QED
    BY <2>1, <2>2, <1>20
<1>22. ASSUME NEW type \in {"supplier.results", "supplier.failed"}, NEW look,
              look = IF type = "supplier.results" THEN "results" ELSE "failed"
       PROVE  Cardinality(Showing(view, look)) = Cardinality(At(f, type))
  <2>1. \A i \in DOMAIN ids : view.chips[i].look = look <=> \E j \in At(f, type) : f[j].supplier = ids[i]
    BY <1>12, <1>14, <1>22
  <2>2. Showing(view, look) = {f[j].supplier : j \in At(f, type)}
    <3>1. ASSUME NEW s \in Showing(view, look)
          PROVE  s \in {f[j].supplier : j \in At(f, type)}
      BY <3>1, <2>1, <1>14 DEF Showing
    <3>2. ASSUME NEW j \in At(f, type)
          PROVE  f[j].supplier \in Showing(view, look)
      <4>1. f[j].supplier \in f[1].suppliers
        BY <1>8
      <4>2. PICK i \in DOMAIN ids : ids[i] = f[j].supplier
        BY <4>1, <1>5
      <4>3. view.chips[i].look = look /\ view.chips[i].id = f[j].supplier /\ i \in DOMAIN view.chips
        BY <4>2, <2>1, <1>14
      <4> QED
        BY <4>3 DEF Showing
    <3> QED
      BY <3>1, <3>2
  <2> QED
    BY <2>2, AsManyLanes
<1>23. completed # {} => Showing(view, "pending") = {}
  <2> SUFFICES ASSUME completed # {}, NEW i \in DOMAIN ids  PROVE view.chips[i].look # "pending"
    BY <1>14 DEF Showing
  <2>1. ids[i] \in f[1].suppliers
    BY <1>5
  <2>2. PICK j \in DOMAIN f : Reports(f[j], ids[i])
    BY <2>1, <1>20
  <2>3. j \in At(f, "supplier.results") \/ j \in At(f, "supplier.failed")
    BY <2>2 DEF Reports, At
  <2>4. f[j].supplier = ids[i]
    BY <2>2 DEF Reports
  <2> QED
    BY <2>3, <2>4, <1>12, <1>14
<1>24. ASSUME NEW last \in completed
       PROVE  /\ Showing(view, "pending") = {}
              /\ Cardinality(Showing(view, "results")) = f[last].count.succeeded
              /\ Cardinality(Showing(view, "failed")) = f[last].count.failed
              /\ Len(view.items) = f[last].count.offers
              /\ view.warning <=> f[last].status = "budget_exhausted"
              /\ ~view.error
  <2>1. /\ Cardinality(Showing(view, "results")) = Cardinality(At(f, "supplier.results"))
        /\ Cardinality(Showing(view, "failed")) = Cardinality(At(f, "supplier.failed"))
    BY <1>22
  <2>2. /\ view.warning <=> f[last].status = "budget_exhausted"
        /\ ~view.error
    BY <1>9, <1>11
  <2> QED
    BY <2>1, <2>2, <1>20, <1>23
<1> QED
  BY <1>15, <1>16, <1>17, <1>18, <1>21, <1>24 DEF Shown, view, completed

\* Whatever the frames of a search, in whatever order its lanes, the budget and
\* failures come and wherever it stops, the client was told of every supplier
\* asked, and the list of the UI kit shows it what it was told: a chip for each,
\* as many items under it as it says, no lane that still spins once the search
\* is complete, the counters it was sent, the warning if and only if the budget
\* ran out, and "nothing found" never for a search that failed or still runs.
THEOREM SearchesToldWhole == SearchSpec => []SearchIsToldWhole
<1>1. SearchInv => SearchIsToldWhole
  <2> SUFFICES ASSUME SearchInv  PROVE SearchIsToldWhole
    OBVIOUS
  <2>1. \A q \in Searches : Told(frames[q]) /\ frames[q] \in Seq(Frames)
    BY SearchFields DEF SearchInv, SearchOK, StreamOK
  <2>2. SuppliersAccountedFor
    BY <2>1 DEF SuppliersAccountedFor, EachToldOnce, OffersAddUp, Told, At, Sent
  <2>3. ASSUME NEW q \in Searches  PROVE Shown(frames[q])
    <3> DEFINE f == frames[q]
    <3>1. Told(f) /\ f \in Seq(Frames)
      BY <2>1
    <3> HIDE DEF f
    <3>2. \/ f = <<>> \/ f = <<SearchFailed>>
          \/ f # <<>> /\ f[1].type = "search.started"
      BY <3>1 DEF Told, Shaped
    <3>3. Shown(f)
      BY <3>1, <3>2, NothingShown, FailureShown, StartedShown
    <3> QED
      BY <3>3 DEF f
  <2>4. ListTellsTheSearch
    BY <2>3 DEF ListTellsTheSearch, Shown, Sent, At
  <2> QED
    BY <2>2, <2>4 DEF SearchIsToldWhole
<1> QED
  BY <1>1, SearchInvInit, SearchInvNext, PTL DEF SearchSpec
=============================================================================
