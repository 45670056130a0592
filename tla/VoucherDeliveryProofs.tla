------------------------ MODULE VoucherDeliveryProofs ------------------------
(***************************************************************************)
(* Proofs about voucher delivery: however many sweeps race, die and lose   *)
(* replies, a row says "sent" only of a mailed voucher, a settled row      *)
(* stays as it is, and no failure goes unseen while no process dies.       *)
(***************************************************************************)
EXTENDS VoucherDelivery, TLAPS

\* Strengthening of SentMeansMailed: the mail precedes the UPDATE.
MailInv ==
    /\ SentMeansMailed
    /\ \A w \in Mailers : sweep[w].pc = "mailed" => mails[sweep[w].event] > 0

IInv == DeliveryTypeOK /\ MailInv /\ FailureSurfaces

HandPcs == {"surfacing", "mailed", "erred", "escalating"}
Pcs == {"idle", "claiming", "surfacing", "claimed", "delivering", "mailed", "erred",
        "escalating"}
-----------------------------------------------------------------------------
(* Lemmas on the steps of a pass over its batch.                           *)

LEMMA HoldTyped ==
    ASSUME DeliveryTypeOK, NEW w \in Mailers, NEW e \in Confirmations, NEW pc \in HandPcs,
           Hold(w, e, pc)
    PROVE  /\ sweep' \in [Mailers -> Sweeps]
           /\ \A v \in Mailers : sweep'[v].pc \in HandPcs <=> sweep'[v].event # NoEvent
           /\ \A v \in Mailers \ {w} : sweep'[v] = sweep[v]
           /\ sweep'[w].pc = pc /\ sweep'[w].event = e
<1> DEFINE s == [sweep[w] EXCEPT !.pc = pc, !.event = e, !.todo = @ \ {e}]
<1>1. sweep' = [sweep EXCEPT ![w] = s]
    BY DEF Hold
<1>2. s \in Sweeps /\ s.pc = pc /\ s.event = e
    BY DEF DeliveryTypeOK, Sweeps, HandPcs
<1> HIDE DEF s
<1> QED BY <1>1, <1>2, ConfirmationsAssumption DEF DeliveryTypeOK, HandPcs

LEMMA DropTyped ==
    ASSUME DeliveryTypeOK, NEW w \in Mailers, NEW e, NEW pc \in Pcs \ HandPcs,
           Drop(w, e, pc)
    PROVE  /\ sweep' \in [Mailers -> Sweeps]
           /\ \A v \in Mailers : sweep'[v].pc \in HandPcs <=> sweep'[v].event # NoEvent
           /\ \A v \in Mailers \ {w} : sweep'[v] = sweep[v]
           /\ sweep'[w].pc = pc
<1> DEFINE s == [sweep[w] EXCEPT !.pc = pc, !.event = NoEvent, !.todo = @ \ {e}]
<1>1. sweep' = [sweep EXCEPT ![w] = s]
    BY DEF Drop
<1>2. s \in Sweeps /\ s.pc = pc /\ s.event = NoEvent
    BY DEF DeliveryTypeOK, Sweeps, Pcs
<1> HIDE DEF s
<1> QED BY <1>1, <1>2 DEF DeliveryTypeOK, HandPcs

(* A pass that is over leaves an empty, typed local state.                 *)
LEMMA NoSweepTyped == NoSweep \in Sweeps /\ NoSweep.pc = "idle" /\ NoSweep.event = NoEvent
BY DEF NoSweep, Sweeps

(* The two outcomes of a failed attempt leave a settled row alone.         *)
LEMMA RowsTyped ==
    ASSUME NEW row \in Rows, NEW attempts \in Nat
    PROVE  /\ Failed(row, attempts) \in Rows
           /\ Retried(row, attempts) \in Rows
           /\ row.state # "pending" =>
                 Failed(row, attempts) = row /\ Retried(row, attempts) = row
           /\ row.state = "pending" => Retried(row, attempts).state = "pending"
           /\ Failed(row, attempts).state = "sent" => row.state = "sent"
<1> DEFINE delay == BackoffBase * 2^(attempts - 1)
           none == 0
           retried == [row EXCEPT !.attempts = attempts, !.wait = delay]
           failed == [row EXCEPT !.state = "failed", !.attempts = attempts, !.wait = none]
<1>1. delay \in Int /\ none \in Int
    <2>1. 2^(attempts - 1) \in Int
        OBVIOUS
    <2> QED BY <2>1, BackoffAssumption
<1>2. /\ Retried(row, attempts) = IF row.state = "pending" THEN retried ELSE row
      /\ Failed(row, attempts) = IF row.state = "pending" THEN failed ELSE row
    BY DEF Retried, Failed
<1> HIDE DEF delay, none
<1>3. retried \in Rows /\ retried.state = row.state
    BY <1>1 DEF Rows
<1>4. failed \in Rows /\ failed.state = "failed"
    BY <1>1 DEF Rows
<1> HIDE DEF retried, failed
<1> QED BY <1>2, <1>3, <1>4
-----------------------------------------------------------------------------
(* The initial states satisfy the invariant.                               *)
LEMMA InitInv == DeliveryInit => IInv
<1> SUFFICES ASSUME DeliveryInit PROVE IInv
    OBVIOUS
<1> USE DEF DeliveryInit
<1>1. NoRow \in Rows /\ NoRow.state = "none"
    BY DEF NoRow, Rows
<1>2. DeliveryTypeOK
    BY <1>1, NoSweepTyped, DeliveryBoundAssumption DEF DeliveryTypeOK
<1>3. MailInv
    BY <1>1, NoSweepTyped DEF MailInv, SentMeansMailed
<1>4. FailureSurfaces
    BY <1>1 DEF FailureSurfaces
<1> QED BY <1>2, <1>3, <1>4 DEF IInv

-----------------------------------------------------------------------------
(* A step that leaves the rows and the mails alone.                        *)

\* The part of a step that the invariants on rows look at.
Settles ==
    \A e \in Confirmations :
       delivery[e].state \in {"sent", "failed"} =>
          delivery'[e].state = delivery[e].state
          /\ delivery'[e].attempts = delivery[e].attempts

Kept == IInv' /\ Settles

LEMMA ConfirmKeeps ==
    ASSUME IInv, NEW e \in Confirmations, Confirm(e)
    PROVE  Kept
BY DEF IInv, DeliveryTypeOK, MailInv, SentMeansMailed, FailureSurfaces, Confirm, Kept, Settles

LEMMA ClaimLoadKeeps ==
    ASSUME IInv, NEW w \in Mailers, ClaimLoad(w)
    PROVE  Kept
<1> DEFINE todo == {e \in confirmed : delivery[e].state = "none"}
           s == [sweep[w] EXCEPT !.pc = "claiming", !.todo = todo]
<1>1. sweep' = [sweep EXCEPT ![w] = s] /\ sweep[w].pc = "idle"
    BY DEF ClaimLoad
<1>2. s \in Sweeps /\ s.pc = "claiming" /\ s.event = sweep[w].event
    BY DEF IInv, DeliveryTypeOK, Sweeps
<1> HIDE DEF s
<1>3. DeliveryTypeOK'
    BY <1>1, <1>2 DEF IInv, DeliveryTypeOK, ClaimLoad
<1>4. MailInv' /\ FailureSurfaces' /\ Settles
    BY <1>1, <1>2 DEF IInv, DeliveryTypeOK, MailInv, SentMeansMailed, FailureSurfaces, Settles,
                      ClaimLoad
<1> QED BY <1>3, <1>4 DEF IInv, Kept

LEMMA DueLoadKeeps ==
    ASSUME IInv, NEW w \in Mailers, DueLoad(w)
    PROVE  Kept
<1> DEFINE todo == {e \in Confirmations : IsDue(e)}
           snapshot == [e \in Confirmations |-> IF IsDue(e) THEN delivery[e].attempts ELSE 0]
           s == [sweep[w] EXCEPT !.pc = "delivering", !.todo = todo, !.snapshot = snapshot]
<1>1. sweep' = [sweep EXCEPT ![w] = s] /\ sweep[w].pc = "claimed"
    BY DEF DueLoad
<1>2. todo \in SUBSET Confirmations /\ snapshot \in [Confirmations -> Nat]
    BY DEF IInv, DeliveryTypeOK, Rows
<1> HIDE DEF todo, snapshot
<1>3. s \in Sweeps /\ s.pc = "delivering" /\ s.event = sweep[w].event
    <2>1. sweep[w] \in Sweeps
        BY DEF IInv, DeliveryTypeOK
    <2> QED BY <1>2, <2>1 DEF Sweeps
<1> HIDE DEF s
<1>4. /\ sweep' \in [Mailers -> Sweeps]
      /\ \A v \in Mailers \ {w} : sweep'[v] = sweep[v]
      /\ sweep'[w].pc = "delivering" /\ sweep'[w].event = sweep[w].event
    BY <1>1, <1>3 DEF IInv, DeliveryTypeOK
<1>5. UNCHANGED <<confirmed, delivery, escalated, mails, crashes, lostReplies>>
    BY DEF DueLoad
<1>6. DeliveryTypeOK'
    BY <1>1, <1>4, <1>5 DEF IInv, DeliveryTypeOK
<1>7. MailInv' /\ Settles
    BY <1>4, <1>5 DEF IInv, DeliveryTypeOK, MailInv, SentMeansMailed, Settles
<1>8. FailureSurfaces'
    BY <1>1, <1>4, <1>5 DEF IInv, DeliveryTypeOK, FailureSurfaces
<1> QED BY <1>6, <1>7, <1>8 DEF IInv, Kept

LEMMA SweepEndKeeps ==
    ASSUME IInv, NEW w \in Mailers, PassEnd(w)
    PROVE  Kept
<1>1. DeliveryTypeOK'
    BY NoSweepTyped DEF IInv, DeliveryTypeOK, PassEnd
<1>2. MailInv' /\ FailureSurfaces' /\ Settles
    BY NoSweepTyped DEF IInv, DeliveryTypeOK, MailInv, SentMeansMailed, FailureSurfaces, Settles,
                        PassEnd
<1> QED BY <1>1, <1>2 DEF IInv, Kept

LEMMA CrashKeeps ==
    ASSUME IInv, NEW w \in Mailers, Crash(w)
    PROVE  Kept
<1> USE DeliveryBoundAssumption
<1>1. DeliveryTypeOK'
    BY NoSweepTyped DEF IInv, DeliveryTypeOK, Crash
<1>2. MailInv' /\ Settles
    BY NoSweepTyped DEF IInv, DeliveryTypeOK, MailInv, SentMeansMailed, Settles, Crash
<1>3. FailureSurfaces'
    BY DEF IInv, DeliveryTypeOK, FailureSurfaces, Crash
<1> QED BY <1>1, <1>2, <1>3 DEF IInv, Kept

LEMMA ClaimEndKeeps ==
    ASSUME IInv, NEW w \in Mailers, ClaimEnd(w)
    PROVE  Kept
<1>1. Drop(w, NoEvent, "claimed") /\ sweep[w].pc = "claiming"
    BY DEF ClaimEnd
<1>2. /\ sweep' \in [Mailers -> Sweeps]
      /\ \A v \in Mailers : sweep'[v].pc \in HandPcs <=> sweep'[v].event # NoEvent
      /\ \A v \in Mailers \ {w} : sweep'[v] = sweep[v]
      /\ sweep'[w].pc = "claimed"
    BY <1>1, DropTyped DEF IInv, Pcs, HandPcs
<1>3. DeliveryTypeOK'
    BY <1>2 DEF IInv, DeliveryTypeOK, HandPcs, ClaimEnd
<1>4. MailInv' /\ FailureSurfaces' /\ Settles
    BY <1>1, <1>2 DEF IInv, DeliveryTypeOK, MailInv, SentMeansMailed, FailureSurfaces, Settles,
                      ClaimEnd
<1> QED BY <1>3, <1>4 DEF IInv, Kept

(* A row in hand surfaces: claimNewEvents and processDue.                  *)
LEMMA SurfaceKeeps ==
    ASSUME IInv, NEW w \in Mailers, ClaimSurface(w) \/ Escalate(w)
    PROVE  Kept
<1>1. PICK pc \in {"claiming", "delivering"} :
         /\ Drop(w, sweep[w].event, pc)
         /\ sweep[w].pc \in {"surfacing", "escalating"}
         /\ escalated' = escalated \union {sweep[w].event}
         /\ UNCHANGED <<confirmed, delivery, mails, crashes, lostReplies>>
    BY DEF ClaimSurface, Escalate
<1>2. sweep[w].event \in Confirmations
    BY <1>1 DEF IInv, DeliveryTypeOK, Sweeps
<1>3. /\ sweep' \in [Mailers -> Sweeps]
      /\ \A v \in Mailers : sweep'[v].pc \in HandPcs <=> sweep'[v].event # NoEvent
      /\ \A v \in Mailers \ {w} : sweep'[v] = sweep[v]
      /\ sweep'[w].pc = pc
    BY <1>1, DropTyped DEF IInv, Pcs, HandPcs
<1>4. DeliveryTypeOK'
    BY <1>1, <1>2, <1>3 DEF IInv, DeliveryTypeOK, HandPcs
<1>5. MailInv' /\ FailureSurfaces' /\ Settles
    BY <1>1, <1>2, <1>3 DEF IInv, DeliveryTypeOK, MailInv, SentMeansMailed, FailureSurfaces,
                            Settles
<1> QED BY <1>4, <1>5 DEF IInv, Kept

LEMMA ClaimInsertKeeps ==
    ASSUME IInv, NEW w \in Mailers, ClaimInsert(w)
    PROVE  Kept
<1> SUFFICES ASSUME NEW e \in sweep[w].todo,
                    sweep[w].pc = "claiming",
                    UNCHANGED <<confirmed, escalated, mails, crashes, lostReplies>>,
                    \/ /\ delivery[e].state # "none"
                       /\ Drop(w, e, "claiming")
                       /\ UNCHANGED delivery
                    \/ /\ delivery[e].state = "none"
                       /\ delivery' = [delivery EXCEPT ![e].state = "failed"]
                       /\ Hold(w, e, "surfacing")
                    \/ /\ delivery[e].state = "none"
                       /\ delivery' = [delivery EXCEPT ![e].state = "pending"]
                       /\ Drop(w, e, "claiming")
             PROVE  Kept
    BY DEF ClaimInsert
<1>0. e \in Confirmations /\ delivery \in [Confirmations -> Rows] /\ delivery[e] \in Rows
    BY DEF IInv, DeliveryTypeOK, Sweeps
<1>1. CASE delivery[e].state # "none" /\ Drop(w, e, "claiming") /\ UNCHANGED delivery
    <2>1. /\ sweep' \in [Mailers -> Sweeps]
          /\ \A v \in Mailers : sweep'[v].pc \in HandPcs <=> sweep'[v].event # NoEvent
          /\ \A v \in Mailers \ {w} : sweep'[v] = sweep[v]
          /\ sweep'[w].pc = "claiming"
        BY <1>1, DropTyped DEF IInv, Pcs, HandPcs
    <2>2. DeliveryTypeOK'
        BY <1>1, <2>1 DEF IInv, DeliveryTypeOK, HandPcs
    <2>3. MailInv' /\ FailureSurfaces' /\ Settles
        BY <1>1, <2>1 DEF IInv, DeliveryTypeOK, MailInv, SentMeansMailed, FailureSurfaces, Settles
    <2> QED BY <2>2, <2>3 DEF IInv, Kept
<1>2. CASE /\ delivery[e].state = "none"
           /\ delivery' = [delivery EXCEPT ![e].state = "failed"]
           /\ Hold(w, e, "surfacing")
    <2>1. /\ sweep' \in [Mailers -> Sweeps]
          /\ \A v \in Mailers : sweep'[v].pc \in HandPcs <=> sweep'[v].event # NoEvent
          /\ \A v \in Mailers \ {w} : sweep'[v] = sweep[v]
          /\ sweep'[w].pc = "surfacing" /\ sweep'[w].event = e
        BY <1>0, <1>2, HoldTyped DEF IInv, HandPcs
    <2>2. /\ delivery' \in [Confirmations -> Rows]
          /\ delivery'[e].state = "failed"
          /\ \A d \in Confirmations \ {e} : delivery'[d] = delivery[d]
        BY <1>0, <1>2 DEF Rows
    <2>3. DeliveryTypeOK'
        BY <2>1, <2>2 DEF IInv, DeliveryTypeOK, HandPcs
    <2>4. MailInv' /\ Settles
        BY <1>0, <1>2, <2>1, <2>2 DEF IInv, DeliveryTypeOK, MailInv, SentMeansMailed, Settles
    <2>5. FailureSurfaces'
        BY <1>0, <2>1, <2>2 DEF IInv, DeliveryTypeOK, FailureSurfaces
    <2> QED BY <2>3, <2>4, <2>5 DEF IInv, Kept
<1>3. CASE /\ delivery[e].state = "none"
           /\ delivery' = [delivery EXCEPT ![e].state = "pending"]
           /\ Drop(w, e, "claiming")
    <2>1. /\ sweep' \in [Mailers -> Sweeps]
          /\ \A v \in Mailers : sweep'[v].pc \in HandPcs <=> sweep'[v].event # NoEvent
          /\ \A v \in Mailers \ {w} : sweep'[v] = sweep[v]
          /\ sweep'[w].pc = "claiming"
        BY <1>3, DropTyped DEF IInv, Pcs, HandPcs
    <2>2. /\ delivery' \in [Confirmations -> Rows]
          /\ delivery'[e].state = "pending"
          /\ \A d \in Confirmations \ {e} : delivery'[d] = delivery[d]
        BY <1>0, <1>3 DEF Rows
    <2>3. DeliveryTypeOK'
        BY <2>1, <2>2 DEF IInv, DeliveryTypeOK, HandPcs
    <2>4. MailInv' /\ Settles
        BY <1>0, <1>3, <2>1, <2>2 DEF IInv, DeliveryTypeOK, MailInv, SentMeansMailed, Settles
    <2>5. FailureSurfaces'
        BY <1>0, <2>1, <2>2 DEF IInv, DeliveryTypeOK, FailureSurfaces
    <2> QED BY <2>3, <2>4, <2>5 DEF IInv, Kept
<1> QED BY <1>1, <1>2, <1>3

LEMMA DeliverKeeps ==
    ASSUME IInv, NEW w \in Mailers, Deliver(w)
    PROVE  Kept
<1>1. PICK e \in sweep[w].todo, pc \in {"mailed", "erred"} :
         /\ Hold(w, e, pc)
         /\ \/ pc = "erred" /\ UNCHANGED mails
            \/ mails' = [mails EXCEPT ![e] = IF @ < 2 THEN @ + 1 ELSE @]
         /\ lostReplies' \in {lostReplies, lostReplies + 1}
         /\ lostReplies' = lostReplies \/ lostReplies < MaxLostReplies
         /\ sweep[w].pc = "delivering"
    BY DEF Deliver
<1>2. e \in Confirmations
    BY DEF IInv, DeliveryTypeOK, Sweeps
<1>3. /\ sweep' \in [Mailers -> Sweeps]
      /\ \A v \in Mailers : sweep'[v].pc \in HandPcs <=> sweep'[v].event # NoEvent
      /\ \A v \in Mailers \ {w} : sweep'[v] = sweep[v]
      /\ sweep'[w].pc = pc /\ sweep'[w].event = e
    BY <1>1, <1>2, HoldTyped DEF IInv, HandPcs
<1>4. /\ mails' \in [Confirmations -> 0 .. 2]
      /\ \A d \in Confirmations : mails'[d] >= mails[d]
      /\ pc = "mailed" => mails'[e] > 0
    BY <1>1, <1>2 DEF IInv, DeliveryTypeOK
<1>5. lostReplies' \in 0 .. MaxLostReplies
    BY <1>1, DeliveryBoundAssumption DEF IInv, DeliveryTypeOK
<1>6. UNCHANGED <<confirmed, delivery, escalated, crashes>>
    BY DEF Deliver
<1>7. DeliveryTypeOK'
    BY <1>3, <1>4, <1>5, <1>6 DEF IInv, DeliveryTypeOK, HandPcs
<1>8. MailInv'
    <2>1. SentMeansMailed'
        BY <1>4, <1>6 DEF IInv, DeliveryTypeOK, MailInv, SentMeansMailed
    <2>2. ASSUME NEW v \in Mailers, sweep'[v].pc = "mailed"
          PROVE  mails'[sweep'[v].event] > 0
        <3>1. CASE v = w
            BY <1>3, <1>4, <2>2, <3>1
        <3>2. CASE v # w
            <4>1. sweep[v].event \in Confirmations /\ sweep[v].pc = "mailed" /\ sweep'[v] = sweep[v]
                BY <1>3, <2>2, <3>2 DEF IInv, DeliveryTypeOK, Sweeps
            <4> QED BY <1>4, <4>1 DEF IInv, DeliveryTypeOK, MailInv
        <3> QED BY <3>1, <3>2
    <2> QED BY <2>1, <2>2 DEF MailInv
<1>9. FailureSurfaces' /\ Settles
    BY <1>1, <1>3, <1>6 DEF IInv, DeliveryTypeOK, FailureSurfaces, Settles
<1> QED BY <1>7, <1>8, <1>9 DEF IInv, Kept

LEMMA SettleSentKeeps ==
    ASSUME IInv, NEW w \in Mailers, SettleSent(w)
    PROVE  Kept
<1> DEFINE e == sweep[w].event
<1>0. /\ sweep[w].pc = "mailed" /\ e \in Confirmations /\ delivery[e] \in Rows
      /\ delivery \in [Confirmations -> Rows] /\ mails[e] > 0
      /\ UNCHANGED <<confirmed, escalated, mails, lostReplies>>
    BY DEF IInv, DeliveryTypeOK, Sweeps, MailInv, SettleSent
<1>1. CASE /\ delivery' = [delivery EXCEPT ![e].state = IF @ = "pending" THEN "sent" ELSE @]
           /\ Drop(w, e, "delivering")
           /\ UNCHANGED crashes
    <2> HIDE DEF e
    <2>1. /\ sweep' \in [Mailers -> Sweeps]
          /\ \A v \in Mailers : sweep'[v].pc \in HandPcs <=> sweep'[v].event # NoEvent
          /\ \A v \in Mailers \ {w} : sweep'[v] = sweep[v]
          /\ sweep'[w].pc = "delivering"
        BY <1>1, DropTyped DEF IInv, Pcs, HandPcs
    <2>2. /\ delivery' \in [Confirmations -> Rows]
          /\ \A d \in Confirmations \ {e} : delivery'[d] = delivery[d]
          /\ delivery[e].state # "pending" => delivery'[e].state = delivery[e].state
          /\ delivery[e].state = "pending" => delivery'[e].state = "sent"
          /\ delivery'[e].attempts = delivery[e].attempts
        BY <1>0, <1>1 DEF Rows
    <2>3. DeliveryTypeOK'
        BY <1>0, <1>1, <2>1, <2>2 DEF IInv, DeliveryTypeOK, HandPcs
    <2>4. MailInv'
        BY <1>0, <2>1, <2>2 DEF IInv, DeliveryTypeOK, MailInv, SentMeansMailed
    <2>5. Settles
        BY <1>0, <2>2 DEF Settles
    <2>6. FailureSurfaces'
        BY <1>0, <1>1, <2>1, <2>2 DEF IInv, DeliveryTypeOK, FailureSurfaces
    <2> QED BY <2>3, <2>4, <2>5, <2>6 DEF IInv, Kept
<1>2. CASE /\ crashes < MaxCrashes /\ crashes' = crashes + 1
           /\ Hold(w, e, "erred")
           /\ UNCHANGED delivery
    <2> HIDE DEF e
    <2>1. /\ sweep' \in [Mailers -> Sweeps]
          /\ \A v \in Mailers : sweep'[v].pc \in HandPcs <=> sweep'[v].event # NoEvent
          /\ \A v \in Mailers \ {w} : sweep'[v] = sweep[v]
          /\ sweep'[w].pc = "erred"
        BY <1>0, <1>2, HoldTyped DEF IInv, HandPcs
    <2>2. crashes' \in 0 .. MaxCrashes /\ crashes' # 0
        BY <1>2, DeliveryBoundAssumption DEF IInv, DeliveryTypeOK
    <2>3. DeliveryTypeOK'
        BY <1>0, <1>2, <2>1, <2>2 DEF IInv, DeliveryTypeOK, HandPcs
    <2>4. MailInv' /\ Settles /\ FailureSurfaces'
        BY <1>0, <1>2, <2>1, <2>2 DEF IInv, DeliveryTypeOK, MailInv, SentMeansMailed, Settles,
                                      FailureSurfaces
    <2> QED BY <2>3, <2>4 DEF IInv, Kept
<1> QED BY <1>1, <1>2 DEF SettleSent

LEMMA SettleErrorKeeps ==
    ASSUME IInv, NEW w \in Mailers, SettleError(w)
    PROVE  Kept
<1> DEFINE e == sweep[w].event
           attempts == sweep[w].snapshot[e] + 1
<1>0. /\ sweep[w].pc = "erred" /\ e \in Confirmations /\ delivery[e] \in Rows
      /\ delivery \in [Confirmations -> Rows]
      /\ attempts \in Nat
      /\ UNCHANGED <<confirmed, escalated, mails, crashes, lostReplies>>
    BY DEF IInv, DeliveryTypeOK, Sweeps, SettleError
<1>1. CASE /\ delivery' = [delivery EXCEPT ![e] = Failed(@, attempts)]
           /\ Hold(w, e, "escalating")
    <2> HIDE DEF e, attempts
    <2>1. /\ sweep' \in [Mailers -> Sweeps]
          /\ \A v \in Mailers : sweep'[v].pc \in HandPcs <=> sweep'[v].event # NoEvent
          /\ \A v \in Mailers \ {w} : sweep'[v] = sweep[v]
          /\ sweep'[w].pc = "escalating" /\ sweep'[w].event = e
        BY <1>0, <1>1, HoldTyped DEF IInv, HandPcs
    <2>2. /\ delivery' \in [Confirmations -> Rows]
          /\ \A d \in Confirmations \ {e} : delivery'[d] = delivery[d]
          /\ delivery[e].state # "pending" => delivery'[e] = delivery[e]
          /\ delivery'[e].state = "sent" => delivery[e].state = "sent"
        BY <1>0, <1>1, RowsTyped
    <2>3. DeliveryTypeOK'
        BY <1>0, <2>1, <2>2 DEF IInv, DeliveryTypeOK, HandPcs
    <2>4. MailInv' /\ Settles
        BY <1>0, <2>1, <2>2 DEF IInv, DeliveryTypeOK, MailInv, SentMeansMailed, Settles
    <2>5. FailureSurfaces'
        BY <1>0, <2>1, <2>2 DEF IInv, DeliveryTypeOK, FailureSurfaces
    <2> QED BY <2>3, <2>4, <2>5 DEF IInv, Kept
<1>2. CASE /\ delivery' = [delivery EXCEPT ![e] = Retried(@, attempts)]
           /\ Drop(w, e, "delivering")
    <2> HIDE DEF e, attempts
    <2>1. /\ sweep' \in [Mailers -> Sweeps]
          /\ \A v \in Mailers : sweep'[v].pc \in HandPcs <=> sweep'[v].event # NoEvent
          /\ \A v \in Mailers \ {w} : sweep'[v] = sweep[v]
          /\ sweep'[w].pc = "delivering"
        BY <1>2, DropTyped DEF IInv, Pcs, HandPcs
    <2>2. /\ delivery' \in [Confirmations -> Rows]
          /\ \A d \in Confirmations \ {e} : delivery'[d] = delivery[d]
          /\ delivery[e].state # "pending" => delivery'[e] = delivery[e]
          /\ delivery[e].state = "pending" => delivery'[e].state = "pending"
        BY <1>0, <1>2, RowsTyped
    <2>3. DeliveryTypeOK'
        BY <1>0, <2>1, <2>2 DEF IInv, DeliveryTypeOK, HandPcs
    <2>4. MailInv' /\ Settles
        BY <1>0, <2>1, <2>2 DEF IInv, DeliveryTypeOK, MailInv, SentMeansMailed, Settles
    <2>5. FailureSurfaces'
        BY <1>0, <2>1, <2>2 DEF IInv, DeliveryTypeOK, FailureSurfaces
    <2> QED BY <2>3, <2>4, <2>5 DEF IInv, Kept
<1> QED BY <1>1, <1>2 DEF SettleError

LEMMA TickKeeps ==
    ASSUME IInv, WaitTick
    PROVE  Kept
<1> DEFINE aged(e) == [delivery[e] EXCEPT !.wait = IF @ > 0 THEN @ - 1 ELSE 0]
<1>1. delivery' = [e \in Confirmations |-> aged(e)]
    BY DEF WaitTick
<1>2. \A e \in Confirmations : /\ aged(e) \in Rows
                        /\ aged(e).state = delivery[e].state
                        /\ aged(e).attempts = delivery[e].attempts
    BY DEF IInv, DeliveryTypeOK, Rows
<1> HIDE DEF aged
<1>3. DeliveryTypeOK'
    BY <1>1, <1>2 DEF IInv, DeliveryTypeOK, WaitTick
<1>4. MailInv' /\ FailureSurfaces' /\ Settles
    BY <1>1, <1>2, SMTT(30)
    DEF IInv, DeliveryTypeOK, MailInv, SentMeansMailed, FailureSurfaces, Settles, WaitTick
<1> QED BY <1>3, <1>4 DEF IInv, Kept
-----------------------------------------------------------------------------
LEMMA StepKeeps == IInv /\ DeliveryNext => Kept
<1> SUFFICES ASSUME IInv, DeliveryNext PROVE Kept
    OBVIOUS
<1>1. ASSUME NEW e \in Confirmations, Confirm(e) PROVE Kept
    BY <1>1, ConfirmKeeps
<1>2. ASSUME NEW w \in Mailers, PassStep(w) PROVE Kept
    BY <1>2, ClaimLoadKeeps, ClaimInsertKeeps, SurfaceKeeps, ClaimEndKeeps, DueLoadKeeps,
       DeliverKeeps, SettleSentKeeps, SettleErrorKeeps, SweepEndKeeps DEF PassStep
<1>3. ASSUME NEW w \in Mailers, Crash(w) PROVE Kept
    BY <1>3, CrashKeeps
<1>4. CASE WaitTick
    BY <1>4, TickKeeps
<1> QED BY <1>1, <1>2, <1>3, <1>4 DEF DeliveryNext

LEMMA BoxKeeps == IInv /\ [DeliveryNext]_deliveryVars => IInv'
<1>1. IInv /\ UNCHANGED deliveryVars => IInv'
    BY DEF deliveryVars, IInv, DeliveryTypeOK, MailInv, SentMeansMailed, FailureSurfaces
<1> QED BY <1>1, StepKeeps DEF Kept

LEMMA Invariance == DeliverySpec => []IInv
BY InitInv, BoxKeeps, PTL DEF DeliverySpec

(* Rows, passes and counters keep their types, and a pass holds a row      *)
(* exactly where its next statement is about one.                          *)
THEOREM DeliveryTyped == DeliverySpec => []DeliveryTypeOK
BY Invariance, PTL DEF IInv

(* Only a mailed voucher is recorded as sent.                              *)
THEOREM SentWasMailed == DeliverySpec => []SentMeansMailed
BY Invariance, PTL DEF IInv, MailInv

(* While no process dies, every failed delivery is or is about to be in    *)
(* the manual-intervention queue.                                          *)
THEOREM NoSilentFailure == DeliverySpec => []FailureSurfaces
BY Invariance, PTL DEF IInv

(* No pass reopens, recounts or turns around a settled delivery.           *)
THEOREM SettledRowsStay == DeliverySpec => SettledForGood
<1>1. IInv /\ [DeliveryNext]_deliveryVars => [Settles]_deliveryVars
    BY StepKeeps DEF Kept
<1> QED BY <1>1, Invariance, PTL DEF DeliverySpec, SettledForGood, Settles
=============================================================================
