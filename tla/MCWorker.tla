------------------------------- MODULE MCWorker -------------------------------
(***************************************************************************)
(* What the worker repeats of the events of the booking engine: the        *)
(* redelivery of the outbox (Outbox) and the delivery of vouchers          *)
(* (VoucherDelivery).  The two read rows of one table and write none of    *)
(* each other's, so that each behaviour moves one of them.                 *)
(***************************************************************************)
EXTENDS Outbox, VoucherDelivery

VARIABLE moves

workerVars == <<vars, deliveryVars, moves>>

WorkerInit == Init /\ DeliveryInit /\ moves \in {"outbox", "delivery"}

WorkerNext ==
    /\ UNCHANGED moves
    /\ \/ moves = "outbox" /\ Next /\ UNCHANGED deliveryVars
       \/ moves = "delivery" /\ DeliveryNext /\ UNCHANGED vars

\* BullMQ repeats both sweeps in every worker, the awaits of a pass end, and
\* the clocks run.
WorkerFairness ==
    /\ WF_vars(moves = "outbox" /\ Tick)
    /\ \A w \in Workers : WF_vars(moves = "outbox" /\ SweepStep(w))
    /\ WF_deliveryVars(moves = "delivery" /\ WaitTick)
    /\ \A w \in Mailers : WF_deliveryVars(moves = "delivery" /\ PassStep(w))

WorkerSpec == WorkerInit /\ [][WorkerNext]_workerVars /\ WorkerFairness
=============================================================================
