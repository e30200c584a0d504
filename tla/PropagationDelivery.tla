------------------------ MODULE PropagationDelivery ------------------------
(***************************************************************************)
(* Outbound delivery of the publications of one object to one channel      *)
(* (src/cygnus/publish/delivery.py), with the publish command that stages  *)
(* them, the operators' update (src/cygnus/publish/durable.py), the ledger *)
(* keys they share, and the receipts of the consumer                       *)
(* (src/cygnus/integrations/delivery_consumer.py).                         *)
(*                                                                         *)
(* Publications are numbered in the order they were published; each has    *)
(* one delivery and one propagation, named by its number.  A sweep is a    *)
(* worker process: it claims a batch, then sends and records one delivery  *)
(* after the other.  A step is a database transaction or one end of the    *)
(* HTTP request.  The acknowledgment is split at its check for a newer     *)
(* publication, which is made before the aggregate is locked; the delivery *)
(* row is locked from then on.  Where two transactions would lock rows in  *)
(* opposite orders the database aborts one: the aborted operator's update  *)
(* is no step, the aborted acknowledgment is the fault "db_error".         *)
(***************************************************************************)
EXTENDS Naturals

CONSTANTS
    Sweep,            \* worker processes that drain deliveries
    MaxPublications,  \* bound: publications of the object
    MaxAttempts,      \* delivery_max_attempts
    Threshold,        \* failures that open the circuit
    Routes,           \* what the configuration says of the channel
    MaxOps,           \* bound: operators' updates
    Faults, MaxFaults,
    None

ASSUME DeliveryConstants ==
    /\ MaxPublications \in Nat \ {0}
    /\ MaxAttempts \in Nat \ {0}
    /\ Threshold \in Nat \ {0}
    /\ MaxOps \in Nat
    /\ MaxFaults \in Nat
    /\ Routes \subseteq {"ok", "none", "rejected"}
    /\ Faults \subseteq {"crash",     \* a sweeping process dies
                         "slow",      \* a batch outlives its leases
                         "db_error"}  \* a recording transaction is aborted
    /\ None \notin 1..MaxPublications

VARIABLES
    published,    \* how many publications there are; the last is the latest
    delivery,     \* GovernancePropagationDelivery, by publication
    propagation,  \* GovernancePropagation, by publication
    ledger,       \* idempotency keys of the events appended
    receipt,      \* DeliveryConsumerReceipt: what the consumer has stored
    sweep,        \* progress of each sweep
    callback,     \* delivery an ack request has locked
    circuit,      \* the in-memory breaker of each process
    ops,          \* operators' updates so far
    faults        \* faults so far

vars == <<published, delivery, propagation, ledger, receipt, sweep, callback,
          circuit, ops, faults>>

-----------------------------------------------------------------------------
(* Vocabulary *)

Publication == 1..MaxPublications
DeliveryStatus == {"pending", "in_flight", "synced", "failed", "dead_letter"}
OpsStatus == {"pending", "failed", "manual_action_required"}
Reasons == {"awaiting_downstream_confirmation", "downstream_acknowledged",
            "delivery_attempts_exhausted", "delivery_rejected",
            "delivery_destination_rejected", "ops"}

DeliveryRow == [status: DeliveryStatus,
                attempts: 0..(MaxAttempts + 1),  \* "more" counts as one more
                leased: BOOLEAN]                 \* updated_at within the TTL

PropagationRow == [status: OpsStatus \cup {"synced"}, reason: Reasons]

Ack(d) == <<"propagation-ack", d>>
Terminal(d) == <<"propagation-delivery", d>>
Keys == {"propagation-ack", "propagation-delivery"} \X Publication

\* What became of the claim a sweep is executing.
Outcomes == {"none", "synced", "retryable", "rejected", "destination"}

SweepState == [pc: {"idle", "execute", "sending", "record", "acking", "revert"},
               route: {"ok", "none", "rejected"},
               todo: SUBSET Publication,              \* claimed, not yet done
               snap: [Publication -> 0..(MaxAttempts + 1)],
               out: Outcomes]

IdleSweep == [pc |-> "idle", route |-> "none", todo |-> {}, out |-> "none",
              snap |-> [d \in Publication |-> 0]]

CircuitState == [fails: 0..Threshold, open: BOOLEAN, cooled: BOOLEAN,
                 half: BOOLEAN]
ClosedCircuit == [fails |-> 0, open |-> FALSE, cooled |-> FALSE, half |-> FALSE]

TypeOK ==
    /\ published \in 0..MaxPublications
    /\ delivery \in [Publication -> DeliveryRow]
    /\ propagation \in [Publication -> PropagationRow]
    /\ ledger \subseteq Keys
    /\ receipt \in [Publication -> BOOLEAN]
    /\ sweep \in [Sweep -> SweepState]
    /\ callback \in Publication \cup {None}
    /\ circuit \in [Sweep -> CircuitState]
    /\ ops \in 0..MaxOps
    /\ faults \in 0..MaxFaults

Init ==
    /\ published = 0
    /\ delivery = [d \in Publication |->
                     [status |-> "pending", attempts |-> 0, leased |-> FALSE]]
    /\ propagation = [d \in Publication |->
                        [status |-> "pending",
                         reason |-> "awaiting_downstream_confirmation"]]
    /\ ledger = {}
    /\ receipt = [d \in Publication |-> FALSE]
    /\ sweep = [s \in Sweep |-> IdleSweep]
    /\ callback = None
    /\ circuit = [s \in Sweep |-> ClosedCircuit]
    /\ ops = 0
    /\ faults = 0

-----------------------------------------------------------------------------
(* Publishing and operating *)

\* apply_durable_publish stages a publication with a pending propagation and
\* a pending delivery.
Publish ==
    /\ published < MaxPublications
    /\ published' = published + 1
    /\ UNCHANGED <<delivery, propagation, ledger, receipt, sweep, callback,
                   circuit, ops, faults>>

\* A sweep executes its claims in the order they were created.
Executing(s, d) ==
    /\ d \in sweep[s].todo
    /\ \A e \in sweep[s].todo : d <= e

\* Mutant: the sweep acknowledges without locking the row
LockedByCallback(d) == callback = d

\* An acknowledgment holds the delivery's row lock.
Locked(d) ==
    \/ callback = d
    \/ \E s \in Sweep : sweep[s].pc = "acking" /\ Executing(s, d)

\* Mutant: the operator may set synced by hand
OpsUpdateAnyStatus(d) ==
    /\ d <= published /\ ops < MaxOps /\ ~Locked(d)
    /\ ops' = ops + 1
    /\ \E st \in OpsStatus \cup {"synced"} :
          /\ propagation' = [propagation EXCEPT ![d] =
                               [status |-> st, reason |-> "ops"]]
          /\ delivery' = IF delivery[d].status = "synced" THEN delivery
                         ELSE [delivery EXCEPT ![d].status =
                                 IF st = "pending" THEN "pending" ELSE "failed"]
    /\ UNCHANGED <<published, ledger, receipt, sweep, callback, circuit, faults>>

\* update_propagation: an operator's status, mirrored to a delivery that is
\* not synced.  synced is denied.
OpsUpdate(d) ==
    /\ d <= published /\ ops < MaxOps /\ ~Locked(d)
    /\ ops' = ops + 1
    /\ \E st \in OpsStatus :
          /\ propagation' = [propagation EXCEPT ![d] =
                               [status |-> st, reason |-> "ops"]]
          /\ delivery' = IF delivery[d].status = "synced" THEN delivery
                         ELSE [delivery EXCEPT ![d].status =
                                 IF st = "pending" THEN "pending" ELSE "failed"]
    /\ UNCHANGED <<published, ledger, receipt, sweep, callback, circuit, faults>>

-----------------------------------------------------------------------------
(* The circuit breaker of a process *)

Allows(c) == ~c.open \/ c.half \/ c.cooled

\* allow: the first request after the cooldown is the half-open probe
Probed(c) == IF c.open /\ c.cooled THEN [c EXCEPT !.half = TRUE] ELSE c

\* record_failure
Failed(c) ==
    LET n == IF c.fails < Threshold THEN c.fails + 1 ELSE c.fails
        h == [c EXCEPT !.fails = n, !.half = FALSE]
    IN  IF n >= Threshold THEN [h EXCEPT !.open = TRUE, !.cooled = FALSE] ELSE h

CircuitCools(s) ==
    /\ circuit[s].open /\ ~circuit[s].cooled
    /\ circuit' = [circuit EXCEPT ![s].cooled = TRUE]
    /\ UNCHANGED <<published, delivery, propagation, ledger, receipt, sweep,
                   callback, ops, faults>>
-----------------------------------------------------------------------------
(* Claiming *)

\* Mutant: claims abandoned in flight are never taken over
DueOnlyPending(d) == d <= published /\ ~Locked(d) /\ delivery[d].status = "pending"

\* _claim_pending_deliveries: pending, or in flight with an expired lease
Due(d) ==
    /\ d <= published /\ ~Locked(d)
    /\ \/ delivery[d].status = "pending"
       \/ delivery[d].status = "in_flight" /\ ~delivery[d].leased

\* The lease is updated_at, which only a changed row refreshes: a claim taken
\* over in flight stays claimable.  The batch keeps the attempts it read.
SweepClaim(s) ==
    LET due == {d \in Publication : Due(d)}
    IN  /\ sweep[s].pc = "idle" /\ due # {}
        /\ delivery' = [d \in Publication |->
             IF d \in due /\ delivery[d].status = "pending"
             THEN [delivery[d] EXCEPT !.status = "in_flight", !.leased = TRUE]
             ELSE delivery[d]]
        /\ \E r \in Routes :
             sweep' = [sweep EXCEPT ![s] =
               [pc |-> "execute", route |-> r, todo |-> due, out |-> "none",
                snap |-> [d \in Publication |->
                            IF d \in due THEN delivery[d].attempts ELSE 0]]]
        /\ UNCHANGED <<published, propagation, ledger, receipt, callback, circuit,
                       ops, faults>>

\* updated_at grows old once nobody works on the claim
LeaseRunsOut(d) ==
    /\ delivery[d].status = "in_flight" /\ delivery[d].leased
    /\ \A s \in Sweep : d \notin sweep[s].todo
    /\ delivery' = [delivery EXCEPT ![d].leased = FALSE]
    /\ UNCHANGED <<published, propagation, ledger, receipt, sweep, callback,
                   circuit, ops, faults>>

\* Spending one of the faults allowed
Fault(f) == f \in Faults /\ faults < MaxFaults /\ faults' = faults + 1

\* A batch of requests outlives the lease of one of its claims.
LeaseOutrun(d) ==
    /\ Fault("slow")
    /\ delivery[d].status = "in_flight" /\ delivery[d].leased
    /\ \E s \in Sweep : d \in sweep[s].todo
    /\ delivery' = [delivery EXCEPT ![d].leased = FALSE]
    /\ UNCHANGED <<published, propagation, ledger, receipt, sweep, callback,
                   circuit, ops>>

-----------------------------------------------------------------------------
(* Executing a claim *)

\* The sweep's next step is at pc, with outcome o; or it is done with d.
To(s, pc, o) == sweep' = [sweep EXCEPT ![s].pc = pc, ![s].out = o]

Without(w, d) ==
    IF w.todo = {d} THEN IdleSweep
    ELSE [w EXCEPT !.pc = "execute", !.out = "none", !.todo = w.todo \ {d},
                   !.snap = [w.snap EXCEPT ![d] = 0]]

Done(s, d) == sweep' = [sweep EXCEPT ![s] = Without(sweep[s], d)]

Row(st, n) == [status |-> st, attempts |-> n, leased |-> FALSE]

\* Mutant: the revert forgets to look at the row again
RevertedAlways(d) ==
    [delivery EXCEPT ![d] = Row("pending", delivery[d].attempts)]

\* _revert_to_pending: unless the delivery has been acknowledged meanwhile
Reverted(d) ==
    IF delivery[d].status = "synced" THEN delivery
    ELSE [delivery EXCEPT ![d] = Row("pending", delivery[d].attempts)]

\* No target for the surface, or its circuit is open: no attempt is counted.
Skips(s) ==
    \/ sweep[s].route = "none"
    \/ sweep[s].route = "ok" /\ ~Allows(circuit[s])

SweepSkip(s, d) ==
    /\ sweep[s].pc = "execute" /\ Executing(s, d) /\ ~Locked(d)
    /\ Skips(s)
    /\ delivery' = Reverted(d)
    /\ Done(s, d)
    /\ UNCHANGED <<published, propagation, ledger, receipt, callback, circuit,
                   ops, faults>>

\* validate_delivery_destination refuses the target.
SweepReject(s) ==
    /\ sweep[s].pc = "execute" /\ sweep[s].route = "rejected"
    /\ To(s, "record", "destination")
    /\ UNCHANGED <<published, delivery, propagation, ledger, receipt, callback,
                   circuit, ops, faults>>

SweepSend(s) ==
    /\ sweep[s].pc = "execute" /\ sweep[s].route = "ok" /\ Allows(circuit[s])
    /\ To(s, "sending", "none")
    /\ circuit' = [circuit EXCEPT ![s] = Probed(@)]
    /\ UNCHANGED <<published, delivery, propagation, ledger, receipt, callback,
                   ops, faults>>

\* _send_delivery_request_impl returns.  A verified answer means that the
\* consumer holds the receipt; after any other outcome it may hold it too
\* (_persist_receipt commits before the answer travels back).
SendEnds(s, d) ==
    /\ sweep[s].pc = "sending" /\ Executing(s, d)
    /\ \E o \in {"synced", "retryable", "rejected"} :
          /\ To(s, "record", o)
          /\ circuit' = [circuit EXCEPT ![s] =
                           IF o = "synced" THEN ClosedCircuit ELSE Failed(@)]
          /\ \E got \in BOOLEAN :
                /\ o = "synced" => got
                /\ receipt' = [receipt EXCEPT ![d] = @ \/ got]
    /\ UNCHANGED <<published, delivery, propagation, ledger, callback, ops, faults>>

\* The send raises what _send_delivery_request_impl does not catch, such as the
\* ValueError of a malformed redirect or httpx.DecodingError: the breaker hears
\* nothing of it and the drain reverts the claim, with no attempt counted.
SendRaises(s, d) ==
    /\ sweep[s].pc = "sending" /\ Executing(s, d)
    /\ To(s, "revert", "none")
    /\ \E got \in BOOLEAN : receipt' = [receipt EXCEPT ![d] = @ \/ got]
    /\ UNCHANGED <<published, delivery, propagation, ledger, callback, circuit,
                   ops, faults>>

-----------------------------------------------------------------------------
(* Recording the outcome *)

\* claimed.attempts + 1, where the claim is as old as the batch
Attempt(s, d) ==
    IF sweep[s].snap[d] <= MaxAttempts THEN sweep[s].snap[d] + 1
    ELSE MaxAttempts + 1

\* Mutant: gives up one attempt early
ExhaustedEarly(n) == n + 1 >= MaxAttempts

Exhausted(n) == n >= MaxAttempts

\* acknowledge_propagation_delivery, until it has locked the aggregate.  An
\* ack of a synced delivery is a replay; one of a publication that is not
\* the latest is refused, which the sweep handles like a crash of the claim.
SweepAckVerify(s, d) ==
    /\ sweep[s].pc = "record" /\ sweep[s].out = "synced"
    /\ Executing(s, d) /\ ~Locked(d)
    /\ \/ /\ delivery[d].status = "synced"
          /\ delivery' = [delivery EXCEPT ![d].attempts = Attempt(s, d)]
          /\ Done(s, d)
       \/ /\ delivery[d].status # "synced" /\ d # published
          /\ To(s, "revert", "none")
          /\ UNCHANGED delivery
       \/ /\ delivery[d].status # "synced" /\ d = published
          /\ To(s, "acking", "synced")
          /\ UNCHANGED delivery
    /\ UNCHANGED <<published, propagation, ledger, receipt, callback, circuit,
                   ops, faults>>

\* The rest of it: the event, then both rows, unless the event is there.
Acknowledge(d, n) ==
    IF Ack(d) \in ledger
    THEN /\ delivery' = [delivery EXCEPT ![d].attempts = n]
         /\ UNCHANGED <<propagation, ledger>>
    ELSE /\ delivery' = [delivery EXCEPT ![d] = Row("synced", n)]
         /\ propagation' = [propagation EXCEPT ![d] =
              [status |-> "synced", reason |-> "downstream_acknowledged"]]
         /\ ledger' = ledger \cup {Ack(d)}

SweepAckCommit(s, d) ==
    /\ sweep[s].pc = "acking" /\ Executing(s, d)
    /\ Acknowledge(d, Attempt(s, d))
    /\ Done(s, d)
    /\ UNCHANGED <<published, receipt, callback, circuit, ops, faults>>

\* _record_retry
SweepRetry(s, d) ==
    /\ sweep[s].pc = "record" /\ sweep[s].out = "retryable"
    /\ Executing(s, d) /\ ~Locked(d)
    /\ ~Exhausted(Attempt(s, d))
    /\ delivery' = IF delivery[d].status = "synced" THEN delivery
                   ELSE [delivery EXCEPT ![d] = Row("pending", Attempt(s, d))]
    /\ Done(s, d)
    /\ UNCHANGED <<published, propagation, ledger, receipt, callback, circuit,
                   ops, faults>>

\* The terminal outcomes: what the delivery and the propagation become.
TerminalStatus(o) == IF o = "retryable" THEN "dead_letter" ELSE "failed"
TerminalReason(o) ==
    CASE o = "retryable"   -> "delivery_attempts_exhausted"
      [] o = "rejected"    -> "delivery_rejected"
      [] o = "destination" -> "delivery_destination_rejected"

\* _record_terminal with _transition_propagation.  The event's key names the
\* delivery only, so a second terminal event with other contents is a ledger
\* conflict: the transaction is rolled back and the claim reverted.
SweepTerminal(s, d) ==
    LET o == sweep[s].out
        failed == [status |-> "failed", reason |-> TerminalReason(o)]
        recorded == [delivery EXCEPT ![d] = Row(TerminalStatus(o), Attempt(s, d))]
    IN
    /\ sweep[s].pc = "record" /\ o \in {"retryable", "rejected", "destination"}
    /\ o = "retryable" => Exhausted(Attempt(s, d))
    /\ Executing(s, d) /\ ~Locked(d)
    /\ \/ /\ delivery[d].status = "synced"
          /\ Done(s, d)
          /\ UNCHANGED <<delivery, propagation, ledger>>
       \/ /\ delivery[d].status # "synced" /\ propagation[d] = failed
          /\ delivery' = recorded
          /\ Done(s, d)
          /\ UNCHANGED <<propagation, ledger>>
       \/ /\ delivery[d].status # "synced" /\ propagation[d] # failed
          /\ Terminal(d) \notin ledger
          /\ delivery' = recorded
          /\ propagation' = [propagation EXCEPT ![d] = failed]
          /\ ledger' = ledger \cup {Terminal(d)}
          /\ Done(s, d)
       \/ /\ delivery[d].status # "synced" /\ propagation[d] # failed
          /\ Terminal(d) \in ledger
          /\ To(s, "revert", "none")
          /\ UNCHANGED <<delivery, propagation, ledger>>
    /\ UNCHANGED <<published, receipt, callback, circuit, ops, faults>>

\* drain_propagation_deliveries: the claim raised, revert it
SweepRevert(s, d) ==
    /\ sweep[s].pc = "revert" /\ Executing(s, d) /\ ~Locked(d)
    /\ delivery' = Reverted(d)
    /\ Done(s, d)
    /\ UNCHANGED <<published, propagation, ledger, receipt, callback, circuit,
                   ops, faults>>

-----------------------------------------------------------------------------
(* The acknowledgment endpoint *)

\* propagation_ack: the consumer posts the ack of a receipt it holds.  Replays
\* and refused acks change nothing.
CallbackVerify(d) ==
    /\ receipt[d] /\ d = published /\ callback = None /\ ~Locked(d)
    /\ delivery[d].status # "synced"
    /\ callback' = d
    /\ UNCHANGED <<published, delivery, propagation, ledger, receipt, sweep,
                   circuit, ops, faults>>

CallbackCommit(d) ==
    /\ callback = d
    /\ Acknowledge(d, delivery[d].attempts)
    /\ callback' = None
    /\ UNCHANGED <<published, receipt, sweep, circuit, ops, faults>>

-----------------------------------------------------------------------------
(* Faults *)

CallbackAborts ==
    /\ Fault("db_error") /\ callback # None
    /\ callback' = None
    /\ UNCHANGED <<published, delivery, propagation, ledger, receipt, sweep,
                   circuit, ops>>

\* A transaction of the claim is aborted: the claim is reverted.
SweepAborts(s) ==
    /\ Fault("db_error")
    /\ \/ sweep[s].pc \in {"record", "acking"}
       \/ sweep[s].pc = "execute" /\ Skips(s)
    /\ To(s, "revert", "none")
    /\ UNCHANGED <<published, delivery, propagation, ledger, receipt, callback,
                   circuit, ops>>

\* The revert itself is aborted, which ends the sweep with its claims in flight.
SweepEnds(s) ==
    /\ Fault("db_error") /\ sweep[s].pc = "revert"
    /\ sweep' = [sweep EXCEPT ![s] = IdleSweep]
    /\ UNCHANGED <<published, delivery, propagation, ledger, receipt, callback,
                   circuit, ops>>

\* The process dies, and its breaker with it.  A request under way may still
\* reach the consumer.
SweepCrash(s) ==
    /\ Fault("crash") /\ sweep[s].pc # "idle"
    /\ sweep' = [sweep EXCEPT ![s] = IdleSweep]
    /\ circuit' = [circuit EXCEPT ![s] = ClosedCircuit]
    /\ \E got \in BOOLEAN :
          receipt' = [d \in Publication |->
            receipt[d] \/ (got /\ sweep[s].pc = "sending" /\ Executing(s, d))]
    /\ UNCHANGED <<published, delivery, propagation, ledger, callback, ops>>

-----------------------------------------------------------------------------
(* The specification *)

SweepStep(s) ==
    \/ SweepClaim(s) \/ SweepReject(s) \/ SweepSend(s)
    \/ \E d \in Publication :
          \/ SweepSkip(s, d) \/ SendEnds(s, d) \/ SendRaises(s, d)
          \/ SweepAckVerify(s, d) \/ SweepAckCommit(s, d)
          \/ SweepRetry(s, d) \/ SweepTerminal(s, d) \/ SweepRevert(s, d)

Next ==
    \/ Publish
    \/ \E d \in Publication :
          \/ OpsUpdate(d) \/ LeaseRunsOut(d) \/ LeaseOutrun(d)
          \/ CallbackVerify(d) \/ CallbackCommit(d)
    \/ CallbackAborts
    \/ \E s \in Sweep :
          \/ SweepStep(s) \/ CircuitCools(s)
          \/ SweepAborts(s) \/ SweepEnds(s) \/ SweepCrash(s)

Spec == Init /\ [][Next]_vars

\* The cron keeps sweeping, requests time out, transactions end, time passes.
\* Nothing is assumed of the consumer, the operators or the publishers.
Fairness ==
    /\ \A s \in Sweep : WF_vars(SweepStep(s)) /\ WF_vars(CircuitCools(s))
    /\ \A d \in Publication : WF_vars(LeaseRunsOut(d)) /\ WF_vars(CallbackCommit(d))

FairSpec == Spec /\ Fairness

-----------------------------------------------------------------------------
(* Properties *)

\* An acknowledged delivery stays acknowledged: no sweep that claimed it
\* earlier, no revert after a failed claim and no operator takes it back.
SyncedIsFinal ==
    [][\A d \in Publication :
         delivery[d].status = "synced" => delivery'[d].status = "synced"]_vars

\* A propagation is synced only while its delivery is and the consumer holds
\* the receipt, whoever applied the acknowledgment (delivery.py:7).
SyncedMeansReceived ==
    \A d \in Publication :
        propagation[d].status = "synced" =>
            delivery[d].status = "synced" /\ receipt[d]

\* A dead letter has used up its attempts and its propagation says failed,
\* however many sweeps and operators wrote the two rows.
DeadLetterMeansFailed ==
    \A d \in Publication :
        delivery[d].status = "dead_letter" =>
            /\ propagation[d].status = "failed"
            /\ delivery[d].attempts >= MaxAttempts

Settled(d) == delivery[d].status \in {"synced", "failed", "dead_letter"}

\* The delivery of the latest publication ends: acknowledged, refused or, with
\* its attempts exhausted, dead-lettered, through crashes of the sweep, open
\* circuits and aborted transactions, and whatever becomes of the deliveries
\* in its batch; unless its own sends raise for ever, which nothing bounds.
LatestSettles ==
    \A d \in Publication :
        \/ []<><<\E s \in Sweep : SendRaises(s, d)>>_vars
        \/ (d = published) ~> (Settled(d) \/ d < published)

\* Every delivery ends, as delivery.py:16 says: "retries are bounded by
\* DELIVERY_MAX_ATTEMPTS; exhausted deliveries are dead-lettered".
RetriesAreBounded ==
    \A d \in Publication : (d <= published) ~> Settled(d)

-----------------------------------------------------------------------------
(* The inductive invariant *)

\* A sweep or a request works on deliveries that were staged.
ClaimsAreStaged ==
    /\ \A s \in Sweep : \A d \in sweep[s].todo : d <= published
    /\ callback # None => callback <= published

\* Whoever applies an acknowledgment has one from the consumer.
AcksHaveReceipts ==
    /\ \A s \in Sweep, d \in Publication :
          sweep[s].out = "synced" /\ Executing(s, d) => receipt[d]
    /\ \A s \in Sweep : sweep[s].pc = "acking" => sweep[s].out = "synced"
    /\ \A d \in Publication : callback = d => receipt[d]

\* The row lock: one acknowledgment of a delivery at a time, and the delivery
\* it saw unacknowledged still is.
AcksExclude ==
    /\ \A d \in Publication : Locked(d) => delivery[d].status # "synced"
    /\ \A s \in Sweep, d \in Publication :
          sweep[s].pc = "acking" /\ Executing(s, d) =>
              /\ callback # d
              /\ \A r \in Sweep : sweep[r].pc = "acking" /\ Executing(r, d) => r = s

\* The ledger has the acknowledgment of exactly the synced deliveries.
AckEventsMatch ==
    \A d \in Publication : Ack(d) \in ledger <=> delivery[d].status = "synced"

\* The two rows of a publication, the ledger, the consumer's receipts and the
\* transactions under way agree, whatever faults interrupt them.
DeliveryInv ==
    /\ TypeOK
    /\ ClaimsAreStaged /\ AcksHaveReceipts /\ AcksExclude /\ AckEventsMatch
    /\ SyncedMeansReceived /\ DeadLetterMeansFailed
=============================================================================
