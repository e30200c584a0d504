--------------------- MODULE PropagationDeliveryProofs ---------------------
(***************************************************************************)
(* Proofs about PropagationDelivery, for every number of sweeping          *)
(* processes, publications, attempts, operators' updates and faults.       *)
(***************************************************************************)
EXTENDS PropagationDelivery, TLAPS

-----------------------------------------------------------------------------
(* Types of the values the operations build *)

LEMMA ConstantValues ==
    /\ IdleSweep \in SweepState
    /\ ClosedCircuit \in CircuitState
    /\ 0 \in 0..(MaxAttempts + 1)
    /\ MaxAttempts + 1 \in 0..(MaxAttempts + 1)
  <1>1. 0 \in 0..(MaxAttempts + 1) /\ MaxAttempts + 1 \in 0..(MaxAttempts + 1)
    BY DeliveryConstants
  <1>2. IdleSweep \in SweepState
    BY <1>1 DEF IdleSweep, SweepState, Outcomes
  <1>3. ClosedCircuit \in CircuitState
    BY DeliveryConstants DEF ClosedCircuit, CircuitState
  <1>4. QED
    BY <1>1, <1>2, <1>3

LEMMA RowType ==
    \A st \in DeliveryStatus, n \in 0..(MaxAttempts + 1) : Row(st, n) \in DeliveryRow
  BY DEF Row, DeliveryRow

LEMMA CircuitTypes ==
    ASSUME NEW c \in CircuitState
    PROVE  Probed(c) \in CircuitState /\ Failed(c) \in CircuitState
  <1>1. Probed(c) \in CircuitState
    BY DEF Probed, CircuitState
  <1>2. Failed(c) \in CircuitState
    <2> DEFINE n == IF c.fails < Threshold THEN c.fails + 1 ELSE c.fails
               h == [c EXCEPT !.fails = n, !.half = FALSE]
    <2>1. n \in 0..Threshold
      BY DeliveryConstants DEF CircuitState
    <2>2. h \in CircuitState
      BY <2>1 DEF CircuitState
    <2>3. [h EXCEPT !.open = TRUE, !.cooled = FALSE] \in CircuitState
      BY <2>2 DEF CircuitState
    <2>4. QED
      BY <2>2, <2>3 DEF Failed
  <1>3. QED
    BY <1>1, <1>2

LEMMA AttemptType ==
    ASSUME TypeOK, NEW s \in Sweep, NEW d \in Publication
    PROVE  Attempt(s, d) \in 0..(MaxAttempts + 1)
  <1>1. sweep[s].snap[d] \in 0..(MaxAttempts + 1)
    BY DEF TypeOK, SweepState
  <1>2. QED
    BY <1>1, DeliveryConstants DEF Attempt

\* The sweep goes on with the same claim.
LEMMA ToFacts ==
    ASSUME TypeOK, NEW s \in Sweep, NEW o \in Outcomes,
           NEW pc \in {"sending", "record", "acking", "revert"}, To(s, pc, o)
    PROVE  /\ sweep' \in [Sweep -> SweepState]
           /\ sweep'[s].pc = pc /\ sweep'[s].out = o
           /\ sweep'[s].todo = sweep[s].todo
           /\ \A r \in Sweep \ {s} : sweep'[r] = sweep[r]
  <1>1. sweep[s] \in SweepState /\ sweep \in [Sweep -> SweepState]
    BY DEF TypeOK
  <1>2. [sweep[s] EXCEPT !.pc = pc, !.out = o] \in SweepState
    BY <1>1 DEF SweepState
  <1>3. sweep' = [sweep EXCEPT ![s] = [sweep[s] EXCEPT !.pc = pc, !.out = o]]
    BY <1>1 DEF To
  <1>4. QED
    BY <1>1, <1>2, <1>3 DEF SweepState

\* The sweep is done with the claim.
LEMMA DoneFacts ==
    ASSUME TypeOK, NEW s \in Sweep, NEW d \in Publication, Done(s, d)
    PROVE  /\ sweep' \in [Sweep -> SweepState]
           /\ sweep'[s].pc \in {"idle", "execute"} /\ sweep'[s].out = "none"
           /\ sweep'[s].todo \subseteq sweep[s].todo
           /\ \A r \in Sweep \ {s} : sweep'[r] = sweep[r]
  <1> DEFINE more == [sweep[s] EXCEPT !.pc = "execute", !.out = "none",
                                      !.todo = sweep[s].todo \ {d},
                                      !.snap = [sweep[s].snap EXCEPT ![d] = 0]]
             now == Without(sweep[s], d)
  <1>1. sweep[s] \in SweepState /\ sweep \in [Sweep -> SweepState]
    BY DEF TypeOK
  <1>2. [sweep[s].snap EXCEPT ![d] = 0] \in [Publication -> 0..(MaxAttempts + 1)]
    BY <1>1, ConstantValues DEF SweepState
  <1>3. more \in SweepState
    BY <1>1, <1>2 DEF SweepState, Outcomes
  <1>4. now \in SweepState /\ now.pc \in {"idle", "execute"} /\ now.out = "none"
           /\ now.todo \subseteq sweep[s].todo
    <2>1. CASE sweep[s].todo = {d}
      BY <2>1, ConstantValues DEF IdleSweep, Without
    <2>2. CASE sweep[s].todo # {d}
      BY <2>2, <1>3, <1>1 DEF SweepState, Without
    <2>3. QED
      BY <2>1, <2>2
  <1>5. sweep' = [sweep EXCEPT ![s] = now]
    BY DEF Done
  <1> HIDE DEF now
  <1>6. QED
    BY <1>1, <1>4, <1>5

LEMMA RevertedType ==
    ASSUME TypeOK, NEW d \in Publication
    PROVE  Reverted(d) \in [Publication -> DeliveryRow]
  <1>1. Row("pending", delivery[d].attempts) \in DeliveryRow
    BY RowType DEF TypeOK, DeliveryRow, DeliveryStatus
  <1>2. QED
    BY <1>1 DEF Reverted, TypeOK

LEMMA PropagationValues ==
    /\ \A st \in OpsStatus : [status |-> st, reason |-> "ops"] \in PropagationRow
    /\ [status |-> "synced", reason |-> "downstream_acknowledged"] \in PropagationRow
    /\ \A o \in {"retryable", "rejected", "destination"} :
          [status |-> "failed", reason |-> TerminalReason(o)] \in PropagationRow
  BY DEF PropagationRow, OpsStatus, Reasons, TerminalReason

LEMMA KeyTypes ==
    \A d \in Publication : Ack(d) \in Keys /\ Terminal(d) \in Keys
  BY DEF Ack, Terminal, Keys

LEMMA AcknowledgeType ==
    ASSUME TypeOK, NEW d \in Publication, NEW n \in 0..(MaxAttempts + 1),
           Acknowledge(d, n)
    PROVE  /\ delivery' \in [Publication -> DeliveryRow]
           /\ propagation' \in [Publication -> PropagationRow]
           /\ ledger' \subseteq Keys
  <1>1. CASE Ack(d) \in ledger
    <2>1. [delivery[d] EXCEPT !.attempts = n] \in DeliveryRow
      BY DEF TypeOK, DeliveryRow
    <2>2. delivery' = [delivery EXCEPT ![d] = [delivery[d] EXCEPT !.attempts = n]]
      BY <1>1 DEF Acknowledge, TypeOK
    <2>3. QED
      BY <1>1, <2>1, <2>2 DEF Acknowledge, TypeOK
  <1>2. CASE Ack(d) \notin ledger
    <2>1. Row("synced", n) \in DeliveryRow
      BY RowType DEF DeliveryStatus
    <2>2. QED
      BY <1>2, <2>1, PropagationValues, KeyTypes DEF Acknowledge, TypeOK
  <1>3. QED
    BY <1>1, <1>2

\* Every step keeps the types.
LEMMA TypeStep ==
    TypeOK /\ [Next]_vars => TypeOK'
  <1> SUFFICES ASSUME TypeOK, [Next]_vars PROVE TypeOK'
    OBVIOUS
  <1> USE DeliveryConstants
  <1>1. CASE Publish
    BY <1>1 DEF Publish, TypeOK
  <1>2. ASSUME NEW d \in Publication, OpsUpdate(d) PROVE TypeOK'
    <2>1. PICK st \in OpsStatus :
             /\ propagation' = [propagation EXCEPT ![d] = [status |-> st, reason |-> "ops"]]
             /\ delivery' = IF delivery[d].status = "synced" THEN delivery
                            ELSE [delivery EXCEPT ![d].status =
                                    IF st = "pending" THEN "pending" ELSE "failed"]
      BY <1>2 DEF OpsUpdate
    <2>2. propagation' \in [Publication -> PropagationRow]
      BY <2>1, PropagationValues DEF TypeOK
    <2>3. delivery' \in [Publication -> DeliveryRow]
      <3> DEFINE m == IF st = "pending" THEN "pending" ELSE "failed"
      <3>1. [delivery[d] EXCEPT !.status = m] \in DeliveryRow
        BY DEF TypeOK, DeliveryRow, DeliveryStatus
      <3>2. delivery' = IF delivery[d].status = "synced" THEN delivery
                        ELSE [delivery EXCEPT ![d] = [delivery[d] EXCEPT !.status = m]]
        BY <2>1
      <3>3. QED
        BY <3>1, <3>2 DEF TypeOK
    <2>4. QED
      BY <1>2, <2>2, <2>3 DEF OpsUpdate, TypeOK
  <1>3. ASSUME NEW d \in Publication, LeaseRunsOut(d) \/ LeaseOutrun(d) PROVE TypeOK'
    <2>1. delivery' \in [Publication -> DeliveryRow]
      <3>1. [delivery[d] EXCEPT !.leased = FALSE] \in DeliveryRow
        BY DEF TypeOK, DeliveryRow
      <3>2. delivery' = [delivery EXCEPT ![d] = [delivery[d] EXCEPT !.leased = FALSE]]
        BY <1>3 DEF LeaseRunsOut, LeaseOutrun
      <3>3. QED
        BY <3>1, <3>2 DEF TypeOK
    <2>2. QED
      BY <1>3, <2>1 DEF LeaseRunsOut, LeaseOutrun, Fault, TypeOK
  <1>4. ASSUME NEW d \in Publication, CallbackVerify(d) PROVE TypeOK'
    BY <1>4 DEF CallbackVerify, TypeOK
  <1>5. ASSUME NEW d \in Publication, CallbackCommit(d) PROVE TypeOK'
    <2>1. delivery[d].attempts \in 0..(MaxAttempts + 1)
      BY DEF TypeOK, DeliveryRow
    <2>2. QED
      BY <1>5, <2>1, AcknowledgeType DEF CallbackCommit, TypeOK
  <1>6. CASE CallbackAborts
    BY <1>6 DEF CallbackAborts, Fault, TypeOK
  <1>7. ASSUME NEW s \in Sweep, SweepClaim(s) PROVE TypeOK'
    <2> DEFINE due == {d \in Publication : Due(d)}
    <2>1. delivery' \in [Publication -> DeliveryRow]
      <3>1. \A d \in Publication :
               [delivery[d] EXCEPT !.status = "in_flight", !.leased = TRUE] \in DeliveryRow
        BY DEF TypeOK, DeliveryRow, DeliveryStatus
      <3>2. QED
        BY <1>7, <3>1 DEF SweepClaim, TypeOK
    <2>2. [d \in Publication |-> IF d \in due THEN delivery[d].attempts ELSE 0]
             \in [Publication -> 0..(MaxAttempts + 1)]
      BY DEF TypeOK, DeliveryRow
    <2>3. \A r \in Routes :
             [pc |-> "execute", route |-> r, todo |-> due, out |-> "none",
              snap |-> [d \in Publication |->
                          IF d \in due THEN delivery[d].attempts ELSE 0]] \in SweepState
      BY <2>2 DEF SweepState, Outcomes
    <2>4. sweep' \in [Sweep -> SweepState]
      BY <1>7, <2>3 DEF SweepClaim, TypeOK
    <2>5. QED
      BY <1>7, <2>1, <2>4 DEF SweepClaim, TypeOK
  <1>8. ASSUME NEW s \in Sweep, SweepReject(s) PROVE TypeOK'
    BY <1>8, ToFacts DEF SweepReject, TypeOK, Outcomes
  <1>9. ASSUME NEW s \in Sweep, SweepSend(s) PROVE TypeOK'
    <2>1. circuit' \in [Sweep -> CircuitState]
      BY <1>9, CircuitTypes DEF SweepSend, TypeOK
    <2>2. sweep' \in [Sweep -> SweepState]
      BY <1>9, ToFacts DEF SweepSend, Outcomes
    <2>3. QED
      BY <1>9, <2>1, <2>2 DEF SweepSend, TypeOK
  <1>10. ASSUME NEW s \in Sweep, NEW d \in Publication,
                SweepSkip(s, d) \/ SweepRevert(s, d) PROVE TypeOK'
    BY <1>10, RevertedType, DoneFacts DEF SweepSkip, SweepRevert, TypeOK
  <1>11. ASSUME NEW s \in Sweep, NEW d \in Publication, SendEnds(s, d) PROVE TypeOK'
    <2>1. PICK o \in {"synced", "retryable", "rejected"} :
             /\ To(s, "record", o)
             /\ circuit' = [circuit EXCEPT ![s] =
                              IF o = "synced" THEN ClosedCircuit ELSE Failed(circuit[s])]
             /\ \E got \in BOOLEAN : receipt' = [receipt EXCEPT ![d] = receipt[d] \/ got]
      BY <1>11 DEF SendEnds
    <2>2. sweep' \in [Sweep -> SweepState]
      BY <2>1, ToFacts DEF Outcomes
    <2>3. circuit' \in [Sweep -> CircuitState]
      BY <2>1, CircuitTypes, ConstantValues DEF TypeOK
    <2>4. receipt' \in [Publication -> BOOLEAN]
      BY <2>1 DEF TypeOK
    <2>5. QED
      BY <1>11, <2>2, <2>3, <2>4 DEF SendEnds, TypeOK
  <1>11a. ASSUME NEW s \in Sweep, NEW d \in Publication, SendRaises(s, d) PROVE TypeOK'
    <2>1. sweep' \in [Sweep -> SweepState]
      BY <1>11a, ToFacts DEF SendRaises, Outcomes
    <2>2. receipt' \in [Publication -> BOOLEAN]
      BY <1>11a DEF SendRaises, TypeOK
    <2>3. QED
      BY <1>11a, <2>1, <2>2 DEF SendRaises, TypeOK
  <1>12. ASSUME NEW s \in Sweep, NEW d \in Publication, SweepAckVerify(s, d) PROVE TypeOK'
    <2>1. delivery' \in [Publication -> DeliveryRow]
      BY <1>12, AttemptType DEF SweepAckVerify, TypeOK, DeliveryRow
    <2>2. sweep' \in [Sweep -> SweepState]
      BY <1>12, ToFacts, DoneFacts DEF SweepAckVerify, Outcomes
    <2>3. QED
      BY <1>12, <2>1, <2>2 DEF SweepAckVerify, TypeOK
  <1>13. ASSUME NEW s \in Sweep, NEW d \in Publication, SweepAckCommit(s, d) PROVE TypeOK'
    BY <1>13, AttemptType, AcknowledgeType, DoneFacts DEF SweepAckCommit, TypeOK
  <1>14. ASSUME NEW s \in Sweep, NEW d \in Publication, SweepRetry(s, d) PROVE TypeOK'
    <2>1. Row("pending", Attempt(s, d)) \in DeliveryRow
      BY AttemptType, RowType DEF DeliveryStatus
    <2>2. QED
      BY <1>14, <2>1, DoneFacts DEF SweepRetry, TypeOK
  <1>15. ASSUME NEW s \in Sweep, NEW d \in Publication, SweepTerminal(s, d) PROVE TypeOK'
    <2> DEFINE o == sweep[s].out
    <2>1. o \in {"retryable", "rejected", "destination"}
      BY <1>15 DEF SweepTerminal
    <2>2. Row(TerminalStatus(o), Attempt(s, d)) \in DeliveryRow
      BY AttemptType, RowType DEF DeliveryStatus, TerminalStatus
    <2>3. delivery' \in [Publication -> DeliveryRow]
      BY <1>15, <2>2 DEF SweepTerminal, TypeOK
    <2>4. propagation' \in [Publication -> PropagationRow]
      BY <1>15, <2>1, PropagationValues DEF SweepTerminal, TypeOK
    <2>5. ledger' \subseteq Keys
      BY <1>15, KeyTypes DEF SweepTerminal, TypeOK
    <2>6. sweep' \in [Sweep -> SweepState]
      BY <1>15, ToFacts, DoneFacts DEF SweepTerminal, Outcomes
    <2>7. QED
      BY <1>15, <2>3, <2>4, <2>5, <2>6 DEF SweepTerminal, TypeOK
  <1>16. ASSUME NEW s \in Sweep, CircuitCools(s) PROVE TypeOK'
    <2>1. circuit' \in [Sweep -> CircuitState]
      BY <1>16 DEF CircuitCools, TypeOK, CircuitState
    <2>2. QED
      BY <1>16, <2>1 DEF CircuitCools, TypeOK
  <1>17. ASSUME NEW s \in Sweep, SweepAborts(s) PROVE TypeOK'
    BY <1>17, ToFacts DEF SweepAborts, Fault, TypeOK, Outcomes
  <1>18. ASSUME NEW s \in Sweep, SweepEnds(s) PROVE TypeOK'
    BY <1>18, ConstantValues DEF SweepEnds, Fault, TypeOK
  <1>19. ASSUME NEW s \in Sweep, SweepCrash(s) PROVE TypeOK'
    <2>1. receipt' \in [Publication -> BOOLEAN]
      BY <1>19 DEF SweepCrash, TypeOK
    <2>2. QED
      BY <1>19, <2>1, ConstantValues DEF SweepCrash, Fault, TypeOK
  <1>20. CASE UNCHANGED vars
    BY <1>20 DEF vars, TypeOK
  <1>21. QED
    BY <1>1, <1>2, <1>3, <1>4, <1>5, <1>6, <1>7, <1>8, <1>9, <1>10, <1>11, <1>11a, <1>12,
       <1>13, <1>14, <1>15, <1>16, <1>17, <1>18, <1>19, <1>20 DEF Next, SweepStep

LEMMA TypeInit ==
    Init => TypeOK
  <1> SUFFICES ASSUME Init PROVE TypeOK
    OBVIOUS
  <1>1. [status |-> "pending", attempts |-> 0, leased |-> FALSE] \in DeliveryRow
    BY ConstantValues DEF DeliveryRow, DeliveryStatus
  <1>2. [status |-> "pending", reason |-> "awaiting_downstream_confirmation"]
           \in PropagationRow
    BY DEF PropagationRow, OpsStatus, Reasons
  <1>3. QED
    BY <1>1, <1>2, ConstantValues, DeliveryConstants DEF Init, TypeOK

-----------------------------------------------------------------------------
(* What the steps do to the rows of one publication *)

\* Acknowledging changes one delivery, to synced or not at all.
LEMMA AcknowledgeFacts ==
    ASSUME TypeOK, NEW d \in Publication, NEW n \in 0..(MaxAttempts + 1),
           Acknowledge(d, n), Ack(d) \notin ledger
    PROVE  /\ delivery'[d] = Row("synced", n)
           /\ \A e \in Publication \ {d} : /\ delivery'[e] = delivery[e]
                                            /\ propagation'[e] = propagation[e]
           /\ propagation'[d].status = "synced"
           /\ ledger' = ledger \cup {Ack(d)}
  BY DEF Acknowledge, TypeOK

\* The rows of d under any other transaction: nothing becomes synced, nothing
\* synced changes, and a dead letter is written with its propagation.
Kept(d) ==
    /\ delivery'[d].status = "synced" <=> delivery[d].status = "synced"
    /\ Ack(d) \in ledger' <=> Ack(d) \in ledger
    /\ propagation'[d].status = "synced" => propagation[d].status = "synced"
    /\ delivery'[d].status = "dead_letter" =>
          \/ delivery'[d] = delivery[d] /\ propagation'[d] = propagation[d]
          \/ propagation'[d].status = "failed" /\ delivery'[d].attempts >= MaxAttempts

OtherStep ==
    \/ Publish \/ CallbackAborts
    \/ \E d \in Publication :
          OpsUpdate(d) \/ LeaseRunsOut(d) \/ LeaseOutrun(d) \/ CallbackVerify(d)
    \/ \E s \in Sweep :
          \/ SweepClaim(s) \/ SweepReject(s) \/ SweepSend(s) \/ CircuitCools(s)
          \/ SweepAborts(s) \/ SweepEnds(s) \/ SweepCrash(s)
          \/ \E d \in Publication :
                \/ SweepSkip(s, d) \/ SendEnds(s, d) \/ SendRaises(s, d)
                \/ SweepAckVerify(s, d) \/ SweepRetry(s, d) \/ SweepTerminal(s, d) \/ SweepRevert(s, d)
    \/ UNCHANGED vars

LEMMA NextSplits ==
    [Next]_vars => \/ OtherStep
                   \/ \E d \in Publication :
                        \/ CallbackCommit(d)
                        \/ \E s \in Sweep : SweepAckCommit(s, d)
  BY DEF Next, SweepStep, OtherStep

LEMMA KeptByOthers ==
    ASSUME TypeOK, OtherStep, NEW e \in Publication
    PROVE  Kept(e)
  <1> DEFINE Same == delivery' = delivery /\ propagation' = propagation /\ ledger' = ledger
  <1>0. Same => Kept(e)
    BY DEF Kept
  <1>1. CASE Publish \/ CallbackAborts \/ UNCHANGED vars
    BY <1>0, <1>1 DEF Publish, CallbackAborts, vars
  <1>2. ASSUME NEW d \in Publication, OpsUpdate(d) PROVE Kept(e)
    <2>1. PICK st \in OpsStatus :
             /\ propagation' = [propagation EXCEPT ![d] = [status |-> st, reason |-> "ops"]]
             /\ delivery' = IF delivery[d].status = "synced" THEN delivery
                            ELSE [delivery EXCEPT ![d] = [delivery[d] EXCEPT !.status =
                                    IF st = "pending" THEN "pending" ELSE "failed"]]
             /\ ledger' = ledger
      BY <1>2 DEF OpsUpdate
    <2>2. CASE e # d
      BY <2>1, <2>2 DEF Kept, TypeOK
    <2>3. CASE e = d
      <3>1. propagation'[d].status = st /\ st # "synced"
        BY <2>1 DEF TypeOK, OpsStatus
      <3>2. delivery[d].status # "synced" =>
               delivery'[d].status = (IF st = "pending" THEN "pending" ELSE "failed")
        BY <2>1 DEF TypeOK, DeliveryRow
      <3>3. delivery[d].status = "synced" => delivery'[d].status = "synced"
        BY <2>1
      <3>4. QED
        BY <2>1, <2>3, <3>1, <3>2, <3>3 DEF Kept
    <2>4. QED
      BY <2>2, <2>3
  <1>3. ASSUME NEW d \in Publication, LeaseRunsOut(d) \/ LeaseOutrun(d) PROVE Kept(e)
    <2>1. /\ delivery' = [delivery EXCEPT ![d] = [delivery[d] EXCEPT !.leased = FALSE]]
          /\ delivery[d].status = "in_flight"
          /\ propagation' = propagation /\ ledger' = ledger
      BY <1>3 DEF LeaseRunsOut, LeaseOutrun
    <2>2. delivery'[d].status = "in_flight" /\ (e # d => delivery'[e] = delivery[e])
      BY <2>1 DEF TypeOK, DeliveryRow
    <2>3. QED
      BY <2>1, <2>2 DEF Kept
  <1>4. ASSUME NEW d \in Publication, CallbackVerify(d) PROVE Kept(e)
    BY <1>0, <1>4 DEF CallbackVerify
  <1>5. ASSUME NEW s \in Sweep, SweepClaim(s) PROVE Kept(e)
    <2>1. /\ propagation' = propagation /\ ledger' = ledger
          /\ \/ delivery'[e] = delivery[e]
             \/ /\ delivery[e].status = "pending"
                /\ delivery'[e] = [delivery[e] EXCEPT !.status = "in_flight", !.leased = TRUE]
      BY <1>5 DEF SweepClaim
    <2>2. delivery'[e] = delivery[e] \/ (delivery[e].status = "pending"
                                         /\ delivery'[e].status = "in_flight")
      BY <2>1 DEF TypeOK, DeliveryRow
    <2>3. QED
      BY <2>1, <2>2 DEF Kept
  <1>6. ASSUME NEW s \in Sweep,
               \/ SweepReject(s) \/ SweepSend(s) \/ CircuitCools(s)
               \/ SweepAborts(s) \/ SweepEnds(s) \/ SweepCrash(s)
        PROVE  Kept(e)
    BY <1>0, <1>6 DEF SweepReject, SweepSend, CircuitCools, SweepAborts, SweepEnds, SweepCrash
  <1>7. ASSUME NEW s \in Sweep, NEW d \in Publication,
               SweepSkip(s, d) \/ SweepRevert(s, d) PROVE Kept(e)
    <2>1. delivery' = Reverted(d) /\ propagation' = propagation /\ ledger' = ledger
      BY <1>7 DEF SweepSkip, SweepRevert
    <2>2. QED
      BY <2>1 DEF Kept, Reverted, Row, TypeOK
  <1>8. ASSUME NEW s \in Sweep, NEW d \in Publication, SendEnds(s, d) \/ SendRaises(s, d)
        PROVE  Kept(e)
    BY <1>0, <1>8 DEF SendEnds, SendRaises
  <1>9. ASSUME NEW s \in Sweep, NEW d \in Publication, SweepAckVerify(s, d) PROVE Kept(e)
    <2>1. /\ propagation' = propagation /\ ledger' = ledger
          /\ \/ delivery' = delivery
             \/ /\ delivery[d].status = "synced"
                /\ delivery' = [delivery EXCEPT ![d] =
                                  [delivery[d] EXCEPT !.attempts = Attempt(s, d)]]
      BY <1>9 DEF SweepAckVerify
    <2>2. delivery' = delivery \/ /\ delivery[d].status = "synced"
                                  /\ delivery'[d].status = "synced"
                                  /\ e # d => delivery'[e] = delivery[e]
      BY <2>1 DEF TypeOK, DeliveryRow
    <2>3. QED
      BY <2>1, <2>2 DEF Kept
  <1>10. ASSUME NEW s \in Sweep, NEW d \in Publication, SweepRetry(s, d) PROVE Kept(e)
    <2>1. /\ propagation' = propagation /\ ledger' = ledger
          /\ delivery' = IF delivery[d].status = "synced" THEN delivery
                         ELSE [delivery EXCEPT ![d] = Row("pending", Attempt(s, d))]
      BY <1>10 DEF SweepRetry
    <2>2. QED
      BY <2>1 DEF Kept, Row, TypeOK
  <1>11. ASSUME NEW s \in Sweep, NEW d \in Publication, SweepTerminal(s, d) PROVE Kept(e)
    <2> DEFINE o == sweep[s].out
               failed == [status |-> "failed", reason |-> TerminalReason(o)]
               recorded == [delivery EXCEPT ![d] = Row(TerminalStatus(o), Attempt(s, d))]
    <2>1. \/ Same
          \/ /\ delivery[d].status # "synced"
             /\ delivery' = recorded
             /\ propagation'[d] = failed
             /\ e # d => propagation'[e] = propagation[e]
             /\ ledger' = ledger \/ ledger' = ledger \cup {Terminal(d)}
      BY <1>11 DEF SweepTerminal, TypeOK
    <2>2. TerminalStatus(o) \in {"dead_letter", "failed"}
             /\ (TerminalStatus(o) = "dead_letter" => Attempt(s, d) >= MaxAttempts)
      BY <1>11 DEF SweepTerminal, TerminalStatus, Exhausted
    <2>3. Ack(e) # Terminal(d)
      BY DEF Ack, Terminal
    <2>4. CASE Same
      BY <2>4, <1>0
    <2>5. CASE ~Same
      <3>1. /\ delivery'[d] = Row(TerminalStatus(o), Attempt(s, d))
            /\ e # d => delivery'[e] = delivery[e]
        BY <2>1, <2>5 DEF TypeOK
      <3>2. CASE e = d
        BY <2>1, <2>2, <2>3, <2>5, <3>1, <3>2 DEF Kept, Row
      <3>3. CASE e # d
        BY <2>1, <2>3, <2>5, <3>1, <3>3 DEF Kept
      <3>4. QED
        BY <3>2, <3>3
    <2>6. QED
      BY <2>4, <2>5
  <1>12. QED
    BY <1>1, <1>2, <1>3, <1>4, <1>5, <1>6, <1>7, <1>8, <1>9, <1>10, <1>11 DEF OtherStep

\* Receipts are never taken back.
LEMMA ReceiptsStay ==
    ASSUME TypeOK, [Next]_vars, NEW e \in Publication, receipt[e]
    PROVE  receipt'[e]
  <1>1. ASSUME NEW s \in Sweep, NEW d \in Publication, SendEnds(s, d) \/ SendRaises(s, d)
        PROVE  receipt'[e]
    BY <1>1 DEF SendEnds, SendRaises, TypeOK
  <1>2. ASSUME NEW s \in Sweep, SweepCrash(s) PROVE receipt'[e]
    BY <1>2 DEF SweepCrash
  <1>3. CASE Publish \/ CallbackAborts \/ UNCHANGED vars
    BY <1>3 DEF Publish, CallbackAborts, vars
  <1>4. ASSUME NEW d \in Publication,
               \/ OpsUpdate(d) \/ LeaseRunsOut(d) \/ LeaseOutrun(d)
               \/ CallbackVerify(d) \/ CallbackCommit(d)
        PROVE  receipt'[e]
    BY <1>4 DEF OpsUpdate, LeaseRunsOut, LeaseOutrun, CallbackVerify, CallbackCommit
  <1>5. ASSUME NEW s \in Sweep,
               \/ SweepClaim(s) \/ SweepReject(s) \/ SweepSend(s) \/ CircuitCools(s)
               \/ SweepAborts(s) \/ SweepEnds(s)
        PROVE  receipt'[e]
    BY <1>5 DEF SweepClaim, SweepReject, SweepSend, CircuitCools, SweepAborts, SweepEnds
  <1>6. ASSUME NEW s \in Sweep, NEW d \in Publication,
               \/ SweepSkip(s, d) \/ SweepAckVerify(s, d) \/ SweepAckCommit(s, d)
               \/ SweepRetry(s, d) \/ SweepTerminal(s, d) \/ SweepRevert(s, d)
        PROVE  receipt'[e]
    BY <1>6 DEF SweepSkip, SweepAckVerify, SweepAckCommit, SweepRetry, SweepTerminal,
                SweepRevert
  <1>7. QED
    BY <1>1, <1>2, <1>3, <1>4, <1>5, <1>6 DEF Next, SweepStep

-----------------------------------------------------------------------------
(* Who holds an acknowledgment *)

\* A sweep changes that is left neither acknowledging nor with an answer.
LEMMA QuietSweep ==
    ASSUME TypeOK, TypeOK', AcksHaveReceipts, AcksExclude, NEW s \in Sweep,
           \A r \in Sweep \ {s} : sweep'[r] = sweep[r],
           sweep'[s].out # "synced", sweep'[s].pc # "acking",
           callback' = callback,
           \A d \in Publication : receipt[d] => receipt'[d],
           \A d \in Publication : delivery'[d].status = "synced" =>
               delivery[d].status = "synced"
    PROVE  AcksHaveReceipts' /\ AcksExclude'
  <1>1. \A r \in Sweep \ {s}, d \in Publication : Executing(r, d)' = Executing(r, d)
    BY DEF Executing
  <1>2. AcksHaveReceipts'
    BY <1>1 DEF AcksHaveReceipts
  <1>3. \A d \in Publication : Locked(d)' => Locked(d)
    BY <1>1 DEF Locked
  <1>4. AcksExclude'
    BY <1>1, <1>3 DEF AcksExclude
  <1>5. QED
    BY <1>2, <1>4

\* A sweep that is done with a claim is quiet, and so is one that ends.
LEMMA DoneIsQuiet ==
    ASSUME TypeOK, TypeOK', AcksHaveReceipts, AcksExclude, NEW s \in Sweep,
           (\E d \in Publication : Done(s, d))
             \/ (\E pc \in {"sending", "record", "revert"},
                     o \in Outcomes \ {"synced"} : To(s, pc, o))
             \/ sweep' = [sweep EXCEPT ![s] = IdleSweep],
           callback' = callback,
           \A d \in Publication : receipt[d] => receipt'[d],
           \A d \in Publication : delivery'[d].status = "synced" =>
               delivery[d].status = "synced"
    PROVE  AcksHaveReceipts' /\ AcksExclude'
  <1>1. (\A r \in Sweep \ {s} : sweep'[r] = sweep[r])
           /\ sweep'[s].out # "synced" /\ sweep'[s].pc # "acking"
    <2>1. CASE \E d \in Publication : Done(s, d)
      BY <2>1, DoneFacts
    <2>2. CASE \E pc \in {"sending", "record", "revert"},
                  o \in Outcomes \ {"synced"} : To(s, pc, o)
      BY <2>2, ToFacts
    <2>3. CASE sweep' = [sweep EXCEPT ![s] = IdleSweep]
      BY <2>3 DEF TypeOK, IdleSweep
    <2>4. QED
      BY <2>1, <2>2, <2>3
  <1>2. QED
    BY <1>1, QuietSweep

\* Steps that leave the sweeps and the callback alone
LEMMA NobodyMoves ==
    ASSUME TypeOK, AcksHaveReceipts, AcksExclude,
           sweep' = sweep, callback' \in {callback, None},
           \A d \in Publication : receipt[d] => receipt'[d],
           \A d \in Publication : delivery'[d].status = "synced" =>
               delivery[d].status = "synced"
    PROVE  AcksHaveReceipts' /\ AcksExclude'
  <1>1. \A r \in Sweep, d \in Publication : Executing(r, d)' = Executing(r, d)
    BY DEF Executing
  <1>2. \A d \in Publication : d # None
    BY DeliveryConstants DEF Publication
  <1>3. \A d \in Publication : callback' = d => callback = d
    BY <1>2
  <1>4. AcksHaveReceipts'
    BY <1>1, <1>3 DEF AcksHaveReceipts
  <1>5. \A d \in Publication : Locked(d)' => Locked(d)
    BY <1>1, <1>3 DEF Locked
  <1>6. AcksExclude'
    BY <1>1, <1>3, <1>5 DEF AcksExclude
  <1>7. QED
    BY <1>4, <1>6

\* The sweep's acknowledgment takes the lock nobody holds.
LEMMA VerifyTakesLock ==
    ASSUME TypeOK, AcksHaveReceipts, AcksExclude,
           NEW s \in Sweep, NEW d \in Publication,
           sweep[s].out = "synced", Executing(s, d), ~Locked(d),
           delivery[d].status # "synced", delivery' = delivery,
           callback' = callback, receipt' = receipt, To(s, "acking", "synced")
    PROVE  AcksHaveReceipts' /\ AcksExclude'
  <1>1. /\ sweep'[s].pc = "acking" /\ sweep'[s].out = "synced"
        /\ sweep'[s].todo = sweep[s].todo
        /\ \A r \in Sweep \ {s} : sweep'[r] = sweep[r]
    BY ToFacts DEF Outcomes
  <1>2. \A r \in Sweep, e \in Publication : Executing(r, e)' = Executing(r, e)
    BY <1>1 DEF Executing
  <1>3. \A e \in Publication : Executing(s, e) => e = d
    BY DeliveryConstants DEF Executing, Publication
  <1>4. AcksHaveReceipts'
    BY <1>1, <1>2 DEF AcksHaveReceipts
  <1>5. \A e \in Publication : Locked(e)' => Locked(e) \/ e = d
    BY <1>1, <1>2, <1>3 DEF Locked
  <1>6. \A e \in Publication : Locked(e)' => delivery'[e].status # "synced"
    BY <1>5 DEF AcksExclude
  <1>7. ASSUME NEW r \in Sweep, NEW e \in Publication,
               sweep'[r].pc = "acking", Executing(r, e)'
        PROVE  /\ callback' # e
               /\ \A q \in Sweep : sweep'[q].pc = "acking" /\ Executing(q, e)' => q = r
    <2>1. callback # d
      BY DEF Locked
    <2>2. \A q \in Sweep : q # s /\ sweep'[q].pc = "acking" => ~Executing(q, d)
      BY <1>1 DEF Locked
    <2>3. CASE r = s
      BY <2>1, <2>2, <2>3, <1>2, <1>3, <1>7
    <2>4. CASE r # s
      <3>1. sweep[r].pc = "acking" /\ Executing(r, e) /\ e # d
        BY <2>2, <2>4, <1>1, <1>2, <1>7
      <3>2. \A q \in Sweep : sweep'[q].pc = "acking" /\ Executing(q, e)' =>
               sweep[q].pc = "acking" /\ Executing(q, e)
        BY <3>1, <1>1, <1>2, <1>3
      <3>3. QED
        BY <3>1, <3>2 DEF AcksExclude
    <2>5. QED
      BY <2>3, <2>4
  <1>8. AcksExclude'
    BY <1>6, <1>7 DEF AcksExclude
  <1>9. QED
    BY <1>4, <1>8

\* The endpoint's acknowledgment takes the lock nobody holds.
LEMMA CallbackTakesLock ==
    ASSUME TypeOK, AcksHaveReceipts, AcksExclude, NEW d \in Publication,
           CallbackVerify(d)
    PROVE  AcksHaveReceipts' /\ AcksExclude'
  <1>1. /\ callback' = d /\ receipt[d] /\ ~Locked(d) /\ delivery[d].status # "synced"
        /\ UNCHANGED <<delivery, receipt, sweep>>
    BY DEF CallbackVerify
  <1>2. \A r \in Sweep, e \in Publication : Executing(r, e)' = Executing(r, e)
    BY <1>1 DEF Executing
  <1>3. AcksHaveReceipts'
    BY <1>1, <1>2 DEF AcksHaveReceipts
  <1>4. \A e \in Publication : Locked(e)' => Locked(e) \/ e = d
    BY <1>1, <1>2 DEF Locked
  <1>5. \A r \in Sweep : ~(sweep[r].pc = "acking" /\ Executing(r, d))
    BY <1>1 DEF Locked
  <1>6. AcksExclude'
    BY <1>1, <1>2, <1>4, <1>5 DEF AcksExclude
  <1>7. QED
    BY <1>3, <1>6

\* An answer the sweep has verified comes with a receipt.
LEMMA AnswersHaveReceipts ==
    ASSUME TypeOK, TypeOK', AcksHaveReceipts, AcksExclude,
           NEW s \in Sweep, NEW d \in Publication, SendEnds(s, d)
    PROVE  AcksHaveReceipts' /\ AcksExclude'
  <1>1. PICK o \in {"synced", "retryable", "rejected"}, got \in BOOLEAN :
           /\ To(s, "record", o)
           /\ o = "synced" => got
           /\ receipt' = [receipt EXCEPT ![d] = receipt[d] \/ got]
    BY DEF SendEnds
  <1>2. Executing(s, d) /\ UNCHANGED <<delivery, callback>>
    BY DEF SendEnds
  <1>3. /\ sweep'[s].pc = "record" /\ sweep'[s].out = o
        /\ sweep'[s].todo = sweep[s].todo
        /\ \A r \in Sweep \ {s} : sweep'[r] = sweep[r]
    BY <1>1, ToFacts DEF Outcomes
  <1>4. \A r \in Sweep, e \in Publication : Executing(r, e)' = Executing(r, e)
    BY <1>3 DEF Executing
  <1>5. \A e \in Publication : Executing(s, e) => e = d
    BY <1>2, DeliveryConstants DEF Executing, Publication
  <1>6. (o = "synced" => receipt'[d]) /\ \A e \in Publication : receipt[e] => receipt'[e]
    BY <1>1 DEF TypeOK
  <1>7. AcksHaveReceipts'
    BY <1>2, <1>3, <1>4, <1>5, <1>6 DEF AcksHaveReceipts
  <1>8. \A e \in Publication : Locked(e)' => Locked(e)
    BY <1>2, <1>3, <1>4 DEF Locked
  <1>9. AcksExclude'
    BY <1>2, <1>3, <1>4, <1>8 DEF AcksExclude
  <1>10. QED
    BY <1>7, <1>9

LEMMA HoldersKept ==
    ASSUME TypeOK, TypeOK', [Next]_vars, AcksHaveReceipts, AcksExclude, OtherStep
    PROVE  AcksHaveReceipts' /\ AcksExclude'
  <1>r. \A d \in Publication : receipt[d] => receipt'[d]
    BY ReceiptsStay
  <1>k. \A d \in Publication : delivery'[d].status = "synced" => delivery[d].status = "synced"
    BY KeptByOthers DEF Kept
  <1>1. CASE Publish \/ CallbackAborts \/ UNCHANGED vars
    BY <1>1, <1>r, <1>k, NobodyMoves DEF Publish, CallbackAborts, vars
  <1>2. ASSUME NEW d \in Publication, OpsUpdate(d) \/ LeaseRunsOut(d) \/ LeaseOutrun(d)
        PROVE  AcksHaveReceipts' /\ AcksExclude'
    <2>1. sweep' = sweep /\ callback' = callback
      BY <1>2 DEF OpsUpdate, LeaseRunsOut, LeaseOutrun
    <2>2. QED
      BY <2>1, <1>r, <1>k, NobodyMoves
  <1>3. ASSUME NEW d \in Publication, CallbackVerify(d) PROVE AcksHaveReceipts' /\ AcksExclude'
    BY <1>3, CallbackTakesLock
  <1>4. ASSUME NEW s \in Sweep, CircuitCools(s) PROVE AcksHaveReceipts' /\ AcksExclude'
    BY <1>4, <1>r, <1>k, NobodyMoves DEF CircuitCools
  <1>5. ASSUME NEW s \in Sweep, SweepClaim(s) PROVE AcksHaveReceipts' /\ AcksExclude'
    <2>1. /\ callback' = callback
          /\ sweep'[s].out = "none" /\ sweep'[s].pc = "execute"
          /\ \A r \in Sweep \ {s} : sweep'[r] = sweep[r]
      <3>1. PICK rt \in Routes, td \in SUBSET Publication,
                 sn \in [Publication -> Nat] :
               sweep' = [sweep EXCEPT ![s] =
                 [pc |-> "execute", route |-> rt, todo |-> td, out |-> "none", snap |-> sn]]
        <4>1. [d \in Publication |-> IF d \in {x \in Publication : Due(x)}
                                     THEN delivery[d].attempts ELSE 0]
                 \in [Publication -> Nat]
          BY DeliveryConstants DEF TypeOK, DeliveryRow
        <4>2. QED
          BY <1>5, <4>1 DEF SweepClaim
      <3>2. QED
        BY <1>5, <3>1 DEF SweepClaim, TypeOK
    <2>2. QED
      BY <2>1, <1>r, <1>k, QuietSweep
  <1>6. ASSUME NEW s \in Sweep, SweepReject(s) \/ SweepSend(s) \/ SweepAborts(s)
        PROVE  AcksHaveReceipts' /\ AcksExclude'
    <2>1. /\ callback' = callback
          /\ \E pc \in {"sending", "record", "revert"}, o \in Outcomes \ {"synced"} :
                To(s, pc, o)
      BY <1>6 DEF SweepReject, SweepSend, SweepAborts, Outcomes
    <2>2. QED
      BY <2>1, <1>r, <1>k, DoneIsQuiet
  <1>7. ASSUME NEW s \in Sweep, SweepEnds(s) \/ SweepCrash(s)
        PROVE  AcksHaveReceipts' /\ AcksExclude'
    <2>1. callback' = callback /\ sweep' = [sweep EXCEPT ![s] = IdleSweep]
      BY <1>7 DEF SweepEnds, SweepCrash
    <2>2. QED
      BY <2>1, <1>r, <1>k, DoneIsQuiet
  <1>8. ASSUME NEW s \in Sweep, NEW d \in Publication,
               SweepSkip(s, d) \/ SweepRetry(s, d) \/ SweepRevert(s, d)
        PROVE  AcksHaveReceipts' /\ AcksExclude'
    <2>1. callback' = callback /\ Done(s, d)
      BY <1>8 DEF SweepSkip, SweepRetry, SweepRevert
    <2>2. QED
      BY <2>1, <1>r, <1>k, DoneIsQuiet
  <1>9. ASSUME NEW s \in Sweep, NEW d \in Publication, SendEnds(s, d)
        PROVE  AcksHaveReceipts' /\ AcksExclude'
    BY <1>9, AnswersHaveReceipts
  <1>9a. ASSUME NEW s \in Sweep, NEW d \in Publication, SendRaises(s, d)
         PROVE  AcksHaveReceipts' /\ AcksExclude'
    <2>1. callback' = callback /\ To(s, "revert", "none")
      BY <1>9a DEF SendRaises
    <2>2. "none" \in Outcomes \ {"synced"}
      BY DEF Outcomes
    <2>3. QED
      BY <2>1, <2>2, <1>r, <1>k, DoneIsQuiet
  <1>10. ASSUME NEW s \in Sweep, NEW d \in Publication, SweepTerminal(s, d)
         PROVE  AcksHaveReceipts' /\ AcksExclude'
    <2>1. callback' = callback /\ (Done(s, d) \/ To(s, "revert", "none"))
      BY <1>10 DEF SweepTerminal
    <2>2. "none" \in Outcomes \ {"synced"}
      BY DEF Outcomes
    <2>3. QED
      BY <2>1, <2>2, <1>r, <1>k, DoneIsQuiet
  <1>11. ASSUME NEW s \in Sweep, NEW d \in Publication, SweepAckVerify(s, d)
         PROVE  AcksHaveReceipts' /\ AcksExclude'
    <2>1. CASE Done(s, d) \/ To(s, "revert", "none")
      <3>1. callback' = callback /\ "none" \in Outcomes \ {"synced"}
        BY <1>11 DEF SweepAckVerify, Outcomes
      <3>2. QED
        BY <2>1, <3>1, <1>r, <1>k, DoneIsQuiet
    <2>2. CASE ~(Done(s, d) \/ To(s, "revert", "none"))
      <3>1. /\ sweep[s].out = "synced" /\ Executing(s, d) /\ ~Locked(d)
            /\ delivery[d].status # "synced" /\ delivery' = delivery
            /\ callback' = callback /\ receipt' = receipt
            /\ To(s, "acking", "synced")
        BY <1>11, <2>2 DEF SweepAckVerify
      <3>2. QED
        BY <3>1, VerifyTakesLock
    <2>3. QED
      BY <2>1, <2>2
  <1>12. QED
    BY <1>1, <1>2, <1>3, <1>4, <1>5, <1>6, <1>7, <1>8, <1>9, <1>9a, <1>10, <1>11 DEF OtherStep

\* The commit of an acknowledgment gives the lock back.
LEMMA CommitReleases ==
    ASSUME TypeOK, AcksHaveReceipts, AcksExclude, NEW d \in Publication, Locked(d),
           \A r \in Sweep, e \in Publication :
              sweep'[r].pc = "acking" /\ Executing(r, e)' =>
                  sweep[r].pc = "acking" /\ Executing(r, e) /\ e # d,
           \A r \in Sweep, e \in Publication :
              sweep'[r].out = "synced" /\ Executing(r, e)' =>
                  sweep[r].out = "synced" /\ Executing(r, e),
           \A r \in Sweep : sweep'[r].pc = "acking" => sweep'[r].out = "synced",
           callback' \in {callback, None}, callback' # d, receipt' = receipt,
           \A e \in Publication \ {d} : delivery'[e] = delivery[e]
    PROVE  AcksHaveReceipts' /\ AcksExclude'
  <1>1. \A e \in Publication : callback' = e => callback = e
    BY DeliveryConstants DEF Publication
  <1>2. AcksHaveReceipts'
    BY <1>1 DEF AcksHaveReceipts
  <1>3. \A e \in Publication : Locked(e)' => Locked(e) /\ e # d
    BY <1>1 DEF Locked
  <1>4. AcksExclude'
    BY <1>1, <1>3 DEF AcksExclude
  <1>5. QED
    BY <1>2, <1>4

-----------------------------------------------------------------------------
(* The invariant *)

LEMMA StagedKept ==
    ASSUME TypeOK, TypeOK', ClaimsAreStaged, [Next]_vars
    PROVE  ClaimsAreStaged'
  <1>p. published \in Nat /\ published' \in Nat /\ published <= published'
    <2>1. published' \in {published, published + 1}
      <3>1. CASE Publish \/ CallbackAborts \/ UNCHANGED vars
        BY <3>1 DEF Publish, CallbackAborts, vars
      <3>2. ASSUME NEW d \in Publication,
                   \/ OpsUpdate(d) \/ LeaseRunsOut(d) \/ LeaseOutrun(d)
                   \/ CallbackVerify(d) \/ CallbackCommit(d)
            PROVE  published' = published
        BY <3>2 DEF OpsUpdate, LeaseRunsOut, LeaseOutrun, CallbackVerify, CallbackCommit
      <3>3. ASSUME NEW s \in Sweep,
                   \/ SweepClaim(s) \/ SweepReject(s) \/ SweepSend(s) \/ CircuitCools(s)
                   \/ SweepAborts(s) \/ SweepEnds(s) \/ SweepCrash(s)
            PROVE  published' = published
        BY <3>3 DEF SweepClaim, SweepReject, SweepSend, CircuitCools, SweepAborts,
                    SweepEnds, SweepCrash
      <3>4. ASSUME NEW s \in Sweep, NEW d \in Publication,
                   \/ SweepSkip(s, d) \/ SendEnds(s, d) \/ SendRaises(s, d)
                   \/ SweepAckVerify(s, d) \/ SweepAckCommit(s, d) \/ SweepRetry(s, d) \/ SweepTerminal(s, d)
                   \/ SweepRevert(s, d)
            PROVE  published' = published
        BY <3>4 DEF SweepSkip, SendEnds, SendRaises, SweepAckVerify, SweepAckCommit, SweepRetry,
                    SweepTerminal, SweepRevert
      <3>5. QED
        BY <3>1, <3>2, <3>3, <3>4 DEF Next, SweepStep
    <2>2. QED
      BY <2>1, DeliveryConstants DEF TypeOK
  <1>s. ASSUME NEW s \in Sweep, callback' = callback,
               \A r \in Sweep \ {s} : sweep'[r] = sweep[r],
               sweep'[s].todo \subseteq sweep[s].todo
        PROVE  ClaimsAreStaged'
    <2>1. \A r \in Sweep : sweep'[r].todo \subseteq sweep[r].todo
      BY <1>s
    <2>2. \A r \in Sweep : sweep[r].todo \subseteq Nat
      BY DeliveryConstants DEF TypeOK, SweepState, Publication
    <2>3. callback # None => callback \in Nat
      BY DeliveryConstants DEF TypeOK, Publication
    <2>4. QED
      BY <1>p, <1>s, <2>1, <2>2, <2>3 DEF ClaimsAreStaged
  <1>q. ASSUME sweep' = sweep, callback' \in {callback, None} PROVE ClaimsAreStaged'
    <2>1. \A r \in Sweep : sweep[r].todo \subseteq Nat
      BY DeliveryConstants DEF TypeOK, SweepState, Publication
    <2>2. callback # None => callback \in Nat
      BY DeliveryConstants DEF TypeOK, Publication
    <2>3. QED
      BY <1>p, <1>q, <2>1, <2>2 DEF ClaimsAreStaged
  <1>1. CASE Publish \/ CallbackAborts \/ UNCHANGED vars
    BY <1>1, <1>q DEF Publish, CallbackAborts, vars
  <1>2. ASSUME NEW d \in Publication,
               OpsUpdate(d) \/ LeaseRunsOut(d) \/ LeaseOutrun(d) \/ CallbackCommit(d)
        PROVE  ClaimsAreStaged'
    <2>1. sweep' = sweep /\ callback' \in {callback, None}
      BY <1>2 DEF OpsUpdate, LeaseRunsOut, LeaseOutrun, CallbackCommit
    <2>2. QED
      BY <2>1, <1>q
  <1>3. ASSUME NEW d \in Publication, CallbackVerify(d) PROVE ClaimsAreStaged'
    <2>1. callback' = d /\ d = published /\ published' = published /\ sweep' = sweep
      BY <1>3 DEF CallbackVerify
    <2>2. QED
      BY <2>1, <1>p DEF ClaimsAreStaged
  <1>4. ASSUME NEW s \in Sweep, CircuitCools(s) PROVE ClaimsAreStaged'
    BY <1>4, <1>q DEF CircuitCools
  <1>5. ASSUME NEW s \in Sweep, SweepClaim(s) PROVE ClaimsAreStaged'
    <2> DEFINE due == {d \in Publication : Due(d)}
    <2>1. /\ sweep'[s].todo = due /\ callback' = callback /\ published' = published
          /\ \A r \in Sweep \ {s} : sweep'[r] = sweep[r]
      <3> DEFINE sn == [d \in Publication |-> IF d \in due THEN delivery[d].attempts ELSE 0]
      <3>1. PICK rt \in Routes :
               sweep' = [sweep EXCEPT ![s] =
                 [pc |-> "execute", route |-> rt, todo |-> due, out |-> "none", snap |-> sn]]
        BY <1>5 DEF SweepClaim
      <3> HIDE DEF sn, due
      <3>2. QED
        BY <1>5, <3>1 DEF SweepClaim, TypeOK
    <2>2. \A d \in due : d <= published
      BY DEF Due
    <2>3. QED
      BY <2>1, <2>2 DEF ClaimsAreStaged
  <1>6. ASSUME NEW s \in Sweep, SweepReject(s) \/ SweepSend(s) \/ SweepAborts(s)
        PROVE  ClaimsAreStaged'
    <2>1. callback' = callback /\ \E pc \in {"sending", "record", "acking", "revert"},
                                     o \in Outcomes : To(s, pc, o)
      BY <1>6 DEF SweepReject, SweepSend, SweepAborts, Outcomes
    <2>2. QED
      BY <2>1, <1>s, ToFacts
  <1>7. ASSUME NEW s \in Sweep, SweepEnds(s) \/ SweepCrash(s) PROVE ClaimsAreStaged'
    <2>1. callback' = callback /\ sweep' = [sweep EXCEPT ![s] = IdleSweep]
      BY <1>7 DEF SweepEnds, SweepCrash
    <2>2. QED
      BY <2>1, <1>s DEF TypeOK, IdleSweep
  <1>8. ASSUME NEW s \in Sweep, NEW d \in Publication,
               \/ SweepSkip(s, d) \/ SweepRetry(s, d) \/ SweepRevert(s, d)
               \/ SendEnds(s, d) \/ SendRaises(s, d) \/ SweepTerminal(s, d)
               \/ SweepAckVerify(s, d)
               \/ SweepAckCommit(s, d)
        PROVE  ClaimsAreStaged'
    <2>1. callback' = callback /\ (Done(s, d) \/
             \E pc \in {"sending", "record", "acking", "revert"}, o \in Outcomes : To(s, pc, o))
      BY <1>8 DEF SweepSkip, SweepRetry, SweepRevert, SendEnds, SendRaises, SweepTerminal,
                  SweepAckVerify, SweepAckCommit, Outcomes
    <2>2. QED
      BY <2>1, <1>s, ToFacts, DoneFacts
  <1>9. QED
    BY <1>1, <1>2, <1>3, <1>4, <1>5, <1>6, <1>7, <1>8 DEF Next, SweepStep

\* Steps that acknowledge nothing keep the rows in agreement.
LEMMA RowsKept ==
    ASSUME TypeOK, [Next]_vars, OtherStep,
           AckEventsMatch, SyncedMeansReceived, DeadLetterMeansFailed
    PROVE  AckEventsMatch' /\ SyncedMeansReceived' /\ DeadLetterMeansFailed'
  <1>1. \A d \in Publication : Kept(d) /\ (receipt[d] => receipt'[d])
    BY KeptByOthers, ReceiptsStay
  <1>2. AckEventsMatch'
    BY <1>1 DEF AckEventsMatch, Kept, Ack
  <1>3. SyncedMeansReceived'
    BY <1>1 DEF SyncedMeansReceived, Kept
  <1>4. DeadLetterMeansFailed'
    BY <1>1 DEF DeadLetterMeansFailed, Kept
  <1>5. QED
    BY <1>2, <1>3, <1>4

\* The commit of an acknowledgment: the delivery it locked is not synced, so
\* the event is new, and both rows and the ledger change together.
LEMMA CommitKeepsInv ==
    ASSUME DeliveryInv, TypeOK', ClaimsAreStaged', receipt' = receipt,
           NEW d \in Publication, NEW n \in 0..(MaxAttempts + 1), Locked(d), receipt[d],
           Acknowledge(d, n), AcksHaveReceipts', AcksExclude'
    PROVE  DeliveryInv'
  <1>1. Ack(d) \notin ledger
    BY DEF DeliveryInv, AcksExclude, AckEventsMatch
  <1>2. /\ delivery'[d].status = "synced"
        /\ \A e \in Publication \ {d} : /\ delivery'[e] = delivery[e]
                                         /\ propagation'[e] = propagation[e]
        /\ ledger' = ledger \cup {Ack(d)}
    <2>1. TypeOK
      BY DEF DeliveryInv
    <2>2. delivery'[d] = Row("synced", n)
      BY <1>1, <2>1, AcknowledgeFacts
    <2>3. Row("synced", n).status = "synced"
      BY DEF Row
    <2>4. QED
      BY <1>1, <2>1, <2>2, <2>3, AcknowledgeFacts
  <1>3. AckEventsMatch'
    BY <1>2 DEF DeliveryInv, AckEventsMatch, Ack
  <1>4. SyncedMeansReceived'
    BY <1>2 DEF DeliveryInv, SyncedMeansReceived
  <1>5. DeadLetterMeansFailed'
    BY <1>2 DEF DeliveryInv, DeadLetterMeansFailed
  <1>6. QED
    BY <1>3, <1>4, <1>5 DEF DeliveryInv

LEMMA SweepCommit ==
    ASSUME DeliveryInv, TypeOK', ClaimsAreStaged',
           NEW s \in Sweep, NEW d \in Publication, SweepAckCommit(s, d)
    PROVE  DeliveryInv'
  <1>0. TypeOK /\ AcksHaveReceipts /\ AcksExclude
    BY DEF DeliveryInv
  <1>1. /\ sweep[s].pc = "acking" /\ Executing(s, d) /\ Acknowledge(d, Attempt(s, d))
        /\ Done(s, d) /\ receipt' = receipt /\ callback' = callback
    BY DEF SweepAckCommit
  <1>2. Locked(d) /\ receipt[d] /\ callback # d
    BY <1>0, <1>1 DEF Locked, AcksHaveReceipts, AcksExclude
  <1>3. /\ sweep'[s].pc # "acking" /\ sweep'[s].out = "none"
        /\ \A r \in Sweep \ {s} : sweep'[r] = sweep[r]
    BY <1>0, <1>1, DoneFacts
  <1>4. \A r \in Sweep \ {s}, e \in Publication : Executing(r, e)' = Executing(r, e)
    BY <1>3 DEF Executing
  <1>5. \A r \in Sweep, e \in Publication :
           /\ sweep'[r].pc = "acking" /\ Executing(r, e)' =>
                 sweep[r].pc = "acking" /\ Executing(r, e) /\ e # d
           /\ sweep'[r].out = "synced" /\ Executing(r, e)' =>
                 sweep[r].out = "synced" /\ Executing(r, e)
    BY <1>0, <1>1, <1>3, <1>4 DEF AcksExclude
  <1>6. \A r \in Sweep : sweep'[r].pc = "acking" => sweep'[r].out = "synced"
    BY <1>0, <1>3 DEF AcksHaveReceipts
  <1>7. Attempt(s, d) \in 0..(MaxAttempts + 1)
    BY <1>0, AttemptType
  <1>8. \A e \in Publication \ {d} : delivery'[e] = delivery[e]
    BY <1>0, <1>1 DEF Acknowledge, TypeOK
  <1>9. AcksHaveReceipts' /\ AcksExclude'
    BY <1>0, <1>1, <1>2, <1>5, <1>6, <1>8, CommitReleases
  <1>10. QED
    BY <1>1, <1>2, <1>7, <1>9, CommitKeepsInv

LEMMA EndpointCommit ==
    ASSUME DeliveryInv, TypeOK', ClaimsAreStaged', NEW d \in Publication,
           CallbackCommit(d)
    PROVE  DeliveryInv'
  <1>0. TypeOK /\ AcksHaveReceipts /\ AcksExclude
    BY DEF DeliveryInv
  <1>1. /\ callback = d /\ callback' = None /\ Acknowledge(d, delivery[d].attempts)
        /\ sweep' = sweep /\ receipt' = receipt
    BY DEF CallbackCommit
  <1>2. Locked(d) /\ receipt[d] /\ None # d
    BY <1>0, <1>1, DeliveryConstants DEF Locked, AcksHaveReceipts, Publication
  <1>3. \A r \in Sweep, e \in Publication : Executing(r, e)' = Executing(r, e)
    BY <1>1 DEF Executing
  <1>4. \A r \in Sweep, e \in Publication :
           /\ sweep'[r].pc = "acking" /\ Executing(r, e)' =>
                 sweep[r].pc = "acking" /\ Executing(r, e) /\ e # d
           /\ sweep'[r].out = "synced" /\ Executing(r, e)' =>
                 sweep[r].out = "synced" /\ Executing(r, e)
    BY <1>0, <1>1, <1>3 DEF AcksExclude
  <1>5. \A r \in Sweep : sweep'[r].pc = "acking" => sweep'[r].out = "synced"
    BY <1>0, <1>1 DEF AcksHaveReceipts
  <1>6. delivery[d].attempts \in 0..(MaxAttempts + 1)
    BY <1>0 DEF TypeOK, DeliveryRow
  <1>7. \A e \in Publication \ {d} : delivery'[e] = delivery[e]
    BY <1>0, <1>1 DEF Acknowledge, TypeOK
  <1>8. AcksHaveReceipts' /\ AcksExclude'
    BY <1>0, <1>1, <1>2, <1>4, <1>5, <1>7, CommitReleases
  <1>9. QED
    BY <1>1, <1>2, <1>6, <1>8, CommitKeepsInv

LEMMA InvStep ==
    DeliveryInv /\ [Next]_vars => DeliveryInv'
  <1> SUFFICES ASSUME DeliveryInv, [Next]_vars PROVE DeliveryInv'
    OBVIOUS
  <1>1. TypeOK'
    BY TypeStep DEF DeliveryInv
  <1>2. ClaimsAreStaged'
    BY <1>1, StagedKept DEF DeliveryInv
  <1>3. CASE OtherStep
    <2>1. AcksHaveReceipts' /\ AcksExclude'
      BY <1>1, <1>3, HoldersKept DEF DeliveryInv
    <2>2. AckEventsMatch' /\ SyncedMeansReceived' /\ DeadLetterMeansFailed'
      BY <1>3, RowsKept DEF DeliveryInv
    <2>3. QED
      BY <1>1, <1>2, <2>1, <2>2 DEF DeliveryInv
  <1>4. CASE \E d \in Publication : CallbackCommit(d)
    BY <1>1, <1>2, <1>4, EndpointCommit
  <1>5. CASE \E d \in Publication, s \in Sweep : SweepAckCommit(s, d)
    BY <1>1, <1>2, <1>5, SweepCommit
  <1>6. QED
    BY <1>3, <1>4, <1>5, NextSplits

LEMMA InvInit ==
    Init => DeliveryInv
  <1> SUFFICES ASSUME Init PROVE DeliveryInv
    OBVIOUS
  <1>1. TypeOK
    BY TypeInit
  <1>2. \A s \in Sweep : sweep[s].todo = {} /\ sweep[s].out = "none" /\ sweep[s].pc = "idle"
    BY DEF Init, IdleSweep
  <1>3. callback = None /\ \A d \in Publication : d # None
    BY DeliveryConstants DEF Init, Publication
  <1>4. ClaimsAreStaged /\ AcksHaveReceipts
    BY <1>2, <1>3 DEF ClaimsAreStaged, AcksHaveReceipts
  <1>5. AcksExclude
    BY <1>2, <1>3 DEF AcksExclude, Locked
  <1>6. AckEventsMatch /\ SyncedMeansReceived /\ DeadLetterMeansFailed
    BY DEF Init, AckEventsMatch, SyncedMeansReceived, DeadLetterMeansFailed
  <1>7. QED
    BY <1>1, <1>4, <1>5, <1>6 DEF DeliveryInv

-----------------------------------------------------------------------------
(* Theorems *)

\* The delivery and propagation rows, the ledger, the receipts and the ack
\* transactions of acknowledge_propagation_delivery agree in every state, for
\* any number of sweeps and publications and under every fault of the model.
THEOREM DeliveryInvariant == Spec => []DeliveryInv
  <1>1. QED
    BY InvInit, InvStep, PTL DEF Spec

\* Only a publication the consumer holds is ever shown as synced.
THEOREM SyncedIsReceived == Spec => []SyncedMeansReceived
  <1>1. DeliveryInv => SyncedMeansReceived
    BY DEF DeliveryInv
  <1>2. QED
    BY <1>1, DeliveryInvariant, PTL

\* A dead-lettered delivery had all its attempts, and its propagation failed.
THEOREM DeadLettersFailed == Spec => []DeadLetterMeansFailed
  <1>1. DeliveryInv => DeadLetterMeansFailed
    BY DEF DeliveryInv
  <1>2. QED
    BY <1>1, DeliveryInvariant, PTL

\* No sweep, revert or operator takes an acknowledgment back.
THEOREM SyncedStays == Spec => SyncedIsFinal
  <1>1. DeliveryInv /\ [Next]_vars =>
           [\A d \in Publication :
              delivery[d].status = "synced" => delivery'[d].status = "synced"]_vars
    <2> SUFFICES ASSUME DeliveryInv, [Next]_vars, NEW d \in Publication,
                        delivery[d].status = "synced"
                 PROVE  delivery'[d].status = "synced"
      OBVIOUS
    <2>0. TypeOK
      BY DEF DeliveryInv
    <2>1. CASE OtherStep
      BY <2>0, <2>1, KeptByOthers DEF Kept
    <2>2. ASSUME NEW e \in Publication,
                 CallbackCommit(e) \/ \E s \in Sweep : SweepAckCommit(s, e)
          PROVE  delivery'[d].status = "synced"
      <3>1. Locked(e) /\ \E n : Acknowledge(e, n)
        BY <2>2 DEF CallbackCommit, SweepAckCommit, Locked
      <3>2. e # d
        BY <3>1 DEF DeliveryInv, AcksExclude
      <3>3. QED
        BY <2>0, <3>1, <3>2 DEF Acknowledge, TypeOK
    <2>3. QED
      BY <2>1, <2>2, NextSplits
  <1>2. QED
    BY <1>1, DeliveryInvariant, PTL DEF Spec, SyncedIsFinal
=============================================================================
