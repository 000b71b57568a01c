----------------------- MODULE OutboundJournal_proofs ------------------------
(***************************************************************************)
(* Proofs about OutboundJournal, for any number of senders, messages and   *)
(* attempts: type correctness, one unresolved attempt, truthful receipts,  *)
(* no message twice in the conversation, no click beside an unresolved     *)
(* attempt, and the implementation of Outbox.                              *)
(***************************************************************************)
EXTENDS OutboundJournal, TLAPS

\* Everything that has a receipt, a click or a place on the page was reserved.
EffectsReserved ==
  /\ aborted \subseteq Started /\ delivered \subseteq Started /\ inflight \subseteq Started
  /\ \A i \in 1..Len(wire) : wire[i] \in Started

\* The last attempt of a message speaks for the earlier ones: reserve_outbound
\* looks only at attempts[-1].
LastSpeaks ==
  /\ \A m \in Messages : last[m] # None => last[m] \in Started /\ payload[last[m]] = m
  /\ \A a \in Started : a # last[payload[a]] => a \in aborted

\* An attempt shows at most once on the page, and not while its click is due.
ShownOnce ==
  /\ \A i, j \in 1..Len(wire) : wire[i] = wire[j] => i = j
  /\ \A i \in 1..Len(wire) : wire[i] \notin inflight

\* What a sender knows between its steps: its message, its attempt, that the
\* attempt is still its own to send, and nobody else's.
SenderKnows ==
  \A s \in Senders :
    /\ pc[s] = "anchored" => job[s] \in Messages
    /\ pc[s] \in {"reserved", "sent", "reconciling"} => cur[s] \in Started
    /\ pc[s] = "reserved" =>
         cur[s] \in Unresolved /\ cur[s] \notin inflight /\ ~OnPage(cur[s])
    /\ \A t \in Senders :
         pc[s] = "reserved" /\ pc[t] \in {"reserved", "sent"} /\ cur[s] = cur[t] => s = t

IInv ==
  /\ TypeOK
  /\ EffectsReserved
  /\ LastSpeaks
  /\ SingleUnresolved
  /\ ReceiptsTruthful
  /\ ShownOnce
  /\ SenderKnows

-----------------------------------------------------------------------------
\* What the invariant says about a message on the page: its attempt is the
\* last one of that message, so two attempts of it are one.
LEMMA WireIsLast ==
  ASSUME IInv, NEW i \in 1..Len(wire)
  PROVE  /\ wire[i] \in Started
         /\ wire[i] \notin aborted
         /\ wire[i] = last[payload[wire[i]]]
<1>1. wire[i] \in Started
  BY DEF IInv, EffectsReserved
<1>2. wire[i] \notin aborted
  <2>1. OnPage(wire[i])
    BY DEF OnPage
  <2> QED BY <2>1 DEF IInv, ReceiptsTruthful
<1> QED BY <1>1, <1>2 DEF IInv, LastSpeaks

-----------------------------------------------------------------------------
\* Type correctness of a step.
LEMMA TypeStep ==
  ASSUME TypeOK, SenderKnows, [Next]_vars
  PROVE  TypeOK'
<1> USE DEF TypeOK, PCs
<1>1. ASSUME NEW s \in Senders, NEW m \in Messages, Checkpoint(s, m) PROVE TypeOK'
  BY <1>1 DEF Checkpoint, journal, page
<1>2. ASSUME NEW s \in Senders, Reserve(s) PROVE TypeOK'
  <2>1. job[s] \in Messages
    BY <1>2 DEF Reserve, SenderKnows
  <2> QED BY <1>2, <2>1 DEF Reserve, page
<1>3. ASSUME NEW s \in Senders, ReserveRefused(s) PROVE TypeOK'
  BY <1>3 DEF ReserveRefused, journal, page
<1>4. ASSUME NEW s \in Senders, PreSendFails(s) PROVE TypeOK'
  BY <1>4 DEF PreSendFails, journal, page
<1>5. ASSUME NEW s \in Senders, ContinuityAbort(s) PROVE TypeOK'
  BY <1>5 DEF ContinuityAbort, page, SenderKnows, Started
<1>6. ASSUME NEW s \in Senders, Click(s) PROVE TypeOK'
  BY <1>6 DEF Click, journal, SenderKnows, Started
<1>7. ASSUME NEW s \in Senders, DriverRefuses(s) PROVE TypeOK'
  BY <1>7 DEF DriverRefuses
<1>8. ASSUME NEW s \in Senders, DriverGivesUp(s) PROVE TypeOK'
  BY <1>8 DEF DriverGivesUp, journal, page
<1>9. ASSUME NEW s \in Senders, Confirm(s) PROVE TypeOK'
  BY <1>9 DEF Confirm, page, SenderKnows, Started
<1>10. ASSUME NEW s \in Senders, ReconcileStart(s) PROVE TypeOK'
  BY <1>10 DEF ReconcileStart, journal, page, Unresolved, Started
<1>11. ASSUME NEW s \in Senders, ReconcileProves(s) PROVE TypeOK'
  BY <1>11 DEF ReconcileProves, page, SenderKnows, Started
<1>12. ASSUME NEW s \in Senders, ReconcileFails(s) PROVE TypeOK'
  BY <1>12 DEF ReconcileFails, journal, page
<1>13. ASSUME NEW s \in Senders, NewRuntime(s) PROVE TypeOK'
  BY <1>13 DEF NewRuntime, journal, page
<1>14. ASSUME NEW a \in Attempts, Land(a) PROVE TypeOK'
  BY <1>14 DEF Land, journal
<1>15. ASSUME NEW a \in Attempts, Vanish(a) PROVE TypeOK'
  BY <1>15 DEF Vanish, journal
<1>16. CASE OtherMessage
  BY <1>16 DEF OtherMessage, journal
<1>17. CASE UNCHANGED vars
  BY <1>17 DEF vars, journal, page
<1> QED
  BY <1>1, <1>2, <1>3, <1>4, <1>5, <1>6, <1>7, <1>8, <1>9, <1>10, <1>11, <1>12,
     <1>13, <1>14, <1>15, <1>16, <1>17 DEF Next

-----------------------------------------------------------------------------
\* A step of a sender alone touches neither the journal nor the page.
LEMMA QuietStep ==
  ASSUME IInv, UNCHANGED <<journal, page>>
  PROVE  /\ Started' = Started /\ Unresolved' = Unresolved
         /\ \A a : OnPage(a)' <=> OnPage(a)
         /\ EffectsReserved' /\ LastSpeaks' /\ SingleUnresolved'
         /\ ReceiptsTruthful' /\ ShownOnce'
<1> USE DEF journal, page
<1>1. Started' = Started /\ Unresolved' = Unresolved /\ \A a : OnPage(a)' <=> OnPage(a)
  BY DEF Started, Unresolved, OnPage
<1>2. EffectsReserved' /\ LastSpeaks' /\ SingleUnresolved'
  BY <1>1 DEF IInv, EffectsReserved, LastSpeaks, SingleUnresolved
<1>3. ReceiptsTruthful' /\ ShownOnce'
  BY <1>1 DEF IInv, ReceiptsTruthful, ShownOnce
<1> QED BY <1>1, <1>2, <1>3

\* A reservation, the write before any effect: the fresh attempt is the last one
\* of its message, and the earlier ones are aborted because MayReserve says so.
LEMMA ReserveStep ==
  ASSUME IInv, TypeOK', NEW s \in Senders, Reserve(s)
  PROVE  IInv'
<1> USE DEF IInv, TypeOK
<1>1. PICK a \in Attempts \ Started :
        /\ payload' = [payload EXCEPT ![a] = job[s]]
        /\ last' = [last EXCEPT ![job[s]] = a]
        /\ cur' = [cur EXCEPT ![s] = a]
  BY DEF Reserve
<1>2. /\ pc[s] = "anchored" /\ MayReserve(job[s]) /\ job[s] \in Messages
      /\ pc' = [pc EXCEPT ![s] = "reserved"]
      /\ UNCHANGED <<aborted, delivered, job, wire, inflight>>
  BY DEF Reserve, SenderKnows, page
<1>3. Started' = Started \cup {a} /\ a \notin Started
  BY <1>1, <1>2, NoneAssumption DEF Started
<1>4. a \notin aborted /\ a \notin delivered /\ a \notin inflight /\ ~OnPage(a)
  BY <1>3 DEF EffectsReserved, OnPage
<1>5. Unresolved = {} /\ Unresolved' = {a}
  BY <1>2, <1>3, <1>4 DEF Unresolved, MayReserve
<1>6. \A b : OnPage(b)' <=> OnPage(b)
  BY <1>2 DEF OnPage
<1>7. EffectsReserved'
  BY <1>2, <1>3 DEF EffectsReserved
<1>8. LastSpeaks'
  <2>1. \A m \in Messages : last'[m] # None => last'[m] \in Started' /\ payload'[last'[m]] = m
    BY <1>1, <1>2, <1>3 DEF LastSpeaks
  <2>2. ASSUME NEW b \in Started', b # last'[payload'[b]] PROVE b \in aborted'
    <3>1. b # a
      BY <1>1, <1>2, <2>2
    <3>2. b \in Started /\ payload'[b] = payload[b]
      BY <1>1, <1>3, <3>1
    <3>3. CASE payload[b] = job[s] /\ b = last[payload[b]]
      BY <1>2, <3>2, <3>3, NoneAssumption DEF MayReserve, Started
    <3>4. CASE payload[b] # job[s] \/ b # last[payload[b]]
      <4>1. payload[b] \in Messages
        BY <3>2 DEF Started
      <4> QED BY <1>1, <1>2, <2>2, <3>2, <3>4, <4>1 DEF LastSpeaks
    <3> QED BY <3>3, <3>4
  <2> QED BY <2>1, <2>2 DEF LastSpeaks
<1>9. SingleUnresolved'
  BY <1>5 DEF SingleUnresolved
<1>10. ReceiptsTruthful' /\ ShownOnce'
  BY <1>2, <1>6 DEF ReceiptsTruthful, ShownOnce
<1>11. SenderKnows'
  <2>1. \A t \in Senders : pc[t] \in {"reserved", "sent", "reconciling"} => cur[t] # a
    BY <1>3 DEF SenderKnows
  <2>2. \A t \in Senders : pc[t] # "reserved"
    BY <1>5 DEF SenderKnows
  <2> QED BY <1>1, <1>2, <1>3, <1>4, <1>5, <1>6, <2>1, <2>2 DEF SenderKnows
<1> QED BY <1>7, <1>8, <1>9, <1>10, <1>11

\* A proof of absence: the attempt is not on the page, and no click for it is
\* due any more.
LEMMA AbortStep ==
  ASSUME IInv, TypeOK', NEW s \in Senders, ContinuityAbort(s) \/ DriverRefuses(s)
  PROVE  IInv'
<1> USE DEF IInv, TypeOK
<1>1. /\ pc[s] \in {"reserved", "sent"} /\ pc' = [pc EXCEPT ![s] = "idle"]
      /\ aborted' = aborted \cup {cur[s]} /\ inflight' = inflight \ {cur[s]}
      /\ UNCHANGED <<payload, last, delivered, job, cur, wire>>
  BY DEF ContinuityAbort, DriverRefuses, page, SenderKnows
<1>2. cur[s] \in Started /\ ~OnPage(cur[s])
  BY <1>1 DEF ContinuityAbort, DriverRefuses, SenderKnows, ShownOnce, OnPage
<1>3. Started' = Started /\ Unresolved' = Unresolved \ {cur[s]}
  BY <1>1 DEF Started, Unresolved
<1>4. \A b : OnPage(b)' <=> OnPage(b)
  BY <1>1 DEF OnPage
<1>5. EffectsReserved' /\ LastSpeaks'
  BY <1>1, <1>2, <1>3 DEF EffectsReserved, LastSpeaks
<1>6. SingleUnresolved' /\ ReceiptsTruthful' /\ ShownOnce'
  BY <1>1, <1>2, <1>3, <1>4 DEF SingleUnresolved, ReceiptsTruthful, ShownOnce
<1>7. SenderKnows'
  <2>1. \A t \in Senders : pc[t] = "reserved" /\ t # s => cur[t] # cur[s]
    BY <1>1 DEF SenderKnows
  <2> QED BY <1>1, <1>3, <1>4, <2>1 DEF SenderKnows
<1> QED BY <1>5, <1>6, <1>7

\* A proof of delivery: the attempt is on the page.
LEMMA DeliveredStep ==
  ASSUME IInv, TypeOK', NEW s \in Senders, Confirm(s) \/ ReconcileProves(s)
  PROVE  IInv'
<1> USE DEF IInv, TypeOK
<1>1. /\ pc[s] \in {"sent", "reconciling"} /\ pc' = [pc EXCEPT ![s] = "idle"]
      /\ delivered' = delivered \cup {cur[s]} /\ OnPage(cur[s])
      /\ UNCHANGED <<payload, last, aborted, job, cur, wire, inflight>>
  BY DEF Confirm, ReconcileProves, page
<1>2. cur[s] \in Started
  BY <1>1 DEF SenderKnows
<1>3. Started' = Started /\ Unresolved' = Unresolved \ {cur[s]}
  BY <1>1 DEF Started, Unresolved
<1>4. \A b : OnPage(b)' <=> OnPage(b)
  BY <1>1 DEF OnPage
<1>5. EffectsReserved' /\ LastSpeaks'
  BY <1>1, <1>2, <1>3 DEF EffectsReserved, LastSpeaks
<1>6. SingleUnresolved' /\ ReceiptsTruthful' /\ ShownOnce'
  BY <1>1, <1>3, <1>4 DEF SingleUnresolved, ReceiptsTruthful, ShownOnce
<1>7. SenderKnows'
  BY <1>1, <1>3, <1>4 DEF SenderKnows
<1> QED BY <1>5, <1>6, <1>7

\* A click is asked for, for the one attempt whose fate is open.
LEMMA ClickStep ==
  ASSUME IInv, TypeOK', NEW s \in Senders, Click(s)
  PROVE  IInv'
<1> USE DEF IInv, TypeOK
<1>1. /\ pc[s] = "reserved" /\ pc' = [pc EXCEPT ![s] = "sent"]
      /\ inflight' = inflight \cup {cur[s]}
      /\ UNCHANGED <<payload, last, aborted, delivered, job, cur, wire>>
  BY DEF Click, journal
<1>2. cur[s] \in Unresolved /\ ~OnPage(cur[s]) /\ cur[s] \in Started
  BY <1>1 DEF SenderKnows
<1>3. Started' = Started /\ Unresolved' = Unresolved
  BY <1>1 DEF Started, Unresolved
<1>4. \A b : OnPage(b)' <=> OnPage(b)
  BY <1>1 DEF OnPage
<1>5. EffectsReserved' /\ LastSpeaks' /\ SingleUnresolved'
  BY <1>1, <1>2, <1>3 DEF EffectsReserved, LastSpeaks, SingleUnresolved
<1>6. ReceiptsTruthful' /\ ShownOnce'
  BY <1>1, <1>2, <1>4 DEF ReceiptsTruthful, ShownOnce, Unresolved, OnPage
<1>7. SenderKnows'
  <2>1. \A t \in Senders : pc[t] = "reserved" /\ t # s => cur[t] # cur[s]
    BY <1>1 DEF SenderKnows
  <2> QED BY <1>1, <1>3, <1>4, <2>1 DEF SenderKnows
<1> QED BY <1>5, <1>6, <1>7

\* A click lands: the page shows the attempt for the first time.
LEMMA LandStep ==
  ASSUME IInv, TypeOK', NEW a \in Attempts, Land(a)
  PROVE  IInv'
<1> USE DEF IInv, TypeOK
<1>1. /\ a \in inflight /\ inflight' = inflight \ {a}
      /\ wire' = Append(wire, a)
      /\ UNCHANGED <<payload, last, aborted, delivered, pc, job, cur>>
  BY DEF Land, journal
<1>2. /\ Len(wire') = Len(wire) + 1 /\ wire'[Len(wire) + 1] = a /\ Len(wire) \in Nat
      /\ \A i \in 1..Len(wire) : wire'[i] = wire[i]
      /\ 1..Len(wire') = 1..Len(wire) \cup {Len(wire) + 1}
  <2>1. Len(wire') = Len(wire) + 1 /\ wire'[Len(wire) + 1] = a /\ Len(wire) \in Nat
    BY <1>1
  <2>2. \A i \in 1..Len(wire) : wire'[i] = wire[i]
    BY <1>1
  <2>3. 1..Len(wire') = 1..Len(wire) \cup {Len(wire) + 1}
    BY <2>1
  <2> QED BY <2>1, <2>2, <2>3
<1>3. Started' = Started /\ Unresolved' = Unresolved
  BY <1>1 DEF Started, Unresolved
<1>4. a \in Started /\ a \notin aborted /\ ~OnPage(a)
  BY <1>1 DEF EffectsReserved, ReceiptsTruthful, ShownOnce, OnPage
<1>5. \A b : OnPage(b)' <=> OnPage(b) \/ b = a
  BY <1>2 DEF OnPage
<1>6. EffectsReserved' /\ LastSpeaks' /\ SingleUnresolved'
  BY <1>1, <1>2, <1>3, <1>4 DEF EffectsReserved, LastSpeaks, SingleUnresolved
<1>7. ReceiptsTruthful'
  BY <1>1, <1>4, <1>5 DEF ReceiptsTruthful
<1>8. ShownOnce'
  <2>1. \A i \in 1..Len(wire) : wire[i] # a /\ wire[i] \notin inflight
    BY <1>4 DEF ShownOnce, OnPage
  <2>2. \A i \in 1..Len(wire') : wire'[i] \notin inflight'
    BY <1>1, <1>2, <2>1
  <2>3. ASSUME NEW i \in 1..Len(wire'), NEW j \in 1..Len(wire'), wire'[i] = wire'[j]
        PROVE  i = j
    <3>1. CASE i \in 1..Len(wire) /\ j \in 1..Len(wire)
      BY <1>2, <2>3, <3>1 DEF ShownOnce
    <3>2. CASE i = Len(wire) + 1 \/ j = Len(wire) + 1
      BY <1>2, <2>1, <2>3, <3>2
    <3> QED BY <1>2, <3>1, <3>2
  <2> QED BY <2>2, <2>3 DEF ShownOnce
<1>9. SenderKnows'
  BY <1>1, <1>3, <1>5 DEF SenderKnows
<1> QED BY <1>6, <1>7, <1>8, <1>9

\* A click that will not land any more.
LEMMA VanishStep ==
  ASSUME IInv, TypeOK', NEW a \in Attempts, Vanish(a)
  PROVE  IInv'
<1> USE DEF IInv, TypeOK
<1>1. /\ inflight' = inflight \ {a}
      /\ UNCHANGED <<payload, last, aborted, delivered, pc, job, cur, wire>>
  BY DEF Vanish, journal
<1>2. Started' = Started /\ Unresolved' = Unresolved /\ \A b : OnPage(b)' <=> OnPage(b)
  BY <1>1 DEF Started, Unresolved, OnPage
<1>3. EffectsReserved' /\ LastSpeaks' /\ SingleUnresolved'
  BY <1>1, <1>2 DEF EffectsReserved, LastSpeaks, SingleUnresolved
<1>4. ReceiptsTruthful' /\ ShownOnce' /\ SenderKnows'
  BY <1>1, <1>2 DEF ReceiptsTruthful, ShownOnce, SenderKnows
<1> QED BY <1>3, <1>4

\* The steps that change a sender only: nothing it knows is lost.
LEMMA SenderStep ==
  ASSUME IInv, TypeOK', NEW s \in Senders,
         \/ \E m \in Messages : Checkpoint(s, m)
         \/ ReserveRefused(s) \/ PreSendFails(s) \/ DriverGivesUp(s)
         \/ ReconcileStart(s) \/ ReconcileFails(s) \/ NewRuntime(s)
  PROVE  IInv' /\ UNCHANGED <<journal, page>>
<1> USE DEF TypeOK
<1>1. UNCHANGED <<journal, page>>
  BY DEF Checkpoint, ReserveRefused, PreSendFails, DriverGivesUp, ReconcileStart,
         ReconcileFails, NewRuntime
<1>2. /\ Started' = Started /\ Unresolved' = Unresolved /\ UNCHANGED inflight
      /\ \A a : OnPage(a)' <=> OnPage(a)
      /\ EffectsReserved' /\ LastSpeaks' /\ SingleUnresolved' /\ ReceiptsTruthful' /\ ShownOnce'
  BY <1>1, QuietStep DEF page
<1>3. SenderKnows'
  <2> USE DEF IInv
  <2>1. ASSUME NEW m \in Messages, Checkpoint(s, m) PROVE SenderKnows'
    BY <1>2, <2>1 DEF Checkpoint, SenderKnows
  <2>2. CASE ReserveRefused(s) \/ PreSendFails(s) \/ DriverGivesUp(s) \/ ReconcileFails(s) \/ NewRuntime(s)
    <3>1. pc' = [pc EXCEPT ![s] = "idle"] /\ UNCHANGED <<job, cur>>
      BY <2>2 DEF ReserveRefused, PreSendFails, DriverGivesUp, ReconcileFails, NewRuntime
    <3> QED BY <1>2, <3>1 DEF SenderKnows
  <2>3. CASE ReconcileStart(s)
    <3>1. /\ pc' = [pc EXCEPT ![s] = "reconciling"] /\ UNCHANGED job
          /\ cur'[s] \in Started /\ \A t \in Senders : t # s => cur'[t] = cur[t]
      BY <2>3 DEF ReconcileStart, Unresolved
    <3> QED BY <1>2, <3>1 DEF SenderKnows
  <2> QED BY <2>1, <2>2, <2>3
<1> QED BY <1>1, <1>2, <1>3 DEF IInv

\* The invariant is inductive.
LEMMA IInvStep ==
  ASSUME IInv, [Next]_vars
  PROVE  IInv'
<1>1. TypeOK'
  BY TypeStep DEF IInv
<1>2. ASSUME NEW s \in Senders, NEW m \in Messages, Checkpoint(s, m) PROVE IInv'
  BY <1>1, <1>2, SenderStep
<1>3. ASSUME NEW s \in Senders, Reserve(s) PROVE IInv'
  BY <1>1, <1>3, ReserveStep
<1>4. ASSUME NEW s \in Senders, ContinuityAbort(s) \/ DriverRefuses(s) PROVE IInv'
  BY <1>1, <1>4, AbortStep
<1>5. ASSUME NEW s \in Senders, Confirm(s) \/ ReconcileProves(s) PROVE IInv'
  BY <1>1, <1>5, DeliveredStep
<1>6. ASSUME NEW s \in Senders, Click(s) PROVE IInv'
  BY <1>1, <1>6, ClickStep
<1>7. ASSUME NEW s \in Senders,
             \/ ReserveRefused(s) \/ PreSendFails(s) \/ DriverGivesUp(s)
             \/ ReconcileStart(s) \/ ReconcileFails(s) \/ NewRuntime(s)
      PROVE  IInv'
  BY <1>1, <1>7, SenderStep
<1>8. ASSUME NEW a \in Attempts, Land(a) PROVE IInv'
  BY <1>1, <1>8, LandStep
<1>9. ASSUME NEW a \in Attempts, Vanish(a) PROVE IInv'
  BY <1>1, <1>9, VanishStep
<1>10. CASE OtherMessage \/ UNCHANGED vars
  <2>1. UNCHANGED <<payload, last, aborted, delivered, pc, job, cur, wire, inflight>>
    BY <1>10 DEF OtherMessage, vars, journal, page
  <2>2. Started' = Started /\ Unresolved' = Unresolved /\ \A b : OnPage(b)' <=> OnPage(b)
    BY <2>1 DEF Started, Unresolved, OnPage
  <2>3. EffectsReserved' /\ LastSpeaks' /\ SingleUnresolved'
    BY <2>1, <2>2 DEF IInv, EffectsReserved, LastSpeaks, SingleUnresolved
  <2>4. ReceiptsTruthful' /\ ShownOnce' /\ SenderKnows'
    BY <2>1, <2>2 DEF IInv, ReceiptsTruthful, ShownOnce, SenderKnows
  <2> QED BY <1>1, <2>3, <2>4 DEF IInv
<1> QED
  BY <1>2, <1>3, <1>4, <1>5, <1>6, <1>7, <1>8, <1>9, <1>10 DEF Next

\* An empty journal and an empty page satisfy the invariant.
LEMMA IInvInit == Init => IInv
<1> SUFFICES ASSUME Init PROVE IInv
  OBVIOUS
<1>1. TypeOK
  BY DEF Init, TypeOK, PCs
<1>2. Started = {} /\ Unresolved = {} /\ Len(wire) = 0
  BY DEF Init, Started, Unresolved
<1>3. EffectsReserved /\ LastSpeaks /\ SingleUnresolved
  BY <1>2 DEF Init, EffectsReserved, LastSpeaks, SingleUnresolved
<1>4. ReceiptsTruthful /\ ShownOnce /\ SenderKnows
  BY <1>2 DEF Init, ReceiptsTruthful, ShownOnce, SenderKnows
<1> QED BY <1>1, <1>3, <1>4 DEF IInv

\* The inductive invariant holds in every reachable state.
THEOREM Invariance == Spec => []IInv
  BY IInvInit, IInvStep, PTL DEF Spec

\* Every variable keeps its type: receipts name attempts, the page holds attempts.
THEOREM TypeCorrect == Spec => []TypeOK
<1>1. IInv => TypeOK
  BY DEF IInv
<1> QED BY <1>1, Invariance, PTL

\* reserve_outbound never leaves a second attempt of unknown fate.
THEOREM OneAttemptOpen == Spec => []SingleUnresolved
<1>1. IInv => SingleUnresolved
  BY DEF IInv
<1> QED BY <1>1, Invariance, PTL

\* MESSAGE_DELIVERED means on the page, MESSAGE_SEND_ABORTED means never on it.
THEOREM Truthful == Spec => []ReceiptsTruthful
<1>1. IInv => ReceiptsTruthful
  BY DEF IInv
<1> QED BY <1>1, Invariance, PTL

\* Two places of the page that show one message show one attempt, and so are one.
LEMMA IInvAtMostOnce == IInv => AtMostOnce
<1> SUFFICES ASSUME IInv, NEW i \in 1..Len(wire), NEW j \in 1..Len(wire),
                    payload[wire[i]] = payload[wire[j]]
             PROVE  i = j
  BY DEF AtMostOnce
<1>1. wire[i] = wire[j]
  BY WireIsLast
<1> QED BY <1>1 DEF IInv, ShownOnce

\* No message enters the conversation twice, for any number of senders that
\* crash, resume and compete and any number of clicks that land late.
THEOREM NeverTwice == Spec => []AtMostOnce
  BY Invariance, IInvAtMostOnce, PTL

\* The extension is asked to click only for the one attempt of unknown fate.
THEOREM ClickIsAlone == Spec => NoBlindClick
<1>1. ASSUME IInv, [Next]_vars
      PROVE  [\A a \in inflight' \ inflight : Unresolved \subseteq {a}]_vars
  <2> SUFFICES ASSUME NEW a \in inflight' \ inflight PROVE Unresolved \subseteq {a}
    OBVIOUS
  <2>1. CASE \E s \in Senders : Click(s)
    <3>1. PICK s \in Senders : Click(s)
      BY <2>1
    <3>2. a = cur[s] /\ cur[s] \in Unresolved
      BY <1>1, <3>1 DEF Click, IInv, SenderKnows
    <3> QED BY <1>1, <3>2 DEF IInv, SingleUnresolved
  <2>2. CASE ~\E s \in Senders : Click(s)
    <3>1. inflight' \subseteq inflight
      BY <1>1, <2>2 DEF Next, vars, page, Checkpoint, Reserve, ReserveRefused, PreSendFails,
         ContinuityAbort, DriverRefuses, DriverGivesUp, Confirm, ReconcileStart,
         ReconcileProves, ReconcileFails, NewRuntime, Land, Vanish, OtherMessage
    <3> QED BY <3>1
  <2> QED BY <2>1, <2>2
<1> QED BY <1>1, Invariance, PTL DEF Spec, NoBlindClick

-----------------------------------------------------------------------------
(* The journal implements the abstract outbox.                             *)

\* The open slot of the outbox is the message of the one unresolved attempt.
LEMMA SlotBar ==
  ASSUME IInv
  PROVE  /\ Unresolved = {} => slotBar = None
         /\ \A a \in Unresolved : slotBar = payload[a] /\ payload[a] # None
<1>1. ASSUME NEW a \in Unresolved PROVE slotBar = payload[a] /\ payload[a] # None
  <2>1. Unresolved = {a} /\ payload[a] # None
    BY DEF IInv, SingleUnresolved, Unresolved, Started
  <2> QED BY <2>1 DEF slotBar
<1> QED BY <1>1 DEF slotBar

\* A message is in the log of the outbox when its last attempt is on the page.
LEMMA LogBar ==
  ASSUME IInv, NEW m \in Messages, O!InLog(m)
  PROVE  last[m] # None /\ OnPage(last[m])
<1>1. Len(logBar) = Len(wire)
  BY DEF logBar, IInv, TypeOK
<1>2. PICK i \in 1..Len(wire) : payload[wire[i]] = m
  BY <1>1 DEF O!InLog, logBar
<1>3. wire[i] = last[m] /\ last[m] \in Started
  BY <1>2, WireIsLast
<1> QED BY <1>3, NoneAssumption DEF OnPage, Started

\* What leaves the page and the reservations alone leaves the log alone.
LEMMA SameLog ==
  ASSUME IInv, UNCHANGED wire, \A a \in Started : payload'[a] = payload[a]
  PROVE  logBar' = logBar
<1>1. \A i \in 1..Len(wire) : payload'[wire'[i]] = payload[wire[i]]
  BY DEF IInv, EffectsReserved
<1> QED BY <1>1 DEF logBar

\* A reservation opens the slot for a message that is not in the log.
LEMMA ReserveOpens ==
  ASSUME IInv, IInv', NEW s \in Senders, Reserve(s)
  PROVE  O!Open
<1>1. PICK a \in Attempts \ Started :
        payload' = [payload EXCEPT ![a] = job[s]] /\ UNCHANGED <<wire, aborted, delivered>>
  BY DEF Reserve, page
<1>2. MayReserve(job[s]) /\ job[s] \in Messages
  BY DEF Reserve, IInv, SenderKnows
<1>3. slotBar = None
  BY <1>2, SlotBar DEF MayReserve
<1>4. ~O!InLog(job[s])
  <2>1. SUFFICES ASSUME O!InLog(job[s]) PROVE FALSE
    OBVIOUS
  <2>2. last[job[s]] \in aborted /\ OnPage(last[job[s]])
    BY <1>2, <2>1, LogBar DEF MayReserve
  <2> QED BY <2>2 DEF IInv, ReceiptsTruthful
<1>5. a \in Unresolved' /\ payload'[a] = job[s]
  BY <1>1, <1>2, NoneAssumption DEF Unresolved, Started, IInv, TypeOK, EffectsReserved
<1>6. slotBar' = job[s]
  <2>1. Unresolved' = {a}
    BY <1>5 DEF IInv, SingleUnresolved
  <2> QED BY <1>5, <2>1 DEF slotBar
<1>7. logBar' = logBar
  <2>1. \A b \in Started : payload'[b] = payload[b]
    BY <1>1 DEF Started
  <2> QED BY <1>1, <2>1, SameLog
<1> QED BY <1>2, <1>3, <1>4, <1>6, <1>7 DEF O!Open

\* A click that lands puts the message of the slot into the log.
LEMMA LandEnters ==
  ASSUME IInv, NEW a \in Attempts, Land(a)
  PROVE  O!Enter
<1>1. a \in inflight /\ wire' = Append(wire, a) /\ UNCHANGED journal
  BY DEF Land
<1>2. ~OnPage(a) /\ a \in Unresolved
  BY <1>1 DEF IInv, EffectsReserved, ReceiptsTruthful, ShownOnce, OnPage, Unresolved
<1>3. slotBar = payload[a] /\ slotBar # None /\ payload[a] \in Messages
  BY <1>2, SlotBar DEF IInv, TypeOK
<1>4. ~O!InLog(slotBar)
  <2>1. SUFFICES ASSUME O!InLog(slotBar) PROVE FALSE
    OBVIOUS
  <2>2. OnPage(last[payload[a]])
    BY <1>3, <2>1, LogBar
  <2>3. a = last[payload[a]]
    BY <1>2 DEF IInv, LastSpeaks, Unresolved
  <2> QED BY <1>2, <2>2, <2>3
<1>5. slotBar' = slotBar
  BY <1>1 DEF slotBar, Unresolved, Started, journal
<1>6. logBar' = Append(logBar, slotBar)
  <2>1. Len(wire) \in Nat /\ Len(wire') = Len(wire) + 1
    BY <1>1 DEF IInv, TypeOK
  <2>2. \A i \in 1..Len(wire') : wire'[i] = IF i = Len(wire) + 1 THEN a ELSE wire[i]
    BY <1>1 DEF IInv, TypeOK
  <2>3. UNCHANGED payload
    BY <1>1 DEF journal
  <2>4. logBar \in Seq(Messages) /\ Len(logBar) = Len(wire)
    <3>1. \A i \in 1..Len(wire) : payload[wire[i]] \in Messages
      BY WireIsLast DEF Started, IInv, TypeOK
    <3> QED BY <2>1, <3>1 DEF logBar
  <2>5. logBar' = [i \in 1..Len(wire) + 1 |-> IF i = Len(wire) + 1 THEN payload[a] ELSE logBar[i]]
    BY <2>1, <2>2, <2>3 DEF logBar
  <2> QED BY <1>3, <2>1, <2>4, <2>5
<1> QED BY <1>3, <1>4, <1>5, <1>6 DEF O!Enter

\* A receipt of the unresolved attempt frees the slot, a second receipt of one
\* already settled changes nothing.
LEMMA ReceiptSettles ==
  ASSUME IInv, NEW s \in Senders,
         ContinuityAbort(s) \/ DriverRefuses(s) \/ Confirm(s) \/ ReconcileProves(s)
  PROVE  O!Settle \/ UNCHANGED <<logBar, slotBar>>
<1>1. UNCHANGED <<payload, wire>> /\ Unresolved' = Unresolved \ {cur[s]}
  BY DEF ContinuityAbort, DriverRefuses, Confirm, ReconcileProves, page, Unresolved, Started
<1>2. logBar' = logBar
  BY <1>1, SameLog
<1>3. CASE cur[s] \in Unresolved
  <2>1. slotBar # None
    BY <1>3, SlotBar
  <2>2. Unresolved' = {}
    BY <1>1, <1>3 DEF IInv, SingleUnresolved
  <2>3. slotBar' = None
    BY <2>2 DEF slotBar
  <2> QED BY <1>2, <2>1, <2>3 DEF O!Settle
<1>4. CASE cur[s] \notin Unresolved
  <2> DEFINE Slot(U, p) == IF U = {} THEN None ELSE p[CHOOSE a \in U : TRUE]
  <2>1. Unresolved' = Unresolved /\ payload' = payload
    BY <1>1, <1>4
  <2>2. slotBar = Slot(Unresolved, payload) /\ slotBar' = Slot(Unresolved', payload')
    BY DEF slotBar
  <2> HIDE DEF Slot
  <2>3. slotBar' = slotBar
    BY <2>1, <2>2
  <2> QED BY <1>2, <2>3
<1> QED BY <1>3, <1>4

\* Every step of the journal is a step of the outbox or a stutter.
LEMMA StepRefines ==
  ASSUME IInv, IInv', [Next]_vars
  PROVE  [O!Next]_<<logBar, slotBar>>
<1>1. ASSUME UNCHANGED <<payload, aborted, delivered, wire>>
      PROVE  UNCHANGED <<logBar, slotBar>>
  BY <1>1 DEF logBar, slotBar, Unresolved, Started
<1>2. ASSUME NEW s \in Senders, Reserve(s) PROVE O!Next
  BY <1>2, ReserveOpens DEF O!Next
<1>3. ASSUME NEW a \in Attempts, Land(a) PROVE O!Next
  BY <1>3, LandEnters DEF O!Next
<1>4. ASSUME NEW s \in Senders,
             ContinuityAbort(s) \/ DriverRefuses(s) \/ Confirm(s) \/ ReconcileProves(s)
      PROVE  O!Next \/ UNCHANGED <<logBar, slotBar>>
  BY <1>4, ReceiptSettles DEF O!Next
<1>5. ASSUME NEW s \in Senders,
             \/ \E m \in Messages : Checkpoint(s, m)
             \/ ReserveRefused(s) \/ PreSendFails(s) \/ DriverGivesUp(s) \/ Click(s)
             \/ ReconcileStart(s) \/ ReconcileFails(s) \/ NewRuntime(s)
      PROVE  UNCHANGED <<payload, aborted, delivered, wire>>
  BY <1>5 DEF Checkpoint, ReserveRefused, PreSendFails, DriverGivesUp, Click,
     ReconcileStart, ReconcileFails, NewRuntime, journal, page
<1>6. ASSUME \/ \E a \in Attempts : Vanish(a)
             \/ OtherMessage \/ UNCHANGED vars
      PROVE  UNCHANGED <<payload, aborted, delivered, wire>>
  BY <1>6 DEF Vanish, OtherMessage, vars, journal, page
<1> QED BY <1>1, <1>2, <1>3, <1>4, <1>5, <1>6 DEF Next

\* An empty journal is an empty outbox.
LEMMA InitRefines == Init => O!Init
<1> SUFFICES ASSUME Init PROVE O!Init
  OBVIOUS
<1>1. logBar = <<>>
  BY DEF Init, logBar
<1>2. Unresolved = {}
  BY DEF Init, Unresolved, Started
<1> QED BY <1>1, <1>2 DEF O!Init, slotBar

\* The write-ahead journal of a mission implements the outbox, whoever sends.
THEOREM ImplementsOutbox == Spec => OutboxSpec
<1>1. IInv /\ IInv' /\ [Next]_vars => [O!Next]_<<logBar, slotBar>>
  BY StepRefines
<1> QED BY <1>1, InitRefines, Invariance, PTL DEF Spec, OutboxSpec, O!Spec
==============================================================================
