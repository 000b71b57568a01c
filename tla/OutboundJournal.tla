--------------------------- MODULE OutboundJournal ---------------------------
(***************************************************************************)
(* How one mission puts messages into its ChatGPT conversation: the        *)
(* write-ahead reservation of orchestration/store.py (reserve_outbound),   *)
(* the send and its confirmation in transport/chatgpt_web/adapter.py, and  *)
(* the receipts and reconciliation of orchestration/runner.py              *)
(* (TransportOrchestratorClient).                                          *)
(*                                                                         *)
(* A sender is a runtime that shares the mission's database: the mission   *)
(* task of the console, the one rebuilt by a resume or a restart, or the   *)
(* native host (orchestration/native_journal.py, prepare and confirm).     *)
(* A message stands for its SHA-256 digest; an attempt for its send_id, a  *)
(* fresh UUID that is written at the end of the message and is visible on  *)
(* the page.  The page and the Chrome extension are the environment: a     *)
(* click handed to the extension may land at once, much later, or never.   *)
(***************************************************************************)
EXTENDS Sequences, Naturals, FiniteSets

CONSTANTS Senders, Messages, Attempts, None,
  MaxHeight     \* bound: messages on the page that others may add

ASSUME NoneAssumption == None \notin Messages /\ None \notin Attempts
ASSUME HeightAssumption == MaxHeight \in Nat
ASSUME AttemptsAssumption == IsFiniteSet(Attempts)

VARIABLES
  payload,    \* MESSAGE_SEND_STARTED rows: attempt -> message, None when absent
  anchor,     \* the checkpoint stored with the attempt: messages on the page
  last,       \* the last attempt of each message, in row order
  aborted,    \* attempts with a MESSAGE_SEND_ABORTED row
  delivered,  \* attempts with a MESSAGE_DELIVERED row
  pc, job, cur, mark,  \* each sender: step, message, attempt, checkpoint it saw
  uncertain,  \* senders whose transport has delivery_uncertain (and is paused)
  height,     \* messages on the page
  wire,       \* the attempts on the page, in the order they appeared
  inflight    \* clicks the extension has been asked for and has not done

journal == <<payload, anchor, last, aborted, delivered>>
page == <<height, wire, inflight>>
vars == <<journal, pc, job, cur, mark, uncertain, page>>

PCs == {"idle", "anchored", "reserved", "sent", "reconciling"}

TypeOK ==
  /\ payload \in [Attempts -> Messages \cup {None}]
  /\ anchor \in [Attempts -> Nat]
  /\ last \in [Messages -> Attempts \cup {None}]
  /\ aborted \subseteq Attempts /\ delivered \subseteq Attempts
  /\ pc \in [Senders -> PCs]
  /\ job \in [Senders -> Messages \cup {None}]
  /\ cur \in [Senders -> Attempts \cup {None}]
  /\ mark \in [Senders -> Nat]
  /\ uncertain \subseteq Senders
  /\ height \in Nat
  /\ wire \in Seq(Attempts)
  /\ inflight \subseteq Attempts

Init ==
  /\ payload = [a \in Attempts |-> None]
  /\ anchor = [a \in Attempts |-> 0]
  /\ last = [m \in Messages |-> None]
  /\ aborted = {} /\ delivered = {}
  /\ pc = [s \in Senders |-> "idle"]
  /\ job = [s \in Senders |-> None]
  /\ cur = [s \in Senders |-> None]
  /\ mark = [s \in Senders |-> 0]
  /\ uncertain = {}
  /\ height \in 0..1        \* a new chat, or a conversation with a head to anchor on
  /\ wire = <<>>
  /\ inflight = {}

OnPage(a) == \E i \in 1..Len(wire) : wire[i] = a

-----------------------------------------------------------------------------
(* The journal                                                             *)

Started == {a \in Attempts : payload[a] # None}
Unresolved == Started \ (aborted \cup delivered)

\* Mutant of MayReserve: only an unresolved attempt of the same message blocks.
MutMayReserveOther(m) == last[m] # None => last[m] \in aborted \ delivered

\* Mutant of MayReserve: a confirmed message may be sent again.
MutMayReserveAgain(m) == Unresolved = {}

\* reserve_outbound, inside BEGIN IMMEDIATE: nothing is unresolved, and this
\* message was never tried or its last attempt was aborted before delivery.
MayReserve(m) ==
  /\ Unresolved = {}
  /\ last[m] # None => last[m] \in aborted \ delivered

-----------------------------------------------------------------------------
(* next_decision: checkpoint, reserve, send, confirm                       *)

\* outbound_checkpoint: refused by a transport that is uncertain or paused.
Checkpoint(s, m) ==
  /\ pc[s] = "idle" /\ s \notin uncertain
  /\ pc' = [pc EXCEPT ![s] = "anchored"]
  /\ job' = [job EXCEPT ![s] = m]
  /\ mark' = [mark EXCEPT ![s] = height]
  /\ UNCHANGED <<journal, cur, uncertain, page>>

\* The reservation is durable before the transport has any effect; a refused
\* one is raised as DELIVERY_UNCERTAIN and pauses the mission.
Reserve(s) ==
  /\ pc[s] = "anchored"
  /\ MayReserve(job[s])
  /\ \E a \in Attempts \ Started :
       /\ payload' = [payload EXCEPT ![a] = job[s]]
       /\ anchor' = [anchor EXCEPT ![a] = mark[s]]
       /\ last' = [last EXCEPT ![job[s]] = a]
       /\ cur' = [cur EXCEPT ![s] = a]
  /\ pc' = [pc EXCEPT ![s] = "reserved"]
  /\ UNCHANGED <<aborted, delivered, job, mark, uncertain, page>>

ReserveRefused(s) ==
  /\ pc[s] = "anchored" /\ ~MayReserve(job[s])
  /\ pc' = [pc EXCEPT ![s] = "idle"]
  /\ UNCHANGED <<journal, job, cur, mark, uncertain, page>>

\* verify_lock, _state or the wait for the end of a stream raises: the code is
\* not a pre-delivery code, so no receipt is written and the mission pauses.
PreSendFails(s) ==
  /\ pc[s] = "reserved"
  /\ pc' = [pc EXCEPT ![s] = "idle"]
  /\ UNCHANGED <<journal, job, cur, mark, uncertain, page>>

\* PRE_DELIVERY_CONTINUITY_CHANGED, with delivery = not_attempted.
ContinuityAbort(s) ==
  /\ pc[s] = "reserved" /\ height # mark[s]
  /\ aborted' = aborted \cup {cur[s]}
  /\ pc' = [pc EXCEPT ![s] = "idle"]
  /\ UNCHANGED <<payload, anchor, last, delivered, job, cur, mark, uncertain, page>>

\* driver.send_message: the extension is asked to type and click.
Click(s) ==
  /\ pc[s] = "reserved" /\ height = mark[s]
  /\ inflight' = inflight \cup {cur[s]}
  /\ pc' = [pc EXCEPT ![s] = "sent"]
  /\ UNCHANGED <<journal, job, cur, mark, uncertain, height, wire>>

\* A definitive pre-delivery refusal (DEFINITIVE_PRE_DELIVERY_CODES): the
\* extension reports that it did not and will not click.
DriverRefuses(s) ==
  /\ pc[s] = "sent" /\ cur[s] \in inflight
  /\ inflight' = inflight \ {cur[s]}
  /\ aborted' = aborted \cup {cur[s]}
  /\ pc' = [pc EXCEPT ![s] = "idle"]
  /\ UNCHANGED <<payload, anchor, last, delivered, job, cur, mark, uncertain, height, wire>>

\* Mutant of DriverGivesUp: an uncertain send is recorded as aborted.
MutDriverGivesUp(s) ==
  /\ pc[s] = "sent"
  /\ aborted' = aborted \cup {cur[s]}
  /\ pc' = [pc EXCEPT ![s] = "idle"]
  /\ UNCHANGED <<payload, anchor, last, delivered, job, cur, mark, uncertain, page>>

\* Any other driver error, an unreadable page, or no visible user message
\* within the deadline: whether the click landed or will land is not known.
DriverGivesUp(s) ==
  /\ pc[s] = "sent"
  /\ uncertain' = uncertain \cup {s}
  /\ pc' = [pc EXCEPT ![s] = "idle"]
  /\ UNCHANGED <<journal, job, cur, mark, page>>

\* Mutant of Confirm: the answer of the driver is taken for the proof.
MutConfirm(s) ==
  /\ pc[s] = "sent"
  /\ delivered' = delivered \cup {cur[s]}
  /\ pc' = [pc EXCEPT ![s] = "idle"]
  /\ UNCHANGED <<payload, anchor, last, aborted, job, cur, mark, uncertain, page>>

\* Mutant of Confirm: the receipt names the message instead of the attempt.
MutConfirmMessage(s) ==
  /\ pc[s] = "sent" /\ OnPage(cur[s])
  /\ delivered' = delivered \cup {job[s]}
  /\ pc' = [pc EXCEPT ![s] = "idle"]
  /\ UNCHANGED <<payload, anchor, last, aborted, job, cur, mark, uncertain, page>>

\* The marker of the attempt is visible in a new user message.
Confirm(s) ==
  /\ pc[s] = "sent" /\ OnPage(cur[s])
  /\ delivered' = delivered \cup {cur[s]}
  /\ pc' = [pc EXCEPT ![s] = "idle"]
  /\ UNCHANGED <<payload, anchor, last, aborted, job, cur, mark, uncertain, page>>

-----------------------------------------------------------------------------
(* reconcile_pending: read-only, on every resume                           *)

ReconcileStart(s) ==
  /\ pc[s] = "idle"
  /\ \E a \in Unresolved : cur' = [cur EXCEPT ![s] = a]
  /\ pc' = [pc EXCEPT ![s] = "reconciling"]
  /\ UNCHANGED <<journal, job, mark, uncertain, page>>

\* Two equal snapshots show the marker once, after the anchor of the
\* checkpoint; an attempt made in a chat without messages has no anchor.
ReconcileProves(s) ==
  /\ pc[s] = "reconciling" /\ OnPage(cur[s]) /\ anchor[cur[s]] > 0
  /\ delivered' = delivered \cup {cur[s]}
  /\ pc' = [pc EXCEPT ![s] = "idle"]
  /\ UNCHANGED <<payload, anchor, last, aborted, job, cur, mark, uncertain, page>>

\* A missing receipt proves nothing: the mission pauses again.
ReconcileFails(s) ==
  /\ pc[s] = "reconciling"
  /\ pc' = [pc EXCEPT ![s] = "idle"]
  /\ UNCHANGED <<journal, job, cur, mark, uncertain, page>>

\* The process is killed, or a resume builds a runtime with a new transport:
\* what was in memory is gone, the click already asked for is not.
NewRuntime(s) ==
  /\ pc[s] # "idle" \/ s \in uncertain
  /\ pc' = [pc EXCEPT ![s] = "idle"]
  /\ uncertain' = uncertain \ {s}
  /\ UNCHANGED <<journal, job, cur, mark, page>>

-----------------------------------------------------------------------------
(* The page and the extension (environment)                                *)

Land(a) ==
  /\ a \in inflight
  /\ inflight' = inflight \ {a}
  /\ wire' = Append(wire, a)
  /\ height' = height + 1
  /\ UNCHANGED <<journal, pc, job, cur, mark, uncertain>>

Vanish(a) ==
  /\ a \in inflight
  /\ inflight' = inflight \ {a}
  /\ UNCHANGED <<journal, pc, job, cur, mark, uncertain, height, wire>>

\* ChatGPT answers, or the user types in the page.
OtherMessage ==
  /\ height < MaxHeight
  /\ height' = height + 1
  /\ UNCHANGED <<journal, pc, job, cur, mark, uncertain, wire, inflight>>

-----------------------------------------------------------------------------
Next ==
  \/ \E s \in Senders :
       \/ \E m \in Messages : Checkpoint(s, m)
       \/ Reserve(s) \/ ReserveRefused(s)
       \/ PreSendFails(s) \/ ContinuityAbort(s) \/ Click(s)
       \/ DriverRefuses(s) \/ DriverGivesUp(s) \/ Confirm(s)
       \/ ReconcileStart(s) \/ ReconcileProves(s) \/ ReconcileFails(s)
       \/ NewRuntime(s)
  \/ \E a \in Attempts : Land(a) \/ Vanish(a)
  \/ OtherMessage

Spec == Init /\ [][Next]_vars

-----------------------------------------------------------------------------
(* Properties                                                              *)

\* At most one attempt of the mission has an unknown fate, whoever sends:
\* unresolved_outbound never meets "multiple unresolved sends".
SingleUnresolved == \A a, b \in Unresolved : a = b

\* No message is in the conversation twice, whatever crashes, late clicks and
\* competing senders do ("never retried automatically",
\* docs/chatgpt-web-transport.md:57).
AtMostOnce ==
  \A i, j \in 1..Len(wire) : payload[wire[i]] = payload[wire[j]] => i = j

\* Receipts tell the truth: a delivered attempt is on the page, an aborted one
\* is not and never will be.
ReceiptsTruthful ==
  /\ \A a \in delivered : OnPage(a)
  /\ \A a \in aborted : ~OnPage(a) /\ a \notin inflight

\* The extension is never asked to click while the fate of another attempt
\* is unknown.
NoBlindClick ==
  [][\A a \in inflight' \ inflight : Unresolved \subseteq {a}]_vars

\* The abstract outbox: what the conversation shows, and the unsettled message.
logBar == [i \in 1..Len(wire) |-> payload[wire[i]]]
slotBar == IF Unresolved = {} THEN None ELSE payload[CHOOSE a \in Unresolved : TRUE]

O == INSTANCE Outbox WITH log <- logBar, slot <- slotBar
OutboxSpec == O!Spec
==============================================================================
