------------------------------- MODULE Outbox --------------------------------
(***************************************************************************)
(* What the outbound journal of a mission promises, without the journal:   *)
(* messages enter the ChatGPT conversation one at a time, and no message   *)
(* enters it twice ("No automatic resend when delivery is uncertain",      *)
(* README.md:67).  OutboundJournal implements this specification.          *)
(***************************************************************************)
EXTENDS Sequences, Naturals

CONSTANTS Messages, None

VARIABLES
  log,   \* the mission's messages in the conversation, in order
  slot   \* the message whose fate is not settled yet, or None

InLog(m) == \E i \in 1..Len(log) : log[i] = m

Init == log = <<>> /\ slot = None

\* A message that is not in the conversation takes the only slot.
Open == \E m \in Messages :
  /\ slot = None /\ ~InLog(m)
  /\ slot' = m /\ UNCHANGED log

\* It enters the conversation, at most once.
Enter ==
  /\ slot # None /\ ~InLog(slot)
  /\ log' = Append(log, slot) /\ UNCHANGED slot

\* Its fate is known: proven delivered, or proven never sent.
Settle ==
  /\ slot # None
  /\ slot' = None /\ UNCHANGED log

Next == Open \/ Enter \/ Settle
Spec == Init /\ [][Next]_<<log, slot>>

\* No message is in the conversation twice.
NoDuplicate == \A i, j \in 1..Len(log) : log[i] = log[j] => i = j
==============================================================================
