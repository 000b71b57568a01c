--------------------------- MODULE SessionRegistry ---------------------------
(***************************************************************************)
(* The writer leases of the Cortex console: ConversationSessionRegistry of *)
(* console/conversation_sessions.py, with the two kinds of writers that    *)
(* use it (chat runs of console/chat.py, missions of console/missions.py). *)
(*                                                                         *)
(* A client is one writer: one chat run or one mission.  It takes at most  *)
(* one lease in its life, so a lease token is named by its owner, and a    *)
(* session id by the client whose acquire_writer created the session.      *)
(* A key is a ChatGPT conversation, or a provisional key: the UUID of a    *)
(* chat that has no canonical URL yet, named by the client it was made for.*)
(*                                                                         *)
(* Nothing awaits while asyncio.Condition is held, except wait() itself,   *)
(* which releases it: every body is one atomic step, up to a wait.         *)
(***************************************************************************)
EXTENDS Naturals, FiniteSets

CONSTANTS
  Clients,      \* chat runs and missions
  Convs,        \* ChatGPT conversations, by canonical URL
  KnownConvs,   \* the conversations that exist at the start
  Capacity,     \* MAX_WRITE_CONVERSATIONS
  None,
  MaxRestarts   \* bound: backend restarts in a behaviour

ASSUME CapacityAssumption == Capacity \in Nat \ {0}
ASSUME RestartsAssumption == MaxRestarts \in Nat
ASSUME ConvsAssumption == KnownConvs \subseteq Convs /\ Convs \cap Clients = {}
ASSUME ClientsAssumption == IsFiniteSet(Clients)
Keys == Convs \cup Clients
Durable == [key : Keys, session : Clients]

ASSUME NoneAssumption == None \notin Keys \cup Durable

VARIABLES
  open,      \* session ids of the entries of _states
  sess,      \* _SessionState of each id: key, holder of the lease, waiters
  aliases,   \* provisional key -> canonical key, None when absent
  pc,        \* where each writer is in its life
  waitsFor,  \* the session a waiting writer has a reference to
  awake,     \* waiters that notify_all() has woken since they last slept
  leaseKey,  \* conversation_key of the lease object a writer holds
  released,  \* lease tokens whose released flag is set
  durable,   \* the persisted, non-terminal writer: its key and session
  conv,      \* the ChatGPT conversation a writer really types into
  exists,    \* conversations that exist in ChatGPT
  restarts

registry == <<open, sess, aliases, waitsFor, awake, leaseKey, released>>
vars == <<registry, pc, durable, conv, exists, restarts>>

PCs == {"idle", "waiting", "writing", "restored", "closing", "done", "lost"}
Session == [key : Keys, holder : Clients \cup {None}, waiters : Nat]

TypeOK ==
  /\ open \subseteq Clients
  /\ sess \in [Clients -> Session]
  /\ aliases \in [Clients -> Convs \cup {None}]
  /\ pc \in [Clients -> PCs]
  /\ waitsFor \in [Clients -> Clients]
  /\ awake \subseteq Clients
  /\ leaseKey \in [Clients -> Keys]
  /\ released \subseteq Clients
  /\ durable \in [Clients -> Durable \cup {None}]
  /\ conv \in [Clients -> Convs \cup {None}]
  /\ exists \subseteq Convs
  /\ restarts \in 0..MaxRestarts

Init ==
  /\ open = {}
  /\ sess = [s \in Clients |-> [key |-> s, holder |-> None, waiters |-> 0]]
  /\ aliases = [c \in Clients |-> None]
  /\ pc = [c \in Clients |-> "idle"]
  /\ waitsFor = [c \in Clients |-> c]
  /\ awake = {}
  /\ leaseKey = [c \in Clients |-> c]
  /\ released = {}
  /\ durable = [c \in Clients |-> None]
  /\ conv = [c \in Clients |-> None]
  /\ exists = KnownConvs
  /\ restarts = 0

-----------------------------------------------------------------------------
(* Helpers of the registry                                                 *)

Provisional(k) == k \in Clients

\* Aliases lead from a provisional key to a canonical one, and a canonical key
\* is never an alias: the loop of _resolve takes at most one step.
Resolve(k) ==
  IF Provisional(k) /\ aliases[k] # None THEN aliases[k] ELSE k

SessionsAt(k) == {s \in open : sess[s].key = k}
Held(s) == sess[s].holder # None
Waiters(s) == {c \in Clients : pc[c] = "waiting" /\ waitsFor[c] = s}

\* Mutant of DiscardUnheld: the entry of a session nobody uses stays.
MutKeepUnheld(s, after) == UNCHANGED <<open, aliases>>

\* Mutant of DiscardUnheld: the aliases of the dropped session stay.
MutKeepAliases(s, after) ==
  IF after[s].holder # None \/ after[s].waiters > 0
  THEN UNCHANGED <<open, aliases>>
  ELSE open' = open \ {s} /\ UNCHANGED aliases

\* _discard_unheld on session s, given the sessions as they are after the step.
DiscardUnheld(s, after) ==
  IF after[s].holder # None \/ after[s].waiters > 0
  THEN UNCHANGED <<open, aliases>>
  ELSE /\ open' = open \ {s}
       /\ aliases' = [k \in Clients |-> IF aliases[k] = after[s].key THEN None ELSE aliases[k]]

\* held = True and a fresh current lease for client c, persisted with the
\* writer in the same turn of the event loop.
TakeLease(c, s) ==
  /\ leaseKey' = [leaseKey EXCEPT ![c] = sess'[s].key]
  /\ durable' = [durable EXCEPT ![c] = [key |-> sess'[s].key, session |-> s]]
  /\ conv' = [conv EXCEPT ![c] = IF Provisional(sess'[s].key) THEN None ELSE sess'[s].key]
  /\ pc' = [pc EXCEPT ![c] = "writing"]

-----------------------------------------------------------------------------
(* acquire_writer                                                          *)

\* Mutant of SlotFree: off by one at the limit.
MutSlotFree == Cardinality(open) <= Capacity

SlotFree == Cardinality(open) < Capacity

\* restore_writer finds a slot for a persisted writer.
CanRestore(c) ==
  /\ durable[c] # None
  /\ SessionsAt(Resolve(durable[c].key)) = {}
  /\ SlotFree

\* Whatever can be restored is restored before new work is admitted.
AdmissionOpen == \A c \in Clients : pc[c] = "lost" => ~CanRestore(c)

\* A key with no session: a new one, unless both slots are taken.
AcquireNew(c, k) ==
  /\ pc[c] = "idle" /\ AdmissionOpen
  /\ SessionsAt(Resolve(k)) = {}
  /\ IF ~SlotFree
     THEN /\ pc' = [pc EXCEPT ![c] = "done"]       \* SessionCapacityError
          /\ UNCHANGED <<registry, durable, conv>>
     ELSE /\ open' = open \cup {c}
          /\ sess' = [sess EXCEPT ![c] = [key |-> Resolve(k), holder |-> c, waiters |-> 0]]
          /\ TakeLease(c, c)
          /\ UNCHANGED <<aliases, waitsFor, awake, released>>
  /\ UNCHANGED <<exists, restarts>>

\* The session is there and nobody holds it.
AcquireFree(c, k) ==
  /\ pc[c] = "idle" /\ AdmissionOpen
  /\ \E s \in SessionsAt(Resolve(k)) :
       /\ ~Held(s)
       /\ sess' = [sess EXCEPT ![s].holder = c]
       /\ TakeLease(c, s)
  /\ UNCHANGED <<open, aliases, waitsFor, awake, released, exists, restarts>>

\* The session is held: sleep on the condition.
AcquireWait(c, k) ==
  /\ pc[c] = "idle" /\ AdmissionOpen
  /\ \E s \in SessionsAt(Resolve(k)) :
       /\ Held(s)
       /\ sess' = [sess EXCEPT ![s].waiters = @ + 1]
       /\ waitsFor' = [waitsFor EXCEPT ![c] = s]
  /\ pc' = [pc EXCEPT ![c] = "waiting"]
  /\ awake' = awake \ {c}
  /\ UNCHANGED <<open, aliases, leaseKey, released, durable, conv, exists, restarts>>

\* A woken waiter re-checks `while state.held`.
WakeAndTake(c) ==
  /\ pc[c] = "waiting" /\ c \in awake /\ ~Held(waitsFor[c])
  /\ LET s == waitsFor[c] IN
       /\ sess' = [sess EXCEPT ![s] = [@ EXCEPT !.holder = c, !.waiters = sess[s].waiters - 1]]
       /\ TakeLease(c, s)
  /\ awake' = awake \ {c}
  /\ UNCHANGED <<open, aliases, waitsFor, released, exists, restarts>>

WakeAndSleep(c) ==
  /\ pc[c] = "waiting" /\ c \in awake /\ Held(waitsFor[c])
  /\ awake' = awake \ {c}
  /\ UNCHANGED <<open, sess, aliases, waitsFor, leaseKey, released,
                 pc, durable, conv, exists, restarts>>

\* Mutant of CancelWait: the counter goes down in the handler and once more.
MutCancelWait(c) ==
  /\ pc[c] = "waiting"
  /\ LET s == waitsFor[c]
         after == [sess EXCEPT ![s].waiters = @ - 2]
     IN  sess' = after /\ DiscardUnheld(s, after)
  /\ pc' = [pc EXCEPT ![c] = "done"]
  /\ awake' = {d \in Clients : d # c /\ pc[d] = "waiting"}
  /\ UNCHANGED <<waitsFor, leaseKey, released, durable, conv, exists, restarts>>

\* CancelledError while waiting.
CancelWait(c) ==
  /\ pc[c] = "waiting"
  /\ LET s == waitsFor[c]
         after == [sess EXCEPT ![s].waiters = @ - 1]
     IN  /\ sess' = after
         /\ DiscardUnheld(s, after)
  /\ pc' = [pc EXCEPT ![c] = "done"]
  /\ awake' = {d \in Clients : d # c /\ pc[d] = "waiting"}
  /\ UNCHANGED <<waitsFor, leaseKey, released, durable, conv, exists, restarts>>

-----------------------------------------------------------------------------
(* rekey                                                                   *)

\* ChatGPT gives a new chat its canonical URL once a message was sent in it.
AssignConversation(c) ==
  /\ pc[c] \in {"writing", "restored"} /\ conv[c] = None
  /\ \E v \in Convs \ exists :
       /\ conv' = [conv EXCEPT ![c] = v]
       /\ exists' = exists \cup {v}
  /\ UNCHANGED <<registry, pc, durable, restarts>>

\* Mutant of Collision: an active canonical writer is overwritten.
MutCollision(new, mine) == FALSE

\* Another writer is active under the canonical key.
Collision(new, mine) == SessionsAt(new) \ mine # {}

\* The writer moves its provisional session onto the canonical key.  A resumed
\* mission never does: only _run_mission_task and _run_chat call rekey.
Rekey(c) ==
  /\ pc[c] = "writing" /\ Provisional(leaseKey[c]) /\ conv[c] # None
  /\ LET new == conv[c]
         mine == SessionsAt(Resolve(leaseKey[c]))
     IN  IF Collision(new, mine)
         THEN /\ pc' = [pc EXCEPT ![c] = "closing"]     \* SessionRekeyError: the writer fails
              /\ durable' = [durable EXCEPT ![c] = None]
              /\ UNCHANGED registry
         ELSE /\ sess' = [s \in Clients |-> IF s \in mine THEN [sess[s] EXCEPT !.key = new] ELSE sess[s]]
              /\ aliases' = [aliases EXCEPT ![leaseKey[c]] = new]
              /\ leaseKey' = [leaseKey EXCEPT ![c] = new]
              /\ durable' = [durable EXCEPT ![c].key = new]
              /\ UNCHANGED <<open, waitsFor, awake, released, pc>>
  /\ UNCHANGED <<conv, exists, restarts>>

-----------------------------------------------------------------------------
(* release                                                                 *)

\* Mutant of Finish: the terminal state is not persisted before the release.
MutFinish(c) ==
  /\ pc[c] \in {"writing", "restored"}
  /\ pc' = [pc EXCEPT ![c] = "closing"]
  /\ UNCHANGED <<registry, durable, conv, exists, restarts>>

\* A terminal state is persisted before the lease is given back.
Finish(c) ==
  /\ pc[c] \in {"writing", "restored"}
  /\ pc' = [pc EXCEPT ![c] = "closing"]
  /\ durable' = [durable EXCEPT ![c] = None]
  /\ UNCHANGED <<registry, conv, exists, restarts>>

\* Mutant of Owned: a release by key, whoever holds the session.
MutOwned(c) == {s \in SessionsAt(Resolve(leaseKey[c])) : Held(s)}

\* SessionLease.release, then _release: the session the lease's key leads to,
\* if the token is not released yet and is the one that holds it.
Owned(c) == {s \in SessionsAt(Resolve(leaseKey[c])) : c \notin released /\ sess[s].holder = c}

\* Mutant of GiveBack: the waiters are not notified.
MutGiveBack(c, s) ==
  /\ LET after == [sess EXCEPT ![s].holder = None]
     IN  sess' = after /\ DiscardUnheld(s, after)
  /\ released' = released \cup {c}
  /\ UNCHANGED <<waitsFor, awake, leaseKey>>

GiveBack(c, s) ==
  /\ LET after == [sess EXCEPT ![s].holder = None]
     IN  sess' = after /\ DiscardUnheld(s, after)
  /\ released' = released \cup {c}
  /\ awake' = {d \in Clients : pc[d] = "waiting"}
  /\ UNCHANGED <<waitsFor, leaseKey>>

\* Called by the writer's own task, and again by a cancel request that finds
\* the run terminal (chat.py cancel_chat_run).
Release(c) ==
  /\ pc[c] \in {"closing", "done"}
  /\ IF Owned(c) = {} THEN UNCHANGED registry ELSE \E s \in Owned(c) : GiveBack(c, s)
  /\ pc' = [pc EXCEPT ![c] = "done"]
  /\ UNCHANGED <<durable, conv, exists, restarts>>

-----------------------------------------------------------------------------
(* Restart of the backend                                                  *)

\* The registry is memory: everything but the persisted writers is gone.
Restart ==
  /\ restarts < MaxRestarts
  /\ restarts' = restarts + 1
  /\ open' = {} /\ awake' = {} /\ released' = {}
  /\ aliases' = [c \in Clients |-> None]
  /\ sess' = [s \in Clients |-> [key |-> s, holder |-> None, waiters |-> 0]]
  /\ waitsFor' = [c \in Clients |-> c]
  /\ pc' = [c \in Clients |-> IF durable[c] # None THEN "lost"
                              ELSE IF pc[c] = "idle" THEN "idle" ELSE "done"]
  /\ UNCHANGED <<leaseKey, durable, conv, exists>>

\* restore_writer for a persisted, non-terminal writer.
Restore(c) ==
  /\ pc[c] = "lost" /\ CanRestore(c)
  /\ LET k == Resolve(durable[c].key)
         s == durable[c].session
     IN  /\ open' = open \cup {s}
         /\ sess' = [sess EXCEPT ![s] = [key |-> k, holder |-> c, waiters |-> 0]]
         /\ leaseKey' = [leaseKey EXCEPT ![c] = k]
  /\ pc' = [pc EXCEPT ![c] = "restored"]
  /\ UNCHANGED <<aliases, waitsFor, awake, released, durable, conv, exists, restarts>>

-----------------------------------------------------------------------------
\* A user writes into a conversation that exists, or asks for a new chat.
AcquireAny(c) ==
  \E k \in exists \cup {c} : AcquireNew(c, k) \/ AcquireFree(c, k) \/ AcquireWait(c, k)

Next ==
  \/ \E c \in Clients :
       \/ AcquireAny(c) \/ WakeAndTake(c) \/ WakeAndSleep(c) \/ CancelWait(c)
       \/ AssignConversation(c) \/ Rekey(c) \/ Finish(c) \/ Release(c) \/ Restore(c)
  \/ Restart

Spec == Init /\ [][Next]_vars

\* The event loop runs every woken waiter; a writer that has finished gives
\* its lease back (the `finally` of its task).  Nothing makes a user act.
Fairness == \A c \in Clients :
  /\ WF_vars(WakeAndTake(c) \/ WakeAndSleep(c))
  /\ WF_vars(pc[c] = "closing" /\ Release(c))

FairSpec == Spec /\ Fairness

-----------------------------------------------------------------------------
(* Properties                                                              *)

Holds(c) == pc[c] \in {"writing", "restored", "closing"}

\* Two writer sessions at most: a third conversation is refused
\* (docs/chatgpt-web-transport.md:48, MAX_WRITE_CONVERSATIONS).
CapacityRespected == Cardinality(open) <= Capacity

\* A lease stays valid until its own writer releases it: whatever others do
\* (stale releases, rekeys, waits, cancellations), a writer that believes it
\* holds the slot does, under the key its lease carries.
LeaseValid ==
  \A c \in Clients : Holds(c) =>
    \E s \in open : sess[s].holder = c /\ sess[s].key = Resolve(leaseKey[c])

\* One dict entry per conversation key: no two sessions answer to one key.
OneSessionPerKey ==
  \A s, t \in open : sess[s].key = sess[t].key => s = t

\* No slot leaks: a session exists only while a live writer holds it or
\* somebody waits for it, and its counter is the number of its waiters.
NoSlotLeak ==
  /\ \A s \in open : \/ sess[s].holder # None /\ Holds(sess[s].holder)
                     \/ sess[s].waiters > 0
  /\ \A s \in open : sess[s].waiters = Cardinality(Waiters(s))

\* An alias leads to a live session: a finished conversation leaves nothing
\* behind that could capture a later writer.
AliasesLive ==
  \A k \in Clients : aliases[k] # None => SessionsAt(aliases[k]) # {}

\* "restart recovery reconstructs writer slots from persisted non-terminal
\* missions" (docs/v0.5.0-design.md:277): no persisted writer is refused.
RestoreNeverRefused ==
  \A c \in Clients : pc[c] = "lost" => CanRestore(c)

\* No lost wake-up: a free session somebody waits for is taken or dropped.
FreeSessionServed ==
  \A s \in Clients : (s \in open /\ ~Held(s)) ~> (s \notin open \/ Held(s))

\* docs/v0.5.0-design.md:272, "the same conversation cannot have two writers".
OneWriterPerConversation ==
  \A c, d \in Clients :
    c # d /\ pc[c] = "writing" /\ pc[d] = "writing" /\ conv[c] # None => conv[c] # conv[d]
=============================================================================
