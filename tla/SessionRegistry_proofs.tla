----------------------- MODULE SessionRegistry_proofs ------------------------
(***************************************************************************)
(* Proofs about SessionRegistry, for any number of writers, conversations, *)
(* slots and restarts: type correctness, valid leases, one session per     *)
(* key, no slot or alias left behind, the capacity, and that a restart     *)
(* never refuses a persisted writer.                                       *)
(***************************************************************************)
EXTENDS SessionRegistry, FiniteSetTheorems, TLAPS

Lost == {c \in Clients : pc[c] = "lost"}

\* The sessions that live writers hold a slot with, and those a restart has to
\* bring back.
Reserved == open \cup {durable[c].session : c \in Lost}

\* The holder of a session is a writer at work, whose lease has the session's key.
HolderWorks ==
  \A s \in open : Held(s) =>
    /\ Holds(sess[s].holder)
    /\ leaseKey[sess[s].holder] = sess[s].key

\* A lease is not released before its writer is done.
Unreleased == \A c \in Clients : pc[c] # "done" => c \notin released

\* A writer at work holds a session.
WorkerHolds == \A c \in Clients : Holds(c) => \E s \in open : sess[s].holder = c

\* The key of a session is never an alias.
KeysCanonical == \A s \in open : Resolve(sess[s].key) = sess[s].key

\* Waiters wait for a session that is there, which counts them.
WaitersCounted ==
  /\ \A c \in Clients : pc[c] = "waiting" => waitsFor[c] \in open
  /\ \A s \in open : sess[s].waiters = Cardinality(Waiters(s))
  /\ \A s \in open : Held(s) \/ sess[s].waiters > 0

\* The id of a session is that of a client that is not idle any more.
IdsUsed ==
  /\ \A s \in open : pc[s] # "idle"
  /\ \A c \in Clients : durable[c] # None => pc[durable[c].session] # "idle"

\* What is persisted is the session of the writer, until it ends.
Saved ==
  \A c \in Clients :
    /\ durable[c] # None <=> pc[c] \in {"writing", "restored", "lost"}
    /\ pc[c] \in {"writing", "restored"} =>
         /\ durable[c].session \in open
         /\ sess[durable[c].session].holder = c
         /\ durable[c].key = leaseKey[c]

\* Lost writers lost different sessions, none of which is taken meanwhile.
LostApart ==
  /\ \A c, d \in Lost : c # d => durable[c].session # durable[d].session
                                 /\ durable[c].key # durable[d].key
  /\ \A c \in Lost, s \in open : durable[c].session # s /\ durable[c].key # sess[s].key

\* Until every lost writer is restored nobody is admitted or rekeyed.
OnlyRestoring ==
  Lost # {} => \A d \in Clients : aliases[d] = None /\ pc[d] \notin {"writing", "waiting"}

Room == Cardinality(Reserved) <= Capacity

IInv ==
  /\ TypeOK
  /\ OneSessionPerKey
  /\ HolderWorks
  /\ WorkerHolds
  /\ Unreleased
  /\ KeysCanonical
  /\ AliasesLive
  /\ WaitersCounted
  /\ IdsUsed
  /\ Saved
  /\ LostApart
  /\ OnlyRestoring
  /\ Room

-----------------------------------------------------------------------------
\* The sets the invariant counts are finite.
LEMMA Finite ==
  ASSUME TypeOK, Saved
  PROVE  /\ IsFiniteSet(open) /\ Cardinality(open) \in Nat
         /\ IsFiniteSet(Reserved) /\ Cardinality(Reserved) \in Nat
         /\ \A s : IsFiniteSet(Waiters(s)) /\ Cardinality(Waiters(s)) \in Nat
<1>1. \A c \in Lost : durable[c] \in Durable
  BY DEF TypeOK, Saved, Lost
<1>2. open \subseteq Clients /\ Reserved \subseteq Clients
  BY <1>1 DEF TypeOK, Reserved, Durable
<1>4. IsFiniteSet(open) /\ IsFiniteSet(Reserved)
  BY <1>2, ClientsAssumption, FS_Subset
<1>5. \A s : Waiters(s) \subseteq Clients
  BY DEF Waiters
<1>6. \A s : IsFiniteSet(Waiters(s))
  BY <1>5, ClientsAssumption, FS_Subset
<1> QED BY <1>4, <1>6, FS_CardinalityType

\* What is reserved only shrinks: there is still room.
LEMMA RoomKept ==
  ASSUME TypeOK, Saved, Room, Reserved' \subseteq Reserved
  PROVE  Room'
<1>1. IsFiniteSet(Reserved) /\ Cardinality(Reserved) \in Nat
  BY Finite
<1>2. IsFiniteSet(Reserved') /\ Cardinality(Reserved') <= Cardinality(Reserved)
  BY <1>1, FS_Subset
<1>3. Cardinality(Reserved') \in Nat
  BY <1>2, FS_CardinalityType
<1> QED BY <1>1, <1>2, <1>3, CapacityAssumption DEF Room

\* A writer holds one session.
LEMMA OneSessionPerHolder ==
  ASSUME IInv, NEW s \in open, NEW t \in open, Held(s), sess[s].holder = sess[t].holder
  PROVE  s = t
<1>1. leaseKey[sess[s].holder] = sess[s].key /\ leaseKey[sess[t].holder] = sess[t].key
  BY DEF IInv, HolderWorks, Held
<1> QED BY <1>1 DEF IInv, OneSessionPerKey

\* A waiter is counted by its session, and leaving it lowers the count by one.
LEMMA WaiterFacts ==
  ASSUME IInv, NEW c \in Clients, pc[c] = "waiting"
  PROVE  LET s == waitsFor[c] IN
           /\ s \in open /\ s \in Clients
           /\ sess[s].waiters \in Nat \ {0}
           /\ Cardinality(Waiters(s) \ {c}) = sess[s].waiters - 1
           /\ sess[s].waiters = 1 => Waiters(s) = {c}
<1> DEFINE s == waitsFor[c]
<1>1. s \in open /\ s \in Clients /\ sess[s].waiters = Cardinality(Waiters(s))
  BY DEF IInv, WaitersCounted, TypeOK
<1>2. c \in Waiters(s)
  BY DEF Waiters
<1>3. IsFiniteSet(Waiters(s)) /\ Cardinality(Waiters(s)) \in Nat
  BY Finite DEF IInv
<1>4. /\ Cardinality(Waiters(s) \ {c}) = Cardinality(Waiters(s)) - 1
      /\ IsFiniteSet(Waiters(s) \ {c})
  BY <1>2, <1>3, FS_RemoveElement
<1>5. Cardinality(Waiters(s) \ {c}) \in Nat
  BY <1>4, FS_CardinalityType
<1>6. Cardinality(Waiters(s) \ {c}) = 0 => Waiters(s) \ {c} = {}
  BY <1>4, FS_EmptySet
<1> QED BY <1>1, <1>2, <1>3, <1>4, <1>5, <1>6

\* No persisted writer is refused after a restart.
LEMMA LostReturn ==
  ASSUME IInv
  PROVE  RestoreNeverRefused
<1> SUFFICES ASSUME NEW c \in Clients, pc[c] = "lost" PROVE CanRestore(c)
  BY DEF RestoreNeverRefused
<1>1. c \in Lost /\ durable[c] # None
  BY DEF Lost, IInv, Saved
<1>2. durable[c] \in Durable /\ Resolve(durable[c].key) = durable[c].key
  BY <1>1 DEF IInv, TypeOK, OnlyRestoring, Resolve, Provisional, Durable
<1>3. SessionsAt(durable[c].key) = {} /\ durable[c].session \notin open
  BY <1>1 DEF IInv, LostApart, SessionsAt
<1>4. open \cup {durable[c].session} \subseteq Reserved
  BY <1>1 DEF Reserved
<1>5. /\ IsFiniteSet(open) /\ Cardinality(open) \in Nat
      /\ IsFiniteSet(Reserved) /\ Cardinality(Reserved) \in Nat
  BY Finite DEF IInv
<1>6. Cardinality(open \cup {durable[c].session}) = Cardinality(open) + 1
  BY <1>3, <1>5, FS_AddElement
<1>7. Cardinality(open \cup {durable[c].session}) <= Cardinality(Reserved)
  BY <1>4, <1>5, FS_Subset
<1>8. SlotFree
  BY <1>5, <1>6, <1>7, CapacityAssumption DEF IInv, Room, SlotFree
<1> QED BY <1>1, <1>2, <1>3, <1>8 DEF CanRestore

\* So nobody is admitted while a writer is lost.
LEMMA Admitted ==
  ASSUME IInv, AdmissionOpen
  PROVE  Lost = {}
BY LostReturn DEF AdmissionOpen, RestoreNeverRefused, Lost

-----------------------------------------------------------------------------
\* Steps that leave the registry's entries, the leases and the persisted writers
\* alone keep the invariant.
LEMMA QuietStep ==
  ASSUME IInv, TypeOK',
         UNCHANGED <<open, sess, aliases, pc, waitsFor, leaseKey, released, durable>>
  PROVE  IInv'
<1>1. OneSessionPerKey' /\ HolderWorks' /\ WorkerHolds' /\ Unreleased' /\ KeysCanonical' /\ AliasesLive'
  BY DEF IInv, OneSessionPerKey, HolderWorks, WorkerHolds, Unreleased, KeysCanonical, AliasesLive,
         Held, Holds, Resolve, Provisional, SessionsAt
<1>2. \A s : Waiters(s)' = Waiters(s)
  BY DEF Waiters
<1>3. WaitersCounted'
  BY <1>2 DEF IInv, WaitersCounted, Held
<1>4. Lost' = Lost /\ Reserved' = Reserved
  BY DEF Lost, Reserved
<1>5. IdsUsed' /\ Saved' /\ LostApart' /\ OnlyRestoring' /\ Room'
  BY <1>4 DEF IInv, IdsUsed, Saved, LostApart, OnlyRestoring, Room
<1> QED BY <1>1, <1>3, <1>5 DEF IInv

\* What _discard_unheld does to the entries and the aliases, after a step that
\* changes session s alone and not its key.
LEMMA AfterDiscard ==
  ASSUME IInv, NEW s \in open, sess' \in [Clients -> Session],
         sess'[s].key = sess[s].key,
         \A t \in Clients \ {s} : sess'[t] = sess[t],
         DiscardUnheld(s, sess')
  PROVE  /\ open' \subseteq open /\ open \ {s} \subseteq open'
         /\ s \in open' <=> sess'[s].holder # None \/ sess'[s].waiters > 0
         /\ aliases' \in [Clients -> Convs \cup {None}]
         /\ \A k \in Clients : aliases'[k] \in {aliases[k], None}
         /\ \A t \in open : sess'[t].key = sess[t].key
         /\ OneSessionPerKey' /\ KeysCanonical' /\ AliasesLive'
<1>1. s \in Clients /\ open \subseteq Clients
  BY DEF IInv, TypeOK
<1>2. open' \subseteq open /\ open \ {s} \subseteq open'
  BY DEF DiscardUnheld
<1>3. s \in open' <=> sess'[s].holder # None \/ sess'[s].waiters > 0
  BY DEF DiscardUnheld
<1>4. aliases' \in [Clients -> Convs \cup {None}]
  BY DEF DiscardUnheld, IInv, TypeOK
<1>5. \A k \in Clients : aliases'[k] \in {aliases[k], None}
  BY DEF DiscardUnheld, IInv, TypeOK
<1>6. \A t \in open : sess'[t].key = sess[t].key
  BY <1>1
<1>7. OneSessionPerKey'
  BY <1>2, <1>6 DEF IInv, OneSessionPerKey
<1>8. KeysCanonical'
  <2> SUFFICES ASSUME NEW t \in open' PROVE Resolve(sess[t].key)' = sess'[t].key
    BY DEF KeysCanonical
  <2>1. t \in open /\ sess'[t].key = sess[t].key /\ Resolve(sess[t].key) = sess[t].key
    BY <1>2, <1>6 DEF IInv, KeysCanonical
  <2>2. sess[t].key \in Clients /\ aliases[sess[t].key] # None =>
          aliases[sess[t].key] \in Convs /\ aliases[sess[t].key] = sess[t].key
    BY <2>1 DEF Resolve, Provisional, IInv, TypeOK
  <2> QED BY <2>1, <2>2, <1>5, ConvsAssumption DEF Resolve, Provisional
<1>9. AliasesLive'
  <2> SUFFICES ASSUME NEW k \in Clients, aliases'[k] # None
               PROVE  \E t \in open' : sess'[t].key = aliases'[k]
    BY DEF AliasesLive, SessionsAt
  <2>1. aliases'[k] = aliases[k]
    BY <1>5
  <2>2. PICK t \in open : sess[t].key = aliases[k]
    BY <2>1 DEF IInv, AliasesLive, SessionsAt
  <2>3. t \in open'
    <3>1. CASE t # s
      BY <3>1, <1>2
    <3>2. CASE t = s
      BY <3>2, <2>1, <2>2 DEF DiscardUnheld
    <3> QED BY <3>1, <3>2
  <2> QED BY <2>1, <2>2, <2>3, <1>6
<1> QED BY <1>2, <1>3, <1>4, <1>5, <1>6, <1>7, <1>8, <1>9

-----------------------------------------------------------------------------
\* The registry starts empty.
LEMMA InitIInv == Init => IInv
<1> SUFFICES ASSUME Init PROVE IInv
  OBVIOUS
<1> USE DEF Init
<1>1. TypeOK
  BY ConvsAssumption, RestartsAssumption DEF TypeOK, Session, Keys, PCs
<1>2. OneSessionPerKey /\ HolderWorks /\ WorkerHolds /\ Unreleased /\ KeysCanonical /\ AliasesLive
  BY DEF OneSessionPerKey, HolderWorks, WorkerHolds, Unreleased, KeysCanonical, AliasesLive, Holds
<1>3. WaitersCounted /\ IdsUsed /\ Saved /\ LostApart /\ OnlyRestoring
  BY DEF WaitersCounted, IdsUsed, Saved, LostApart, OnlyRestoring, Lost
<1>4. Reserved = {}
  BY DEF Reserved, Lost
<1>5. Room
  BY <1>4, FS_EmptySet, CapacityAssumption DEF Room
<1> QED BY <1>1, <1>2, <1>3, <1>5 DEF IInv

-----------------------------------------------------------------------------
\* The key a writer asks for, and what it resolves to.
LEMMA KeyFacts ==
  ASSUME IInv, NEW k \in Keys
  PROVE  /\ Resolve(k) \in Keys /\ Resolve(Resolve(k)) = Resolve(k)
         /\ SessionsAt(Resolve(k)) = {} => Resolve(k) = k
<1>1. Resolve(k) \in Keys /\ Resolve(Resolve(k)) = Resolve(k)
  BY ConvsAssumption DEF IInv, TypeOK, Resolve, Provisional, Keys
<1> QED BY <1>1 DEF IInv, AliasesLive, Resolve, Provisional

\* A key with no session: a new one is opened for the writer, or the writer is
\* refused.
LEMMA AcquireNewStep ==
  ASSUME IInv, NEW c \in Clients, NEW k \in Keys, AcquireNew(c, k)
  PROVE  IInv'
<1> USE DEF AcquireNew
<1>1. Lost = {} /\ pc[c] = "idle" /\ SessionsAt(Resolve(k)) = {}
  BY Admitted
<1>2. c \notin open /\ (\A d \in Clients : durable[d] # None => durable[d].session # c)
      /\ ~Holds(c)
  BY <1>1 DEF IInv, IdsUsed, Holds
<1>3. \A d \in Clients : pc[d] = "waiting" => waitsFor[d] \in open
  BY DEF IInv, WaitersCounted
<1>4. CASE ~SlotFree
  <2>1. pc' = [pc EXCEPT ![c] = "done"] /\ UNCHANGED <<registry, durable, conv, exists, restarts>>
    BY <1>4
  <2> USE <2>1 DEF registry
  <2>2. TypeOK'
    BY DEF IInv, TypeOK, PCs
  <2>3. OneSessionPerKey' /\ KeysCanonical' /\ AliasesLive'
    BY DEF IInv, OneSessionPerKey, KeysCanonical, AliasesLive, Resolve, Provisional, SessionsAt
  <2>4. pc \in [Clients -> PCs] /\ open \subseteq Clients
    BY DEF IInv, TypeOK
  <2>5. HolderWorks' /\ WorkerHolds' /\ Unreleased'
    BY <1>1, <1>2, <2>4 DEF IInv, Unreleased, HolderWorks, WorkerHolds, Held, Holds
  <2>6. \A s : Waiters(s)' = Waiters(s)
    BY <1>1, <2>4 DEF Waiters
  <2>7. WaitersCounted'
    BY <2>4, <2>6 DEF IInv, WaitersCounted, Held
  <2>8. Lost' = {} /\ Reserved' = Reserved
    BY <1>1, <2>4 DEF Lost, Reserved
  <2>9. IdsUsed' /\ Saved' /\ LostApart' /\ OnlyRestoring' /\ Room'
    BY <1>1, <2>4, <2>8 DEF IInv, IdsUsed, Saved, LostApart, OnlyRestoring, Room
  <2> QED BY <2>2, <2>3, <2>5, <2>7, <2>9 DEF IInv
<1>5. CASE SlotFree
  <2> DEFINE new == [key |-> Resolve(k), holder |-> c, waiters |-> 0]
  <2>1. Resolve(k) \in Keys /\ Resolve(Resolve(k)) = Resolve(k) /\ Resolve(k) = k
    BY <1>1, KeyFacts
  <2>2. /\ sess \in [Clients -> Session] /\ new \in Session
        /\ open \subseteq Clients /\ pc \in [Clients -> PCs]
        /\ leaseKey \in [Clients -> Keys] /\ durable \in [Clients -> Durable \cup {None}]
    BY <2>1 DEF IInv, TypeOK, Session
  <2>3. /\ open' = open \cup {c}
        /\ sess' = [sess EXCEPT ![c] = new]
        /\ UNCHANGED <<aliases, waitsFor, awake, released, exists, restarts>>
        /\ sess'[c] = new /\ \A t \in Clients \ {c} : sess'[t] = sess[t]
    BY <1>5, <2>2
  <2>4. /\ leaseKey' = [leaseKey EXCEPT ![c] = k]
        /\ durable' = [durable EXCEPT ![c] = [key |-> k, session |-> c]]
        /\ pc' = [pc EXCEPT ![c] = "writing"]
        /\ conv' = [conv EXCEPT ![c] = IF Provisional(k) THEN None ELSE k]
    BY <1>5, <2>1, <2>3 DEF TakeLease
  <2> HIDE DEF new
  <2>5. TypeOK'
    BY <2>1, <2>2, <2>3, <2>4 DEF IInv, TypeOK, PCs, Durable, Keys, Provisional
  <2>6. OneSessionPerKey' /\ KeysCanonical' /\ AliasesLive'
    BY <1>1, <1>2, <2>1, <2>2, <2>3 DEF new, IInv, OneSessionPerKey, KeysCanonical, AliasesLive,
       SessionsAt, Resolve, Provisional
  <2>7. HolderWorks' /\ Unreleased'
    <3>1. Unreleased'
      BY <1>1, <2>2, <2>3, <2>4 DEF IInv, Unreleased
    <3>2. ASSUME NEW s \in open', Held(s)'
          PROVE  Holds(sess[s].holder)' /\ leaseKey'[sess'[s].holder] = sess'[s].key
      <4>1. CASE s = c
        BY <4>1, <2>1, <2>2, <2>3, <2>4 DEF new, Holds
      <4>2. CASE s # c
        <5>1. s \in open /\ sess'[s] = sess[s] /\ Held(s)
          BY <4>2, <3>2, <2>2, <2>3 DEF Held
        <5>2. Holds(sess[s].holder) /\ leaseKey[sess[s].holder] = sess[s].key
          BY <5>1 DEF IInv, HolderWorks
        <5>3. sess[s].holder \in Clients /\ sess[s].holder # c
          BY <5>1, <5>2, <1>2, <2>2 DEF Held, Session
        <5> QED BY <5>1, <5>2, <5>3, <2>2, <2>4 DEF Holds
      <4> QED BY <4>1, <4>2
    <3> QED BY <3>1, <3>2 DEF HolderWorks
  <2>8. WorkerHolds'
    BY <1>2, <2>2, <2>3, <2>4 DEF new, IInv, WorkerHolds, Holds
  <2>9. \A s : Waiters(s)' = Waiters(s)
    BY <1>1, <2>2, <2>3, <2>4 DEF Waiters
  <2>10. WaitersCounted'
    <3>1. Waiters(c) = {} /\ Cardinality(Waiters(c)) = 0
      BY <1>2, <1>3, FS_EmptySet DEF Waiters
    <3>2. \A d \in Clients : pc'[d] = "waiting" => waitsFor'[d] \in open'
      BY <1>3, <2>2, <2>3, <2>4
    <3>3. ASSUME NEW s \in open'
          PROVE  sess'[s].waiters = Cardinality(Waiters(s)) /\ (Held(s)' \/ sess'[s].waiters > 0)
      <4>1. CASE s = c
        BY <4>1, <3>1, <2>3, <2>9, NoneAssumption DEF new, Held, Keys
      <4>2. CASE s # c
        BY <4>2, <2>2, <2>3 DEF IInv, WaitersCounted, Held
      <4> QED BY <4>1, <4>2
    <3> QED BY <2>9, <3>2, <3>3 DEF WaitersCounted
  <2>11. Lost' = {}
    BY <1>1, <2>2, <2>4 DEF Lost
  <2>12. IdsUsed' /\ Saved' /\ LostApart' /\ OnlyRestoring'
    <3>1. IdsUsed'
      BY <2>2, <2>3, <2>4 DEF IInv, IdsUsed
    <3>2. ASSUME NEW d \in Clients
          PROVE  /\ durable'[d] # None <=> pc'[d] \in {"writing", "restored", "lost"}
                 /\ pc'[d] \in {"writing", "restored"} =>
                      /\ durable'[d].session \in open'
                      /\ sess'[durable'[d].session].holder = d
                      /\ durable'[d].key = leaseKey'[d]
      <4>1. CASE d = c
        <5>1. [key |-> k, session |-> c] # None
          BY <2>1, NoneAssumption DEF Durable
        <5> QED BY <4>1, <5>1, <2>2, <2>3, <2>4 DEF new
      <4>2. CASE d # c
        BY <4>2, <1>2, <2>2, <2>3, <2>4 DEF IInv, Saved
      <4> QED BY <4>1, <4>2
    <3> QED BY <3>1, <3>2, <2>11 DEF Saved, LostApart, OnlyRestoring
  <2>13. Room'
    <3>1. Reserved' = open \cup {c}
      BY <2>3, <2>11 DEF Reserved
    <3>2. IsFiniteSet(open) /\ Cardinality(open) \in Nat
      BY Finite DEF IInv
    <3>3. Cardinality(open \cup {c}) = Cardinality(open) + 1
      BY <1>2, <3>2, FS_AddElement
    <3> QED BY <1>5, <3>1, <3>2, <3>3, CapacityAssumption DEF SlotFree, Room
  <2> QED BY <2>5, <2>6, <2>7, <2>8, <2>10, <2>12, <2>13 DEF IInv
<1> QED BY <1>4, <1>5

\* What taking a session that is there and free does, whoever takes it.
LEMMA Take ==
  ASSUME IInv, NEW c \in Clients, NEW s \in open,
         ~Held(s), pc[c] \in {"idle", "waiting"}, Lost = {},
         sess' \in [Clients -> Session],
         sess'[s].key = sess[s].key, sess'[s].holder = c,
         \A t \in Clients \ {s} : sess'[t] = sess[t],
         TakeLease(c, s), WaitersCounted',
         awake' \subseteq Clients, UNCHANGED <<open, aliases, waitsFor, released, exists, restarts>>
  PROVE  IInv'
<1>1. /\ sess \in [Clients -> Session] /\ open \subseteq Clients /\ s \in Clients
      /\ pc \in [Clients -> PCs] /\ leaseKey \in [Clients -> Keys]
      /\ durable \in [Clients -> Durable \cup {None}] /\ sess[s].key \in Keys
  BY DEF IInv, TypeOK, Session
<1>2. /\ leaseKey' = [leaseKey EXCEPT ![c] = sess[s].key]
      /\ durable' = [durable EXCEPT ![c] = [key |-> sess[s].key, session |-> s]]
      /\ pc' = [pc EXCEPT ![c] = "writing"]
      /\ conv' = [conv EXCEPT ![c] = IF Provisional(sess[s].key) THEN None ELSE sess[s].key]
  BY DEF TakeLease
<1>3. TypeOK'
  BY <1>1, <1>2 DEF IInv, TypeOK, PCs, Durable, Keys, Provisional
<1>4. \A t \in open : sess'[t].key = sess[t].key
  BY <1>1
<1>5. OneSessionPerKey' /\ KeysCanonical' /\ AliasesLive'
  BY <1>1, <1>4 DEF IInv, OneSessionPerKey, KeysCanonical, AliasesLive,
     SessionsAt, Resolve, Provisional
<1>6. c # None /\ ~Holds(c) /\ \A t \in open : sess[t].holder # c
  <2>1. c # None /\ ~Holds(c)
    BY NoneAssumption DEF Keys, Holds
  <2> QED BY <2>1 DEF IInv, HolderWorks, Held
<1>7. Unreleased'
  BY <1>1, <1>2 DEF IInv, Unreleased
<1>8. HolderWorks'
  <2> SUFFICES ASSUME NEW t \in open', Held(t)'
               PROVE  Holds(sess[t].holder)' /\ leaseKey'[sess'[t].holder] = sess'[t].key
    BY DEF HolderWorks
  <2>1. CASE t = s
    BY <2>1, <1>1, <1>2 DEF Holds
  <2>2. CASE t # s
    <3>1. t \in open /\ sess'[t] = sess[t] /\ Held(t)
      BY <2>2, <1>1 DEF Held
    <3>2. Holds(sess[t].holder) /\ leaseKey[sess[t].holder] = sess[t].key
      BY <3>1 DEF IInv, HolderWorks
    <3>3. sess[t].holder \in Clients /\ sess[t].holder # c
      BY <3>1, <1>1, <1>6 DEF Held, Session
    <3> QED BY <3>1, <3>2, <3>3, <1>1, <1>2 DEF Holds
  <2> QED BY <2>1, <2>2
<1>9. WorkerHolds'
  <2> SUFFICES ASSUME NEW d \in Clients, Holds(d)' PROVE \E t \in open : sess'[t].holder = d
    BY DEF WorkerHolds
  <2>1. CASE d = c
    BY <2>1
  <2>2. CASE d # c
    <3>1. Holds(d) /\ d # None
      BY <2>2, <1>1, <1>2, NoneAssumption DEF Holds, Keys
    <3>2. PICK t \in open : sess[t].holder = d
      BY <3>1 DEF IInv, WorkerHolds
    <3>3. t # s
      BY <3>1, <3>2 DEF Held
    <3> QED BY <3>2, <3>3, <1>1
  <2> QED BY <2>1, <2>2
<1>10. Lost' = {} /\ Reserved' = Reserved
  BY <1>1, <1>2 DEF Lost, Reserved
<1>11. LostApart' /\ OnlyRestoring' /\ Room'
  BY <1>10 DEF IInv, LostApart, OnlyRestoring, Room
<1>12. IdsUsed'
  <2>1. \A t \in Clients : pc[t] # "idle" => pc'[t] # "idle"
    BY <1>1, <1>2
  <2>2. \A t \in open : pc'[t] # "idle"
    BY <2>1, <1>1 DEF IInv, IdsUsed
  <2>3. ASSUME NEW d \in Clients, durable'[d] # None PROVE pc'[durable'[d].session] # "idle"
    <3>1. CASE d = c
      BY <3>1, <2>2, <1>1, <1>2
    <3>2. CASE d # c
      <4>1. durable'[d] = durable[d] /\ durable[d] \in Durable
        BY <3>2, <2>3, <1>1, <1>2
      <4>2. durable[d].session \in Clients /\ pc[durable[d].session] # "idle"
        BY <4>1, <2>3 DEF IInv, IdsUsed, Durable
      <4> QED BY <4>1, <4>2, <2>1
    <3> QED BY <3>1, <3>2
  <2> QED BY <2>2, <2>3 DEF IdsUsed
<1>13. Saved'
  <2> SUFFICES ASSUME NEW d \in Clients
               PROVE  /\ durable'[d] # None <=> pc'[d] \in {"writing", "restored", "lost"}
                      /\ pc'[d] \in {"writing", "restored"} =>
                           /\ durable'[d].session \in open'
                           /\ sess'[durable'[d].session].holder = d
                           /\ durable'[d].key = leaseKey'[d]
    BY DEF Saved
  <2>1. CASE d = c
    <3>1. [key |-> sess[s].key, session |-> s] # None
      BY <1>1, NoneAssumption DEF Durable
    <3> QED BY <2>1, <3>1, <1>1, <1>2
  <2>2. CASE d # c
    <3>1. /\ durable'[d] = durable[d] /\ pc'[d] = pc[d] /\ leaseKey'[d] = leaseKey[d]
          /\ durable[d] # None <=> pc[d] \in {"writing", "restored", "lost"}
          /\ pc[d] \in {"writing", "restored"} =>
               /\ durable[d].session \in open
               /\ sess[durable[d].session].holder = d
               /\ durable[d].key = leaseKey[d]
      BY <2>2, <1>1, <1>2 DEF IInv, Saved
    <3>2. sess[s].holder # d
      BY NoneAssumption DEF Held, Keys
    <3> QED BY <3>1, <3>2, <1>1
  <2> QED BY <2>1, <2>2
<1> QED BY <1>3, <1>5, <1>7, <1>8, <1>9, <1>11, <1>12, <1>13 DEF IInv

\* A session that is there although nobody holds it.
LEMMA AcquireFreeStep ==
  ASSUME IInv, NEW c \in Clients, NEW k \in Keys, AcquireFree(c, k)
  PROVE  IInv'
<1> USE DEF AcquireFree
<1>1. Lost = {} /\ pc[c] = "idle"
  BY Admitted
<1>2. PICK s \in open : ~Held(s) /\ sess' = [sess EXCEPT ![s].holder = c] /\ TakeLease(c, s)
  BY DEF SessionsAt
<1>3. /\ sess \in [Clients -> Session] /\ s \in Clients /\ sess[s] \in Session
      /\ pc \in [Clients -> PCs] /\ awake \subseteq Clients
  BY DEF IInv, TypeOK
<1>4. /\ sess'[s] = [sess[s] EXCEPT !.holder = c]
      /\ \A t \in Clients \ {s} : sess'[t] = sess[t]
  BY <1>2, <1>3
<1>5. /\ sess'[s].key = sess[s].key /\ sess'[s].waiters = sess[s].waiters /\ sess'[s].holder = c
      /\ sess'[s] \in Session
  BY <1>3, <1>4 DEF Session
<1>6. sess' \in [Clients -> Session]
  BY <1>2, <1>3, <1>5
<1>7. pc' = [pc EXCEPT ![c] = "writing"]
  BY <1>2 DEF TakeLease
<1>8. \A t : Waiters(t)' = Waiters(t)
  BY <1>1, <1>3, <1>7 DEF Waiters
<1>9. WaitersCounted'
  <2>1. \A t \in open : sess'[t].waiters = sess[t].waiters
    BY <1>4, <1>5 DEF IInv, TypeOK
  <2>2. \A t \in open : Held(t) => Held(t)'
    BY <1>4, <1>5, NoneAssumption DEF Held, Keys, IInv, TypeOK
  <2>3. \A d \in Clients : pc'[d] = "waiting" => pc[d] = "waiting"
    BY <1>3, <1>7
  <2> QED BY <1>8, <2>1, <2>2, <2>3 DEF IInv, WaitersCounted
<1> QED BY <1>1, <1>2, <1>3, <1>4, <1>5, <1>6, <1>9, Take

\* A waiter that is woken while the session is free.
LEMMA WakeAndTakeStep ==
  ASSUME IInv, NEW c \in Clients, WakeAndTake(c)
  PROVE  IInv'
<1> USE DEF WakeAndTake
<1> DEFINE s == waitsFor[c]
<1>1. /\ s \in open /\ s \in Clients /\ sess[s].waiters \in Nat \ {0}
      /\ Cardinality(Waiters(s) \ {c}) = sess[s].waiters - 1
  BY WaiterFacts
<1>2. Lost = {} /\ pc[c] = "waiting" /\ ~Held(s) /\ TakeLease(c, s)
  BY DEF IInv, OnlyRestoring
<1>3. /\ sess \in [Clients -> Session] /\ sess[s] \in Session
      /\ pc \in [Clients -> PCs] /\ awake \subseteq Clients
  BY <1>1 DEF IInv, TypeOK
<1>4. /\ sess'[s] = [sess[s] EXCEPT !.holder = c, !.waiters = sess[s].waiters - 1]
      /\ sess' = [sess EXCEPT ![s] = [sess[s] EXCEPT !.holder = c, !.waiters = sess[s].waiters - 1]]
      /\ \A t \in Clients \ {s} : sess'[t] = sess[t]
  BY <1>1, <1>3
<1>5. /\ sess'[s].key = sess[s].key /\ sess'[s].waiters = sess[s].waiters - 1 /\ sess'[s].holder = c
      /\ sess'[s] \in Session
  <2>1. sess[s].key \in Keys /\ sess[s].waiters - 1 \in Nat
    BY <1>1, <1>3 DEF Session
  <2>2. PICK n \in Nat : n = sess[s].waiters - 1
    BY <2>1
  <2>3. sess'[s] = [key |-> sess[s].key, holder |-> c, waiters |-> n]
    BY <1>3, <1>4, <2>2 DEF Session
  <2>4. [key |-> sess[s].key, holder |-> c, waiters |-> n] \in Session
    BY <2>1 DEF Session
  <2> QED BY <2>2, <2>3, <2>4
<1>6. sess' \in [Clients -> Session]
  BY <1>3, <1>4, <1>5
<1>7. pc' = [pc EXCEPT ![c] = "writing"]
  BY <1>2 DEF TakeLease
<1>8. /\ Waiters(s)' = Waiters(s) \ {c}
      /\ \A t : t # s => Waiters(t)' = Waiters(t)
  BY <1>3, <1>7 DEF Waiters
<1>9. WaitersCounted'
  <2>1. \A d \in Clients : pc'[d] = "waiting" => pc[d] = "waiting"
    BY <1>3, <1>7
  <2>2. ASSUME NEW t \in open PROVE sess'[t].waiters = Cardinality(Waiters(t))' /\ (Held(t)' \/ sess'[t].waiters > 0)
    <3>1. CASE t = s
      BY <3>1, <1>1, <1>5, <1>8, NoneAssumption DEF Held, Keys
    <3>2. CASE t # s
      <4>1. sess'[t] = sess[t] /\ Waiters(t)' = Waiters(t)
        BY <3>2, <1>4, <1>8 DEF IInv, TypeOK
      <4> QED BY <4>1 DEF IInv, WaitersCounted, Held
    <3> QED BY <3>1, <3>2
  <2> QED BY <2>1, <2>2 DEF IInv, WaitersCounted
<1> QED BY <1>1, <1>2, <1>3, <1>4, <1>5, <1>6, <1>9, Take

\* A session that is held: the writer sleeps, its session counts it.
LEMMA AcquireWaitStep ==
  ASSUME IInv, NEW c \in Clients, NEW k \in Keys, AcquireWait(c, k)
  PROVE  IInv'
<1> USE DEF AcquireWait
<1>1. Lost = {} /\ pc[c] = "idle" /\ pc' = [pc EXCEPT ![c] = "waiting"]
      /\ UNCHANGED <<open, aliases, leaseKey, released, durable, conv, exists, restarts>>
  BY Admitted
<1>2. PICK s \in open : /\ Held(s) /\ sess' = [sess EXCEPT ![s].waiters = @ + 1]
                        /\ waitsFor' = [waitsFor EXCEPT ![c] = s]
  BY DEF SessionsAt
<1>3. /\ sess \in [Clients -> Session] /\ s \in Clients /\ sess[s] \in Session
      /\ pc \in [Clients -> PCs] /\ waitsFor \in [Clients -> Clients] /\ open \subseteq Clients
      /\ durable \in [Clients -> Durable \cup {None}]
  BY DEF IInv, TypeOK
<1>4. /\ sess'[s] = [sess[s] EXCEPT !.waiters = @ + 1]
      /\ sess' = [sess EXCEPT ![s] = [sess[s] EXCEPT !.waiters = @ + 1]]
      /\ \A t \in Clients \ {s} : sess'[t] = sess[t]
  BY <1>2, <1>3
<1>5. /\ sess'[s].key = sess[s].key /\ sess'[s].waiters = sess[s].waiters + 1
      /\ sess'[s].holder = sess[s].holder /\ sess'[s] \in Session
      /\ sess[s].waiters \in Nat
  BY <1>3, <1>4 DEF Session
<1>6. TypeOK'
  BY <1>1, <1>2, <1>3, <1>4, <1>5 DEF IInv, TypeOK, PCs
<1>7. \A t \in open : sess'[t].key = sess[t].key /\ sess'[t].holder = sess[t].holder
  BY <1>3, <1>4, <1>5
<1>8. OneSessionPerKey' /\ KeysCanonical' /\ AliasesLive'
  BY <1>1, <1>7 DEF IInv, OneSessionPerKey, KeysCanonical, AliasesLive,
     SessionsAt, Resolve, Provisional
<1>9. \A d \in Clients : /\ Holds(d)' = Holds(d) /\ (pc'[d] = "done" <=> pc[d] = "done")
                         /\ (pc[d] # "idle" => pc'[d] # "idle")
  BY <1>1, <1>3 DEF Holds
<1>10. HolderWorks'
  <2> SUFFICES ASSUME NEW t \in open, sess[t].holder # None
               PROVE  Holds(sess[t].holder)' /\ leaseKey[sess[t].holder] = sess[t].key
    BY <1>1, <1>7 DEF HolderWorks, Held
  <2>1. Holds(sess[t].holder) /\ leaseKey[sess[t].holder] = sess[t].key
    BY DEF IInv, HolderWorks, Held
  <2>2. sess[t].holder \in Clients
    BY <1>3 DEF Session
  <2> QED BY <2>1, <2>2, <1>9
<1>11. WorkerHolds' /\ Unreleased'
  BY <1>1, <1>7, <1>9 DEF IInv, WorkerHolds, Unreleased
<1>12. /\ c \notin Waiters(s) /\ Waiters(s)' = Waiters(s) \cup {c}
       /\ \A t : t # s => Waiters(t)' = Waiters(t)
  BY <1>1, <1>2, <1>3 DEF Waiters
<1>13. Cardinality(Waiters(s)') = Cardinality(Waiters(s)) + 1
  BY <1>12, Finite, FS_AddElement DEF IInv
<1>14. WaitersCounted'
  <2>1. \A d \in Clients : pc'[d] = "waiting" => waitsFor'[d] \in open'
    BY <1>1, <1>2, <1>3 DEF IInv, WaitersCounted
  <2>2. ASSUME NEW t \in open
        PROVE  sess'[t].waiters = Cardinality(Waiters(t))' /\ (Held(t)' \/ sess'[t].waiters > 0)
    <3>1. CASE t = s
      BY <3>1, <1>5, <1>13 DEF IInv, WaitersCounted
    <3>2. CASE t # s
      <4>1. sess'[t] = sess[t] /\ Waiters(t)' = Waiters(t)
        BY <3>2, <1>3, <1>4, <1>12
      <4> QED BY <4>1 DEF IInv, WaitersCounted, Held
    <3> QED BY <3>1, <3>2
  <2> QED BY <1>1, <2>1, <2>2 DEF WaitersCounted
<1>15. Lost' = {} /\ Reserved' = Reserved
  BY <1>1, <1>3 DEF Lost, Reserved
<1>16. LostApart' /\ OnlyRestoring' /\ Room'
  BY <1>15 DEF IInv, LostApart, OnlyRestoring, Room
<1>17. IdsUsed'
  <2>1. \A d \in Clients : durable[d] # None => durable[d].session \in Clients
    BY <1>3 DEF Durable
  <2> QED BY <1>1, <1>3, <1>9, <2>1 DEF IInv, IdsUsed
<1>18. Saved'
  <2>1. \A d \in Clients : pc'[d] \in {"writing", "restored", "lost"} <=> pc[d] \in {"writing", "restored", "lost"}
    BY <1>1, <1>3
  <2>2. \A d \in Clients : pc'[d] \in {"writing", "restored"} <=> pc[d] \in {"writing", "restored"}
    BY <1>1, <1>3
  <2> QED BY <1>1, <1>7, <2>1, <2>2 DEF IInv, Saved
<1> QED BY <1>6, <1>8, <1>10, <1>11, <1>14, <1>16, <1>17, <1>18 DEF IInv

\* A waiter that is woken too late sleeps again.
LEMMA WakeAndSleepStep ==
  ASSUME IInv, NEW c \in Clients, WakeAndSleep(c)
  PROVE  IInv'
<1>1. TypeOK'
  BY DEF WakeAndSleep, IInv, TypeOK
<1> QED BY <1>1, QuietStep DEF WakeAndSleep

\* The canonical URL that ChatGPT gives is no business of the registry yet.
LEMMA AssignConversationStep ==
  ASSUME IInv, NEW c \in Clients, AssignConversation(c)
  PROVE  IInv'
<1>1. TypeOK'
  BY DEF AssignConversation, registry, IInv, TypeOK
<1> QED BY <1>1, QuietStep DEF AssignConversation, registry

-----------------------------------------------------------------------------
\* A writer that ends while the registry stays as it is.
LEMMA Ending ==
  ASSUME IInv, NEW c \in Clients, NEW p \in {"closing", "done"},
         pc[c] \in {"writing", "restored", "closing", "done"},
         p = "done" <=> pc[c] = "done",
         pc' = [pc EXCEPT ![c] = p], durable' = [durable EXCEPT ![c] = None],
         UNCHANGED <<registry, conv, exists, restarts>>
  PROVE  IInv'
<1> USE DEF registry
<1>1. pc \in [Clients -> PCs] /\ durable \in [Clients -> Durable \cup {None}] /\ open \subseteq Clients
      /\ sess \in [Clients -> Session]
  BY DEF IInv, TypeOK
<1>2. TypeOK'
  BY DEF IInv, TypeOK, PCs
<1>3. OneSessionPerKey' /\ KeysCanonical' /\ AliasesLive'
  BY DEF IInv, OneSessionPerKey, KeysCanonical, AliasesLive, SessionsAt, Resolve, Provisional
<1>4. \A d \in Clients : /\ Holds(d)' = Holds(d) /\ (pc[d] # "idle" <=> pc'[d] # "idle")
                         /\ (pc[d] = "waiting" <=> pc'[d] = "waiting")
                         /\ (pc'[d] # "done" => pc[d] # "done")
                         /\ (pc'[d] = "lost" <=> pc[d] = "lost")
                         /\ (pc'[d] = "writing" => pc[d] = "writing")
                         /\ (pc'[d] = "restored" => pc[d] = "restored")
  BY <1>1 DEF Holds
<1>5. HolderWorks' /\ WorkerHolds' /\ Unreleased'
  <2>1. \A s \in open : Held(s) => sess[s].holder \in Clients
    BY <1>1 DEF Held, Session
  <2> QED BY <1>4, <2>1 DEF IInv, HolderWorks, WorkerHolds, Unreleased, Held
<1>6. \A s : Waiters(s)' = Waiters(s)
  BY <1>4 DEF Waiters
<1>7. WaitersCounted'
  BY <1>4, <1>6 DEF IInv, WaitersCounted, Held
<1>8. Lost' = Lost /\ c \notin Lost /\ \A d \in Lost : durable'[d] = durable[d]
  BY <1>1, <1>4 DEF Lost
<1>9. Reserved' = Reserved
  BY <1>8 DEF Reserved
<1>10. LostApart' /\ OnlyRestoring' /\ Room'
  BY <1>4, <1>8, <1>9 DEF IInv, LostApart, OnlyRestoring, Room
<1>11. IdsUsed'
  <2>1. \A d \in Clients : durable'[d] # None =>
           durable'[d] = durable[d] /\ durable[d].session \in Clients
    BY <1>1 DEF Durable
  <2> QED BY <1>1, <1>4, <2>1 DEF IInv, IdsUsed
<1>12. Saved'
  <2> SUFFICES ASSUME NEW d \in Clients
               PROVE  /\ durable'[d] # None <=> pc'[d] \in {"writing", "restored", "lost"}
                      /\ pc'[d] \in {"writing", "restored"} =>
                           /\ durable'[d].session \in open
                           /\ sess[durable'[d].session].holder = d
                           /\ durable'[d].key = leaseKey[d]
    BY DEF Saved
  <2>1. CASE d = c
    BY <2>1, <1>1
  <2>2. CASE d # c
    BY <2>2, <1>1 DEF IInv, Saved
  <2> QED BY <2>1, <2>2
<1> QED BY <1>2, <1>3, <1>5, <1>7, <1>10, <1>11, <1>12 DEF IInv

\* A writer that ends and lets go of the one session it holds or waits for.
LEMMA Leaving ==
  ASSUME IInv, NEW c \in Clients, NEW s \in open,
         (pc[c] = "waiting" /\ waitsFor[c] = s) \/ pc[c] = "closing",
         \A t \in open \ {s} : sess[t].holder # c,
         sess' \in [Clients -> Session], sess'[s].key = sess[s].key,
         \A t \in Clients \ {s} : sess'[t] = sess[t],
         sess'[s].holder # c,
         sess'[s].holder = sess[s].holder \/ (sess'[s].holder = None /\ sess[s].holder = c),
         sess'[s].waiters = Cardinality(Waiters(s) \ {c}),
         DiscardUnheld(s, sess'),
         pc' = [pc EXCEPT ![c] = "done"], released' \subseteq released \cup {c},
         awake' \subseteq Clients,
         UNCHANGED <<waitsFor, leaseKey, durable, conv, exists, restarts>>
  PROVE  IInv'
<1>1. /\ pc \in [Clients -> PCs] /\ durable \in [Clients -> Durable \cup {None}]
      /\ open \subseteq Clients /\ sess \in [Clients -> Session] /\ s \in Clients
  BY DEF IInv, TypeOK
<1>2. /\ open' \subseteq open /\ open \ {s} \subseteq open'
      /\ s \in open' <=> sess'[s].holder # None \/ sess'[s].waiters > 0
      /\ aliases' \in [Clients -> Convs \cup {None}]
      /\ \A k \in Clients : aliases'[k] \in {aliases[k], None}
      /\ \A t \in open : sess'[t].key = sess[t].key
      /\ OneSessionPerKey' /\ KeysCanonical' /\ AliasesLive'
  BY AfterDiscard
<1>3. TypeOK'
  BY <1>1, <1>2 DEF IInv, TypeOK, PCs
<1>4. \A d \in Clients \ {c} : pc'[d] = pc[d]
  BY <1>1
<1>5. pc'[c] = "done" /\ durable[c] = None /\ c # None
  BY <1>1, NoneAssumption DEF IInv, Saved, Keys
<1>6. Unreleased'
  BY <1>4, <1>5 DEF IInv, Unreleased
<1>7. HolderWorks'
  <2> SUFFICES ASSUME NEW t \in open', sess'[t].holder # None
               PROVE  Holds(sess[t].holder)' /\ leaseKey[sess'[t].holder] = sess'[t].key
    BY DEF HolderWorks, Held
  <2>1. t \in open /\ sess'[t].holder = sess[t].holder /\ sess[t].holder # c
    BY <1>1, <1>2
  <2>2. Holds(sess[t].holder) /\ leaseKey[sess[t].holder] = sess[t].key
    BY <2>1 DEF IInv, HolderWorks, Held
  <2>3. sess[t].holder \in Clients
    BY <2>1, <1>1 DEF Session
  <2> QED BY <2>1, <2>2, <2>3, <1>2, <1>4 DEF Holds
<1>8. WorkerHolds'
  <2> SUFFICES ASSUME NEW d \in Clients, Holds(d)' PROVE \E t \in open' : sess'[t].holder = d
    BY DEF WorkerHolds
  <2>1. d # c /\ Holds(d) /\ d # None
    BY <1>4, <1>5, NoneAssumption DEF Holds, Keys
  <2>2. PICK t \in open : sess[t].holder = d
    BY <2>1 DEF IInv, WorkerHolds
  <2>3. sess'[t].holder = d
    BY <2>1, <2>2, <1>1
  <2> QED BY <2>1, <2>2, <2>3, <1>2
<1>9. /\ Waiters(s)' = Waiters(s) \ {c}
      /\ \A t : t # s => Waiters(t)' = Waiters(t)
  BY <1>1, <1>4, <1>5 DEF Waiters
<1>10. WaitersCounted'
  <2>1. ASSUME NEW d \in Clients, pc'[d] = "waiting" PROVE waitsFor[d] \in open'
    <3>1. d # c /\ pc[d] = "waiting" /\ waitsFor[d] \in open
      BY <2>1, <1>4, <1>5 DEF IInv, WaitersCounted
    <3>2. CASE waitsFor[d] # s
      BY <3>1, <3>2, <1>2
    <3>3. CASE waitsFor[d] = s
      <4>1. d \in Waiters(s) \ {c}
        BY <3>1, <3>3 DEF Waiters
      <4>2. IsFiniteSet(Waiters(s))
        BY Finite DEF IInv
      <4>3. IsFiniteSet(Waiters(s) \ {c})
        BY <4>2, FS_Subset
      <4>4. Cardinality(Waiters(s) \ {c}) \in Nat /\ Cardinality(Waiters(s) \ {c}) # 0
        BY <4>1, <4>3, FS_CardinalityType, FS_EmptySet
      <4> QED BY <4>4, <3>3, <1>2
    <3> QED BY <3>2, <3>3
  <2>2. ASSUME NEW t \in open'
        PROVE  sess'[t].waiters = Cardinality(Waiters(t))' /\ (Held(t)' \/ sess'[t].waiters > 0)
    <3>1. CASE t = s
      BY <3>1, <2>2, <1>2, <1>9 DEF Held
    <3>2. CASE t # s
      <4>1. t \in open /\ sess'[t] = sess[t] /\ Waiters(t)' = Waiters(t)
        BY <3>2, <1>1, <1>2, <1>9
      <4> QED BY <4>1 DEF IInv, WaitersCounted, Held
    <3> QED BY <3>1, <3>2
  <2> QED BY <2>1, <2>2 DEF WaitersCounted
<1>11. Lost' = Lost
  BY <1>4, <1>5 DEF Lost
<1>12. Reserved' \subseteq Reserved
  BY <1>2, <1>11 DEF Reserved
<1>13. Room'
  BY <1>12, RoomKept DEF IInv
<1>14. LostApart'
  BY <1>2, <1>11 DEF IInv, LostApart
<1>15. OnlyRestoring'
  BY <1>2, <1>4, <1>5, <1>11 DEF IInv, OnlyRestoring
<1>16. IdsUsed'
  <2>1. \A d \in Clients : pc[d] # "idle" => pc'[d] # "idle"
    BY <1>4, <1>5
  <2>2. \A d \in Clients : durable[d] # None => durable[d].session \in Clients
    BY <1>1 DEF Durable
  <2> QED BY <1>1, <1>2, <2>1, <2>2 DEF IInv, IdsUsed
<1>17. Saved'
  <2> SUFFICES ASSUME NEW d \in Clients
               PROVE  /\ durable[d] # None <=> pc'[d] \in {"writing", "restored", "lost"}
                      /\ pc'[d] \in {"writing", "restored"} =>
                           /\ durable[d].session \in open'
                           /\ sess'[durable[d].session].holder = d
                           /\ durable[d].key = leaseKey[d]
    BY DEF Saved
  <2>1. CASE d = c
    BY <2>1, <1>5
  <2>2. CASE d # c
    <3>1. /\ durable[d] # None <=> pc'[d] \in {"writing", "restored", "lost"}
          /\ pc'[d] \in {"writing", "restored"} =>
               /\ durable[d].session \in open
               /\ sess[durable[d].session].holder = d
               /\ durable[d].key = leaseKey[d]
      BY <2>2, <1>4 DEF IInv, Saved
    <3>2. ASSUME sess[durable[d].session].holder = d, durable[d].session \in open
          PROVE  sess'[durable[d].session].holder = d /\ durable[d].session \in open'
      <4>1. sess'[durable[d].session].holder = d
        BY <3>2, <2>2, <1>1
      <4>2. d # None
        BY NoneAssumption DEF Keys
      <4> QED BY <3>2, <4>1, <4>2, <1>2
    <3> QED BY <3>1, <3>2
  <2> QED BY <2>1, <2>2
<1> QED BY <1>2, <1>3, <1>6, <1>7, <1>8, <1>10, <1>13, <1>14, <1>15, <1>16, <1>17 DEF IInv

\* A waiter that is cancelled is counted out, and its session dropped if unused.
LEMMA CancelWaitStep ==
  ASSUME IInv, NEW c \in Clients, CancelWait(c)
  PROVE  IInv'
<1> USE DEF CancelWait
<1>0. PICK s \in open : s = waitsFor[c]
  BY WaiterFacts
<1>1. /\ pc[c] = "waiting" /\ s \in open /\ s \in Clients /\ sess[s].waiters \in Nat \ {0}
      /\ Cardinality(Waiters(s) \ {c}) = sess[s].waiters - 1
  BY <1>0, WaiterFacts
<1>2. sess \in [Clients -> Session] /\ sess[s] \in Session
  BY <1>1 DEF IInv, TypeOK
<1>3. /\ sess' = [sess EXCEPT ![s] = [sess[s] EXCEPT !.waiters = @ - 1]]
      /\ DiscardUnheld(s, sess')
  BY <1>0, <1>2
<1>4. /\ sess'[s] = [sess[s] EXCEPT !.waiters = @ - 1]
      /\ \A t \in Clients \ {s} : sess'[t] = sess[t]
  BY <1>1, <1>2, <1>3
<1>5. /\ sess'[s].key = sess[s].key /\ sess'[s].waiters = sess[s].waiters - 1
      /\ sess'[s].holder = sess[s].holder /\ sess'[s] \in Session
  BY <1>1, <1>2, <1>4 DEF Session
<1>6. sess' \in [Clients -> Session]
  BY <1>2, <1>3, <1>5
<1>7. \A t \in open : sess[t].holder # c
  <2>1. ~Holds(c) /\ c # None
    BY NoneAssumption DEF Holds, Keys
  <2> QED BY <2>1 DEF IInv, HolderWorks, Held
<1>8. awake' \subseteq Clients /\ released' \subseteq released \cup {c} /\ pc' = [pc EXCEPT ![c] = "done"]
      /\ UNCHANGED <<waitsFor, leaseKey, durable, conv, exists, restarts>>
  BY DEF IInv, TypeOK
<1>9. /\ sess'[s].holder # c
      /\ sess'[s].waiters = Cardinality(Waiters(s) \ {c})
  BY <1>1, <1>5, <1>7
<1>10. waitsFor[c] = s
  BY <1>0
<1> QED BY <1>1, <1>3, <1>4, <1>5, <1>6, <1>7, <1>8, <1>9, <1>10, Leaving

\* A writer that ends persists it before it gives its lease back.
LEMMA FinishStep ==
  ASSUME IInv, NEW c \in Clients, Finish(c)
  PROVE  IInv'
BY Ending DEF Finish

\* A writer that is closing still owns its session; one that is done owns none.
LEMMA Ownership ==
  ASSUME IInv, NEW c \in Clients, pc[c] \in {"closing", "done"}
  PROVE  /\ pc[c] = "closing" => Owned(c) # {}
         /\ pc[c] = "done" => Owned(c) = {}
<1>1. ASSUME pc[c] = "closing" PROVE Owned(c) # {}
  <2>1. PICK s \in open : sess[s].holder = c
    BY <1>1 DEF IInv, WorkerHolds, Holds
  <2>2. leaseKey[c] = sess[s].key /\ c \notin released /\ Resolve(leaseKey[c]) = sess[s].key
    BY <1>1, <2>1, NoneAssumption DEF IInv, HolderWorks, Held, Keys, Unreleased, KeysCanonical
  <2> QED BY <2>1, <2>2 DEF Owned, SessionsAt
<1>2. ASSUME pc[c] = "done" PROVE Owned(c) = {}
  BY <1>2, NoneAssumption DEF IInv, HolderWorks, Held, Holds, Keys, Owned, SessionsAt
<1> QED BY <1>1, <1>2

\* A release by the owner gives the session back; any other one does nothing.
LEMMA ReleaseStep ==
  ASSUME IInv, NEW c \in Clients, Release(c)
  PROVE  IInv'
<1> USE DEF Release
<1>1. durable \in [Clients -> Durable \cup {None}] /\ durable[c] = None
  BY DEF IInv, TypeOK, Saved
<1>2. CASE Owned(c) = {}
  <2>1. pc[c] = "done" /\ UNCHANGED registry
    BY <1>2, Ownership
  <2>2. durable' = [durable EXCEPT ![c] = None]
    BY <1>1
  <2> QED BY <2>1, <2>2, Ending
<1>3. ASSUME NEW s \in Owned(c), GiveBack(c, s) PROVE IInv'
  <2>1. s \in open /\ s \in Clients /\ sess[s].holder = c /\ pc[c] = "closing"
    BY <1>3, Ownership DEF Owned, SessionsAt, IInv, TypeOK
  <2>2. sess \in [Clients -> Session] /\ sess[s] \in Session
    BY <2>1 DEF IInv, TypeOK
  <2>3. /\ sess' = [sess EXCEPT ![s] = [sess[s] EXCEPT !.holder = None]]
        /\ DiscardUnheld(s, sess')
    BY <1>3, <2>2 DEF GiveBack
  <2>4. /\ sess'[s] = [sess[s] EXCEPT !.holder = None]
        /\ \A t \in Clients \ {s} : sess'[t] = sess[t]
    BY <2>1, <2>2, <2>3
  <2>5. /\ sess'[s].key = sess[s].key /\ sess'[s].waiters = sess[s].waiters
        /\ sess'[s].holder = None /\ sess'[s] \in Session
    BY <2>2, <2>4 DEF Session
  <2>6. sess' \in [Clients -> Session]
    BY <2>2, <2>3, <2>5
  <2>7. c # None /\ \A t \in open \ {s} : sess[t].holder # c
    BY <2>1, OneSessionPerHolder, NoneAssumption DEF Held, Keys
  <2>8. Waiters(s) \ {c} = Waiters(s) /\ sess[s].waiters = Cardinality(Waiters(s))
    BY <2>1 DEF Waiters, IInv, WaitersCounted
  <2>9. awake' \subseteq Clients /\ released' \subseteq released \cup {c} /\ UNCHANGED <<waitsFor, leaseKey>>
    BY <1>3 DEF GiveBack
  <2> QED BY <2>1, <2>3, <2>4, <2>5, <2>6, <2>7, <2>8, <2>9, Leaving
<1> QED BY <1>2, <1>3

-----------------------------------------------------------------------------
\* A writer moves its session onto the canonical key, or fails when it is taken.
LEMMA RekeyStep ==
  ASSUME IInv, NEW c \in Clients, Rekey(c)
  PROVE  IInv'
<1> USE DEF Rekey
<1>1. /\ sess \in [Clients -> Session] /\ open \subseteq Clients /\ pc \in [Clients -> PCs]
      /\ leaseKey \in [Clients -> Keys] /\ durable \in [Clients -> Durable \cup {None}]
      /\ aliases \in [Clients -> Convs \cup {None}] /\ conv[c] \in Convs
      /\ pc[c] = "writing" /\ leaseKey[c] \in Clients /\ Lost = {}
  BY DEF IInv, TypeOK, Provisional, OnlyRestoring
<1>2. PICK s \in open : durable[c] # None /\ s = durable[c].session /\ sess[s].holder = c
  BY <1>1 DEF IInv, Saved
<1>3. c # None /\ sess[s].key = leaseKey[c] /\ Resolve(leaseKey[c]) = leaseKey[c] /\ s \in Clients
      /\ \A t \in open \ {s} : sess[t].key # leaseKey[c] /\ sess[t].holder # c
  <2>1. c # None /\ sess[s].key = leaseKey[c]
    BY <1>2, NoneAssumption DEF IInv, HolderWorks, Held, Keys
  <2>2. Resolve(leaseKey[c]) = leaseKey[c]
    BY <2>1 DEF IInv, KeysCanonical
  <2>3. \A t \in open \ {s} : sess[t].key # leaseKey[c] /\ sess[t].holder # c
    BY <1>2, <2>1, OneSessionPerHolder DEF IInv, OneSessionPerKey, Held
  <2> QED BY <2>1, <2>2, <2>3, <1>1
<1>4. SessionsAt(Resolve(leaseKey[c])) = {s}
  BY <1>3 DEF SessionsAt
<1>5. CASE Collision(conv[c], {s})
  <2>1. /\ pc' = [pc EXCEPT ![c] = "closing"] /\ durable' = [durable EXCEPT ![c] = None]
        /\ UNCHANGED <<registry, conv, exists, restarts>>
    BY <1>4, <1>5
  <2> QED BY <2>1, <1>1, Ending
<1>6. CASE ~Collision(conv[c], {s})
  <2>1. /\ sess' = [t \in Clients |-> IF t \in {s} THEN [sess[t] EXCEPT !.key = conv[c]] ELSE sess[t]]
        /\ aliases' = [aliases EXCEPT ![leaseKey[c]] = conv[c]]
        /\ leaseKey' = [leaseKey EXCEPT ![c] = conv[c]]
        /\ durable' = [durable EXCEPT ![c].key = conv[c]]
        /\ UNCHANGED <<open, waitsFor, awake, released, pc, conv, exists, restarts>>
    BY <1>4, <1>6
  <2>2. \A t \in open : sess[t].key # conv[c]
    BY <1>1, <1>3, <1>6, ConvsAssumption DEF Collision, SessionsAt
  <2>3. /\ sess'[s].key = conv[c] /\ sess'[s].holder = c /\ sess'[s].waiters = sess[s].waiters
        /\ sess'[s] \in Session /\ \A t \in Clients \ {s} : sess'[t] = sess[t]
    BY <1>1, <1>2, <1>3, <2>1 DEF Session, Keys
  <2>4. /\ durable[c] \in Durable /\ durable'[c] \in Durable
        /\ durable'[c].key = conv[c] /\ durable'[c].session = s
        /\ \A d \in Clients \ {c} : durable'[d] = durable[d]
    BY <1>1, <1>2, <2>1 DEF Durable, Keys
  <2>5. TypeOK'
    <3>1. sess' \in [Clients -> Session]
      BY <1>1, <2>1, <2>3
    <3>2. durable' \in [Clients -> Durable \cup {None}]
      BY <1>1, <2>1, <2>4
    <3> QED BY <3>1, <3>2, <1>1, <2>1 DEF IInv, TypeOK, Keys
  <2>6. OneSessionPerKey'
    <3> SUFFICES ASSUME NEW t \in open, NEW u \in open, sess'[t].key = sess'[u].key PROVE t = u
      BY <2>1 DEF OneSessionPerKey
    <3>1. CASE t = s \/ u = s
      BY <3>1, <1>1, <2>2, <2>3
    <3>2. CASE t # s /\ u # s
      BY <3>2, <1>1, <2>3 DEF IInv, OneSessionPerKey
    <3> QED BY <3>1, <3>2
  <2>7. HolderWorks'
    <3> SUFFICES ASSUME NEW t \in open, sess'[t].holder # None
                 PROVE  Holds(sess[t].holder)' /\ leaseKey'[sess'[t].holder] = sess'[t].key
      BY <2>1 DEF HolderWorks, Held
    <3>1. CASE t = s
      BY <3>1, <1>1, <2>1, <2>3 DEF Holds
    <3>2. CASE t # s
      <4>1. sess'[t] = sess[t] /\ sess[t].holder # c
        BY <3>2, <1>1, <1>3, <2>3
      <4>2. Holds(sess[t].holder) /\ leaseKey[sess[t].holder] = sess[t].key
        BY <4>1 DEF IInv, HolderWorks, Held
      <4>3. sess[t].holder \in Clients
        BY <4>1, <1>1 DEF Session
      <4> QED BY <4>1, <4>2, <4>3, <1>1, <2>1 DEF Holds
    <3> QED BY <3>1, <3>2
  <2>8. \A t \in open : sess'[t].holder = sess[t].holder /\ sess'[t].waiters = sess[t].waiters
    BY <1>1, <1>2, <2>3
  <2>9. WorkerHolds' /\ Unreleased'
    <3>1. \A d \in Clients : Holds(d)' <=> Holds(d)
      BY <2>1 DEF Holds
    <3>2. WorkerHolds'
      <4> SUFFICES ASSUME NEW d \in Clients, Holds(d)' PROVE \E t \in open' : sess'[t].holder = d
        BY DEF WorkerHolds
      <4>1. open' = open
        BY <2>1
      <4>2. PICK t \in open : sess[t].holder = d
        BY <3>1 DEF IInv, WorkerHolds
      <4> QED BY <4>1, <4>2, <2>8
    <3>3. Unreleased'
      BY <2>1 DEF IInv, Unreleased
    <3> QED BY <3>2, <3>3
  <2>10. KeysCanonical'
    <3> SUFFICES ASSUME NEW t \in open PROVE Resolve(sess[t].key)' = sess'[t].key
      BY <2>1 DEF KeysCanonical
    <3>1. CASE t = s
      BY <3>1, <1>1, <2>3, ConvsAssumption DEF Resolve, Provisional
    <3>2. CASE t # s
      <4>1. sess'[t] = sess[t] /\ sess[t].key # leaseKey[c] /\ Resolve(sess[t].key) = sess[t].key
        BY <3>2, <1>1, <1>3, <2>3 DEF IInv, KeysCanonical
      <4>2. sess[t].key \in Clients => aliases'[sess[t].key] = aliases[sess[t].key]
        BY <4>1, <1>1, <2>1
      <4> QED BY <4>1, <4>2 DEF Resolve, Provisional
    <3> QED BY <3>1, <3>2
  <2>11. AliasesLive'
    <3> SUFFICES ASSUME NEW k \in Clients, aliases'[k] # None
                 PROVE  \E t \in open : sess'[t].key = aliases'[k]
      BY <2>1 DEF AliasesLive, SessionsAt
    <3>1. CASE k = leaseKey[c]
      BY <3>1, <1>1, <2>1, <2>3
    <3>2. CASE k # leaseKey[c]
      <4>1. aliases'[k] = aliases[k] /\ aliases[k] \in Convs
        BY <3>2, <1>1, <2>1
      <4>2. PICK t \in open : sess[t].key = aliases[k]
        BY <4>1 DEF IInv, AliasesLive, SessionsAt
      <4>3. t # s
        BY <4>1, <4>2, <1>1, <1>3, ConvsAssumption
      <4> QED BY <4>1, <4>2, <4>3, <1>1, <2>3
    <3> QED BY <3>1, <3>2
  <2>12. \A t : Waiters(t)' = Waiters(t)
    BY <2>1 DEF Waiters
  <2>13. WaitersCounted'
    BY <2>1, <2>8, <2>12 DEF IInv, WaitersCounted, Held
  <2>14. Lost' = {} /\ Reserved' = Reserved
    BY <1>1, <2>1 DEF Lost, Reserved
  <2>15. LostApart' /\ OnlyRestoring' /\ Room'
    BY <2>14 DEF IInv, LostApart, OnlyRestoring, Room
  <2>16. \A d \in Clients : durable'[d] # None <=> durable[d] # None
    BY <1>2, <2>4, NoneAssumption
  <2>17. \A d \in Clients : durable[d] # None => durable'[d].session = durable[d].session
    BY <1>2, <2>4
  <2>18. IdsUsed'
    BY <2>1, <2>16, <2>17 DEF IInv, IdsUsed
  <2>19. Saved'
    <3> SUFFICES ASSUME NEW d \in Clients
                 PROVE  /\ durable'[d] # None <=> pc[d] \in {"writing", "restored", "lost"}
                        /\ pc[d] \in {"writing", "restored"} =>
                             /\ durable'[d].session \in open
                             /\ sess'[durable'[d].session].holder = d
                             /\ durable'[d].key = leaseKey'[d]
      <4>1. pc' = pc /\ open' = open
        BY <2>1
      <4> QED BY <4>1 DEF Saved
    <3>1. CASE d = c
      BY <3>1, <1>1, <1>2, <2>1, <2>3, <2>4, <2>16
    <3>2. CASE d # c
      <4>1. /\ durable'[d] = durable[d] /\ leaseKey'[d] = leaseKey[d]
            /\ durable[d] # None <=> pc[d] \in {"writing", "restored", "lost"}
            /\ pc[d] \in {"writing", "restored"} =>
                 /\ durable[d].session \in open
                 /\ sess[durable[d].session].holder = d
                 /\ durable[d].key = leaseKey[d]
        BY <3>2, <1>1, <2>1, <2>4 DEF IInv, Saved
      <4> QED BY <4>1, <2>8
    <3> QED BY <3>1, <3>2
  <2> QED BY <2>5, <2>6, <2>7, <2>9, <2>10, <2>11, <2>13, <2>15, <2>18, <2>19 DEF IInv
<1> QED BY <1>5, <1>6

-----------------------------------------------------------------------------
\* A restart: what is persisted is lost and still has room to come back.
LEMMA RestartStep ==
  ASSUME IInv, Restart
  PROVE  IInv'
<1> USE DEF Restart
<1>1. /\ sess \in [Clients -> Session] /\ pc \in [Clients -> PCs] /\ open \subseteq Clients
      /\ durable \in [Clients -> Durable \cup {None}] /\ durable' = durable /\ open' = {}
  BY DEF IInv, TypeOK
<1>2. \A d \in Clients :
        /\ durable[d] # None => pc'[d] = "lost"
        /\ durable[d] = None => pc'[d] \in {"idle", "done"}
        /\ pc'[d] = "idle" => pc[d] = "idle"
  OBVIOUS
<1>3. TypeOK'
  BY RestartsAssumption DEF IInv, TypeOK, Session, Keys, PCs
<1>4. OneSessionPerKey' /\ HolderWorks' /\ KeysCanonical' /\ Unreleased' /\ AliasesLive'
  BY DEF OneSessionPerKey, HolderWorks, KeysCanonical, Unreleased, AliasesLive
<1>5. WorkerHolds' /\ WaitersCounted'
  BY <1>1, <1>2 DEF WorkerHolds, WaitersCounted, Holds
<1>6. \A d \in Clients : durable[d] # None => durable[d] \in Durable /\ durable[d].session \in Clients
  BY <1>1 DEF Durable
<1>7. IdsUsed'
  BY <1>1, <1>2, <1>6 DEF IInv, IdsUsed
<1>8. Saved' /\ Lost' = {d \in Clients : durable[d] # None}
  BY <1>1, <1>2 DEF Saved, Lost
<1>9. ASSUME NEW d \in Clients, durable[d] # None, d \notin Lost
      PROVE  /\ durable[d].session \in open /\ sess[durable[d].session].holder = d
             /\ durable[d].key = sess[durable[d].session].key
  <2>1. pc[d] \in {"writing", "restored"}
    BY <1>9 DEF IInv, Saved, Lost
  <2>2. /\ durable[d].session \in open /\ sess[durable[d].session].holder = d
        /\ durable[d].key = leaseKey[d] /\ d # None
    BY <2>1, NoneAssumption DEF IInv, Saved, Keys
  <2> QED BY <2>2 DEF IInv, HolderWorks, Held
<1>10. LostApart'
  <2> SUFFICES ASSUME NEW c \in Clients, NEW d \in Clients, c # d,
                      durable[c] # None, durable[d] # None
               PROVE  durable[c].session # durable[d].session /\ durable[c].key # durable[d].key
    BY <1>1, <1>8 DEF LostApart
  <2>1. CASE c \in Lost /\ d \in Lost
    BY <2>1 DEF IInv, LostApart
  <2>2. CASE c \in Lost /\ d \notin Lost
    BY <2>2, <1>9 DEF IInv, LostApart
  <2>3. CASE c \notin Lost /\ d \in Lost
    BY <2>3, <1>9 DEF IInv, LostApart
  <2>4. CASE c \notin Lost /\ d \notin Lost
    BY <2>4, <1>9 DEF IInv, OneSessionPerKey
  <2> QED BY <2>1, <2>2, <2>3, <2>4
<1>11. OnlyRestoring'
  BY <1>2 DEF OnlyRestoring
<1>12. Reserved' \subseteq Reserved
  <2> SUFFICES ASSUME NEW d \in Clients, durable[d] # None PROVE durable[d].session \in Reserved
    BY <1>1, <1>8 DEF Reserved
  <2>1. CASE d \in Lost
    BY <2>1 DEF Reserved
  <2>2. CASE d \notin Lost
    BY <2>2, <1>9 DEF Reserved
  <2> QED BY <2>1, <2>2
<1>13. Room'
  BY <1>12, RoomKept DEF IInv
<1> QED BY <1>3, <1>4, <1>5, <1>7, <1>8, <1>10, <1>11, <1>13 DEF IInv

\* A lost writer is restored with the session id and the key it had.
LEMMA RestoreStep ==
  ASSUME IInv, NEW c \in Clients, Restore(c)
  PROVE  IInv'
<1> USE DEF Restore
<1>1. /\ sess \in [Clients -> Session] /\ pc \in [Clients -> PCs] /\ open \subseteq Clients
      /\ durable \in [Clients -> Durable \cup {None}] /\ leaseKey \in [Clients -> Keys]
      /\ c \in Lost /\ pc[c] = "lost" /\ durable[c] # None /\ durable[c] \in Durable
  BY DEF IInv, TypeOK, CanRestore, Lost
<1>2. \A d \in Clients : aliases[d] = None /\ pc[d] \notin {"writing", "waiting"}
  BY <1>1 DEF IInv, OnlyRestoring
<1>3. PICK s \in Clients : s = durable[c].session
  BY <1>1 DEF Durable
<1>4. PICK k \in Keys : k = durable[c].key
  BY <1>1 DEF Durable
<1>5. Resolve(k) = k /\ c # None
  BY <1>2, NoneAssumption DEF Resolve, Provisional, Keys
<1>6. /\ open' = open \cup {s}
      /\ sess' = [sess EXCEPT ![s] = [key |-> k, holder |-> c, waiters |-> 0]]
      /\ leaseKey' = [leaseKey EXCEPT ![c] = k]
      /\ pc' = [pc EXCEPT ![c] = "restored"]
      /\ UNCHANGED <<aliases, waitsFor, awake, released, durable, conv, exists, restarts>>
  BY <1>3, <1>4, <1>5
<1>7. s \notin open /\ \A t \in open : sess[t].key # k
  BY <1>1, <1>3, <1>4 DEF IInv, LostApart
<1>8. /\ sess'[s].key = k /\ sess'[s].holder = c /\ sess'[s].waiters = 0
      /\ \A t \in open : sess'[t] = sess[t] /\ t # s
  BY <1>1, <1>6, <1>7
<1>9. TypeOK'
  BY <1>1, <1>6 DEF IInv, TypeOK, PCs, Session
<1>10. OneSessionPerKey'
  BY <1>6, <1>7, <1>8 DEF IInv, OneSessionPerKey
<1>11. \A d \in Clients \ {c} : pc'[d] = pc[d] /\ leaseKey'[d] = leaseKey[d]
  BY <1>1, <1>6
<1>12. pc'[c] = "restored" /\ leaseKey'[c] = k
  BY <1>1, <1>6
<1>13. HolderWorks'
  <2> SUFFICES ASSUME NEW t \in open', sess'[t].holder # None
               PROVE  Holds(sess[t].holder)' /\ leaseKey'[sess'[t].holder] = sess'[t].key
    BY DEF HolderWorks, Held
  <2>1. CASE t = s
    BY <2>1, <1>8, <1>12 DEF Holds
  <2>2. CASE t # s
    <3>1. t \in open /\ sess'[t] = sess[t]
      BY <2>2, <1>6, <1>8
    <3>2. Holds(sess[t].holder) /\ leaseKey[sess[t].holder] = sess[t].key
      BY <3>1 DEF IInv, HolderWorks, Held
    <3>3. sess[t].holder \in Clients /\ sess[t].holder # c
      BY <3>1, <3>2, <1>1 DEF Session, Holds
    <3> QED BY <3>1, <3>2, <3>3, <1>11 DEF Holds
  <2> QED BY <2>1, <2>2
<1>14. WorkerHolds'
  <2> SUFFICES ASSUME NEW d \in Clients, Holds(d)' PROVE \E t \in open' : sess'[t].holder = d
    BY DEF WorkerHolds
  <2>1. CASE d = c
    BY <2>1, <1>6, <1>8
  <2>2. CASE d # c
    <3>1. Holds(d)
      BY <2>2, <1>11 DEF Holds
    <3>2. PICK t \in open : sess[t].holder = d
      BY <3>1 DEF IInv, WorkerHolds
    <3> QED BY <3>2, <1>6, <1>8
  <2> QED BY <2>1, <2>2
<1>15. Unreleased'
  BY <1>1, <1>6, <1>11 DEF IInv, Unreleased
<1>16. KeysCanonical' /\ AliasesLive'
  BY <1>2, <1>6 DEF KeysCanonical, AliasesLive, Resolve, Provisional
<1>17. \A d \in Clients : pc'[d] # "waiting"
  BY <1>2, <1>11, <1>12
<1>18. \A t : Waiters(t)' = Waiters(t) /\ Waiters(t) = {}
  BY <1>2, <1>17 DEF Waiters
<1>19. WaitersCounted'
  <2>1. ASSUME NEW t \in open'
        PROVE  sess'[t].waiters = Cardinality(Waiters(t))' /\ (Held(t)' \/ sess'[t].waiters > 0)
    <3>1. CASE t = s
      BY <3>1, <1>5, <1>8, <1>18, FS_EmptySet DEF Held
    <3>2. CASE t # s
      BY <3>2, <1>6, <1>8, <1>18 DEF IInv, WaitersCounted, Held
    <3> QED BY <3>1, <3>2
  <2> QED BY <2>1, <1>17 DEF WaitersCounted
<1>20. Lost' = Lost \ {c}
  BY <1>11, <1>12 DEF Lost
<1>21. Reserved' \subseteq Reserved
  BY <1>1, <1>3, <1>6, <1>20 DEF Reserved
<1>22. Room'
  BY <1>21, RoomKept DEF IInv
<1>23. IdsUsed'
  <2>1. \A d \in Clients : pc[d] # "idle" => pc'[d] # "idle"
    BY <1>11, <1>12
  <2>2. \A d \in Clients : durable[d] # None => durable[d].session \in Clients
    BY <1>1 DEF Durable
  <2>3. pc[s] # "idle"
    BY <1>1, <1>3 DEF IInv, IdsUsed
  <2> QED BY <1>1, <1>6, <2>1, <2>2, <2>3 DEF IInv, IdsUsed
<1>24. Saved'
  <2> SUFFICES ASSUME NEW d \in Clients
               PROVE  /\ durable[d] # None <=> pc'[d] \in {"writing", "restored", "lost"}
                      /\ pc'[d] \in {"writing", "restored"} =>
                           /\ durable[d].session \in open'
                           /\ sess'[durable[d].session].holder = d
                           /\ durable[d].key = leaseKey'[d]
    BY <1>6 DEF Saved
  <2>1. CASE d = c
    BY <2>1, <1>1, <1>3, <1>4, <1>6, <1>8, <1>12
  <2>2. CASE d # c
    BY <2>2, <1>6, <1>8, <1>11 DEF IInv, Saved
  <2> QED BY <2>1, <2>2
<1>25. LostApart'
  <2>1. \A d, e \in Lost' : d # e => durable[d].session # durable[e].session
                                     /\ durable[d].key # durable[e].key
    BY <1>20 DEF IInv, LostApart
  <2>2. ASSUME NEW d \in Lost', NEW t \in open'
        PROVE  durable[d].session # t /\ durable[d].key # sess'[t].key
    <3>1. d \in Lost /\ d # c
      BY <1>20
    <3>2. CASE t = s
      BY <3>1, <3>2, <1>1, <1>3, <1>4, <1>8 DEF IInv, LostApart
    <3>3. CASE t # s
      BY <3>1, <3>3, <1>6, <1>8 DEF IInv, LostApart
    <3> QED BY <3>2, <3>3
  <2> QED BY <2>1, <2>2, <1>6 DEF LostApart
<1>26. OnlyRestoring'
  BY <1>2, <1>6, <1>11, <1>12 DEF OnlyRestoring
<1> QED BY <1>9, <1>10, <1>13, <1>14, <1>15, <1>16, <1>19, <1>22, <1>23, <1>24, <1>25, <1>26 DEF IInv

-----------------------------------------------------------------------------
\* Every step keeps the invariant.
LEMMA IInvStep == IInv /\ [Next]_vars => IInv'
<1> SUFFICES ASSUME IInv, [Next]_vars PROVE IInv'
  OBVIOUS
<1>1. ASSUME NEW c \in Clients, AcquireAny(c) PROVE IInv'
  <2>1. PICK k \in exists \cup {c} : AcquireNew(c, k) \/ AcquireFree(c, k) \/ AcquireWait(c, k)
    BY <1>1 DEF AcquireAny
  <2>2. k \in Keys
    BY DEF IInv, TypeOK, Keys
  <2> QED BY <2>1, <2>2, AcquireNewStep, AcquireFreeStep, AcquireWaitStep
<1>2. ASSUME NEW c \in Clients, WakeAndTake(c) PROVE IInv'
  BY <1>2, WakeAndTakeStep
<1>3. ASSUME NEW c \in Clients, WakeAndSleep(c) PROVE IInv'
  BY <1>3, WakeAndSleepStep
<1>4. ASSUME NEW c \in Clients, CancelWait(c) PROVE IInv'
  BY <1>4, CancelWaitStep
<1>5. ASSUME NEW c \in Clients, AssignConversation(c) PROVE IInv'
  BY <1>5, AssignConversationStep
<1>6. ASSUME NEW c \in Clients, Rekey(c) PROVE IInv'
  BY <1>6, RekeyStep
<1>7. ASSUME NEW c \in Clients, Finish(c) PROVE IInv'
  BY <1>7, FinishStep
<1>8. ASSUME NEW c \in Clients, Release(c) PROVE IInv'
  BY <1>8, ReleaseStep
<1>9. ASSUME NEW c \in Clients, Restore(c) PROVE IInv'
  BY <1>9, RestoreStep
<1>10. CASE Restart
  BY <1>10, RestartStep
<1>11. CASE UNCHANGED vars
  <2>1. TypeOK'
    BY <1>11 DEF vars, registry, IInv, TypeOK
  <2> QED BY <1>11, <2>1, QuietStep DEF vars, registry
<1> QED BY <1>1, <1>2, <1>3, <1>4, <1>5, <1>6, <1>7, <1>8, <1>9, <1>10, <1>11 DEF Next

\* The strengthened invariant holds for any number of writers, conversations,
\* slots and restarts of the backend.
THEOREM Invariance == Spec => []IInv
BY InitIInv, IInvStep, PTL DEF Spec

\* The registry, its leases and what is persisted keep their types, through
\* restarts and refused rekeys.
THEOREM TypeCorrect == Spec => []TypeOK
<1>1. IInv => TypeOK
  BY DEF IInv
<1> QED BY <1>1, Invariance, PTL

\* acquire_writer and restore_writer never open more than Capacity sessions,
\* even when a restart brings writers back.
THEOREM Capacities == Spec => []CapacityRespected
<1>1. IInv => CapacityRespected
  <2> SUFFICES ASSUME IInv PROVE CapacityRespected
    OBVIOUS
  <2>1. /\ IsFiniteSet(open) /\ Cardinality(open) \in Nat
        /\ IsFiniteSet(Reserved) /\ Cardinality(Reserved) \in Nat
    BY Finite DEF IInv
  <2>2. Cardinality(open) <= Cardinality(Reserved)
    BY <2>1, FS_Subset DEF Reserved
  <2> QED BY <2>1, <2>2, CapacityAssumption DEF IInv, Room, CapacityRespected
<1> QED BY <1>1, Invariance, PTL

\* A writer at work holds the session its lease names, whatever the stale
\* releases, rekeys, waits and cancellations of others do.
THEOREM LeasesValid == Spec => []LeaseValid
<1>1. IInv => LeaseValid
  <2> SUFFICES ASSUME IInv, NEW c \in Clients, Holds(c)
               PROVE  \E s \in open : sess[s].holder = c /\ sess[s].key = Resolve(leaseKey[c])
    BY DEF LeaseValid
  <2>1. PICK s \in open : sess[s].holder = c
    BY DEF IInv, WorkerHolds
  <2>2. leaseKey[c] = sess[s].key /\ Resolve(sess[s].key) = sess[s].key
    BY <2>1, NoneAssumption DEF IInv, HolderWorks, Held, Keys, KeysCanonical
  <2> QED BY <2>1, <2>2
<1> QED BY <1>1, Invariance, PTL

\* No two sessions answer to one key: a rekey never merges with, or overwrites,
\* the session of another writer.
THEOREM SessionsApart == Spec => []OneSessionPerKey
<1>1. IInv => OneSessionPerKey
  BY DEF IInv
<1> QED BY <1>1, Invariance, PTL

\* A session is there only while a writer at work holds it or a waiter wants it,
\* and it counts its waiters exactly: no slot leaks.
THEOREM SlotsReturned == Spec => []NoSlotLeak
<1>1. IInv => NoSlotLeak
  BY DEF IInv, HolderWorks, WaitersCounted, Held, NoSlotLeak
<1> QED BY <1>1, Invariance, PTL

\* An alias always leads to a session that is there.
THEOREM AliasesLead == Spec => []AliasesLive
<1>1. IInv => AliasesLive
  BY DEF IInv
<1> QED BY <1>1, Invariance, PTL

\* After any restart every persisted writer finds its key free and a slot left.
THEOREM WritersReturn == Spec => []RestoreNeverRefused
<1> QED BY LostReturn, Invariance, PTL
=============================================================================
