-------------------------- MODULE WriterTabs_proofs --------------------------
(***************************************************************************)
(* Proofs about WriterTabs: for any number of sessions, tabs, reusable     *)
(* tabs and mishaps, two writers have no tab in common, a read-only        *)
(* session has no tab of a writer, and an uncertain tab is handed to       *)
(* nobody while the worker that saw the delivery lives.                    *)
(*                                                                         *)
(* The argument: only the owner of the allocation lock binds a tab, so     *)
(* what was bound or excluded when it looked covers what is bound when     *)
(* Chrome answers.  A tab enters the pool only from a writer that is about *)
(* to lose it, and a taker leaves out the tabs that are still bound.  A    *)
(* tab whose delivery is uncertain is quarantined before its binding goes. *)
(***************************************************************************)
EXTENDS WriterTabs, FiniteSetTheorems, TLAPS

Allocating(s) == op[s].pc \in {"taking", "creating", "querying"}

\* The queue of the allocation lock: who asks for a tab is in it, once, and
\* only its owner, which has no tab, has gone on to ask Chrome.
Queue ==
  /\ \A i, j \in 1..Len(lockq) : lockq[i] = lockq[j] => i = j
  /\ \A s \in Sessions : Asking(s) <=> \E i \in 1..Len(lockq) : lockq[i] = s
  /\ \A s \in Sessions : Allocating(s) => Owner(s) /\ bound[s] = None

\* A worker that is not restored yet has empty maps and no command.
Asleep ==
  worker # "ready" =>
    bound = NoTabs /\ pool = {} /\ op = AllIdle /\ lockq = <<>> /\ unc = {}

\* What a taker, or a reader, left out covers what is bound meanwhile.
Takes ==
  \A s \in Sessions : op[s].pc = "taking" =>
    /\ s \in Writers
    /\ op[s].t \in Tabs \ (op[s].excl \cup pool \cup unc)
    /\ \A q \in Sessions : bound[q] # None => bound[q] \in op[s].excl

Creates == \A s \in Sessions : op[s].pc = "creating" => s \in Writers

Queries ==
  \A s \in Sessions : op[s].pc = "querying" =>
    /\ s \in Readers
    /\ pool \cup quar \cup unc \subseteq op[s].excl
    /\ \A w \in Writers : bound[w] # None => bound[w] \in op[s].excl

\* A release in progress has its tab, unless it was closed, and its own write;
\* the tab of an uncertain one is not in the pool.
Releasing ==
  /\ \A s \in Sessions : op[s].pc = "releasing" =>
       s \in Writers /\ drv[s] = "closed" /\ op[s].t \in Tabs /\ bound[s] \in {None, op[s].t}
  /\ \A i \in 1..Len(writes) : writes[i].by # "forget" =>
       /\ writes[i].s \in Writers /\ op[writes[i].s].pc = "releasing"
       /\ writes[i].by = "strict" /\ bound[writes[i].s] # None => op[writes[i].s].t \notin pool
  /\ \A i, j \in 1..Len(writes) :
       writes[i].by # "forget" /\ writes[j].by # "forget" /\ writes[i].s = writes[j].s => i = j

\* Only a tab about to be given back is both bound to a writer and in the pool.
Held ==
  \A w \in Writers : bound[w] # None /\ op[w].pc # "releasing" => bound[w] \notin pool

\* An uncertain tab is quarantined, or its writer will have it quarantined.
Kept ==
  \A t \in unc :
    /\ tab[t] # "closed"
    /\ t \in quar \/ \E w \in Writers : bound[w] = t /\ drv[w] = "dirty"

\* The worker knows no tab that Chrome has still to create, and Chrome tells it
\* of closed tabs only.
Known ==
  /\ \A t \in Tabs : tab[t] = "absent" =>
       /\ t \notin pool \cup quar \cup unc \cup local \cup stored
       /\ \A s \in Sessions : bound[s] # t
       /\ \A i \in 1..Len(writes) : t \notin writes[i].ids
  /\ \A t \in removed : tab[t] = "closed"

Core ==
  /\ Queue /\ Asleep /\ Takes /\ Creates /\ Queries /\ Releasing /\ Held /\ Kept
  /\ OneWriterPerTab /\ ReadersApart /\ UncertainContained

\* The inductive invariant.
IInv == TypeOK /\ Known /\ Core
-----------------------------------------------------------------------------
(* Steps by which sessions lose tabs, or nothing at all.                   *)

LEMMA Kinds == Writers \cap Readers = {} /\ None \notin Tabs /\ None \notin Sessions
BY WriterTabsAssumption DEF Sessions

\* Bindings, pool, quarantine and the memory of the uncertain tabs only shrink,
\* and not for the uncertain tabs that stay open.
Loses ==
  /\ \A s \in Sessions : bound'[s] \in {None, bound[s]}
  /\ pool' \subseteq pool /\ quar' \subseteq quar /\ unc' \subseteq unc
  /\ op' = op /\ lockq' = lockq
  /\ \A w \in Writers : drv'[w] = drv[w] \/ (bound[w] = None /\ drv'[w] = "closed")
  /\ worker' = worker \/ (worker = "dead" /\ worker' = "restoring")
  /\ \A t \in unc' : /\ tab'[t] # "closed" /\ (t \in quar => t \in quar')
                     /\ \A w \in Writers : bound[w] = t => bound'[w] = t
  /\ \/ writes' = writes
     \/ \E ids : writes' = Append(writes, [ids |-> ids, by |-> "forget", s |-> None])

LEMMA LosesKeeps ==
  ASSUME IInv, Loses, bound' \in [Sessions -> Tabs \cup {None}]
  PROVE  Core'
<1>0. /\ bound \in [Sessions -> Tabs \cup {None}] /\ op \in [Sessions -> Ops]
      /\ writes \in Seq(Writes) /\ Writers \subseteq Sessions /\ Readers \subseteq Sessions
  BY DEF IInv, TypeOK, Sessions
<1>1. Queue'
  BY <1>0, Kinds DEF IInv, Core, Queue, Loses, Asking, Allocating, Owner
<1>2. Asleep'
  BY <1>0, Kinds DEF IInv, Core, Asleep, Loses, NoTabs
<1>3. Takes'
  BY <1>0, Kinds DEF IInv, Core, Takes, Loses
<1>4. Creates'
  BY DEF IInv, Core, Creates, Loses
<1>5. Queries'
  BY <1>0, Kinds DEF IInv, Core, Queries, Loses
<1>6. Releasing'
  <2>1. \A s \in Sessions : op[s].pc = "releasing" =>
           s \in Writers /\ drv'[s] = "closed" /\ op[s].t \in Tabs /\ bound'[s] \in {None, op[s].t}
    BY <1>0 DEF IInv, Core, Releasing, Loses
  <2>2. CASE writes' = writes
    BY <1>0, <2>1, <2>2 DEF IInv, Core, Releasing, Loses
  <2>3. ASSUME NEW ids, writes' = Append(writes, [ids |-> ids, by |-> "forget", s |-> None])
        PROVE  Releasing'
    <3>1. /\ Len(writes') = Len(writes) + 1 /\ writes'[Len(writes) + 1].by = "forget"
          /\ \A i \in 1..Len(writes) : writes'[i] = writes[i]
      BY <1>0, <2>3
    <3>2. \A i \in 1..Len(writes') : writes'[i].by # "forget" => i \in 1..Len(writes) /\ writes'[i] = writes[i]
      BY <1>0, <3>1
    <3> QED BY <1>0, <2>1, <3>2 DEF IInv, Core, Releasing, Loses
  <2> QED BY <2>2, <2>3 DEF Loses
<1>7. Held'
  BY <1>0 DEF IInv, Core, Held, Loses
<1>8. Kept'
  BY <1>0, Kinds DEF IInv, Core, TypeOK, Kept, Loses
<1>9. OneWriterPerTab'
  BY <1>0 DEF IInv, Core, OneWriterPerTab, Loses
<1>10. ReadersApart'
  BY <1>0 DEF IInv, Core, ReadersApart, WriterBound, Loses
<1>11. UncertainContained'
  BY <1>0, Kinds DEF IInv, Core, UncertainContained, Loses, TypeOK
<1> QED BY <1>1, <1>2, <1>3, <1>4, <1>5, <1>6, <1>7, <1>8, <1>9, <1>10, <1>11 DEF Core

\* A worker with empty maps.
Empty ==
  /\ bound = NoTabs /\ pool = {} /\ op = AllIdle /\ lockq = <<>> /\ unc = {}
  /\ \A i \in 1..Len(writes) : writes[i].by = "forget"

LEMMA EmptyIsSafe == ASSUME Empty' PROVE Core'
<1>1. /\ \A s \in Sessions : bound'[s] = None /\ op'[s].pc = "idle"
      /\ pool' = {} /\ unc' = {} /\ Len(lockq') = 0
  BY DEF Empty, NoTabs, AllIdle, Idle
<1>2. Writers \subseteq Sessions /\ Readers \subseteq Sessions
  BY DEF Sessions
<1>3. Queue' /\ Asleep'
  BY <1>1 DEF Empty, Queue, Asleep, Asking, Allocating
<1>4. Takes' /\ Creates' /\ Queries' /\ Releasing'
  BY <1>1 DEF Empty, Takes, Creates, Queries, Releasing
<1>5. Held' /\ Kept' /\ OneWriterPerTab' /\ ReadersApart' /\ UncertainContained'
  BY <1>1, <1>2 DEF Held, Kept, OneWriterPerTab, ReadersApart, UncertainContained
<1> QED BY <1>3, <1>4, <1>5 DEF Core

\* A worker that is not ready has no release, so its writes are of closed tabs.
LEMMA AsleepIsEmpty == ASSUME IInv, worker # "ready" PROVE Empty
<1>1. bound = NoTabs /\ pool = {} /\ op = AllIdle /\ lockq = <<>> /\ unc = {}
  BY DEF IInv, Core, Asleep
<1>2. \A s \in Sessions : op[s].pc = "idle"
  BY <1>1 DEF AllIdle, Idle
<1>3. \A i \in 1..Len(writes) : writes[i].by = "forget"
  BY <1>2 DEF IInv, Core, Releasing, Sessions
<1> QED BY <1>1, <1>3 DEF Empty
-----------------------------------------------------------------------------
(* Steps of the session that has the allocation lock.                      *)

\* Nobody else asks Chrome.
LEMMA OwnerAlone ==
  ASSUME IInv, NEW s \in Sessions, Owner(s)
  PROVE  \A q \in Sessions : Allocating(q) => q = s
BY DEF IInv, Core, Queue, Owner

\* The owner leaves the queue.
LEMMA OwnerLeaves ==
  ASSUME IInv, NEW s \in Sessions, Owner(s), Leave(s),
         \A q \in Sessions \ {s} : bound'[q] = bound[q]
  PROVE  /\ op'[s] = Idle /\ \A q \in Sessions \ {s} : op'[q] = op[q]
         /\ \A q \in Sessions : ~Allocating(q)' /\ (op'[q].pc = "releasing" => q # s)
         /\ Queue'
<1>0. /\ lockq \in Seq(Sessions) /\ op \in [Sessions -> Ops] /\ Len(lockq) > 0 /\ lockq[1] = s
      /\ lockq' = Tail(lockq)
  BY DEF IInv, TypeOK, Owner, Leave
<1>1. op'[s] = Idle /\ \A q \in Sessions \ {s} : op'[q] = op[q]
  BY <1>0 DEF Leave
<1>2. \A q \in Sessions : ~Allocating(q)' /\ (op'[q].pc = "releasing" => q # s)
  BY <1>1, OwnerAlone DEF Allocating, Idle
<1>3. /\ Len(lockq') = Len(lockq) - 1
      /\ \A i \in 1..Len(lockq') : lockq'[i] = lockq[i + 1]
  BY <1>0
<1>4. \A i, j \in 1..Len(lockq) : lockq[i] = lockq[j] => i = j
  BY DEF IInv, Core, Queue
<1>5. \A i, j \in 1..Len(lockq') : lockq'[i] = lockq'[j] => i = j
  <2> SUFFICES ASSUME NEW i \in 1..Len(lockq'), NEW j \in 1..Len(lockq'), lockq'[i] = lockq'[j]
               PROVE  i = j
    OBVIOUS
  <2>1. i + 1 \in 1..Len(lockq) /\ j + 1 \in 1..Len(lockq) /\ lockq[i + 1] = lockq[j + 1]
    BY <1>0, <1>3
  <2> QED BY <2>1, <1>4
<1>6. ASSUME NEW q \in Sessions
      PROVE  Asking(q)' <=> \E i \in 1..Len(lockq') : lockq'[i] = q
  <2>1. CASE q = s
    <3>1. \A i \in 1..Len(lockq') : i + 1 \in 1..Len(lockq) /\ 1 \in 1..Len(lockq)
      BY <1>0, <1>3
    <3>2. \A i \in 1..Len(lockq') : lockq'[i] # s
      BY <1>0, <1>3, <1>4, <3>1
    <3> QED BY <1>1, <2>1, <3>2 DEF Asking, Idle
  <2>2. CASE q # s
    <3>1. Asking(q)' <=> \E i \in 1..Len(lockq) : lockq[i] = q
      BY <1>1, <2>2 DEF Asking, IInv, Core, Queue
    <3>2. ASSUME NEW i \in 1..Len(lockq), lockq[i] = q
          PROVE  \E j \in 1..Len(lockq') : lockq'[j] = q
      <4>1. i - 1 \in 1..Len(lockq') /\ lockq'[i - 1] = q
        BY <1>0, <1>3, <2>2, <3>2
      <4> QED BY <4>1
    <3>3. ASSUME NEW i \in 1..Len(lockq'), lockq'[i] = q
          PROVE  \E j \in 1..Len(lockq) : lockq[j] = q
      <4>1. i + 1 \in 1..Len(lockq) /\ lockq[i + 1] = q
        BY <1>0, <1>3, <3>3
      <4> QED BY <4>1
    <3> QED BY <3>1, <3>2, <3>3
  <2> QED BY <2>1, <2>2
<1> QED BY <1>1, <1>2, <1>5, <1>6 DEF Queue

\* What every allocation leaves alone.
Calm == UNCHANGED <<worker, drv, quar, unc, writes>>

\* It leaves with what it had, or with a tab nobody else may have.
LEMMA LeavesKeeps ==
  ASSUME IInv, NEW s \in Sessions, Owner(s), Leave(s), worker = "ready", Calm, pool' = pool,
         NEW t \in Tabs \cup {None}, bound' = [bound EXCEPT ![s] = t],
         \/ t = bound[s]
         \/ /\ bound[s] = None /\ t \in Tabs \ (pool \cup unc) /\ s \in Writers
            /\ \A q \in Sessions : bound[q] # t
         \/ /\ bound[s] = None /\ t \in Tabs \ (pool \cup quar \cup unc) /\ s \in Readers
            /\ \A w \in Writers : bound[w] # t,
         \A u \in unc : tab'[u] = tab[u]
  PROVE  Core'
<1>0. /\ bound \in [Sessions -> Tabs \cup {None}] /\ op \in [Sessions -> Ops]
      /\ writes \in Seq(Writes) /\ Writers \subseteq Sessions /\ Readers \subseteq Sessions
      /\ unc \subseteq Tabs
  BY DEF IInv, TypeOK, Sessions
<1>1. /\ op'[s] = Idle /\ \A q \in Sessions \ {s} : op'[q] = op[q]
      /\ \A q \in Sessions : ~Allocating(q)' /\ (op'[q].pc = "releasing" => q # s)
      /\ Queue'
  BY <1>0, OwnerLeaves
<1>2. bound'[s] = t /\ \A q \in Sessions \ {s} : bound'[q] = bound[q]
  BY <1>0
<1>3. op[s].pc # "releasing"
  BY DEF IInv, Core, Queue, Asking, Owner, TypeOK
<1>4. Asleep' /\ Takes' /\ Creates' /\ Queries'
  BY <1>1 DEF Calm, Asleep, Takes, Creates, Queries, Allocating
<1>5. Releasing'
  BY <1>0, <1>1, <1>2, <1>3 DEF IInv, Core, Releasing, Calm
<1>6. Held'
  BY <1>0, <1>1, <1>2, <1>3 DEF IInv, Core, Held
<1>7. Kept'
  BY <1>0, <1>1, <1>2, <1>3, Kinds DEF IInv, Core, Kept, UncertainContained, Calm
<1>8. OneWriterPerTab'
  BY <1>0, <1>2, Kinds DEF IInv, Core, OneWriterPerTab
<1>9. ReadersApart'
  BY <1>0, <1>2, Kinds DEF IInv, Core, ReadersApart, WriterBound, Calm
<1>10. UncertainContained'
  BY <1>0, <1>1, <1>2, <1>3, Kinds DEF IInv, Core, UncertainContained, Calm
<1> QED BY <1>1, <1>4, <1>5, <1>6, <1>7, <1>8, <1>9, <1>10 DEF Core

\* It goes on to ask Chrome: about a tab of the pool, for a new tab, or, when it
\* is a reader, for the tabs there are.
LEMMA AsksKeeps ==
  ASSUME IInv, NEW s \in Sessions, Owner(s), worker = "ready", Calm,
         UNCHANGED <<tab, bound, lockq>>, pool' \subseteq pool, bound[s] = None,
         NEW f \in Ops, op' = [op EXCEPT ![s] = f],
         \/ /\ f.pc = "taking" /\ s \in Writers /\ f.t \in Tabs \ (f.excl \cup pool' \cup unc)
            /\ \A q \in Sessions : bound[q] # None => bound[q] \in f.excl
         \/ f.pc = "creating" /\ s \in Writers
         \/ /\ f.pc = "querying" /\ s \in Readers /\ pool \cup quar \cup unc \subseteq f.excl
            /\ \A w \in Writers : bound[w] # None => bound[w] \in f.excl
  PROVE  Core'
<1>0. /\ op \in [Sessions -> Ops] /\ writes \in Seq(Writes)
      /\ Writers \subseteq Sessions /\ Readers \subseteq Sessions
  BY DEF IInv, TypeOK, Sessions
<1>1. op'[s] = f /\ \A q \in Sessions \ {s} : op'[q] = op[q]
  BY <1>0
<1>2. Asking(s) /\ op[s].pc # "releasing"
  BY DEF IInv, Core, Queue, Asking, Owner, TypeOK
<1>3. \A q \in Sessions : Allocating(q)' => q = s
  BY <1>1, OwnerAlone DEF Allocating
<1>4. Queue'
  <2>1. \A q \in Sessions : Asking(q)' <=> Asking(q)
    BY <1>1, <1>2 DEF Asking
  <2>2. \A q \in Sessions : Allocating(q)' => Owner(q)' /\ bound'[q] = None
    BY <1>3 DEF Owner
  <2> QED BY <2>1, <2>2 DEF IInv, Core, Queue
<1>5. Asleep'
  BY DEF Asleep, Calm
<1>6. Takes' /\ Creates' /\ Queries'
  BY <1>1, <1>3 DEF Takes, Creates, Queries, Allocating, Calm
<1>7. Releasing'
  BY <1>0, <1>1, <1>2 DEF IInv, Core, Releasing, Calm
<1>8. Held' /\ Kept' /\ OneWriterPerTab' /\ ReadersApart'
  BY <1>0, <1>1, <1>2
     DEF IInv, Core, Held, Kept, OneWriterPerTab, ReadersApart, WriterBound, Calm
<1>9. UncertainContained'
  BY <1>0, <1>1, <1>2 DEF IInv, Core, UncertainContained, Calm
<1> QED BY <1>4, <1>5, <1>6, <1>7, <1>8, <1>9 DEF Core

\* A session joins the queue.
LEMMA OpenStartKeeps == ASSUME IInv, NEW s \in Sessions, OpenStart(s) PROVE Core'
<1> USE DEF OpenStart, Ready
<1>0. /\ op \in [Sessions -> Ops] /\ writes \in Seq(Writes) /\ lockq \in Seq(Sessions)
      /\ Writers \subseteq Sessions /\ Readers \subseteq Sessions
      /\ drv \in [Writers -> {"closed", "clean", "dirty"}]
  BY DEF IInv, TypeOK, Sessions
<1>1. /\ op'[s].pc = "open" /\ \A q \in Sessions \ {s} : op'[q] = op[q]
      /\ op[s].pc = "idle"
  BY <1>0 DEF Ops, Idle
<1>2. /\ Len(lockq') = Len(lockq) + 1 /\ lockq'[Len(lockq) + 1] = s
      /\ \A i \in 1..Len(lockq) : lockq'[i] = lockq[i]
  BY <1>0
<1>3. \A i \in 1..Len(lockq) : lockq[i] # s
  BY <1>1 DEF IInv, Core, Queue, Asking
<1>4. Queue'
  <2>1. \A i, j \in 1..Len(lockq') : lockq'[i] = lockq'[j] => i = j
    BY <1>0, <1>2, <1>3 DEF IInv, Core, Queue
  <2>2. ASSUME NEW q \in Sessions
        PROVE  Asking(q)' <=> \E i \in 1..Len(lockq') : lockq'[i] = q
    <3>1. CASE q = s
      BY <1>0, <1>1, <1>2, <3>1 DEF Asking
    <3>2. CASE q # s
      <4>1. Asking(q)' <=> \E i \in 1..Len(lockq) : lockq[i] = q
        BY <1>1, <3>2 DEF Asking, IInv, Core, Queue
      <4>2. (\E i \in 1..Len(lockq) : lockq[i] = q) <=> \E i \in 1..Len(lockq') : lockq'[i] = q
        BY <1>0, <1>2, <3>2
      <4> QED BY <4>1, <4>2
    <3> QED BY <3>1, <3>2
  <2>3. \A q \in Sessions : Allocating(q)' => Owner(q)' /\ bound'[q] = None
    <3>1. ASSUME NEW q \in Sessions, Allocating(q)' PROVE Owner(q) /\ bound[q] = None
      BY <1>1, <3>1 DEF Allocating, IInv, Core, Queue
    <3>2. \A q \in Sessions : Owner(q) => Owner(q)'
      BY <1>0, <1>2 DEF Owner
    <3> QED BY <3>1, <3>2
  <2> QED BY <2>1, <2>2, <2>3 DEF Queue
<1>5. Asleep' /\ Takes' /\ Creates' /\ Queries'
  BY <1>0, <1>1 DEF IInv, Core, Asleep, Takes, Creates, Queries
<1>6. \A w \in Writers : drv'[w] = drv[w] \/ (w = s /\ drv'[w] = "clean" /\ drv[w] = "closed")
  BY <1>0
<1>7. Releasing'
  BY <1>0, <1>1, <1>6 DEF IInv, Core, Releasing
<1>8. Held' /\ Kept' /\ OneWriterPerTab' /\ ReadersApart'
  BY <1>0, <1>1, <1>6 DEF IInv, Core, Held, Kept, OneWriterPerTab, ReadersApart, WriterBound
<1>9. UncertainContained'
  BY <1>0, <1>1, <1>6 DEF IInv, Core, UncertainContained
<1> QED BY <1>4, <1>5, <1>7, <1>8, <1>9 DEF Core
-----------------------------------------------------------------------------
(* Steps of the releases and of their writes.                              *)

\* The oldest write ends, and its release with it.
LEMMA WriteKeeps ==
  ASSUME IInv, NEW ok \in BOOLEAN, writes # <<>>, Resume(Head(writes), ok), writes' = Tail(writes),
         UNCHANGED <<tab, drv, worker, pool, quar, lockq>>
  PROVE  Core'
<1> DEFINE w == Head(writes)
<1>0. /\ op \in [Sessions -> Ops] /\ writes \in Seq(Writes) /\ bound \in [Sessions -> Tabs \cup {None}]
      /\ Writers \subseteq Sessions /\ Readers \subseteq Sessions
  BY DEF IInv, TypeOK, Sessions
<1>1. /\ w = writes[1] /\ w \in Writes /\ 1 \in 1..Len(writes)
      /\ Len(writes') = Len(writes) - 1
      /\ \A i \in 1..Len(writes') : i + 1 \in 1..Len(writes) /\ writes'[i] = writes[i + 1]
  BY <1>0
<1>2. CASE w.by = "forget"
  <2>1. UNCHANGED <<bound, op, unc>>
    BY <1>2 DEF Resume
  <2>2. Releasing'
    <3>1. \A i \in 1..Len(writes') : writes'[i].by # "forget" =>
             /\ writes'[i].s \in Writers /\ op'[writes'[i].s].pc = "releasing"
             /\ writes'[i].by = "strict" /\ bound'[writes'[i].s] # None => op'[writes'[i].s].t \notin pool'
      BY <1>1, <2>1 DEF IInv, Core, Releasing
    <3>2. \A i, j \in 1..Len(writes') :
             writes'[i].by # "forget" /\ writes'[j].by # "forget" /\ writes'[i].s = writes'[j].s => i = j
      <4> SUFFICES ASSUME NEW i \in 1..Len(writes'), NEW j \in 1..Len(writes'),
                          writes'[i].by # "forget", writes'[j].by # "forget", writes'[i].s = writes'[j].s
                   PROVE  i = j
        OBVIOUS
      <4>1. i + 1 = j + 1
        BY <1>1 DEF IInv, Core, Releasing
      <4> QED BY <4>1
    <3> QED BY <2>1, <3>1, <3>2 DEF IInv, Core, Releasing
  <2>3. Queue' /\ Asleep' /\ Takes' /\ Creates' /\ Queries' /\ Held' /\ Kept'
    BY <2>1 DEF IInv, Core, Queue, Asking, Allocating, Owner, Asleep, Takes, Creates, Queries, Held, Kept
  <2>4. OneWriterPerTab' /\ ReadersApart' /\ UncertainContained'
    BY <2>1 DEF IInv, Core, OneWriterPerTab, ReadersApart, WriterBound, UncertainContained
  <2> QED BY <2>2, <2>3, <2>4 DEF Core
<1>3. CASE w.by # "forget"
  <2>1. /\ w.s \in Writers /\ w.s \in Sessions /\ op[w.s].pc = "releasing" /\ drv[w.s] = "closed"
        /\ bound[w.s] \in {None, op[w.s].t}
        /\ w.by = "strict" /\ bound[w.s] # None => op[w.s].t \notin pool
    BY <1>0, <1>1, <1>3 DEF IInv, Core, Releasing
  <2>2. worker = "ready"
    BY <2>1 DEF IInv, Core, Asleep, AllIdle, Idle
  <2>3. /\ op' = [op EXCEPT ![w.s] = Idle]
        /\ \/ w.by = "strict" /\ ~ok /\ unc' = unc \ {op[w.s].t} /\ bound' = bound
           \/ ~(w.by = "strict" /\ ~ok) /\ unc' = unc /\ bound' = [bound EXCEPT ![w.s] = None]
    BY <1>3 DEF Resume
  <2>4. /\ op'[w.s].pc = "idle" /\ \A q \in Sessions \ {w.s} : op'[q] = op[q]
        /\ \A q \in Sessions \ {w.s} : bound'[q] = bound[q]
        /\ \/ bound'[w.s] = None
           \/ w.by = "strict" /\ bound'[w.s] = bound[w.s] /\ unc' = unc \ {op[w.s].t}
        /\ unc' \subseteq unc
    BY <1>0, <2>1, <2>3 DEF Idle
  <2> HIDE DEF w
  <2>5. Queue'
    BY <2>1, <2>4, Kinds DEF IInv, Core, Queue, Asking, Allocating, Owner
  <2>6. Asleep' /\ Takes' /\ Creates' /\ Queries'
    BY <1>0, <2>1, <2>2, <2>4 DEF IInv, Core, Asleep, Takes, Creates, Queries
  <2>7. Releasing'
    <3>1. \A q \in Sessions : op'[q].pc = "releasing" =>
             q \in Writers /\ drv'[q] = "closed" /\ op'[q].t \in Tabs /\ bound'[q] \in {None, op'[q].t}
      BY <2>1, <2>4 DEF IInv, Core, Releasing
    <3>2. \A i \in 1..Len(writes') : writes'[i].by # "forget" =>
             /\ writes'[i].s \in Writers /\ op[writes'[i].s].pc = "releasing" /\ writes'[i].s # w.s
             /\ writes'[i].by = "strict" /\ bound[writes'[i].s] # None => op[writes'[i].s].t \notin pool
      <4> SUFFICES ASSUME NEW i \in 1..Len(writes'), writes'[i].by # "forget"
                   PROVE  /\ writes'[i].s \in Writers /\ op[writes'[i].s].pc = "releasing" /\ writes'[i].s # w.s
                          /\ writes'[i].by = "strict" /\ bound[writes'[i].s] # None
                               => op[writes'[i].s].t \notin pool
        OBVIOUS
      <4>1. i + 1 # 1 /\ i + 1 \in 1..Len(writes) /\ writes'[i] = writes[i + 1]
        BY <1>1
      <4> QED BY <1>1, <1>3, <4>1 DEF IInv, Core, Releasing
    <3>3. \A i, j \in 1..Len(writes') :
             writes'[i].by # "forget" /\ writes'[j].by # "forget" /\ writes'[i].s = writes'[j].s => i = j
      <4> SUFFICES ASSUME NEW i \in 1..Len(writes'), NEW j \in 1..Len(writes'),
                          writes'[i].by # "forget", writes'[j].by # "forget", writes'[i].s = writes'[j].s
                   PROVE  i = j
        OBVIOUS
      <4>1. i + 1 = j + 1
        BY <1>1 DEF IInv, Core, Releasing
      <4> QED BY <4>1
    <3>4. \A i \in 1..Len(writes') : writes'[i].by # "forget" =>
             /\ writes'[i].s \in Writers /\ op'[writes'[i].s].pc = "releasing"
             /\ writes'[i].by = "strict" /\ bound'[writes'[i].s] # None => op'[writes'[i].s].t \notin pool'
      BY <1>0, <2>4, <3>2
    <3> QED BY <3>1, <3>3, <3>4 DEF Releasing
  <2>8. Held'
    BY <1>0, <2>1, <2>4 DEF IInv, Core, Held
  <2>9. Kept'
    BY <1>0, <2>1, <2>4 DEF IInv, Core, Kept
  <2>10. OneWriterPerTab' /\ ReadersApart'
    BY <1>0, <2>1, <2>4 DEF IInv, Core, OneWriterPerTab, ReadersApart, WriterBound
  <2>11. UncertainContained'
    BY <1>0, <2>1, <2>4, Kinds DEF IInv, Core, UncertainContained, TypeOK
  <2> QED BY <2>5, <2>6, <2>7, <2>8, <2>9, <2>10, <2>11 DEF Core
<1> QED BY <1>2, <1>3

\* A delivery stays uncertain: its tab is its writer's alone.
LEMMA UncertainKeeps == ASSUME IInv, NEW s \in Sessions, Uncertain(s) PROVE Core'
<1> USE DEF Uncertain, Ready
<1>0. /\ drv \in [Writers -> {"closed", "clean", "dirty"}] /\ bound \in [Sessions -> Tabs \cup {None}]
      /\ Writers \subseteq Sessions /\ Readers \subseteq Sessions /\ op \in [Sessions -> Ops]
      /\ bound[s] \in Tabs /\ op[s].pc = "idle"
  BY DEF IInv, TypeOK, Sessions, Idle
<1>1. drv'[s] = "dirty" /\ \A w \in Writers \ {s} : drv'[w] = drv[w]
  BY <1>0
<1>2. bound[s] \notin pool /\ \A q \in Sessions \ {s} : bound[q] # bound[s]
  BY <1>0, Kinds DEF IInv, Core, Held, OneWriterPerTab, ReadersApart, WriterBound, Sessions
<1>3. Queue' /\ Asleep' /\ Creates' /\ Held' /\ OneWriterPerTab' /\ ReadersApart'
  BY DEF IInv, Core, Queue, Asking, Allocating, Owner, Asleep, Creates, Held, OneWriterPerTab,
         ReadersApart, WriterBound
<1>4. Takes' /\ Queries'
  BY <1>0, <1>2 DEF IInv, Core, Takes, Queries
<1>5. Releasing'
  BY <1>0, <1>1 DEF IInv, Core, Releasing
<1>6. Kept' /\ UncertainContained'
  BY <1>0, <1>1, <1>2 DEF IInv, Core, Kept, UncertainContained
<1> QED BY <1>3, <1>4, <1>5, <1>6 DEF Core

\* A writer gives its tab back: only its own tab enters the pool or the quarantine.
LEMMA ReleaseKeeps == ASSUME IInv, NEW s \in Sessions, Release(s) PROVE Core'
<1> DEFINE t == bound[s]
<1>0. /\ drv \in [Writers -> {"closed", "clean", "dirty"}] /\ bound \in [Sessions -> Tabs \cup {None}]
      /\ Writers \subseteq Sessions /\ Readers \subseteq Sessions /\ op \in [Sessions -> Ops]
      /\ writes \in Seq(Writes) /\ unc \subseteq Tabs
      /\ t \in Tabs /\ op[s].pc = "idle" /\ s \in Writers /\ worker = "ready"
  BY DEF IInv, TypeOK, Sessions, Idle, Release, Ready
<1>1. /\ op'[s].pc = "releasing" /\ op'[s].t = t /\ \A q \in Sessions \ {s} : op'[q] = op[q]
      /\ drv'[s] = "closed" /\ \A w \in Writers \ {s} : drv'[w] = drv[w]
      /\ UNCHANGED <<tab, worker, bound, lockq, unc>>
  BY <1>0 DEF Release, Idle
<1>2. /\ pool' \subseteq pool \cup {t} /\ quar' \subseteq quar \cup {t} /\ quar \subseteq quar' \cup {t}
      /\ drv[s] = "dirty" => t \notin pool' /\ t \in quar'
      /\ \E ids : writes' = Append(writes,
           [ids |-> ids, by |-> IF drv[s] = "dirty" THEN "strict" ELSE "lax", s |-> s])
  <2>1. CASE drv[s] = "dirty"
    BY <2>1 DEF Release, Persist
  <2>2. CASE drv[s] # "dirty"
    BY <2>2 DEF Release, Persist, Remember
  <2> QED BY <2>1, <2>2
<1>3. \A q \in Sessions \ {s} : bound[q] # t
  BY <1>0, Kinds DEF IInv, Core, OneWriterPerTab, ReadersApart, WriterBound, Sessions
<1>4. t \in unc => drv[s] = "dirty"
  BY <1>0 DEF IInv, Core, UncertainContained
<1>5. Queue' /\ Asleep' /\ Creates'
  BY <1>0, <1>1 DEF IInv, Core, Queue, Asking, Allocating, Owner, Asleep, Creates
<1>6. Takes'
  BY <1>0, <1>1, <1>2, Kinds DEF IInv, Core, Takes
<1>7. Queries'
  <2> SUFFICES ASSUME NEW q \in Sessions, op'[q].pc = "querying"
               PROVE  /\ q \in Readers
                      /\ pool' \cup quar' \cup unc' \subseteq op'[q].excl
                      /\ \A w \in Writers : bound'[w] # None => bound'[w] \in op'[q].excl
    BY DEF Queries
  <2>1. op'[q] = op[q] /\ op[q].pc = "querying"
    BY <1>1
  <2>2. /\ q \in Readers /\ pool \cup quar \cup unc \subseteq op[q].excl
        /\ \A w \in Writers : bound[w] # None => bound[w] \in op[q].excl
    BY <2>1 DEF IInv, Core, Queries
  <2>3. t \in op[q].excl
    BY <1>0, <2>2, Kinds
  <2> QED BY <1>1, <1>2, <2>1, <2>2, <2>3
<1>8. Releasing'
  <2>1. \A q \in Sessions : op'[q].pc = "releasing" =>
           q \in Writers /\ drv'[q] = "closed" /\ op'[q].t \in Tabs /\ bound'[q] \in {None, op'[q].t}
    BY <1>0, <1>1 DEF IInv, Core, Releasing
  <2>2. /\ Len(writes') = Len(writes) + 1
        /\ writes'[Len(writes) + 1].s = s
        /\ writes'[Len(writes) + 1].by = "strict" => t \notin pool'
        /\ \A i \in 1..Len(writes) : writes'[i] = writes[i]
    BY <1>0, <1>2
  <2>3. \A i \in 1..Len(writes) : writes[i].by # "forget" =>
           /\ writes[i].s \in Writers /\ op[writes[i].s].pc = "releasing" /\ writes[i].s # s
           /\ writes[i].by = "strict" /\ bound[writes[i].s] # None => op[writes[i].s].t \notin pool'
    BY <1>0, <1>2, <1>3 DEF IInv, Core, Releasing
  <2>4. \A i \in 1..Len(writes') : writes'[i].by # "forget" =>
           /\ writes'[i].s \in Writers /\ op'[writes'[i].s].pc = "releasing"
           /\ writes'[i].by = "strict" /\ bound'[writes'[i].s] # None => op'[writes'[i].s].t \notin pool'
    <3> SUFFICES ASSUME NEW i \in 1..Len(writes'), writes'[i].by # "forget"
                 PROVE  /\ writes'[i].s \in Writers /\ op'[writes'[i].s].pc = "releasing"
                        /\ writes'[i].by = "strict" /\ bound'[writes'[i].s] # None
                             => op'[writes'[i].s].t \notin pool'
      OBVIOUS
    <3>1. CASE i = Len(writes) + 1
      BY <1>0, <1>1, <2>2, <3>1
    <3>2. CASE i \in 1..Len(writes)
      BY <1>0, <1>1, <2>2, <2>3, <3>2
    <3> QED BY <1>0, <2>2, <3>1, <3>2
  <2>5. \A i, j \in 1..Len(writes') :
           writes'[i].by # "forget" /\ writes'[j].by # "forget" /\ writes'[i].s = writes'[j].s => i = j
    <3>1. \A i, j \in 1..Len(writes) :
             writes[i].by # "forget" /\ writes[j].by # "forget" /\ writes[i].s = writes[j].s => i = j
      BY DEF IInv, Core, Releasing
    <3> QED BY <1>0, <2>2, <2>3, <3>1
  <2> QED BY <2>1, <2>4, <2>5 DEF Releasing
<1>9. Held'
  BY <1>0, <1>1, <1>2, <1>3 DEF IInv, Core, Held
<1>10. Kept'
  BY <1>0, <1>1, <1>2, <1>4 DEF IInv, Core, Kept
<1>11. OneWriterPerTab' /\ ReadersApart'
  BY <1>0, <1>1, <1>2, <1>3, Kinds DEF IInv, Core, OneWriterPerTab, ReadersApart, WriterBound
<1>12. UncertainContained'
  BY <1>0, <1>1, <1>2, <1>4 DEF IInv, Core, UncertainContained
<1> QED BY <1>5, <1>6, <1>7, <1>8, <1>9, <1>10, <1>11, <1>12 DEF Core
-----------------------------------------------------------------------------
(* The other steps.                                                        *)

\* The worker forgets a tab, is restored or dies; a tab is closed.
LEMMA ForgetKeeps ==
  ASSUME IInv, NEW t \in Tabs, Forget(t), t \notin unc', unc' \subseteq unc,
         \A u \in unc' : tab'[u] # "closed",
         \/ worker = "ready" /\ worker' = worker
         \/ worker # "ready" /\ worker' # "ready",
         UNCHANGED <<drv, lockq, op>>
  PROVE  Core'
<1>0. bound \in [Sessions -> Tabs \cup {None}]
  BY DEF IInv, TypeOK
<1>1. bound' \in [Sessions -> Tabs \cup {None}]
  BY <1>0 DEF Forget
<1>2. CASE worker = "ready"
  <2>0. \E ids : writes' = Append(writes, [ids |-> ids, by |-> "forget", s |-> None])
    BY DEF Forget, Persist
  <2>1. \A s \in Sessions : bound'[s] = IF bound[s] = t THEN None ELSE bound[s]
    BY DEF Forget
  <2>2. \A u \in unc' : /\ tab'[u] # "closed" /\ (u \in quar => u \in quar')
                       /\ \A w \in Writers : bound[w] = u => bound'[w] = u
    BY <2>1 DEF Forget, Sessions
  <2>3. /\ pool' \subseteq pool /\ quar' \subseteq quar
        /\ \A s \in Sessions : bound'[s] \in {None, bound[s]}
    BY <2>1 DEF Forget
  <2>4. Loses
    BY <1>2, <2>0, <2>2, <2>3 DEF Loses
  <2> QED BY <1>1, <2>4, LosesKeeps
<1>3. CASE worker # "ready"
  <2>0. Empty /\ writes \in Seq(Writes)
    BY <1>3, AsleepIsEmpty DEF IInv, TypeOK
  <2>1. bound' = NoTabs /\ pool' = {} /\ op' = AllIdle /\ lockq' = <<>> /\ unc' = {}
    BY <2>0 DEF Forget, Empty, NoTabs
  <2>2. \A i \in 1..Len(writes') : writes'[i].by = "forget"
    BY <2>0 DEF Forget, Persist, Empty
  <2> QED BY <2>1, <2>2, EmptyIsSafe DEF Empty
<1> QED BY <1>2, <1>3

LEMMA RestoreKeeps == ASSUME IInv, Restore \/ RestoreFails \/ Kill PROVE Core'
<1>1. CASE Restore \/ RestoreFails
  <2>1. Empty
    BY <1>1, AsleepIsEmpty DEF Restore, RestoreFails
  <2>2. Empty'
    BY <1>1, <2>1 DEF Restore, RestoreFails, Empty
  <2> QED BY <2>2, EmptyIsSafe
<1>2. CASE Kill
  <2>1. Empty'
    BY <1>2 DEF Kill, Empty
  <2> QED BY <2>1, EmptyIsSafe
<1> QED BY <1>1, <1>2

LEMMA TabKeeps ==
  ASSUME IInv, NEW t \in Tabs, UserCloses(t) \/ UserLeaves(t) \/ Removed(t) \/ RemovedWakes(t)
  PROVE  Core'
<1>0. /\ bound \in [Sessions -> Tabs \cup {None}] /\ unc \subseteq Tabs
      /\ tab \in [Tabs -> {"absent", "chat", "away", "closed"}]
      /\ \A u \in unc : tab[u] # "closed"
  BY DEF IInv, TypeOK, Core, Kept
<1>1. CASE UserCloses(t) \/ UserLeaves(t)
  <2>1. \A u \in unc' : tab'[u] # "closed"
    BY <1>0, <1>1 DEF UserCloses, UserLeaves
  <2>2. Loses
    BY <1>0, <1>1, <2>1 DEF UserCloses, UserLeaves, Loses
  <2> QED BY <1>0, <1>1, <2>2, LosesKeeps DEF UserCloses, UserLeaves
<1>2. CASE Removed(t)
  <2>1. t \notin unc /\ UNCHANGED <<tab, worker, drv, lockq, op, unc>> /\ Forget(t)
    BY <1>0, <1>2 DEF Removed, IInv, Known
  <2> QED BY <1>0, <2>1, ForgetKeeps
<1>3. CASE RemovedWakes(t)
  <2>1. /\ t \notin unc /\ UNCHANGED <<tab, drv, lockq, op, unc>> /\ Forget(t)
        /\ worker # "ready" /\ worker' # "ready"
    BY <1>0, <1>3 DEF RemovedWakes, IInv, Known
  <2> QED BY <1>0, <2>1, ForgetKeeps
<1> QED BY <1>1, <1>2, <1>3

\* Steps of a session outside the allocation, and of the worker.
LEMMA LightKeeps ==
  ASSUME IInv,
         \/ Wake \/ Pair \/ ListTabs
         \/ \E s \in Sessions : ReleaseUnbound(s) \/ MeetClosed(s) \/ CloseTab(s)
  PROVE  Core'
<1>0. /\ bound \in [Sessions -> Tabs \cup {None}] /\ unc \subseteq Tabs
      /\ tab \in [Tabs -> {"absent", "chat", "away", "closed"}]
      /\ drv \in [Writers -> {"closed", "clean", "dirty"}]
      /\ Writers \subseteq Sessions /\ Readers \subseteq Sessions
      /\ \A u \in unc : tab[u] # "closed"
  BY DEF IInv, TypeOK, Core, Kept, Sessions
<1>1. CASE Wake \/ Pair
  <2>1. Loses
    BY <1>0, <1>1 DEF Wake, Pair, Loses
  <2> QED BY <1>0, <1>1, <2>1, LosesKeeps DEF Wake, Pair
<1>2. CASE ListTabs
  <2>1. \A s \in Sessions : bound'[s] = IF bound[s] # None /\ tab[bound[s]] = "closed" THEN None ELSE bound[s]
    BY <1>2 DEF ListTabs
  <2>2. \A w \in Writers, t \in unc' : bound[w] = t => bound'[w] = t
    BY <1>0, <1>2, <2>1 DEF ListTabs
  <2>3. Loses
    BY <1>0, <1>2, <2>1, <2>2 DEF ListTabs, Loses
  <2>4. bound' \in [Sessions -> Tabs \cup {None}]
    BY <1>0, <1>2 DEF ListTabs
  <2> QED BY <2>3, <2>4, LosesKeeps
<1>3. ASSUME NEW s \in Sessions, ReleaseUnbound(s) PROVE Core'
  <2>1. CASE s \in Readers /\ bound' = [bound EXCEPT ![s] = None] /\ UNCHANGED drv
    <3>1. Loses
      BY <1>0, <1>3, <2>1, Kinds DEF ReleaseUnbound, Loses
    <3> QED BY <1>0, <2>1, <3>1, LosesKeeps
  <2>2. CASE s \in Writers /\ bound[s] = None /\ drv' = [drv EXCEPT ![s] = "closed"] /\ UNCHANGED bound
    <3>1. Loses
      BY <1>0, <1>3, <2>2, Kinds DEF ReleaseUnbound, Loses
    <3> QED BY <1>0, <2>2, <3>1, LosesKeeps
  <2> QED BY <1>3, <2>1, <2>2 DEF ReleaseUnbound
<1>4. ASSUME NEW s \in Sessions, MeetClosed(s) PROVE Core'
  <2>1. /\ bound[s] \in Tabs /\ bound[s] \notin unc /\ Forget(bound[s]) /\ worker = "ready"
        /\ UNCHANGED <<tab, worker, drv, lockq, op, unc>>
    BY <1>0, <1>4 DEF MeetClosed, Ready
  <2> QED BY <1>0, <2>1, ForgetKeeps
<1>5. ASSUME NEW s \in Sessions, CloseTab(s) PROVE Core'
  <2>1. /\ bound[s] \in Tabs /\ Forget(bound[s]) /\ worker = "ready" /\ unc' = unc \ {bound[s]}
        /\ UNCHANGED <<worker, drv, lockq, op>> /\ tab' = [tab EXCEPT ![bound[s]] = "closed"]
    BY <1>0, <1>5 DEF CloseTab, Ready
  <2>2. \A u \in unc' : tab'[u] # "closed"
    BY <1>0, <2>1
  <2> QED BY <1>0, <2>1, <2>2, ForgetKeeps
<1> QED BY <1>1, <1>2, <1>3, <1>4, <1>5

\* The owner binds a tab that Chrome has just created, or none.
LEMMA CreateKeeps ==
  ASSUME IInv, NEW s \in Sessions, Owner(s), worker = "ready", Calm, pool' = pool, bound[s] = None,
         Create(s) \/ CreateFails(s)
  PROVE  Core'
<1>0. /\ bound \in [Sessions -> Tabs \cup {None}] /\ unc \subseteq Tabs
      /\ tab \in [Tabs -> {"absent", "chat", "away", "closed"}]
      /\ Writers \subseteq Sessions /\ s \in Writers \cup Readers
  BY DEF IInv, TypeOK, Sessions
<1>1. CASE Create(s)
  <2> DEFINE t == CHOOSE u \in Tabs : tab[u] = "absent"
  <2>1. t \in Tabs /\ tab[t] = "absent"
    BY <1>1 DEF Create
  <2>2. t \notin pool \cup quar \cup unc /\ \A q \in Sessions : bound[q] # t
    BY <2>1 DEF IInv, Known
  <2>3. /\ Leave(s) /\ bound' = [bound EXCEPT ![s] = t] /\ tab' = [tab EXCEPT ![t] = "chat"]
    BY <1>1 DEF Create
  <2>4. \A u \in unc : tab'[u] = tab[u]
    BY <1>0, <2>2, <2>3
  <2> HIDE DEF t
  <2> QED BY <1>0, <2>1, <2>2, <2>3, <2>4, LeavesKeeps
<1>2. CASE CreateFails(s)
  <2>1. Leave(s) /\ bound' = [bound EXCEPT ![s] = bound[s]] /\ bound[s] \in Tabs \cup {None}
    BY <1>0, <1>2 DEF CreateFails
  <2> QED BY <1>2, <2>1, LeavesKeeps DEF CreateFails
<1> QED BY <1>1, <1>2

\* The owner walks through the pool, leaving out at least what is bound.
LEMMA WalkKeeps ==
  ASSUME IInv, NEW s \in Writers, Owner(s), worker = "ready", Calm, UNCHANGED <<tab, bound, lockq>>,
         bound[s] = None, NEW rest \in SUBSET Tabs, NEW excl \in SUBSET Tabs, Walk(s, rest, excl),
         \A q \in Sessions : bound[q] # None => bound[q] \in excl
  PROVE  Core'
<1>0. s \in Sessions /\ unc \subseteq Tabs /\ pool \subseteq Tabs
  BY DEF Sessions, IInv, TypeOK
<1>1. ASSUME NEW t \in rest \ (excl \cup quar), NEW skipped \in SUBSET rest,
             pool' = pool \ (skipped \cup {t}),
             op' = [op EXCEPT ![s] = [pc |-> "taking", t |-> t,
                                      rest |-> rest \ (skipped \cup {t}), excl |-> excl]]
      PROVE  Core'
  <2> DEFINE f == [pc |-> "taking", t |-> t, rest |-> rest \ (skipped \cup {t}), excl |-> excl]
  <2>1. f \in Ops
    BY DEF Ops
  <2>2. t \notin unc
    \* An uncertain tab is quarantined, or still bound to its writer.
    BY <1>0, Kinds DEF IInv, Core, Kept, Sessions
  <2>3. f.pc = "taking" /\ f.t \in Tabs \ (f.excl \cup pool' \cup unc) /\ f.excl = excl
    BY <1>1, <2>2
  <2>4. op' = [op EXCEPT ![s] = f] /\ pool' \subseteq pool
    BY <1>1
  <2> HIDE DEF f
  <2> QED BY <1>0, <2>1, <2>3, <2>4, AsksKeeps
<1>2. ASSUME pool' = pool \ rest, op' = [op EXCEPT ![s] = [Idle EXCEPT !.pc = "creating"]]
      PROVE  Core'
  <2> DEFINE f == [Idle EXCEPT !.pc = "creating"]
  <2>1. f \in Ops /\ f.pc = "creating"
    BY DEF Idle, Ops
  <2>2. op' = [op EXCEPT ![s] = f] /\ pool' \subseteq pool
    BY <1>2
  <2> HIDE DEF f
  <2> QED BY <1>0, <2>1, <2>2, AsksKeeps
<1>3. \/ \E t \in rest \ (excl \cup quar), skipped \in SUBSET rest :
            /\ pool' = pool \ (skipped \cup {t})
            /\ op' = [op EXCEPT ![s] = [pc |-> "taking", t |-> t,
                                       rest |-> rest \ (skipped \cup {t}), excl |-> excl]]
      \/ pool' = pool \ rest /\ op' = [op EXCEPT ![s] = [Idle EXCEPT !.pc = "creating"]]
  BY DEF Walk
<1> QED BY <1>1, <1>2, <1>3

LEMMA OpenKeeps == ASSUME IInv, NEW s \in Sessions, OpenStep(s) PROVE Core'
<1>0. /\ bound \in [Sessions -> Tabs \cup {None}] /\ unc \subseteq Tabs /\ op \in [Sessions -> Ops]
      /\ tab \in [Tabs -> {"absent", "chat", "away", "closed"}]
      /\ pool \in SUBSET Tabs /\ quar \subseteq Tabs
      /\ Writers \subseteq Sessions /\ Readers \subseteq Sessions /\ s \in Writers \cup Readers
      /\ op[s] \in Ops
  BY DEF IInv, TypeOK, Sessions
<1>a. Allocating(s) => Owner(s) /\ bound[s] = None
  BY DEF IInv, Core, Queue
<1>1. CASE OpenBound(s)
  <2>0. Owner(s) /\ worker = "ready" /\ Calm /\ pool' = pool /\ tab' = tab
    BY <1>1 DEF OpenBound, Ready, Calm
  <2>1. CASE Leave(s) /\ bound' = bound
    <3>1. bound' = [bound EXCEPT ![s] = bound[s]] /\ bound[s] \in Tabs \cup {None}
      BY <1>0, <2>1
    <3> QED BY <2>0, <2>1, <3>1, LeavesKeeps
  <2>2. CASE tab[bound[s]] = "closed" /\ bound' = [bound EXCEPT ![s] = None] /\ UNCHANGED <<lockq, op>>
    <3>1. \A u \in unc : tab[u] # "closed"
      BY DEF IInv, Core, Kept
    <3>2. \A q \in Sessions : bound'[q] = IF q = s THEN None ELSE bound[q]
      BY <1>0, <2>2
    <3>3. Loses
      BY <1>0, <2>0, <2>2, <3>1, <3>2 DEF Loses, Calm
    <3> QED BY <1>0, <2>2, <3>3, LosesKeeps
  <2> QED BY <1>1, <2>1, <2>2 DEF OpenBound
<1>2. CASE TakeStart(s)
  <2>1. /\ Owner(s) /\ worker = "ready" /\ Calm /\ UNCHANGED <<tab, bound, lockq>> /\ bound[s] = None
        /\ s \in Writers /\ Walk(s, pool, Bound)
    BY <1>2 DEF TakeStart, Ready, Calm
  <2>2. Bound \in SUBSET Tabs /\ \A q \in Sessions : bound[q] # None => bound[q] \in Bound
    BY <1>0 DEF Bound
  <2> QED BY <1>0, <2>1, <2>2, WalkKeeps
<1>3. CASE TakeAnswer(s)
  <2>1. /\ worker = "ready" /\ Calm /\ tab' = tab /\ Owner(s) /\ bound[s] = None
        /\ s \in Writers /\ op[s].t \in Tabs \ (op[s].excl \cup pool \cup unc)
        /\ \A q \in Sessions : bound[q] # None => bound[q] \in op[s].excl
    BY <1>3, <1>a DEF TakeAnswer, Ready, Calm, Allocating, IInv, Core, Takes
  <2>2. CASE bound' = [bound EXCEPT ![s] = op[s].t] /\ Leave(s) /\ pool' = pool
    <3>1. \A q \in Sessions : bound[q] # op[s].t
      BY <2>1, Kinds
    <3> QED BY <1>0, <2>1, <2>2, <3>1, LeavesKeeps
  <2>3. CASE Walk(s, op[s].rest, op[s].excl) /\ UNCHANGED <<bound, lockq>>
    <3>1. op[s].rest \in SUBSET Tabs /\ op[s].excl \in SUBSET Tabs
      BY <1>0 DEF Ops
    <3> QED BY <2>1, <2>3, <3>1, WalkKeeps
  <2> QED BY <1>3, <2>2, <2>3 DEF TakeAnswer
<1>4. CASE OpenWriter(s)
  <2>1. Owner(s) /\ worker = "ready" /\ Calm /\ pool' = pool /\ bound[s] = None
    BY <1>4, <1>a DEF OpenWriter, Ready, Calm, Allocating
  <2> QED BY <1>4, <2>1, CreateKeeps DEF OpenWriter
<1>5. CASE OpenReader(s)
  <2>1. /\ Owner(s) /\ worker = "ready" /\ Calm /\ UNCHANGED <<tab, bound, pool>> /\ bound[s] = None
        /\ s \in Readers
    BY <1>5 DEF OpenReader, Ready, Calm
  <2>2. CASE Leave(s)
    <3>1. bound' = [bound EXCEPT ![s] = bound[s]] /\ bound[s] \in Tabs \cup {None}
      BY <1>0, <2>1
    <3> QED BY <2>1, <2>2, <3>1, LeavesKeeps
  <2>3. CASE op' = [op EXCEPT ![s] = [@ EXCEPT !.pc = "querying", !.excl = Excluded]] /\ lockq' = lockq
    <3> DEFINE f == [op[s] EXCEPT !.pc = "querying", !.excl = Excluded]
    <3>1. Excluded \subseteq Tabs
      BY <1>0 DEF Excluded, WriterBound
    <3>2. f \in Ops /\ f.pc = "querying" /\ f.excl = Excluded
      BY <1>0, <3>1 DEF Ops
    <3>3. op' = [op EXCEPT ![s] = f]
      BY <2>3
    <3>4. unc \subseteq Excluded
      BY <1>0, Kinds DEF IInv, Core, Kept, Excluded, WriterBound
    <3>5. pool \cup quar \cup unc \subseteq Excluded /\ \A w \in Writers : bound[w] # None => bound[w] \in Excluded
      BY <3>4 DEF Excluded, WriterBound
    <3> HIDE DEF f
    <3> QED BY <2>1, <2>3, <3>2, <3>3, <3>5, AsksKeeps
  <2> QED BY <1>5, <2>2, <2>3 DEF OpenReader
<1>6. CASE QueryAnswer(s)
  <2>1. /\ worker = "ready" /\ Calm /\ pool' = pool /\ Owner(s) /\ bound[s] = None
        /\ s \in Readers /\ pool \cup quar \cup unc \subseteq op[s].excl
        /\ \A w \in Writers : bound[w] # None => bound[w] \in op[s].excl
    BY <1>6, <1>a DEF QueryAnswer, Ready, Calm, Allocating, IInv, Core, Queries
  <2>2. ASSUME NEW t \in Tabs \ op[s].excl, bound' = [bound EXCEPT ![s] = t], Leave(s), tab' = tab
        PROVE  Core'
    <3>1. t \in Tabs \ (pool \cup quar \cup unc) /\ \A w \in Writers : bound[w] # t
      BY <2>1, Kinds
    <3> QED BY <2>1, <2>2, <3>1, LeavesKeeps
  <2>3. CASE Create(s) \/ CreateFails(s)
    BY <2>1, <2>3, CreateKeeps
  <2> QED BY <1>6, <2>2, <2>3 DEF QueryAnswer
<1> QED BY <1>1, <1>2, <1>3, <1>4, <1>5, <1>6 DEF OpenStep
-----------------------------------------------------------------------------
(* The types.                                                              *)

Maps ==
  /\ tab \in [Tabs -> {"absent", "chat", "away", "closed"}]
  /\ drv \in [Writers -> {"closed", "clean", "dirty"}]
  /\ worker \in {"dead", "restoring", "ready"} /\ paired \in BOOLEAN /\ sure \in BOOLEAN
  /\ bound \in [Sessions -> Tabs \cup {None}]

Pooled == pool \subseteq Tabs /\ IsFiniteSet(pool) /\ Cardinality(pool) <= MaxReusable

TabSets ==
  /\ quar \subseteq Tabs /\ local \subseteq Tabs /\ stored \subseteq Tabs
  /\ removed \subseteq Tabs /\ unc \subseteq Tabs /\ tombs \subseteq Tabs

Commands ==
  /\ lockq \in Seq(Sessions) /\ op \in [Sessions -> Ops] /\ writes \in Seq(Writes)
  /\ mishaps \in 0..MaxMishaps

Typed == Maps /\ Pooled /\ TabSets /\ Commands

LEMMA TypeParts == (TypeOK <=> Typed) /\ (TypeOK' <=> Typed')
BY DEF TypeOK, Typed, Maps, Pooled, TabSets, Commands

LEMMA Facts == /\ Idle \in Ops /\ Writers \subseteq Sessions /\ Readers \subseteq Sessions
               /\ MaxMishaps \in Nat /\ MaxReusable \in Nat \ {0}
BY WriterTabsAssumption DEF Idle, Ops, Sessions

\* A pool that loses members stays within its limit.
LEMMA PoolShrinks == ASSUME TypeOK, pool' \subseteq pool PROVE Pooled'
<1>1. IsFiniteSet(pool) /\ Cardinality(pool) <= MaxReusable /\ pool \subseteq Tabs
  BY DEF TypeOK
<1>2. IsFiniteSet(pool') /\ Cardinality(pool') <= Cardinality(pool)
  BY <1>1, FS_Subset
<1>3. Cardinality(pool') \in Nat /\ Cardinality(pool) \in Nat
  BY <1>1, <1>2, FS_CardinalityType
<1> QED BY <1>1, <1>2, <1>3, Facts DEF Pooled

\* rememberReusableWriterTab keeps the pool within its limit.
LEMMA PoolRemembers == ASSUME TypeOK, NEW t \in Tabs, Remember(t) PROVE Pooled'
<1>1. /\ IsFiniteSet(pool) /\ Cardinality(pool) <= MaxReusable /\ pool \subseteq Tabs
      /\ Cardinality(pool) \in Nat
  BY FS_CardinalityType DEF TypeOK
<1>2. /\ IsFiniteSet(pool \cup {t}) /\ Cardinality(pool \cup {t}) \in Nat
  BY <1>1, FS_AddElement, FS_CardinalityType
<1>3. CASE Cardinality(pool \cup {t}) > MaxReusable
  <2>1. PICK old \in pool : pool' = (pool \ {old}) \cup {t}
    BY <1>3 DEF Remember
  <2>2. IsFiniteSet(pool \ {old}) /\ Cardinality(pool \ {old}) = Cardinality(pool) - 1
    BY <1>1, FS_RemoveElement
  <2>3. /\ IsFiniteSet((pool \ {old}) \cup {t})
        /\ Cardinality((pool \ {old}) \cup {t}) \in {Cardinality(pool \ {old}), Cardinality(pool \ {old}) + 1}
    BY <2>2, FS_AddElement
  <2>4. Cardinality(pool') <= MaxReusable
    BY <1>1, <2>1, <2>2, <2>3, Facts
  <2> QED BY <1>1, <2>1, <2>3, <2>4 DEF Pooled
<1>4. CASE ~(Cardinality(pool \cup {t}) > MaxReusable)
  BY <1>1, <1>2, <1>4, Facts DEF Remember, Pooled
<1> QED BY <1>3, <1>4

\* The owner of the lock leaves the queue, binds a new tab, or walks on.
LEMMA LeaveTypes ==
  ASSUME TypeOK, NEW s \in Sessions, Owner(s), Leave(s)
  PROVE  lockq' \in Seq(Sessions) /\ op' \in [Sessions -> Ops]
<1>1. lockq \in Seq(Sessions) /\ lockq # <<>> /\ op \in [Sessions -> Ops]
  BY DEF TypeOK, Owner
<1> QED BY <1>1, Facts DEF Leave

LEMMA CreateTypes ==
  ASSUME TypeOK, NEW s \in Sessions, Owner(s), Create(s) \/ CreateFails(s)
  PROVE  /\ lockq' \in Seq(Sessions) /\ op' \in [Sessions -> Ops]
         /\ tab' \in [Tabs -> {"absent", "chat", "away", "closed"}]
         /\ bound' \in [Sessions -> Tabs \cup {None}]
<1>1. Leave(s)
  BY DEF Create, CreateFails
<1>2. /\ tab \in [Tabs -> {"absent", "chat", "away", "closed"}]
      /\ bound \in [Sessions -> Tabs \cup {None}]
  BY DEF TypeOK
<1>3. CASE Create(s)
  <2> DEFINE t == CHOOSE u \in Tabs : tab[u] = "absent"
  <2>1. t \in Tabs /\ tab' = [tab EXCEPT ![t] = "chat"] /\ bound' = [bound EXCEPT ![s] = t]
    BY <1>3 DEF Create
  <2> HIDE DEF t
  <2> QED BY <1>1, <1>2, <2>1, LeaveTypes
<1>4. CASE CreateFails(s)
  BY <1>1, <1>2, <1>4, LeaveTypes DEF CreateFails
<1> QED BY <1>3, <1>4

LEMMA WalkTypes ==
  ASSUME TypeOK, NEW s \in Sessions, NEW rest \in SUBSET Tabs, NEW excl \in SUBSET Tabs,
         Walk(s, rest, excl)
  PROVE  op' \in [Sessions -> Ops] /\ Pooled'
<1>1. op \in [Sessions -> Ops]
  BY DEF TypeOK
<1>2. PICK f \in Ops : op' = [op EXCEPT ![s] = f] /\ pool' \subseteq pool
  <2>1. CASE \E t \in rest, skipped \in SUBSET Tabs :
               /\ pool' = pool \ (skipped \cup {t})
               /\ op' = [op EXCEPT ![s] = [pc |-> "taking", t |-> t,
                                          rest |-> rest \ (skipped \cup {t}), excl |-> excl]]
    <3>1. PICK t \in rest, skipped \in SUBSET Tabs :
               /\ pool' = pool \ (skipped \cup {t})
               /\ op' = [op EXCEPT ![s] = [pc |-> "taking", t |-> t,
                                          rest |-> rest \ (skipped \cup {t}), excl |-> excl]]
      BY <2>1
    <3>2. [pc |-> "taking", t |-> t, rest |-> rest \ (skipped \cup {t}), excl |-> excl] \in Ops
      BY DEF Ops
    <3> QED BY <3>1, <3>2
  <2>2. CASE pool' = pool \ rest /\ op' = [op EXCEPT ![s] = [Idle EXCEPT !.pc = "creating"]]
    <3>1. [Idle EXCEPT !.pc = "creating"] \in Ops
      BY DEF Idle, Ops
    <3> QED BY <2>2, <3>1
  <2> QED BY <2>1, <2>2 DEF Walk
<1> QED BY <1>1, <1>2, PoolShrinks

\* What the asker has: the lock, and a command.
LEMMA AskerOwns ==
  ASSUME IInv, NEW s \in Sessions, Allocating(s)
  PROVE  Owner(s) /\ op[s] \in Ops
BY DEF IInv, Core, Queue, TypeOK

\* Every action preserves the types.
LEMMA WorkerTypes ==
  ASSUME IInv, WriteDone \/ WriteFails \/ Restore \/ RestoreFails \/ Kill \/ Wake \/ Pair \/ ListTabs
  PROVE  TypeOK'
<1>0. /\ TypeOK /\ Maps /\ Pooled /\ TabSets /\ Commands
      /\ Idle \in Ops /\ Writers \subseteq Sessions /\ MaxMishaps \in Nat
  BY TypeParts, Facts DEF IInv, Typed
<1>1. CASE WriteDone
  <2>0. writes # <<>> => Head(writes) \in Writes /\ Tail(writes) \in Seq(Writes)
    BY <1>0 DEF Commands
  <2>1. Maps'
    BY <1>0, <1>1 DEF Maps, WriteDone, Resume
  <2>2. Pooled'
    BY <1>0, <1>1 DEF Pooled, WriteDone, Resume
  <2>3. TabSets'
    <3>1. Head(writes).ids \subseteq Tabs
      BY <1>1, <2>0 DEF WriteDone, Writes
    <3>2. Head(writes).by = "strict" => op[Head(writes).s].t \in Tabs
      <4>1. 1 \in 1..Len(writes) /\ Head(writes) = writes[1]
        BY <1>0, <1>1 DEF WriteDone, Commands
      <4> QED BY <1>0, <4>1 DEF IInv, Core, Releasing
    <3>3. unc' \subseteq unc /\ tombs' \subseteq Tabs
      BY <1>0, <1>1, <3>2 DEF WriteDone, Resume, TabSets
    <3> QED BY <1>0, <1>1, <3>1, <3>3 DEF WriteDone, TabSets
  <2>4. Commands'
    BY <1>0, <1>1 DEF Commands, WriteDone, Resume, Maps, TabSets, Writes
  <2> QED BY <2>1, <2>2, <2>3, <2>4, TypeParts DEF Typed
<1>2. CASE WriteFails
  <2>0. writes # <<>> => Head(writes) \in Writes /\ Tail(writes) \in Seq(Writes)
    BY <1>0 DEF Commands
  <2>1. Maps'
    BY <1>0, <1>2 DEF Maps, WriteFails, Resume
  <2>2. Pooled'
    BY <1>0, <1>2 DEF Pooled, WriteFails, Resume
  <2>3. TabSets'
    BY <1>0, <1>2 DEF TabSets, WriteFails, Resume
  <2>4. Commands'
    <3>1. mishaps' \in 0..MaxMishaps
      BY <1>0, <1>2 DEF WriteFails, Commands
    <3>2. op' \in [Sessions -> Ops]
      BY <1>0, <1>2 DEF WriteFails, Resume, Commands
    <3> QED BY <1>0, <1>2, <2>0, <3>1, <3>2 DEF WriteFails, Commands
  <2> QED BY <2>1, <2>2, <2>3, <2>4, TypeParts DEF Typed
<1>3. CASE Restore
  <2>1. Maps'
    BY <1>0, <1>3 DEF Maps, Restore
  <2>2. Pooled'
    BY <1>0, <1>3 DEF Pooled, Restore
  <2>3. TabSets'
    BY <1>0, <1>3 DEF TabSets, Restore
  <2>4. Commands'
    BY <1>0, <1>3 DEF Commands, Restore
  <2> QED BY <2>1, <2>2, <2>3, <2>4, TypeParts DEF Typed
<1>4. CASE RestoreFails
  <2>1. Maps'
    BY <1>0, <1>4 DEF Maps, RestoreFails
  <2>2. Pooled'
    BY <1>0, <1>4 DEF Pooled, RestoreFails
  <2>3. TabSets'
    BY <1>0, <1>4 DEF TabSets, RestoreFails
  <2>4. Commands'
    BY <1>0, <1>4 DEF Commands, RestoreFails
  <2> QED BY <2>1, <2>2, <2>3, <2>4, TypeParts DEF Typed
<1>5. CASE Kill
  <2>1. Maps'
    BY <1>0, <1>5 DEF Maps, Kill, NoTabs, AllIdle
  <2>2. Pooled'
    <3>1. pool' \subseteq pool
      BY <1>5 DEF Kill
    <3> QED BY <1>0, <3>1, PoolShrinks
  <2>3. TabSets'
    BY <1>0, <1>5 DEF TabSets, Kill, NoTabs, AllIdle
  <2>4. Commands'
    BY <1>0, <1>5 DEF Commands, Kill, NoTabs, AllIdle
  <2> QED BY <2>1, <2>2, <2>3, <2>4, TypeParts DEF Typed
<1>6. CASE Wake
  <2>1. Maps'
    BY <1>0, <1>6 DEF Maps, Wake
  <2>2. Pooled'
    BY <1>0, <1>6 DEF Pooled, Wake
  <2>3. TabSets'
    BY <1>0, <1>6 DEF TabSets, Wake
  <2>4. Commands'
    BY <1>0, <1>6 DEF Commands, Wake
  <2> QED BY <2>1, <2>2, <2>3, <2>4, TypeParts DEF Typed
<1>7. CASE Pair
  <2>1. Maps'
    BY <1>0, <1>7 DEF Maps, Pair
  <2>2. Pooled'
    BY <1>0, <1>7 DEF Pooled, Pair
  <2>3. TabSets'
    BY <1>0, <1>7 DEF TabSets, Pair
  <2>4. Commands'
    BY <1>0, <1>7 DEF Commands, Pair
  <2> QED BY <2>1, <2>2, <2>3, <2>4, TypeParts DEF Typed
<1>8. CASE ListTabs
  <2>1. Maps'
    BY <1>0, <1>8 DEF Maps, ListTabs
  <2>2. Pooled'
    BY <1>0, <1>8 DEF Pooled, ListTabs
  <2>3. TabSets'
    BY <1>0, <1>8 DEF TabSets, ListTabs
  <2>4. Commands'
    BY <1>0, <1>8 DEF Commands, ListTabs
  <2> QED BY <2>1, <2>2, <2>3, <2>4, TypeParts DEF Typed
<1> QED BY <1>1, <1>2, <1>3, <1>4, <1>5, <1>6, <1>7, <1>8

LEMMA TabTypes ==
  ASSUME IInv, NEW t \in Tabs, UserCloses(t) \/ UserLeaves(t) \/ Removed(t) \/ RemovedWakes(t)
  PROVE  TypeOK'
<1>0. /\ TypeOK /\ Maps /\ Pooled /\ TabSets /\ Commands
      /\ Idle \in Ops /\ Writers \subseteq Sessions /\ MaxMishaps \in Nat
  BY TypeParts, Facts DEF IInv, Typed
<1>1. CASE UserCloses(t)
  <2>1. Maps'
    BY <1>0, <1>1 DEF Maps, UserCloses
  <2>2. Pooled'
    BY <1>0, <1>1 DEF Pooled, UserCloses
  <2>3. TabSets'
    BY <1>0, <1>1 DEF TabSets, UserCloses
  <2>4. Commands'
    BY <1>0, <1>1 DEF Commands, UserCloses
  <2> QED BY <2>1, <2>2, <2>3, <2>4, TypeParts DEF Typed
<1>2. CASE UserLeaves(t)
  <2>1. Maps'
    BY <1>0, <1>2 DEF Maps, UserLeaves
  <2>2. Pooled'
    BY <1>0, <1>2 DEF Pooled, UserLeaves
  <2>3. TabSets'
    BY <1>0, <1>2 DEF TabSets, UserLeaves
  <2>4. Commands'
    BY <1>0, <1>2 DEF Commands, UserLeaves
  <2> QED BY <2>1, <2>2, <2>3, <2>4, TypeParts DEF Typed
<1>3. CASE Removed(t)
  <2>1. Maps'
    BY <1>0, <1>3 DEF Maps, Removed, Forget, Persist
  <2>2. Pooled'
    <3>1. pool' \subseteq pool
      BY <1>3 DEF Removed, Forget
    <3> QED BY <1>0, <3>1, PoolShrinks
  <2>3. TabSets'
    BY <1>0, <1>3 DEF TabSets, Removed, Forget, Persist
  <2>4. Commands'
    BY <1>0, <1>3 DEF Commands, Removed, Forget, Persist, Maps, TabSets, Writes
  <2> QED BY <2>1, <2>2, <2>3, <2>4, TypeParts DEF Typed
<1>4. CASE RemovedWakes(t)
  <2>1. Maps'
    BY <1>0, <1>4 DEF Maps, RemovedWakes, Forget, Persist
  <2>2. Pooled'
    <3>1. pool' \subseteq pool
      BY <1>4 DEF RemovedWakes, Forget
    <3> QED BY <1>0, <3>1, PoolShrinks
  <2>3. TabSets'
    BY <1>0, <1>4 DEF TabSets, RemovedWakes, Forget, Persist
  <2>4. Commands'
    BY <1>0, <1>4 DEF Commands, RemovedWakes, Forget, Persist, Maps, TabSets, Writes
  <2> QED BY <2>1, <2>2, <2>3, <2>4, TypeParts DEF Typed
<1> QED BY <1>1, <1>2, <1>3, <1>4

LEMMA SessionTypes ==
  ASSUME IInv, NEW s \in Sessions,
         \/ OpenStart(s) \/ Uncertain(s) \/ Release(s)
         \/ ReleaseUnbound(s) \/ MeetClosed(s) \/ CloseTab(s)
  PROVE  TypeOK'
<1>0. /\ TypeOK /\ Maps /\ Pooled /\ TabSets /\ Commands
      /\ Idle \in Ops /\ Writers \subseteq Sessions /\ MaxMishaps \in Nat
  BY TypeParts, Facts DEF IInv, Typed
<1>1. CASE OpenStart(s)
  <2>1. Maps'
    BY <1>0, <1>1 DEF Maps, OpenStart
  <2>2. Pooled'
    BY <1>0, <1>1 DEF Pooled, OpenStart
  <2>3. TabSets'
    BY <1>0, <1>1 DEF TabSets, OpenStart
  <2>4. Commands'
    <3>1. [op[s] EXCEPT !.pc = "open"] \in Ops
      BY <1>0 DEF Commands, Ops
    <3>2. op' = [op EXCEPT ![s] = [op[s] EXCEPT !.pc = "open"]]
      BY <1>0, <1>1 DEF OpenStart, Commands
    <3> QED BY <1>0, <1>1, <3>1, <3>2 DEF OpenStart, Commands
  <2> QED BY <2>1, <2>2, <2>3, <2>4, TypeParts DEF Typed
<1>2. CASE Uncertain(s)
  <2>1. Maps'
    BY <1>0, <1>2 DEF Maps, Uncertain
  <2>2. Pooled'
    BY <1>0, <1>2 DEF Pooled, Uncertain
  <2>3. TabSets'
    BY <1>0, <1>2 DEF TabSets, Uncertain, Maps
  <2>4. Commands'
    BY <1>0, <1>2 DEF Commands, Uncertain
  <2> QED BY <2>1, <2>2, <2>3, <2>4, TypeParts DEF Typed
<1>3. CASE Release(s)
  <2>1. Maps'
    BY <1>0, <1>3 DEF Maps, Release, Persist
  <2>2. Pooled'
    <3>1. CASE drv[s] = "dirty"
      <4>1. pool' \subseteq pool
        BY <1>3, <3>1 DEF Release
      <4> QED BY <1>0, <4>1, PoolShrinks
    <3>2. CASE drv[s] # "dirty"
      <4>1. bound[s] \in Tabs /\ Remember(bound[s])
        BY <1>0, <1>3, <3>2 DEF Release, Maps
      <4> QED BY <1>0, <4>1, PoolRemembers
    <3> QED BY <3>1, <3>2
  <2>3. TabSets'
    BY <1>0, <1>3 DEF TabSets, Release, Persist, Maps
  <2>4. Commands'
    <3>1. [op[s] EXCEPT !.pc = "releasing", !.t = bound[s]] \in Ops
      BY <1>0, <1>3 DEF Release, Commands, Ops, Maps
    <3>2. op' = [op EXCEPT ![s] = [op[s] EXCEPT !.pc = "releasing", !.t = bound[s]]]
      BY <1>0, <1>3 DEF Release, Commands
    <3>3. writes' \in Seq(Writes)
      <4>1. bound[s] \in Tabs /\ quar \subseteq Tabs /\ writes \in Seq(Writes)
        BY <1>0, <1>3 DEF Release, Commands, Maps, TabSets
      <4>2. PICK ids \in SUBSET Tabs, by \in {"strict", "lax"} :
               writes' = Append(writes, [ids |-> ids, by |-> by, s |-> s])
        <5>1. CASE drv[s] = "dirty"
          BY <1>3, <4>1, <5>1 DEF Release, Persist
        <5>2. CASE drv[s] # "dirty"
          BY <1>3, <4>1, <5>2 DEF Release, Persist
        <5> QED BY <5>1, <5>2
      <4>3. [ids |-> ids, by |-> by, s |-> s] \in Writes
        BY DEF Writes
      <4> QED BY <4>1, <4>2, <4>3
    <3> QED BY <1>0, <1>3, <3>1, <3>2, <3>3 DEF Release, Commands
  <2> QED BY <2>1, <2>2, <2>3, <2>4, TypeParts DEF Typed
<1>4. CASE ReleaseUnbound(s)
  <2>1. Maps'
    BY <1>0, <1>4 DEF Maps, ReleaseUnbound
  <2>2. Pooled'
    BY <1>0, <1>4 DEF Pooled, ReleaseUnbound
  <2>3. TabSets'
    BY <1>0, <1>4 DEF TabSets, ReleaseUnbound
  <2>4. Commands'
    BY <1>0, <1>4 DEF Commands, ReleaseUnbound
  <2> QED BY <2>1, <2>2, <2>3, <2>4, TypeParts DEF Typed
<1>5. CASE MeetClosed(s)
  <2>1. Maps'
    BY <1>0, <1>5 DEF Maps, MeetClosed, Forget, Persist
  <2>2. Pooled'
    <3>1. pool' \subseteq pool
      BY <1>5 DEF MeetClosed, Forget
    <3> QED BY <1>0, <3>1, PoolShrinks
  <2>3. TabSets'
    BY <1>0, <1>5 DEF TabSets, MeetClosed, Forget, Persist, Maps
  <2>4. Commands'
    BY <1>0, <1>5 DEF Commands, MeetClosed, Forget, Persist, Maps, TabSets, Writes
  <2> QED BY <2>1, <2>2, <2>3, <2>4, TypeParts DEF Typed
<1>6. CASE CloseTab(s)
  <2>1. Maps'
    BY <1>0, <1>6 DEF Maps, CloseTab, Forget, Persist
  <2>2. Pooled'
    <3>1. pool' \subseteq pool
      BY <1>6 DEF CloseTab, Forget
    <3> QED BY <1>0, <3>1, PoolShrinks
  <2>3. TabSets'
    BY <1>0, <1>6 DEF TabSets, CloseTab, Forget, Persist, Maps
  <2>4. Commands'
    BY <1>0, <1>6 DEF Commands, CloseTab, Forget, Persist, Maps, TabSets, Writes
  <2> QED BY <2>1, <2>2, <2>3, <2>4, TypeParts DEF Typed
<1> QED BY <1>1, <1>2, <1>3, <1>4, <1>5, <1>6

LEMMA OpenTypes == ASSUME IInv, NEW s \in Sessions, OpenStep(s) PROVE TypeOK'
<1>0. /\ TypeOK /\ Maps /\ Pooled /\ TabSets /\ Commands
      /\ Idle \in Ops /\ Writers \subseteq Sessions /\ MaxMishaps \in Nat
  BY TypeParts, Facts DEF IInv, Typed
<1>1. CASE OpenBound(s)
  <2>1. Maps'
    BY <1>0, <1>1 DEF Maps, OpenBound
  <2>2. Pooled'
    BY <1>0, <1>1 DEF Pooled, OpenBound
  <2>3. TabSets'
    BY <1>0, <1>1 DEF TabSets, OpenBound
  <2>4. Commands'
    <3>1. lockq' \in Seq(Sessions) /\ op' \in [Sessions -> Ops]
      BY <1>0, <1>1, LeaveTypes DEF OpenBound, Commands
    <3> QED BY <1>0, <1>1, <3>1 DEF OpenBound, Commands
  <2> QED BY <2>1, <2>2, <2>3, <2>4, TypeParts DEF Typed
<1>2. CASE TakeStart(s)
  <2>0. op' \in [Sessions -> Ops] /\ Pooled'
    <3>1. pool \in SUBSET Tabs /\ Bound \in SUBSET Tabs
      BY <1>0 DEF Pooled, Bound, Maps
    <3> QED BY <1>0, <1>2, <3>1, WalkTypes DEF TakeStart
  <2>1. Maps'
    BY <1>0, <1>2 DEF Maps, TakeStart
  <2>2. Pooled'
    BY <1>2, <2>0
  <2>3. TabSets'
    BY <1>0, <1>2 DEF TabSets, TakeStart
  <2>4. Commands'
    BY <1>0, <1>2, <2>0 DEF TakeStart, Commands
  <2> QED BY <2>1, <2>2, <2>3, <2>4, TypeParts DEF Typed
<1>3. CASE TakeAnswer(s)
  <2>a. Owner(s) /\ op[s] \in Ops
    BY <1>3, AskerOwns DEF TakeAnswer, Allocating
  <2>0. op' \in [Sessions -> Ops] /\ lockq' \in Seq(Sessions) /\ Pooled'
    <3>1. CASE Leave(s) /\ pool' = pool
      BY <1>0, <2>a, <3>1, LeaveTypes DEF Pooled
    <3>2. CASE Walk(s, op[s].rest, op[s].excl) /\ lockq' = lockq
      <4>1. op[s].rest \in SUBSET Tabs /\ op[s].excl \in SUBSET Tabs
        BY <2>a DEF Ops
      <4> QED BY <1>0, <3>2, <4>1, WalkTypes DEF Commands
    <3> QED BY <1>3, <3>1, <3>2 DEF TakeAnswer
  <2>1. Maps'
    <3>1. bound' \in [Sessions -> Tabs \cup {None}]
      BY <1>0, <1>3, <2>a DEF TakeAnswer, Maps, Ops
    <3> QED BY <1>0, <1>3, <3>1 DEF TakeAnswer, Maps
  <2>2. Pooled'
    BY <2>0
  <2>3. TabSets'
    BY <1>0, <1>3 DEF TabSets, TakeAnswer
  <2>4. Commands'
    BY <1>0, <1>3, <2>0 DEF TakeAnswer, Commands
  <2> QED BY <2>1, <2>2, <2>3, <2>4, TypeParts DEF Typed
<1>4. CASE OpenWriter(s)
  <2>a. Owner(s)
    BY <1>4, AskerOwns DEF OpenWriter, Allocating
  <2>0. /\ lockq' \in Seq(Sessions) /\ op' \in [Sessions -> Ops]
        /\ tab' \in [Tabs -> {"absent", "chat", "away", "closed"}]
        /\ bound' \in [Sessions -> Tabs \cup {None}]
    BY <1>0, <1>4, <2>a, CreateTypes DEF OpenWriter
  <2>1. Maps'
    BY <1>0, <1>4, <2>0 DEF OpenWriter, Maps
  <2>2. Pooled'
    BY <1>0, <1>4 DEF Pooled, OpenWriter
  <2>3. TabSets'
    BY <1>0, <1>4 DEF TabSets, OpenWriter
  <2>4. Commands'
    BY <1>0, <1>4, <2>0 DEF OpenWriter, Commands
  <2> QED BY <2>1, <2>2, <2>3, <2>4, TypeParts DEF Typed
<1>5. CASE OpenReader(s)
  <2>1. Maps'
    BY <1>0, <1>5 DEF Maps, OpenReader
  <2>2. Pooled'
    BY <1>0, <1>5 DEF Pooled, OpenReader
  <2>3. TabSets'
    BY <1>0, <1>5 DEF TabSets, OpenReader
  <2>4. Commands'
    <3>1. CASE Leave(s)
      <4>1. lockq' \in Seq(Sessions) /\ op' \in [Sessions -> Ops]
        BY <1>0, <1>5, <3>1, LeaveTypes DEF OpenReader
      <4> QED BY <1>0, <1>5, <4>1 DEF OpenReader, Commands
    <3>2. CASE op' = [op EXCEPT ![s] = [@ EXCEPT !.pc = "querying", !.excl = Excluded]] /\ lockq' = lockq
      <4> DEFINE f == [op[s] EXCEPT !.pc = "querying", !.excl = Excluded]
      <4>1. Excluded \subseteq Tabs
        BY <1>0 DEF Excluded, WriterBound, Maps, Pooled, TabSets
      <4>2. f \in Ops
        BY <1>0, <4>1 DEF Commands, Ops
      <4>3. op' = [op EXCEPT ![s] = f]
        BY <3>2
      <4> HIDE DEF f
      <4> QED BY <1>0, <1>5, <3>2, <4>2, <4>3 DEF OpenReader, Commands
    <3> QED BY <1>5, <3>1, <3>2 DEF OpenReader
  <2> QED BY <2>1, <2>2, <2>3, <2>4, TypeParts DEF Typed
<1>6. CASE QueryAnswer(s)
  <2>a. Owner(s)
    BY <1>6, AskerOwns DEF QueryAnswer, Allocating
  <2>0. /\ lockq' \in Seq(Sessions) /\ op' \in [Sessions -> Ops]
        /\ tab' \in [Tabs -> {"absent", "chat", "away", "closed"}]
        /\ bound' \in [Sessions -> Tabs \cup {None}]
    <3>1. CASE Create(s) \/ CreateFails(s)
      BY <1>0, <2>a, <3>1, CreateTypes
    <3>2. ASSUME NEW t \in Tabs, bound' = [bound EXCEPT ![s] = t], Leave(s), tab' = tab
          PROVE  /\ lockq' \in Seq(Sessions) /\ op' \in [Sessions -> Ops]
                 /\ tab' \in [Tabs -> {"absent", "chat", "away", "closed"}]
                 /\ bound' \in [Sessions -> Tabs \cup {None}]
      BY <1>0, <2>a, <3>2, LeaveTypes DEF Maps
    <3> QED BY <1>6, <3>1, <3>2 DEF QueryAnswer
  <2>1. Maps'
    BY <1>0, <1>6, <2>0 DEF QueryAnswer, Maps
  <2>2. Pooled'
    BY <1>0, <1>6 DEF Pooled, QueryAnswer
  <2>3. TabSets'
    BY <1>0, <1>6 DEF TabSets, QueryAnswer
  <2>4. Commands'
    BY <1>0, <1>6, <2>0 DEF QueryAnswer, Commands
  <2> QED BY <2>1, <2>2, <2>3, <2>4, TypeParts DEF Typed
<1> QED BY <1>1, <1>2, <1>3, <1>4, <1>5, <1>6 DEF OpenStep
-----------------------------------------------------------------------------
(* The worker knows no tab that does not exist.                            *)

LEMMA WriteKnown == ASSUME IInv, WriteDone \/ WriteFails PROVE Known'
<1>0. /\ bound \in [Sessions -> Tabs \cup {None}] /\ writes \in Seq(Writes)
      /\ tab \in [Tabs -> {"absent", "chat", "away", "closed"}] /\ Writers \subseteq Sessions
      /\ removed \subseteq Tabs
  BY DEF IInv, TypeOK, Sessions
<1>1. /\ writes' = Tail(writes) /\ writes # <<>> /\ local' \in {local, Head(writes).ids}
      /\ UNCHANGED <<tab, pool, quar, stored, removed>>
  BY DEF WriteDone, WriteFails
<1>2. unc' \subseteq unc /\ \A q \in Sessions : bound'[q] \in {None, bound[q]}
  BY <1>0 DEF WriteDone, WriteFails, Resume
<1>3. /\ Head(writes) = writes[1] /\ 1 \in 1..Len(writes)
      /\ \A i \in 1..Len(writes') : i + 1 \in 1..Len(writes) /\ writes'[i] = writes[i + 1]
  BY <1>0, <1>1
<1>4. ASSUME NEW t \in Tabs, tab'[t] = "absent"
      PROVE  /\ t \notin pool' \cup quar' \cup unc' \cup local' \cup stored'
             /\ \A s \in Sessions : bound'[s] # t
             /\ \A i \in 1..Len(writes') : t \notin writes'[i].ids
  BY <1>1, <1>2, <1>3, <1>4, Kinds DEF IInv, Known
<1>5. \A t \in removed' : tab'[t] = "closed"
  BY <1>1 DEF IInv, Known
<1> QED BY <1>4, <1>5 DEF Known

LEMMA ReleaseKnown == ASSUME IInv, NEW s \in Sessions, Release(s) PROVE Known'
<1>0. /\ bound \in [Sessions -> Tabs \cup {None}] /\ writes \in Seq(Writes)
      /\ tab \in [Tabs -> {"absent", "chat", "away", "closed"}] /\ Writers \subseteq Sessions
      /\ removed \subseteq Tabs
  BY DEF IInv, TypeOK, Sessions
<1>1. /\ UNCHANGED <<tab, bound, local, stored, removed, unc>> /\ bound[s] # None
      /\ pool' \subseteq pool \cup {bound[s]} /\ quar' \subseteq quar \cup {bound[s]}
      /\ \E by : writes' = Append(writes, [ids |-> quar', by |-> by, s |-> s])
  <2>1. CASE drv[s] = "dirty"
    BY <2>1 DEF Release, Persist
  <2>2. CASE drv[s] # "dirty"
    BY <2>2 DEF Release, Persist, Remember
  <2> QED BY <2>1, <2>2
<1>2. \A i \in 1..Len(writes') : writes'[i].ids = quar' \/ (i \in 1..Len(writes) /\ writes'[i] = writes[i])
  BY <1>0, <1>1
<1>3. ASSUME NEW t \in Tabs, tab'[t] = "absent"
      PROVE  /\ t \notin pool' \cup quar' \cup unc' \cup local' \cup stored'
             /\ \A q \in Sessions : bound'[q] # t
             /\ \A i \in 1..Len(writes') : t \notin writes'[i].ids
  <2>1. /\ t \notin pool \cup quar \cup unc \cup local \cup stored /\ \A q \in Sessions : bound[q] # t
        /\ \A i \in 1..Len(writes) : t \notin writes[i].ids
    BY <1>1, <1>3 DEF IInv, Known
  <2> QED BY <1>1, <1>2, <2>1
<1>4. \A t \in removed' : tab'[t] = "closed"
  BY <1>1 DEF IInv, Known
<1> QED BY <1>3, <1>4 DEF Known

LEMMA OpenKnown == ASSUME IInv, NEW s \in Sessions, OpenStep(s) PROVE Known'
<1>0. /\ bound \in [Sessions -> Tabs \cup {None}] /\ writes \in Seq(Writes)
      /\ tab \in [Tabs -> {"absent", "chat", "away", "closed"}] /\ Writers \subseteq Sessions
      /\ removed \subseteq Tabs
  BY DEF IInv, TypeOK, Sessions
<1>1. UNCHANGED <<quar, writes, local, stored, removed, unc>>
  BY DEF OpenStep, OpenBound, TakeStart, TakeAnswer, OpenWriter, OpenReader, QueryAnswer
<1>2. pool' \subseteq pool
  BY DEF OpenStep, OpenBound, TakeStart, TakeAnswer, OpenWriter, OpenReader, QueryAnswer, Walk
<1>3. \/ /\ tab' = tab
         /\ \A q \in Sessions : bound'[q] \in {None, bound[q]} \/ tab[bound'[q]] # "absent"
      \/ \E t \in Tabs : tab[t] = "absent" /\ tab' = [tab EXCEPT ![t] = "chat"] /\ bound' = [bound EXCEPT ![s] = t]
  <2>1. CASE OpenBound(s) \/ TakeStart(s) \/ TakeAnswer(s) \/ OpenReader(s)
    BY <1>0, <2>1 DEF OpenBound, TakeStart, TakeAnswer, OpenReader
  <2>2. ASSUME Create(s)
        PROVE  \E t \in Tabs : /\ tab[t] = "absent" /\ tab' = [tab EXCEPT ![t] = "chat"]
                             /\ bound' = [bound EXCEPT ![s] = t]
    BY <2>2 DEF Create
  <2>3. CASE OpenWriter(s)
    BY <1>0, <2>2, <2>3 DEF OpenWriter, CreateFails
  <2>4. CASE QueryAnswer(s)
    BY <1>0, <2>2, <2>4 DEF QueryAnswer, CreateFails
  <2> QED BY <2>1, <2>3, <2>4 DEF OpenStep
<1>4. ASSUME NEW t \in Tabs, tab'[t] = "absent"
      PROVE  tab[t] = "absent" /\ \A q \in Sessions : bound'[q] # t
  <2>1. CASE /\ tab' = tab
             /\ \A q \in Sessions : bound'[q] \in {None, bound[q]} \/ tab[bound'[q]] # "absent"
    BY <1>4, <2>1, Kinds DEF IInv, Known
  <2>2. ASSUME NEW u \in Tabs, tab[u] = "absent", tab' = [tab EXCEPT ![u] = "chat"],
               bound' = [bound EXCEPT ![s] = u]
        PROVE  tab[t] = "absent" /\ \A q \in Sessions : bound'[q] # t
    <3>1. t # u /\ tab[t] = "absent"
      BY <1>0, <1>4, <2>2
    <3> QED BY <1>0, <2>2, <3>1 DEF IInv, Known
  <2> QED BY <1>3, <2>1, <2>2
<1>5. \A t \in removed' : tab'[t] = "closed"
  <2>1. \A t \in removed : t \in Tabs /\ tab[t] = "closed"
    BY <1>0 DEF IInv, Known
  <2> QED BY <1>0, <1>1, <1>3, <2>1
<1> QED BY <1>1, <1>2, <1>4, <1>5 DEF IInv, Known

LEMMA OtherKnown ==
  ASSUME IInv,
         \/ Restore \/ RestoreFails \/ Kill \/ Wake \/ Pair \/ ListTabs
         \/ \E t \in Tabs : UserCloses(t) \/ UserLeaves(t) \/ Removed(t) \/ RemovedWakes(t)
         \/ \E s \in Sessions :
              OpenStart(s) \/ Uncertain(s) \/ ReleaseUnbound(s) \/ MeetClosed(s) \/ CloseTab(s)
  PROVE  Known'
<1>0. /\ bound \in [Sessions -> Tabs \cup {None}] /\ writes \in Seq(Writes)
      /\ tab \in [Tabs -> {"absent", "chat", "away", "closed"}] /\ Writers \subseteq Sessions
      /\ removed \subseteq Tabs
  BY DEF IInv, TypeOK, Sessions
<1>1. CASE Restore
  BY <1>0, <1>1, Kinds DEF IInv, Known, Restore
<1>2. CASE RestoreFails
  BY <1>0, <1>2, Kinds DEF IInv, Known, RestoreFails
<1>3. CASE Kill
  BY <1>0, <1>3, Kinds DEF IInv, Known, Kill, NoTabs
<1>4. CASE Wake
  BY <1>0, <1>4, Kinds DEF IInv, Known, Wake
<1>5. CASE Pair
  BY <1>0, <1>5, Kinds DEF IInv, Known, Pair
<1>6. CASE ListTabs
  BY <1>0, <1>6, Kinds DEF IInv, Known, ListTabs
<1>7. ASSUME NEW t \in Tabs, UserCloses(t) PROVE Known'
  BY <1>0, <1>7, Kinds DEF IInv, Known, UserCloses
<1>8. ASSUME NEW t \in Tabs, UserLeaves(t) PROVE Known'
  BY <1>0, <1>8, Kinds DEF IInv, Known, UserLeaves
<1>9. ASSUME NEW t \in Tabs, Removed(t) PROVE Known'
  BY <1>0, <1>9, Kinds DEF IInv, Known, Removed, Forget, Persist
<1>10. ASSUME NEW t \in Tabs, RemovedWakes(t) PROVE Known'
  BY <1>0, <1>10, Kinds DEF IInv, Known, RemovedWakes, Forget, Persist
<1>11. ASSUME NEW s \in Sessions, OpenStart(s) PROVE Known'
  BY <1>0, <1>11, Kinds DEF IInv, Known, OpenStart
<1>12. ASSUME NEW s \in Sessions, Uncertain(s) PROVE Known'
  BY <1>0, <1>12, Kinds DEF IInv, Known, Uncertain
<1>13. ASSUME NEW s \in Sessions, ReleaseUnbound(s) PROVE Known'
  BY <1>0, <1>13, Kinds DEF IInv, Known, ReleaseUnbound
<1>14. ASSUME NEW s \in Sessions, MeetClosed(s) PROVE Known'
  BY <1>0, <1>14, Kinds DEF IInv, Known, MeetClosed, Forget, Persist
<1>15. ASSUME NEW s \in Sessions, CloseTab(s) PROVE Known'
  BY <1>0, <1>15, Kinds DEF IInv, Known, CloseTab, Forget, Persist
<1> QED BY <1>1, <1>2, <1>3, <1>4, <1>5, <1>6, <1>7, <1>8, <1>9, <1>10, <1>11, <1>12, <1>13, <1>14, <1>15
-----------------------------------------------------------------------------
(* The invariant, and what follows from it.                                *)

LEMMA IInvInit == ASSUME Init PROVE IInv
<1>1. TypeOK
  <2>1. IsFiniteSet({}) /\ Cardinality({}) = 0
    BY FS_EmptySet
  <2>2. Pooled
    BY <2>1, Facts DEF Init, Pooled
  <2>3. Maps
    BY DEF Init, Maps, NoTabs
  <2>4. TabSets
    BY DEF Init, TabSets
  <2>5. Commands
    <3>1. <<>> \in Seq(Sessions) /\ <<>> \in Seq(Writes)
      OBVIOUS
    <3>2. AllIdle \in [Sessions -> Ops]
      BY Facts DEF AllIdle
    <3> QED BY <3>1, <3>2, Facts DEF Init, Commands
  <2> QED BY <2>2, <2>3, <2>4, <2>5, TypeParts DEF Typed
<1>2. Known
  BY Kinds DEF Init, Known, NoTabs
<1>3. Core
  <2>1. \A s \in Sessions : bound[s] = None /\ op[s].pc = "idle"
    BY DEF Init, NoTabs, AllIdle, Idle
  <2>2. Writers \subseteq Sessions /\ Readers \subseteq Sessions /\ Len(lockq) = 0 /\ Len(writes) = 0
    BY Facts DEF Init
  <2>3. Queue /\ Takes /\ Creates /\ Queries /\ Releasing
    BY <2>1, <2>2 DEF Queue, Asking, Allocating, Takes, Creates, Queries, Releasing
  <2>4. Asleep /\ Held /\ Kept /\ OneWriterPerTab /\ ReadersApart /\ UncertainContained
    BY <2>1, <2>2 DEF Init, Asleep, Held, Kept, OneWriterPerTab, ReadersApart, UncertainContained
  <2> QED BY <2>3, <2>4 DEF Core
<1> QED BY <1>1, <1>2, <1>3 DEF IInv

LEMMA IInvStep == IInv /\ [Next]_vars => IInv'
<1> SUFFICES ASSUME IInv, [Next]_vars PROVE IInv'
  OBVIOUS
<1>1. CASE WriteDone \/ WriteFails
  <2>1. /\ writes # <<>> /\ writes' = Tail(writes) /\ \E ok \in BOOLEAN : Resume(Head(writes), ok)
        /\ UNCHANGED <<tab, drv, worker, pool, quar, lockq>>
    BY <1>1 DEF WriteDone, WriteFails
  <2> QED BY <1>1, <2>1, WriteKeeps, WorkerTypes, WriteKnown DEF IInv
<1>2. CASE Restore \/ RestoreFails \/ Kill
  BY <1>2, RestoreKeeps, WorkerTypes, OtherKnown DEF IInv
<1>3. CASE Wake \/ Pair \/ ListTabs
  BY <1>3, LightKeeps, WorkerTypes, OtherKnown DEF IInv
<1>4. ASSUME NEW t \in Tabs, UserCloses(t) \/ UserLeaves(t) \/ Removed(t) \/ RemovedWakes(t)
      PROVE  IInv'
  BY <1>4, TabKeeps, TabTypes, OtherKnown DEF IInv
<1>5. ASSUME NEW s \in Sessions, OpenStep(s) PROVE IInv'
  BY <1>5, OpenKeeps, OpenTypes, OpenKnown DEF IInv
<1>6. ASSUME NEW s \in Sessions, OpenStart(s) PROVE IInv'
  BY <1>6, OpenStartKeeps, SessionTypes, OtherKnown DEF IInv
<1>7. ASSUME NEW s \in Sessions, Uncertain(s) PROVE IInv'
  BY <1>7, UncertainKeeps, SessionTypes, OtherKnown DEF IInv
<1>8. ASSUME NEW s \in Sessions, Release(s) PROVE IInv'
  BY <1>8, ReleaseKeeps, SessionTypes, ReleaseKnown DEF IInv
<1>9. ASSUME NEW s \in Sessions, ReleaseUnbound(s) \/ MeetClosed(s) \/ CloseTab(s) PROVE IInv'
  BY <1>9, LightKeeps, SessionTypes, OtherKnown DEF IInv
<1>10. CASE UNCHANGED vars
  <2>1. TypeOK'
    BY <1>10 DEF vars, IInv, TypeOK
  <2>2. Known'
    BY <1>10 DEF vars, IInv, Known
  <2>3. Core'
    BY <1>10 DEF vars, IInv, Core, Queue, Asking, Allocating, Owner, Asleep, Takes, Creates, Queries,
                 Releasing, Held, Kept, OneWriterPerTab, ReadersApart, WriterBound, UncertainContained
  <2> QED BY <2>1, <2>2, <2>3 DEF IInv
<1> QED BY <1>1, <1>2, <1>3, <1>4, <1>5, <1>6, <1>7, <1>8, <1>9, <1>10 DEF Next

LEMMA Always == Spec => []IInv
<1>1. Init => IInv
  BY IInvInit
<1> QED BY <1>1, IInvStep, PTL DEF Spec

\* The maps, the queue and the storage hold what the code means them to hold,
\* and the pool of released writer tabs never outgrows its limit.
THEOREM TypeCorrect == Spec => []TypeOK
<1>1. IInv => TypeOK
  BY DEF IInv
<1> QED BY <1>1, Always, PTL

\* Two conversations never drive the same tab, however releases, allocations
\* that wait for Chrome, closed tabs and dying workers interleave.
THEOREM WritersApart == Spec => []OneWriterPerTab
<1>1. IInv => OneWriterPerTab
  BY DEF IInv, Core
<1> QED BY <1>1, Always, PTL

\* A read-only session never has a tab that a writer drives, that is kept for
\* the next writer, or that is quarantined.
THEOREM ReadersKept == Spec => []ReadersApart
<1>1. IInv => ReadersApart
  BY DEF IInv, Core
<1> QED BY <1>1, Always, PTL

\* While the worker that saw it lives, a tab left after an uncertain delivery
\* is not offered to the next writer and nobody else gets it.
THEOREM UncertainKept == Spec => []UncertainContained
<1>1. IInv => UncertainContained
  BY DEF IInv, Core
<1> QED BY <1>1, Always, PTL
=============================================================================
