----------------------------- MODULE WriterTabs -----------------------------
(***************************************************************************)
(* The tabs of the Chrome extension's service worker: which session drives *)
(* which ChatGPT tab, which released writer tabs may be used again, and    *)
(* which are quarantined because a delivery in them stayed uncertain.      *)
(*                                                                         *)
(* The maps of the worker are volatile: Chrome stops a worker and wakes a  *)
(* new one at the next event.  Only the quarantine is stored, by writes    *)
(* that the handlers await.  Allocations run one at a time behind a tail   *)
(* of promises; releases and closed tabs do not take that lock.            *)
(***************************************************************************)
EXTENDS Naturals, Sequences, FiniteSets

CONSTANTS
    Writers,      \* sessions "cortex-conv-...": they type and send
    Readers,      \* read-only sessions (view, missions, capture)
    Tabs,         \* ChatGPT tabs that may exist in the Cortex window
    UserTabs,     \* those the user opened before Cortex started
    MaxReusable,  \* MAX_REUSABLE_WRITER_TABS
    MaxGone,      \* bound: tabs that are closed or taken to another site
    MaxMishaps,   \* bound: worker deaths and storage operations that fail
    None

ASSUME WriterTabsAssumption ==
    /\ Writers \cap Readers = {}
    /\ UserTabs \subseteq Tabs
    /\ MaxReusable \in Nat \ {0}
    /\ MaxGone \in Nat /\ MaxMishaps \in Nat
    /\ None \notin Tabs \cup Writers \cup Readers

VARIABLES
    tab,      \* tab -> "absent", "chat", "away" (other site or window), "closed"
    drv,      \* writer -> the backend's driver: "closed", "clean", "dirty"
    worker,   \* "dead", "restoring" or "ready"
    paired,   \* context.cortexTab is known
    bound,    \* context.sessionTabs
    pool,     \* context.reusableWriterTabs; the order of its members is left open
    quar,     \* context.quarantinedWriterTabs
    sure,     \* context.quarantinePersistenceReady is not false
    lockq,    \* tabAllocationTail: the sessions in the queue, owner first
    op,       \* session -> the command it runs in the worker
    writes,   \* quarantine writes on their way to storage.local
    local,    \* storage.local
    stored,   \* what the restoring worker's storage.local.get returned
    removed,  \* closed tabs whose onRemoved event is not handled yet
    unc,      \* history: tabs whose delivery stayed uncertain in this worker's life
    tombs,    \* history: open tabs whose uncertain release was answered "released"
    mishaps

vars == <<tab, drv, worker, paired, bound, pool, quar, sure, lockq, op, writes,
          local, stored, removed, unc, tombs, mishaps>>

Sessions == Writers \cup Readers

\* A write of the quarantine, and the handler that awaits it.
Writes == [ids : SUBSET Tabs, by : {"strict", "lax", "forget"}, s : Sessions \cup {None}]

\* A command of a session: the tab it asks Chrome about or releases, the pooled
\* tabs it has still to ask about, and those it may not take.
Ops == [pc : {"idle", "open", "taking", "creating", "querying", "releasing"},
        t : Tabs \cup {None}, rest : SUBSET Tabs, excl : SUBSET Tabs]

Idle == [pc |-> "idle", t |-> None, rest |-> {}, excl |-> {}]

TypeOK ==
    /\ tab \in [Tabs -> {"absent", "chat", "away", "closed"}]
    /\ drv \in [Writers -> {"closed", "clean", "dirty"}]
    /\ worker \in {"dead", "restoring", "ready"}
    /\ paired \in BOOLEAN /\ sure \in BOOLEAN
    /\ bound \in [Sessions -> Tabs \cup {None}]
    /\ pool \subseteq Tabs /\ IsFiniteSet(pool) /\ Cardinality(pool) <= MaxReusable
    /\ quar \subseteq Tabs /\ local \subseteq Tabs
    /\ stored \subseteq Tabs /\ removed \subseteq Tabs
    /\ lockq \in Seq(Sessions) /\ op \in [Sessions -> Ops]
    /\ writes \in Seq(Writes)
    /\ unc \subseteq Tabs /\ tombs \subseteq Tabs
    /\ mishaps \in 0..MaxMishaps

NoTabs == [s \in Sessions |-> None]
AllIdle == [s \in Sessions |-> Idle]

\* A new worker has empty maps; it has asked storage.local for the quarantine
\* before it handles the event that woke it.

Init ==
    /\ tab = [t \in Tabs |-> IF t \in UserTabs THEN "chat" ELSE "absent"]
    /\ drv = [s \in Writers |-> "closed"]
    /\ worker = "restoring" /\ paired = FALSE
    /\ bound = NoTabs /\ pool = {} /\ quar = {} /\ sure = TRUE
    /\ lockq = <<>> /\ op = AllIdle /\ writes = <<>>
    /\ local = {} /\ stored = {}
    /\ removed = {} /\ unc = {} /\ tombs = {}
    /\ mishaps = 0

WriterBound == {bound[s] : s \in Writers} \ {None}
Bound == {bound[s] : s \in Sessions} \ {None}
Gone == {t \in Tabs : tab[t] \in {"away", "closed"}}
MayGo(t) == Cardinality(Gone \cup {t}) <= MaxGone
Alive == worker # "dead"
Ready == worker = "ready"

----------------------------------------------------------------------------
\* Storage of the quarantine.

\* persistQuarantinedWriterTabs: the payload is the set at the time of the call.
Persist(ids, by, s) == writes' = Append(writes, [ids |-> ids, by |-> by, s |-> s])

\* What the handler that awaited the write does next: a strict release throws
\* on a failure and keeps its binding, every other handler goes on.
Resume(w, ok) ==
    CASE w.by = "forget" -> UNCHANGED <<bound, op, tombs, unc>>
      [] w.by = "strict" /\ ~ok ->
            /\ op' = [op EXCEPT ![w.s] = Idle]
            /\ unc' = unc \ {op[w.s].t}
            /\ UNCHANGED <<bound, tombs>>
      [] OTHER ->
            /\ op' = [op EXCEPT ![w.s] = Idle]
            /\ bound' = [bound EXCEPT ![w.s] = None]
            /\ tombs' = IF w.by = "strict" /\ tab[op[w.s].t] # "closed"
                        THEN tombs \cup {op[w.s].t} ELSE tombs
            /\ UNCHANGED unc

\* storage.local takes the oldest write.  storage.session, written with the same
\* value after it and whose failure is ignored, is left out: at the restore it
\* only adds tabs to the quarantine.
WriteDone ==
    /\ Alive /\ writes # <<>>
    /\ local' = Head(writes).ids
    /\ sure' = TRUE
    /\ Resume(Head(writes), TRUE)
    /\ writes' = Tail(writes)
    /\ UNCHANGED <<tab, drv, worker, paired, pool, quar, lockq, stored, removed, mishaps>>

WriteFails ==
    /\ Alive /\ writes # <<>> /\ mishaps < MaxMishaps
    /\ sure' = FALSE
    /\ Resume(Head(writes), FALSE)
    /\ writes' = Tail(writes)
    /\ mishaps' = mishaps + 1
    /\ UNCHANGED <<tab, drv, worker, paired, pool, quar, lockq, local, stored, removed>>

\* restoreQuarantinedWriterTabs: whatever the set held before is replaced.
Restore ==
    /\ worker = "restoring"
    /\ quar' = stored /\ stored' = {}
    /\ sure' = TRUE
    /\ worker' = "ready"
    /\ UNCHANGED <<tab, drv, paired, bound, pool, lockq, op, writes, local,
                   removed, unc, tombs, mishaps>>

\* The read fails: the commands that await contextReady run all the same.
RestoreFails ==
    /\ worker = "restoring" /\ mishaps < MaxMishaps
    /\ sure' = FALSE
    /\ worker' = "ready"
    /\ mishaps' = mishaps + 1
    /\ stored' = {}
    /\ UNCHANGED <<tab, drv, paired, bound, pool, quar, lockq, op, writes, local,
                   removed, unc, tombs>>

----------------------------------------------------------------------------
\* Life of the worker and of the tabs.

\* Chrome stops the worker: its maps, its queue and its pending writes are gone.
Kill ==
    /\ Alive /\ mishaps < MaxMishaps
    /\ worker' = "dead"
    /\ mishaps' = mishaps + 1
    /\ bound' = NoTabs /\ pool' = {} /\ quar' = {} /\ sure' = TRUE
    /\ lockq' = <<>> /\ op' = AllIdle /\ writes' = <<>> /\ paired' = FALSE
    /\ unc' = {}
    /\ UNCHANGED <<tab, drv, local, stored, removed, tombs>>

\* An alarm, a message or a click starts a new worker.
Wake ==
    /\ worker = "dead"
    /\ worker' = "restoring" /\ stored' = local
    /\ UNCHANGED <<tab, drv, paired, bound, pool, quar, sure, lockq, op, writes, local,
                   removed, unc, tombs, mishaps>>

\* The Cortex page sends its token: the worker knows its window again.
Pair ==
    /\ Alive /\ ~paired
    /\ paired' = TRUE
    /\ UNCHANGED <<tab, drv, worker, bound, pool, quar, sure, lockq, op, writes, local,
                   stored, removed, unc, tombs, mishaps>>

\* The user closes a tab or takes it to another site.
UserCloses(t) ==
    /\ tab[t] \in {"chat", "away"} /\ MayGo(t)
    /\ tab' = [tab EXCEPT ![t] = "closed"]
    /\ removed' = removed \cup {t}
    /\ unc' = unc \ {t} /\ tombs' = tombs \ {t}
    /\ UNCHANGED <<drv, worker, paired, bound, pool, quar, sure, lockq, op, writes, local,
                   stored, mishaps>>

UserLeaves(t) ==
    /\ tab[t] = "chat" /\ MayGo(t)
    /\ tab' = [tab EXCEPT ![t] = "away"]
    /\ UNCHANGED <<drv, worker, paired, bound, pool, quar, sure, lockq, op, writes, local,
                   stored, removed, unc, tombs, mishaps>>

\* forgetClosedTab: it empties every map of the tab at once, then persists.
Forget(t) ==
    /\ pool' = pool \ {t}
    /\ quar' = quar \ {t}
    /\ bound' = [s \in Sessions |-> IF bound[s] = t THEN None ELSE bound[s]]
    /\ Persist(quar \ {t}, "forget", None)

\* tabs.onRemoved, in a worker that runs: it does not await the restore.
Removed(t) ==
    /\ Alive /\ t \in removed
    /\ Forget(t)
    /\ removed' = removed \ {t}
    /\ UNCHANGED <<tab, drv, worker, paired, sure, lockq, op, local, stored, unc, tombs,
                   mishaps>>

\* tabs.onRemoved wakes a worker: the restore has asked storage.local, and the
\* handler runs before the answer, on empty maps.
RemovedWakes(t) ==
    /\ worker = "dead" /\ t \in removed
    /\ worker' = "restoring" /\ stored' = local
    /\ Forget(t)
    /\ removed' = removed \ {t}
    /\ UNCHANGED <<tab, drv, paired, sure, lockq, op, local, unc, tombs, mishaps>>

----------------------------------------------------------------------------
\* Allocation: one command at a time, in the order of arrival.

Owner(s) == lockq # <<>> /\ Head(lockq) = s
Leave(s) == /\ lockq' = Tail(lockq)
            /\ op' = [op EXCEPT ![s] = Idle]

\* open_chatgpt, navigate, or an action of a session without a tab.
OpenStart(s) ==
    /\ Ready /\ op[s] = Idle
    /\ drv' = [w \in Writers |-> IF w = s /\ drv[w] = "closed" THEN "clean" ELSE drv[w]]
    /\ lockq' = Append(lockq, s)
    /\ op' = [op EXCEPT ![s].pc = "open"]
    /\ UNCHANGED <<tab, worker, paired, bound, pool, quar, sure, writes, local, stored,
                   removed, unc, tombs, mishaps>>

\* The session has a tab: it keeps it unless the tab is gone.
OpenBound(s) ==
    /\ Ready /\ Owner(s) /\ op[s].pc = "open" /\ bound[s] # None
    /\ IF tab[bound[s]] # "closed"
       THEN Leave(s) /\ UNCHANGED bound
       ELSE /\ bound' = [bound EXCEPT ![s] = None]
            /\ UNCHANGED <<lockq, op>>
    /\ UNCHANGED <<tab, drv, worker, paired, pool, quar, sure, writes, local, stored,
                   removed, unc, tombs, mishaps>>

\* Mutant of Walk: a pooled tab that is still bound to its releasing session is taken.
MutWalk(s, rest, excl) ==
    LET barred == rest \cap quar IN
    \/ \E t \in rest \ barred, skipped \in SUBSET barred :
        /\ pool' = pool \ (skipped \cup {t})
        /\ op' = [op EXCEPT ![s] = [pc |-> "taking", t |-> t,
                                   rest |-> rest \ (skipped \cup {t}), excl |-> excl]]
    \/ /\ rest = barred
       /\ pool' = pool \ rest
       /\ op' = [op EXCEPT ![s] = [Idle EXCEPT !.pc = "creating"]]

\* The loop of takeReusableWriterTab up to its next tabs.get: tabs that were
\* bound when it started, or are quarantined now, leave the pool unasked.
Walk(s, rest, excl) ==
    LET barred == rest \cap (excl \cup quar) IN
    \/ \E t \in rest \ barred, skipped \in SUBSET barred :
        /\ pool' = pool \ (skipped \cup {t})
        /\ op' = [op EXCEPT ![s] = [pc |-> "taking", t |-> t,
                                   rest |-> rest \ (skipped \cup {t}), excl |-> excl]]
    \/ /\ rest = barred
       /\ pool' = pool \ rest
       /\ op' = [op EXCEPT ![s] = [Idle EXCEPT !.pc = "creating"]]

\* takeReusableWriterTab starts: the pool and the bound tabs, as they are now.
TakeStart(s) ==
    /\ Ready /\ Owner(s) /\ op[s].pc = "open" /\ bound[s] = None
    /\ s \in Writers
    /\ Walk(s, pool, Bound)
    /\ UNCHANGED <<tab, drv, worker, paired, bound, quar, sure, lockq, writes, local,
                   stored, removed, unc, tombs, mishaps>>

\* tabs.get answers: the tab is bound if it still shows ChatGPT in the Cortex
\* window, else the walk goes on.
TakeAnswer(s) ==
    /\ Ready /\ op[s].pc = "taking"
    /\ IF tab[op[s].t] = "chat" /\ paired
       THEN /\ bound' = [bound EXCEPT ![s] = op[s].t]
            /\ Leave(s) /\ UNCHANGED pool
       ELSE /\ Walk(s, op[s].rest, op[s].excl)
            /\ UNCHANGED <<bound, lockq>>
    /\ UNCHANGED <<tab, drv, worker, paired, quar, sure, writes, local, stored,
                   removed, unc, tombs, mishaps>>

\* tabs.create, bound as soon as it answers.
Create(s) ==
    /\ paired
    /\ \E t \in Tabs : tab[t] = "absent"
    /\ LET t == CHOOSE u \in Tabs : tab[u] = "absent" IN
        /\ tab' = [tab EXCEPT ![t] = "chat"]
        /\ bound' = [bound EXCEPT ![s] = t]
    /\ Leave(s)

\* Mutant of CreateFails: the error path keeps the allocation lock.
MutCreateFails(s) == op' = [op EXCEPT ![s] = Idle] /\ UNCHANGED <<tab, bound, lockq>>

\* Chrome refuses a tab, or no Cortex tab is paired: the command fails.
CreateFails(s) == Leave(s) /\ UNCHANGED <<tab, bound>>

OpenWriter(s) ==
    /\ Ready /\ op[s].pc = "creating"
    /\ Create(s) \/ CreateFails(s)
    /\ UNCHANGED <<drv, worker, paired, pool, quar, sure, writes, local, stored,
                   removed, unc, tombs, mishaps>>

\* Mutant of Excluded: the tabs kept for the next writer are forgotten.
MutExcludedPool == WriterBound \cup quar

\* Mutant of Excluded: the quarantine is for writers only.
MutExcludedQuar == WriterBound \cup pool

\* What a read-only session may not take.
Excluded == WriterBound \cup pool \cup quar

\* A read-only session: refused while the quarantine is unknown.
OpenReader(s) ==
    /\ Ready /\ Owner(s) /\ op[s].pc = "open" /\ bound[s] = None
    /\ s \in Readers
    /\ IF sure /\ paired
       THEN op' = [op EXCEPT ![s] = [@ EXCEPT !.pc = "querying",
                                              !.excl = Excluded]] /\ UNCHANGED lockq
       ELSE Leave(s)
    /\ UNCHANGED <<tab, drv, worker, paired, bound, pool, quar, sure, writes, local,
                   stored, removed, unc, tombs, mishaps>>

\* tabs.query answers: any open ChatGPT tab that is not excluded, else a new one.
QueryAnswer(s) ==
    /\ Ready /\ op[s].pc = "querying"
    /\ LET free == {t \in Tabs : tab[t] = "chat"} \ op[s].excl IN
        \/ /\ bound' \in {[bound EXCEPT ![s] = t] : t \in free}
           /\ Leave(s) /\ UNCHANGED tab
        \/ free = {} /\ (Create(s) \/ CreateFails(s))
    /\ UNCHANGED <<drv, worker, paired, pool, quar, sure, writes, local, stored,
                   removed, unc, tombs, mishaps>>

----------------------------------------------------------------------------
\* The session ends, or meets a closed tab.

\* An attachment was activated in the tab and its delivery was not confirmed:
\* the driver will release the tab as not reusable.
Uncertain(s) ==
    /\ s \in Writers /\ Ready /\ op[s] = Idle
    /\ bound[s] # None /\ tab[bound[s]] = "chat" /\ drv[s] = "clean"
    /\ drv' = [drv EXCEPT ![s] = "dirty"]
    /\ unc' = unc \cup {bound[s]}
    /\ UNCHANGED <<tab, worker, paired, bound, pool, quar, sure, lockq, op, writes, local,
                   stored, removed, tombs, mishaps>>

\* Mutant of Remember: the pool has no limit.
MutRemember(t) == pool' = pool \cup {t}

\* rememberReusableWriterTab: when the pool is full an older member goes.
Remember(t) ==
    IF Cardinality(pool \cup {t}) > MaxReusable
    THEN \E old \in pool : pool' = (pool \ {old}) \cup {t}
    ELSE pool' = pool \cup {t}

\* release_session of a writer that has a tab: the maps change at once, the
\* binding goes only when the quarantine is stored.
Release(s) ==
    /\ Ready /\ op[s] = Idle
    /\ s \in Writers /\ drv[s] # "closed" /\ bound[s] # None
    /\ LET t == bound[s] IN
        /\ op' = [op EXCEPT ![s] = [@ EXCEPT !.pc = "releasing", !.t = t]]
        /\ IF drv[s] = "dirty"
           THEN /\ pool' = pool \ {t} /\ quar' = quar \cup {t}
                /\ Persist(quar \cup {t}, "strict", s)
           ELSE /\ Remember(t) /\ quar' = quar \ {t}
                /\ Persist(quar \ {t}, "lax", s)
    /\ drv' = [drv EXCEPT ![s] = "closed"]
    /\ UNCHANGED <<tab, worker, paired, bound, sure, lockq, local, stored, removed, unc,
                   tombs, mishaps>>

\* release_session of a reader, or of a session the worker does not know.
ReleaseUnbound(s) ==
    /\ Ready /\ op[s] = Idle
    /\ \/ s \in Readers /\ bound' = [bound EXCEPT ![s] = None] /\ UNCHANGED drv
       \/ /\ s \in Writers /\ drv[s] # "closed" /\ bound[s] = None
          /\ drv' = [drv EXCEPT ![s] = "closed"] /\ UNCHANGED bound
    /\ UNCHANGED <<tab, worker, paired, pool, quar, sure, lockq, op, writes, local,
                   stored, removed, unc, tombs, mishaps>>

\* boundTab of any other command finds the tab closed and forgets it.
MeetClosed(s) ==
    /\ Ready /\ op[s] = Idle /\ bound[s] # None /\ tab[bound[s]] = "closed"
    /\ Len(writes) < Cardinality(Tabs)   \* bound: pending writes
    /\ Forget(bound[s])
    /\ UNCHANGED <<tab, drv, worker, paired, sure, lockq, op, local, stored, removed,
                   unc, tombs, mishaps>>

\* close_tab: Chrome removes the tab, then the worker forgets it.
CloseTab(s) ==
    /\ Ready /\ op[s] = Idle /\ bound[s] # None /\ tab[bound[s]] \in {"chat", "away"}
    /\ MayGo(bound[s])
    /\ LET t == bound[s] IN
        /\ tab' = [tab EXCEPT ![t] = "closed"]
        /\ removed' = removed \cup {t}
        /\ unc' = unc \ {t} /\ tombs' = tombs \ {t}
        /\ Forget(t)
    /\ UNCHANGED <<drv, worker, paired, sure, lockq, op, local, stored, mishaps>>

\* list_tabs drops the bindings of closed tabs, and nothing else.
ListTabs ==
    /\ Ready
    /\ bound' = [s \in Sessions |-> IF bound[s] # None /\ tab[bound[s]] = "closed"
                                    THEN None ELSE bound[s]]
    /\ UNCHANGED <<tab, drv, worker, paired, pool, quar, sure, lockq, op, writes, local,
                   stored, removed, unc, tombs, mishaps>>

----------------------------------------------------------------------------
OpenStep(s) == \/ OpenBound(s) \/ TakeStart(s) \/ TakeAnswer(s)
               \/ OpenWriter(s) \/ OpenReader(s) \/ QueryAnswer(s)

Next ==
    \/ WriteDone \/ WriteFails \/ Restore \/ RestoreFails
    \/ Kill \/ Wake \/ Pair \/ ListTabs
    \/ \E t \in Tabs : UserCloses(t) \/ UserLeaves(t) \/ Removed(t) \/ RemovedWakes(t)
    \/ \E s \in Sessions :
        \/ OpenStart(s) \/ OpenStep(s)
        \/ Uncertain(s) \/ Release(s) \/ ReleaseUnbound(s) \/ MeetClosed(s) \/ CloseTab(s)

\* Chrome answers what the worker asks and the worker goes on with it; nothing
\* is assumed of the user, of the backend or of Chrome's stopping the worker.
Fairness ==
    /\ WF_vars(WriteDone) /\ WF_vars(Restore)
    /\ \A s \in Sessions : WF_vars(OpenStep(s))

Spec == Init /\ [][Next]_vars /\ Fairness

----------------------------------------------------------------------------
\* Properties.

\* Two conversations never have the same tab, although a released tab
\* enters the pool before its binding goes and allocations wait for Chrome.
OneWriterPerTab ==
    \A s1, s2 \in Writers :
        bound[s1] = bound[s2] /\ bound[s1] # None => s1 = s2

\* A read-only session (it navigates its tab as it likes) never holds a tab
\* that a writer drives, may take again, or left uncertain: what it was
\* refused when it asked Chrome stays true after the answer.
ReadersApart ==
    \A r \in Readers :
        bound[r] # None => bound[r] \notin WriterBound \cup pool \cup quar

\* While the worker that saw the delivery lives, an uncertain tab is not in the
\* pool and no session but the one that left it so is bound to it.
UncertainContained ==
    \A t \in unc :
        /\ t \notin pool
        /\ \A s \in Sessions :
            bound[s] = t => s \in Writers /\ (drv[s] = "dirty" \/ op[s].pc = "releasing")

Asking(s) == op[s].pc \in {"open", "taking", "creating", "querying"}

\* Every command that asks for a tab is answered, or lost with its worker: the
\* allocation lock never stays taken.
OpenEnds ==
    \A s \in Sessions : Asking(s) ~> ~Asking(s)

\* CHANGELOG.md:139-142: a writer tab released after uncertain delivery is
\* durably quarantined from writer, read-only and screenshot allocation.
QuarantineDurable == \A s \in Sessions : bound[s] \notin tombs
=============================================================================
