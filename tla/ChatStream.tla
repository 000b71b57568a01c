----------------------------- MODULE ChatStream -----------------------------
(***************************************************************************)
(* The chat page of the console: the table of conversations that the       *)
(* reducer keeps, the event streams, recoveries and cancellations that     *)
(* useChatRunStream drives, and the runs of the backend they follow.       *)
(*                                                                         *)
(* A conversation starts under a provisional key and moves to the key of   *)
(* its chat when the backend reports the delivery; what is in flight moves *)
(* with it.  Every event of a stream, every answer and every timer is one  *)
(* callback of the page: the reducer's events it dispatches are composed   *)
(* as operators on one record, `ui`.                                       *)
(*                                                                         *)
(* POST number i creates run i, and a run of a provisional conversation    *)
(* opens the chat whose key is i.  A draft stands for a text or for a      *)
(* staged file, which the reducer and the two ways to send treat alike.    *)
(* Snapshots of messages, missions, screenshots and the selected           *)
(* conversation are left out; an entry that only its selection retains may *)
(* therefore go at any refresh.  So are "stream" events: they grow the     *)
(* answer of a run that is shown as delivered already.                     *)
(***************************************************************************)
EXTENDS Naturals, Sequences, FiniteSets

CONSTANTS
    Provisional,  \* keys "provisional:<uuid>"
    MaxPosts,     \* bound: sends the user makes
    MaxTexts,     \* bound: texts the user types
    Cap,          \* the events a run keeps (500 in the code)
    MaxMishaps,   \* bound: lost connections, answers and refused requests
    Budget,       \* bound: texts and mishaps together
    None

VARIABLES
    ui,       \* the page: [entry, conflict, stream, epoch, rec, can], and as a
              \* history the chats whose stream the hook did not replace (torn)
    posts,    \* key -> the run its POST asks for, 0 when none is in flight
    posted,   \* sends so far
    typed,    \* texts typed so far
    runs,     \* the backend's runs
    gone,     \* history: texts the user replaced or left when resolving a conflict
    open,     \* history: provisional copies whose conflict nobody resolved
    mishaps

vars == <<ui, posts, posted, typed, runs, gone, open, mishaps>>

Ids == 1..MaxPosts
Keys == Provisional \cup Ids
Final == {"COMPLETED", "FAILED", "CANCELLED"}
LastEvent == [COMPLETED |-> "complete", FAILED |-> "error", CANCELLED |-> "cancelled"]
Events == Final \cup {"delivery", "complete", "error", "cancelled"}

States == Final \cup {"SENDING", "DELIVERED", "DELIVERY_UNCERTAIN"}

\* What the table holds for a key, and what the hook holds for one.
Entry ==
    [draft : Nat, payload : [run : Ids, text : Nat] \cup {None}, run : Nat,
     shown : States \cup {None}, epoch : Nat,
     sending : BOOLEAN, cancelling : BOOLEAN, recovering : BOOLEAN]
Stream == [run : Ids, epoch : Nat, sent : Nat, again : BOOLEAN]
Recovery == [run : Ids, epoch : Nat]
Cancellation == [run : Ids, epoch : Nat, at : {"asked", "stopping"}]

Run ==
    [state : Final \cup {"none", "SENDING", "DELIVERED"}, ev : Seq(Events), chat : 0..MaxPosts,
     text : Nat, new : BOOLEAN, delivered : BOOLEAN, stop : BOOLEAN, been : SUBSET Final]

ASSUME ChatStreamAssumption ==
    /\ MaxPosts \in Nat \ {0} /\ MaxTexts \in Nat
    /\ Cap \in Nat \ {0, 1} /\ MaxMishaps \in Nat /\ Budget \in Nat
    /\ Provisional \cap Nat = {} /\ None \notin Provisional \cup Nat

\* None stands for the absence of a record, or of a state.
ASSUME NoneIsNothing ==
    /\ None \notin Entry /\ None \notin Stream /\ None \notin Recovery /\ None \notin Cancellation
    /\ None \notin [run : Ids, text : Nat] /\ None \notin States

NoConflict == [from |-> None, to |-> None]

NewEntry ==
    [draft |-> 0, payload |-> None, run |-> 0, shown |-> None, epoch |-> 0,
     sending |-> FALSE, cancelling |-> FALSE, recovering |-> FALSE]

NoRun == [state |-> "none", ev |-> <<>>, chat |-> 0, text |-> 0, new |-> FALSE,
          delivered |-> FALSE, stop |-> FALSE, been |-> {}]

-----------------------------------------------------------------------------
(* The reducer, one operator per event.                                    *)

Has(u, k) == u.entry[k] # None

WithEntry(u, k, e) == [u EXCEPT !.entry = [@ EXCEPT ![k] = e]]

\* f with what it holds for k under c, and nothing for k.
Moved(f, k, c) == [q \in Keys |-> IF q = c THEN f[k] ELSE IF q = k THEN None ELSE f[q]]

RunActive(e) == e.run # 0 /\ e.shown \in {"SENDING", "DELIVERED"}

ActiveWork(e) == e.sending \/ e.cancelling \/ e.recovering \/ RunActive(e)

\* Whether entry k shows run r as stream `ep` of it.
Follows(u, k, r, ep) == Has(u, k) /\ u.entry[k].run = r /\ u.entry[k].epoch = ep

\* DRAFT_CHANGED and ATTACHMENT_STAGED: what replaces a message whose delivery
\* is in doubt is no longer that message.
DraftChanged(u, k, text) ==
    WithEntry(u, k, [u.entry[k] EXCEPT
        !.draft = text,
        !.payload = IF u.entry[k].shown = "DELIVERY_UNCERTAIN" THEN None ELSE @])

\* REQUEST_STARTED and REQUEST_FAILED.
RequestStarted(u, k) == WithEntry(u, k, [u.entry[k] EXCEPT !.sending = TRUE])
RequestFailed(u, k) ==
    IF Has(u, k) THEN WithEntry(u, k, [u.entry[k] EXCEPT !.sending = FALSE]) ELSE u

\* RUN_EVENT with the run of a POST that was accepted.
RunAccepted(u, k, r, ep, text) ==
    IF Has(u, k)
    THEN [WithEntry(u, k, [u.entry[k] EXCEPT
             !.payload = [run |-> r, text |-> text],
             !.run = r, !.shown = "SENDING", !.epoch = ep,
             !.sending = FALSE, !.recovering = FALSE]) EXCEPT !.torn = @ \ {k}]
    ELSE u

\* RUN_EVENT with a run the backend answered later, state s.
RunSnapshot(u, k, r, ep, s, delivered) ==
    IF Has(u, k) /\ u.entry[k].run = r /\ ep >= u.entry[k].epoch
    THEN LET e == u.entry[k]
             clear == delivered /\ e.payload # None /\ e.draft = e.payload.text
         IN WithEntry(u, k,
               [e EXCEPT !.shown = s, !.epoch = ep, !.recovering = FALSE,
                         !.draft = IF clear THEN 0 ELSE @,
                         !.payload = IF delivered \/ s \in {"FAILED", "CANCELLED"} THEN None ELSE @,
                         !.cancelling = @ /\ s \notin Final])
    ELSE u

\* applyRunEvent: the state the entry shows after an event.
After(e, ev) ==
    CASE ev = "delivery" -> "DELIVERED"
      [] ev \in Final -> ev
      [] OTHER -> CHOOSE s \in Final : LastEvent[s] = ev

\* RUN_EVENT with an event of the stream.
StreamEvent(u, k, r, ep, ev) ==
    IF Follows(u, k, r, ep)
    THEN LET e == u.entry[k]
             last == ev \in {"complete", "error", "cancelled"}
             clear == ev = "delivery" /\ e.payload # None /\ e.payload.run = r
                      /\ e.draft = e.payload.text
         IN WithEntry(u, k,
               [e EXCEPT !.shown = After(e, ev),
                         !.draft = IF clear THEN 0 ELSE @,
                         !.payload = IF ev \in {"delivery", "error", "cancelled"} THEN None ELSE @,
                         !.cancelling = @ /\ ~last, !.recovering = @ /\ ~last])
    ELSE u

\* Mutant of Exhausted: a run that could not be read is shown as failed.
MutExhausted(u, k, r, ep) ==
    IF Follows(u, k, r, ep)
    THEN WithEntry(u, k, [u.entry[k] EXCEPT !.shown = "FAILED",
                                            !.sending = FALSE, !.recovering = FALSE])
    ELSE u

\* RUN_RECOVERY_EXHAUSTED.
Exhausted(u, k, r, ep) ==
    IF Follows(u, k, r, ep)
    THEN WithEntry(u, k, [u.entry[k] EXCEPT !.shown = "DELIVERY_UNCERTAIN",
                                            !.sending = FALSE, !.recovering = FALSE])
    ELSE u

\* RUN_OPERATION_PENDING.
CancelFlag(u, t, on, k) ==
    IF Follows(u, k, t.run, t.epoch)
    THEN WithEntry(u, k, [u.entry[k] EXCEPT !.cancelling = on]) ELSE u
RecoveryFlag(u, t, on, k) ==
    IF Follows(u, k, t.run, t.epoch)
    THEN WithEntry(u, k, [u.entry[k] EXCEPT !.recovering = on]) ELSE u

\* Mutant of RekeyCanonical: the entry is copied.
MutRekeyCanonical(u, k, c) ==
    CASE ~Has(u, k) -> u
      [] Has(u, k) /\ k # c /\ Has(u, c) -> [u EXCEPT !.conflict = [from |-> k, to |-> c]]
      [] OTHER -> [WithEntry(u, c, u.entry[k]) EXCEPT !.conflict = NoConflict]

\* REKEY_CANONICAL: the entry moves, unless its chat has an entry already.
RekeyCanonical(u, k, c) ==
    CASE ~Has(u, k) -> u
      [] Has(u, k) /\ k # c /\ Has(u, c) -> [u EXCEPT !.conflict = [from |-> k, to |-> c]]
      [] OTHER -> [u EXCEPT !.conflict = NoConflict, !.entry = Moved(@, k, c)]

\* Mutant of Summaries: an unlisted entry is kept for its work only.
MutSummaries(u, listed, selected) ==
    [u EXCEPT !.entry = [k \in Keys |->
        LET e == u.entry[k] IN
        CASE k \in listed -> IF e = None THEN NewEntry ELSE e
          [] e = None -> None
          [] OTHER -> IF ActiveWork(e) \/ (k \in Provisional /\ k = selected) THEN e ELSE None]]

\* SUMMARIES_RECEIVED: the listed chats, and the entries worth keeping.
Summaries(u, listed, selected) ==
    [u EXCEPT !.entry = [k \in Keys |->
        LET e == u.entry[k] IN
        CASE k \in listed -> IF e = None THEN NewEntry ELSE e
          [] e = None -> None
          [] OTHER -> IF \/ ActiveWork(e) \/ e.draft # 0 \/ e.payload # None
                         \/ k \in Provisional /\ k = selected
                      THEN e ELSE None]]

\* canResolveRekeyConflict: neither copy has work under way.
MayResolve(u) ==
    /\ u.conflict # NoConflict
    /\ Has(u, u.conflict.from) /\ ~ActiveWork(u.entry[u.conflict.from])
    /\ Has(u, u.conflict.to) /\ ~ActiveWork(u.entry[u.conflict.to])

\* RESOLVE_REKEY_CONFLICT: one copy stays, under the key of the chat.
Resolved(u, choice) ==
    LET f == u.conflict.from
        t == u.conflict.to
    IN [u EXCEPT !.conflict = NoConflict,
                 !.entry = IF choice = "source" THEN Moved(@, f, t)
                           ELSE [@ EXCEPT ![f] = None]]

-----------------------------------------------------------------------------
(* useChatRunStream: its maps and the helpers its callbacks share.         *)

CloseBinding(u, k) == [u EXCEPT !.stream = [@ EXCEPT ![k] = None]]

\* close, for a conversation without recovery or cancellation.
Close(u, k) == CloseBinding([u EXCEPT !.epoch = [@ EXCEPT ![k] = u.epoch[k] + 1]], k)

\* Mutant of Unflagged: only the flag of the recovery is cleared.
MutUnflagged(e, r, c) ==
    IF e = None THEN None
    ELSE [e EXCEPT !.recovering = @ /\ ~(r # None /\ e.run = r.run /\ e.epoch = r.epoch)]

\* An entry once recovery r or cancellation c of it, if any, has ended.
Unflagged(e, r, c) ==
    IF e = None THEN None
    ELSE [e EXCEPT !.recovering = @ /\ ~(r # None /\ e.run = r.run /\ e.epoch = r.epoch),
                   !.cancelling = @ /\ ~(c # None /\ e.run = c.run /\ e.epoch = c.epoch)]

FinishRecovery(u, k) ==
    [WithEntry(u, k, Unflagged(u.entry[k], u.rec[k], None))
        EXCEPT !.rec = [@ EXCEPT ![k] = None]]

FinishCancellation(u, k) ==
    [WithEntry(u, k, Unflagged(u.entry[k], None, u.can[k]))
        EXCEPT !.can = [@ EXCEPT ![k] = None]]

\* cancelRecovery and cancelCancellation of the keys K.
Drop(u, K) ==
    [u EXCEPT !.rec = [k \in Keys |-> IF k \in K THEN None ELSE u.rec[k]],
              !.can = [k \in Keys |-> IF k \in K THEN None ELSE u.can[k]],
              !.entry = [k \in Keys |-> IF k \in K THEN Unflagged(u.entry[k], u.rec[k], u.can[k])
                                        ELSE u.entry[k]]]

MayRecover(u, k, ep) == u.rec[k] = None /\ u.stream[k] = None /\ u.epoch[k] = ep

\* startRecovery, when MayRecover.
StartRecovery(u, k, r, ep) ==
    LET t == [run |-> r, epoch |-> ep]
    IN RecoveryFlag([u EXCEPT !.rec = [@ EXCEPT ![k] = t]], t, TRUE, k)

\* cancel: the recovery of the run ends, its cancellation is asked for.
StartCancellation(u, k, r, ep) ==
    LET t == [run |-> r, epoch |-> ep, at |-> "asked"]
    IN CancelFlag([FinishRecovery(u, k) EXCEPT !.can = [@ EXCEPT ![k] = t]], t, TRUE, k)

\* Mutant of Bind: the epoch of the new stream is not recorded.
MutBind(u, k, r, ep, again) ==
    [Drop(u, {k}) EXCEPT
        !.stream = [@ EXCEPT ![k] = [run |-> r, epoch |-> ep, sent |-> 0, again |-> again]]]

\* subscribe: `again` marks a stream that a recovery opened, which inherits the
\* attempts and the deadline of that recovery.
Bind(u, k, r, ep, again) ==
    [Drop(u, {k}) EXCEPT
        !.epoch = [@ EXCEPT ![k] = ep],
        !.stream = [@ EXCEPT ![k] = [run |-> r, epoch |-> ep, sent |-> 0, again |-> again]]]

\* rekey(from, to, choice, epoch) of the hook; it refuses to give a chat whose
\* stream is open the stream of another key.
RekeyHook(u, f, t, choice, ep) ==
    IF f = t THEN [u EXCEPT !.epoch = [@ EXCEPT ![t] = ep]]
    ELSE IF choice = "source" /\ u.stream[t] # None THEN [u EXCEPT !.torn = @ \cup {t}]
    ELSE [Drop(u, {f, t}) EXCEPT
            !.epoch = [[@ EXCEPT ![f] = 0] EXCEPT ![t] = ep],
            !.stream = IF choice = "source" THEN Moved(@, f, t)
                       ELSE [@ EXCEPT ![f] = None]]

\* What a callback makes of the page, and of the conflicts the user has seen.
Show(u) ==
    /\ ui' = u
    /\ open' = {k \in open \cup ({ui'.conflict.from} \ {None}) : Has(ui', k)}

Mishap == mishaps < MaxMishaps /\ typed + mishaps < Budget /\ mishaps' = mishaps + 1

-----------------------------------------------------------------------------
(* The user.                                                               *)

\* The composer takes input (composerBlocked), and a send (executionBlocked).
MayEdit(k) == Has(ui, k) /\ ~ui.entry[k].sending /\ ui.conflict.from # k
Submits(k) == MayEdit(k) /\ ~ActiveWork(ui.entry[k]) /\ ui.entry[k].draft # 0

\* The user types a new text over what the composer holds, or picks a file.
Type(k) ==
    /\ MayEdit(k) /\ typed < MaxTexts /\ typed + mishaps < Budget
    /\ typed' = typed + 1
    /\ gone' = IF ui.entry[k].draft = 0 THEN gone ELSE gone \cup {ui.entry[k].draft}
    /\ Show(DraftChanged(ui, k, typed'))
    /\ UNCHANGED <<posts, posted, runs, mishaps>>

\* beginExecution: what a send checks before its POST leaves.
MayBegin(k) ==
    /\ Has(ui, k) /\ ~ActiveWork(ui.entry[k]) /\ posts[k] = 0
    /\ ui.conflict.from # k
    /\ ui.rec[k] = None /\ ui.can[k] = None

\* sendChat and sendAttachment: the stream that is still open is closed and a
\* POST leaves.
Send(k) ==
    /\ Submits(k) /\ MayBegin(k) /\ posted < MaxPosts
    /\ posted' = posted + 1
    /\ posts' = [posts EXCEPT ![k] = posted']
    /\ runs' = [runs EXCEPT ![posted'] = [@ EXCEPT !.text = ui.entry[k].draft]]
    /\ Show(RequestStarted(Close(ui, k), k))
    /\ UNCHANGED <<typed, gone, mishaps>>

\* cancelChat, while the page shows an active run.
Cancel(k) ==
    /\ Has(ui, k) /\ RunActive(ui.entry[k]) /\ ui.can[k] = None
    /\ Show(StartCancellation(ui, k, ui.entry[k].run, ui.entry[k].epoch))
    /\ UNCHANGED <<posts, posted, typed, runs, gone, mishaps>>

\* retryChatRecovery.
Retry(k) ==
    /\ Has(ui, k) /\ ui.entry[k].shown = "DELIVERY_UNCERTAIN" /\ ~ui.entry[k].recovering
    /\ MayRecover(ui, k, ui.entry[k].epoch)
    /\ Show(StartRecovery(ui, k, ui.entry[k].run, ui.entry[k].epoch))
    /\ UNCHANGED <<posts, posted, typed, runs, gone, mishaps>>

\* resolveRekeyConflict: the user keeps one of the two copies.
Resolve(choice) ==
    LET f == ui.conflict.from
        t == ui.conflict.to
        u == Resolved(ui, choice)
    IN /\ MayResolve(ui)
       /\ gone' = gone \cup ({ui.entry[IF choice = "source" THEN t ELSE f].draft} \ {0})
       /\ Show(RekeyHook(u, f, t, choice, u.entry[t].epoch))
       /\ UNCHANGED <<posts, posted, typed, runs, mishaps>>

-----------------------------------------------------------------------------
(* The backend's runs.                                                     *)

\* Mutant of Emit: nothing is dropped.
MutEmit(ev, more) == ev \o more

\* _emit: append and keep the last events only.  A status that repeats what the
\* entry shows (before the delivery, during the answer) is left out.
Emit(ev, more) ==
    LET all == ev \o more
    IN SubSeq(all, IF Len(all) > Cap THEN Len(all) - Cap + 1 ELSE 1, Len(all))

Alive(r) == runs[r].state \in {"SENDING", "DELIVERED"}

\* The conversation whose writer lease an active run holds: a provisional key
\* of its own until the delivery.
Leased(k) == \E r \in Ids : Alive(r) /\ runs[r].chat = k /\ (runs[r].new => runs[r].delivered)

\* send_chat: run r for the conversation under key k.
Created(k, r) ==
    [runs[r] EXCEPT !.state = "SENDING",
                    !.new = k \in Provisional, !.chat = IF k \in Provisional THEN r ELSE k]

Ended(run, s) ==
    [run EXCEPT !.state = s, !.been = @ \cup {s},
                !.ev = Emit(@, IF run.state = s THEN <<LastEvent[s]>> ELSE <<s, LastEvent[s]>>)]

\* send_message proved the message on the page.
Delivers(r) ==
    /\ runs[r].state = "SENDING"
    /\ runs' = [runs EXCEPT ![r] = [@ EXCEPT !.state = "DELIVERED", !.delivered = TRUE,
                                             !.ev = Emit(runs[r].ev, <<"delivery">>)]]
    /\ UNCHANGED <<ui, posts, posted, typed, gone, open, mishaps>>

\* The run ends by itself; once its cancel was asked it never completes.
Ends(r) ==
    /\ Alive(r)
    /\ \E s \in Final :
          /\ s = "COMPLETED" => runs[r].delivered /\ ~runs[r].stop
          /\ s = "CANCELLED" => runs[r].stop
          /\ runs' = [runs EXCEPT ![r] = Ended(@, s)]
    /\ UNCHANGED <<ui, posts, posted, typed, gone, open, mishaps>>

\* What cancel_chat_run writes once the page stopped generating, whatever the
\* run has become since the request was read; its task, cancelled, reports too.
Cancelled(run) ==
    LET once == Ended(run, "CANCELLED")
    IN IF run.state \in Final THEN once ELSE [once EXCEPT !.ev = Emit(@, <<"cancelled">>)]

-----------------------------------------------------------------------------
(* The callbacks of the page.                                              *)

\* The POST is answered: the backend created the run, the page follows it.
PostAnswered(k) ==
    /\ posts[k] # 0 /\ ~Leased(k)
    /\ posts' = [posts EXCEPT ![k] = 0]
    /\ runs' = [runs EXCEPT ![posts[k]] = Created(k, posts[k])]
    /\ LET ep == ui.epoch[k] + 1
           u == RunAccepted(ui, k, posts[k], ep, runs[posts[k]].text)
       IN Show(IF /\ ui.stream[k] = None /\ ui.rec[k] = None /\ ui.can[k] = None
                  /\ Follows(u, k, posts[k], ep)
               THEN Bind(u, k, posts[k], ep, FALSE) ELSE ui)
    /\ UNCHANGED <<posted, typed, gone, mishaps>>

\* REQUEST_FAILED: the writer lease is taken or the console is full, or the 10
\* seconds of the request pass, and then the run may have been created.
PostFails(k) ==
    /\ posts[k] # 0 /\ Mishap
    /\ posts' = [posts EXCEPT ![k] = 0]
    /\ \/ UNCHANGED runs
       \/ ~Leased(k) /\ runs' = [runs EXCEPT ![posts[k]] = Created(k, posts[k])]
    /\ Show(RequestFailed(ui, k))
    /\ UNCHANGED <<posted, typed, gone>>

\* onmessage: the next event of the list is reduced; a delivery moves the
\* conversation and what is in flight to its chat, a last event ends the stream.
Message(k) ==
    /\ ui.stream[k] # None
    /\ LET b == ui.stream[k]
           ev == runs[b.run].ev[b.sent + 1]
           c == runs[b.run].chat
           read == [ui.stream EXCEPT ![k] = [b EXCEPT !.sent = b.sent + 1]]
           u == StreamEvent([ui EXCEPT !.stream = read], k, b.run, b.epoch, ev)
           v == IF ev = "delivery" /\ c # k THEN RekeyCanonical(u, k, c) ELSE u
           moved == Has(u, k) /\ ~Has(v, k) /\ v.stream[c] = None
       IN /\ b.sent < Len(runs[b.run].ev)
          /\ Show(CASE moved ->
                        [v EXCEPT
                            !.stream = Moved(@, k, c),
                            !.epoch = [[@ EXCEPT ![k] = 0] EXCEPT
                                ![c] = IF v.epoch[c] > b.epoch THEN v.epoch[c] ELSE b.epoch],
                            !.can = IF v.can[c] = None THEN Moved(@, k, c) ELSE @]
                    [] ev \in {"complete", "error", "cancelled"} /\ Has(u, k) ->
                        CloseBinding(FinishCancellation(v, k), k)
                    [] OTHER -> v)
    /\ UNCHANGED <<posts, posted, typed, runs, gone, mishaps>>

\* onerror: a cancellation of the same stream will tell; otherwise a recovery
\* starts, or gives up at once when the one that opened the stream is spent.
Disconnected(k) ==
    LET b == ui.stream[k]
        u == CloseBinding(ui, k)
        asked == ui.can[k] # None /\ ui.can[k].run = b.run /\ ui.can[k].epoch = b.epoch
    IN \/ /\ asked \/ ~MayRecover(u, k, b.epoch)
          /\ Show(u)
       \/ /\ ~asked /\ MayRecover(u, k, b.epoch)
          /\ \/ Show(StartRecovery(u, k, b.run, b.epoch))
             \/ b.again /\ Show(Exhausted(u, k, b.run, b.epoch))

\* The connection breaks.
Breaks(k) ==
    /\ ui.stream[k] # None /\ Mishap
    /\ Disconnected(k)
    /\ UNCHANGED <<posts, posted, typed, runs, gone>>

\* The backend closes the stream of a finished run whose list is read.
Closes(k) ==
    /\ ui.stream[k] # None
    /\ LET r == runs[ui.stream[k].run]
       IN r.state \in Final /\ ui.stream[k].sent >= Len(r.ev)
    /\ Disconnected(k)
    /\ UNCHANGED <<posts, posted, typed, runs, gone, mishaps>>

\* Mutant of Current: the epoch is compared with that of the next stream.
MutCurrent(k) == ui.rec[k] # None /\ ui.epoch[k] = ui.rec[k].epoch + 1 /\ ui.stream[k] = None

\* isCurrent.
Current(k) == ui.rec[k] # None /\ ui.epoch[k] = ui.rec[k].epoch /\ ui.stream[k] = None

\* A recovery reads the run: it has ended, or the page follows it again.
Recovers(k) ==
    /\ Current(k) /\ runs[ui.rec[k].run].state # "none"
    /\ LET t == ui.rec[k]
           r == runs[t.run]
           u == FinishRecovery(ui, k)
           v == RunSnapshot(u, k, t.run, t.epoch, r.state, r.delivered)
           ep == ui.epoch[k] + 1
           w == RunSnapshot(u, k, t.run, ep, r.state, r.delivered)
       IN Show(CASE r.state \in Final /\ Has(v, k) /\ v.entry[k].run = t.run /\ r.delivered ->
                        RekeyCanonical(v, k, r.chat)
                 [] r.state \in Final /\ ~(Has(v, k) /\ v.entry[k].run = t.run /\ r.delivered) -> v
                 [] r.state \notin Final /\ ui.can[k] = None /\ Follows(w, k, t.run, ep) ->
                        Bind(w, k, t.run, ep, TRUE)
                 [] OTHER -> ui)
    /\ UNCHANGED <<posts, posted, typed, runs, gone, mishaps>>

\* Three attempts failed or ten seconds passed.
GivesUp(k) ==
    /\ Current(k) /\ Mishap
    /\ Show(Exhausted(FinishRecovery(ui, k), k, ui.rec[k].run, ui.rec[k].epoch))
    /\ UNCHANGED <<posts, posted, typed, runs, gone>>

\* The answer of a cancellation: the run is final and the conversation moves to
\* its chat, with whatever the hook holds for it.
CancelTold(k, run) ==
    LET t == ui.can[k]
        u == RunSnapshot(Drop(ui, {k}), k, t.run, t.epoch, run.state, run.delivered)
        shows == Has(u, k) /\ u.entry[k].run = t.run
        v == IF run.delivered /\ shows THEN RekeyCanonical(u, k, run.chat) ELSE u
        moved == Has(u, k) /\ ~Has(v, k)
        w == IF moved THEN RekeyHook(v, k, run.chat, "source", t.epoch) ELSE v
        at == IF moved THEN run.chat ELSE k
        b == w.stream[at]
    IN Show(IF /\ Has(w, at) /\ w.entry[at].run = t.run
               /\ b # None /\ b.run = t.run /\ b.epoch = t.epoch
            THEN CloseBinding(w, at) ELSE w)

\* cancel_chat_run reads the state: a finished run answers at once.
CancelRead(k) ==
    /\ ui.can[k] # None /\ ui.can[k].at = "asked"
    /\ LET r == ui.can[k].run
       IN IF runs[r].state \in Final
          THEN CancelTold(k, runs[r]) /\ UNCHANGED runs
          ELSE /\ runs' = [runs EXCEPT ![r].stop = TRUE]
               /\ Show([ui EXCEPT !.can = [@ EXCEPT ![k] = [ui.can[k] EXCEPT !.at = "stopping"]]])
    /\ UNCHANGED <<posts, posted, typed, gone, mishaps>>

\* The page of ChatGPT stopped generating.
CancelDone(k) ==
    /\ ui.can[k] # None /\ ui.can[k].at = "stopping"
    /\ runs' = [runs EXCEPT ![ui.can[k].run] = Cancelled(@)]
    /\ CancelTold(k, runs'[ui.can[k].run])
    /\ UNCHANGED <<posts, posted, typed, gone, mishaps>>

\* The cancellation fails, or its answer is late although the backend did it.
CancelFails(k) ==
    /\ ui.can[k] # None /\ Mishap
    /\ \/ UNCHANGED runs
       \/ /\ ui.can[k].at = "stopping" \/ Alive(ui.can[k].run)
          /\ runs' = [runs EXCEPT ![ui.can[k].run] = Cancelled(@)]
    /\ LET t == ui.can[k]
           u == FinishCancellation(ui, k)
           b == ui.stream[k]
       IN Show(CASE b # None /\ b.run = t.run /\ b.epoch = t.epoch -> u
                 [] ~(b # None /\ b.run = t.run /\ b.epoch = t.epoch) /\ MayRecover(u, k, t.epoch) ->
                        StartRecovery(u, k, t.run, t.epoch)
                 [] OTHER -> Exhausted(u, k, t.run, t.epoch))
    /\ UNCHANGED <<posts, posted, typed, gone>>

\* refreshConversations: any of the chats that exist, some selection.  That the
\* list names the chats whose run the page shows is an assumption: they were
\* written to in this session, and the 50 most recent ones are listed.
Refresh ==
    /\ \E listed \in SUBSET {runs[r].chat : r \in {q \in Ids : runs[q].delivered}},
          selected \in Provisional \cup {None} :
            /\ \A k \in Ids : Has(ui, k) /\ ui.entry[k].run # 0 => k \in listed
            /\ Show(Summaries(ui, listed, selected))
    /\ UNCHANGED <<posts, posted, typed, runs, gone, mishaps>>

-----------------------------------------------------------------------------
\* newConversation: the page starts with empty provisional conversations.
Init ==
    /\ ui = [entry |-> [k \in Keys |-> IF k \in Provisional THEN NewEntry ELSE None],
             conflict |-> NoConflict,
             stream |-> [k \in Keys |-> None], epoch |-> [k \in Keys |-> 0],
             rec |-> [k \in Keys |-> None], can |-> [k \in Keys |-> None], torn |-> {}]
    /\ posts = [k \in Keys |-> 0] /\ posted = 0 /\ typed = 0
    /\ runs = [r \in Ids |-> NoRun]
    /\ gone = {} /\ open = {} /\ mishaps = 0

User ==
    \/ \E k \in Keys : Type(k) \/ Send(k) \/ Cancel(k) \/ Retry(k)
    \/ \E choice \in {"source", "target"} : Resolve(choice)

Page(k) ==
    \/ PostAnswered(k) \/ Message(k) \/ Closes(k) \/ Recovers(k)
    \/ CancelRead(k) \/ CancelDone(k)

Trouble(k) == PostFails(k) \/ Breaks(k) \/ GivesUp(k) \/ CancelFails(k)

Next ==
    \/ User \/ Refresh
    \/ \E k \in Keys : Page(k) \/ Trouble(k)
    \/ \E r \in Ids : Delivers(r) \/ Ends(r)

\* Answers and events reach the page, and a run ends: every wait of the backend
\* has a deadline.  Nothing is fair about the user, the refresh or the mishaps.
Spec ==
    /\ Init /\ [][Next]_vars
    /\ WF_vars(\E k \in Keys : Page(k))
    /\ WF_vars(\E r \in Ids : Ends(r))

-----------------------------------------------------------------------------
PageState ==
    [entry : [Keys -> Entry \cup {None}],
     conflict : [from : Keys, to : Ids] \cup {NoConflict},
     stream : [Keys -> Stream \cup {None}], epoch : [Keys -> Nat],
     rec : [Keys -> Recovery \cup {None}], can : [Keys -> Cancellation \cup {None}],
     torn : SUBSET Ids]

TypeOK ==
    /\ ui \in PageState
    /\ \A k \in Keys : Has(ui, k) => ui.entry[k].draft <= typed /\ ui.entry[k].run <= posted
    /\ posts \in [Keys -> 0..posted] /\ posted \in 0..MaxPosts /\ typed \in 0..MaxTexts
    /\ runs \in [Ids -> Run] /\ \A r \in Ids : Len(runs[r].ev) <= Cap
    /\ gone \subseteq 1..typed /\ open \subseteq Provisional /\ mishaps \in 0..MaxMishaps

\* What the page says it waits for is really under way under the same key: a
\* POST, a cancellation, a recovery.  A flag that outlives its task blocks the
\* composer for good.  (In a torn chat the flag of a POST can: a recovery of the
\* run it shows may start while the POST is out, and then nobody takes the
\* answer.)
PendingTruthful ==
    \A k \in Keys : Has(ui, k) =>
        /\ k \notin ui.torn => (ui.entry[k].sending <=> posts[k] # 0)
        /\ ui.entry[k].cancelling => ui.can[k] # None
        /\ ui.entry[k].recovering => ui.rec[k] # None

\* A run shown as active is watched: its stream is open, or a recovery or a
\* cancellation of it will answer, under the key and the epoch of its entry,
\* also after the conversation has moved.
ActiveWatched ==
    \A k \in Keys : Has(ui, k) /\ RunActive(ui.entry[k]) =>
        \E t \in {ui.stream[k], ui.rec[k], ui.can[k]} :
            t # None /\ t.run = ui.entry[k].run /\ t.epoch = ui.entry[k].epoch

\* Moving, merging and refreshing conversations never shows one run twice, and
\* never leaves two streams on one run.
RunShownOnce ==
    \A j, k \in Keys : j # k =>
        /\ Has(ui, j) /\ Has(ui, k) /\ ui.entry[j].run # 0 => ui.entry[j].run # ui.entry[k].run
        /\ ui.stream[j] # None /\ ui.stream[k] # None => ui.stream[j].run # ui.stream[k].run

\* A text the user typed is in a composer or in ChatGPT, unless the user
\* replaced it or let it go.
NothingLost ==
    \A t \in 1..typed :
        \/ t \in gone
        \/ \E k \in Keys : Has(ui, k) /\ ui.entry[k].draft = t
        \/ \E r \in Ids : runs[r].text = t /\ runs[r].delivered

\* A final state on the page is one the run has reached; doubt is shown as
\* DELIVERY_UNCERTAIN, and a delivery is never shown before it was proved.
ShownTruthful ==
    \A k \in Keys : Has(ui, k) /\ ui.entry[k].run # 0 =>
        LET e == ui.entry[k] IN
        /\ e.shown \in Final => e.shown \in runs[e.run].been
        /\ e.shown = "DELIVERED" => runs[e.run].delivered

\* The page comes to rest: every wait it shows ends, without the user's help,
\* but for the flag of a POST in a torn chat.
Settles == []<>(\A k \in Keys \ ui.torn : Has(ui, k) => ~ActiveWork(ui.entry[k]))

\* A provisional copy whose chat already has an entry sends nothing until the
\* user has resolved the conflict.
ConflictResolvedBeforeSend ==
    \A k \in open : posts[k] = 0
=============================================================================
