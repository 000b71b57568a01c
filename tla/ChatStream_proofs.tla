------------------------- MODULE ChatStream_proofs --------------------------
EXTENDS ChatStream, TLAPS

(***************************************************************************)
(* Theorems about ChatStream.                                              *)
(*                                                                         *)
(* The invariant has one part per key: its entry tells the truth about its *)
(* run (EntryOK), what the hook holds for it is about runs that exist      *)
(* (HookOK) and fits the entry (FitOK), and a POST in flight is alone      *)
(* (PostOK).  Between two keys, no run is shared (ApartOK).                *)
(*                                                                         *)
(* An action of the page changes one key, or moves one key to another.     *)
(* The parts are therefore predicates of values, and the lemmas are about  *)
(* values: what becomes of one key (Slot...), that the other keys keep     *)
(* what they have (LocalStep), that a move keeps all of it (MoveStep).     *)
(***************************************************************************)

\* Entry e shows the run of task t (a stream, a recovery or a cancellation) as
\* the epoch of t.
Match(e, t) == e.run = t.run /\ e.epoch = t.epoch

\* Run r exists, and key k, when it is the key of a chat, is that of its chat.
RunOf(R, k, r) == r \in Ids /\ R[r].state # "none" /\ (k \in Ids => R[r].chat = k)

Doubtful(e) == e.shown = "DELIVERY_UNCERTAIN"

\* What the entry e of key k says of its run is true: R are the runs, T texts
\* were typed and P POSTs sent.
EntryOK(R, T, P, k, e) ==
  e # None =>
    /\ e.draft <= T /\ e.run <= P
    /\ (e.run # 0 <=> e.shown # None) /\ (e.epoch # 0 => e.run # 0)
    /\ e.run # 0 => RunOf(R, k, e.run)
    /\ e.payload # None => e.run # 0 /\ e.payload.run = e.run /\ e.payload.text = R[e.run].text
    /\ e.shown \in Final => e.shown \in R[e.run].been
    /\ e.shown = "DELIVERED" => R[e.run].delivered

\* What the hook holds for key k (stream s, recovery r, cancellation c, epoch
\* ep), whatever its entry e has become.
HookOK(R, k, e, s, r, c, ep) ==
  /\ s # None => RunOf(R, k, s.run)
  /\ r # None => RunOf(R, k, r.run) /\ s = None /\ c = None
  /\ c # None => RunOf(R, k, c.run) /\ e # None
  /\ k \in Ids /\ e = None => s = None /\ r = None /\ ep = 0

\* It fits the entry, unless the key is torn.
FitOK(k, e, s, r, c, ep, tn) ==
  /\ e # None =>
       /\ s # None /\ ~Match(e, s) => tn /\ ~RunActive(e) /\ c = None
       /\ r # None /\ ~Match(e, r) => tn /\ ~RunActive(e)
       /\ c # None => Match(e, c)
       /\ s # None /\ Match(e, s) => ep = e.epoch /\ ~Doubtful(e)
       /\ e.cancelling <=> c # None
       /\ e.recovering <=> r # None /\ Match(e, r)
       /\ RunActive(e) => (s # None /\ Match(e, s)) \/ r # None \/ c # None
       /\ Doubtful(e) => c = None
       /\ ~tn /\ (Doubtful(e) \/ s # None \/ r # None \/ c # None) => e.epoch <= ep
       /\ k \in Ids /\ ep > 0 => e.run # 0 \/ e.draft # 0
  /\ tn => k \in Ids /\ e # None /\ e.run # 0

\* A POST in flight asks for a run p that does not exist yet; it is the only
\* thing under way for its key.
PostOK(R, P, k, e, s, r, c, ep, tn, p) ==
  /\ p # 0 => p \in Ids /\ p <= P /\ e # None /\ R[p].state = "none"
  /\ e # None /\ ~tn => (e.sending <=> p # 0)
  /\ p # 0 /\ ~tn => /\ s = None /\ r = None /\ c = None
                     /\ ~RunActive(e) /\ (Doubtful(e) => e.epoch < ep)

SlotOK(R, T, P, k, e, s, r, c, ep, tn, p) ==
  /\ EntryOK(R, T, P, k, e)
  /\ HookOK(R, k, e, s, r, c, ep)
  /\ FitOK(k, e, s, r, c, ep, tn)
  /\ PostOK(R, P, k, e, s, r, c, ep, tn, p)

\* Key k of page u, where Q are the POSTs in flight.
KeyOK(u, R, T, P, Q, k) ==
  SlotOK(R, T, P, k, u.entry[k], u.stream[k], u.rec[k], u.can[k], u.epoch[k], k \in u.torn, Q[k])

\* The hook has something under way for run q: stream s, recovery r or
\* cancellation c.
Works(s, r, c, q) ==
  (s # None /\ s.run = q) \/ (r # None /\ r.run = q) \/ (c # None /\ c.run = q)

WorksOn(u, k, q) == Works(u.stream[k], u.rec[k], u.can[k], q)

\* Entry e shows a run that has not ended.
Lives(e) == e # None /\ e.run # 0 /\ e.shown \notin Final

\* Two keys never stand for one run; what is under way for a key may be about
\* the ended run of another only if its own conversation has left it behind.
ApartOK(u, Q, j, k) ==
  /\ Q[j] = Q[k] => Q[j] = 0
  /\ Has(u, j) /\ Has(u, k) /\ u.entry[j].run = u.entry[k].run => u.entry[j].run = 0
  /\ \A q \in Ids : WorksOn(u, j, q) =>
        /\ ~WorksOn(u, k, q)
        /\ Has(u, k) /\ u.entry[k].run = q => u.entry[k].shown \in Final /\ j \in Provisional

\* The conflict is that of a provisional copy with the chat its run has opened.
ConflictOK(u, R, Q) ==
  LET f == u.conflict.from IN
  u.conflict # NoConflict =>
    /\ f \in Provisional /\ u.conflict.to \in Ids /\ Q[f] = 0
    /\ Has(u, f) => u.entry[f].run # 0 /\ R[u.entry[f].run].chat = u.conflict.to

PageOK(u, R, T, P, Q) ==
  /\ \A k \in Keys : KeyOK(u, R, T, P, Q, k)
  /\ \A j, k \in Keys : j # k => ApartOK(u, Q, j, k)
  /\ ConflictOK(u, R, Q)

\* What an event of a run says is true of it.
Tells(run, ev) ==
  /\ ev = "delivery" => run.delivered
  /\ ev \in Final => ev \in run.been
  /\ \A s \in Final : ev = LastEvent[s] => s \in run.been

\* A run r, when P POSTs were sent.
RunOK(run, P, r) ==
  /\ r > P => run.state = "none"
  /\ run.state # "none" <=> run.chat # 0
  /\ run.delivered => run.state # "none"
  /\ run.state \in Final => run.state \in run.been
  /\ run.state = "DELIVERED" => run.delivered
  /\ \A i \in 1..Len(run.ev) : Tells(run, run.ev[i])

RunsOK(R, P) == \A r \in Ids : RunOK(R[r], P, r)

\* The inductive invariant.
ChatInv ==
  /\ TypeOK
  /\ PageOK(ui, runs, typed, posted, posts)
  /\ RunsOK(runs, posted)
-----------------------------------------------------------------------------
(* The operators on a page change one key of it.                           *)

Entries == Entry \cup {None}
Streams == Stream \cup {None}
Recoveries == Recovery \cup {None}
Cancellations == Cancellation \cup {None}

\* v is u but for key k, which has entry e, stream s, recovery r, cancellation c
\* and epoch ep.
Put(u, v, k, e, s, r, c, ep) ==
  /\ v \in PageState /\ v.conflict = u.conflict /\ v.torn = u.torn
  /\ v.entry = [u.entry EXCEPT ![k] = e]
  /\ v.stream = [u.stream EXCEPT ![k] = s]
  /\ v.rec = [u.rec EXCEPT ![k] = r]
  /\ v.can = [u.can EXCEPT ![k] = c]
  /\ v.epoch = [u.epoch EXCEPT ![k] = ep]

\* What key k of a page holds has its type.
LEMMA KeyTyped ==
  ASSUME NEW u \in PageState, NEW k \in Keys
  PROVE  /\ u.entry[k] \in Entries /\ u.stream[k] \in Streams
         /\ u.rec[k] \in Recoveries /\ u.can[k] \in Cancellations /\ u.epoch[k] \in Nat
BY DEF PageState, Entries, Streams, Recoveries, Cancellations

\* A page as it is.
LEMMA PutSame ==
  ASSUME NEW u \in PageState, NEW k \in Keys
  PROVE  Put(u, u, k, u.entry[k], u.stream[k], u.rec[k], u.can[k], u.epoch[k])
BY DEF PageState, Put

\* Two changes of one key are one.
LEMMA PutTwice ==
  ASSUME NEW u \in PageState, NEW v, NEW w, NEW k \in Keys,
         NEW e, NEW s, NEW r, NEW c, NEW ep, Put(u, v, k, e, s, r, c, ep),
         NEW e1, NEW s1, NEW r1, NEW c1, NEW ep1, Put(v, w, k, e1, s1, r1, c1, ep1)
  PROVE  Put(u, w, k, e1, s1, r1, c1, ep1)
BY SMTT(60) DEF PageState, Put

\* What a changed page holds.
LEMMA PutGives ==
  ASSUME NEW u \in PageState, NEW v, NEW k \in Keys,
         NEW e, NEW s, NEW r, NEW c, NEW ep, Put(u, v, k, e, s, r, c, ep)
  PROVE  /\ v \in PageState
         /\ v.entry[k] = e /\ v.stream[k] = s /\ v.rec[k] = r /\ v.can[k] = c /\ v.epoch[k] = ep
         /\ \A j \in Keys \ {k} :
               /\ v.entry[j] = u.entry[j] /\ v.stream[j] = u.stream[j] /\ v.rec[j] = u.rec[j]
               /\ v.can[j] = u.can[j] /\ v.epoch[j] = u.epoch[j]
BY DEF PageState, Put

LEMMA PutEntry ==
  ASSUME NEW u \in PageState, NEW k \in Keys, NEW e \in Entries
  PROVE  Put(u, WithEntry(u, k, e), k, e, u.stream[k], u.rec[k], u.can[k], u.epoch[k])
BY DEF PageState, Put, WithEntry, Entries

LEMMA PutCloseBinding ==
  ASSUME NEW u \in PageState, NEW k \in Keys
  PROVE  Put(u, CloseBinding(u, k), k, u.entry[k], None, u.rec[k], u.can[k], u.epoch[k])
BY DEF PageState, Put, CloseBinding

LEMMA PutClose ==
  ASSUME NEW u \in PageState, NEW k \in Keys
  PROVE  Put(u, Close(u, k), k, u.entry[k], None, u.rec[k], u.can[k], u.epoch[k] + 1)
<1> DEFINE n == u.epoch[k] + 1
           v == [u EXCEPT !.epoch = [@ EXCEPT ![k] = u.epoch[k] + 1]]
<1>0. n \in Nat /\ v = [u EXCEPT !.epoch = [@ EXCEPT ![k] = n]]
  BY DEF PageState
<1> HIDE DEF n, v
<1>1. Put(u, v, k, u.entry[k], u.stream[k], u.rec[k], u.can[k], n)
  BY <1>0 DEF PageState, Put
<1>2. Put(v, CloseBinding(v, k), k, v.entry[k], None, v.rec[k], v.can[k], v.epoch[k])
  BY ZenonT(60), <1>1, PutCloseBinding DEF Put
<1>3. Put(u, CloseBinding(v, k), k, u.entry[k], None, u.rec[k], u.can[k], n)
  BY <1>1, <1>2, PutTwice, PutGives
<1> QED BY <1>3 DEF Close, n, v

\* An entry stays one without its flags.
LEMMA UnflaggedTyped ==
  ASSUME NEW e \in Entries, NEW r \in Recoveries, NEW c \in Cancellations
  PROVE  Unflagged(e, r, c) \in Entries
BY DEF Unflagged, Entries, Entry

LEMMA PutFinishRecovery ==
  ASSUME NEW u \in PageState, NEW k \in Keys
  PROVE  Put(u, FinishRecovery(u, k), k, Unflagged(u.entry[k], u.rec[k], None), u.stream[k], None,
             u.can[k], u.epoch[k])
<1> DEFINE e == Unflagged(u.entry[k], u.rec[k], None)
<1>1. e \in Entries
  BY KeyTyped, UnflaggedTyped DEF Cancellations
<1> QED BY <1>1 DEF PageState, Put, FinishRecovery, WithEntry, Entries

LEMMA PutFinishCancellation ==
  ASSUME NEW u \in PageState, NEW k \in Keys
  PROVE  Put(u, FinishCancellation(u, k), k, Unflagged(u.entry[k], None, u.can[k]), u.stream[k],
             u.rec[k], None, u.epoch[k])
<1> DEFINE e == Unflagged(u.entry[k], None, u.can[k])
<1>1. e \in Entries
  BY KeyTyped, UnflaggedTyped DEF Recoveries
<1> QED BY <1>1 DEF PageState, Put, FinishCancellation, WithEntry, Entries

LEMMA PutDrop ==
  ASSUME NEW u \in PageState, NEW k \in Keys
  PROVE  Put(u, Drop(u, {k}), k, Unflagged(u.entry[k], u.rec[k], u.can[k]), u.stream[k],
             None, None, u.epoch[k])
<1> DEFINE e == Unflagged(u.entry[k], u.rec[k], u.can[k])
<1>1. e \in Entries
  BY KeyTyped, UnflaggedTyped
<1> QED BY <1>1 DEF PageState, Put, Drop, Entries

LEMMA PutBind ==
  ASSUME NEW u \in PageState, NEW k \in Keys, NEW r \in Ids, NEW ep \in Nat, NEW again \in BOOLEAN
  PROVE  Put(u, Bind(u, k, r, ep, again), k, Unflagged(u.entry[k], u.rec[k], u.can[k]),
             [run |-> r, epoch |-> ep, sent |-> 0, again |-> again], None, None, ep)
<1> DEFINE v == Drop(u, {k})
           e == Unflagged(u.entry[k], u.rec[k], u.can[k])
           s == [run |-> r, epoch |-> ep, sent |-> 0, again |-> again]
<1>1. Put(u, v, k, e, u.stream[k], None, None, u.epoch[k])
  BY PutDrop
<1>2. s \in Stream
  BY DEF Stream
<1> HIDE DEF v, e, s
<1>3. Put(u, [v EXCEPT !.epoch = [@ EXCEPT ![k] = ep], !.stream = [@ EXCEPT ![k] = s]],
          k, e, s, None, None, ep)
  BY <1>1, <1>2 DEF PageState, Put
<1> QED BY <1>3 DEF Bind, v, e, s

\* What RunSnapshot, StreamEvent, Exhausted and the two flags make of entry e.
Snapped(e, r, ep, s, delivered) ==
  IF e # None /\ e.run = r /\ ep >= e.epoch
  THEN [e EXCEPT !.shown = s, !.epoch = ep, !.recovering = FALSE,
                 !.draft = IF delivered /\ e.payload # None /\ e.draft = e.payload.text
                           THEN 0 ELSE @,
                 !.payload = IF delivered \/ s \in {"FAILED", "CANCELLED"} THEN None ELSE @,
                 !.cancelling = @ /\ s \notin Final]
  ELSE e

Evented(e, r, ep, ev) ==
  IF e # None /\ e.run = r /\ e.epoch = ep
  THEN [e EXCEPT !.shown = After(e, ev),
                 !.draft = IF ev = "delivery" /\ e.payload # None /\ e.payload.run = r
                              /\ e.draft = e.payload.text
                           THEN 0 ELSE @,
                 !.payload = IF ev \in {"delivery", "error", "cancelled"} THEN None ELSE @,
                 !.cancelling = @ /\ ev \notin {"complete", "error", "cancelled"},
                 !.recovering = @ /\ ev \notin {"complete", "error", "cancelled"}]
  ELSE e

Doubted(e, r, ep) ==
  IF e # None /\ e.run = r /\ e.epoch = ep
  THEN [e EXCEPT !.shown = "DELIVERY_UNCERTAIN", !.sending = FALSE, !.recovering = FALSE]
  ELSE e

Flagged(e, t) ==
  IF e # None /\ Match(e, t) THEN [e EXCEPT !.recovering = TRUE] ELSE e

FlaggedC(e, t) ==
  IF e # None /\ Match(e, t) THEN [e EXCEPT !.cancelling = TRUE] ELSE e

LEMMA SnappedTyped ==
  ASSUME NEW e \in Entries, NEW r, NEW ep \in Nat, NEW s \in States, NEW d \in BOOLEAN
  PROVE  Snapped(e, r, ep, s, d) \in Entries
BY ZenonT(60) DEF Snapped, Entries, Entry

LEMMA AfterTyped == ASSUME NEW e, NEW ev \in Events PROVE After(e, ev) \in Final \cup {"DELIVERED"}
<1>1. CASE ev \in Final \cup {"delivery"}
  BY <1>1 DEF After, Final
<1>2. CASE ev \in {"complete", "error", "cancelled"}
  <2>1. \E s \in Final : LastEvent[s] = ev
    BY <1>2 DEF LastEvent, Final
  <2>2. (CHOOSE s \in Final : LastEvent[s] = ev) \in Final
    BY <2>1
  <2> QED BY <1>2, <2>2 DEF After, Final
<1> QED BY <1>1, <1>2 DEF Events

LEMMA EventedTyped ==
  ASSUME NEW e \in Entries, NEW r, NEW ep, NEW ev \in Events
  PROVE  Evented(e, r, ep, ev) \in Entries
<1>1. CASE e # None /\ e.run = r /\ e.epoch = ep
  <2> DEFINE a == After(e, ev)
             last == ev \in {"complete", "error", "cancelled"}
             d == IF ev = "delivery" /\ e.payload # None /\ e.payload.run = r
                     /\ e.draft = e.payload.text THEN 0 ELSE e.draft
             p == IF ev \in {"delivery", "error", "cancelled"} THEN None ELSE e.payload
  <2>1. a \in States /\ e \in Entry
    BY <1>1, AfterTyped DEF States, Entries
  <2>2. d \in Nat /\ p \in [run : Ids, text : Nat] \cup {None}
    BY <2>1 DEF Entry
  <2>3. (e.cancelling /\ ~last) \in BOOLEAN /\ (e.recovering /\ ~last) \in BOOLEAN
    OBVIOUS
  <2>4. Evented(e, r, ep, ev) = [e EXCEPT !.shown = a, !.draft = d, !.payload = p,
                 !.cancelling = e.cancelling /\ ~last, !.recovering = e.recovering /\ ~last]
    BY <1>1 DEF Evented
  <2> HIDE DEF a, last, d, p
  <2> QED BY <2>1, <2>2, <2>3, <2>4 DEF Entries, Entry
<1> QED BY <1>1 DEF Evented

LEMMA DoubtedTyped ==
  ASSUME NEW e \in Entries, NEW r, NEW ep
  PROVE  Doubted(e, r, ep) \in Entries
BY DEF Doubted, Entries, Entry, States

LEMMA FlaggedTyped ==
  ASSUME NEW e \in Entries, NEW t PROVE Flagged(e, t) \in Entries /\ FlaggedC(e, t) \in Entries
BY DEF Flagged, FlaggedC, Entries, Entry

LEMMA PutSnapshot ==
  ASSUME NEW u \in PageState, NEW k \in Keys,
         NEW r, NEW ep \in Nat, NEW s \in States, NEW d \in BOOLEAN
  PROVE  Put(u, RunSnapshot(u, k, r, ep, s, d), k, Snapped(u.entry[k], r, ep, s, d),
             u.stream[k], u.rec[k], u.can[k], u.epoch[k])
<1> DEFINE e == Snapped(u.entry[k], r, ep, s, d)
<1>1. Put(u, WithEntry(u, k, e), k, e, u.stream[k], u.rec[k], u.can[k], u.epoch[k])
  BY KeyTyped, SnappedTyped, PutEntry
<1>2. RunSnapshot(u, k, r, ep, s, d)
        = IF Has(u, k) /\ u.entry[k].run = r /\ ep >= u.entry[k].epoch
          THEN WithEntry(u, k, e) ELSE u
  BY DEF RunSnapshot, Snapped, Has
<1>3. ~(Has(u, k) /\ u.entry[k].run = r /\ ep >= u.entry[k].epoch) => e = u.entry[k]
  BY DEF Snapped, Has
<1> HIDE DEF e
<1> QED BY <1>1, <1>2, <1>3, PutSame DEF e

LEMMA PutEvent ==
  ASSUME NEW u \in PageState, NEW k \in Keys, NEW r, NEW ep, NEW ev \in Events
  PROVE  Put(u, StreamEvent(u, k, r, ep, ev), k, Evented(u.entry[k], r, ep, ev),
             u.stream[k], u.rec[k], u.can[k], u.epoch[k])
<1> DEFINE e == Evented(u.entry[k], r, ep, ev)
<1>1. Put(u, WithEntry(u, k, e), k, e, u.stream[k], u.rec[k], u.can[k], u.epoch[k])
  BY KeyTyped, EventedTyped, PutEntry
<1>2. StreamEvent(u, k, r, ep, ev) = IF Follows(u, k, r, ep) THEN WithEntry(u, k, e) ELSE u
  BY DEF StreamEvent, Evented, Follows, Has
<1>3. ~Follows(u, k, r, ep) => e = u.entry[k]
  BY DEF Evented, Follows, Has
<1> HIDE DEF e
<1> QED BY <1>1, <1>2, <1>3, PutSame DEF e

LEMMA PutExhausted ==
  ASSUME NEW u \in PageState, NEW k \in Keys, NEW r, NEW ep
  PROVE  Put(u, Exhausted(u, k, r, ep), k, Doubted(u.entry[k], r, ep),
             u.stream[k], u.rec[k], u.can[k], u.epoch[k])
<1> DEFINE e == Doubted(u.entry[k], r, ep)
<1>1. Put(u, WithEntry(u, k, e), k, e, u.stream[k], u.rec[k], u.can[k], u.epoch[k])
  BY KeyTyped, DoubtedTyped, PutEntry
<1>2. Exhausted(u, k, r, ep) = IF Follows(u, k, r, ep) THEN WithEntry(u, k, e) ELSE u
  BY DEF Exhausted, Doubted, Follows, Has
<1>3. ~Follows(u, k, r, ep) => e = u.entry[k]
  BY DEF Doubted, Follows, Has
<1> HIDE DEF e
<1> QED BY <1>1, <1>2, <1>3, PutSame DEF e

LEMMA PutStartRecovery ==
  ASSUME NEW u \in PageState, NEW k \in Keys, NEW r \in Ids, NEW ep \in Nat
  PROVE  LET t == [run |-> r, epoch |-> ep] IN
         Put(u, StartRecovery(u, k, r, ep), k, Flagged(u.entry[k], t),
             u.stream[k], t, u.can[k], u.epoch[k])
<1> DEFINE t == [run |-> r, epoch |-> ep]
           v == [u EXCEPT !.rec = [@ EXCEPT ![k] = t]]
           e == Flagged(u.entry[k], t)
<1>0. t \in Recovery /\ t.run = r /\ t.epoch = ep
  BY DEF Recovery
<1> HIDE DEF t
<1>1. Put(u, v, k, u.entry[k], u.stream[k], t, u.can[k], u.epoch[k])
  BY <1>0 DEF PageState, Put
<1> DEFINE w == RecoveryFlag(v, t, TRUE, k)
<1>3. StartRecovery(u, k, r, ep) = w
  BY DEF StartRecovery, t
<1> HIDE DEF v
<1>2. /\ v \in PageState /\ v.entry[k] = u.entry[k] /\ v.stream[k] = u.stream[k]
      /\ v.rec[k] = t /\ v.can[k] = u.can[k] /\ v.epoch[k] = u.epoch[k]
  BY <1>1, PutGives
<1>4. w = IF Follows(v, k, t.run, t.epoch) THEN WithEntry(v, k, e) ELSE v
  BY <1>2 DEF RecoveryFlag, Flagged, Follows, Has, Match
<1>5. ~Follows(v, k, t.run, t.epoch) => e = v.entry[k]
  BY <1>2 DEF Flagged, Follows, Has, Match
<1>6. e \in Entries
  BY FlaggedTyped, KeyTyped
<1> HIDE DEF e, w
<1>7. Put(v, w, k, e, v.stream[k], v.rec[k], v.can[k], v.epoch[k])
  BY <1>2, <1>4, <1>5, <1>6, PutEntry, PutSame
<1>8. Put(u, w, k, e, u.stream[k], t, u.can[k], u.epoch[k])
  BY <1>1, <1>2, <1>7, PutTwice
<1> QED BY <1>3, <1>8 DEF e, t

LEMMA PutStartCancellation ==
  ASSUME NEW u \in PageState, NEW k \in Keys, NEW r \in Ids, NEW ep \in Nat
  PROVE  LET t == [run |-> r, epoch |-> ep, at |-> "asked"] IN
         Put(u, StartCancellation(u, k, r, ep), k,
             FlaggedC(Unflagged(u.entry[k], u.rec[k], None), t), u.stream[k], None, t, u.epoch[k])
<1> DEFINE t == [run |-> r, epoch |-> ep, at |-> "asked"]
           x == FinishRecovery(u, k)
           v == [x EXCEPT !.can = [@ EXCEPT ![k] = t]]
           d == Unflagged(u.entry[k], u.rec[k], None)
           e == FlaggedC(d, t)
           w == CancelFlag(v, t, TRUE, k)
<1>0. t \in Cancellation /\ t.run = r /\ t.epoch = ep
  BY DEF Cancellation
<1>1. StartCancellation(u, k, r, ep) = w
  BY DEF StartCancellation
<1> HIDE DEF t
<1>2. Put(u, x, k, d, u.stream[k], None, u.can[k], u.epoch[k])
  BY PutFinishRecovery
<1> HIDE DEF x, d
<1>3. x \in PageState /\ Put(x, v, k, x.entry[k], x.stream[k], x.rec[k], t, x.epoch[k])
  BY <1>0, <1>2 DEF PageState, Put
<1> HIDE DEF v
<1>4. /\ x.entry[k] = d /\ x.stream[k] = u.stream[k] /\ x.rec[k] = None /\ x.epoch[k] = u.epoch[k]
  BY <1>2, PutGives
<1>5. Put(u, v, k, d, u.stream[k], None, t, u.epoch[k])
  BY <1>2, <1>3, <1>4, PutTwice
<1>6. /\ v \in PageState /\ v.entry[k] = d /\ v.stream[k] = u.stream[k]
      /\ v.rec[k] = None /\ v.can[k] = t /\ v.epoch[k] = u.epoch[k]
  BY <1>5, PutGives
<1>7. d \in Entries
  BY KeyTyped, UnflaggedTyped DEF d, Cancellations
<1>8. w = IF Follows(v, k, t.run, t.epoch) THEN WithEntry(v, k, e) ELSE v
  BY <1>6 DEF CancelFlag, FlaggedC, Follows, Has, Match
<1>9. ~Follows(v, k, t.run, t.epoch) => e = v.entry[k]
  BY <1>6 DEF FlaggedC, Follows, Has, Match
<1>10. e \in Entries
  BY <1>7, FlaggedTyped
<1> HIDE DEF e, w
<1>11. Put(v, w, k, e, v.stream[k], v.rec[k], v.can[k], v.epoch[k])
  BY <1>6, <1>8, <1>9, <1>10, PutEntry, PutSame
<1>12. Put(u, w, k, e, u.stream[k], None, t, u.epoch[k])
  BY <1>5, <1>6, <1>11, PutTwice
<1> QED BY <1>1, <1>12 DEF e, d, t
-----------------------------------------------------------------------------
(* What becomes of one key.                                                *)

\* The runs R become R1: what a run is and has done stays.
Grows(R, R1) ==
  \A r \in Ids : R[r].state # "none" =>
    /\ R1[r].state # "none" /\ R1[r].chat = R[r].chat /\ R1[r].text = R[r].text
    /\ R[r].been \subseteq R1[r].been /\ (R[r].delivered => R1[r].delivered)

\* The values of a key, with their types.
Values(e, s, r, c, ep, tn, p) ==
  /\ e \in Entries /\ s \in Streams /\ r \in Recoveries /\ c \in Cancellations
  /\ ep \in Nat /\ tn \in BOOLEAN /\ p \in Nat

\* A key goes from an entry e, what the hook holds for it (s, r, c) and a POST p
\* to e1, s1, r1 and c1: no run comes in but that of the POST.
Local(e, s, r, c, p, e1, s1, r1, c1) ==
  /\ e1 # None => \/ p # 0 /\ e1.run = p
                  \/ e1.run = IF e = None THEN 0 ELSE e.run
  /\ \A q \in Ids : Works(s1, r1, c1, q) =>
        Works(s, r, c, q) \/ (Lives(e) /\ e.run = q) \/ (p # 0 /\ p = q)
  /\ Lives(e1) =>
        (Lives(e) /\ e1.run = e.run) \/ Works(s, r, c, e1.run) \/ (p # 0 /\ e1.run = p)

\* The page goes from u to v, key k taking over what key j stands for.
Follow(u, Q, j, v, k) ==
  Local(u.entry[j], u.stream[j], u.rec[j], u.can[j], Q[j],
        v.entry[k], v.stream[k], v.rec[k], v.can[k])

LEMMA EntryKept ==
  ASSUME NEW R \in [Ids -> Run], NEW R1 \in [Ids -> Run], Grows(R, R1),
         NEW T \in Nat, NEW P \in Nat, NEW T1 \in Nat, NEW P1 \in Nat, T <= T1, P <= P1,
         NEW k \in Keys, NEW e \in Entries, EntryOK(R, T, P, k, e)
  PROVE  EntryOK(R1, T1, P1, k, e)
<1> SUFFICES ASSUME e # None PROVE EntryOK(R1, T1, P1, k, e)
  BY DEF EntryOK
<1>0. e \in Entry
  BY DEF Entries
<1>00. e.draft \in Nat /\ e.run \in Nat
  BY <1>0 DEF Entry
<1>01. e.draft <= T /\ e.run <= P
  BY DEF EntryOK
<1>1. e.draft <= T1 /\ e.run <= P1
  BY <1>00, <1>01
<1>2. CASE e.run = 0
  BY <1>1, <1>2, NoneIsNothing DEF EntryOK, Final, States
<1>3. CASE e.run # 0
  <2>1. e.run \in Ids /\ R[e.run].state # "none" /\ (k \in Ids => R[e.run].chat = k)
    BY <1>3 DEF EntryOK, RunOf
  <2>2. /\ R1[e.run].state # "none" /\ R1[e.run].chat = R[e.run].chat
        /\ R1[e.run].text = R[e.run].text
        /\ R[e.run].been \subseteq R1[e.run].been /\ (R[e.run].delivered => R1[e.run].delivered)
    BY <2>1 DEF Grows
  <2> QED BY <1>1, <1>3, <2>1, <2>2 DEF EntryOK, RunOf
<1> QED BY <1>2, <1>3

LEMMA HookKept ==
  ASSUME NEW R \in [Ids -> Run], NEW R1 \in [Ids -> Run], Grows(R, R1),
         NEW k \in Keys, NEW e, NEW s, NEW r, NEW c, NEW ep, HookOK(R, k, e, s, r, c, ep)
  PROVE  HookOK(R1, k, e, s, r, c, ep)
BY DEF Grows, HookOK, RunOf

\* A key that keeps its values.
LEMMA SlotKept ==
  ASSUME NEW R \in [Ids -> Run], NEW R1 \in [Ids -> Run], Grows(R, R1),
         NEW T \in Nat, NEW P \in Nat, NEW T1 \in Nat, NEW P1 \in Nat, T <= T1, P <= P1,
         NEW k \in Keys, NEW e, NEW s, NEW r, NEW c, NEW ep, NEW tn, NEW p,
         Values(e, s, r, c, ep, tn, p),
         SlotOK(R, T, P, k, e, s, r, c, ep, tn, p), p # 0 => R1[p].state = "none"
  PROVE  SlotOK(R1, T1, P1, k, e, s, r, c, ep, tn, p)
<1>1. EntryOK(R1, T1, P1, k, e)
  BY EntryKept DEF SlotOK, Values
<1>2. HookOK(R1, k, e, s, r, c, ep)
  BY HookKept DEF SlotOK
<1>3. PostOK(R1, P1, k, e, s, r, c, ep, tn, p)
  BY DEF SlotOK, PostOK, Values, Ids
<1> QED BY <1>1, <1>2, <1>3 DEF SlotOK

\* What the user's text t makes of entry e.
Retyped(e, t) ==
  [e EXCEPT !.draft = t,
            !.payload = IF e.shown = "DELIVERY_UNCERTAIN" THEN None ELSE @]

\* Type.
LEMMA SlotType ==
  ASSUME NEW R \in [Ids -> Run], NEW T \in Nat, NEW P \in Nat, NEW k \in Keys,
         NEW e, NEW s, NEW r, NEW c, NEW ep, NEW tn, NEW p, Values(e, s, r, c, ep, tn, p),
         SlotOK(R, T, P, k, e, s, r, c, ep, tn, p), e # None,
         NEW e1, e1 = Retyped(e, T + 1)
  PROVE  SlotOK(R, T + 1, P, k, e1, s, r, c, ep, tn, p) /\ e1 \in Entry /\ e1.run = e.run /\ e1.shown = e.shown
<1>0. e \in Entry /\ T + 1 \in Nat
  BY DEF Values, Entries
<1>00. (IF e.shown = "DELIVERY_UNCERTAIN" THEN None ELSE e.payload) \in [run : Ids, text : Nat] \cup {None}
  BY <1>0 DEF Entry
<1>1. e \in Entry /\ e1 \in Entry
  BY <1>0, <1>00 DEF Entry, Retyped
<1>2. /\ e1.run = e.run /\ e1.shown = e.shown /\ e1.epoch = e.epoch /\ e1.draft = T + 1
      /\ e1.payload \in {e.payload, None}
      /\ e1.sending = e.sending /\ e1.cancelling = e.cancelling /\ e1.recovering = e.recovering
  BY <1>1 DEF Entry, Retyped
<1>3. e1 # None
  BY <1>1, NoneIsNothing
<1>4. EntryOK(R, T + 1, P, k, e1)
  BY <1>1, <1>2, <1>3 DEF SlotOK, EntryOK
<1>5. HookOK(R, k, e1, s, r, c, ep)
  BY <1>3 DEF SlotOK, HookOK
<1>6. FitOK(k, e1, s, r, c, ep, tn)
  BY <1>2, <1>3 DEF SlotOK, FitOK, Match, RunActive, Doubtful
<1>7. PostOK(R, P, k, e1, s, r, c, ep, tn, p)
  BY <1>2, <1>3 DEF SlotOK, PostOK, RunActive, Doubtful
<1> QED BY <1>1, <1>2, <1>4, <1>5, <1>6, <1>7 DEF SlotOK

\* Send, with its fresh run.
LEMMA SlotSend ==
  ASSUME NEW R \in [Ids -> Run], NEW T \in Nat, NEW P \in Nat, NEW k \in Keys,
         NEW e, NEW s, NEW r, NEW c, NEW ep, NEW tn, Values(e, s, r, c, ep, tn, 0),
         SlotOK(R, T, P, k, e, s, r, c, ep, tn, 0), e # None, r = None, c = None,
         ~ActiveWork(e), e.draft # 0, NEW p \in Ids, p <= P, R[p].state = "none",
         NEW e1, e1 = [e EXCEPT !.sending = TRUE]
  PROVE  SlotOK(R, T, P, k, e1, None, None, None, ep + 1, tn, p) /\ e1 \in Entry
         /\ e1.run = e.run /\ e1.shown = e.shown
<1>1. e \in Entry /\ e1 \in Entry /\ ep \in Nat
  BY DEF Values, Entries, Entry
<1>2. /\ e1.run = e.run /\ e1.shown = e.shown /\ e1.epoch = e.epoch /\ e1.draft = e.draft
      /\ e1.payload = e.payload
      /\ e1.sending = TRUE /\ e1.cancelling = e.cancelling /\ e1.recovering = e.recovering
  BY <1>1 DEF Entry
<1>3. e1 # None
  BY <1>1, NoneIsNothing
<1>4. EntryOK(R, T, P, k, e1)
  BY <1>1, <1>2, <1>3 DEF SlotOK, EntryOK
<1>5. HookOK(R, k, e1, None, None, None, ep + 1)
  BY <1>3 DEF SlotOK, HookOK
<1>6. FitOK(k, e1, None, None, None, ep + 1, tn)
  BY <1>1, <1>2, <1>3 DEF SlotOK, FitOK, Match, RunActive, Doubtful, ActiveWork, Entry
<1>7. PostOK(R, P, k, e1, None, None, None, ep + 1, tn, p)
  BY <1>1, <1>2, <1>3, p # 0 DEF SlotOK, PostOK, FitOK, RunActive, Doubtful, ActiveWork, Entry, Ids
<1> QED BY <1>1, <1>2, <1>4, <1>5, <1>6, <1>7 DEF SlotOK

\* Entry d is entry e but for its flags.
Same(d, e) ==
  /\ d \in Entry /\ d # None /\ d.draft = e.draft /\ d.payload = e.payload
  /\ d.run = e.run /\ d.shown = e.shown /\ d.epoch = e.epoch

LEMMA UnflaggedGives ==
  ASSUME NEW e \in Entry, NEW r \in Recoveries, NEW c \in Cancellations
  PROVE  LET d == Unflagged(e, r, c) IN
         /\ Same(d, e) /\ d.sending = e.sending
         /\ d.recovering <=> e.recovering /\ ~(r # None /\ Match(e, r))
         /\ d.cancelling <=> e.cancelling /\ ~(c # None /\ Match(e, c))
<1> DEFINE f == e.recovering /\ ~(r # None /\ e.run = r.run /\ e.epoch = r.epoch)
           g == e.cancelling /\ ~(c # None /\ e.run = c.run /\ e.epoch = c.epoch)
           d == [e EXCEPT !.recovering = f, !.cancelling = g]
<1>1. e # None /\ Unflagged(e, r, c) = d
  BY NoneIsNothing DEF Unflagged
<1>2. f \in BOOLEAN /\ g \in BOOLEAN
  OBVIOUS
<1>3. (f <=> e.recovering /\ ~(r # None /\ Match(e, r))) /\ (g <=> e.cancelling /\ ~(c # None /\ Match(e, c)))
  BY DEF Match
<1> HIDE DEF f, g
<1>4. d \in Entry /\ d.recovering = f /\ d.cancelling = g /\ d.sending = e.sending
  BY <1>2 DEF Entry
<1>5. d # None
  BY <1>4, NoneIsNothing
<1>6. Same(d, e)
  BY <1>4, <1>5 DEF Same, Entry
<1> HIDE DEF d
<1> QED BY <1>1, <1>3, <1>4, <1>6

LEMMA FlaggedGives ==
  ASSUME NEW e \in Entry, NEW t, Match(e, t)
  PROVE  LET d == Flagged(e, t)
             g == FlaggedC(e, t)
         IN /\ Same(d, e) /\ d.sending = e.sending /\ d.recovering = TRUE
            /\ d.cancelling = e.cancelling
            /\ Same(g, e) /\ g.sending = e.sending /\ g.cancelling = TRUE
            /\ g.recovering = e.recovering
<1> DEFINE d == [e EXCEPT !.recovering = TRUE]
           g == [e EXCEPT !.cancelling = TRUE]
<1>1. e # None /\ Flagged(e, t) = d /\ FlaggedC(e, t) = g
  BY NoneIsNothing DEF Flagged, FlaggedC
<1>2. d \in Entry /\ g \in Entry
  BY DEF Entry
<1>3. d # None /\ g # None
  BY <1>2, NoneIsNothing
<1>4. /\ Same(d, e) /\ d.sending = e.sending /\ d.recovering = TRUE /\ d.cancelling = e.cancelling
      /\ Same(g, e) /\ g.sending = e.sending /\ g.cancelling = TRUE /\ g.recovering = e.recovering
  BY <1>2, <1>3 DEF Same, Entry
<1> HIDE DEF d, g
<1> QED BY <1>1, <1>4

LEMMA DoubtedGives ==
  ASSUME NEW e \in Entry, NEW t, Match(e, t)
  PROVE  LET d == Doubted(e, t.run, t.epoch) IN
         /\ d \in Entry /\ d # None /\ d.draft = e.draft /\ d.payload = e.payload
         /\ d.run = e.run /\ d.shown = "DELIVERY_UNCERTAIN" /\ d.epoch = e.epoch
         /\ d.sending = FALSE /\ d.recovering = FALSE /\ d.cancelling = e.cancelling
<1> DEFINE d == [e EXCEPT !.shown = "DELIVERY_UNCERTAIN", !.sending = FALSE, !.recovering = FALSE]
<1>1. e # None /\ Doubted(e, t.run, t.epoch) = d
  BY NoneIsNothing DEF Doubted, Match
<1>2. d \in Entry
  BY DEF Entry, States
<1>3. d # None
  BY <1>2, NoneIsNothing
<1>4. /\ d.draft = e.draft /\ d.payload = e.payload
      /\ d.run = e.run /\ d.shown = "DELIVERY_UNCERTAIN" /\ d.epoch = e.epoch
      /\ d.sending = FALSE /\ d.recovering = FALSE /\ d.cancelling = e.cancelling
  BY DEF Entry
<1> HIDE DEF d
<1> QED BY <1>1, <1>2, <1>3, <1>4

\* What EntryOK says depends on no flag.
LEMMA EntrySame ==
  ASSUME NEW R, NEW T, NEW P, NEW k, NEW e, NEW d, EntryOK(R, T, P, k, e), e # None, Same(d, e)
  PROVE  EntryOK(R, T, P, k, d)
BY DEF EntryOK, Same

\* The user asks to cancel the run shown as active.
LEMMA SlotCancel ==
  ASSUME NEW R \in [Ids -> Run], NEW T \in Nat, NEW P \in Nat, NEW k \in Keys,
         NEW e, NEW s, NEW r, NEW c, NEW ep, NEW tn, NEW p, Values(e, s, r, c, ep, tn, p),
         SlotOK(R, T, P, k, e, s, r, c, ep, tn, p),
         e # None, RunActive(e), c = None,
         NEW t \in Cancellation, Match(e, t)
  PROVE  LET d == FlaggedC(Unflagged(e, r, None), t) IN
         SlotOK(R, T, P, k, d, s, None, t, ep, tn, p) /\ Local(e, s, r, c, p, d, s, None, t)
<1> DEFINE x == Unflagged(e, r, None)
           d == FlaggedC(x, t)
<1>0. e \in Entry /\ r \in Recoveries /\ t # None
  BY NoneIsNothing DEF Values, Entries
<1>1. /\ Same(x, e) /\ x.sending = e.sending
      /\ x.recovering <=> e.recovering /\ ~(r # None /\ Match(e, r))
  BY <1>0, UnflaggedGives DEF Cancellations
<1> HIDE DEF x
<1>2. x \in Entry /\ Match(x, t)
  BY <1>1 DEF Same, Match
<1>3. Same(d, x) /\ d.sending = x.sending /\ d.cancelling = TRUE /\ d.recovering = x.recovering
  BY <1>2, FlaggedGives
<1> HIDE DEF d
<1>4. Same(d, e) /\ d.sending = e.sending /\ d.cancelling /\ ~d.recovering
  BY <1>0, <1>1, <1>3 DEF Same, SlotOK, FitOK
<1>5. EntryOK(R, T, P, k, d)
  BY <1>4, EntrySame DEF SlotOK
<1>6. RunOf(R, k, t.run) /\ e.run # 0
  BY DEF SlotOK, EntryOK, RunActive, Match
<1>7. HookOK(R, k, d, s, None, t, ep)
  BY <1>4, <1>6 DEF SlotOK, HookOK, Same
<1>8. FitOK(k, d, s, None, t, ep, tn)
  BY <1>0, <1>4 DEF SlotOK, FitOK, Match, RunActive, Doubtful, Same
<1>9. PostOK(R, P, k, d, s, None, t, ep, tn, p)
  BY <1>4 DEF SlotOK, PostOK, Same
<1>10. Local(e, s, r, c, p, d, s, None, t)
  BY <1>0, <1>4, <1>6 DEF Local, Works, Lives, Same, Match, RunActive, Final
<1> QED BY <1>5, <1>7, <1>8, <1>9, <1>10 DEF SlotOK, d, x

\* The user retries what was left in doubt.
LEMMA SlotRetry ==
  ASSUME NEW R \in [Ids -> Run], NEW T \in Nat, NEW P \in Nat, NEW k \in Keys,
         NEW e, NEW s, NEW r, NEW c, NEW ep, NEW tn, NEW p, Values(e, s, r, c, ep, tn, p),
         SlotOK(R, T, P, k, e, s, r, c, ep, tn, p),
         e # None, Doubtful(e), s = None, r = None, ep = e.epoch,
         NEW t \in Recovery, Match(e, t)
  PROVE  LET d == Flagged(e, t) IN
         SlotOK(R, T, P, k, d, None, t, c, ep, tn, p) /\ Local(e, s, r, c, p, d, None, t, c)
<1> DEFINE d == Flagged(e, t)
<1>0. e \in Entry /\ t # None /\ e.epoch \in Nat
  BY NoneIsNothing DEF Values, Entries, Entry
<1>1. Same(d, e) /\ d.sending = e.sending /\ d.recovering = TRUE /\ d.cancelling = e.cancelling
  BY <1>0, FlaggedGives
<1> HIDE DEF d
<1>2. c = None /\ e.shown # None /\ e.run # 0 /\ e.shown \notin Final
  BY NoneIsNothing DEF SlotOK, FitOK, EntryOK, Doubtful, States, Final
<1>3. EntryOK(R, T, P, k, d)
  BY <1>0, <1>1, EntrySame DEF SlotOK
<1>4. HookOK(R, k, d, None, t, c, ep)
  BY <1>1, <1>2 DEF SlotOK, HookOK, EntryOK, Same, Match
<1>5. FitOK(k, d, None, t, c, ep, tn)
  BY <1>0, <1>1, <1>2 DEF SlotOK, FitOK, Match, RunActive, Doubtful, Same
<1>6. PostOK(R, P, k, d, None, t, c, ep, tn, p)
  BY <1>0, <1>1 DEF SlotOK, PostOK, Same
<1>7. Local(e, s, r, c, p, d, None, t, c)
  BY <1>0, <1>1, <1>2 DEF Local, Works, Lives, Same, Match
<1> QED BY <1>3, <1>4, <1>5, <1>6, <1>7 DEF SlotOK, d

\* The POST of a key ends; when the page ignores its answer only the chat of
\* a torn key has the flag left.
LEMMA SlotPostEnds ==
  ASSUME NEW R \in [Ids -> Run], NEW T \in Nat, NEW P \in Nat, NEW k \in Keys,
         NEW e, NEW s, NEW r, NEW c, NEW ep, NEW tn, NEW p, Values(e, s, r, c, ep, tn, p),
         SlotOK(R, T, P, k, e, s, r, c, ep, tn, p), e # None,
         NEW d \in Entry, Same(d, e), d.cancelling = e.cancelling, d.recovering = e.recovering,
         ~d.sending \/ tn
  PROVE  SlotOK(R, T, P, k, d, s, r, c, ep, tn, 0) /\ Local(e, s, r, c, p, d, s, r, c)
<1>1. EntryOK(R, T, P, k, d)
  BY EntrySame DEF SlotOK
<1>2. HookOK(R, k, d, s, r, c, ep)
  BY DEF SlotOK, HookOK, Same
<1>3. FitOK(k, d, s, r, c, ep, tn)
  BY DEF SlotOK, FitOK, Match, RunActive, Doubtful, Same
<1>4. PostOK(R, P, k, d, s, r, c, ep, tn, 0)
  BY DEF SlotOK, PostOK, Same
<1>5. Local(e, s, r, c, p, d, s, r, c)
  BY DEF Local, Works, Lives, Same
<1> QED BY <1>1, <1>2, <1>3, <1>4, <1>5 DEF SlotOK

\* The stream of a key is closed, when it shows no active run or a cancellation
\* of the run will answer.
LEMMA SlotClose ==
  ASSUME NEW R \in [Ids -> Run], NEW T \in Nat, NEW P \in Nat, NEW k \in Keys,
         NEW e, NEW s, NEW r, NEW c, NEW ep, NEW tn, NEW p, Values(e, s, r, c, ep, tn, p),
         SlotOK(R, T, P, k, e, s, r, c, ep, tn, p),
         e # None => ~RunActive(e) \/ r # None \/ c # None
  PROVE  SlotOK(R, T, P, k, e, None, r, c, ep, tn, p) /\ Local(e, s, r, c, p, e, None, r, c)
<1>1. HookOK(R, k, e, None, r, c, ep)
  BY DEF SlotOK, HookOK
<1>2. FitOK(k, e, None, r, c, ep, tn)
  BY DEF SlotOK, FitOK
<1>3. PostOK(R, P, k, e, None, r, c, ep, tn, p)
  BY DEF SlotOK, PostOK
<1>4. Local(e, s, r, c, p, e, None, r, c)
  BY DEF Local, Works, Lives
<1> QED BY <1>1, <1>2, <1>3, <1>4 DEF SlotOK

\* The stream breaks and a recovery of its run starts.
LEMMA SlotRecover ==
  ASSUME NEW R \in [Ids -> Run], NEW T \in Nat, NEW P \in Nat, NEW k \in Keys,
         NEW e, NEW s, NEW r, NEW c, NEW ep, NEW tn, NEW p, Values(e, s, r, c, ep, tn, p),
         SlotOK(R, T, P, k, e, s, r, c, ep, tn, p),
         s # None, ~(c # None /\ c.run = s.run /\ c.epoch = s.epoch), ep = s.epoch,
         NEW t \in Recovery, t.run = s.run, t.epoch = s.epoch
  PROVE  LET d == Flagged(e, t) IN
         SlotOK(R, T, P, k, d, None, t, c, ep, tn, p) /\ Local(e, s, r, c, p, d, None, t, c)
<1> DEFINE d == Flagged(e, t)
<1>0. t # None /\ r = None /\ c = None
  BY NoneIsNothing DEF SlotOK, HookOK, FitOK, Match
<1>1. CASE e = None
  <2>1. d = None
    BY <1>1 DEF Flagged
  <2> HIDE DEF d
  <2>2. EntryOK(R, T, P, k, d) /\ FitOK(k, d, None, t, c, ep, tn)
    BY <1>1, <2>1 DEF SlotOK, EntryOK, FitOK
  <2>3. HookOK(R, k, d, None, t, c, ep)
    BY <1>0, <1>1, <2>1 DEF SlotOK, HookOK
  <2>4. PostOK(R, P, k, d, None, t, c, ep, tn, p)
    BY <1>1, <2>1 DEF SlotOK, PostOK
  <2>5. Local(e, s, r, c, p, d, None, t, c)
    BY <1>0, <2>1 DEF Local, Works, Lives
  <2> QED BY <2>2, <2>3, <2>4, <2>5 DEF SlotOK, d
<1>2. CASE e # None /\ ~Match(e, s)
  <2>1. d = e
    BY <1>2 DEF Flagged, Match
  <2> HIDE DEF d
  <2>2. EntryOK(R, T, P, k, e) /\ HookOK(R, k, e, None, t, c, ep)
    BY <1>0, <1>2 DEF SlotOK, HookOK
  <2>3. FitOK(k, e, None, t, c, ep, tn)
    BY <1>0, <1>2 DEF SlotOK, FitOK, Match
  <2>4. PostOK(R, P, k, e, None, t, c, ep, tn, p)
    BY <1>0, <1>2 DEF SlotOK, PostOK, FitOK
  <2>5. Local(e, s, r, c, p, e, None, t, c)
    BY <1>0 DEF Local, Works, Lives
  <2> QED BY <2>1, <2>2, <2>3, <2>4, <2>5 DEF SlotOK, d
<1>3. CASE e # None /\ Match(e, s)
  <2>1. e \in Entry /\ Match(e, t)
    BY <1>3 DEF Values, Entries, Match
  <2>2. Same(d, e) /\ d.sending = e.sending /\ d.recovering = TRUE /\ d.cancelling = e.cancelling
    BY <2>1, FlaggedGives
  <2> HIDE DEF d
  <2>3. EntryOK(R, T, P, k, d)
    BY <1>3, <2>2, EntrySame DEF SlotOK
  <2>4. HookOK(R, k, d, None, t, c, ep)
    BY <1>0, <2>2 DEF SlotOK, HookOK, Same
  <2>5. FitOK(k, d, None, t, c, ep, tn)
    BY <1>0, <1>3, <2>1, <2>2 DEF SlotOK, FitOK, Match, RunActive, Doubtful, Same
  <2>6. PostOK(R, P, k, d, None, t, c, ep, tn, p)
    BY <1>3, <2>2 DEF SlotOK, PostOK, Same
  <2>7. Local(e, s, r, c, p, d, None, t, c)
    BY <1>0, <1>3, <2>2 DEF Local, Works, Lives, Same
  <2> QED BY <2>3, <2>4, <2>5, <2>6, <2>7 DEF SlotOK, d
<1> QED BY <1>1, <1>2, <1>3

\* The stream of an entry breaks and the page gives up on its run.
LEMMA SlotDoubt ==
  ASSUME NEW R \in [Ids -> Run], NEW T \in Nat, NEW P \in Nat, NEW k \in Keys,
         NEW e, NEW s, NEW r, NEW c, NEW ep, NEW tn, NEW p, Values(e, s, r, c, ep, tn, p),
         SlotOK(R, T, P, k, e, s, r, c, ep, tn, p),
         s # None, ~(c # None /\ c.run = s.run /\ c.epoch = s.epoch)
  PROVE  LET d == Doubted(e, s.run, s.epoch) IN
         SlotOK(R, T, P, k, d, None, r, c, ep, tn, p) /\ Local(e, s, r, c, p, d, None, r, c)
<1> DEFINE d == Doubted(e, s.run, s.epoch)
<1>0. r = None /\ c = None
  BY DEF SlotOK, HookOK, FitOK, Match
<1>1. CASE ~(e # None /\ Match(e, s))
  <2>1. d = e /\ (e # None => ~RunActive(e))
    BY <1>1 DEF Doubted, SlotOK, FitOK, Match
  <2> HIDE DEF d
  <2> QED BY <2>1, SlotClose DEF d
<1>2. CASE e # None /\ Match(e, s)
  <2>1. e \in Entry /\ Match(e, s)
    BY <1>2 DEF Values, Entries
  <2>2. /\ d \in Entry /\ d # None /\ d.draft = e.draft /\ d.payload = e.payload
        /\ d.run = e.run /\ d.shown = "DELIVERY_UNCERTAIN" /\ d.epoch = e.epoch
        /\ d.sending = FALSE /\ d.recovering = FALSE /\ d.cancelling = e.cancelling
    BY <2>1, DoubtedGives
  <2> HIDE DEF d
  <2>3. e.run \in Ids /\ e.run # 0 /\ d.shown # None /\ d.shown \notin Final /\ d.shown # "DELIVERED"
    BY <1>2, <2>2, NoneIsNothing DEF SlotOK, HookOK, RunOf, Match, Ids, States, Final
  <2>4. EntryOK(R, T, P, k, d)
    BY <1>2, <2>2, <2>3 DEF SlotOK, EntryOK
  <2>5. HookOK(R, k, d, None, r, c, ep)
    BY <1>0, <2>2 DEF SlotOK, HookOK
  <2>6. FitOK(k, d, None, r, c, ep, tn)
    BY <1>0, <1>2, <2>2, <2>3 DEF SlotOK, FitOK, Match, RunActive, Doubtful
  <2>7. PostOK(R, P, k, d, None, r, c, ep, tn, p)
    BY <1>2, <2>2 DEF SlotOK, PostOK
  <2>8. Local(e, s, r, c, p, d, None, r, c)
    BY <1>0, <1>2, <2>2 DEF Local, Works, Lives, Match
  <2> QED BY <2>4, <2>5, <2>6, <2>7, <2>8 DEF SlotOK, d
<1> QED BY <1>1, <1>2

\* The page gives up on the run of a recovery.
LEMMA SlotGiveUp ==
  ASSUME NEW R \in [Ids -> Run], NEW T \in Nat, NEW P \in Nat, NEW k \in Keys,
         NEW e, NEW s, NEW r, NEW c, NEW ep, NEW tn, NEW p, Values(e, s, r, c, ep, tn, p),
         SlotOK(R, T, P, k, e, s, r, c, ep, tn, p), r # None, ep = r.epoch
  PROVE  LET d == Doubted(Unflagged(e, r, None), r.run, r.epoch) IN
         SlotOK(R, T, P, k, d, s, None, c, ep, tn, p) /\ Local(e, s, r, c, p, d, s, None, c)
<1> DEFINE x == Unflagged(e, r, None)
           d == Doubted(x, r.run, r.epoch)
<1>0. s = None /\ c = None /\ ep \in Nat
  BY DEF SlotOK, HookOK, Values
<1>1. CASE e = None
  <2>1. d = None
    BY <1>1 DEF Doubted, Unflagged
  <2> HIDE DEF d, x
  <2>2. SlotOK(R, T, P, k, d, s, None, c, ep, tn, p)
    BY <1>0, <1>1, <2>1 DEF SlotOK, EntryOK, HookOK, FitOK, PostOK
  <2>3. Local(e, s, r, c, p, d, s, None, c)
    BY <1>0, <2>1 DEF Local, Works, Lives
  <2> QED BY <2>2, <2>3 DEF d, x
<1>2. CASE e # None
  <2>1. e \in Entry /\ r \in Recoveries
    BY <1>2 DEF Values, Entries
  <2>2. /\ Same(x, e) /\ x.sending = e.sending
        /\ x.recovering <=> e.recovering /\ ~(r # None /\ Match(e, r))
        /\ x.cancelling <=> e.cancelling /\ ~(None # None /\ Match(e, None))
    BY <2>1, UnflaggedGives DEF Cancellations
  <2> HIDE DEF x
  <2>3. ~x.cancelling /\ ~x.recovering
    BY <1>0, <1>2, <2>2 DEF SlotOK, FitOK
  <2>4. CASE ~Match(e, r)
    <3>1. d = x
      BY <2>2, <2>4 DEF Doubted, Match, Same
    <3> HIDE DEF d
    <3>2. ~RunActive(e) /\ tn
      BY <1>2, <2>4 DEF SlotOK, FitOK
    <3>3. EntryOK(R, T, P, k, x)
      BY <1>2, <2>2, EntrySame DEF SlotOK
    <3>4. HookOK(R, k, x, s, None, c, ep)
      BY <1>0, <2>2 DEF SlotOK, HookOK, Same
    <3>5. FitOK(k, x, s, None, c, ep, tn)
      BY <1>0, <1>2, <2>2, <2>3, <3>2 DEF SlotOK, FitOK, RunActive, Doubtful, Same
    <3>6. PostOK(R, P, k, x, s, None, c, ep, tn, p)
      BY <1>2, <2>2, <3>2 DEF SlotOK, PostOK, Same
    <3>7. Local(e, s, r, c, p, x, s, None, c)
      BY <1>0, <1>2, <2>2 DEF Local, Works, Lives, Same
    <3> QED BY <3>1, <3>3, <3>4, <3>5, <3>6, <3>7 DEF SlotOK, d, x
  <2>5. CASE Match(e, r)
    <3>1. x \in Entry /\ Match(x, r)
      BY <2>2, <2>5 DEF Match, Same
    <3>2. /\ d \in Entry /\ d # None /\ d.draft = e.draft /\ d.payload = e.payload
          /\ d.run = e.run /\ d.shown = "DELIVERY_UNCERTAIN" /\ d.epoch = e.epoch
          /\ d.sending = FALSE /\ d.recovering = FALSE /\ ~d.cancelling
      BY ZenonT(60), <2>2, <2>3, <3>1, DoubtedGives DEF Same
    <3> HIDE DEF d
    <3>3. e.run \in Ids /\ e.run # 0 /\ d.shown # None /\ d.shown \notin Final /\ d.shown # "DELIVERED"
      BY <2>5, <3>2, NoneIsNothing DEF SlotOK, HookOK, RunOf, Match, Ids, States, Final
    <3>4. EntryOK(R, T, P, k, d)
      BY <1>2, <3>2, <3>3 DEF SlotOK, EntryOK
    <3>5. HookOK(R, k, d, s, None, c, ep)
      BY <1>0, <3>2 DEF SlotOK, HookOK
    <3>6. FitOK(k, d, s, None, c, ep, tn)
      BY <1>0, <1>2, <2>5, <3>2, <3>3 DEF SlotOK, FitOK, Match, RunActive, Doubtful
    <3>7. PostOK(R, P, k, d, s, None, c, ep, tn, p)
      BY <1>2, <3>2 DEF SlotOK, PostOK
    <3>8. Local(e, s, r, c, p, d, s, None, c)
      BY <1>0, <1>2, <2>5, <3>2 DEF Local, Works, Lives, Match
    <3> QED BY <3>4, <3>5, <3>6, <3>7, <3>8 DEF SlotOK, d, x
  <2> QED BY <2>4, <2>5
<1> QED BY <1>1, <1>2

\* A cancellation has failed: the stream of the run still tells.
LEMMA SlotUncancel ==
  ASSUME NEW R \in [Ids -> Run], NEW T \in Nat, NEW P \in Nat, NEW k \in Keys,
         NEW e, NEW s, NEW r, NEW c, NEW ep, NEW tn, NEW p, Values(e, s, r, c, ep, tn, p),
         SlotOK(R, T, P, k, e, s, r, c, ep, tn, p), c # None
  PROVE  LET x == Unflagged(e, None, c) IN
         /\ r = None /\ e # None /\ Same(x, e) /\ ~x.cancelling /\ ~x.recovering
         /\ x.sending = e.sending /\ Match(e, c) /\ ~Doubtful(e) /\ (s # None => Match(e, s))
<1> DEFINE x == Unflagged(e, None, c)
<1>0. r = None /\ e # None /\ Match(e, c) /\ ~Doubtful(e) /\ (s # None => Match(e, s)) /\ ~e.recovering
  BY DEF SlotOK, HookOK, FitOK
<1>1. e \in Entry /\ c \in Cancellations
  BY <1>0 DEF Values, Entries
<1>2. /\ Same(x, e) /\ x.sending = e.sending
      /\ x.recovering <=> e.recovering /\ ~(None # None /\ Match(e, None))
      /\ x.cancelling <=> e.cancelling /\ ~(c # None /\ Match(e, c))
  BY <1>1, UnflaggedGives DEF Recoveries
<1> HIDE DEF x
<1> QED BY <1>0, <1>1, <1>2 DEF x

LEMMA SlotCancelFails ==
  ASSUME NEW R \in [Ids -> Run], NEW T \in Nat, NEW P \in Nat, NEW k \in Keys,
         NEW e, NEW s, NEW r, NEW c, NEW ep, NEW tn, NEW p, Values(e, s, r, c, ep, tn, p),
         SlotOK(R, T, P, k, e, s, r, c, ep, tn, p), c # None
  PROVE  LET x == Unflagged(e, None, c)
             d == Doubted(x, c.run, c.epoch)
         IN /\ s # None => /\ SlotOK(R, T, P, k, x, s, r, None, ep, tn, p)
                           /\ Local(e, s, r, c, p, x, s, r, None)
            /\ s = None /\ ep = c.epoch => \A t \in Recovery : t.run = c.run /\ t.epoch = c.epoch =>
                  /\ SlotOK(R, T, P, k, Flagged(x, t), s, t, None, ep, tn, p)
                  /\ Local(e, s, r, c, p, Flagged(x, t), s, t, None)
            /\ s = None => /\ SlotOK(R, T, P, k, d, s, r, None, ep, tn, p)
                           /\ Local(e, s, r, c, p, d, s, r, None)
<1> DEFINE x == Unflagged(e, None, c)
           d == Doubted(x, c.run, c.epoch)
<1>1. /\ r = None /\ e # None /\ Same(x, e) /\ ~x.cancelling /\ ~x.recovering
      /\ x.sending = e.sending /\ Match(e, c) /\ ~Doubtful(e) /\ (s # None => Match(e, s))
  BY SlotUncancel
<1>0. e \in Entry /\ x \in Entry
  BY <1>1 DEF Values, Entries, Same
<1> HIDE DEF x
<1>2. EntryOK(R, T, P, k, x) /\ e.run \in Ids /\ e.run # 0 /\ RunOf(R, k, c.run)
  BY <1>1, EntrySame DEF SlotOK, HookOK, RunOf, Match, Ids
<1>3. ASSUME s # None
      PROVE  SlotOK(R, T, P, k, x, s, r, None, ep, tn, p) /\ Local(e, s, r, c, p, x, s, r, None)
  <2>1. HookOK(R, k, x, s, r, None, ep)
    BY <1>1, <1>3 DEF SlotOK, HookOK, Same
  <2>2. FitOK(k, x, s, r, None, ep, tn)
    BY <1>1, <1>3 DEF SlotOK, FitOK, Match, RunActive, Doubtful, Same
  <2>3. PostOK(R, P, k, x, s, r, None, ep, tn, p)
    BY <1>1 DEF SlotOK, PostOK, Same
  <2>4. Local(e, s, r, c, p, x, s, r, None)
    BY <1>1 DEF Local, Works, Lives, Same
  <2> QED BY <1>2, <2>1, <2>2, <2>3, <2>4 DEF SlotOK
<1>4. ASSUME s = None, ep = c.epoch, NEW t \in Recovery, t.run = c.run, t.epoch = c.epoch
      PROVE  /\ SlotOK(R, T, P, k, Flagged(x, t), s, t, None, ep, tn, p)
             /\ Local(e, s, r, c, p, Flagged(x, t), s, t, None)
  <2> DEFINE g == Flagged(x, t)
  <2>1. Match(x, t) /\ t # None
    BY <1>1, <1>4, NoneIsNothing DEF Match, Same
  <2>2. Same(g, x) /\ g.sending = x.sending /\ g.recovering = TRUE /\ g.cancelling = x.cancelling
    BY <1>0, <2>1, FlaggedGives
  <2> HIDE DEF g
  <2>3. EntryOK(R, T, P, k, g)
    BY <1>1, <1>2, <2>2, EntrySame DEF Same
  <2>4. HookOK(R, k, g, s, t, None, ep)
    BY <1>2, <1>4, <2>2 DEF SlotOK, HookOK, Same
  <2>5. FitOK(k, g, s, t, None, ep, tn)
    BY <1>1, <1>4, <2>1, <2>2 DEF SlotOK, FitOK, Match, RunActive, Doubtful, Same
  <2>6. PostOK(R, P, k, g, s, t, None, ep, tn, p)
    BY <1>1, <2>2 DEF SlotOK, PostOK, Same
  <2>7. Local(e, s, r, c, p, g, s, t, None)
    BY <1>1, <1>4, <2>2 DEF Local, Works, Lives, Same
  <2> QED BY <2>3, <2>4, <2>5, <2>6, <2>7 DEF SlotOK, g
<1>5. ASSUME s = None
      PROVE  SlotOK(R, T, P, k, d, s, r, None, ep, tn, p) /\ Local(e, s, r, c, p, d, s, r, None)
  <2>1. Match(x, c)
    BY <1>1 DEF Match, Same
  <2>2. /\ d \in Entry /\ d # None /\ d.draft = e.draft /\ d.payload = e.payload
        /\ d.run = e.run /\ d.shown = "DELIVERY_UNCERTAIN" /\ d.epoch = e.epoch
        /\ d.sending = FALSE /\ d.recovering = FALSE /\ d.cancelling = x.cancelling
    BY <1>0, <1>1, <2>1, DoubtedGives DEF Same
  <2> HIDE DEF d
  <2>3. d.shown # None /\ d.shown \notin Final /\ d.shown # "DELIVERED"
    BY <2>2, NoneIsNothing DEF States, Final
  <2>4. EntryOK(R, T, P, k, d)
    BY <1>1, <1>2, <2>2, <2>3 DEF SlotOK, EntryOK
  <2>5. HookOK(R, k, d, s, r, None, ep)
    BY <1>1, <1>5, <2>2 DEF SlotOK, HookOK
  <2>6. FitOK(k, d, s, r, None, ep, tn)
    BY <1>1, <1>2, <1>5, <2>2, <2>3 DEF SlotOK, FitOK, Match, RunActive, Doubtful
  <2>7. PostOK(R, P, k, d, s, r, None, ep, tn, p)
    BY <1>1, <2>2 DEF SlotOK, PostOK
  <2>8. Local(e, s, r, c, p, d, s, r, None)
    BY <1>1, <1>2, <2>2 DEF Local, Works, Lives, Match
  <2> QED BY <2>4, <2>5, <2>6, <2>7, <2>8 DEF SlotOK
<1> QED BY <1>3, <1>4, <1>5 DEF x

\* The page follows the run its POST has created.
LEMMA SlotAnswered ==
  ASSUME NEW R \in [Ids -> Run], NEW T \in Nat, NEW P \in Nat, NEW k \in Keys,
         NEW e, NEW s, NEW r, NEW c, NEW ep, NEW tn, NEW p, Values(e, s, r, c, ep, tn, p),
         SlotOK(R, T, P, k, e, s, r, c, ep, tn, p),
         p # 0, e # None, r = None, c = None, ~e.cancelling,
         NEW R1 \in [Ids -> Run], R1[p].state = "SENDING", k \in Ids => R1[p].chat = k,
         NEW d \in Entry, d.draft = e.draft, d.payload.run = p, d.payload.text = R1[p].text,
         d.run = p, d.shown = "SENDING", d.epoch = ep + 1,
         ~d.sending, ~d.recovering, d.cancelling = e.cancelling,
         NEW b \in Stream, Match(d, b), NEW tn1, ~tn1
  PROVE  /\ SlotOK(R1, T, P, k, d, b, None, None, ep + 1, tn1, 0)
         /\ Local(e, s, r, c, p, d, b, None, None)
<1>1. b # None /\ d # None /\ d.shown # None /\ b.run = p /\ p \in Ids /\ p <= P /\ ep + 1 \in Nat
  BY NoneIsNothing DEF SlotOK, PostOK, Values, Match, States
<1>2. RunOf(R1, k, p)
  BY <1>1 DEF RunOf
<1>3. d.payload.run = p /\ d.payload.text = R1[p].text
  OBVIOUS
<1>4. EntryOK(R1, T, P, k, d)
  BY <1>1, <1>2, <1>3 DEF SlotOK, EntryOK, Final
<1>5. HookOK(R1, k, d, b, None, None, ep + 1)
  BY <1>1, <1>2 DEF HookOK
<1>6. FitOK(k, d, b, None, None, ep + 1, tn1)
  BY <1>1 DEF FitOK, Match, Doubtful
<1>7. PostOK(R1, P, k, d, b, None, None, ep + 1, tn1, 0)
  BY DEF PostOK
<1>8. Local(e, s, r, c, p, d, b, None, None)
  BY <1>1 DEF Local, Works
<1> QED BY <1>4, <1>5, <1>6, <1>7, <1>8 DEF SlotOK

\* What an event says is true, the page says after it.
LEMMA AfterTrue ==
  ASSUME NEW run, NEW e, NEW ev \in Events, Tells(run, ev)
  PROVE  /\ After(e, ev) \in Final => After(e, ev) \in run.been
         /\ After(e, ev) = "DELIVERED" => run.delivered
<1>1. CASE ev = "delivery"
  BY <1>1 DEF After, Tells, Final
<1>2. CASE ev \in Final
  BY <1>2 DEF After, Tells, Final
<1>3. CASE ev \in {"complete", "error", "cancelled"}
  <2> DEFINE a == CHOOSE s \in Final : LastEvent[s] = ev
  <2>1. \E s \in Final : LastEvent[s] = ev
    BY <1>3 DEF LastEvent, Final
  <2>2. a \in Final /\ LastEvent[a] = ev
    BY <2>1
  <2>3. After(e, ev) = a
    BY <1>3 DEF After, Final
  <2> HIDE DEF a
  <2> QED BY <2>2, <2>3 DEF Tells, Final
<1> QED BY <1>1, <1>2, <1>3 DEF Events

LEMMA EventedGives ==
  ASSUME NEW e \in Entry, NEW t, Match(e, t), NEW ev \in Events
  PROVE  LET d == Evented(e, t.run, t.epoch, ev)
             last == ev \in {"complete", "error", "cancelled"}
         IN /\ d \in Entry /\ d # None /\ d.run = e.run /\ d.epoch = e.epoch
            /\ d.shown = After(e, ev) /\ d.draft \in {e.draft, 0} /\ d.payload \in {e.payload, None}
            /\ d.sending = e.sending /\ (d.cancelling <=> e.cancelling /\ ~last)
            /\ (d.recovering <=> e.recovering /\ ~last)
<1> DEFINE a == After(e, ev)
           last == ev \in {"complete", "error", "cancelled"}
           f == IF ev = "delivery" /\ e.payload # None /\ e.payload.run = t.run
                   /\ e.draft = e.payload.text THEN 0 ELSE e.draft
           m == IF ev \in {"delivery", "error", "cancelled"} THEN None ELSE e.payload
           g == e.cancelling /\ ~last
           h == e.recovering /\ ~last
           d == [e EXCEPT !.shown = a, !.draft = f, !.payload = m, !.cancelling = g, !.recovering = h]
<1>1. a \in States
  BY AfterTyped DEF States
<1>2. f \in {e.draft, 0} /\ m \in {e.payload, None} /\ g \in BOOLEAN /\ h \in BOOLEAN
  OBVIOUS
<1>3. e # None /\ Evented(e, t.run, t.epoch, ev) = d
  BY NoneIsNothing DEF Evented, Match
<1>4. (g <=> e.cancelling /\ ~last) /\ (h <=> e.recovering /\ ~last)
  OBVIOUS
<1> HIDE DEF a, f, m, g, h
<1>5. f \in Nat /\ m \in [run : Ids, text : Nat] \cup {None}
  BY <1>2 DEF Entry
<1>6. /\ d \in Entry /\ d.run = e.run /\ d.epoch = e.epoch /\ d.shown = a /\ d.draft = f
      /\ d.payload = m /\ d.sending = e.sending /\ d.cancelling = g /\ d.recovering = h
  BY <1>1, <1>2, <1>5 DEF Entry
<1>7. d # None
  BY <1>6, NoneIsNothing
<1> HIDE DEF d
<1> QED BY <1>2, <1>3, <1>4, <1>6, <1>7 DEF a

\* What a key stands for after an event of its stream: the entry tells the truth.
LEMMA EntryEvent ==
  ASSUME NEW R \in [Ids -> Run], NEW T \in Nat, NEW P \in Nat, NEW k \in Keys,
         NEW e \in Entry, EntryOK(R, T, P, k, e), NEW t, Match(e, t), e.run # 0,
         NEW ev \in Events, Tells(R[t.run], ev)
  PROVE  EntryOK(R, T, P, k, Evented(e, t.run, t.epoch, ev))
<1> DEFINE d == Evented(e, t.run, t.epoch, ev)
<1>1. /\ d \in Entry /\ d # None /\ d.run = e.run /\ d.epoch = e.epoch
      /\ d.shown = After(e, ev) /\ d.draft \in {e.draft, 0} /\ d.payload \in {e.payload, None}
  BY EventedGives
<1> HIDE DEF d
<1>2. d.shown \in Final \cup {"DELIVERED"} /\ d.shown # None
  BY <1>1, AfterTyped, NoneIsNothing DEF States
<1>3. (d.shown \in Final => d.shown \in R[e.run].been) /\ (d.shown = "DELIVERED" => R[e.run].delivered)
  BY <1>1, AfterTrue DEF Match
<1>4. e # None /\ d.draft <= T
  BY <1>1, NoneIsNothing DEF EntryOK, Entry
<1> QED BY <1>1, <1>2, <1>3, <1>4 DEF EntryOK, d

\* An event of the stream that does not end it.
LEMMA SlotEvent ==
  ASSUME NEW R \in [Ids -> Run], NEW T \in Nat, NEW P \in Nat, NEW k \in Keys,
         NEW e, NEW s, NEW r, NEW c, NEW ep, NEW tn, NEW p, Values(e, s, r, c, ep, tn, p),
         SlotOK(R, T, P, k, e, s, r, c, ep, tn, p), s # None,
         NEW ev \in Events, Tells(R[s.run], ev), ev \in {"complete", "error", "cancelled"} => e = None,
         NEW b \in Stream, b.run = s.run, b.epoch = s.epoch
  PROVE  LET d == Evented(e, s.run, s.epoch, ev) IN
         SlotOK(R, T, P, k, d, b, r, c, ep, tn, p) /\ Local(e, s, r, c, p, d, b, r, c)
<1> DEFINE d == Evented(e, s.run, s.epoch, ev)
<1>0. r = None /\ b # None
  BY NoneIsNothing DEF SlotOK, HookOK
<1>1. CASE ~(e # None /\ Match(e, s))
  <2>1. d = e
    BY <1>1 DEF Evented, Match
  <2> HIDE DEF d
  <2>2. HookOK(R, k, e, b, r, c, ep)
    BY <1>0 DEF SlotOK, HookOK
  <2>3. FitOK(k, e, b, r, c, ep, tn)
    BY <1>0, <1>1 DEF SlotOK, FitOK, Match
  <2>4. PostOK(R, P, k, e, b, r, c, ep, tn, p)
    BY <1>0 DEF SlotOK, PostOK
  <2>5. Local(e, s, r, c, p, e, b, r, c)
    BY <1>0 DEF Local, Works, Lives
  <2> QED BY <2>1, <2>2, <2>3, <2>4, <2>5 DEF SlotOK, d
<1>2. CASE e # None /\ Match(e, s)
  <2>1. e \in Entry /\ e.run \in Ids /\ e.run # 0
    BY <1>2 DEF Values, Entries, SlotOK, HookOK, RunOf, Match, Ids
  <2>2. /\ d \in Entry /\ d # None /\ d.run = e.run /\ d.epoch = e.epoch
        /\ d.shown = After(e, ev) /\ d.draft \in {e.draft, 0} /\ d.payload \in {e.payload, None}
        /\ d.sending = e.sending /\ (d.cancelling <=> e.cancelling)
        /\ (d.recovering <=> e.recovering)
    BY <1>2, <2>1, EventedGives
  <2>3. EntryOK(R, T, P, k, d)
    BY <1>2, <2>1, EntryEvent DEF SlotOK
  <2> HIDE DEF d
  <2>4. ~Doubtful(d)
    BY <2>2, AfterTyped DEF Final, Doubtful
  <2>5. HookOK(R, k, d, b, r, c, ep)
    BY <1>0, <1>2, <2>2 DEF SlotOK, HookOK
  <2>6. FitOK(k, d, b, r, c, ep, tn)
    BY <1>0, <1>2, <2>1, <2>2, <2>4 DEF SlotOK, FitOK, Match
  <2>7. PostOK(R, P, k, d, b, r, c, ep, tn, p)
    BY <1>0, <1>2, <2>2, <2>4 DEF SlotOK, PostOK
  <2>8. Local(e, s, r, c, p, d, b, r, c)
    BY <1>0, <1>2, <2>2 DEF Local, Works, Lives, Match
  <2> QED BY <2>3, <2>5, <2>6, <2>7, <2>8 DEF SlotOK, d
<1> QED BY <1>1, <1>2

\* The last event of the stream of an entry.
LEMMA SlotLast ==
  ASSUME NEW R \in [Ids -> Run], NEW T \in Nat, NEW P \in Nat, NEW k \in Keys,
         NEW e, NEW s, NEW r, NEW c, NEW ep, NEW tn, NEW p, Values(e, s, r, c, ep, tn, p),
         SlotOK(R, T, P, k, e, s, r, c, ep, tn, p), s # None, e # None,
         NEW ev \in {"complete", "error", "cancelled"}, Tells(R[s.run], ev)
  PROVE  LET d == Unflagged(Evented(e, s.run, s.epoch, ev), None, c) IN
         SlotOK(R, T, P, k, d, None, r, None, ep, tn, p) /\ Local(e, s, r, c, p, d, None, r, None)
<1> DEFINE x == Evented(e, s.run, s.epoch, ev)
           d == Unflagged(x, None, c)
<1>0. r = None /\ e \in Entry /\ c \in Cancellations /\ ev \in Events
  BY DEF SlotOK, HookOK, Values, Entries, Events
<1>1. CASE ~Match(e, s)
  <2>1. x = e /\ c = None /\ ~RunActive(e) /\ tn
    BY <1>1 DEF Evented, Match, SlotOK, FitOK
  <2> HIDE DEF x
  <2>2. /\ Same(d, e) /\ d.sending = e.sending
        /\ d.recovering <=> e.recovering /\ ~(None # None /\ Match(e, None))
        /\ d.cancelling <=> e.cancelling /\ ~(c # None /\ Match(e, c))
    BY <1>0, <2>1, UnflaggedGives DEF Recoveries
  <2> HIDE DEF d
  <2>3. EntryOK(R, T, P, k, d)
    BY <2>2, EntrySame DEF SlotOK
  <2>4. HookOK(R, k, d, None, r, None, ep)
    BY <1>0, <2>2 DEF SlotOK, HookOK, Same
  <2>5. FitOK(k, d, None, r, None, ep, tn)
    BY <1>0, <2>1, <2>2 DEF SlotOK, FitOK, RunActive, Doubtful, Same
  <2>6. PostOK(R, P, k, d, None, r, None, ep, tn, p)
    BY <1>0, <2>1, <2>2 DEF SlotOK, PostOK, Same
  <2>7. Local(e, s, r, c, p, d, None, r, None)
    BY <1>0, <2>1, <2>2 DEF Local, Works, Lives, Same
  <2> QED BY <2>3, <2>4, <2>5, <2>6, <2>7 DEF SlotOK, d, x
<1>2. CASE Match(e, s)
  <2>1. e.run \in Ids /\ e.run # 0
    BY <1>2 DEF SlotOK, HookOK, RunOf, Match, Ids
  <2>2. /\ x \in Entry /\ x # None /\ x.run = e.run /\ x.epoch = e.epoch
        /\ x.shown = After(e, ev) /\ x.sending = e.sending /\ ~x.cancelling /\ ~x.recovering
    BY <1>0, <1>2, EventedGives
  <2>3. EntryOK(R, T, P, k, x)
    BY <1>0, <1>2, <2>1, EntryEvent DEF SlotOK
  <2>4. x.shown \in Final
    BY <1>0, <2>2, AfterTyped DEF After, Final
  <2> HIDE DEF x
  <2>5. /\ Same(d, x) /\ d.sending = x.sending
        /\ d.recovering <=> x.recovering /\ ~(None # None /\ Match(x, None))
        /\ d.cancelling <=> x.cancelling /\ ~(c # None /\ Match(x, c))
    BY <1>0, <2>2, UnflaggedGives DEF Recoveries
  <2> HIDE DEF d
  <2>6. EntryOK(R, T, P, k, d)
    BY <2>2, <2>3, <2>5, EntrySame
  <2>7. HookOK(R, k, d, None, r, None, ep)
    BY <1>0, <2>5 DEF HookOK, Same
  <2>8. FitOK(k, d, None, r, None, ep, tn)
    BY <1>0, <1>2, <2>1, <2>2, <2>4, <2>5 DEF SlotOK, FitOK, RunActive, Doubtful, Same, Final
  <2>9. PostOK(R, P, k, d, None, r, None, ep, tn, p)
    BY <1>0, <1>2, <2>2, <2>4, <2>5 DEF SlotOK, PostOK, Same
  <2>10. Local(e, s, r, c, p, d, None, r, None)
    BY <1>0, <2>2, <2>4, <2>5 DEF Local, Works, Lives, Same
  <2> QED BY <2>6, <2>7, <2>8, <2>9, <2>10 DEF SlotOK, d, x
<1> QED BY <1>1, <1>2

\* A snapshot of the run that an entry shows.
LEMMA SnappedGives ==
  ASSUME NEW e \in Entry, NEW q, NEW ep \in Nat, NEW st \in States, NEW dv \in BOOLEAN,
         e.run = q, ep >= e.epoch
  PROVE  LET d == Snapped(e, q, ep, st, dv) IN
         /\ d \in Entry /\ d # None /\ d.run = e.run /\ d.epoch = ep
         /\ d.shown = st /\ d.draft \in {e.draft, 0} /\ d.payload \in {e.payload, None}
         /\ d.sending = e.sending /\ ~d.recovering
         /\ d.cancelling <=> e.cancelling /\ st \notin Final
<1> DEFINE f == IF dv /\ e.payload # None /\ e.draft = e.payload.text THEN 0 ELSE e.draft
           m == IF dv \/ st \in {"FAILED", "CANCELLED"} THEN None ELSE e.payload
           g == e.cancelling /\ st \notin Final
           d == [e EXCEPT !.shown = st, !.epoch = ep, !.recovering = FALSE, !.draft = f,
                          !.payload = m, !.cancelling = g]
<1>1. f \in {e.draft, 0} /\ m \in {e.payload, None} /\ g \in BOOLEAN
  OBVIOUS
<1>2. e # None /\ Snapped(e, q, ep, st, dv) = d
  BY NoneIsNothing DEF Snapped
<1>3. g <=> e.cancelling /\ st \notin Final
  OBVIOUS
<1> HIDE DEF f, m, g
<1>4. f \in Nat /\ m \in [run : Ids, text : Nat] \cup {None}
  BY <1>1 DEF Entry
<1>5. /\ d \in Entry /\ d.run = e.run /\ d.epoch = ep /\ d.shown = st /\ d.draft = f
      /\ d.payload = m /\ d.sending = e.sending /\ d.cancelling = g /\ d.recovering = FALSE
  BY <1>1, <1>4 DEF Entry
<1>6. d # None
  BY <1>5, NoneIsNothing
<1> HIDE DEF d
<1> QED BY <1>1, <1>2, <1>3, <1>5, <1>6

\* The truth told by a snapshot of the run.
LEMMA EntrySnapshot ==
  ASSUME NEW R \in [Ids -> Run], NEW T \in Nat, NEW P \in Nat, NEW k \in Keys,
         NEW e \in Entry, EntryOK(R, T, P, k, e), e.run # 0, NEW ep \in Nat, ep >= e.epoch,
         NEW st \in States, st \in Final => st \in R[e.run].been,
         st = "DELIVERED" => R[e.run].delivered, NEW dv \in BOOLEAN
  PROVE  EntryOK(R, T, P, k, Snapped(e, e.run, ep, st, dv))
<1> DEFINE d == Snapped(e, e.run, ep, st, dv)
<1>1. /\ d \in Entry /\ d # None /\ d.run = e.run /\ d.epoch = ep
      /\ d.shown = st /\ d.draft \in {e.draft, 0} /\ d.payload \in {e.payload, None}
  BY SnappedGives
<1> HIDE DEF d
<1>2. e # None /\ d.shown # None
  BY <1>1, NoneIsNothing
<1> QED BY <1>1, <1>2 DEF EntryOK, d

\* A recovery finds that the run has ended.
LEMMA SlotFound ==
  ASSUME NEW R \in [Ids -> Run], NEW T \in Nat, NEW P \in Nat, NEW k \in Keys,
         NEW e, NEW s, NEW r, NEW c, NEW ep, NEW tn, NEW p, Values(e, s, r, c, ep, tn, p),
         SlotOK(R, T, P, k, e, s, r, c, ep, tn, p), r # None, ep = r.epoch,
         NEW st \in Final, st \in R[r.run].been, NEW dv \in BOOLEAN
  PROVE  LET d == Snapped(Unflagged(e, r, None), r.run, r.epoch, st, dv) IN
         SlotOK(R, T, P, k, d, s, None, c, ep, tn, p) /\ Local(e, s, r, c, p, d, s, None, c)
<1> DEFINE x == Unflagged(e, r, None)
           d == Snapped(x, r.run, r.epoch, st, dv)
<1>0. s = None /\ c = None /\ ep \in Nat /\ st \in States
  BY DEF SlotOK, HookOK, Values, States
<1>1. CASE e = None
  <2>1. d = None
    BY <1>1 DEF Snapped, Unflagged
  <2> HIDE DEF d, x
  <2>2. SlotOK(R, T, P, k, d, s, None, c, ep, tn, p)
    BY <1>0, <1>1, <2>1 DEF SlotOK, EntryOK, HookOK, FitOK, PostOK
  <2>3. Local(e, s, r, c, p, d, s, None, c)
    BY <1>0, <2>1 DEF Local, Works, Lives
  <2> QED BY <2>2, <2>3 DEF d, x
<1>2. CASE e # None
  <2>1. e \in Entry /\ r \in Recoveries
    BY <1>2 DEF Values, Entries
  <2>2. /\ Same(x, e) /\ x.sending = e.sending
        /\ x.recovering <=> e.recovering /\ ~(r # None /\ Match(e, r))
        /\ x.cancelling <=> e.cancelling /\ ~(None # None /\ Match(e, None))
    BY <2>1, UnflaggedGives DEF Cancellations
  <2> HIDE DEF x
  <2>3. ~x.cancelling /\ ~x.recovering /\ x \in Entry /\ EntryOK(R, T, P, k, x)
    BY <1>0, <1>2, <2>2, EntrySame DEF SlotOK, FitOK, Same
  <2>4. CASE ~(x.run = r.run /\ r.epoch >= x.epoch)
    <3>1. d = x /\ ~Match(e, r)
      BY <1>0, <2>1, <2>2, <2>4 DEF Snapped, Match, Same, Entry
    <3> HIDE DEF d
    <3>2. ~RunActive(e) /\ tn
      BY <1>2, <3>1 DEF SlotOK, FitOK
    <3>4. HookOK(R, k, x, s, None, c, ep)
      BY <1>0, <2>2 DEF SlotOK, HookOK, Same
    <3>5. FitOK(k, x, s, None, c, ep, tn)
      BY <1>0, <1>2, <2>2, <2>3, <3>2 DEF SlotOK, FitOK, RunActive, Doubtful, Same
    <3>6. PostOK(R, P, k, x, s, None, c, ep, tn, p)
      BY <1>2, <2>2, <3>2 DEF SlotOK, PostOK, Same
    <3>7. Local(e, s, r, c, p, x, s, None, c)
      BY <1>0, <1>2, <2>2 DEF Local, Works, Lives, Same
    <3> QED BY <2>3, <3>1, <3>4, <3>5, <3>6, <3>7 DEF SlotOK, d, x
  <2>5. CASE x.run = r.run /\ r.epoch >= x.epoch
    <3>1. r.run \in Ids /\ r.run # 0 /\ r.epoch \in Nat
      BY <1>0 DEF SlotOK, HookOK, RunOf, Ids
    <3>2. /\ d \in Entry /\ d # None /\ d.run = x.run /\ d.epoch = ep
          /\ d.shown = st /\ d.sending = x.sending /\ ~d.recovering
          /\ d.cancelling <=> x.cancelling /\ st \notin Final
      BY <1>0, <2>3, <2>5, <3>1, SnappedGives
    <3>3. EntryOK(R, T, P, k, d)
      BY <1>0, <2>3, <2>5, <3>1, EntrySnapshot DEF Final
    <3> HIDE DEF d
    <3>4. d.run = r.run /\ ~RunActive(d) /\ ~Doubtful(d) /\ d.sending = e.sending
      BY <2>2, <2>5, <3>2 DEF RunActive, Doubtful, Final
    <3>5. HookOK(R, k, d, s, None, c, ep)
      BY <1>0, <3>2 DEF SlotOK, HookOK
    <3>6. FitOK(k, d, s, None, c, ep, tn)
      BY <1>0, <1>2, <2>3, <3>1, <3>2, <3>4 DEF SlotOK, FitOK, Doubtful
    <3>7. PostOK(R, P, k, d, s, None, c, ep, tn, p)
      BY <1>0, <1>2, <3>2, <3>4 DEF SlotOK, PostOK
    <3>8. Local(e, s, r, c, p, d, s, None, c)
      BY <1>0, <1>2, <2>2, <2>5, <3>2, <3>4 DEF Local, Works, Lives, Same
    <3> QED BY <3>3, <3>5, <3>6, <3>7, <3>8 DEF SlotOK, d, x
  <2> QED BY <2>4, <2>5
<1> QED BY <1>1, <1>2

\* A recovery finds the run active: the page follows it again.
LEMMA SlotFollowed ==
  ASSUME NEW R \in [Ids -> Run], NEW T \in Nat, NEW P \in Nat, NEW k \in Keys,
         NEW e, NEW s, NEW r, NEW c, NEW ep, NEW tn, NEW p, Values(e, s, r, c, ep, tn, p),
         SlotOK(R, T, P, k, e, s, r, c, ep, tn, p), r # None, ep = r.epoch,
         NEW st \in States \ Final, st # "DELIVERY_UNCERTAIN",
         st = "DELIVERED" => R[r.run].delivered, NEW dv \in BOOLEAN,
         NEW w, w = Snapped(Unflagged(e, r, None), r.run, ep + 1, st, dv),
         w # None, w.run = r.run, w.epoch = ep + 1,
         NEW b \in Stream, b.run = r.run, b.epoch = ep + 1
  PROVE  LET d == Unflagged(w, None, None) IN
         /\ SlotOK(R, T, P, k, d, b, None, None, ep + 1, tn, p)
         /\ Local(e, s, r, c, p, d, b, None, None)
<1> DEFINE x == Unflagged(e, r, None)
           d == Unflagged(w, None, None)
<1>0. /\ s = None /\ c = None /\ ep \in Nat /\ ep + 1 \in Nat /\ st \in States /\ b # None
      /\ ep + 1 # 0 /\ RunOf(R, k, r.run)
  BY NoneIsNothing DEF SlotOK, HookOK, Values, States
<1>1. e # None /\ e \in Entry /\ r \in Recoveries
  BY DEF Snapped, Unflagged, Values, Entries
<1>2. /\ Same(x, e) /\ x.sending = e.sending
      /\ x.recovering <=> e.recovering /\ ~(r # None /\ Match(e, r))
      /\ x.cancelling <=> e.cancelling /\ ~(None # None /\ Match(e, None))
  BY <1>1, UnflaggedGives DEF Cancellations
<1>3. w = Snapped(x, r.run, ep + 1, st, dv)
  OBVIOUS
<1> HIDE DEF x
<1>4. ~x.cancelling /\ ~x.recovering /\ x \in Entry /\ EntryOK(R, T, P, k, x) /\ x # None
  BY <1>0, <1>1, <1>2, EntrySame DEF SlotOK, FitOK, Same
<1>5. x.run = r.run /\ ep + 1 >= x.epoch
  <2>1. ~(x.run = r.run /\ ep + 1 >= x.epoch) => w = x
    BY <1>3 DEF Snapped
  <2>2. x.epoch = ep + 1 => ep + 1 >= x.epoch
    BY <1>0
  <2> QED BY <2>1, <2>2
<1>6. /\ w \in Entry /\ w.shown = st /\ w.sending = x.sending /\ ~w.recovering /\ ~w.cancelling
  BY <1>0, <1>3, <1>4, <1>5, SnappedGives
<1>7. r.run \in Ids /\ r.run # 0
  BY <1>0 DEF RunOf, Ids
<1>8. EntryOK(R, T, P, k, w)
  BY <1>0, <1>3, <1>4, <1>5, <1>7, EntrySnapshot
<1>9. /\ Same(d, w) /\ d.sending = w.sending
      /\ d.recovering <=> w.recovering /\ ~(None # None /\ Match(w, None))
      /\ d.cancelling <=> w.cancelling /\ ~(None # None /\ Match(w, None))
  BY <1>6, UnflaggedGives DEF Cancellations, Recoveries
<1> HIDE DEF d
<1>10. EntryOK(R, T, P, k, d)
  BY <1>6, <1>8, <1>9, EntrySame
<1>11. HookOK(R, k, d, b, None, None, ep + 1)
  BY <1>0, <1>9 DEF HookOK, Same
<1>12. FitOK(k, d, b, None, None, ep + 1, tn)
  BY <1>0, <1>1, <1>6, <1>7, <1>9 DEF SlotOK, FitOK, Match, Doubtful, Same
<1>13. PostOK(R, P, k, d, b, None, None, ep + 1, tn, p)
  BY <1>0, <1>1, <1>2, <1>6, <1>9 DEF SlotOK, PostOK, Same
<1>14. Local(e, s, r, c, p, d, b, None, None)
  BY <1>0, <1>1, <1>2, <1>5, <1>7, <1>9 DEF Local, Works, Lives, Same
<1> QED BY <1>10, <1>11, <1>12, <1>13, <1>14 DEF SlotOK, d

\* The backend has read the cancellation.
LEMMA SlotStopping ==
  ASSUME NEW R \in [Ids -> Run], NEW T \in Nat, NEW P \in Nat, NEW k \in Keys,
         NEW e, NEW s, NEW r, NEW c, NEW ep, NEW tn, NEW p, Values(e, s, r, c, ep, tn, p),
         SlotOK(R, T, P, k, e, s, r, c, ep, tn, p), c # None,
         NEW t \in Cancellation, t.run = c.run, t.epoch = c.epoch
  PROVE  SlotOK(R, T, P, k, e, s, r, t, ep, tn, p) /\ Local(e, s, r, c, p, e, s, r, t)
<1>0. t # None
  BY NoneIsNothing
<1>1. HookOK(R, k, e, s, r, t, ep)
  BY DEF SlotOK, HookOK
<1>2. FitOK(k, e, s, r, t, ep, tn)
  BY <1>0 DEF SlotOK, FitOK, Match
<1>3. PostOK(R, P, k, e, s, r, t, ep, tn, p)
  BY DEF SlotOK, PostOK
<1>4. Local(e, s, r, c, p, e, s, r, t)
  BY DEF Local, Works, Lives
<1> QED BY <1>1, <1>2, <1>3, <1>4 DEF SlotOK

\* The answer of a cancellation.
LEMMA SlotTold ==
  ASSUME NEW R \in [Ids -> Run], NEW T \in Nat, NEW P \in Nat, NEW k \in Keys,
         NEW e, NEW s, NEW r, NEW c, NEW ep, NEW tn, NEW p, Values(e, s, r, c, ep, tn, p),
         SlotOK(R, T, P, k, e, s, r, c, ep, tn, p), c # None,
         NEW st \in Final, st \in R[c.run].been, NEW dv \in BOOLEAN
  PROVE  LET d == Snapped(Unflagged(e, r, c), c.run, c.epoch, st, dv) IN
         /\ SlotOK(R, T, P, k, d, s, None, None, ep, tn, p)
         /\ Local(e, s, r, c, p, d, s, None, None)
         /\ d # None /\ d.run = c.run /\ d.epoch = c.epoch /\ d.shown \in Final
         /\ s # None => Match(d, s)
         /\ e # None /\ e.run = c.run
<1> DEFINE x == Unflagged(e, r, c)
           d == Snapped(x, c.run, c.epoch, st, dv)
<1>0. /\ r = None /\ e # None /\ Match(e, c) /\ RunOf(R, k, c.run) /\ st \in States
      /\ s # None => Match(e, s)
  BY DEF SlotOK, HookOK, FitOK, States
<1>1. e \in Entry /\ r \in Recoveries /\ c \in Cancellations
  BY <1>0 DEF Values, Entries
<1>2. /\ Same(x, e) /\ x.sending = e.sending
      /\ x.recovering <=> e.recovering /\ ~(r # None /\ Match(e, r))
      /\ x.cancelling <=> e.cancelling /\ ~(c # None /\ Match(e, c))
  BY <1>1, UnflaggedGives
<1> HIDE DEF x
<1>3. ~x.cancelling /\ ~x.recovering /\ x \in Entry /\ EntryOK(R, T, P, k, x) /\ x # None
  BY <1>0, <1>2, EntrySame DEF SlotOK, FitOK, Same
<1>4. /\ x.run = c.run /\ c.epoch = x.epoch /\ c.epoch \in Nat /\ c.epoch >= x.epoch
      /\ c.run \in Ids /\ c.run # 0
  BY <1>0, <1>2, <1>3 DEF Match, Same, Entry, RunOf, Ids
<1>5. /\ d \in Entry /\ d # None /\ d.run = x.run /\ d.epoch = c.epoch /\ d.shown = st
      /\ d.sending = x.sending /\ ~d.recovering /\ (d.cancelling <=> x.cancelling /\ st \notin Final)
  BY <1>0, <1>3, <1>4, SnappedGives
<1>6. EntryOK(R, T, P, k, d)
  BY <1>0, <1>3, <1>4, EntrySnapshot DEF Final
<1> HIDE DEF d
<1>7. d.run = c.run /\ ~RunActive(d) /\ ~Doubtful(d) /\ d.sending = e.sending /\ ~d.cancelling
  BY <1>2, <1>3, <1>4, <1>5 DEF RunActive, Doubtful, Final
<1>8. s # None => Match(d, s)
  BY <1>0, <1>4, <1>5 DEF Match
<1>9. HookOK(R, k, d, s, None, None, ep)
  BY <1>0, <1>5 DEF SlotOK, HookOK
<1>10. FitOK(k, d, s, None, None, ep, tn)
  BY <1>0, <1>2, <1>3, <1>4, <1>5, <1>7, <1>8 DEF SlotOK, FitOK, Doubtful, Match, Same
<1>11. PostOK(R, P, k, d, s, None, None, ep, tn, p)
  BY <1>0, <1>5, <1>7 DEF SlotOK, PostOK
<1>12. Local(e, s, r, c, p, d, s, None, None)
  BY <1>0, <1>5, <1>7 DEF Local, Works, Lives, Match
<1>13. e.run = c.run
  BY <1>0 DEF Match
<1> QED BY <1>0, <1>5, <1>6, <1>7, <1>8, <1>9, <1>10, <1>11, <1>12, <1>13 DEF SlotOK, d, x

\* A chat that the list names and the table did not hold.
LEMMA SlotListed ==
  ASSUME NEW R \in [Ids -> Run], NEW T \in Nat, NEW P \in Nat, NEW k \in Ids,
         NEW s, NEW r, NEW c, NEW ep, NEW tn, NEW p, Values(None, s, r, c, ep, tn, p),
         SlotOK(R, T, P, k, None, s, r, c, ep, tn, p)
  PROVE  /\ SlotOK(R, T, P, k, NewEntry, s, r, c, ep, tn, p)
         /\ Local(None, s, r, c, p, NewEntry, s, r, c)
<1>1. /\ s = None /\ r = None /\ c = None /\ ep = 0 /\ ~tn /\ p = 0
  BY DEF SlotOK, HookOK, FitOK, PostOK, Values
<1>2. NewEntry \in Entry
  BY DEF NewEntry, Entry
<1>3. NewEntry # None
  BY <1>2, NoneIsNothing
<1>4. EntryOK(R, T, P, k, NewEntry)
  BY NoneIsNothing DEF EntryOK, NewEntry, States, Final
<1>5. HookOK(R, k, NewEntry, s, r, c, ep)
  BY <1>1, <1>3 DEF HookOK
<1>6. FitOK(k, NewEntry, s, r, c, ep, tn)
  BY <1>1, NoneIsNothing DEF FitOK, NewEntry, RunActive, Doubtful, States
<1>7. PostOK(R, P, k, NewEntry, s, r, c, ep, tn, p)
  BY <1>1 DEF PostOK, NewEntry
<1>8. Local(None, s, r, c, p, NewEntry, s, r, c)
  BY <1>1 DEF Local, Works, Lives, NewEntry
<1> QED BY <1>4, <1>5, <1>6, <1>7, <1>8 DEF SlotOK

\* An entry that nothing retains.
LEMMA SlotDropped ==
  ASSUME NEW R \in [Ids -> Run], NEW T \in Nat, NEW P \in Nat, NEW k \in Keys,
         NEW e, NEW s, NEW r, NEW c, NEW ep, NEW tn, NEW p, Values(e, s, r, c, ep, tn, p),
         SlotOK(R, T, P, k, e, s, r, c, ep, tn, p),
         e # None, ~ActiveWork(e), e.draft = 0, k \in Ids => e.run = 0
  PROVE  SlotOK(R, T, P, k, None, s, r, c, ep, tn, p) /\ Local(e, s, r, c, p, None, s, r, c)
<1>1. c = None /\ ~tn
  BY DEF SlotOK, FitOK, ActiveWork
<1>2. p = 0
  BY <1>1 DEF SlotOK, PostOK, ActiveWork
<1>3. k \in Ids => s = None /\ r = None
  BY <1>1 DEF SlotOK, FitOK, HookOK, RunOf, Match, Ids
<1>4. k \in Ids => ep = 0
  BY DEF SlotOK, FitOK, Values
<1>5. SlotOK(R, T, P, k, None, s, r, c, ep, tn, p)
  BY <1>1, <1>2, <1>3, <1>4 DEF SlotOK, EntryOK, HookOK, FitOK, PostOK
<1>6. Local(e, s, r, c, p, None, s, r, c)
  BY DEF Local, Works, Lives
<1> QED BY <1>5, <1>6

\* A key that stands for nothing; a provisional one may have a recovery left.
LEMMA SlotEmpty ==
  ASSUME NEW R, NEW T, NEW P, NEW k \in Provisional, NEW ep, NEW tn, ~tn
  PROVE  SlotOK(R, T, P, k, None, None, None, None, ep, tn, 0)
BY ChatStreamAssumption DEF Ids, SlotOK, EntryOK, HookOK, FitOK, PostOK

LEMMA LocalEmpty ==
  ASSUME NEW e, NEW s, NEW r, NEW c, NEW p
  PROVE  Local(e, s, r, c, p, None, None, None, None)
BY DEF Local, Works, Lives

LEMMA LocalSame ==
  ASSUME NEW e, NEW s, NEW r, NEW c, NEW p
  PROVE  Local(e, s, r, c, p, e, s, r, c)
BY DEF Local, Works, Lives

\* What moves from provisional key k to the key c of its chat.
LEMMA SlotMoves ==
  ASSUME NEW R \in [Ids -> Run], NEW T \in Nat, NEW P \in Nat, NEW k \in Provisional,
         NEW e, NEW s, NEW c, NEW ep, NEW tn, ~tn, Values(e, s, None, c, ep, tn, 0),
         SlotOK(R, T, P, k, e, s, None, c, ep, tn, 0), NEW tn1, ~tn1,
         e # None, e.run # 0, NEW h \in Ids, R[e.run].chat = h,
         NEW ep1 \in Nat, ep1 = e.epoch \/ (s = None /\ c = None /\ ~Doubtful(e))
  PROVE  SlotOK(R, T, P, h, e, s, None, c, ep1, tn1, 0)
<1>0. e \in Entry /\ e.epoch \in Nat /\ RunOf(R, h, e.run)
  BY DEF Values, Entries, Entry, SlotOK, EntryOK, RunOf
<1>1. EntryOK(R, T, P, h, e)
  BY <1>0 DEF SlotOK, EntryOK
<1>2. (s # None => Match(e, s)) /\ (c # None => Match(e, c))
  BY DEF SlotOK, FitOK
<1>3. HookOK(R, h, e, s, None, c, ep1)
  BY <1>0, <1>2 DEF HookOK, Match
<1>4. FitOK(h, e, s, None, c, ep1, tn1)
  BY <1>0, <1>2 DEF SlotOK, FitOK
<1>5. PostOK(R, P, h, e, s, None, c, ep1, tn1, 0)
  BY DEF SlotOK, PostOK
<1> QED BY <1>1, <1>3, <1>4, <1>5 DEF SlotOK

\* The user keeps the copy under the key of the chat: what waits for it ends.
LEMMA SlotKeeps ==
  ASSUME NEW R \in [Ids -> Run], NEW T \in Nat, NEW P \in Nat, NEW k \in Keys,
         NEW e, NEW s, NEW r, NEW c, NEW ep, NEW tn, NEW p, Values(e, s, r, c, ep, tn, p),
         SlotOK(R, T, P, k, e, s, r, c, ep, tn, p), e # None, ~ActiveWork(e)
  PROVE  LET d == Unflagged(e, r, c) IN
         /\ SlotOK(R, T, P, k, d, s, None, None, e.epoch, tn, p)
         /\ Local(e, s, r, c, p, d, s, None, None)
         /\ d.run = e.run /\ d # None
<1> DEFINE d == Unflagged(e, r, c)
<1>0. e \in Entry /\ r \in Recoveries /\ c \in Cancellations /\ e.epoch \in Nat
  BY DEF Values, Entries, Entry
<1>1. /\ Same(d, e) /\ d.sending = e.sending
      /\ d.recovering <=> e.recovering /\ ~(r # None /\ Match(e, r))
      /\ d.cancelling <=> e.cancelling /\ ~(c # None /\ Match(e, c))
  BY <1>0, UnflaggedGives
<1> HIDE DEF d
<1>2. ~d.recovering /\ ~d.cancelling /\ ~d.sending /\ c = None /\ (~tn => p = 0)
  BY <1>1 DEF ActiveWork, SlotOK, FitOK, PostOK
<1>3. EntryOK(R, T, P, k, d)
  BY <1>1, EntrySame DEF SlotOK
<1>4. HookOK(R, k, d, s, None, None, e.epoch)
  BY <1>1 DEF SlotOK, HookOK, Same
<1>5. FitOK(k, d, s, None, None, e.epoch, tn)
  BY <1>0, <1>1, <1>2 DEF SlotOK, EntryOK, FitOK, Match, RunActive, Doubtful, ActiveWork, Same
<1>6. PostOK(R, P, k, d, s, None, None, e.epoch, tn, p)
  BY <1>1, <1>2 DEF SlotOK, PostOK, Same
<1>7. Local(e, s, r, c, p, d, s, None, None)
  BY <1>1 DEF Local, Works, Lives, Same
<1> QED BY <1>1, <1>3, <1>4, <1>5, <1>6, <1>7 DEF SlotOK, d, Same

\* The user keeps the provisional copy (f) and the hook gives it the chat (e and
\* what waits for it).
LEMMA SlotTakes ==
  ASSUME NEW R \in [Ids -> Run], NEW T \in Nat, NEW P \in Nat, NEW k \in Ids, NEW f \in Provisional,
         NEW e0, NEW s0, NEW r0, NEW c0, NEW ep0, NEW tn0, ~tn0,
         Values(e0, s0, r0, c0, ep0, tn0, 0),
         SlotOK(R, T, P, f, e0, s0, r0, c0, ep0, tn0, 0), e0 # None, ~ActiveWork(e0),
         e0.run # 0, R[e0.run].chat = k,
         NEW e, NEW s, NEW r, NEW c, NEW ep, NEW tn, NEW p, Values(e, s, r, c, ep, tn, p),
         SlotOK(R, T, P, k, e, s, r, c, ep, tn, p), e # None, ~ActiveWork(e)
  PROVE  LET d == Unflagged(e0, r, c) IN
         /\ SlotOK(R, T, P, k, d, s0, None, None, e0.epoch, tn, p)
         /\ Local(e0, s0, r0, c0, 0, d, s0, None, None)
<1> DEFINE d == Unflagged(e0, r, c)
<1>0. e0 \in Entry /\ r \in Recoveries /\ c \in Cancellations /\ e0.epoch \in Nat
  BY DEF Values, Entries, Entry
<1>1. /\ Same(d, e0) /\ d.sending = e0.sending
      /\ d.recovering <=> e0.recovering /\ ~(r # None /\ Match(e0, r))
      /\ d.cancelling <=> e0.cancelling /\ ~(c # None /\ Match(e0, c))
  BY <1>0, UnflaggedGives
<1> HIDE DEF d
<1>2. /\ ~d.recovering /\ ~d.cancelling /\ ~d.sending /\ (~tn => p = 0)
      /\ RunOf(R, k, e0.run) /\ (s0 # None => Match(e0, s0))
  BY <1>1 DEF ActiveWork, SlotOK, EntryOK, FitOK, PostOK, RunOf
<1>3. EntryOK(R, T, P, k, e0)
  BY <1>2 DEF SlotOK, EntryOK
<1>4. EntryOK(R, T, P, k, d)
  BY <1>1, <1>3, EntrySame
<1>5. HookOK(R, k, d, s0, None, None, e0.epoch)
  BY <1>1, <1>2 DEF HookOK, Match, Same
<1>6. FitOK(k, d, s0, None, None, e0.epoch, tn)
  BY <1>0, <1>1, <1>2 DEF SlotOK, FitOK, Match, RunActive, Doubtful, ActiveWork, Same
<1>7. PostOK(R, P, k, d, s0, None, None, e0.epoch, tn, p)
  BY <1>1, <1>2 DEF SlotOK, PostOK, Same
<1>8. Local(e0, s0, r0, c0, 0, d, s0, None, None)
  BY <1>1 DEF Local, Works, Lives, Same
<1> QED BY <1>4, <1>5, <1>6, <1>7, <1>8 DEF SlotOK, d

\* The hook refuses: the chat shows the run of the copy and keeps its own stream,
\* the copy goes and leaves its own behind.
LEMMA SlotTears ==
  ASSUME NEW R, NEW T, NEW P, NEW k \in Ids,
         NEW e, NEW s, NEW r, NEW c, NEW ep, NEW tn, NEW p, Values(e, s, r, c, ep, tn, p),
         SlotOK(R, T, P, k, e, s, r, c, ep, tn, p), e # None, ~ActiveWork(e),
         NEW d \in Entry, EntryOK(R, T, P, k, d), d.run # 0, ~ActiveWork(d),
         ~Works(s, r, c, d.run), NEW tn1 \in BOOLEAN, tn1
  PROVE  SlotOK(R, T, P, k, d, s, r, c, ep, tn1, p)
<1>1. c = None /\ d # None
  BY NoneIsNothing DEF SlotOK, FitOK, ActiveWork
<1>2. HookOK(R, k, d, s, r, c, ep)
  BY <1>1 DEF SlotOK, HookOK
<1>3. FitOK(k, d, s, r, c, ep, tn1)
  BY <1>1 DEF SlotOK, FitOK, Match, Works, ActiveWork
<1>4. PostOK(R, P, k, d, s, r, c, ep, tn1, p)
  BY <1>1 DEF SlotOK, PostOK
<1> QED BY <1>2, <1>3, <1>4 DEF SlotOK

LEMMA SlotLeft ==
  ASSUME NEW R, NEW T, NEW P, NEW k \in Provisional,
         NEW e, NEW s, NEW r, NEW c, NEW ep, NEW tn, ~tn,
         SlotOK(R, T, P, k, e, s, r, c, ep, tn, 0), c = None
  PROVE  SlotOK(R, T, P, k, None, s, r, c, ep, tn, 0)
BY ChatStreamAssumption DEF SlotOK, EntryOK, HookOK, FitOK, PostOK, Ids
-----------------------------------------------------------------------------
(* What becomes of the page.                                               *)

\* The parts of a page and its POSTs.
LEMMA PageTyped ==
  ASSUME NEW u \in PageState, NEW Q \in [Keys -> Nat], NEW k \in Keys
  PROVE  Values(u.entry[k], u.stream[k], u.rec[k], u.can[k], u.epoch[k], k \in u.torn, Q[k])
BY KeyTyped DEF Values

\* A run that exists is not one that a POST asks for.
LEMMA KeyReal ==
  ASSUME NEW u, NEW Q, NEW R, NEW T, NEW P, NEW k, KeyOK(u, R, T, P, Q, k)
  PROVE  /\ Q[k] # 0 => Q[k] \in Ids /\ R[Q[k]].state = "none"
         /\ Has(u, k) /\ u.entry[k].run # 0 => R[u.entry[k].run].state # "none"
         /\ \A q \in Ids : WorksOn(u, k, q) => R[q].state # "none"
<1>1. Q[k] # 0 => Q[k] \in Ids /\ R[Q[k]].state = "none"
  BY DEF KeyOK, SlotOK, PostOK
<1>2. Has(u, k) /\ u.entry[k].run # 0 => R[u.entry[k].run].state # "none"
  BY DEF KeyOK, SlotOK, EntryOK, RunOf, Has
<1>3. \A q \in Ids : WorksOn(u, k, q) => R[q].state # "none"
  BY DEF KeyOK, SlotOK, HookOK, RunOf, WorksOn, Works
<1> QED BY <1>1, <1>2, <1>3

\* Every key k follows what one key stood for, m[k]; what it takes over from
\* another key is about the run of that key.
Carries(u, Q, v, Q1, m) ==
  /\ m \in [Keys -> Keys] /\ \A j, k \in Keys : j # k => m[j] # m[k]
  /\ \A k \in Keys : Follow(u, Q, m[k], v, k)
  /\ \A k \in Keys : m[k] # k /\ k \in Ids => \A q \in Ids :
        WorksOn(u, m[k], q) => Has(u, m[k]) /\ u.entry[m[k]].run = q
  /\ \A j, k \in Keys : j # k /\ Q1[j] = Q1[k] => Q1[j] = 0

KeysOK(u, R, T, P, Q) == \A k \in Keys : KeyOK(u, R, T, P, Q, k)

LEMMA PageStep ==
  ASSUME NEW u, NEW v, NEW Q, NEW Q1, NEW m, Carries(u, Q, v, Q1, m),
         NEW R, NEW T, NEW P, PageOK(u, R, T, P, Q),
         NEW R1, NEW T1, NEW P1, KeysOK(v, R1, T1, P1, Q1), ConflictOK(v, R1, Q1)
  PROVE  PageOK(v, R1, T1, P1, Q1)
<1> SUFFICES ASSUME NEW j \in Keys, NEW k \in Keys, j # k PROVE ApartOK(v, Q1, j, k)
  BY DEF PageOK, KeysOK
<1> DEFINE a == m[j]
           b == m[k]
<1>1. a \in Keys /\ b \in Keys /\ a # b /\ Follow(u, Q, a, v, j) /\ Follow(u, Q, b, v, k)
  BY DEF Carries
<1>2. /\ KeyOK(u, R, T, P, Q, a) /\ KeyOK(u, R, T, P, Q, b) /\ ApartOK(u, Q, a, b) /\ ApartOK(u, Q, b, a)
      /\ KeyOK(v, R1, T1, P1, Q1, j) /\ KeyOK(v, R1, T1, P1, Q1, k)
  BY <1>1 DEF PageOK, KeysOK
<1>3. a # j /\ j \in Ids => \A q \in Ids : WorksOn(u, a, q) => Has(u, a) /\ u.entry[a].run = q
  BY DEF Carries
<1>4. a = j \/ j \in Ids \/ j \in Provisional
  BY DEF Keys
<1>5. Q1[j] = Q1[k] => Q1[j] = 0
  BY DEF Carries
<1> HIDE DEF a, b
<1>6. ASSUME NEW x \in {a, b}
      PROVE  /\ Q[x] # 0 => Q[x] \in Ids /\ R[Q[x]].state = "none"
             /\ Has(u, x) /\ u.entry[x].run # 0 => R[u.entry[x].run].state # "none"
             /\ \A q \in Ids : WorksOn(u, x, q) => R[q].state # "none"
  BY <1>2, KeyReal
<1>7. Q[a] = Q[b] => Q[a] = 0
  BY <1>2 DEF ApartOK
<1>8. Has(v, j) /\ Has(v, k) /\ v.entry[j].run = v.entry[k].run => v.entry[j].run = 0
  BY <1>1, <1>2, <1>6, <1>7 DEF Follow, Local, ApartOK, Has
<1>11. ASSUME NEW q \in Ids, WorksOn(v, j, q)
       PROVE  WorksOn(u, a, q) \/ (Lives(u.entry[a]) /\ u.entry[a].run = q) \/ (Q[a] # 0 /\ Q[a] = q)
  BY <1>1, <1>11 DEF Follow, Local, WorksOn
<1>9. ASSUME NEW q \in Ids, WorksOn(v, j, q)
      PROVE  ~WorksOn(v, k, q)
  <2>1. WorksOn(u, a, q) \/ (Lives(u.entry[a]) /\ u.entry[a].run = q) \/ (Q[a] # 0 /\ Q[a] = q)
    BY <1>9, <1>11
  <2>2. WorksOn(v, k, q) =>
          WorksOn(u, b, q) \/ (Lives(u.entry[b]) /\ u.entry[b].run = q) \/ (Q[b] # 0 /\ Q[b] = q)
    BY <1>1 DEF Follow, Local, WorksOn
  <2> QED BY <1>2, <1>6, <1>7, <2>1, <2>2 DEF ApartOK, Lives, Has
<1>10. ASSUME NEW q \in Ids, WorksOn(v, j, q), Has(v, k), v.entry[k].run = q
       PROVE  v.entry[k].shown \in Final /\ j \in Provisional
  <2>1. WorksOn(u, a, q) \/ (Lives(u.entry[a]) /\ u.entry[a].run = q) \/ (Q[a] # 0 /\ Q[a] = q)
    BY <1>10, <1>11
  <2>7. q # 0
    BY DEF Ids
  <2>8. v.entry[k] # None => \/ Q[b] # 0 /\ v.entry[k].run = Q[b]
                            \/ v.entry[k].run = IF u.entry[b] = None THEN 0 ELSE u.entry[b].run
    BY <1>1 DEF Follow, Local
  <2>2. q # 0 /\ ((Q[b] # 0 /\ Q[b] = q) \/ (Has(u, b) /\ u.entry[b].run = q))
    BY <1>10, <2>7, <2>8 DEF Has
  <2>3. WorksOn(u, a, q) /\ Has(u, b) /\ u.entry[b].run = q
    BY <1>2, <1>6, <1>7, <2>1, <2>2 DEF ApartOK, Lives, Has
  <2>4. u.entry[b].shown \in Final /\ a \in Provisional
    BY <1>2, <2>3 DEF ApartOK
  <2>5. ~Lives(v.entry[k])
    BY <1>1, <1>2, <1>6, <1>10, <2>3, <2>4 DEF Follow, Local, ApartOK, Lives, WorksOn
  <2>6. j \in Provisional
    BY <1>2, <1>3, <1>4, <2>2, <2>3, <2>4 DEF ApartOK
  <2> QED BY <1>10, <2>2, <2>5, <2>6 DEF Lives, Has
<1> QED BY <1>5, <1>8, <1>9, <1>10 DEF ApartOK

\* The other keys hold what they held.
Elsewhere(u, v, k) ==
  \A j \in Keys \ {k} :
     /\ v.entry[j] = u.entry[j] /\ v.stream[j] = u.stream[j] /\ v.rec[j] = u.rec[j]
     /\ v.can[j] = u.can[j] /\ v.epoch[j] = u.epoch[j]
     /\ j \in v.torn <=> j \in u.torn

\* No run begins but that of POST p.
Begins(R, R1, p) == \A r \in Ids : R[r].state = "none" /\ r # p => R1[r].state = "none"

\* One key changes.
LEMMA LocalStep ==
  ASSUME NEW u \in PageState, NEW v \in PageState, NEW Q \in [Keys -> Nat], NEW Q1 \in [Keys -> Nat],
         NEW R \in [Ids -> Run], NEW T \in Nat, NEW P \in Nat, PageOK(u, R, T, P, Q),
         NEW R1 \in [Ids -> Run], NEW T1 \in Nat, NEW P1 \in Nat, T <= T1, P <= P1, Grows(R, R1),
         NEW k \in Keys, Elsewhere(u, v, k), v.conflict = u.conflict,
         KeyOK(v, R1, T1, P1, Q1, k), Follow(u, Q, k, v, k), Begins(R, R1, Q[k]),
         \A j \in Keys \ {k} : Q1[j] = Q[j],
         Q1[k] \in {0, Q[k]} \/ \A j \in Keys : Q[j] # Q1[k],
         k = u.conflict.from => Q1[k] = 0,
         Has(v, k) => (k = u.conflict.from => Has(u, k) /\ v.entry[k].run = u.entry[k].run)
  PROVE  PageOK(v, R1, T1, P1, Q1)
<1> DEFINE m == [j \in Keys |-> j]
<1>1. m \in [Keys -> Keys] /\ (\A j, l \in Keys : j # l => m[j] # m[l]) /\ \A j \in Keys : m[j] = j
  OBVIOUS
<1>2. \A j \in Keys : KeyOK(u, R, T, P, Q, j)
  BY DEF PageOK
<1>3. \A j, l \in Keys : j # l => (Q[j] = Q[l] => Q[j] = 0)
  BY DEF PageOK, ApartOK
<1>4. ASSUME NEW j \in Keys, j # k
      PROVE  KeyOK(v, R1, T1, P1, Q1, j) /\ Follow(u, Q, j, v, j)
  <2>1. SlotOK(R, T, P, j, u.entry[j], u.stream[j], u.rec[j], u.can[j], u.epoch[j], j \in u.torn, Q[j])
    BY <1>2 DEF KeyOK
  <2>2. Values(u.entry[j], u.stream[j], u.rec[j], u.can[j], u.epoch[j], j \in u.torn, Q[j])
    BY PageTyped
  <2>3. Q[j] # 0 => R1[Q[j]].state = "none"
    BY <1>2, <1>3, <1>4, KeyReal DEF Begins
  <2> DEFINE tn == j \in u.torn
  <2>4. tn \in BOOLEAN
    OBVIOUS
  <2>5. SlotOK(R, T, P, j, u.entry[j], u.stream[j], u.rec[j], u.can[j], u.epoch[j], tn, Q[j])
        /\ Values(u.entry[j], u.stream[j], u.rec[j], u.can[j], u.epoch[j], tn, Q[j])
    BY <2>1, <2>2
  <2> HIDE DEF tn
  <2>6. SlotOK(R1, T1, P1, j, u.entry[j], u.stream[j], u.rec[j], u.can[j], u.epoch[j], tn, Q[j])
    BY <2>3, <2>4, <2>5, SlotKept
  <2>7. /\ v.entry[j] = u.entry[j] /\ v.stream[j] = u.stream[j] /\ v.rec[j] = u.rec[j]
        /\ v.can[j] = u.can[j] /\ v.epoch[j] = u.epoch[j] /\ Q1[j] = Q[j]
        /\ (j \in v.torn) = tn
    BY <1>4 DEF Elsewhere, tn
  <2>8. KeyOK(v, R1, T1, P1, Q1, j)
    BY <2>6, <2>7 DEF KeyOK
  <2>9. Follow(u, Q, j, v, j)
    BY <2>7, LocalSame DEF Follow
  <2> QED BY <2>8, <2>9
<1>5. \A j \in Keys : KeyOK(v, R1, T1, P1, Q1, j) /\ Follow(u, Q, m[j], v, j)
  BY <1>1, <1>4
<1>6. \A j, l \in Keys : j # l /\ Q1[j] = Q1[l] => Q1[j] = 0
  BY <1>3
<1>7. ConflictOK(v, R1, Q1)
  <2> DEFINE f == u.conflict.from
  <2> SUFFICES ASSUME u.conflict # NoConflict PROVE ConflictOK(v, R1, Q1)
    BY DEF ConflictOK
  <2>1. /\ f \in Provisional /\ f \in Keys /\ u.conflict.to \in Ids /\ Q[f] = 0
        /\ Has(u, f) => u.entry[f].run # 0 /\ R[u.entry[f].run].chat = u.conflict.to
    BY DEF PageOK, ConflictOK, Keys
  <2> HIDE DEF f
  <2>2. Q1[f] = 0
    BY <2>1 DEF f
  <2>3. Has(v, f) => Has(u, f) /\ v.entry[f].run = u.entry[f].run
    BY <2>1 DEF f, Elsewhere, Has
  <2>4. Has(u, f) => R1[u.entry[f].run].chat = R[u.entry[f].run].chat
    BY <1>2, <2>1 DEF KeyOK, SlotOK, EntryOK, RunOf, Has, Grows
  <2> QED BY <2>1, <2>2, <2>3, <2>4 DEF ConflictOK, f
<1> HIDE DEF m
<1>8. Carries(u, Q, v, Q1, m)
  BY <1>1, <1>5, <1>6 DEF Carries
<1>9. KeysOK(v, R1, T1, P1, Q1)
  BY <1>5 DEF KeysOK
<1> QED BY <1>7, <1>8, <1>9, PageStep

\* The page changes for keys f and t alone.
Pair(u, v, f, t) == \A j \in Keys \ {f, t} :
  /\ v.entry[j] = u.entry[j] /\ v.stream[j] = u.stream[j] /\ v.rec[j] = u.rec[j]
  /\ v.can[j] = u.can[j] /\ v.epoch[j] = u.epoch[j]
  /\ j \in v.torn <=> j \in u.torn

LEMMA PairKeys ==
  ASSUME NEW u, NEW v, NEW f, NEW t, Pair(u, v, f, t),
         NEW R, NEW T, NEW P, NEW Q, PageOK(u, R, T, P, Q),
         KeyOK(v, R, T, P, Q, f), KeyOK(v, R, T, P, Q, t)
  PROVE  KeysOK(v, R, T, P, Q)
<1> SUFFICES ASSUME NEW j \in Keys \ {f, t} PROVE KeyOK(v, R, T, P, Q, j)
  BY DEF KeysOK
<1>1. KeyOK(u, R, T, P, Q, j)
  BY DEF PageOK
<1>2. /\ v.entry[j] = u.entry[j] /\ v.stream[j] = u.stream[j] /\ v.rec[j] = u.rec[j]
      /\ v.can[j] = u.can[j] /\ v.epoch[j] = u.epoch[j] /\ (j \in v.torn) = (j \in u.torn)
  BY DEF Pair
<1> QED BY <1>1, <1>2 DEF KeyOK

\* What a provisional copy f stands for goes to the key t of its chat; what the
\* chat stood for is given up.
LEMMA SwapStep ==
  ASSUME NEW u, NEW v, NEW f \in Provisional, NEW t \in Ids, Pair(u, v, f, t),
         NEW R, NEW T, NEW P, NEW Q, PageOK(u, R, T, P, Q),
         KeyOK(v, R, T, P, Q, f), KeyOK(v, R, T, P, Q, t),
         v.conflict = NoConflict,
         Follow(u, Q, f, v, t), Follow(u, Q, t, v, f),
         \A q \in Ids : WorksOn(u, f, q) => Has(u, f) /\ u.entry[f].run = q
  PROVE  PageOK(v, R, T, P, Q)
<1> DEFINE m == [j \in Keys |-> IF j = f THEN t ELSE IF j = t THEN f ELSE j]
<1>1. f \in Keys /\ t \in Keys /\ f # t /\ f \notin Ids
  BY ChatStreamAssumption DEF Keys, Ids
<1>2. /\ m \in [Keys -> Keys] /\ m[f] = t /\ m[t] = f
      /\ \A j \in Keys \ {f, t} : m[j] = j
  BY <1>1
<1>3. \A j, k \in Keys : j # k => m[j] # m[k]
  BY <1>1
<1> HIDE DEF m
<1>4. \A j \in Keys \ {f, t} : Follow(u, Q, j, v, j)
  <2> TAKE j \in Keys \ {f, t}
  <2>1. /\ v.entry[j] = u.entry[j] /\ v.stream[j] = u.stream[j] /\ v.rec[j] = u.rec[j]
        /\ v.can[j] = u.can[j]
    BY DEF Pair
  <2> QED BY <2>1, LocalSame DEF Follow
<1>5. \A j \in Keys : Follow(u, Q, m[j], v, j)
  BY <1>2, <1>4
<1>6. \A j \in Keys : m[j] # j /\ j \in Ids => \A q \in Ids :
         WorksOn(u, m[j], q) => Has(u, m[j]) /\ u.entry[m[j]].run = q
  BY <1>1, <1>2
<1>7. \A j, k \in Keys : j # k /\ Q[j] = Q[k] => Q[j] = 0
  BY DEF PageOK, ApartOK
<1>8. Carries(u, Q, v, Q, m)
  BY <1>2, <1>3, <1>5, <1>6, <1>7 DEF Carries
<1>9. ConflictOK(v, R, Q)
  BY DEF ConflictOK
<1> QED BY <1>8, <1>9, PairKeys, PageStep

\* The same two keys change, each within what it stands for.
LEMMA PairStep ==
  ASSUME NEW u, NEW v, NEW f \in Keys, NEW t \in Keys, Pair(u, v, f, t),
         NEW R, NEW T, NEW P, NEW Q, PageOK(u, R, T, P, Q),
         KeyOK(v, R, T, P, Q, f), KeyOK(v, R, T, P, Q, t),
         v.conflict = NoConflict, Follow(u, Q, f, v, f), Follow(u, Q, t, v, t)
  PROVE  PageOK(v, R, T, P, Q)
<1> DEFINE m == [j \in Keys |-> j]
<1>1. m \in [Keys -> Keys] /\ \A j \in Keys : m[j] = j
  OBVIOUS
<1> HIDE DEF m
<1>2. \A j \in Keys \ {f, t} : Follow(u, Q, j, v, j)
  <2> TAKE j \in Keys \ {f, t}
  <2>1. /\ v.entry[j] = u.entry[j] /\ v.stream[j] = u.stream[j] /\ v.rec[j] = u.rec[j]
        /\ v.can[j] = u.can[j]
    BY DEF Pair
  <2> QED BY <2>1, LocalSame DEF Follow
<1>3. \A j \in Keys : Follow(u, Q, m[j], v, j)
  BY <1>1, <1>2
<1>4. \A j, k \in Keys : j # k /\ Q[j] = Q[k] => Q[j] = 0
  BY DEF PageOK, ApartOK
<1>5. Carries(u, Q, v, Q, m)
  BY <1>1, <1>3, <1>4 DEF Carries
<1>6. ConflictOK(v, R, Q)
  BY DEF ConflictOK
<1> QED BY <1>5, <1>6, PairKeys, PageStep

\* The entry of a provisional conversation, and what waits for it, move to the
\* key of its chat, which the table does not hold.
LEMMA MoveStep ==
  ASSUME NEW u \in PageState, NEW v \in PageState, NEW Q \in [Keys -> Nat],
         NEW R \in [Ids -> Run], NEW T \in Nat, NEW P \in Nat, PageOK(u, R, T, P, Q),
         NEW k \in Provisional, NEW h \in Ids, Pair(u, v, k, h), v.torn = u.torn,
         v.conflict = NoConflict, Q[k] = 0,
         Has(u, k), u.entry[k].run # 0, R[u.entry[k].run].chat = h, ~Has(u, h), u.rec[k] = None,
         v.entry[k] = None, v.stream[k] = None, v.rec[k] = None, v.can[k] = None,
         v.entry[h] = u.entry[k], v.stream[h] = u.stream[k], v.rec[h] = None, v.can[h] = u.can[k],
         \/ v.epoch[h] = u.entry[k].epoch
         \/ u.stream[k] = None /\ u.can[k] = None /\ ~Doubtful(u.entry[k])
  PROVE  PageOK(v, R, T, P, Q)
<1>1. k \in Keys /\ h \in Keys /\ k # h /\ k \notin Ids
  BY ChatStreamAssumption DEF Keys, Ids
<1>2. KeyOK(u, R, T, P, Q, k) /\ KeyOK(u, R, T, P, Q, h)
  BY <1>1 DEF PageOK
<1>3. k \notin u.torn /\ h \notin u.torn /\ Q[h] = 0
  BY <1>1, <1>2 DEF KeyOK, SlotOK, FitOK, PostOK, Has
<1> DEFINE tk == k \in u.torn
           th == h \in u.torn
<1>14. tk \in BOOLEAN /\ ~tk /\ ~th /\ 0 \in Nat
  BY <1>3
<1>4. SlotOK(R, T, P, k, u.entry[k], u.stream[k], None, u.can[k], u.epoch[k], tk, 0)
  BY <1>2 DEF KeyOK
<1>15. KeyOK(v, R, T, P, Q, k) =
         SlotOK(R, T, P, k, None, None, None, None, v.epoch[k], tk, 0)
  BY DEF KeyOK
<1>16. KeyOK(v, R, T, P, Q, h) =
         SlotOK(R, T, P, h, u.entry[k], u.stream[k], None, u.can[k], v.epoch[h], th, 0)
  BY <1>3 DEF KeyOK
<1> HIDE DEF tk, th
<1>5. Values(u.entry[k], u.stream[k], None, u.can[k], u.epoch[k], tk, 0)
  BY <1>1, <1>14, KeyTyped DEF Values, Recoveries
<1>6. v.epoch[h] \in Nat
  BY <1>1, KeyTyped
<1>7. SlotOK(R, T, P, h, u.entry[k], u.stream[k], None, u.can[k], v.epoch[h], th, 0)
  BY <1>14, <1>4, <1>5, <1>6, SlotMoves DEF Has
<1>8. KeyOK(v, R, T, P, Q, h)
  BY <1>7, <1>16
<1>9. SlotOK(R, T, P, k, None, None, None, None, v.epoch[k], tk, 0)
  BY <1>14, SlotEmpty
<1>10. KeyOK(v, R, T, P, Q, k)
  BY <1>9, <1>15
<1>11. Follow(u, Q, k, v, h)
  BY LocalSame DEF Follow
<1>12. Follow(u, Q, h, v, k)
  BY LocalEmpty DEF Follow
<1>13. \A q \in Ids : WorksOn(u, k, q) => Has(u, k) /\ u.entry[k].run = q
  BY <1>4, <1>14 DEF SlotOK, FitOK, WorksOn, Works, Match, Has
<1> QED BY <1>8, <1>10, <1>11, <1>12, <1>13, SwapStep

\* The user keeps the copy of the chat.
LEMMA TargetStep ==
  ASSUME NEW u \in PageState, NEW v \in PageState, NEW Q \in [Keys -> Nat],
         NEW R \in [Ids -> Run], NEW T \in Nat, NEW P \in Nat, PageOK(u, R, T, P, Q),
         NEW f \in Provisional, NEW t \in Ids, Pair(u, v, f, t), v.torn = u.torn,
         v.conflict = NoConflict, Q[f] = 0, Has(u, t), ~ActiveWork(u.entry[t]),
         v.entry[f] = None, v.stream[f] = None, v.rec[f] = None, v.can[f] = None,
         v.entry[t] = Unflagged(u.entry[t], u.rec[t], u.can[t]), v.stream[t] = u.stream[t],
         v.rec[t] = None, v.can[t] = None, v.epoch[t] = u.entry[t].epoch
  PROVE  PageOK(v, R, T, P, Q)
<1> DEFINE tf == f \in u.torn
           tt == t \in u.torn
           d == Unflagged(u.entry[t], u.rec[t], u.can[t])
<1>1. f \in Keys /\ t \in Keys
  BY DEF Keys
<1>2. KeyOK(u, R, T, P, Q, f) /\ KeyOK(u, R, T, P, Q, t)
  BY <1>1 DEF PageOK
<1>3. KeyOK(v, R, T, P, Q, f) = SlotOK(R, T, P, f, None, None, None, None, v.epoch[f], tf, 0)
  BY DEF KeyOK
<1>4. KeyOK(v, R, T, P, Q, t)
        = SlotOK(R, T, P, t, d, u.stream[t], None, None, u.entry[t].epoch, tt, Q[t])
  BY DEF KeyOK
<1>5. ~tf
  BY <1>2, ChatStreamAssumption DEF KeyOK, SlotOK, FitOK, Ids
<1>6. SlotOK(R, T, P, t, u.entry[t], u.stream[t], u.rec[t], u.can[t], u.epoch[t], tt, Q[t])
      /\ Values(u.entry[t], u.stream[t], u.rec[t], u.can[t], u.epoch[t], tt, Q[t])
  BY <1>1, <1>2, PageTyped DEF KeyOK
<1> HIDE DEF tf, tt, d
<1>7. /\ SlotOK(R, T, P, t, d, u.stream[t], None, None, u.entry[t].epoch, tt, Q[t])
      /\ Local(u.entry[t], u.stream[t], u.rec[t], u.can[t], Q[t], d, u.stream[t], None, None)
  BY <1>1, <1>6, SlotKeeps DEF d, Has
<1>8. SlotOK(R, T, P, f, None, None, None, None, v.epoch[f], tf, 0)
  BY <1>5, SlotEmpty
<1>9. Follow(u, Q, t, v, t)
  BY <1>7 DEF Follow, d
<1>10. Follow(u, Q, f, v, f)
  BY LocalEmpty DEF Follow
<1> QED BY <1>1, <1>3, <1>4, <1>7, <1>8, <1>9, <1>10, PairStep

\* The user keeps the provisional copy.
LEMMA SourceStep ==
  ASSUME NEW u \in PageState, NEW v \in PageState, NEW Q \in [Keys -> Nat],
         NEW R \in [Ids -> Run], NEW T \in Nat, NEW P \in Nat, PageOK(u, R, T, P, Q),
         NEW f \in Provisional, NEW t \in Ids, Pair(u, v, f, t), v.torn = u.torn,
         v.conflict = NoConflict, Q[f] = 0, Has(u, t), ~ActiveWork(u.entry[t]),
         Has(u, f), ~ActiveWork(u.entry[f]), u.entry[f].run # 0, R[u.entry[f].run].chat = t,
         v.entry[f] = None, v.stream[f] = None, v.rec[f] = None, v.can[f] = None,
         v.entry[t] = Unflagged(u.entry[f], u.rec[t], u.can[t]), v.stream[t] = u.stream[f],
         v.rec[t] = None, v.can[t] = None, v.epoch[t] = u.entry[f].epoch
  PROVE  PageOK(v, R, T, P, Q)
<1> DEFINE tf == f \in u.torn
           tt == t \in u.torn
           d == Unflagged(u.entry[f], u.rec[t], u.can[t])
<1>1. f \in Keys /\ t \in Keys /\ f \notin Ids
  BY ChatStreamAssumption DEF Keys, Ids
<1>2. KeyOK(u, R, T, P, Q, f) /\ KeyOK(u, R, T, P, Q, t)
  BY <1>1 DEF PageOK
<1>3. KeyOK(v, R, T, P, Q, f) = SlotOK(R, T, P, f, None, None, None, None, v.epoch[f], tf, 0)
  BY DEF KeyOK
<1>4. KeyOK(v, R, T, P, Q, t)
        = SlotOK(R, T, P, t, d, u.stream[f], None, None, u.entry[f].epoch, tt, Q[t])
  BY DEF KeyOK
<1>5. ~tf
  BY <1>1, <1>2 DEF KeyOK, SlotOK, FitOK
<1>6. SlotOK(R, T, P, t, u.entry[t], u.stream[t], u.rec[t], u.can[t], u.epoch[t], tt, Q[t])
      /\ Values(u.entry[t], u.stream[t], u.rec[t], u.can[t], u.epoch[t], tt, Q[t])
  BY <1>1, <1>2, PageTyped DEF KeyOK
<1>7. SlotOK(R, T, P, f, u.entry[f], u.stream[f], u.rec[f], u.can[f], u.epoch[f], tf, 0)
      /\ Values(u.entry[f], u.stream[f], u.rec[f], u.can[f], u.epoch[f], tf, 0)
  BY <1>1, <1>2, PageTyped DEF KeyOK
<1> HIDE DEF tf, tt, d
<1>8. /\ SlotOK(R, T, P, t, d, u.stream[f], None, None, u.entry[f].epoch, tt, Q[t])
      /\ Local(u.entry[f], u.stream[f], u.rec[f], u.can[f], 0, d, u.stream[f], None, None)
  BY <1>5, <1>6, <1>7, SlotTakes DEF d, Has
<1>9. SlotOK(R, T, P, f, None, None, None, None, v.epoch[f], tf, 0)
  BY <1>5, SlotEmpty
<1>10. Follow(u, Q, f, v, t)
  BY <1>8 DEF Follow, d
<1>11. Follow(u, Q, t, v, f)
  BY LocalEmpty DEF Follow
<1>12. \A q \in Ids : WorksOn(u, f, q) => Has(u, f) /\ u.entry[f].run = q
  BY <1>5, <1>7 DEF SlotOK, FitOK, WorksOn, Works, Match, Has
<1> QED BY <1>1, <1>3, <1>4, <1>8, <1>9, <1>10, <1>11, <1>12, SwapStep

\* The hook refuses: what is under way stays where it is.
LEMMA TornStep ==
  ASSUME NEW u \in PageState, NEW v \in PageState, NEW Q \in [Keys -> Nat],
         NEW R \in [Ids -> Run], NEW T \in Nat, NEW P \in Nat, PageOK(u, R, T, P, Q),
         NEW f \in Provisional, NEW t \in Ids, v.torn = u.torn \cup {t},
         v.conflict = NoConflict, Q[f] = 0, Has(u, t), ~ActiveWork(u.entry[t]),
         Has(u, f), ~ActiveWork(u.entry[f]), u.entry[f].run # 0, R[u.entry[f].run].chat = t,
         v.entry = Moved(u.entry, f, t), v.stream = u.stream, v.rec = u.rec, v.can = u.can,
         v.epoch = u.epoch
  PROVE  PageOK(v, R, T, P, Q)
<1> DEFINE tf == f \in u.torn
           tt == t \in u.torn
           tv == t \in v.torn
<1>1. f \in Keys /\ t \in Keys /\ f \notin Ids /\ f # t
  BY ChatStreamAssumption DEF Keys, Ids
<1>2. KeyOK(u, R, T, P, Q, f) /\ KeyOK(u, R, T, P, Q, t) /\ ApartOK(u, Q, t, f)
  BY <1>1 DEF PageOK
<1>3. /\ v.entry[f] = None /\ v.entry[t] = u.entry[f]
      /\ \A j \in Keys \ {f, t} : v.entry[j] = u.entry[j]
  BY <1>1 DEF Moved
<1>4. KeyOK(v, R, T, P, Q, f)
        = SlotOK(R, T, P, f, None, u.stream[f], u.rec[f], u.can[f], u.epoch[f], tf, 0)
  <2>1. (f \in v.torn) = tf
    BY <1>1
  <2> HIDE DEF tf
  <2> QED BY <1>3, <2>1 DEF KeyOK
<1>5. KeyOK(v, R, T, P, Q, t)
        = SlotOK(R, T, P, t, u.entry[f], u.stream[t], u.rec[t], u.can[t], u.epoch[t], tv, Q[t])
  BY <1>3 DEF KeyOK
<1>6. ~tf /\ tv
  BY <1>1, <1>2 DEF KeyOK, SlotOK, FitOK
<1>7. SlotOK(R, T, P, t, u.entry[t], u.stream[t], u.rec[t], u.can[t], u.epoch[t], tt, Q[t])
      /\ Values(u.entry[t], u.stream[t], u.rec[t], u.can[t], u.epoch[t], tt, Q[t])
  BY <1>1, <1>2, PageTyped DEF KeyOK
<1>8. SlotOK(R, T, P, f, u.entry[f], u.stream[f], u.rec[f], u.can[f], u.epoch[f], tf, 0)
      /\ Values(u.entry[f], u.stream[f], u.rec[f], u.can[f], u.epoch[f], tf, 0)
  BY <1>1, <1>2, PageTyped DEF KeyOK
<1>9. u.entry[f].run \in Ids
  BY <1>2 DEF KeyOK, SlotOK, EntryOK, RunOf, Has
<1>10. ~Works(u.stream[t], u.rec[t], u.can[t], u.entry[f].run)
  BY <1>1, <1>2, <1>9, ChatStreamAssumption DEF ApartOK, WorksOn, Ids
<1> HIDE DEF tf, tt, tv
<1>18. u.entry[f] # None /\ u.entry[t] # None
  BY DEF Has
<1>11. /\ SlotOK(R, T, P, t, u.entry[f], u.stream[t], u.rec[t], u.can[t], u.epoch[t], tv, Q[t])
       /\ SlotOK(R, T, P, f, None, u.stream[f], u.rec[f], u.can[f], u.epoch[f], tf, 0)
  <2>1. u.entry[f] \in Entry /\ EntryOK(R, T, P, t, u.entry[f]) /\ u.can[f] = None
    BY <1>6, <1>8, <1>18 DEF Values, Entries, SlotOK, EntryOK, FitOK, RunOf, ActiveWork
  <2>2. tv \in BOOLEAN
    BY DEF tv
  <2>3. SlotOK(R, T, P, t, u.entry[f], u.stream[t], u.rec[t], u.can[t], u.epoch[t], tv, Q[t])
    BY <1>6, <1>7, <1>10, <1>18, <2>1, <2>2, SlotTears
  <2>4. SlotOK(R, T, P, f, None, u.stream[f], u.rec[f], u.can[f], u.epoch[f], tf, 0)
    BY <1>6, <1>8, <2>1, SlotLeft
  <2> QED BY <2>3, <2>4
<1>12. KeyOK(v, R, T, P, Q, f) /\ KeyOK(v, R, T, P, Q, t)
  BY <1>4, <1>5, <1>11
<1>13. Pair(u, v, f, t)
  BY <1>3 DEF Pair
<1>14. KeysOK(v, R, T, P, Q)
  BY <1>12, <1>13, PairKeys
<1>15. ASSUME NEW q \in Ids, WorksOn(u, f, q)
       PROVE  u.entry[f].shown \in Final
  <2>1. u.stream[f] # None => Match(u.entry[f], u.stream[f]) /\ ~Doubtful(u.entry[f])
    BY <1>6, <1>8, <1>18 DEF SlotOK, FitOK
  <2>2. u.rec[f] = None /\ u.can[f] = None
    BY <1>6, <1>8, <1>18 DEF SlotOK, FitOK, ActiveWork
  <2>3. u.entry[f].shown \in States
    BY <1>8, <1>18 DEF SlotOK, EntryOK, Values, Entries, Entry
  <2> QED BY <1>15, <2>1, <2>2, <2>3 DEF WorksOn, Works, ActiveWork, RunActive, Doubtful, States
<1>16. ASSUME NEW j \in Keys, NEW k \in Keys, j # k PROVE ApartOK(v, Q, j, k)
  <2>1. ApartOK(u, Q, j, k) /\ (j # f => ApartOK(u, Q, j, f)) /\ (k # f => ApartOK(u, Q, f, k))
    BY <1>1, <1>16 DEF PageOK
  <2>2. \A q \in Ids : WorksOn(v, j, q) = WorksOn(u, j, q) /\ WorksOn(v, k, q) = WorksOn(u, k, q)
    BY DEF WorksOn
  <2>3. Has(v, j) => j # f /\ v.entry[j] = u.entry[IF j = t THEN f ELSE j]
    BY <1>3 DEF Has
  <2>4. Has(v, k) => k # f /\ v.entry[k] = u.entry[IF k = t THEN f ELSE k]
    BY <1>3 DEF Has
  <2>5. Has(v, j) /\ Has(v, k) /\ v.entry[j].run = v.entry[k].run => v.entry[j].run = 0
    BY <1>16, <2>1, <2>3, <2>4 DEF ApartOK, Has
  <2>6. ASSUME NEW q \in Ids, WorksOn(u, j, q), Has(v, k), v.entry[k].run = q
        PROVE  v.entry[k].shown \in Final /\ j \in Provisional
    <3>1. CASE k # t
      BY <2>1, <2>4, <2>6, <3>1 DEF ApartOK, Has
    <3>2. CASE k = t /\ j = f
      BY <1>3, <1>15, <2>6, <3>2
    <3>3. CASE k = t /\ j # f
      BY <1>3, <2>1, <2>6, <3>3, <1>18 DEF ApartOK, Has
    <3> QED BY <3>1, <3>2, <3>3
  <2> QED BY <2>1, <2>2, <2>5, <2>6 DEF ApartOK
<1>17. ConflictOK(v, R, Q)
  BY DEF ConflictOK
<1> QED BY <1>14, <1>16, <1>17 DEF PageOK, KeysOK

\* A page as it should be.
Good(u, R, T, P, Q) ==
  /\ u \in PageState /\ Q \in [Keys -> Nat]
  /\ R \in [Ids -> Run] /\ T \in Nat /\ P \in Nat
  /\ PageOK(u, R, T, P, Q)

\* What a page holds for one key, as the lemmas about one key say it.
LEMMA KeyHolds ==
  ASSUME NEW u, NEW Q, NEW R, NEW T, NEW P, Good(u, R, T, P, Q), NEW k \in Keys
  PROVE  \E tn \in BOOLEAN :
           /\ tn <=> k \in u.torn
           /\ Values(u.entry[k], u.stream[k], u.rec[k], u.can[k], u.epoch[k], tn, Q[k])
           /\ SlotOK(R, T, P, k, u.entry[k], u.stream[k], u.rec[k], u.can[k], u.epoch[k], tn, Q[k])
<1> DEFINE tn == k \in u.torn
<1>1. tn \in BOOLEAN /\ (tn <=> k \in u.torn)
  OBVIOUS
<1>2. Values(u.entry[k], u.stream[k], u.rec[k], u.can[k], u.epoch[k], tn, Q[k])
  BY PageTyped DEF Good
<1>3. SlotOK(R, T, P, k, u.entry[k], u.stream[k], u.rec[k], u.can[k], u.epoch[k], tn, Q[k])
  BY DEF Good, PageOK, KeyOK
<1> HIDE DEF tn
<1> QED BY <1>1, <1>2, <1>3

\* A callback of the page: one key changes, no run and no POST does.
LEMMA CallStep ==
  ASSUME NEW u, NEW Q, NEW R, NEW T, NEW P, Good(u, R, T, P, Q),
         NEW k \in Keys, NEW v, NEW e, NEW s, NEW r, NEW c, NEW ep, Put(u, v, k, e, s, r, c, ep),
         NEW tn \in BOOLEAN, tn <=> k \in u.torn,
         SlotOK(R, T, P, k, e, s, r, c, ep, tn, Q[k]),
         Local(u.entry[k], u.stream[k], u.rec[k], u.can[k], Q[k], e, s, r, c),
         u.entry[k] = None => e = None
  PROVE  Good(v, R, T, P, Q)
<1>0. /\ u \in PageState /\ Q \in [Keys -> Nat] /\ R \in [Ids -> Run] /\ T \in Nat /\ P \in Nat
      /\ PageOK(u, R, T, P, Q)
  BY DEF Good
<1>1. /\ v \in PageState
      /\ v.entry[k] = e /\ v.stream[k] = s /\ v.rec[k] = r /\ v.can[k] = c /\ v.epoch[k] = ep
      /\ \A j \in Keys \ {k} :
               /\ v.entry[j] = u.entry[j] /\ v.stream[j] = u.stream[j] /\ v.rec[j] = u.rec[j]
               /\ v.can[j] = u.can[j] /\ v.epoch[j] = u.epoch[j]
  BY <1>0, PutGives
<1>2. v.conflict = u.conflict /\ v.torn = u.torn
  BY DEF Put
<1>3. Elsewhere(u, v, k)
  BY <1>1, <1>2 DEF Elsewhere
<1>4. (k \in v.torn) = tn
  BY <1>2
<1>5. KeyOK(v, R, T, P, Q, k)
  BY <1>1, <1>4 DEF KeyOK
<1>6. Follow(u, Q, k, v, k)
  BY <1>1 DEF Follow
<1>7. Grows(R, R) /\ Begins(R, R, Q[k])
  BY DEF Grows, Begins
<1>8. k = u.conflict.from => Q[k] = 0
  <2> SUFFICES ASSUME k = u.conflict.from PROVE Q[k] = 0
    OBVIOUS
  <2>1. u.conflict # NoConflict
    BY ChatStreamAssumption DEF NoConflict, Keys, Ids
  <2> QED BY <1>0, <2>1 DEF PageOK, ConflictOK
<1>9. Has(v, k) => (k = u.conflict.from => Has(u, k) /\ v.entry[k].run = u.entry[k].run)
  BY <1>1, <1>8 DEF Has, Local
<1>10. T <= T /\ P <= P
  BY <1>0
<1>11. PageOK(v, R, T, P, Q)
  BY <1>0, <1>1, <1>2, <1>3, <1>5, <1>6, <1>7, <1>8, <1>9, <1>10, LocalStep
<1> QED BY <1>0, <1>1, <1>11 DEF Good

\* Cancel and Retry.
LEMMA CallCancel ==
  ASSUME NEW u, NEW Q, NEW R, NEW T, NEW P, Good(u, R, T, P, Q), NEW k \in Keys,
         Has(u, k), RunActive(u.entry[k]), u.can[k] = None
  PROVE  Good(StartCancellation(u, k, u.entry[k].run, u.entry[k].epoch), R, T, P, Q)
<1> DEFINE e == u.entry[k]
           q == e.run
           ep == e.epoch
           t == [run |-> q, epoch |-> ep, at |-> "asked"]
           d == FlaggedC(Unflagged(e, u.rec[k], None), t)
           v == StartCancellation(u, k, q, ep)
<1>1. PICK tn \in BOOLEAN :
           /\ tn <=> k \in u.torn
           /\ Values(e, u.stream[k], u.rec[k], u.can[k], u.epoch[k], tn, Q[k])
           /\ SlotOK(R, T, P, k, e, u.stream[k], u.rec[k], u.can[k], u.epoch[k], tn, Q[k])
  BY KeyHolds
<1>2. u \in PageState /\ R \in [Ids -> Run] /\ T \in Nat /\ P \in Nat
  BY DEF Good
<1>3. q \in Ids /\ ep \in Nat /\ e # None
  BY <1>1 DEF SlotOK, EntryOK, RunOf, RunActive, Has, Values, Entries, Entry
<1>4. t \in Cancellation /\ Match(e, t)
  BY <1>3 DEF Cancellation, Match
<1>5. Put(u, v, k, d, u.stream[k], None, t, u.epoch[k])
  BY <1>2, <1>3, PutStartCancellation
<1> HIDE DEF t
<1>6. /\ SlotOK(R, T, P, k, d, u.stream[k], None, t, u.epoch[k], tn, Q[k])
      /\ Local(e, u.stream[k], u.rec[k], u.can[k], Q[k], d, u.stream[k], None, t)
  BY <1>1, <1>2, <1>3, <1>4, SlotCancel
<1> HIDE DEF d, v
<1>7. Good(v, R, T, P, Q)
  BY <1>1, <1>3, <1>5, <1>6, CallStep
<1> QED BY <1>7 DEF v

LEMMA CallRetry ==
  ASSUME NEW u, NEW Q, NEW R, NEW T, NEW P, Good(u, R, T, P, Q), NEW k \in Keys,
         Has(u, k), u.entry[k].shown = "DELIVERY_UNCERTAIN", MayRecover(u, k, u.entry[k].epoch)
  PROVE  Good(StartRecovery(u, k, u.entry[k].run, u.entry[k].epoch), R, T, P, Q)
<1> DEFINE e == u.entry[k]
           q == e.run
           ep == e.epoch
           t == [run |-> q, epoch |-> ep]
           d == Flagged(e, t)
           v == StartRecovery(u, k, q, ep)
<1>1. PICK tn \in BOOLEAN :
           /\ tn <=> k \in u.torn
           /\ Values(e, u.stream[k], u.rec[k], u.can[k], u.epoch[k], tn, Q[k])
           /\ SlotOK(R, T, P, k, e, u.stream[k], u.rec[k], u.can[k], u.epoch[k], tn, Q[k])
  BY KeyHolds
<1>2. u \in PageState /\ R \in [Ids -> Run] /\ T \in Nat /\ P \in Nat
  BY DEF Good
<1>3. e # None /\ u.stream[k] = None /\ u.rec[k] = None /\ u.epoch[k] = ep
  BY DEF Has, MayRecover
<1>4. q \in Ids /\ ep \in Nat
  BY <1>1, <1>3, NoneIsNothing DEF SlotOK, EntryOK, RunOf, Values, Entries, Entry, States
<1>5. t \in Recovery /\ Match(e, t) /\ Doubtful(e)
  BY <1>4 DEF Recovery, Match, Doubtful
<1>6. Put(u, v, k, d, u.stream[k], t, u.can[k], u.epoch[k])
  BY <1>2, <1>4, PutStartRecovery
<1> HIDE DEF t
<1>7. /\ SlotOK(R, T, P, k, d, None, t, u.can[k], u.epoch[k], tn, Q[k])
      /\ Local(e, u.stream[k], u.rec[k], u.can[k], Q[k], d, None, t, u.can[k])
  BY <1>1, <1>2, <1>3, <1>5, SlotRetry
<1> HIDE DEF d, v
<1>8. Good(v, R, T, P, Q)
  BY <1>1, <1>3, <1>6, <1>7, CallStep
<1> QED BY <1>8 DEF v

\* The stream of k is closed, when no active run is left without a watch.
LEMMA CallClose ==
  ASSUME NEW u, NEW Q, NEW R, NEW T, NEW P, Good(u, R, T, P, Q), NEW k \in Keys,
         Has(u, k) => ~RunActive(u.entry[k]) \/ u.rec[k] # None \/ u.can[k] # None
  PROVE  Good(CloseBinding(u, k), R, T, P, Q)
<1> DEFINE e == u.entry[k]
           v == CloseBinding(u, k)
<1>1. PICK tn \in BOOLEAN :
           /\ tn <=> k \in u.torn
           /\ Values(e, u.stream[k], u.rec[k], u.can[k], u.epoch[k], tn, Q[k])
           /\ SlotOK(R, T, P, k, e, u.stream[k], u.rec[k], u.can[k], u.epoch[k], tn, Q[k])
  BY KeyHolds
<1>2. u \in PageState /\ R \in [Ids -> Run] /\ T \in Nat /\ P \in Nat
  BY DEF Good
<1>3. e # None => ~RunActive(e) \/ u.rec[k] # None \/ u.can[k] # None
  BY DEF Has
<1>4. Put(u, v, k, e, None, u.rec[k], u.can[k], u.epoch[k])
  BY <1>2, PutCloseBinding
<1>5. /\ SlotOK(R, T, P, k, e, None, u.rec[k], u.can[k], u.epoch[k], tn, Q[k])
      /\ Local(e, u.stream[k], u.rec[k], u.can[k], Q[k], e, None, u.rec[k], u.can[k])
  BY <1>1, <1>2, <1>3, SlotClose
<1> HIDE DEF v
<1>6. Good(v, R, T, P, Q)
  BY <1>1, <1>4, <1>5, CallStep
<1> QED BY <1>6 DEF v

\* Disconnected: the stream of k ends, whatever the callback does about its run.
LEMMA CallDisconnected ==
  ASSUME NEW u, NEW Q, NEW R, NEW T, NEW P, Good(u, R, T, P, Q), NEW k \in Keys,
         NEW b \in Stream, u.stream[k] = b
  PROVE  LET x == CloseBinding(u, k)
             asked == u.can[k] # None /\ u.can[k].run = b.run /\ u.can[k].epoch = b.epoch
         IN /\ asked \/ ~MayRecover(x, k, b.epoch) => Good(x, R, T, P, Q)
            /\ ~asked /\ MayRecover(x, k, b.epoch) =>
                 /\ Good(StartRecovery(x, k, b.run, b.epoch), R, T, P, Q)
                 /\ Good(Exhausted(x, k, b.run, b.epoch), R, T, P, Q)
<1> DEFINE e == u.entry[k]
           s == u.stream[k]
           r == u.rec[k]
           c == u.can[k]
           x == CloseBinding(u, k)
           asked == c # None /\ c.run = s.run /\ c.epoch = s.epoch
<1>1. PICK tn \in BOOLEAN :
           /\ tn <=> k \in u.torn
           /\ Values(e, s, r, c, u.epoch[k], tn, Q[k])
           /\ SlotOK(R, T, P, k, e, s, r, c, u.epoch[k], tn, Q[k])
  BY KeyHolds
<1>2. u \in PageState /\ R \in [Ids -> Run] /\ T \in Nat /\ P \in Nat
  BY DEF Good
<1>3. s # None /\ s = b /\ s.run \in Ids /\ s.epoch \in Nat /\ r = None
  BY <1>1, NoneIsNothing DEF Stream, SlotOK, HookOK
<1>4. Put(u, x, k, e, None, r, c, u.epoch[k])
  BY <1>2, PutCloseBinding
<1> HIDE DEF x
<1>5. /\ x \in PageState /\ x.entry[k] = e /\ x.stream[k] = None /\ x.rec[k] = r /\ x.can[k] = c
      /\ x.epoch[k] = u.epoch[k]
  BY <1>2, <1>4, PutGives
<1>6. MayRecover(x, k, s.epoch) <=> u.epoch[k] = s.epoch
  BY <1>3, <1>5 DEF MayRecover
<1>7. ASSUME asked \/ u.epoch[k] # s.epoch PROVE Good(x, R, T, P, Q)
  <2>1. e # None => ~RunActive(e) \/ r # None \/ c # None
    BY <1>1, <1>3, <1>7 DEF SlotOK, FitOK, Match
  <2>2. /\ SlotOK(R, T, P, k, e, None, r, c, u.epoch[k], tn, Q[k])
        /\ Local(e, s, r, c, Q[k], e, None, r, c)
    BY <1>1, <1>2, <2>1, SlotClose
  <2> QED BY <1>1, <1>4, <2>2, CallStep
<1>8. ASSUME ~asked, u.epoch[k] = s.epoch PROVE Good(StartRecovery(x, k, s.run, s.epoch), R, T, P, Q)
  <2> DEFINE t == [run |-> s.run, epoch |-> s.epoch]
             d == Flagged(e, t)
             v == StartRecovery(x, k, s.run, s.epoch)
  <2>1. t \in Recovery /\ t.run = s.run /\ t.epoch = s.epoch
    BY <1>3 DEF Recovery
  <2>2. Put(x, v, k, Flagged(x.entry[k], t), x.stream[k], t, x.can[k], x.epoch[k])
    BY <1>3, <1>5, PutStartRecovery
  <2> HIDE DEF t, v
  <2>3. Put(u, v, k, d, None, t, c, u.epoch[k])
    BY <1>2, <1>4, <1>5, <2>2, PutTwice
  <2>4. /\ SlotOK(R, T, P, k, d, None, t, c, u.epoch[k], tn, Q[k])
        /\ Local(e, s, r, c, Q[k], d, None, t, c)
    BY <1>1, <1>2, <1>3, <1>8, <2>1, SlotRecover
  <2>5. e = None => d = None
    BY DEF Flagged
  <2> HIDE DEF d
  <2>6. Good(v, R, T, P, Q)
    BY <1>1, <2>3, <2>4, <2>5, CallStep
  <2> QED BY <2>6 DEF v
<1>9. ASSUME ~asked PROVE Good(Exhausted(x, k, s.run, s.epoch), R, T, P, Q)
  <2> DEFINE d == Doubted(e, s.run, s.epoch)
             v == Exhausted(x, k, s.run, s.epoch)
  <2>1. Put(x, v, k, Doubted(x.entry[k], s.run, s.epoch), x.stream[k], x.rec[k], x.can[k], x.epoch[k])
    BY <1>5, PutExhausted
  <2> HIDE DEF v
  <2>2. Put(u, v, k, d, None, r, c, u.epoch[k])
    BY <1>2, <1>4, <1>5, <2>1, PutTwice
  <2>3. /\ SlotOK(R, T, P, k, d, None, r, c, u.epoch[k], tn, Q[k])
        /\ Local(e, s, r, c, Q[k], d, None, r, c)
    BY <1>1, <1>2, <1>3, <1>9, SlotDoubt
  <2>4. e = None => d = None
    BY DEF Doubted
  <2> HIDE DEF d
  <2>5. Good(v, R, T, P, Q)
    BY <1>1, <2>2, <2>3, <2>4, CallStep
  <2> QED BY <2>5 DEF v
<1> QED BY <1>3, <1>6, <1>7, <1>8, <1>9 DEF x

\* GivesUp.
LEMMA CallGivesUp ==
  ASSUME NEW u, NEW Q, NEW R, NEW T, NEW P, Good(u, R, T, P, Q), NEW k \in Keys,
         u.rec[k] # None, u.epoch[k] = u.rec[k].epoch
  PROVE  Good(Exhausted(FinishRecovery(u, k), k, u.rec[k].run, u.rec[k].epoch), R, T, P, Q)
<1> DEFINE e == u.entry[k]
           s == u.stream[k]
           r == u.rec[k]
           c == u.can[k]
           x == FinishRecovery(u, k)
           y == Unflagged(e, r, None)
           d == Doubted(y, r.run, r.epoch)
           v == Exhausted(x, k, r.run, r.epoch)
<1>1. PICK tn \in BOOLEAN :
           /\ tn <=> k \in u.torn
           /\ Values(e, s, r, c, u.epoch[k], tn, Q[k])
           /\ SlotOK(R, T, P, k, e, s, r, c, u.epoch[k], tn, Q[k])
  BY KeyHolds
<1>2. u \in PageState /\ R \in [Ids -> Run] /\ T \in Nat /\ P \in Nat
  BY DEF Good
<1>3. Put(u, x, k, y, s, None, c, u.epoch[k])
  BY <1>2, PutFinishRecovery
<1> HIDE DEF x
<1>4. /\ x \in PageState /\ x.entry[k] = y /\ x.stream[k] = s /\ x.rec[k] = None /\ x.can[k] = c
      /\ x.epoch[k] = u.epoch[k]
  BY <1>2, <1>3, PutGives
<1>5. Put(x, v, k, Doubted(x.entry[k], r.run, r.epoch), x.stream[k], x.rec[k], x.can[k], x.epoch[k])
  BY <1>4, PutExhausted
<1> HIDE DEF v
<1>6. Put(u, v, k, d, s, None, c, u.epoch[k])
  BY <1>2, <1>3, <1>4, <1>5, PutTwice
<1>7. /\ SlotOK(R, T, P, k, d, s, None, c, u.epoch[k], tn, Q[k])
      /\ Local(e, s, r, c, Q[k], d, s, None, c)
  BY <1>1, <1>2, SlotGiveUp
<1>8. e = None => d = None
  BY DEF Doubted, Unflagged
<1> HIDE DEF d, y
<1>9. Good(v, R, T, P, Q)
  BY <1>1, <1>6, <1>7, <1>8, CallStep
<1> QED BY <1>9 DEF v, x

\* The cancellation of k fails, after which nothing waits for its answer.
LEMMA CallCancelFails ==
  ASSUME NEW u, NEW Q, NEW R, NEW T, NEW P, Good(u, R, T, P, Q), NEW k \in Keys,
         NEW t \in Cancellation, u.can[k] = t
  PROVE  LET x == FinishCancellation(u, k)
             b == u.stream[k]
             told == b # None /\ b.run = t.run /\ b.epoch = t.epoch
         IN /\ told => Good(x, R, T, P, Q)
            /\ ~told /\ MayRecover(x, k, t.epoch) => Good(StartRecovery(x, k, t.run, t.epoch), R, T, P, Q)
            /\ ~told => Good(Exhausted(x, k, t.run, t.epoch), R, T, P, Q)
<1> DEFINE e == u.entry[k]
           s == u.stream[k]
           r == u.rec[k]
           c == u.can[k]
           x == FinishCancellation(u, k)
           y == Unflagged(e, None, c)
           told == s # None /\ s.run = c.run /\ s.epoch = c.epoch
<1>1. PICK tn \in BOOLEAN :
           /\ tn <=> k \in u.torn
           /\ Values(e, s, r, c, u.epoch[k], tn, Q[k])
           /\ SlotOK(R, T, P, k, e, s, r, c, u.epoch[k], tn, Q[k])
  BY KeyHolds
<1>2. u \in PageState /\ R \in [Ids -> Run] /\ T \in Nat /\ P \in Nat
  BY DEF Good
<1>3. c # None /\ c = t /\ c.run \in Ids /\ c.epoch \in Nat
  BY NoneIsNothing DEF Cancellation
<1>4. Put(u, x, k, y, s, r, None, u.epoch[k])
  BY <1>2, PutFinishCancellation
<1> HIDE DEF x
<1>5. /\ x \in PageState /\ x.entry[k] = y /\ x.stream[k] = s /\ x.rec[k] = r /\ x.can[k] = None
      /\ x.epoch[k] = u.epoch[k]
  BY <1>2, <1>4, PutGives
<1>6. e # None /\ (s # None => told)
  <2>1. e # None /\ Match(e, c) /\ (s # None => Match(e, s))
    BY <1>1, <1>2, <1>3, SlotUncancel
  <2> QED BY <2>1 DEF Match
<1>7. ASSUME told PROVE Good(x, R, T, P, Q)
  <2>1. /\ SlotOK(R, T, P, k, y, s, r, None, u.epoch[k], tn, Q[k])
        /\ Local(e, s, r, c, Q[k], y, s, r, None)
    BY <1>1, <1>2, <1>3, <1>7, SlotCancelFails
  <2> HIDE DEF y
  <2> QED BY <1>1, <1>4, <1>6, <2>1, CallStep
<1>8. ASSUME ~told, MayRecover(x, k, c.epoch) PROVE Good(StartRecovery(x, k, c.run, c.epoch), R, T, P, Q)
  <2> DEFINE q == [run |-> c.run, epoch |-> c.epoch]
             d == Flagged(y, q)
             v == StartRecovery(x, k, c.run, c.epoch)
  <2>1. q \in Recovery /\ q.run = c.run /\ q.epoch = c.epoch
    BY <1>3 DEF Recovery
  <2>2. Put(x, v, k, Flagged(x.entry[k], q), x.stream[k], q, x.can[k], x.epoch[k])
    BY <1>3, <1>5, PutStartRecovery
  <2> HIDE DEF q, v
  <2>3. Put(u, v, k, d, s, q, None, u.epoch[k])
    BY <1>2, <1>4, <1>5, <2>2, PutTwice
  <2>4. s = None /\ u.epoch[k] = c.epoch
    BY <1>5, <1>6, <1>8 DEF MayRecover
  <2>5. /\ SlotOK(R, T, P, k, d, s, q, None, u.epoch[k], tn, Q[k])
        /\ Local(e, s, r, c, Q[k], d, s, q, None)
    BY <1>1, <1>2, <1>3, <2>1, <2>4, SlotCancelFails
  <2> HIDE DEF d
  <2>6. Good(v, R, T, P, Q)
    BY <1>1, <1>6, <2>3, <2>5, CallStep
  <2> QED BY <2>6 DEF v
<1>9. ASSUME ~told PROVE Good(Exhausted(x, k, c.run, c.epoch), R, T, P, Q)
  <2> DEFINE d == Doubted(y, c.run, c.epoch)
             v == Exhausted(x, k, c.run, c.epoch)
  <2>1. Put(x, v, k, Doubted(x.entry[k], c.run, c.epoch), x.stream[k], x.rec[k], x.can[k], x.epoch[k])
    BY <1>5, PutExhausted
  <2> HIDE DEF v
  <2>2. Put(u, v, k, d, s, r, None, u.epoch[k])
    BY <1>2, <1>4, <1>5, <2>1, PutTwice
  <2>3. /\ SlotOK(R, T, P, k, d, s, r, None, u.epoch[k], tn, Q[k])
        /\ Local(e, s, r, c, Q[k], d, s, r, None)
    BY <1>1, <1>2, <1>3, <1>6, <1>9, SlotCancelFails
  <2> HIDE DEF d
  <2>4. Good(v, R, T, P, Q)
    BY <1>1, <1>6, <2>2, <2>3, CallStep
  <2> QED BY <2>4 DEF v
<1> QED BY <1>3, <1>7, <1>8, <1>9 DEF x

\* CancelRead of a run that has not ended.
LEMMA CallStopping ==
  ASSUME NEW u, NEW Q, NEW R, NEW T, NEW P, Good(u, R, T, P, Q), NEW k \in Keys,
         u.can[k] # None
  PROVE  Good([u EXCEPT !.can = [@ EXCEPT ![k] = [u.can[k] EXCEPT !.at = "stopping"]]], R, T, P, Q)
<1> DEFINE c == u.can[k]
           t == [c EXCEPT !.at = "stopping"]
           v == [u EXCEPT !.can = [@ EXCEPT ![k] = t]]
<1>1. PICK tn \in BOOLEAN :
           /\ tn <=> k \in u.torn
           /\ Values(u.entry[k], u.stream[k], u.rec[k], c, u.epoch[k], tn, Q[k])
           /\ SlotOK(R, T, P, k, u.entry[k], u.stream[k], u.rec[k], c, u.epoch[k], tn, Q[k])
  BY KeyHolds
<1>2. u \in PageState /\ R \in [Ids -> Run] /\ T \in Nat /\ P \in Nat
  BY DEF Good
<1>3. t \in Cancellation /\ t.run = c.run /\ t.epoch = c.epoch
  BY <1>1 DEF Values, Cancellations, Cancellation
<1>4. [u EXCEPT !.can = [@ EXCEPT ![k] = [u.can[k] EXCEPT !.at = "stopping"]]] = v
  OBVIOUS
<1> HIDE DEF t
<1>5. Put(u, v, k, u.entry[k], u.stream[k], u.rec[k], t, u.epoch[k])
  BY <1>2, <1>3 DEF PageState, Put
<1>6. /\ SlotOK(R, T, P, k, u.entry[k], u.stream[k], u.rec[k], t, u.epoch[k], tn, Q[k])
      /\ Local(u.entry[k], u.stream[k], u.rec[k], c, Q[k], u.entry[k], u.stream[k], u.rec[k], t)
  BY <1>1, <1>2, <1>3, SlotStopping
<1> HIDE DEF v
<1>7. Good(v, R, T, P, Q)
  BY <1>1, <1>5, <1>6, CallStep
<1> QED BY <1>4, <1>7

\* Message: an event of the stream of k is reduced.
LEMMA CallEvent ==
  ASSUME NEW u, NEW Q, NEW R, NEW T, NEW P, Good(u, R, T, P, Q), NEW k \in Keys,
         NEW s \in Stream, u.stream[k] = s, NEW b \in Stream, b.run = s.run, b.epoch = s.epoch,
         NEW ev \in Events, Tells(R[s.run], ev)
  PROVE  LET x == [u EXCEPT !.stream = [u.stream EXCEPT ![k] = b]]
             y == StreamEvent(x, k, s.run, s.epoch, ev)
             last == ev \in {"complete", "error", "cancelled"}
         IN /\ Put(u, y, k, Evented(u.entry[k], s.run, s.epoch, ev), b, u.rec[k], u.can[k], u.epoch[k])
            /\ ~(last /\ Has(u, k)) => Good(y, R, T, P, Q)
            /\ last /\ Has(u, k) => Good(CloseBinding(FinishCancellation(y, k), k), R, T, P, Q)
<1> DEFINE e == u.entry[k]
           r == u.rec[k]
           c == u.can[k]
           x == [u EXCEPT !.stream = [u.stream EXCEPT ![k] = b]]
           d == Evented(e, s.run, s.epoch, ev)
           y == StreamEvent(x, k, s.run, s.epoch, ev)
           last == ev \in {"complete", "error", "cancelled"}
<1>1. PICK tn \in BOOLEAN :
           /\ tn <=> k \in u.torn
           /\ Values(e, s, r, c, u.epoch[k], tn, Q[k])
           /\ SlotOK(R, T, P, k, e, s, r, c, u.epoch[k], tn, Q[k])
  BY KeyHolds
<1>2. u \in PageState /\ R \in [Ids -> Run] /\ T \in Nat /\ P \in Nat /\ s # None
  BY NoneIsNothing DEF Good
<1>3. Put(u, x, k, e, b, r, c, u.epoch[k])
  BY <1>2 DEF PageState, Put
<1> HIDE DEF x
<1>4. /\ x \in PageState /\ x.entry[k] = e /\ x.stream[k] = b /\ x.rec[k] = r /\ x.can[k] = c
      /\ x.epoch[k] = u.epoch[k]
  BY <1>2, <1>3, PutGives
<1>5. Put(x, y, k, Evented(x.entry[k], s.run, s.epoch, ev), x.stream[k], x.rec[k], x.can[k], x.epoch[k])
  BY <1>4, PutEvent
<1> HIDE DEF y
<1>6. Put(u, y, k, d, b, r, c, u.epoch[k])
  BY <1>2, <1>3, <1>4, <1>5, PutTwice
<1>7. ASSUME ~(last /\ Has(u, k)) PROVE Good(y, R, T, P, Q)
  <2>1. ev \in {"complete", "error", "cancelled"} => e = None
    BY <1>7 DEF Has
  <2>2. SlotOK(R, T, P, k, d, b, r, c, u.epoch[k], tn, Q[k]) /\ Local(e, s, r, c, Q[k], d, b, r, c)
    BY <1>1, <1>2, <2>1, SlotEvent
  <2>3. e = None => d = None
    BY DEF Evented
  <2> HIDE DEF d
  <2> QED BY <1>1, <1>6, <2>2, <2>3, CallStep
<1>8. ASSUME last, Has(u, k) PROVE Good(CloseBinding(FinishCancellation(y, k), k), R, T, P, Q)
  <2> DEFINE z == FinishCancellation(y, k)
             v == CloseBinding(z, k)
             g == Unflagged(d, None, c)
  <2>0. ev \in {"complete", "error", "cancelled"} /\ e # None
    BY <1>8 DEF Has
  <2>6. SlotOK(R, T, P, k, g, None, r, None, u.epoch[k], tn, Q[k])
        /\ Local(e, s, r, c, Q[k], g, None, r, None)
    BY <1>1, <1>2, <2>0, SlotLast
  <2> HIDE DEF d
  <2>1. /\ y \in PageState /\ y.entry[k] = d /\ y.stream[k] = b /\ y.rec[k] = r /\ y.can[k] = c
        /\ y.epoch[k] = u.epoch[k]
    BY <1>2, <1>6, PutGives
  <2>2. Put(y, z, k, Unflagged(y.entry[k], None, y.can[k]), y.stream[k], y.rec[k], None, y.epoch[k])
    BY <2>1, PutFinishCancellation
  <2> HIDE DEF z
  <2>3. Put(u, z, k, g, b, r, None, u.epoch[k])
    BY <1>2, <1>6, <2>1, <2>2, PutTwice
  <2> HIDE DEF g
  <2>4. /\ z \in PageState /\ z.entry[k] = g /\ z.stream[k] = b /\ z.rec[k] = r /\ z.can[k] = None
        /\ z.epoch[k] = u.epoch[k]
    BY <1>2, <2>3, PutGives
  <2>5. Put(z, v, k, z.entry[k], None, z.rec[k], z.can[k], z.epoch[k])
    BY <2>4, PutCloseBinding
  <2> HIDE DEF v
  <2>7. Put(u, v, k, g, None, r, None, u.epoch[k])
    BY <1>2, <2>3, <2>4, <2>5, PutTwice
  <2>8. Good(v, R, T, P, Q)
    BY <1>1, <2>0, <2>6, <2>7, CallStep
  <2> QED BY <2>8 DEF v, z
<1> QED BY <1>6, <1>7, <1>8 DEF x, y

\* Recovers, when the run has ended: what becomes of its key.
LEMMA CallFound ==
  ASSUME NEW u, NEW Q, NEW R, NEW T, NEW P, Good(u, R, T, P, Q), NEW k \in Keys,
         NEW t \in Recovery, u.rec[k] = t, u.epoch[k] = t.epoch,
         NEW st \in Final, st \in R[t.run].been, NEW dv \in BOOLEAN
  PROVE  LET v == RunSnapshot(FinishRecovery(u, k), k, t.run, t.epoch, st, dv) IN
         /\ Good(v, R, T, P, Q)
         /\ Put(u, v, k, Snapped(Unflagged(u.entry[k], t, None), t.run, t.epoch, st, dv),
                u.stream[k], None, u.can[k], u.epoch[k])
<1> DEFINE e == u.entry[k]
           s == u.stream[k]
           r == u.rec[k]
           c == u.can[k]
           x == FinishRecovery(u, k)
           y == Unflagged(e, r, None)
           d == Snapped(y, r.run, r.epoch, st, dv)
           v == RunSnapshot(x, k, r.run, r.epoch, st, dv)
<1>1. PICK tn \in BOOLEAN :
           /\ tn <=> k \in u.torn
           /\ Values(e, s, r, c, u.epoch[k], tn, Q[k])
           /\ SlotOK(R, T, P, k, e, s, r, c, u.epoch[k], tn, Q[k])
  BY KeyHolds
<1>2. u \in PageState /\ R \in [Ids -> Run] /\ T \in Nat /\ P \in Nat
  BY DEF Good
<1>3. r # None /\ r.run \in Ids /\ r.epoch \in Nat /\ st \in States
  BY NoneIsNothing DEF Recovery, States
<1>4. Put(u, x, k, y, s, None, c, u.epoch[k])
  BY <1>2, PutFinishRecovery
<1> HIDE DEF x
<1>5. /\ x \in PageState /\ x.entry[k] = y /\ x.stream[k] = s /\ x.rec[k] = None /\ x.can[k] = c
      /\ x.epoch[k] = u.epoch[k]
  BY <1>2, <1>4, PutGives
<1>6. Put(x, v, k, Snapped(x.entry[k], r.run, r.epoch, st, dv), x.stream[k], x.rec[k], x.can[k],
          x.epoch[k])
  BY <1>3, <1>5, PutSnapshot
<1> HIDE DEF v
<1>7. Put(u, v, k, d, s, None, c, u.epoch[k])
  BY <1>2, <1>4, <1>5, <1>6, PutTwice
<1>8. SlotOK(R, T, P, k, d, s, None, c, u.epoch[k], tn, Q[k]) /\ Local(e, s, r, c, Q[k], d, s, None, c)
  BY <1>1, <1>2, <1>3, SlotFound
<1>9. e = None => d = None
  BY DEF Snapped, Unflagged
<1> HIDE DEF d, y
<1>10. Good(v, R, T, P, Q)
  BY <1>1, <1>7, <1>8, <1>9, CallStep
<1> QED BY <1>7, <1>10 DEF v, x, d, y

\* Recovers, when the page follows the run again.
LEMMA CallFollowed ==
  ASSUME NEW u, NEW Q, NEW R, NEW T, NEW P, Good(u, R, T, P, Q), NEW k \in Keys,
         NEW t \in Recovery, u.rec[k] = t, u.epoch[k] = t.epoch,
         NEW st \in {"SENDING", "DELIVERED"}, st = "DELIVERED" => R[t.run].delivered,
         NEW dv \in BOOLEAN, NEW w,
         w = RunSnapshot(FinishRecovery(u, k), k, t.run, u.epoch[k] + 1, st, dv),
         Follows(w, k, t.run, u.epoch[k] + 1)
  PROVE  Good(Bind(w, k, t.run, u.epoch[k] + 1, TRUE), R, T, P, Q)
<1> DEFINE e == u.entry[k]
           s == u.stream[k]
           r == u.rec[k]
           c == u.can[k]
           ep == u.epoch[k] + 1
           x == FinishRecovery(u, k)
           y == Unflagged(e, r, None)
           z == Snapped(y, r.run, ep, st, dv)
           d == Unflagged(z, None, None)
           b == [run |-> r.run, epoch |-> ep, sent |-> 0, again |-> TRUE]
           v == Bind(w, k, r.run, ep, TRUE)
<1>1. PICK tn \in BOOLEAN :
           /\ tn <=> k \in u.torn
           /\ Values(e, s, r, c, u.epoch[k], tn, Q[k])
           /\ SlotOK(R, T, P, k, e, s, r, c, u.epoch[k], tn, Q[k])
  BY KeyHolds
<1>2. u \in PageState /\ R \in [Ids -> Run] /\ T \in Nat /\ P \in Nat
  BY DEF Good
<1>3. /\ r # None /\ r.run \in Ids /\ r.epoch \in Nat /\ ep \in Nat /\ TRUE \in BOOLEAN
      /\ st \in States \ Final /\ st \in States /\ st # "DELIVERY_UNCERTAIN" /\ c = None
  BY <1>1, <1>2, NoneIsNothing DEF Recovery, States, Final, Values, SlotOK, HookOK
<1>4. Put(u, x, k, y, s, None, c, u.epoch[k])
  BY <1>2, PutFinishRecovery
<1>5. w = RunSnapshot(x, k, r.run, ep, st, dv)
  OBVIOUS
<1> HIDE DEF x
<1>6. /\ x \in PageState /\ x.entry[k] = y /\ x.stream[k] = s /\ x.rec[k] = None /\ x.can[k] = c
      /\ x.epoch[k] = u.epoch[k]
  BY <1>2, <1>4, PutGives
<1>7. Put(x, w, k, Snapped(x.entry[k], r.run, ep, st, dv), x.stream[k], x.rec[k], x.can[k], x.epoch[k])
  BY <1>3, <1>5, <1>6, PutSnapshot
<1>8. Put(u, w, k, z, s, None, c, u.epoch[k])
  BY <1>2, <1>4, <1>6, <1>7, PutTwice
<1>9. /\ w \in PageState /\ w.entry[k] = z /\ w.stream[k] = s /\ w.rec[k] = None /\ w.can[k] = c
  BY <1>2, <1>8, PutGives
<1>10. Put(w, v, k, Unflagged(w.entry[k], w.rec[k], w.can[k]), b, None, None, ep)
  BY <1>3, <1>9, PutBind
<1> HIDE DEF v
<1>11. Put(u, v, k, d, b, None, None, ep)
  BY <1>2, <1>3, <1>8, <1>9, <1>10, PutTwice
<1>12. b \in Stream /\ b.run = r.run /\ b.epoch = ep
  BY <1>3 DEF Stream
<1>13. z # None /\ z.run = r.run /\ z.epoch = ep
  BY <1>9 DEF Follows, Has
<1> HIDE DEF b
<1>14. SlotOK(R, T, P, k, d, b, None, None, ep, tn, Q[k]) /\ Local(e, s, r, c, Q[k], d, b, None, None)
  BY SMTT(60), <1>1, <1>2, <1>3, <1>12, <1>13, SlotFollowed
<1>15. e = None => d = None
  BY DEF Snapped, Unflagged
<1> HIDE DEF d, z, y
<1>16. Good(v, R, T, P, Q)
  BY <1>1, <1>11, <1>14, <1>15, CallStep
<1> QED BY <1>16 DEF v

\* CancelTold: the run has ended, nothing but a stream is left for its key.
LEMMA CallTold ==
  ASSUME NEW u, NEW Q, NEW R, NEW T, NEW P, Good(u, R, T, P, Q), NEW k \in Keys,
         NEW t \in Cancellation, u.can[k] = t,
         NEW st \in Final, st \in R[t.run].been, NEW dv \in BOOLEAN
  PROVE  LET v == RunSnapshot(Drop(u, {k}), k, t.run, t.epoch, st, dv)
             d == Snapped(Unflagged(u.entry[k], u.rec[k], t), t.run, t.epoch, st, dv)
         IN /\ Good(v, R, T, P, Q)
            /\ Put(u, v, k, d, u.stream[k], None, None, u.epoch[k])
            /\ d # None /\ d.run = t.run /\ d.epoch = t.epoch /\ d.shown \in Final
            /\ u.stream[k] # None => u.stream[k].run = t.run /\ u.stream[k].epoch = t.epoch
<1> DEFINE e == u.entry[k]
           s == u.stream[k]
           r == u.rec[k]
           c == u.can[k]
           x == Drop(u, {k})
           y == Unflagged(e, r, c)
           d == Snapped(y, c.run, c.epoch, st, dv)
           v == RunSnapshot(x, k, c.run, c.epoch, st, dv)
<1>1. PICK tn \in BOOLEAN :
           /\ tn <=> k \in u.torn
           /\ Values(e, s, r, c, u.epoch[k], tn, Q[k])
           /\ SlotOK(R, T, P, k, e, s, r, c, u.epoch[k], tn, Q[k])
  BY KeyHolds
<1>2. u \in PageState /\ R \in [Ids -> Run] /\ T \in Nat /\ P \in Nat
  BY DEF Good
<1>3. c # None /\ c.run \in Ids /\ c.epoch \in Nat /\ st \in States
  BY NoneIsNothing DEF Cancellation, States
<1>4. Put(u, x, k, y, s, None, None, u.epoch[k])
  BY <1>2, PutDrop
<1> HIDE DEF x
<1>5. /\ x \in PageState /\ x.entry[k] = y /\ x.stream[k] = s /\ x.rec[k] = None /\ x.can[k] = None
      /\ x.epoch[k] = u.epoch[k]
  BY <1>2, <1>4, PutGives
<1>6. Put(x, v, k, Snapped(x.entry[k], c.run, c.epoch, st, dv), x.stream[k], x.rec[k], x.can[k],
          x.epoch[k])
  BY <1>3, <1>5, PutSnapshot
<1> HIDE DEF v
<1>7. Put(u, v, k, d, s, None, None, u.epoch[k])
  BY <1>2, <1>4, <1>5, <1>6, PutTwice
<1>8. /\ SlotOK(R, T, P, k, d, s, None, None, u.epoch[k], tn, Q[k])
      /\ Local(e, s, r, c, Q[k], d, s, None, None)
      /\ d # None /\ d.run = c.run /\ d.epoch = c.epoch /\ d.shown \in Final
      /\ s # None => Match(d, s)
      /\ e # None
  BY <1>1, <1>2, <1>3, SlotTold
<1> HIDE DEF d, y
<1>9. Good(v, R, T, P, Q)
  BY <1>1, <1>7, <1>8, CallStep
<1>10. s # None => s.run = c.run /\ s.epoch = c.epoch
  BY <1>8 DEF Match
<1> QED BY <1>7, <1>8, <1>9, <1>10 DEF v, x, d, y

\* No POST is in flight for a provisional key for which the hook has something
\* under way.
LEMMA NoPost ==
  ASSUME NEW u, NEW Q, NEW R, NEW T, NEW P, Good(u, R, T, P, Q), NEW k \in Provisional,
         u.stream[k] # None \/ u.rec[k] # None \/ u.can[k] # None
  PROVE  Q[k] = 0
<1>1. k \in Keys /\ k \notin Ids
  BY ChatStreamAssumption DEF Keys, Ids
<1>2. PICK tn \in BOOLEAN :
           /\ tn <=> k \in u.torn
           /\ Values(u.entry[k], u.stream[k], u.rec[k], u.can[k], u.epoch[k], tn, Q[k])
           /\ SlotOK(R, T, P, k, u.entry[k], u.stream[k], u.rec[k], u.can[k], u.epoch[k], tn, Q[k])
  BY <1>1, KeyHolds
<1> QED BY <1>1, <1>2 DEF SlotOK, FitOK, PostOK

\* Only the conflict changes.
LEMMA CallConflict ==
  ASSUME NEW u, NEW Q, NEW R, NEW T, NEW P, Good(u, R, T, P, Q),
         NEW v \in PageState, v.entry = u.entry, v.stream = u.stream, v.rec = u.rec, v.can = u.can,
         v.epoch = u.epoch, v.torn = u.torn, ConflictOK(v, R, Q)
  PROVE  Good(v, R, T, P, Q)
<1>1. \A k \in Keys : KeyOK(v, R, T, P, Q, k) = KeyOK(u, R, T, P, Q, k)
  BY DEF KeyOK
<1>2. \A j, k \in Keys : ApartOK(v, Q, j, k) = ApartOK(u, Q, j, k)
  BY DEF ApartOK, WorksOn, Has
<1> QED BY <1>1, <1>2 DEF Good, PageOK

\* RekeyCanonical of a conversation that stays under its key: it has that of its
\* chat, or the chat has an entry of its own.
LEMMA CallStays ==
  ASSUME NEW u, NEW Q, NEW R, NEW T, NEW P, Good(u, R, T, P, Q), NEW k \in Keys, NEW c \in Ids,
         Has(u, k), u.entry[k].run # 0, R[u.entry[k].run].chat = c,
         k = c \/ Has(u, c), k \in Provisional => Q[k] = 0
  PROVE  Good(RekeyCanonical(u, k, c), R, T, P, Q)
<1>1. u \in PageState /\ c \in Keys
  BY DEF Good, Keys
<1>2. CASE k = c
  <2> DEFINE v == RekeyCanonical(u, k, c)
  <2>1. Moved(u.entry, k, k) = u.entry
    BY <1>1 DEF PageState, Moved
  <2>2. v = [u EXCEPT !.conflict = NoConflict, !.entry = Moved(@, k, k)]
    BY <1>2 DEF RekeyCanonical
  <2>3. v = [u EXCEPT !.conflict = NoConflict, !.entry = u.entry]
    BY <2>1, <2>2
  <2> HIDE DEF v
  <2>4. /\ v \in PageState /\ v.entry = u.entry /\ v.stream = u.stream /\ v.rec = u.rec /\ v.can = u.can
        /\ v.epoch = u.epoch /\ v.torn = u.torn /\ v.conflict = NoConflict
    BY <1>1, <2>3 DEF PageState
  <2>5. ConflictOK(v, R, Q)
    BY <2>4 DEF ConflictOK
  <2>6. Good(v, R, T, P, Q)
    BY <2>4, <2>5, CallConflict
  <2> QED BY <2>6 DEF v
<1>3. CASE k # c
  <2> DEFINE v == RekeyCanonical(u, k, c)
             w == [from |-> k, to |-> c]
  <2>1. v = [u EXCEPT !.conflict = w]
    BY <1>3 DEF RekeyCanonical
  <2>2. w \in [from : Keys, to : Ids] /\ w.from = k /\ w.to = c
    BY <1>1
  <2> HIDE DEF v, w
  <2>3. /\ v \in PageState /\ v.entry = u.entry /\ v.stream = u.stream /\ v.rec = u.rec /\ v.can = u.can
        /\ v.epoch = u.epoch /\ v.torn = u.torn /\ v.conflict = w
    BY <1>1, <2>1, <2>2 DEF PageState
  <2>4. k \in Ids => R[u.entry[k].run].chat = k
    BY DEF Good, PageOK, KeyOK, SlotOK, EntryOK, RunOf, Has
  <2>5. k \in Provisional
    BY <1>3, <2>4 DEF Keys
  <2>6. ConflictOK(v, R, Q)
    BY <2>2, <2>3, <2>5 DEF ConflictOK, Has
  <2>7. Good(v, R, T, P, Q)
    BY <2>3, <2>6, CallConflict
  <2> QED BY <2>7 DEF v
<1> QED BY <1>2, <1>3

\* RekeyCanonical of a conversation for which nothing is under way.
LEMMA CallRekey ==
  ASSUME NEW u, NEW Q, NEW R, NEW T, NEW P, Good(u, R, T, P, Q), NEW k \in Keys, NEW c \in Ids,
         Has(u, k), u.entry[k].run # 0, R[u.entry[k].run].chat = c,
         k \in Provisional => Q[k] = 0,
         u.stream[k] = None, u.rec[k] = None, u.can[k] = None, ~Doubtful(u.entry[k])
  PROVE  Good(RekeyCanonical(u, k, c), R, T, P, Q)
<1>0. CASE k = c \/ Has(u, c)
  BY <1>0, CallStays
<1>1. CASE ~(k = c \/ Has(u, c))
  <2> DEFINE v == RekeyCanonical(u, k, c)
             f == Moved(u.entry, k, c)
  <2>1. u \in PageState /\ c \in Keys
    BY DEF Good, Keys
  <2>2. v = [u EXCEPT !.conflict = NoConflict, !.entry = f]
    BY <1>1 DEF RekeyCanonical
  <2>3. k \in Provisional
    BY <1>1 DEF Good, PageOK, KeyOK, SlotOK, EntryOK, RunOf, Has, Keys
  <2>4. f \in [Keys -> Entry \cup {None}] /\ f[k] = None /\ f[c] = u.entry[k]
        /\ \A j \in Keys \ {k, c} : f[j] = u.entry[j]
    BY <1>1, <2>1 DEF PageState, Moved
  <2> HIDE DEF v, f
  <2>5. /\ v \in PageState /\ v.entry = f /\ v.stream = u.stream /\ v.rec = u.rec /\ v.can = u.can
        /\ v.epoch = u.epoch /\ v.torn = u.torn /\ v.conflict = NoConflict
    BY <2>1, <2>2, <2>4 DEF PageState
  <2>6. KeyOK(u, R, T, P, Q, c)
    BY <2>1 DEF Good, PageOK
  <2>7. u.stream[c] = None /\ u.rec[c] = None /\ u.can[c] = None
    BY <1>1, <2>6 DEF KeyOK, SlotOK, HookOK, Has
  <2>8. Pair(u, v, k, c)
    BY <2>4, <2>5 DEF Pair
  <2>9. Good(u, R, T, P, Q) /\ PageOK(u, R, T, P, Q) /\ Q \in [Keys -> Nat] /\ R \in [Ids -> Run]
        /\ T \in Nat /\ P \in Nat
    BY DEF Good
  <2>10. PageOK(v, R, T, P, Q)
    BY <1>1, <2>1, <2>3, <2>4, <2>5, <2>7, <2>8, <2>9, MoveStep
  <2>11. Good(v, R, T, P, Q)
    BY <2>5, <2>9, <2>10 DEF Good
  <2> QED BY <2>11 DEF v
<1> QED BY <1>0, <1>1

\* A provisional key with a stream shows the run of that stream.
LEMMA Streaming ==
  ASSUME NEW u, NEW Q, NEW R, NEW T, NEW P, Good(u, R, T, P, Q), NEW k \in Provisional,
         NEW b \in Stream, u.stream[k] = b
  PROVE  /\ b.run \in Ids /\ u.rec[k] = None /\ Q[k] = 0
         /\ Has(u, k) => u.entry[k].run = b.run /\ u.entry[k].epoch = b.epoch /\ u.entry[k].run # 0
<1>1. k \in Keys /\ b # None
  BY NoneIsNothing DEF Keys
<1>2. PICK tn \in BOOLEAN :
           /\ tn <=> k \in u.torn
           /\ Values(u.entry[k], u.stream[k], u.rec[k], u.can[k], u.epoch[k], tn, Q[k])
           /\ SlotOK(R, T, P, k, u.entry[k], u.stream[k], u.rec[k], u.can[k], u.epoch[k], tn, Q[k])
  BY <1>1, KeyHolds
<1>3. ~tn
  BY <1>2, ChatStreamAssumption DEF SlotOK, FitOK, Ids
<1>4. Q[k] = 0
  BY <1>1, NoPost
<1> QED BY <1>1, <1>2, <1>3, <1>4 DEF SlotOK, HookOK, FitOK, RunOf, Match, Has, Stream, Ids

\* What Message makes of page v when the entry of k has moved to chat c.
Carried(v, k, c, ep) ==
  [v EXCEPT !.stream = Moved(@, k, c),
            !.epoch = [[@ EXCEPT ![k] = 0] EXCEPT
                ![c] = IF v.epoch[c] > ep THEN v.epoch[c] ELSE ep],
            !.can = IF v.can[c] = None THEN Moved(@, k, c) ELSE @]

\* Message, when the conversation moves to its chat with its stream.
LEMMA CallMoves ==
  ASSUME NEW u, NEW Q, NEW R, NEW T, NEW P, Good(u, R, T, P, Q), NEW k \in Provisional, NEW c \in Ids,
         Has(u, k), u.entry[k].run # 0, R[u.entry[k].run].chat = c, ~Has(u, c),
         NEW b \in Stream, u.stream[k] = b
  PROVE  LET v == RekeyCanonical(u, k, c) IN
         /\ ~Has(v, k) /\ v.stream[c] = None
         /\ Good(Carried(v, k, c, b.epoch), R, T, P, Q)
<1> DEFINE v == RekeyCanonical(u, k, c)
           f == Moved(u.entry, k, c)
           g == Moved(u.stream, k, c)
           h == Moved(u.can, k, c)
           n == [[u.epoch EXCEPT ![k] = 0] EXCEPT ![c] = b.epoch]
           w == Carried(v, k, c, b.epoch)
<1>1. /\ u \in PageState /\ c \in Keys /\ k \in Keys /\ k # c /\ b.epoch \in Nat
      /\ Q \in [Keys -> Nat] /\ R \in [Ids -> Run] /\ T \in Nat /\ P \in Nat /\ PageOK(u, R, T, P, Q)
  BY ChatStreamAssumption DEF Good, Keys, Ids, Stream
<1>2. KeyOK(u, R, T, P, Q, c)
  BY <1>1 DEF PageOK
<1>3. u.stream[c] = None /\ u.rec[c] = None /\ u.can[c] = None /\ u.epoch[c] = 0
  BY <1>1, <1>2 DEF KeyOK, SlotOK, HookOK, Has
<1>4. u.rec[k] = None /\ Q[k] = 0 /\ u.entry[k].epoch = b.epoch
  BY Streaming
<1>5. v = [u EXCEPT !.conflict = NoConflict, !.entry = f]
  BY <1>1 DEF RekeyCanonical
<1>6. /\ f \in [Keys -> Entry \cup {None}] /\ f[k] = None /\ f[c] = u.entry[k]
      /\ \A j \in Keys \ {k, c} : f[j] = u.entry[j]
  BY <1>1 DEF PageState, Moved
<1>7. /\ g \in [Keys -> Stream \cup {None}] /\ g[k] = None /\ g[c] = u.stream[k]
      /\ \A j \in Keys \ {k, c} : g[j] = u.stream[j]
  BY <1>1 DEF PageState, Moved
<1>8. /\ h \in [Keys -> Cancellation \cup {None}] /\ h[k] = None /\ h[c] = u.can[k]
      /\ \A j \in Keys \ {k, c} : h[j] = u.can[j]
  BY <1>1 DEF PageState, Moved
<1>9. n \in [Keys -> Nat] /\ n[c] = b.epoch /\ \A j \in Keys \ {k, c} : n[j] = u.epoch[j]
  BY <1>1 DEF PageState
<1> HIDE DEF v, f
<1>10. /\ v \in PageState /\ v.entry = f /\ v.stream = u.stream /\ v.rec = u.rec /\ v.can = u.can
       /\ v.epoch = u.epoch /\ v.torn = u.torn /\ v.conflict = NoConflict
  BY <1>1, <1>5, <1>6 DEF PageState
<1>11. ~(v.epoch[c] > b.epoch) /\ v.can[c] = None /\ v.stream[c] = None
  BY <1>1, <1>3, <1>10
<1>12. w = [v EXCEPT !.stream = g, !.epoch = n, !.can = h]
  BY <1>10, <1>11 DEF Carried
<1> HIDE DEF w, g, h, n
<1>13. /\ w \in PageState /\ w.entry = f /\ w.stream = g /\ w.rec = u.rec /\ w.can = h
       /\ w.epoch = n /\ w.torn = u.torn /\ w.conflict = NoConflict
  BY <1>7, <1>8, <1>9, <1>10, <1>12 DEF PageState
<1>14. Pair(u, w, k, c)
  BY <1>6, <1>7, <1>8, <1>9, <1>13 DEF Pair
<1>15. PageOK(w, R, T, P, Q)
  BY SMTT(60), <1>1, <1>3, <1>4, <1>6, <1>7, <1>8, <1>9, <1>13, <1>14, MoveStep
<1>16. Good(w, R, T, P, Q)
  BY <1>1, <1>13, <1>15 DEF Good
<1>17. ~Has(v, k)
  BY <1>6, <1>10 DEF Has
<1> QED BY <1>11, <1>16, <1>17 DEF w, v

\* What Message shows, c being the chat of the run and y the page after the event.
Shows(y, k, c, ep, ev) ==
  LET v == IF ev = "delivery" /\ c # k THEN RekeyCanonical(y, k, c) ELSE y IN
  CASE Has(y, k) /\ ~Has(v, k) /\ v.stream[c] = None -> Carried(v, k, c, ep)
    [] ev \in {"complete", "error", "cancelled"} /\ Has(y, k) ->
         CloseBinding(FinishCancellation(v, k), k)
    [] OTHER -> v

LEMMA ShowsStays ==
  ASSUME NEW y, NEW k, NEW c, NEW ep, NEW ev, ~(ev = "delivery" /\ c # k)
  PROVE  Shows(y, k, c, ep, ev) = IF ev \in {"complete", "error", "cancelled"} /\ Has(y, k)
                                  THEN CloseBinding(FinishCancellation(y, k), k) ELSE y
BY DEF Shows

LEMMA ShowsMoves ==
  ASSUME NEW y, NEW k, NEW c, NEW ep, c # k
  PROVE  LET v == RekeyCanonical(y, k, c) IN
         Shows(y, k, c, ep, "delivery") =
            IF Has(y, k) /\ ~Has(v, k) /\ v.stream[c] = None THEN Carried(v, k, c, ep) ELSE v
<1> DEFINE v == RekeyCanonical(y, k, c)
           w == IF "delivery" = "delivery" /\ c # k THEN RekeyCanonical(y, k, c) ELSE y
<1>1. w = v /\ "delivery" \notin {"complete", "error", "cancelled"}
  OBVIOUS
<1> HIDE DEF v
<1>2. Shows(y, k, c, ep, "delivery") =
        CASE Has(y, k) /\ ~Has(v, k) /\ v.stream[c] = None -> Carried(v, k, c, ep)
          [] "delivery" \in {"complete", "error", "cancelled"} /\ Has(y, k) ->
               CloseBinding(FinishCancellation(v, k), k)
          [] OTHER -> v
  BY <1>1 DEF Shows, v
<1>3. CASE Has(y, k) /\ ~Has(v, k) /\ v.stream[c] = None
  BY <1>1, <1>2, <1>3 DEF v
<1>4. CASE ~(Has(y, k) /\ ~Has(v, k) /\ v.stream[c] = None)
  BY <1>1, <1>2, <1>4 DEF v
<1> QED BY <1>3, <1>4

\* Message.
LEMMA CallMessage ==
  ASSUME NEW u, NEW Q, NEW R, NEW T, NEW P, Good(u, R, T, P, Q), RunsOK(R, P), NEW k \in Keys,
         NEW b \in Stream, u.stream[k] = b, NEW b1 \in Stream, b1.run = b.run, b1.epoch = b.epoch,
         NEW ev \in Events, Tells(R[b.run], ev)
  PROVE  LET y == StreamEvent([u EXCEPT !.stream = [u.stream EXCEPT ![k] = b1]], k, b.run, b.epoch, ev)
         IN Good(Shows(y, k, R[b.run].chat, b.epoch, ev), R, T, P, Q)
<1> DEFINE c == R[b.run].chat
           y == StreamEvent([u EXCEPT !.stream = [u.stream EXCEPT ![k] = b1]], k, b.run, b.epoch, ev)
           last == ev \in {"complete", "error", "cancelled"}
           z == Shows(y, k, c, b.epoch, ev)
<1>1. /\ Put(u, y, k, Evented(u.entry[k], b.run, b.epoch, ev), b1, u.rec[k], u.can[k], u.epoch[k])
      /\ ~(last /\ Has(u, k)) => Good(y, R, T, P, Q)
      /\ last /\ Has(u, k) => Good(CloseBinding(FinishCancellation(y, k), k), R, T, P, Q)
  BY CallEvent
<1> HIDE DEF y
<1>2. u \in PageState /\ R \in [Ids -> Run]
  BY DEF Good
<1>3. y.entry[k] = Evented(u.entry[k], b.run, b.epoch, ev) /\ y.stream[k] = b1
  BY <1>1, <1>2, PutGives
<1>4. Has(y, k) <=> Has(u, k)
  <2>1. CASE u.entry[k] = None
    BY <2>1, <1>3 DEF Has, Evented
  <2>2. CASE u.entry[k] # None
    <3>1. u.entry[k] \in Entry
      BY <1>2, <2>2 DEF PageState
    <3>2. CASE Match(u.entry[k], b)
      <4>1. Evented(u.entry[k], b.run, b.epoch, ev) # None
        BY <3>1, <3>2, EventedGives
      <4> QED BY <1>3, <2>2, <4>1 DEF Has
    <3>3. CASE ~Match(u.entry[k], b)
      BY <1>3, <2>2, <3>3 DEF Has, Evented, Match
    <3> QED BY <3>2, <3>3
  <2> QED BY <2>1, <2>2
<1>5. ASSUME ~(ev = "delivery" /\ c # k) PROVE Good(z, R, T, P, Q)
  <2>1. z = IF last /\ Has(y, k) THEN CloseBinding(FinishCancellation(y, k), k) ELSE y
    BY <1>5, ShowsStays
  <2> HIDE DEF z
  <2> QED BY <1>1, <1>4, <2>1
<1>6. ASSUME ev = "delivery", c # k PROVE Good(z, R, T, P, Q)
  <2>1. ~last /\ Good(y, R, T, P, Q)
    BY <1>1, <1>6
  <2>2. RunOf(R, k, b.run)
    BY NoneIsNothing DEF Good, PageOK, KeyOK, SlotOK, HookOK
  <2>3. k \in Provisional
    BY <1>6, <2>2 DEF RunOf, Keys
  <2>4. c \in Ids
    <3>1. RunOK(R[b.run], P, b.run) /\ R[b.run] \in Run
      BY <1>2, <2>2 DEF RunsOK, RunOf
    <3> QED BY <2>2, <3>1 DEF RunOK, RunOf, Run, Ids
  <2>5. /\ Q[k] = 0
        /\ Has(y, k) => y.entry[k].run = b1.run /\ y.entry[k].run # 0
    <3>1. y.stream[k] = b1
      BY <1>3
    <3> QED BY <2>1, <2>3, <3>1, Streaming
  <2> DEFINE v == RekeyCanonical(y, k, c)
  <2>6. z = IF Has(y, k) /\ ~Has(v, k) /\ v.stream[c] = None THEN Carried(v, k, c, b.epoch) ELSE v
    BY <1>6, ShowsMoves
  <2>7. Has(y, k) => R[y.entry[k].run].chat = c
    BY <2>5
  <2> HIDE DEF z, c
  <2>8. ASSUME ~Has(y, k) PROVE Good(z, R, T, P, Q)
    <3>1. v = y
      BY <2>8 DEF RekeyCanonical
    <3> HIDE DEF v
    <3> QED BY <2>1, <2>6, <2>8, <3>1
  <2>9. ASSUME Has(y, k) /\ Has(y, c) PROVE Good(z, R, T, P, Q)
    <3>1. Good(v, R, T, P, Q)
      BY <2>1, <2>4, <2>5, <2>7, <2>9, CallStays
    <3>2. v = [y EXCEPT !.conflict = [from |-> k, to |-> c]]
      BY <1>6, <2>9 DEF RekeyCanonical
    <3>3. y \in PageState
      BY <1>1 DEF Put
    <3>4. Has(v, k)
      BY <2>9, <3>2, <3>3 DEF Has, PageState
    <3> HIDE DEF v
    <3> QED BY <2>6, <3>1, <3>4
  <2>10. ASSUME Has(y, k) /\ ~Has(y, c) PROVE Good(z, R, T, P, Q)
    <3>1. ~Has(v, k) /\ v.stream[c] = None /\ Good(Carried(v, k, c, b1.epoch), R, T, P, Q)
      BY <1>3, <2>1, <2>3, <2>4, <2>5, <2>7, <2>10, CallMoves
    <3> HIDE DEF v
    <3> QED BY <2>6, <2>10, <3>1
  <2> QED BY <2>8, <2>9, <2>10
<1> HIDE DEF z, c
<1> QED BY <1>5, <1>6 DEF z, c, y

LEMMA UnflaggedNone == ASSUME NEW e \in Entries PROVE Unflagged(e, None, None) = e
<1>1. CASE e = None
  BY <1>1 DEF Unflagged
<1>2. CASE e # None
  <2> DEFINE a == e.recovering /\ ~(None # None /\ e.run = None.run /\ e.epoch = None.epoch)
             b == e.cancelling /\ ~(None # None /\ e.run = None.run /\ e.epoch = None.epoch)
  <2>1. e \in Entry
    BY <1>2 DEF Entries
  <2>2. a = e.recovering /\ b = e.cancelling
    BY <2>1 DEF Entry
  <2>3. Unflagged(e, None, None) = [e EXCEPT !.recovering = a, !.cancelling = b]
    BY <1>2 DEF Unflagged
  <2> HIDE DEF a, b
  <2> QED BY <2>1, <2>2, <2>3 DEF Entry
<1> QED BY <1>1, <1>2

\* Only the runs change, and none begins.
LEMMA CallRuns ==
  ASSUME NEW u, NEW Q, NEW R, NEW T, NEW P, Good(u, R, T, P, Q),
         NEW R1 \in [Ids -> Run], Grows(R, R1), Begins(R, R1, 0)
  PROVE  Good(u, R1, T, P, Q)
<1>0. /\ u \in PageState /\ Q \in [Keys -> Nat] /\ R \in [Ids -> Run] /\ T \in Nat /\ P \in Nat
      /\ PageOK(u, R, T, P, Q)
  BY DEF Good
<1>1. PICK k \in Keys : k = 1
  BY ChatStreamAssumption DEF Keys, Ids
<1> DEFINE tn == k \in u.torn
<1>2. /\ Values(u.entry[k], u.stream[k], u.rec[k], u.can[k], u.epoch[k], tn, Q[k])
      /\ SlotOK(R, T, P, k, u.entry[k], u.stream[k], u.rec[k], u.can[k], u.epoch[k], tn, Q[k])
  BY <1>0, PageTyped DEF PageOK, KeyOK
<1> HIDE DEF tn
<1>3. Q[k] # 0 => R1[Q[k]].state = "none"
  BY <1>0, <1>2 DEF SlotOK, PostOK, Begins
<1>4. T <= T /\ P <= P
  BY <1>0
<1>5. SlotOK(R1, T, P, k, u.entry[k], u.stream[k], u.rec[k], u.can[k], u.epoch[k], tn, Q[k])
  BY <1>0, <1>2, <1>3, <1>4, SlotKept
<1>7. KeyOK(u, R1, T, P, Q, k)
  BY <1>5 DEF KeyOK, tn
<1>8. Follow(u, Q, k, u, k) /\ Elsewhere(u, u, k) /\ Begins(R, R1, Q[k])
  <2>1. Follow(u, Q, k, u, k)
    BY LocalSame DEF Follow
  <2>2. Elsewhere(u, u, k)
    BY DEF Elsewhere
  <2>3. Begins(R, R1, Q[k])
    BY DEF Begins, Ids
  <2> QED BY <2>1, <2>2, <2>3
<1>9. k = u.conflict.from => Q[k] = 0
  <2> SUFFICES ASSUME k = u.conflict.from PROVE Q[k] = 0
    OBVIOUS
  <2>1. u.conflict # NoConflict
    BY ChatStreamAssumption DEF NoConflict, Keys, Ids
  <2> QED BY <1>0, <2>1 DEF PageOK, ConflictOK
<1>10. PageOK(u, R1, T, P, Q)
  BY <1>0, <1>4, <1>7, <1>8, <1>9, LocalStep
<1> QED BY <1>0, <1>10 DEF Good

\* The page after the snapshot of run r that ended the cancellation of key k.
Arrived(u, k, t, r) ==
  LET shows == Has(u, k) /\ u.entry[k].run = t.run
      v == IF r.delivered /\ shows THEN RekeyCanonical(u, k, r.chat) ELSE u
      moved == Has(u, k) /\ ~Has(v, k)
      w == IF moved THEN RekeyHook(v, k, r.chat, "source", t.epoch) ELSE v
      at == IF moved THEN r.chat ELSE k
      b == w.stream[at]
  IN IF /\ Has(w, at) /\ w.entry[at].run = t.run
        /\ b # None /\ b.run = t.run /\ b.epoch = t.epoch
     THEN CloseBinding(w, at) ELSE w

\* The conversation moves to its chat with its stream, no flag is left.
LEMMA CallArrives ==
  ASSUME NEW u, NEW Q, NEW R, NEW T, NEW P, Good(u, R, T, P, Q), NEW k \in Provisional, NEW c \in Ids,
         Has(u, k), u.entry[k].run # 0, R[u.entry[k].run].chat = c, ~Has(u, c), Q[k] = 0,
         u.rec[k] = None, u.can[k] = None
  PROVE  LET v == RekeyCanonical(u, k, c)
             w == RekeyHook(v, k, c, "source", u.entry[k].epoch)
         IN ~Has(v, k) /\ Good(w, R, T, P, Q) /\ w.entry[c] = u.entry[k]
<1> DEFINE v == RekeyCanonical(u, k, c)
           n == u.entry[k].epoch
           w == RekeyHook(v, k, c, "source", n)
           f == Moved(u.entry, k, c)
           g == Moved(u.stream, k, c)
           rr == [j \in Keys |-> IF j \in {k, c} THEN None ELSE u.rec[j]]
           cc == [j \in Keys |-> IF j \in {k, c} THEN None ELSE u.can[j]]
           ee == [j \in Keys |-> IF j \in {k, c} THEN Unflagged(f[j], u.rec[j], u.can[j]) ELSE f[j]]
           nn == [[u.epoch EXCEPT ![k] = 0] EXCEPT ![c] = n]
<1>1. /\ u \in PageState /\ c \in Keys /\ k \in Keys /\ k # c
      /\ Q \in [Keys -> Nat] /\ R \in [Ids -> Run] /\ T \in Nat /\ P \in Nat /\ PageOK(u, R, T, P, Q)
  BY ChatStreamAssumption DEF Good, Keys, Ids
<1>2. KeyOK(u, R, T, P, Q, c)
  BY <1>1 DEF PageOK
<1>3. u.stream[c] = None /\ u.rec[c] = None /\ u.can[c] = None /\ n \in Nat
  BY <1>1, <1>2 DEF KeyOK, SlotOK, HookOK, Has, PageState, Entry
<1>4. v = [u EXCEPT !.conflict = NoConflict, !.entry = f]
  BY <1>1 DEF RekeyCanonical
<1>5. /\ f \in [Keys -> Entry \cup {None}] /\ f[k] = None /\ f[c] = u.entry[k]
      /\ \A j \in Keys \ {k, c} : f[j] = u.entry[j]
  BY <1>1 DEF PageState, Moved
<1>6. /\ g \in [Keys -> Stream \cup {None}] /\ g[k] = None /\ g[c] = u.stream[k]
      /\ \A j \in Keys \ {k, c} : g[j] = u.stream[j]
  BY <1>1 DEF PageState, Moved
<1> HIDE DEF v, f, g
<1>7. /\ v \in PageState /\ v.entry = f /\ v.stream = u.stream /\ v.rec = u.rec /\ v.can = u.can
      /\ v.epoch = u.epoch /\ v.torn = u.torn /\ v.conflict = NoConflict
  BY <1>1, <1>4, <1>5 DEF PageState
<1>8. rr \in [Keys -> Recovery \cup {None}] /\ rr[k] = None /\ rr[c] = None
      /\ \A j \in Keys \ {k, c} : rr[j] = u.rec[j]
  BY <1>1 DEF PageState
<1>9. cc \in [Keys -> Cancellation \cup {None}] /\ cc[k] = None /\ cc[c] = None
      /\ \A j \in Keys \ {k, c} : cc[j] = u.can[j]
  BY <1>1 DEF PageState
<1>10. ee = f
  <2>1. \A j \in {k, c} : Unflagged(f[j], u.rec[j], u.can[j]) = f[j]
    BY <1>1, <1>3, <1>5, UnflaggedNone DEF Entries
  <2>2. ee = [j \in Keys |-> f[j]]
    BY <2>1
  <2> QED BY <1>5, <2>2
<1>11. nn \in [Keys -> Nat] /\ nn[c] = n /\ \A j \in Keys \ {k, c} : nn[j] = u.epoch[j]
  BY <1>1, <1>3 DEF PageState
<1>12. Drop(v, {k, c}) = [v EXCEPT !.rec = rr, !.can = cc, !.entry = ee]
  BY <1>7 DEF Drop
<1>13. w = [Drop(v, {k, c}) EXCEPT !.epoch = [[@ EXCEPT ![k] = 0] EXCEPT ![c] = n],
                                  !.stream = Moved(@, k, c)]
  BY <1>1, <1>3, <1>7 DEF RekeyHook
<1>14. Drop(v, {k, c}).epoch = u.epoch /\ Drop(v, {k, c}).stream = u.stream
  BY <1>7, <1>12 DEF PageState
<1>15. w = [Drop(v, {k, c}) EXCEPT !.epoch = nn, !.stream = g]
  BY <1>13, <1>14 DEF g
<1> HIDE DEF w, rr, cc, ee, nn
<1>16. /\ w \in PageState /\ w.entry = f /\ w.stream = g /\ w.rec = rr /\ w.can = cc
       /\ w.epoch = nn /\ w.torn = u.torn /\ w.conflict = NoConflict
  BY ZenonT(60), <1>5, <1>6, <1>7, <1>8, <1>9, <1>10, <1>11, <1>12, <1>15 DEF PageState
<1>17. Pair(u, w, k, c)
  BY <1>5, <1>6, <1>8, <1>9, <1>11, <1>16 DEF Pair
<1>18. PageOK(w, R, T, P, Q)
  BY <1>1, <1>3, <1>5, <1>6, <1>8, <1>9, <1>11, <1>16, <1>17, MoveStep
<1>19. Good(w, R, T, P, Q)
  BY <1>1, <1>16, <1>18 DEF Good
<1>20. ~Has(v, k) /\ w.entry[c] = u.entry[k]
  BY <1>5, <1>7, <1>16 DEF Has
<1> QED BY <1>19, <1>20 DEF w, v

LEMMA CallArrived ==
  ASSUME NEW u, NEW Q, NEW R, NEW T, NEW P, Good(u, R, T, P, Q), NEW k \in Keys,
         NEW t, t.run \in Ids, Has(u, k), u.entry[k].run = t.run, u.entry[k].epoch = t.epoch,
         u.entry[k].shown \in Final, u.rec[k] = None, u.can[k] = None,
         NEW c \in Ids, (R[t.run].delivered => R[t.run].chat = c), (k \in Ids => k = c),
         k \in Provisional => Q[k] = 0
  PROVE  Good(Arrived(u, k, t, R[t.run]), R, T, P, Q)
<1> DEFINE run == R[t.run]
           v == IF run.delivered THEN RekeyCanonical(u, k, run.chat) ELSE u
           moved == ~Has(v, k)
           w == IF moved THEN RekeyHook(v, k, run.chat, "source", t.epoch) ELSE v
           at == IF moved THEN run.chat ELSE k
           z == Arrived(u, k, t, run)
<1>1. z \in {w, CloseBinding(w, at)}
  <2>1. z = LET b == w.stream[at] IN
            IF /\ Has(w, at) /\ w.entry[at].run = t.run
               /\ b # None /\ b.run = t.run /\ b.epoch = t.epoch
            THEN CloseBinding(w, at) ELSE w
    BY DEF Arrived
  <2> HIDE DEF z, w, at
  <2> QED BY <2>1
<1> HIDE DEF z
<1>2. u \in PageState /\ u.entry[k] \in Entry /\ t.run # 0 /\ c \in Keys
  BY SMTT(60) DEF Good, PageState, Has, Ids, Keys
<1>3. /\ Good(w, R, T, P, Q) /\ w.entry[at] = u.entry[k] /\ at \in Keys
  <2>1. CASE ~run.delivered
    <3>1. v = u
      BY <2>1
    <3> HIDE DEF v
    <3>2. w = u /\ at = k
      BY <3>1
    <3> QED BY <3>2
  <2>2. CASE run.delivered
    <3>1. run.chat = c
      BY <2>2
    <3> HIDE DEF run
    <3>2. v = RekeyCanonical(u, k, c)
      BY <2>2, <3>1
    <3>3. R[u.entry[k].run].chat = c
      BY <3>1 DEF run
    <3> HIDE DEF v
    <3>4. CASE k = c \/ Has(u, c)
      <4>1. Good(v, R, T, P, Q)
        BY <1>2, <3>2, <3>3, <3>4, CallStays
      <4>2. v.entry[k] = u.entry[k]
        BY <1>2, <3>2, <3>4 DEF RekeyCanonical, Has, Moved, PageState
      <4>3. ~moved
        BY <4>2 DEF Has
      <4>4. w = v /\ at = k
        BY <4>3
      <4> QED BY <4>1, <4>2, <4>4
    <3>5. CASE ~(k = c \/ Has(u, c))
      <4> DEFINE x == RekeyHook(RekeyCanonical(u, k, c), k, c, "source", u.entry[k].epoch)
      <4>1. k \in Provisional
        BY <3>5 DEF Keys
      <4>2. ~Has(v, k) /\ Good(x, R, T, P, Q) /\ x.entry[c] = u.entry[k]
        BY <1>2, <3>2, <3>3, <3>5, <4>1, CallArrives
      <4>3. w = x /\ at = c
        BY <3>1, <3>2, <4>2
      <4> HIDE DEF x, w, at
      <4> QED BY <1>2, <4>2, <4>3
    <3> QED BY <3>4, <3>5
  <2> QED BY <2>1, <2>2
<1> HIDE DEF w, at
<1>4. ~RunActive(w.entry[at])
  BY <1>3 DEF RunActive, Final
<1>5. Good(CloseBinding(w, at), R, T, P, Q)
  BY <1>3, <1>4, CallClose
<1> QED BY <1>1, <1>3, <1>5 DEF z

\* The answer of a cancellation.
LEMMA CallAnswer ==
  ASSUME NEW u, NEW Q, NEW R, NEW T, NEW P, Good(u, R, T, P, Q), RunsOK(R, P), NEW k \in Keys,
         NEW t \in Cancellation, u.can[k] = t, R[t.run].state \in Final
  PROVE  Good(Arrived(RunSnapshot(Drop(u, {k}), k, t.run, t.epoch, R[t.run].state, R[t.run].delivered),
                      k, t, R[t.run]), R, T, P, Q)
<1> DEFINE run == R[t.run]
           v == RunSnapshot(Drop(u, {k}), k, t.run, t.epoch, run.state, run.delivered)
           d == Snapped(Unflagged(u.entry[k], u.rec[k], t), t.run, t.epoch, run.state, run.delivered)
<1>1. /\ u \in PageState /\ R \in [Ids -> Run] /\ t.run \in Ids /\ RunOK(run, P, t.run)
      /\ run \in Run
  BY DEF Good, Cancellation, RunsOK
<1>2. run.state \in run.been /\ run.delivered \in BOOLEAN /\ run.chat \in Ids
  BY <1>1 DEF RunOK, Run, Final, Ids
<1>3. /\ Good(v, R, T, P, Q)
      /\ Put(u, v, k, d, u.stream[k], None, None, u.epoch[k])
      /\ d # None /\ d.run = t.run /\ d.epoch = t.epoch /\ d.shown \in Final
  BY <1>2, CallTold
<1>4. RunOf(R, k, t.run)
  BY NoneIsNothing DEF Good, PageOK, KeyOK, SlotOK, HookOK
<1>5. k \in Provisional => Q[k] = 0
  BY NoneIsNothing, NoPost
<1> HIDE DEF v, d
<1>6. v.entry[k] = d /\ v.rec[k] = None /\ v.can[k] = None
  BY <1>1, <1>3, PutGives
<1>7. Good(Arrived(v, k, t, R[t.run]), R, T, P, Q)
  BY <1>1, <1>2, <1>3, <1>4, <1>5, <1>6, CallArrived DEF Has, RunOf
<1> QED BY <1>7 DEF v

\* Recovers.
LEMMA CallRecovers ==
  ASSUME NEW u, NEW Q, NEW R, NEW T, NEW P, Good(u, R, T, P, Q), RunsOK(R, P), NEW k \in Keys,
         NEW t \in Recovery, u.rec[k] = t, u.epoch[k] = t.epoch, u.stream[k] = None,
         R[t.run].state \in Final, R[t.run].delivered
  PROVE  LET v == RunSnapshot(FinishRecovery(u, k), k, t.run, t.epoch, R[t.run].state, TRUE) IN
         Has(v, k) /\ v.entry[k].run = t.run => Good(RekeyCanonical(v, k, R[t.run].chat), R, T, P, Q)
<1> DEFINE run == R[t.run]
           v == RunSnapshot(FinishRecovery(u, k), k, t.run, t.epoch, run.state, TRUE)
           x == Unflagged(u.entry[k], t, None)
           d == Snapped(x, t.run, t.epoch, run.state, TRUE)
<1>1. /\ u \in PageState /\ R \in [Ids -> Run] /\ t.run \in Ids /\ t.epoch \in Nat
      /\ RunOK(run, P, t.run) /\ run \in Run
  BY DEF Good, Recovery, RunsOK
<1>2. run.state \in run.been /\ run.chat \in Ids /\ TRUE \in BOOLEAN /\ t.run # 0
  BY <1>1 DEF RunOK, Run, Final, Ids
<1>3. /\ Good(v, R, T, P, Q)
      /\ Put(u, v, k, d, u.stream[k], None, u.can[k], u.epoch[k])
  BY <1>2, CallFound
<1>4. RunOf(R, k, t.run) /\ u.can[k] = None
  BY NoneIsNothing DEF Good, PageOK, KeyOK, SlotOK, HookOK
<1>5. k \in Provisional => Q[k] = 0
  BY NoneIsNothing, NoPost
<1> HIDE DEF v, d
<1>6. v.entry[k] = d /\ v.stream[k] = None /\ v.rec[k] = None /\ v.can[k] = None
  BY <1>1, <1>3, <1>4, PutGives
<1>7. ASSUME Has(v, k), v.entry[k].run = t.run
      PROVE  Good(RekeyCanonical(v, k, run.chat), R, T, P, Q)
  <2>1. CASE k \in Ids
    BY <1>2, <1>3, <1>4, <1>5, <1>7, <2>1, CallStays DEF RunOf
  <2>2. CASE k \in Provisional
    <3>1. u.entry[k] \in Entries
      BY <1>1, KeyTyped
    <3>2. u.entry[k] # None
      BY <1>6, <1>7 DEF Has, Snapped, Unflagged, d
    <3>3. u.entry[k] \in Entry /\ t \in Recoveries /\ None \in Cancellations
      BY <3>1, <3>2 DEF Entries, Recoveries, Cancellations
    <3>4. Same(x, u.entry[k])
      BY <3>3, UnflaggedGives
    <3>5. PICK tn \in BOOLEAN :
            SlotOK(R, T, P, k, u.entry[k], u.stream[k], u.rec[k], u.can[k], u.epoch[k], tn, Q[k])
      BY KeyHolds
    <3>6. Match(u.entry[k], t)
      BY <2>2, <3>2, <3>5, NoneIsNothing, ChatStreamAssumption DEF SlotOK, FitOK, Ids
    <3> HIDE DEF x
    <3>7. x \in Entry /\ x.run = t.run /\ t.epoch >= x.epoch /\ run.state \in States
      <4>1. x \in Entry /\ x.run = t.run /\ x.epoch = t.epoch
        BY <3>4, <3>6 DEF Same, Match
      <4>2. run.state \in States
        BY DEF States
      <4> QED BY <1>1, <4>1, <4>2
    <3>8. d.shown = run.state
      BY <1>1, <3>7, NoneIsNothing DEF d, Snapped, Entry
    <3>9. ~Doubtful(v.entry[k])
      BY <1>6, <3>8 DEF Doubtful, Final
    <3> QED BY <1>2, <1>3, <1>4, <1>5, <1>6, <1>7, <3>9, CallRekey DEF RunOf
  <2> QED BY <2>1, <2>2 DEF Keys
<1> QED BY <1>7 DEF v

\* Runs R, T texts and P POSTs become R1, T1 and P1: only run p may begin.
Later(R, T, P, R1, T1, P1, p) ==
  /\ R1 \in [Ids -> Run] /\ T1 \in Nat /\ P1 \in Nat /\ T <= T1 /\ P <= P1
  /\ Grows(R, R1) /\ Begins(R, R1, p)

\* The POST of key k, which is not in conflict, leaves or is answered.
Reposts(u, Q, Q1, k) ==
  /\ Q1 \in [Keys -> Nat] /\ \A j \in Keys \ {k} : Q1[j] = Q[j]
  /\ Q1[k] \in {0, Q[k]} \/ \A j \in Keys : Q[j] # Q1[k]
  /\ k = u.conflict.from => Q1[k] = 0

\* Page v is page u but for key k.
Becomes(u, v, k) ==
  /\ v \in PageState /\ v.conflict = u.conflict /\ Elsewhere(u, v, k)
  /\ Has(v, k) => Has(u, k)
  /\ Has(v, k) => (k = u.conflict.from => v.entry[k].run = u.entry[k].run)

\* One key changes, and what stands for it: its runs, its POST.
LEMMA KeyStep ==
  ASSUME NEW u, NEW Q, NEW R, NEW T, NEW P, Good(u, R, T, P, Q), NEW k \in Keys,
         NEW v, Becomes(u, v, k), NEW R1, NEW T1, NEW P1, Later(R, T, P, R1, T1, P1, Q[k]),
         NEW Q1, Reposts(u, Q, Q1, k), KeyOK(v, R1, T1, P1, Q1, k), Follow(u, Q, k, v, k)
  PROVE  Good(v, R1, T1, P1, Q1)
<1>0. /\ u \in PageState /\ Q \in [Keys -> Nat] /\ R \in [Ids -> Run] /\ T \in Nat /\ P \in Nat
      /\ PageOK(u, R, T, P, Q)
  BY DEF Good
<1>1. /\ R1 \in [Ids -> Run] /\ T1 \in Nat /\ P1 \in Nat /\ T <= T1 /\ P <= P1
      /\ Grows(R, R1) /\ Begins(R, R1, Q[k])
  BY DEF Later
<1>2. /\ Q1 \in [Keys -> Nat] /\ \A j \in Keys \ {k} : Q1[j] = Q[j]
      /\ Q1[k] \in {0, Q[k]} \/ \A j \in Keys : Q[j] # Q1[k]
      /\ k = u.conflict.from => Q1[k] = 0
  BY DEF Reposts
<1>3. /\ v \in PageState /\ v.conflict = u.conflict /\ Elsewhere(u, v, k)
      /\ Has(v, k) => (k = u.conflict.from => Has(u, k) /\ v.entry[k].run = u.entry[k].run)
  BY DEF Becomes
<1>6. PageOK(v, R1, T1, P1, Q1)
  BY <1>0, <1>1, <1>2, <1>3, LocalStep
<1> QED BY <1>1, <1>2, <1>3, <1>6 DEF Good

\* What Put changes, in these terms.
LEMMA PutBecomes ==
  ASSUME NEW u \in PageState, NEW v, NEW k \in Keys,
         NEW e, NEW s, NEW r, NEW c, NEW ep, Put(u, v, k, e, s, r, c, ep),
         u.entry[k] = None => e = None,
         k = u.conflict.from /\ e # None => e.run = u.entry[k].run
  PROVE  Becomes(u, v, k) /\ (k \in v.torn <=> k \in u.torn)
<1>1. /\ v \in PageState /\ v.entry[k] = e
      /\ \A j \in Keys \ {k} :
               /\ v.entry[j] = u.entry[j] /\ v.stream[j] = u.stream[j] /\ v.rec[j] = u.rec[j]
               /\ v.can[j] = u.can[j] /\ v.epoch[j] = u.epoch[j]
  BY PutGives
<1>2. v.conflict = u.conflict /\ v.torn = u.torn
  BY DEF Put
<1> QED BY <1>1, <1>2 DEF Becomes, Elsewhere, Has

LEMMA PutKey ==
  ASSUME NEW u \in PageState, NEW v, NEW k \in Keys,
         NEW e, NEW s, NEW r, NEW c, NEW ep, Put(u, v, k, e, s, r, c, ep),
         NEW tn \in BOOLEAN, tn <=> k \in u.torn, NEW R, NEW T, NEW P, NEW Q,
         SlotOK(R, T, P, k, e, s, r, c, ep, tn, Q[k])
  PROVE  KeyOK(v, R, T, P, Q, k)
<1>1. /\ v.entry[k] = e /\ v.stream[k] = s /\ v.rec[k] = r /\ v.can[k] = c /\ v.epoch[k] = ep
  BY PutGives
<1>2. (k \in v.torn) = tn
  BY DEF Put
<1> QED BY <1>1, <1>2 DEF KeyOK

LEMMA PutFollow ==
  ASSUME NEW u \in PageState, NEW v, NEW k \in Keys,
         NEW e, NEW s, NEW r, NEW c, NEW ep, Put(u, v, k, e, s, r, c, ep),
         NEW Q, Local(u.entry[k], u.stream[k], u.rec[k], u.can[k], Q[k], e, s, r, c)
  PROVE  Follow(u, Q, k, v, k)
<1>1. v.entry[k] = e /\ v.stream[k] = s /\ v.rec[k] = r /\ v.can[k] = c
  BY PutGives
<1> QED BY <1>1 DEF Follow

\* The conflict's provisional copy has no POST.
LEMMA ConflictQuiet ==
  ASSUME NEW u, NEW Q, NEW R, NEW T, NEW P, Good(u, R, T, P, Q), NEW k \in Keys, k = u.conflict.from
  PROVE  Q[k] = 0
<1>1. u.conflict # NoConflict
  BY ChatStreamAssumption DEF NoConflict, Keys, Ids
<1> QED BY <1>1 DEF Good, PageOK, ConflictOK

LEMMA GrowsSame == ASSUME NEW R PROVE Grows(R, R) /\ \A p : Begins(R, R, p)
BY DEF Grows, Begins

\* Type.
LEMMA CallType ==
  ASSUME NEW u, NEW Q, NEW R, NEW T, NEW P, Good(u, R, T, P, Q), NEW k \in Keys, Has(u, k)
  PROVE  Good(DraftChanged(u, k, T + 1), R, T + 1, P, Q)
<1> DEFINE e == u.entry[k]
           s == u.stream[k]
           r == u.rec[k]
           c == u.can[k]
           d == Retyped(e, T + 1)
           v == DraftChanged(u, k, T + 1)
<1>1. PICK tn \in BOOLEAN :
           /\ tn <=> k \in u.torn
           /\ Values(e, s, r, c, u.epoch[k], tn, Q[k])
           /\ SlotOK(R, T, P, k, e, s, r, c, u.epoch[k], tn, Q[k])
  BY KeyHolds
<1>2. u \in PageState /\ R \in [Ids -> Run] /\ T \in Nat /\ P \in Nat /\ Q \in [Keys -> Nat]
  BY DEF Good
<1>3. d = Retyped(e, T + 1) /\ v = WithEntry(u, k, d)
  BY DEF DraftChanged, Retyped
<1> HIDE DEF d, v
<1>4. /\ SlotOK(R, T + 1, P, k, d, s, r, c, u.epoch[k], tn, Q[k])
      /\ d \in Entry /\ d.run = e.run /\ d.shown = e.shown
  BY <1>1, <1>2, <1>3, SlotType DEF Has
<1>5. Put(u, v, k, d, s, r, c, u.epoch[k])
  BY <1>2, <1>3, <1>4, PutEntry DEF Entries
<1>6. Local(e, s, r, c, Q[k], d, s, r, c)
  BY <1>4 DEF Local, Works, Lives, Has
<1>7. Becomes(u, v, k) /\ KeyOK(v, R, T + 1, P, Q, k) /\ Follow(u, Q, k, v, k)
  BY <1>1, <1>2, <1>4, <1>5, <1>6, PutBecomes, PutKey, PutFollow DEF Has
<1>8. Later(R, T, P, R, T + 1, P, Q[k])
  BY <1>2, GrowsSame DEF Later
<1>9. Reposts(u, Q, Q, k)
  BY <1>2, ConflictQuiet DEF Reposts
<1>10. Good(v, R, T + 1, P, Q)
  BY <1>7, <1>8, <1>9, KeyStep
<1> QED BY <1>10 DEF v

\* Send: run P + 1 gets the text.
LEMMA CallSend ==
  ASSUME NEW u, NEW Q, NEW R, NEW T, NEW P, Good(u, R, T, P, Q), NEW k \in Keys, Has(u, k),
         ~ActiveWork(u.entry[k]), u.entry[k].draft # 0, Q[k] = 0,
         u.conflict.from # k, u.rec[k] = None, u.can[k] = None, P + 1 \in Ids, R[P + 1].state = "none",
         NEW R1 \in [Ids -> Run], Grows(R, R1), Begins(R, R1, 0)
  PROVE  Good(RequestStarted(Close(u, k), k), R1, T, P + 1, [Q EXCEPT ![k] = P + 1])
<1> DEFINE e == u.entry[k]
           s == u.stream[k]
           r == u.rec[k]
           c == u.can[k]
           n == u.epoch[k] + 1
           d == [e EXCEPT !.sending = TRUE]
           x == Close(u, k)
           v == RequestStarted(x, k)
           P1 == P + 1
<1>1. PICK tn \in BOOLEAN :
           /\ tn <=> k \in u.torn
           /\ Values(e, s, r, c, u.epoch[k], tn, Q[k])
           /\ SlotOK(R, T, P, k, e, s, r, c, u.epoch[k], tn, Q[k])
  BY KeyHolds
<1>2. /\ u \in PageState /\ R \in [Ids -> Run] /\ T \in Nat /\ P \in Nat /\ Q \in [Keys -> Nat]
      /\ PageOK(u, R, T, P, Q)
  BY DEF Good
<1>3. P1 \in Nat /\ P <= P1 /\ P1 \in Ids /\ T <= T
  BY <1>2
<1>4. R1[P1].state = "none"
  BY <1>3 DEF Begins, Ids
<1> HIDE DEF P1
<1>5. SlotOK(R1, T, P1, k, e, s, r, c, u.epoch[k], tn, Q[k])
  BY <1>1, <1>2, <1>3, SlotKept
<1>6. Values(e, s, r, c, u.epoch[k], tn, 0) /\ SlotOK(R1, T, P1, k, e, s, r, c, u.epoch[k], tn, 0)
  BY <1>1, <1>5
<1>7. P1 <= P1
  BY <1>3
<1>8. /\ SlotOK(R1, T, P1, k, d, None, None, None, n, tn, P1)
      /\ d \in Entry /\ d.run = e.run /\ d.shown = e.shown
  BY <1>2, <1>3, <1>4, <1>6, <1>7, SlotSend DEF Has
<1>9. Put(u, x, k, e, None, r, c, n)
  BY <1>2, PutClose
<1> HIDE DEF x
<1>10. /\ x \in PageState
       /\ x.entry[k] = e /\ x.stream[k] = None /\ x.rec[k] = r /\ x.can[k] = c /\ x.epoch[k] = n
  BY <1>2, <1>9, PutGives
<1>11. v = WithEntry(x, k, d)
  BY <1>10 DEF RequestStarted
<1> HIDE DEF d, v
<1>12. Put(x, v, k, d, x.stream[k], x.rec[k], x.can[k], x.epoch[k])
  BY <1>8, <1>10, <1>11, PutEntry DEF Entries
<1> HIDE DEF n
<1>13. Put(u, v, k, d, None, r, c, n)
  BY <1>2, <1>9, <1>10, <1>12, PutTwice
<1>14. Local(e, s, r, c, Q[k], d, None, r, c)
  BY <1>8 DEF Local, Works, Lives, Has
<1>15. \A j \in Keys : Q[j] # P1
  <2> SUFFICES ASSUME NEW j \in Keys, Q[j] = P1 PROVE FALSE
    OBVIOUS
  <2>1. Q[j] # 0 => Q[j] <= P
    BY <1>2 DEF PageOK, KeyOK, SlotOK, PostOK
  <2> QED BY <1>2, <1>3, <2>1 DEF Ids, P1
<1> DEFINE Q1 == [Q EXCEPT ![k] = P1]
<1>16. Q1[k] = P1 /\ Reposts(u, Q, Q1, k)
  BY <1>2, <1>3, <1>15 DEF Reposts
<1> HIDE DEF Q1
<1>17. SlotOK(R1, T, P1, k, d, None, r, c, n, tn, Q1[k])
  BY <1>8, <1>16
<1>18. Becomes(u, v, k) /\ KeyOK(v, R1, T, P1, Q1, k) /\ Follow(u, Q, k, v, k)
  BY <1>1, <1>2, <1>8, <1>13, <1>14, <1>17, PutBecomes, PutKey, PutFollow DEF Has
<1>19. Later(R, T, P, R1, T, P1, Q[k])
  BY <1>2, <1>3 DEF Later
<1>20. Good(v, R1, T, P1, Q1)
  BY <1>16, <1>18, <1>19, KeyStep
<1> QED BY <1>20 DEF v, x, P1, Q1

\* A POST ends and nothing shows it: it is over for the page.
LEMMA CallPostEnds ==
  ASSUME NEW u, NEW Q, NEW R, NEW T, NEW P, Good(u, R, T, P, Q), NEW k \in Keys, Has(u, k),
         NEW v, NEW d \in Entry, Put(u, v, k, d, u.stream[k], u.rec[k], u.can[k], u.epoch[k]),
         Same(d, u.entry[k]), d.cancelling = u.entry[k].cancelling,
         d.recovering = u.entry[k].recovering, ~d.sending \/ k \in u.torn,
         NEW R1, Later(R, T, P, R1, T, P, Q[k])
  PROVE  Good(v, R1, T, P, [Q EXCEPT ![k] = 0])
<1> DEFINE e == u.entry[k]
           s == u.stream[k]
           r == u.rec[k]
           c == u.can[k]
           Q1 == [Q EXCEPT ![k] = 0]
<1>1. PICK tn \in BOOLEAN :
           /\ tn <=> k \in u.torn
           /\ Values(e, s, r, c, u.epoch[k], tn, Q[k])
           /\ SlotOK(R, T, P, k, e, s, r, c, u.epoch[k], tn, Q[k])
  BY KeyHolds
<1>2. u \in PageState /\ R \in [Ids -> Run] /\ T \in Nat /\ P \in Nat /\ Q \in [Keys -> Nat]
  BY DEF Good
<1>3. Q1[k] = 0 /\ Reposts(u, Q, Q1, k)
  BY <1>2 DEF Reposts
<1>4. R1 \in [Ids -> Run] /\ Grows(R, R1) /\ T <= T /\ P <= P
  BY <1>2 DEF Later
<1> HIDE DEF Q1
<1>5. e # None
  BY DEF Has
<1>6. ~d.sending \/ tn
  BY <1>1
<1>7. SlotOK(R, T, P, k, d, s, r, c, u.epoch[k], tn, 0) /\ Local(e, s, r, c, Q[k], d, s, r, c)
  BY <1>1, <1>2, <1>5, <1>6, SlotPostEnds
<1>8. Values(d, s, r, c, u.epoch[k], tn, 0)
  BY <1>1 DEF Values, Entries
<1>9. SlotOK(R1, T, P, k, d, s, r, c, u.epoch[k], tn, 0)
  BY <1>2, <1>4, <1>7, <1>8, SlotKept
<1>10. SlotOK(R1, T, P, k, d, s, r, c, u.epoch[k], tn, Q1[k])
  BY <1>3, <1>9
<1>11. d.run = e.run
  BY DEF Same
<1>12. Becomes(u, v, k) /\ KeyOK(v, R1, T, P, Q1, k) /\ Follow(u, Q, k, v, k)
  BY <1>1, <1>2, <1>5, <1>7, <1>10, <1>11, PutBecomes, PutKey, PutFollow
<1>13. Good(v, R1, T, P, Q1)
  BY <1>3, <1>12, KeyStep
<1> QED BY <1>13 DEF Q1

\* PostFails.
LEMMA CallPostFails ==
  ASSUME NEW u, NEW Q, NEW R, NEW T, NEW P, Good(u, R, T, P, Q), NEW k \in Keys, Q[k] # 0,
         NEW R1, Later(R, T, P, R1, T, P, Q[k])
  PROVE  Good(RequestFailed(u, k), R1, T, P, [Q EXCEPT ![k] = 0])
<1> DEFINE e == u.entry[k]
           d == [e EXCEPT !.sending = FALSE]
           v == RequestFailed(u, k)
<1>1. u \in PageState /\ e # None
  BY DEF Good, PageOK, KeyOK, SlotOK, PostOK
<1>2. e \in Entry
  BY <1>1 DEF PageState
<1>3. /\ d \in Entry /\ Same(d, e) /\ d.cancelling = e.cancelling /\ d.recovering = e.recovering
      /\ ~d.sending
  BY <1>2, NoneIsNothing DEF Entry, Same
<1>4. v = WithEntry(u, k, d)
  BY <1>1 DEF RequestFailed, Has
<1> HIDE DEF v, d
<1>5. Put(u, v, k, d, u.stream[k], u.rec[k], u.can[k], u.epoch[k])
  BY <1>1, <1>3, <1>4, PutEntry DEF Entries
<1>6. Good(v, R1, T, P, [Q EXCEPT ![k] = 0])
  BY <1>1, <1>3, <1>5, CallPostEnds DEF Has
<1> QED BY <1>6 DEF v

\* PostAnswered, when nobody can take the answer.
LEMMA CallUnanswered ==
  ASSUME NEW u, NEW Q, NEW R, NEW T, NEW P, Good(u, R, T, P, Q), NEW k \in Keys, Q[k] # 0,
         k \in u.torn, NEW R1, Later(R, T, P, R1, T, P, Q[k])
  PROVE  Good(u, R1, T, P, [Q EXCEPT ![k] = 0])
<1>1. u \in PageState /\ Has(u, k)
  BY DEF Good, PageOK, KeyOK, SlotOK, PostOK, Has
<1>2. u.entry[k] \in Entry /\ Same(u.entry[k], u.entry[k])
  BY <1>1, NoneIsNothing DEF PageState, Same, Has
<1>3. Put(u, u, k, u.entry[k], u.stream[k], u.rec[k], u.can[k], u.epoch[k])
  BY <1>1, PutSame
<1> QED BY <1>1, <1>2, <1>3, CallPostEnds

\* PostAnswered, when the page follows the run.
LEMMA CallAnswered ==
  ASSUME NEW u, NEW Q, NEW R, NEW T, NEW P, Good(u, R, T, P, Q), NEW k \in Keys,
         NEW p, p = Q[k], p # 0,
         NEW R1, Later(R, T, P, R1, T, P, p), R1[p].state = "SENDING", k \in Ids => R1[p].chat = k,
         u.stream[k] = None, u.rec[k] = None, u.can[k] = None
  PROVE  Good(Bind(RunAccepted(u, k, p, u.epoch[k] + 1, R1[p].text), k, p, u.epoch[k] + 1, FALSE),
              R1, T, P, [Q EXCEPT ![k] = 0])
<1> DEFINE e == u.entry[k]
           n == u.epoch[k] + 1
           d == [e EXCEPT !.payload = [run |-> p, text |-> R1[p].text],
                          !.run = p, !.shown = "SENDING", !.epoch = n,
                          !.sending = FALSE, !.recovering = FALSE]
           x == RunAccepted(u, k, p, n, R1[p].text)
           b == [run |-> p, epoch |-> n, sent |-> 0, again |-> FALSE]
           v == Bind(x, k, p, n, FALSE)
           Q1 == [Q EXCEPT ![k] = 0]
<1>1. PICK tn \in BOOLEAN :
           /\ tn <=> k \in u.torn
           /\ Values(e, None, None, None, u.epoch[k], tn, p)
           /\ SlotOK(R, T, P, k, e, None, None, None, u.epoch[k], tn, p)
  BY KeyHolds
<1>2. u \in PageState /\ R \in [Ids -> Run] /\ T \in Nat /\ P \in Nat /\ Q \in [Keys -> Nat]
  BY DEF Good
<1>3. Q1[k] = 0 /\ Reposts(u, Q, Q1, k)
  BY <1>2 DEF Reposts
<1>4. R1 \in [Ids -> Run]
  BY <1>2 DEF Later
<1>5. e # None /\ p \in Ids /\ ~e.cancelling /\ k # u.conflict.from
  BY <1>1, ConflictQuiet DEF SlotOK, PostOK, FitOK
<1>6. e \in Entry /\ n \in Nat /\ R1[p].text \in Nat /\ FALSE \in BOOLEAN
  BY <1>2, <1>4, <1>5 DEF PageState, Run
<1>7. /\ d \in Entry
      /\ d.draft = e.draft /\ d.payload = [run |-> p, text |-> R1[p].text]
      /\ d.run = p /\ d.shown = "SENDING" /\ d.epoch = n
      /\ ~d.sending /\ ~d.recovering /\ d.cancelling = e.cancelling
  <2> DEFINE m == [run |-> p, text |-> R1[p].text]
  <2>1. m \in [run : Ids, text : Nat]
    BY <1>5, <1>6
  <2> HIDE DEF m
  <2>2. d = [e EXCEPT !.payload = m, !.run = p, !.shown = "SENDING", !.epoch = n,
                      !.sending = FALSE, !.recovering = FALSE]
    BY DEF m
  <2>3. p \in Nat /\ "SENDING" \in States
    BY <1>5 DEF Ids, States
  <2> HIDE DEF d, n
  <2>4. d \in Entry
    BY <1>6, <2>1, <2>2, <2>3 DEF Entry
  <2>5. /\ d.draft = e.draft /\ d.payload = m
        /\ d.run = p /\ d.shown = "SENDING" /\ d.epoch = n
        /\ ~d.sending /\ ~d.recovering /\ d.cancelling = e.cancelling
    BY <1>6, <2>2 DEF Entry
  <2> QED BY <2>4, <2>5 DEF m
<1>8. b \in Stream /\ b.run = p /\ b.epoch = n
  BY <1>5, <1>6 DEF Stream
<1>9. x = [WithEntry(u, k, d) EXCEPT !.torn = @ \ {k}]
  BY <1>5 DEF RunAccepted, Has
<1> HIDE DEF d, x, Q1
<1>10. Put(u, WithEntry(u, k, d), k, d, None, None, None, u.epoch[k])
  BY <1>2, <1>7, PutEntry DEF Entries
<1>11. /\ x \in PageState /\ x.conflict = u.conflict /\ x.torn = u.torn \ {k}
       /\ x.entry = [u.entry EXCEPT ![k] = d] /\ x.stream = u.stream /\ x.rec = u.rec
       /\ x.can = u.can /\ x.epoch = u.epoch
  BY <1>2, <1>7, <1>9 DEF WithEntry, PageState
<1>12. Put(x, v, k, Unflagged(x.entry[k], x.rec[k], x.can[k]), b, None, None, n)
  BY <1>5, <1>6, <1>11, PutBind
<1>13. Unflagged(x.entry[k], x.rec[k], x.can[k]) = d
  BY <1>2, <1>7, <1>11, UnflaggedNone DEF PageState, Entries
<1> HIDE DEF v, b, n
<1>24. Put(x, v, k, d, b, None, None, n)
  BY <1>12, <1>13
<1>14. /\ v \in PageState
       /\ v.entry[k] = d /\ v.stream[k] = b /\ v.rec[k] = None /\ v.can[k] = None /\ v.epoch[k] = n
       /\ \A j \in Keys \ {k} :
             /\ v.entry[j] = x.entry[j] /\ v.stream[j] = x.stream[j] /\ v.rec[j] = x.rec[j]
             /\ v.can[j] = x.can[j] /\ v.epoch[j] = x.epoch[j]
  <2>1. x \in PageState
    BY <1>11
  <2> QED BY <1>24, <2>1, PutGives
<1>15. v.conflict = u.conflict /\ v.torn = u.torn \ {k}
  BY <1>11, <1>12 DEF Put
<1>16. Elsewhere(u, v, k)
  BY <1>2, <1>11, <1>14, <1>15 DEF Elsewhere, PageState
<1>17. Becomes(u, v, k)
  BY <1>5, <1>14, <1>15, <1>16 DEF Becomes, Has
<1> DEFINE tn1 == k \in v.torn
<1>18. ~tn1
  BY <1>15
<1> HIDE DEF tn1
<1>19. Match(d, b)
  BY <1>7, <1>8 DEF Match
<1>20. /\ SlotOK(R1, T, P, k, d, b, None, None, n, tn1, 0)
       /\ Local(e, None, None, None, p, d, b, None, None)
  <2> DEFINE m == u.epoch[k]
  <2>1. d.epoch = m + 1 /\ n = m + 1 /\ d.payload.run = p /\ d.payload.text = R1[p].text
    BY <1>7 DEF n
  <2>2. /\ Values(e, None, None, None, m, tn, p)
        /\ SlotOK(R, T, P, k, e, None, None, None, m, tn, p)
    BY <1>1
  <2> HIDE DEF m, e
  <2>3. /\ SlotOK(R1, T, P, k, d, b, None, None, m + 1, tn1, 0)
        /\ Local(e, None, None, None, p, d, b, None, None)
    <3>1. /\ R \in [Ids -> Run] /\ T \in Nat /\ P \in Nat /\ p # 0 /\ e # None /\ ~e.cancelling
          /\ R1 \in [Ids -> Run] /\ d \in Entry /\ b \in Stream /\ Match(d, b)
      BY <1>2, <1>4, <1>5, <1>7, <1>8, <1>19
    <3>2. /\ d.draft = e.draft /\ d.run = p /\ d.shown = "SENDING" /\ ~d.sending /\ ~d.recovering
          /\ d.cancelling = e.cancelling
      BY <1>7
    <3>3. SlotOK(R1, T, P, k, d, b, None, None, m + 1, tn1, 0)
      BY <1>18, <2>1, <2>2, <3>1, <3>2, SlotAnswered
    <3>4. Local(e, None, None, None, p, d, b, None, None)
      BY <3>1, <3>2 DEF Local, Works, Match
    <3> QED BY <3>3, <3>4
  <2> QED BY <2>1, <2>3
<1>21. KeyOK(v, R1, T, P, Q1, k)
  BY <1>3, <1>14, <1>20 DEF KeyOK, tn1
<1>22. Follow(u, Q, k, v, k)
  BY <1>14, <1>20 DEF Follow
<1>23. Good(v, R1, T, P, Q1)
  BY <1>3, <1>17, <1>21, <1>22, KeyStep
<1> QED BY <1>23 DEF v, x, n, Q1

\* What Drop leaves of two keys.
LEMMA DropTwo ==
  ASSUME NEW u \in PageState, NEW f \in Keys, NEW t \in Keys,
         NEW K, K = {f, t}, NEW v, v = Drop(u, K)
  PROVE  /\ v \in PageState /\ v.conflict = u.conflict /\ v.stream = u.stream /\ v.epoch = u.epoch
         /\ v.torn = u.torn
         /\ v.entry[f] = Unflagged(u.entry[f], u.rec[f], u.can[f])
         /\ v.entry[t] = Unflagged(u.entry[t], u.rec[t], u.can[t])
         /\ v.rec[f] = None /\ v.rec[t] = None /\ v.can[f] = None /\ v.can[t] = None
         /\ \A j \in Keys \ K :
               v.entry[j] = u.entry[j] /\ v.rec[j] = u.rec[j] /\ v.can[j] = u.can[j]
<1> DEFINE rr == [j \in Keys |-> IF j \in K THEN None ELSE u.rec[j]]
           cc == [j \in Keys |-> IF j \in K THEN None ELSE u.can[j]]
           ee == [j \in Keys |-> IF j \in K THEN Unflagged(u.entry[j], u.rec[j], u.can[j])
                                 ELSE u.entry[j]]
<1>1. rr \in [Keys -> Recovery \cup {None}] /\ rr[f] = None /\ rr[t] = None
      /\ \A j \in Keys \ K : rr[j] = u.rec[j]
  BY DEF PageState
<1>2. cc \in [Keys -> Cancellation \cup {None}] /\ cc[f] = None /\ cc[t] = None
      /\ \A j \in Keys \ K : cc[j] = u.can[j]
  BY DEF PageState
<1>3. \A j \in Keys : u.entry[j] \in Entries /\ Unflagged(u.entry[j], u.rec[j], u.can[j]) \in Entries
  BY KeyTyped, UnflaggedTyped
<1>4. ee \in [Keys -> Entry \cup {None}]
      /\ ee[f] = Unflagged(u.entry[f], u.rec[f], u.can[f])
      /\ ee[t] = Unflagged(u.entry[t], u.rec[t], u.can[t])
      /\ \A j \in Keys \ K : ee[j] = u.entry[j]
  BY <1>3 DEF Entries
<1>5. v = [u EXCEPT !.rec = rr, !.can = cc, !.entry = ee]
  BY DEF Drop
<1> HIDE DEF rr, cc, ee
<1>6. /\ v \in PageState /\ v.rec = rr /\ v.can = cc /\ v.entry = ee
      /\ v.conflict = u.conflict /\ v.stream = u.stream /\ v.epoch = u.epoch /\ v.torn = u.torn
  BY <1>1, <1>2, <1>4, <1>5 DEF PageState
<1> QED BY <1>1, <1>2, <1>4, <1>6

\* Resolve, when the user keeps the chat's copy.
LEMMA CallTarget ==
  ASSUME NEW u, NEW Q, NEW R, NEW T, NEW P, Good(u, R, T, P, Q), NEW f \in Provisional, NEW t \in Ids,
         u.conflict.from = f, u.conflict.to = t, Q[f] = 0, Has(u, t), ~ActiveWork(u.entry[t])
  PROVE  LET x == Resolved(u, "target") IN
         Good(RekeyHook(x, f, t, "target", x.entry[t].epoch), R, T, P, Q)
<1> DEFINE x == Resolved(u, "target")
           n == u.entry[t].epoch
           w == RekeyHook(x, f, t, "target", x.entry[t].epoch)
           y == Drop(x, {f, t})
           g == [u.stream EXCEPT ![f] = None]
           nn == [[u.epoch EXCEPT ![f] = 0] EXCEPT ![t] = n]
           ff == [u.entry EXCEPT ![f] = None]
<1>1. /\ u \in PageState /\ f \in Keys /\ t \in Keys /\ f # t
      /\ Q \in [Keys -> Nat] /\ R \in [Ids -> Run] /\ T \in Nat /\ P \in Nat /\ PageOK(u, R, T, P, Q)
  BY ChatStreamAssumption DEF Good, Keys, Ids
<1>2. n \in Nat
  BY <1>1 DEF Has, PageState, Entry
<1>3. x = [u EXCEPT !.conflict = NoConflict, !.entry = ff]
  BY DEF Resolved
<1>4. /\ ff \in [Keys -> Entry \cup {None}] /\ ff[f] = None /\ \A j \in Keys \ {f} : ff[j] = u.entry[j]
  BY <1>1 DEF PageState
<1> HIDE DEF x, ff
<1>5. /\ x \in PageState /\ x.conflict = NoConflict /\ x.entry = ff /\ x.stream = u.stream
      /\ x.epoch = u.epoch /\ x.rec = u.rec /\ x.can = u.can /\ x.torn = u.torn
  BY <1>1, <1>3, <1>4 DEF PageState
<1>6. x.entry[t].epoch = n /\ x.entry[t] = u.entry[t] /\ x.entry[f] = None
  BY <1>1, <1>4, <1>5
<1>7. /\ y \in PageState /\ y.conflict = x.conflict /\ y.stream = x.stream /\ y.epoch = x.epoch
      /\ y.torn = x.torn
      /\ y.entry[f] = Unflagged(x.entry[f], x.rec[f], x.can[f])
      /\ y.entry[t] = Unflagged(x.entry[t], x.rec[t], x.can[t])
      /\ y.rec[f] = None /\ y.rec[t] = None /\ y.can[f] = None /\ y.can[t] = None
      /\ \A j \in Keys \ {f, t} :
            y.entry[j] = x.entry[j] /\ y.rec[j] = x.rec[j] /\ y.can[j] = x.can[j]
  <2>1. x \in PageState /\ f \in Keys /\ t \in Keys
    BY <1>1, <1>5
  <2> DEFINE K == {f, t}
  <2>2. y = Drop(x, K) /\ K = {f, t}
    OBVIOUS
  <2> HIDE DEF y, K
  <2>3. /\ y \in PageState /\ y.conflict = x.conflict /\ y.stream = x.stream /\ y.epoch = x.epoch
        /\ y.torn = x.torn
        /\ y.entry[f] = Unflagged(x.entry[f], x.rec[f], x.can[f])
        /\ y.entry[t] = Unflagged(x.entry[t], x.rec[t], x.can[t])
        /\ y.rec[f] = None /\ y.rec[t] = None /\ y.can[f] = None /\ y.can[t] = None
        /\ \A j \in Keys \ K :
              y.entry[j] = x.entry[j] /\ y.rec[j] = x.rec[j] /\ y.can[j] = x.can[j]
    BY <2>1, <2>2, DropTwo
  <2> QED BY <2>2, <2>3
<1>8. w = [y EXCEPT !.epoch = [[@ EXCEPT ![f] = 0] EXCEPT ![t] = x.entry[t].epoch],
                    !.stream = [@ EXCEPT ![f] = None]]
  BY <1>1 DEF RekeyHook
<1>9. w = [y EXCEPT !.epoch = nn, !.stream = g]
  BY <1>5, <1>6, <1>7, <1>8
<1>10. nn \in [Keys -> Nat] /\ nn[t] = n /\ \A j \in Keys \ {f, t} : nn[j] = u.epoch[j]
  BY <1>1, <1>2 DEF PageState
<1>11. g \in [Keys -> Stream \cup {None}] /\ g[f] = None /\ g[t] = u.stream[t]
       /\ \A j \in Keys \ {f, t} : g[j] = u.stream[j]
  BY <1>1 DEF PageState
<1> HIDE DEF w, y, nn, g, n
<1>12. /\ w \in PageState /\ w.conflict = NoConflict /\ w.entry = y.entry /\ w.rec = y.rec
       /\ w.can = y.can /\ w.torn = u.torn /\ w.epoch = nn /\ w.stream = g
  BY <1>5, <1>7, <1>9, <1>10, <1>11 DEF PageState
<1>13. Pair(u, w, f, t)
  BY <1>4, <1>5, <1>7, <1>10, <1>11, <1>12 DEF Pair
<1>14. w.entry[f] = None
  BY <1>6, <1>7, <1>12 DEF Unflagged
<1>15. w.entry[t] = Unflagged(u.entry[t], u.rec[t], u.can[t])
  BY <1>5, <1>6, <1>7, <1>12
<1>16. /\ w.stream[f] = None /\ w.rec[f] = None /\ w.can[f] = None /\ w.stream[t] = u.stream[t]
       /\ w.rec[t] = None /\ w.can[t] = None /\ w.epoch[t] = u.entry[t].epoch
  BY <1>7, <1>10, <1>11, <1>12 DEF n
<1>17. w \in PageState /\ w.torn = u.torn /\ w.conflict = NoConflict
  BY <1>12
<1>18. PageOK(w, R, T, P, Q)
  BY <1>1, <1>13, <1>14, <1>15, <1>16, <1>17, TargetStep
<1>19. Good(w, R, T, P, Q)
  BY <1>1, <1>17, <1>18 DEF Good
<1> QED BY <1>19 DEF w, x

\* Resolve, when the user keeps the provisional copy and no stream is in the way.
LEMMA CallSource ==
  ASSUME NEW u, NEW Q, NEW R, NEW T, NEW P, Good(u, R, T, P, Q), NEW f \in Provisional, NEW t \in Ids,
         u.conflict.from = f, u.conflict.to = t, Q[f] = 0, Has(u, t), ~ActiveWork(u.entry[t]),
         Has(u, f), ~ActiveWork(u.entry[f]), u.entry[f].run # 0, R[u.entry[f].run].chat = t,
         u.stream[t] = None
  PROVE  LET x == Resolved(u, "source") IN
         Good(RekeyHook(x, f, t, "source", x.entry[t].epoch), R, T, P, Q)
<1> DEFINE x == Resolved(u, "source")
           n == u.entry[f].epoch
           w == RekeyHook(x, f, t, "source", x.entry[t].epoch)
           y == Drop(x, {f, t})
           g == Moved(u.stream, f, t)
           nn == [[u.epoch EXCEPT ![f] = 0] EXCEPT ![t] = n]
           ff == Moved(u.entry, f, t)
<1>1. /\ u \in PageState /\ f \in Keys /\ t \in Keys /\ f # t
      /\ Q \in [Keys -> Nat] /\ R \in [Ids -> Run] /\ T \in Nat /\ P \in Nat /\ PageOK(u, R, T, P, Q)
  BY ChatStreamAssumption DEF Good, Keys, Ids
<1>2. n \in Nat
  BY <1>1 DEF Has, PageState, Entry
<1>3. x = [u EXCEPT !.conflict = NoConflict, !.entry = ff]
  BY DEF Resolved
<1>4. /\ ff \in [Keys -> Entry \cup {None}] /\ ff[f] = None /\ ff[t] = u.entry[f]
      /\ \A j \in Keys \ {f, t} : ff[j] = u.entry[j]
  BY <1>1 DEF PageState, Moved
<1>11. g \in [Keys -> Stream \cup {None}] /\ g[f] = None /\ g[t] = u.stream[f]
       /\ \A j \in Keys \ {f, t} : g[j] = u.stream[j]
  BY <1>1 DEF PageState, Moved
<1> HIDE DEF x, ff, g
<1>5. /\ x \in PageState /\ x.conflict = NoConflict /\ x.entry = ff /\ x.stream = u.stream
      /\ x.epoch = u.epoch /\ x.rec = u.rec /\ x.can = u.can /\ x.torn = u.torn
  BY <1>1, <1>3, <1>4 DEF PageState
<1>6. x.entry[t].epoch = n /\ x.entry[t] = u.entry[f] /\ x.entry[f] = None
  BY <1>1, <1>4, <1>5
<1>7. /\ y \in PageState /\ y.conflict = x.conflict /\ y.stream = x.stream /\ y.epoch = x.epoch
      /\ y.torn = x.torn
      /\ y.entry[f] = Unflagged(x.entry[f], x.rec[f], x.can[f])
      /\ y.entry[t] = Unflagged(x.entry[t], x.rec[t], x.can[t])
      /\ y.rec[f] = None /\ y.rec[t] = None /\ y.can[f] = None /\ y.can[t] = None
      /\ \A j \in Keys \ {f, t} :
            y.entry[j] = x.entry[j] /\ y.rec[j] = x.rec[j] /\ y.can[j] = x.can[j]
  <2>1. x \in PageState /\ f \in Keys /\ t \in Keys
    BY <1>1, <1>5
  <2> DEFINE K == {f, t}
  <2>2. y = Drop(x, K) /\ K = {f, t}
    OBVIOUS
  <2> HIDE DEF y, K
  <2>3. /\ y \in PageState /\ y.conflict = x.conflict /\ y.stream = x.stream /\ y.epoch = x.epoch
        /\ y.torn = x.torn
        /\ y.entry[f] = Unflagged(x.entry[f], x.rec[f], x.can[f])
        /\ y.entry[t] = Unflagged(x.entry[t], x.rec[t], x.can[t])
        /\ y.rec[f] = None /\ y.rec[t] = None /\ y.can[f] = None /\ y.can[t] = None
        /\ \A j \in Keys \ K :
              y.entry[j] = x.entry[j] /\ y.rec[j] = x.rec[j] /\ y.can[j] = x.can[j]
    BY <2>1, <2>2, DropTwo
  <2> QED BY <2>2, <2>3
<1>8. w = [y EXCEPT !.epoch = [[@ EXCEPT ![f] = 0] EXCEPT ![t] = x.entry[t].epoch],
                    !.stream = Moved(@, f, t)]
  BY <1>1, <1>5 DEF RekeyHook
<1>9. w = [y EXCEPT !.epoch = nn, !.stream = g]
  BY ZenonT(60), <1>5, <1>6, <1>7, <1>8 DEF g
<1>10. nn \in [Keys -> Nat] /\ nn[t] = n /\ \A j \in Keys \ {f, t} : nn[j] = u.epoch[j]
  BY <1>1, <1>2 DEF PageState
<1> HIDE DEF w, y, nn, n
<1>12. /\ w \in PageState /\ w.conflict = NoConflict /\ w.entry = y.entry /\ w.rec = y.rec
       /\ w.can = y.can /\ w.torn = u.torn /\ w.epoch = nn /\ w.stream = g
  BY <1>5, <1>7, <1>9, <1>10, <1>11 DEF PageState
<1>13. Pair(u, w, f, t)
  BY <1>4, <1>5, <1>7, <1>10, <1>11, <1>12 DEF Pair
<1>14. w.entry[f] = None
  BY <1>6, <1>7, <1>12 DEF Unflagged
<1>15. w.entry[t] = Unflagged(u.entry[f], u.rec[t], u.can[t])
  BY <1>5, <1>6, <1>7, <1>12
<1>16. /\ w.stream[f] = None /\ w.rec[f] = None /\ w.can[f] = None /\ w.stream[t] = u.stream[f]
       /\ w.rec[t] = None /\ w.can[t] = None /\ w.epoch[t] = u.entry[f].epoch
  BY <1>7, <1>10, <1>11, <1>12 DEF n
<1>17. w \in PageState /\ w.torn = u.torn /\ w.conflict = NoConflict
  BY <1>12
<1>18. PageOK(w, R, T, P, Q)
  BY <1>1, <1>13, <1>14, <1>15, <1>16, <1>17, SourceStep
<1>19. Good(w, R, T, P, Q)
  BY <1>1, <1>17, <1>18 DEF Good
<1> QED BY <1>19 DEF w, x

\* Resolve, when the stream of the chat is in the way.
LEMMA CallTorn ==
  ASSUME NEW u, NEW Q, NEW R, NEW T, NEW P, Good(u, R, T, P, Q), NEW f \in Provisional, NEW t \in Ids,
         u.conflict.from = f, u.conflict.to = t, Q[f] = 0, Has(u, t), ~ActiveWork(u.entry[t]),
         Has(u, f), ~ActiveWork(u.entry[f]), u.entry[f].run # 0, R[u.entry[f].run].chat = t,
         u.stream[t] # None
  PROVE  LET x == Resolved(u, "source") IN
         Good(RekeyHook(x, f, t, "source", x.entry[t].epoch), R, T, P, Q)
<1> DEFINE x == Resolved(u, "source")
           w == RekeyHook(x, f, t, "source", x.entry[t].epoch)
           ff == Moved(u.entry, f, t)
<1>1. /\ u \in PageState /\ f \in Keys /\ t \in Keys /\ f # t
      /\ Q \in [Keys -> Nat] /\ R \in [Ids -> Run] /\ T \in Nat /\ P \in Nat /\ PageOK(u, R, T, P, Q)
  BY ChatStreamAssumption DEF Good, Keys, Ids
<1>2. x = [u EXCEPT !.conflict = NoConflict, !.entry = ff]
  BY DEF Resolved
<1>3. ff \in [Keys -> Entry \cup {None}]
  BY <1>1 DEF PageState, Moved
<1> HIDE DEF x, ff
<1>4. /\ x \in PageState /\ x.conflict = NoConflict /\ x.entry = ff /\ x.stream = u.stream
      /\ x.epoch = u.epoch /\ x.rec = u.rec /\ x.can = u.can /\ x.torn = u.torn
  BY <1>1, <1>2, <1>3 DEF PageState
<1>5. w = [x EXCEPT !.torn = @ \cup {t}]
  BY <1>1, <1>4 DEF RekeyHook
<1> HIDE DEF w
<1>6. /\ w \in PageState /\ w.conflict = NoConflict /\ w.entry = ff /\ w.stream = u.stream
      /\ w.epoch = u.epoch /\ w.rec = u.rec /\ w.can = u.can /\ w.torn = u.torn \cup {t}
  BY <1>4, <1>5 DEF PageState
<1>7. PageOK(w, R, T, P, Q)
  BY <1>1, <1>6, TornStep DEF ff
<1>8. Good(w, R, T, P, Q)
  BY <1>1, <1>6, <1>7 DEF Good
<1> QED BY <1>8 DEF w, x

\* Resolve.
LEMMA CallResolve ==
  ASSUME NEW u, NEW Q, NEW R, NEW T, NEW P, Good(u, R, T, P, Q), MayResolve(u),
         NEW choice \in {"source", "target"}
  PROVE  LET f == u.conflict.from
             t == u.conflict.to
             x == Resolved(u, choice)
         IN Good(RekeyHook(x, f, t, choice, x.entry[t].epoch), R, T, P, Q)
<1> DEFINE f == u.conflict.from
           t == u.conflict.to
<1>1. ConflictOK(u, R, Q)
  BY DEF Good, PageOK
<1>2. /\ f \in Provisional /\ t \in Ids /\ Q[f] = 0 /\ u.entry[f].run # 0
      /\ R[u.entry[f].run].chat = t
  BY <1>1 DEF ConflictOK, MayResolve
<1>3. Has(u, f) /\ Has(u, t) /\ ~ActiveWork(u.entry[f]) /\ ~ActiveWork(u.entry[t])
  BY DEF MayResolve
<1>4. u.conflict.from = f /\ u.conflict.to = t
  OBVIOUS
<1> HIDE DEF f, t
<1>5. CASE choice = "target"
  BY <1>2, <1>3, <1>4, <1>5, CallTarget
<1>6. CASE choice = "source" /\ u.stream[t] = None
  BY <1>2, <1>3, <1>4, <1>6, CallSource
<1>7. CASE choice = "source" /\ u.stream[t] # None
  BY <1>2, <1>3, <1>4, <1>7, CallTorn
<1> QED BY <1>5, <1>6, <1>7

\* What a refresh leaves under key k of page u.
Left(u, listed, selected, k) ==
  LET e == u.entry[k] IN
  CASE k \in listed -> IF e = None THEN NewEntry ELSE e
    [] k \notin listed /\ e = None -> None
    [] OTHER -> IF \/ ActiveWork(e) \/ e.draft # 0 \/ e.payload # None
                   \/ k \in Provisional /\ k = selected
                THEN e ELSE None

LEMMA LeftGives ==
  ASSUME NEW u, NEW listed, NEW selected, NEW k
  PROVE  LET e == u.entry[k]
             d == Left(u, listed, selected, k)
         IN \/ d = e
            \/ d = NewEntry /\ e = None /\ k \in listed
            \/ d = None /\ e # None /\ k \notin listed /\ ~ActiveWork(e) /\ e.draft = 0
<1>1. CASE k \in listed
  BY <1>1 DEF Left
<1>2. CASE k \notin listed /\ u.entry[k] = None
  BY <1>2 DEF Left
<1>3. CASE k \notin listed /\ u.entry[k] # None
  <2> DEFINE e == u.entry[k]
             b == \/ ActiveWork(e) \/ e.draft # 0 \/ e.payload # None
                  \/ k \in Provisional /\ k = selected
  <2>1. Left(u, listed, selected, k) = IF b THEN e ELSE None
    BY <1>3 DEF Left
  <2>2. b \/ (~ActiveWork(e) /\ e.draft = 0)
    OBVIOUS
  <2> HIDE DEF b, e
  <2>3. b \/ (Left(u, listed, selected, k) = None /\ ~ActiveWork(e) /\ e.draft = 0)
    BY <2>1, <2>2
  <2>4. Left(u, listed, selected, k) = e \/ (Left(u, listed, selected, k) = None /\ ~ActiveWork(e) /\ e.draft = 0)
    BY <2>1, <2>3
  <2> QED BY <1>3, <2>4 DEF e
<1> QED BY <1>1, <1>2, <1>3

\* Refresh, one key.
LEMMA CallLeft ==
  ASSUME NEW u, NEW Q, NEW R, NEW T, NEW P, Good(u, R, T, P, Q), NEW k \in Keys,
         NEW listed \in SUBSET Ids, NEW selected,
         k \in Ids /\ Has(u, k) /\ u.entry[k].run # 0 => k \in listed,
         NEW v \in PageState, v.entry[k] = Left(u, listed, selected, k), v.stream = u.stream,
         v.rec = u.rec, v.can = u.can, v.epoch = u.epoch, v.torn = u.torn
  PROVE  KeyOK(v, R, T, P, Q, k) /\ Follow(u, Q, k, v, k)
<1> DEFINE e == u.entry[k]
           s == u.stream[k]
           r == u.rec[k]
           c == u.can[k]
           d == v.entry[k]
           tn == k \in u.torn
<1>0. tn \in BOOLEAN
  OBVIOUS
<1>1. /\ Values(e, s, r, c, u.epoch[k], tn, Q[k])
      /\ SlotOK(R, T, P, k, e, s, r, c, u.epoch[k], tn, Q[k])
  BY PageTyped DEF Good, PageOK, KeyOK
<1>2. u \in PageState /\ R \in [Ids -> Run] /\ T \in Nat /\ P \in Nat /\ Q \in [Keys -> Nat]
  BY DEF Good
<1>3. \/ d = e
      \/ d = NewEntry /\ e = None /\ k \in listed
      \/ d = None /\ e # None /\ k \notin listed /\ ~ActiveWork(e) /\ e.draft = 0
  BY LeftGives
<1> HIDE DEF tn
<1>4. SlotOK(R, T, P, k, d, s, r, c, u.epoch[k], tn, Q[k]) /\ Local(e, s, r, c, Q[k], d, s, r, c)
  <2>1. CASE d = e
    BY <1>1, <2>1, LocalSame
  <2>2. CASE d = NewEntry /\ e = None /\ k \in listed
    <3>1. k \in Ids
      BY <2>2
    <3>2. Values(None, s, r, c, u.epoch[k], tn, Q[k]) /\ SlotOK(R, T, P, k, None, s, r, c, u.epoch[k], tn, Q[k])
      BY <1>1, <2>2
    <3>3. /\ SlotOK(R, T, P, k, NewEntry, s, r, c, u.epoch[k], tn, Q[k])
          /\ Local(None, s, r, c, Q[k], NewEntry, s, r, c)
      BY <1>2, <3>1, <3>2, SlotListed
    <3> QED BY <2>2, <3>3
  <2>3. CASE d = None /\ e # None /\ k \notin listed /\ ~ActiveWork(e) /\ e.draft = 0
    <3>1. k \in Ids => e.run = 0
      BY <2>3 DEF Has
    <3>2. /\ SlotOK(R, T, P, k, None, s, r, c, u.epoch[k], tn, Q[k])
          /\ Local(e, s, r, c, Q[k], None, s, r, c)
      BY <1>1, <1>2, <2>3, <3>1, SlotDropped
    <3> QED BY <2>3, <3>2
  <2> QED BY <1>3, <2>1, <2>2, <2>3
<1>5. KeyOK(v, R, T, P, Q, k)
  BY <1>4 DEF KeyOK, tn
<1>6. Follow(u, Q, k, v, k)
  BY <1>4 DEF Follow
<1> QED BY <1>5, <1>6

\* What a refresh makes of the table.
LEMMA SummariesLeft ==
  ASSUME NEW u, NEW listed, NEW selected
  PROVE  Summaries(u, listed, selected) =
            [u EXCEPT !.entry = [k \in Keys |-> Left(u, listed, selected, k)]]
<1> DEFINE f == [k \in Keys |-> Left(u, listed, selected, k)]
           v == Summaries(u, listed, selected)
<1> DEFINE g == [k \in Keys |->
                 LET e == u.entry[k] IN
                 CASE k \in listed -> IF e = None THEN NewEntry ELSE e
                   [] e = None -> None
                   [] OTHER -> IF \/ ActiveWork(e) \/ e.draft # 0 \/ e.payload # None
                                  \/ k \in Provisional /\ k = selected
                               THEN e ELSE None]
<1>1. v = [u EXCEPT !.entry = g]
  BY DEF Summaries
<1>2. ASSUME NEW k \in Keys PROVE g[k] = f[k]
  <2>1. CASE k \in listed
    BY <2>1 DEF Left
  <2>2. CASE k \notin listed /\ u.entry[k] = None
    BY <2>2 DEF Left
  <2>3. CASE k \notin listed /\ u.entry[k] # None
    BY <2>3 DEF Left
  <2> QED BY <2>1, <2>2, <2>3
<1>3. g = f
  BY <1>2
<1> HIDE DEF f, g, v
<1>4. v = [u EXCEPT !.entry = f]
  BY <1>1, <1>3
<1> QED BY <1>4 DEF v, f

\* Refresh.
LEMMA CallRefresh ==
  ASSUME NEW u, NEW Q, NEW R, NEW T, NEW P, Good(u, R, T, P, Q),
         NEW listed \in SUBSET Ids, NEW selected,
         \A k \in Ids : Has(u, k) /\ u.entry[k].run # 0 => k \in listed
  PROVE  Good(Summaries(u, listed, selected), R, T, P, Q)
<1> DEFINE f == [k \in Keys |-> Left(u, listed, selected, k)]
           v == Summaries(u, listed, selected)
           m == [k \in Keys |-> k]
<1>1. /\ u \in PageState /\ R \in [Ids -> Run] /\ T \in Nat /\ P \in Nat /\ Q \in [Keys -> Nat]
      /\ PageOK(u, R, T, P, Q)
  BY DEF Good
<1>2. v = [u EXCEPT !.entry = f]
  BY SummariesLeft
<1>3. \A k \in Keys : f[k] \in Entry \cup {None} /\ f[k] = Left(u, listed, selected, k)
  <2> SUFFICES ASSUME NEW k \in Keys PROVE Left(u, listed, selected, k) \in Entry \cup {None}
    OBVIOUS
  <2>1. NewEntry \in Entry /\ u.entry[k] \in Entry \cup {None}
    BY <1>1 DEF NewEntry, Entry, PageState
  <2> HIDE DEF f
  <2> QED BY <2>1, LeftGives
<1>4. f \in [Keys -> Entry \cup {None}]
  BY <1>3
<1> HIDE DEF v, f
<1>5. /\ v \in PageState /\ v.entry = f /\ v.stream = u.stream /\ v.rec = u.rec /\ v.can = u.can
      /\ v.epoch = u.epoch /\ v.torn = u.torn /\ v.conflict = u.conflict
  BY <1>1, <1>2, <1>4 DEF PageState
<1>6. ASSUME NEW k \in Keys PROVE KeyOK(v, R, T, P, Q, k) /\ Follow(u, Q, k, v, k)
  <2>1. v.entry[k] = Left(u, listed, selected, k)
    BY <1>3, <1>5
  <2> QED BY <1>5, <2>1, CallLeft
<1>7. \A j, k \in Keys : j # k /\ Q[j] = Q[k] => Q[j] = 0
  BY <1>1 DEF PageOK, ApartOK
<1>8. Carries(u, Q, v, Q, m)
  BY <1>6, <1>7 DEF Carries
<1>9. ConflictOK(v, R, Q)
  <2> DEFINE c == u.conflict.from
  <2> SUFFICES ASSUME u.conflict # NoConflict, Has(v, c)
               PROVE  Has(u, c) /\ v.entry[c] = u.entry[c]
    BY <1>1, <1>5 DEF PageOK, ConflictOK
  <2>1. c \in Provisional
    BY <1>1 DEF PageOK, ConflictOK
  <2> HIDE DEF c
  <2>2. c \in Keys /\ c \notin listed
    <3>1. c \notin Ids
      BY <2>1, ChatStreamAssumption DEF Ids
    <3> QED BY <2>1, <3>1 DEF Keys
  <2>3. v.entry[c] = Left(u, listed, selected, c)
    BY <1>3, <1>5, <2>2
  <2>4. v.entry[c] = u.entry[c] \/ v.entry[c] = None
    BY <2>2, <2>3, LeftGives
  <2> QED BY <2>4 DEF Has
<1>10. KeysOK(v, R, T, P, Q)
  BY <1>6 DEF KeysOK
<1>11. PageOK(v, R, T, P, Q)
  BY <1>1, <1>8, <1>9, <1>10, PageStep
<1>12. Good(v, R, T, P, Q)
  BY <1>1, <1>5, <1>11 DEF Good
<1> QED BY <1>12 DEF v
-----------------------------------------------------------------------------
(* What becomes of the runs.                                               *)

RunsGood(R, P) ==
  /\ R \in [Ids -> Run] /\ RunsOK(R, P) /\ \A r \in Ids : Len(R[r].ev) <= Cap

\* Every event of a list tells the truth about a run.
TellsAll(run, list) == \A i \in 1..Len(list) : Tells(run, list[i])

LEMMA TellsMore ==
  ASSUME NEW a, NEW b, NEW list, TellsAll(a, list),
         a.been \subseteq b.been, a.delivered => b.delivered
  PROVE  TellsAll(b, list)
BY DEF TellsAll, Tells

\* _emit keeps a tail of the list, no longer than Cap.
LEMMA EmitGives ==
  ASSUME NEW ev \in Seq(Events), NEW more \in Seq(Events)
  PROVE  /\ Emit(ev, more) \in Seq(Events) /\ Len(Emit(ev, more)) <= Cap
         /\ \A run : TellsAll(run, ev) /\ TellsAll(run, more) => TellsAll(run, Emit(ev, more))
<1> DEFINE all == ev \o more
           n == Len(all)
           m == IF n > Cap THEN n - Cap + 1 ELSE 1
           t == SubSeq(all, m, n)
<1>0. Cap \in Nat /\ Cap > 0
  BY ChatStreamAssumption
<1>1. /\ all \in Seq(Events) /\ n \in Nat /\ n = Len(ev) + Len(more)
      /\ \A i \in 1..n : all[i] = IF i <= Len(ev) THEN ev[i] ELSE more[i - Len(ev)]
  OBVIOUS
<1>2. Emit(ev, more) = t
  BY DEF Emit
<1> HIDE DEF all, n
<1>3. m \in Nat /\ 1 <= m /\ m <= n + 1 /\ n - m + 1 <= Cap
  BY <1>0, <1>1
<1> HIDE DEF m
<1>4. /\ t \in Seq(Events) /\ Len(t) = n - m + 1 /\ \A i \in 1..Len(t) : t[i] = all[m + i - 1]
  <2>1. Len(all) = n
    BY DEF n
  <2>2. \A i \in m..n : all[i] \in Events
    BY <1>1, <1>3, <2>1
  <2>3. t = [i \in 1..(n - m + 1) |-> all[m + i - 1]]
    BY <1>1, <1>3
  <2>4. \A i \in 1..(n - m + 1) : all[m + i - 1] \in Events
    BY <1>1, <1>3, <2>2
  <2>5. n - m + 1 \in Nat
    BY <1>1, <1>3
  <2> HIDE DEF t
  <2> QED BY SMTT(60), <2>3, <2>4, <2>5
<1> HIDE DEF t
<1>5. ASSUME NEW run, TellsAll(run, ev), TellsAll(run, more), NEW i \in 1..Len(t)
      PROVE  Tells(run, t[i])
  <2> DEFINE j == m + i - 1
  <2>1. j \in 1..n /\ t[i] = all[j]
    BY <1>1, <1>3, <1>4
  <2> HIDE DEF j
  <2>2. CASE j <= Len(ev)
    <3>1. j \in 1..Len(ev) /\ t[i] = ev[j]
      BY <1>1, <2>1, <2>2
    <3> QED BY <1>5, <3>1 DEF TellsAll
  <2>3. CASE j > Len(ev)
    <3> DEFINE h == j - Len(ev)
    <3>1. h \in 1..Len(more) /\ t[i] = more[h]
      BY <1>1, <2>1, <2>3
    <3> HIDE DEF h
    <3> QED BY <1>5, <3>1 DEF TellsAll
  <2> QED BY <1>1, <2>1, <2>2, <2>3
<1> QED BY <1>2, <1>3, <1>4, <1>5 DEF TellsAll

\* Run r becomes x: what was said of it stays true.
Extends(a, x) ==
  a.state # "none" =>
    /\ x.state # "none" /\ x.chat = a.chat /\ x.text = a.text
    /\ a.been \subseteq x.been /\ (a.delivered => x.delivered)

LEMMA RunsStep ==
  ASSUME NEW R, NEW P, RunsGood(R, P), NEW r \in Ids, NEW x \in Run,
         Extends(R[r], x), NEW P1, P1 \in Nat, P \in Nat, P <= P1,
         RunOK(x, P1, r), Len(x.ev) <= Cap
  PROVE  LET R1 == [R EXCEPT ![r] = x] IN
         RunsGood(R1, P1) /\ Grows(R, R1) /\ \A p : r = p \/ (R[r].state = "none" => x.state = "none") => Begins(R, R1, p)
<1> DEFINE R1 == [R EXCEPT ![r] = x]
<1>1. R \in [Ids -> Run]
  BY DEF RunsGood
<1>2. R1 \in [Ids -> Run] /\ R1[r] = x /\ \A q \in Ids \ {r} : R1[q] = R[q]
  BY <1>1
<1> HIDE DEF R1
<1>3. \A q \in Ids : RunOK(R[q], P, q) => RunOK(R[q], P1, q)
  BY DEF RunOK, Ids
<1>4. RunsOK(R1, P1)
  BY <1>2, <1>3 DEF RunsGood, RunsOK
<1>5. \A q \in Ids : Len(R1[q].ev) <= Cap
  BY <1>2 DEF RunsGood
<1>6. Grows(R, R1)
  BY <1>2 DEF Grows, Extends
<1>7. \A p : r = p \/ (R[r].state = "none" => x.state = "none") => Begins(R, R1, p)
  BY <1>2 DEF Begins
<1> QED BY <1>2, <1>4, <1>5, <1>6, <1>7 DEF RunsGood, R1

\* What a final state says is true once the run has reached it.
LEMMA FinalTells ==
  ASSUME NEW run, NEW s \in Final, s \in run.been
  PROVE  /\ s \in Events /\ LastEvent[s] \in Events
         /\ Tells(run, s) /\ Tells(run, LastEvent[s])
<1>1. LastEvent["COMPLETED"] = "complete" /\ LastEvent["FAILED"] = "error"
      /\ LastEvent["CANCELLED"] = "cancelled"
  BY DEF LastEvent
<1>2. \A z \in Final : LastEvent[z] # s /\ (LastEvent[z] = LastEvent[s] => z = s)
  BY <1>1 DEF Final
<1>3. s # "delivery" /\ LastEvent[s] # "delivery" /\ LastEvent[s] \notin Final
  BY <1>1 DEF Final
<1>4. s \in Events /\ LastEvent[s] \in Events
  BY <1>1 DEF Events, Final
<1> QED BY <1>2, <1>3, <1>4 DEF Tells

\* A list of one event or two.
LEMMA OneTells ==
  ASSUME NEW run, NEW a \in Events, Tells(run, a)
  PROVE  <<a>> \in Seq(Events) /\ TellsAll(run, <<a>>)
<1>1. Len(<<a>>) = 1 /\ <<a>>[1] = a
  OBVIOUS
<1> QED BY <1>1 DEF TellsAll

LEMMA TwoTells ==
  ASSUME NEW run, NEW a \in Events, NEW b \in Events, Tells(run, a), Tells(run, b)
  PROVE  <<a, b>> \in Seq(Events) /\ TellsAll(run, <<a, b>>)
<1>1. Len(<<a, b>>) = 2 /\ <<a, b>>[1] = a /\ <<a, b>>[2] = b
  OBVIOUS
<1>2. ASSUME NEW i \in 1..2 PROVE Tells(run, <<a, b>>[i])
  <2>1. i = 1 \/ i = 2
    OBVIOUS
  <2> QED BY <1>1, <2>1
<1> QED BY <1>1, <1>2 DEF TellsAll

\* What the runs hold of one run.
LEMMA RunsGive ==
  ASSUME NEW R, NEW P, RunsGood(R, P), NEW r \in Ids
  PROVE  /\ R[r] \in Run /\ RunOK(R[r], P, r) /\ TellsAll(R[r], R[r].ev) /\ R[r].ev \in Seq(Events)
         /\ Len(R[r].ev) <= Cap
<1>1. R[r] \in Run /\ RunOK(R[r], P, r) /\ Len(R[r].ev) <= Cap
  BY DEF RunsGood, RunsOK
<1>2. TellsAll(R[r], R[r].ev)
  BY <1>1 DEF RunOK, TellsAll
<1> QED BY <1>1, <1>2 DEF Run

\* A run with another list, in which the list is true.
LEMMA EndedGives ==
  ASSUME NEW a \in Run, NEW P, NEW r, RunOK(a, P, r), a.state # "none", NEW s \in Final
  PROVE  LET x == Ended(a, s) IN
         /\ x \in Run /\ RunOK(x, P, r) /\ Len(x.ev) <= Cap /\ Extends(a, x)
         /\ x.state = s
<1> DEFINE more == IF a.state = s THEN <<LastEvent[s]>> ELSE <<s, LastEvent[s]>>
           been == a.been \cup {s}
           ev == Emit(a.ev, more)
           x == Ended(a, s)
<1>1. a.ev \in Seq(Events) /\ TellsAll(a, a.ev) /\ a.been \in SUBSET Final
  BY DEF Run, RunOK, TellsAll
<1>2. x = [a EXCEPT !.state = s, !.been = been, !.ev = ev]
  BY DEF Ended
<1> HIDE DEF x
<1>3. TellsAll([a EXCEPT !.state = s, !.been = been], more) /\ more \in Seq(Events)
  <2> DEFINE b == [a EXCEPT !.state = s, !.been = been]
  <2>1. s \in b.been
    BY DEF Run
  <2> HIDE DEF b
  <2>2. /\ s \in Events /\ LastEvent[s] \in Events
        /\ Tells(b, s) /\ Tells(b, LastEvent[s])
    BY <2>1, FinalTells
  <2>3. CASE a.state = s
    BY <2>2, <2>3, OneTells DEF b
  <2>4. CASE a.state # s
    BY <2>2, <2>4, TwoTells DEF b
  <2> QED BY <2>3, <2>4
<1> HIDE DEF more
<1>4. ev \in Seq(Events) /\ Len(ev) <= Cap
  BY <1>1, <1>3, EmitGives
<1>5. been \in SUBSET Final /\ s \in been /\ a.been \subseteq been
  BY <1>1
<1> HIDE DEF been
<1>6. TellsAll([a EXCEPT !.state = s, !.been = been], ev)
  <2> DEFINE b == [a EXCEPT !.state = s, !.been = been]
  <2>1. a.been \subseteq b.been /\ (a.delivered => b.delivered)
    BY <1>5 DEF Run
  <2>2. TellsAll(b, more)
    BY <1>3
  <2> HIDE DEF b
  <2>3. TellsAll(b, a.ev)
    BY <1>1, <2>1, TellsMore
  <2>4. TellsAll(b, ev)
    BY <1>1, <1>3, <2>2, <2>3, EmitGives
  <2> QED BY <2>4 DEF b
<1> HIDE DEF ev
<1>7. /\ x \in Run /\ x.state = s /\ x.been = been /\ x.ev = ev /\ x.chat = a.chat
      /\ x.text = a.text /\ x.delivered = a.delivered
  BY <1>2, <1>4, <1>5 DEF Run
<1>8. TellsAll(x, ev)
  <2> DEFINE b == [a EXCEPT !.state = s, !.been = been]
  <2>1. b.been = been /\ b.delivered = a.delivered
    BY DEF Run
  <2>2. TellsAll(b, ev)
    BY <1>6
  <2> HIDE DEF b
  <2> QED BY <1>7, <2>1, <2>2, TellsMore
<1>9. s \notin {"none", "DELIVERED"}
  BY DEF Final
<1>10. RunOK(x, P, r)
  BY <1>5, <1>7, <1>8, <1>9 DEF RunOK, TellsAll
<1>11. Extends(a, x)
  BY <1>5, <1>7, <1>9 DEF Extends
<1> QED BY <1>4, <1>7, <1>10, <1>11 DEF x

\* Cancelled.
LEMMA CancelledGives ==
  ASSUME NEW a \in Run, NEW P, NEW r, RunOK(a, P, r), a.state # "none"
  PROVE  LET x == Cancelled(a) IN
         /\ x \in Run /\ RunOK(x, P, r) /\ Len(x.ev) <= Cap /\ Extends(a, x)
         /\ x.state \in Final
<1> DEFINE y == Ended(a, "CANCELLED")
           x == Cancelled(a)
           ev == Emit(y.ev, <<"cancelled">>)
<1>0. "CANCELLED" \in Final /\ LastEvent["CANCELLED"] = "cancelled"
  BY DEF Final, LastEvent
<1>1. /\ y \in Run /\ RunOK(y, P, r) /\ Len(y.ev) <= Cap /\ Extends(a, y)
      /\ y.state = "CANCELLED"
  BY <1>0, EndedGives
<1> HIDE DEF y
<1>2. "CANCELLED" \in y.been /\ y.ev \in Seq(Events) /\ TellsAll(y, y.ev)
  BY <1>0, <1>1 DEF RunOK, TellsAll, Run
<1>3. "cancelled" \in Events /\ Tells(y, "cancelled")
  BY <1>0, <1>2, FinalTells
<1>4. <<"cancelled">> \in Seq(Events) /\ TellsAll(y, <<"cancelled">>)
  BY <1>3, OneTells
<1>5. ev \in Seq(Events) /\ Len(ev) <= Cap /\ TellsAll(y, ev)
  BY <1>2, <1>4, EmitGives
<1> HIDE DEF ev
<1>6. x = y \/ x = [y EXCEPT !.ev = ev]
  BY DEF Cancelled, y, ev
<1> HIDE DEF x
<1>7. CASE x = y
  BY <1>0, <1>1, <1>7 DEF x
<1>8. CASE x = [y EXCEPT !.ev = ev]
  <2>1. /\ x \in Run /\ x.state = y.state /\ x.been = y.been /\ x.ev = ev /\ x.chat = y.chat
        /\ x.text = y.text /\ x.delivered = y.delivered
    BY <1>1, <1>5, <1>8 DEF Run
  <2>2. TellsAll(x, ev)
    BY <1>5, <2>1, TellsMore
  <2>3. RunOK(x, P, r)
    BY <1>1, <2>1, <2>2 DEF RunOK, TellsAll
  <2>4. Extends(a, x)
    BY <1>1, <2>1 DEF Extends
  <2> QED BY <1>0, <1>1, <1>5, <2>1, <2>3, <2>4 DEF x
<1> QED BY <1>6, <1>7, <1>8

\* Delivers.
LEMMA DeliversGives ==
  ASSUME NEW a \in Run, NEW P, NEW r, RunOK(a, P, r), a.state = "SENDING",
         NEW x, x = [a EXCEPT !.state = "DELIVERED", !.delivered = TRUE,
                              !.ev = Emit(a.ev, <<"delivery">>)]
  PROVE  x \in Run /\ RunOK(x, P, r) /\ Len(x.ev) <= Cap /\ Extends(a, x)
<1> DEFINE ev == Emit(a.ev, <<"delivery">>)
           b == [a EXCEPT !.state = "DELIVERED", !.delivered = TRUE]
<1>1. a.ev \in Seq(Events) /\ TellsAll(a, a.ev) /\ a.been \in SUBSET Final
  BY DEF Run, RunOK, TellsAll
<1>2. b.delivered /\ b.been = a.been
  BY DEF Run
<1> HIDE DEF b
<1>3. "delivery" \in Events /\ Tells(b, "delivery")
  BY <1>2 DEF Events, Tells, Final, LastEvent
<1>4. <<"delivery">> \in Seq(Events) /\ TellsAll(b, <<"delivery">>)
  BY <1>3, OneTells
<1>5. TellsAll(b, a.ev)
  BY <1>1, <1>2, TellsMore
<1>6. ev \in Seq(Events) /\ Len(ev) <= Cap /\ TellsAll(b, ev)
  BY <1>1, <1>4, <1>5, EmitGives
<1>7. x = [a EXCEPT !.state = "DELIVERED", !.delivered = TRUE, !.ev = ev]
  OBVIOUS
<1> HIDE DEF ev
<1>8. /\ x \in Run /\ x.state = "DELIVERED" /\ x.delivered = TRUE /\ x.ev = ev /\ x.been = a.been
      /\ x.chat = a.chat /\ x.text = a.text
  BY <1>6, <1>7 DEF Run
<1>9. TellsAll(x, ev)
  BY <1>2, <1>6, <1>8, TellsMore
<1>10. RunOK(x, P, r)
  BY <1>8, <1>9 DEF RunOK, TellsAll, Final
<1>11. Extends(a, x)
  BY <1>8 DEF Extends
<1> QED BY <1>6, <1>8, <1>10, <1>11

\* CancelRead of a run under way.
LEMMA StopGives ==
  ASSUME NEW a \in Run, NEW P, NEW r, RunOK(a, P, r), NEW x, x = [a EXCEPT !.stop = TRUE]
  PROVE  x \in Run /\ RunOK(x, P, r) /\ x.ev = a.ev /\ Extends(a, x)
<1>1. /\ x \in Run /\ x.state = a.state /\ x.delivered = a.delivered /\ x.ev = a.ev
      /\ x.been = a.been /\ x.chat = a.chat /\ x.text = a.text
  BY DEF Run
<1>2. RunOK(x, P, r)
  BY <1>1 DEF RunOK, Tells
<1> QED BY <1>1, <1>2 DEF Extends

\* Send: a run to come gets its text.
LEMMA SentGives ==
  ASSUME NEW a \in Run, NEW P, NEW r, RunOK(a, P, r), a.state = "none", NEW P1,
         NEW t \in Nat, NEW x, x = [a EXCEPT !.text = t]
  PROVE  x \in Run /\ RunOK(x, P1, r) /\ x.ev = a.ev /\ Extends(a, x) /\ x.state = "none"
<1>1. /\ x \in Run /\ x.state = a.state /\ x.delivered = a.delivered /\ x.ev = a.ev
      /\ x.been = a.been /\ x.chat = a.chat
  BY DEF Run
<1>2. RunOK(x, P1, r)
  BY <1>1 DEF RunOK, Tells
<1> QED BY <1>1, <1>2 DEF Extends

\* The backend creates a run.
Founded(a, k, r) ==
  [a EXCEPT !.state = "SENDING",
            !.new = k \in Provisional, !.chat = IF k \in Provisional THEN r ELSE k]

LEMMA CreatedGives ==
  ASSUME NEW a \in Run, NEW P, NEW r \in Ids, RunOK(a, P, r), a.state = "none", r <= P, P \in Nat,
         NEW k \in Keys,
         NEW x, x = Founded(a, k, r)
  PROVE  /\ x \in Run /\ RunOK(x, P, r) /\ x.ev = a.ev /\ Extends(a, x)
         /\ x.state = "SENDING" /\ (k \in Ids => x.chat = k) /\ x.text = a.text
<1> DEFINE n == k \in Provisional
           c == IF k \in Provisional THEN r ELSE k
<1>1. n \in BOOLEAN /\ c \in Ids /\ c \in 0..MaxPosts /\ c # 0 /\ (k \in Ids => c = k)
  BY ChatStreamAssumption DEF Keys, Ids
<1>2. x = [a EXCEPT !.state = "SENDING", !.new = n, !.chat = c]
  BY DEF Founded
<1> HIDE DEF n, c
<1>3. /\ x \in Run /\ x.state = "SENDING" /\ x.delivered = a.delivered /\ x.ev = a.ev
      /\ x.been = a.been /\ x.chat = c /\ x.text = a.text
  BY <1>1, <1>2 DEF Run
<1>4. RunOK(x, P, r)
  BY <1>1, <1>3 DEF RunOK, Tells, Ids, Final
<1> QED BY <1>1, <1>3, <1>4 DEF Extends
-----------------------------------------------------------------------------
(* The actions.                                                            *)

\* What the invariant says, as the lemmas about a page and about runs say it.
LEMMA InvGives ==
  ASSUME ChatInv
  PROVE  /\ Good(ui, runs, typed, posted, posts) /\ RunsGood(runs, posted)
         /\ posted \in 0..MaxPosts /\ typed \in 0..MaxTexts /\ posted \in Nat /\ typed \in Nat
         /\ gone \subseteq 1..typed /\ open \subseteq Provisional /\ mishaps \in 0..MaxMishaps
<1>1. TypeOK /\ PageOK(ui, runs, typed, posted, posts) /\ RunsOK(runs, posted)
  BY DEF ChatInv
<1>2. posted \in Nat /\ typed \in Nat
  BY <1>1, ChatStreamAssumption DEF TypeOK
<1>3. posts \in [Keys -> Nat]
  BY <1>1, <1>2 DEF TypeOK
<1>4. Good(ui, runs, typed, posted, posts)
  BY <1>1, <1>2, <1>3 DEF Good, TypeOK
<1>5. RunsGood(runs, posted)
  BY <1>1 DEF RunsGood, TypeOK
<1> QED BY <1>1, <1>2, <1>4, <1>5 DEF TypeOK

\* The types that follow.
LEMMA GoodTyped ==
  ASSUME NEW u, NEW Q, NEW R, NEW T, NEW P, Good(u, R, T, P, Q)
  PROVE  /\ \A k \in Keys : u.entry[k] # None => u.entry[k].draft <= T /\ u.entry[k].run <= P
         /\ Q \in [Keys -> 0..P]
         /\ u.conflict.from # None => u.conflict.from \in Provisional
<1>1. \A k \in Keys : EntryOK(R, T, P, k, u.entry[k]) /\ Q[k] \in 0..P
  <2> TAKE k \in Keys
  <2>1. PICK tn \in BOOLEAN :
           SlotOK(R, T, P, k, u.entry[k], u.stream[k], u.rec[k], u.can[k], u.epoch[k], tn, Q[k])
    BY KeyHolds
  <2>2. EntryOK(R, T, P, k, u.entry[k]) /\ (Q[k] # 0 => Q[k] <= P)
    BY <2>1 DEF SlotOK, PostOK
  <2> QED BY <2>2 DEF Good
<1>2. \A k \in Keys : u.entry[k] # None => u.entry[k].draft <= T /\ u.entry[k].run <= P
  BY <1>1 DEF EntryOK
<1>3. Q \in [Keys -> 0..P]
  BY <1>1 DEF Good
<1>4. u.conflict # NoConflict => u.conflict.from \in Provisional
  BY DEF Good, PageOK, ConflictOK
<1>5. u.conflict = NoConflict => u.conflict.from = None
  BY DEF NoConflict
<1> QED BY <1>2, <1>3, <1>4, <1>5

\* A step that shows a page.
LEMMA ShowStep ==
  ASSUME ChatInv, NEW u, Show(u), Good(u, runs', typed', posted', posts'), RunsGood(runs', posted'),
         posted' \in 0..MaxPosts, typed' \in 0..MaxTexts,
         gone' \subseteq 1..typed', mishaps' \in 0..MaxMishaps
  PROVE  ChatInv'
<1>1. ui' = u /\ open' \subseteq open \cup ({u.conflict.from} \ {None})
  BY DEF Show
<1>2. open' \subseteq Provisional
  BY <1>1, InvGives, GoodTyped
<1>3. /\ \A k \in Keys : u.entry[k] # None => u.entry[k].draft <= typed' /\ u.entry[k].run <= posted'
      /\ posts' \in [Keys -> 0..posted']
  BY GoodTyped
<1>4. u \in PageState /\ PageOK(u, runs', typed', posted', posts')
  BY DEF Good
<1>5. /\ runs' \in [Ids -> Run] /\ RunsOK(runs', posted')
      /\ \A r \in Ids : Len(runs'[r].ev) <= Cap
  BY DEF RunsGood
<1>6. TypeOK'
  BY <1>1, <1>2, <1>3, <1>4, <1>5 DEF TypeOK, Has
<1> QED BY <1>1, <1>4, <1>5, <1>6 DEF ChatInv

\* A callback that changes the page alone.
LEMMA PageOnly ==
  ASSUME ChatInv, NEW u, Show(u), Good(u, runs, typed, posted, posts),
         UNCHANGED <<runs, typed, posted, posts, gone>>, mishaps' = mishaps \/ Mishap
  PROVE  ChatInv'
<1>1. mishaps' \in 0..MaxMishaps
  BY InvGives, ChatStreamAssumption DEF Mishap
<1>2. /\ Good(u, runs', typed', posted', posts') /\ RunsGood(runs', posted')
      /\ posted' \in 0..MaxPosts /\ typed' \in 0..MaxTexts /\ gone' \subseteq 1..typed'
  BY InvGives
<1> QED BY <1>1, <1>2, ShowStep

\* A step of the backend alone.
LEMMA RunsOnly ==
  ASSUME ChatInv, NEW r \in Ids, NEW x \in Run, runs[r].state # "none",
         Extends(runs[r], x), RunOK(x, posted, r), Len(x.ev) <= Cap, runs' = [runs EXCEPT ![r] = x],
         UNCHANGED <<ui, typed, posted, posts, gone, open, mishaps>>
  PROVE  ChatInv'
<1>1. RunsGood(runs', posted) /\ Grows(runs, runs') /\ Begins(runs, runs', 0)
  <2> DEFINE R1 == [runs EXCEPT ![r] = x]
  <2>1. RunsGood(runs, posted) /\ posted \in Nat /\ posted <= posted
    BY InvGives
  <2>2. /\ RunsGood(R1, posted) /\ Grows(runs, R1)
        /\ \A p : r = p \/ (runs[r].state = "none" => x.state = "none") => Begins(runs, R1, p)
    BY <2>1, RunsStep
  <2>3. R1 = runs'
    OBVIOUS
  <2> HIDE DEF R1
  <2> QED BY <2>2, <2>3
<1>2. runs' \in [Ids -> Run]
  BY <1>1 DEF RunsGood
<1>3. Good(ui, runs', typed, posted, posts)
  BY <1>1, <1>2, InvGives, CallRuns
<1>4. TypeOK /\ TypeOK'
  BY <1>1 DEF ChatInv, TypeOK, RunsGood, Has
<1> QED BY <1>1, <1>3, <1>4 DEF ChatInv, Good, RunsGood

LEMMA StepCancel == ASSUME ChatInv, NEW k \in Keys, Cancel(k) PROVE ChatInv'
<1> DEFINE u == StartCancellation(ui, k, ui.entry[k].run, ui.entry[k].epoch)
<1>1. Good(u, runs, typed, posted, posts)
  BY InvGives, CallCancel DEF Cancel
<1>2. Show(u) /\ UNCHANGED <<runs, typed, posted, posts, gone, mishaps>>
  BY DEF Cancel
<1> HIDE DEF u
<1> QED BY <1>1, <1>2, PageOnly

LEMMA StepRetry == ASSUME ChatInv, NEW k \in Keys, Retry(k) PROVE ChatInv'
<1> DEFINE u == StartRecovery(ui, k, ui.entry[k].run, ui.entry[k].epoch)
<1>1. Good(u, runs, typed, posted, posts)
  BY InvGives, CallRetry DEF Retry
<1>2. Show(u) /\ UNCHANGED <<runs, typed, posted, posts, gone, mishaps>>
  BY DEF Retry
<1> HIDE DEF u
<1> QED BY <1>1, <1>2, PageOnly

LEMMA StepDisconnected ==
  ASSUME ChatInv, NEW k \in Keys, ui.stream[k] # None, Disconnected(k),
         UNCHANGED <<runs, typed, posted, posts, gone>>, mishaps' = mishaps \/ Mishap
  PROVE  ChatInv'
<1> DEFINE b == ui.stream[k]
           x == CloseBinding(ui, k)
           asked == ui.can[k] # None /\ ui.can[k].run = b.run /\ ui.can[k].epoch = b.epoch
<1>1. b \in Stream
  BY InvGives, KeyTyped DEF Good, Streams
<1>2. /\ asked \/ ~MayRecover(x, k, b.epoch) => Good(x, runs, typed, posted, posts)
      /\ ~asked /\ MayRecover(x, k, b.epoch) =>
           /\ Good(StartRecovery(x, k, b.run, b.epoch), runs, typed, posted, posts)
           /\ Good(Exhausted(x, k, b.run, b.epoch), runs, typed, posted, posts)
  BY <1>1, InvGives, CallDisconnected
<1>3. \/ (asked \/ ~MayRecover(x, k, b.epoch)) /\ Show(x)
      \/ /\ ~asked /\ MayRecover(x, k, b.epoch)
         /\ Show(StartRecovery(x, k, b.run, b.epoch)) \/ Show(Exhausted(x, k, b.run, b.epoch))
  BY DEF Disconnected
<1>4. \E u : Show(u) /\ Good(u, runs, typed, posted, posts)
  BY <1>2, <1>3
<1> HIDE DEF b, x, asked
<1> QED BY <1>4, PageOnly

LEMMA StepCloses == ASSUME ChatInv, NEW k \in Keys, Closes(k) PROVE ChatInv'
BY StepDisconnected DEF Closes

LEMMA StepBreaks == ASSUME ChatInv, NEW k \in Keys, Breaks(k) PROVE ChatInv'
BY StepDisconnected DEF Breaks

LEMMA StepGivesUp == ASSUME ChatInv, NEW k \in Keys, GivesUp(k) PROVE ChatInv'
<1> DEFINE u == Exhausted(FinishRecovery(ui, k), k, ui.rec[k].run, ui.rec[k].epoch)
<1>1. Good(u, runs, typed, posted, posts)
  BY InvGives, CallGivesUp DEF GivesUp, Current
<1>2. Show(u) /\ UNCHANGED <<runs, typed, posted, posts, gone>> /\ Mishap
  BY DEF GivesUp
<1> HIDE DEF u
<1> QED BY <1>1, <1>2, PageOnly

LEMMA StepRefresh == ASSUME ChatInv, Refresh PROVE ChatInv'
<1>1. PICK listed \in SUBSET {runs[r].chat : r \in {q \in Ids : runs[q].delivered}},
           selected \in Provisional \cup {None} :
         /\ \A k \in Ids : Has(ui, k) /\ ui.entry[k].run # 0 => k \in listed
         /\ Show(Summaries(ui, listed, selected))
  BY DEF Refresh
<1>2. \A r \in Ids : runs[r].delivered => runs[r].chat \in Ids
  BY SMTT(60), InvGives, ChatStreamAssumption DEF RunsGood, RunsOK, RunOK, Run, Ids
<1>3. listed \in SUBSET Ids
  BY <1>1, <1>2
<1>4. Good(Summaries(ui, listed, selected), runs, typed, posted, posts)
  BY <1>1, <1>3, InvGives, CallRefresh
<1>5. UNCHANGED <<runs, typed, posted, posts, gone, mishaps>>
  BY DEF Refresh
<1> QED BY <1>1, <1>4, <1>5, PageOnly

LEMMA StepResolve ==
  ASSUME ChatInv, NEW choice \in {"source", "target"}, Resolve(choice)
  PROVE  ChatInv'
<1> DEFINE f == ui.conflict.from
           t == ui.conflict.to
           x == Resolved(ui, choice)
           u == RekeyHook(x, f, t, choice, x.entry[t].epoch)
           j == IF choice = "source" THEN t ELSE f
<1>1. Good(u, runs, typed, posted, posts)
  BY InvGives, CallResolve DEF Resolve
<1>2. /\ Show(u) /\ UNCHANGED <<runs, typed, posted, posts, mishaps>>
      /\ gone' = gone \cup ({ui.entry[j].draft} \ {0})
  BY DEF Resolve
<1>3. j \in Keys /\ ui.entry[j] # None
  <2>1. MayResolve(ui)
    BY DEF Resolve
  <2>2. ui.conflict # NoConflict /\ ui.conflict \in [from : Keys, to : Ids] \cup {NoConflict}
    BY <2>1, InvGives DEF MayResolve, Good, PageState
  <2> QED BY <2>1, <2>2 DEF MayResolve, Has, Keys
<1>4. ui.entry[j].draft <= typed /\ ui.entry[j].draft \in Nat
  <2>1. ui.entry[j].draft <= typed
    BY <1>3, InvGives, GoodTyped
  <2>2. ui.entry[j] \in Entry
    BY <1>3, InvGives DEF Good, PageState
  <2> QED BY <2>1, <2>2 DEF Entry
<1>5. gone' \subseteq 1..typed'
  BY <1>2, <1>4, InvGives
<1> HIDE DEF u
<1>6. /\ Good(u, runs', typed', posted', posts') /\ RunsGood(runs', posted')
      /\ posted' \in 0..MaxPosts /\ typed' \in 0..MaxTexts /\ mishaps' \in 0..MaxMishaps
  BY <1>1, <1>2, InvGives
<1> QED BY <1>2, <1>5, <1>6, ShowStep

LEMMA StepType == ASSUME ChatInv, NEW k \in Keys, Type(k) PROVE ChatInv'
<1> DEFINE u == DraftChanged(ui, k, typed + 1)
<1>1. Has(ui, k) /\ typed < MaxTexts /\ typed' = typed + 1 /\ Show(u)
  BY DEF Type, MayEdit
<1>2. Good(u, runs, typed + 1, posted, posts)
  BY <1>1, InvGives, CallType
<1>3. UNCHANGED <<runs, posted, posts, mishaps>>
  BY DEF Type
<1>4. ui.entry[k].draft <= typed /\ ui.entry[k].draft \in Nat
  <2>1. ui.entry[k].draft <= typed
    BY <1>1, InvGives, GoodTyped DEF Has
  <2>2. ui.entry[k] \in Entry
    BY <1>1, InvGives DEF Good, PageState, Has
  <2> QED BY <2>1, <2>2 DEF Entry
<1>5. gone' \subseteq 1..typed'
  BY <1>1, <1>4, InvGives DEF Type
<1>6. typed' \in 0..MaxTexts
  BY <1>1, InvGives, ChatStreamAssumption
<1> HIDE DEF u
<1>7. /\ Good(u, runs', typed', posted', posts') /\ RunsGood(runs', posted')
      /\ posted' \in 0..MaxPosts /\ mishaps' \in 0..MaxMishaps
  BY <1>1, <1>2, <1>3, InvGives
<1> QED BY <1>1, <1>5, <1>6, <1>7, ShowStep

\* The backend delivers, or ends, a run.
LEMMA StepDelivers == ASSUME ChatInv, NEW r \in Ids, Delivers(r) PROVE ChatInv'
<1> DEFINE x == [runs[r] EXCEPT !.state = "DELIVERED", !.delivered = TRUE,
                                !.ev = Emit(runs[r].ev, <<"delivery">>)]
<1>1. runs[r] \in Run /\ RunOK(runs[r], posted, r)
  BY InvGives, RunsGive
<1>2. runs[r].state = "SENDING"
  BY DEF Delivers
<1>3. x \in Run /\ RunOK(x, posted, r) /\ Len(x.ev) <= Cap /\ Extends(runs[r], x)
  BY <1>1, <1>2, DeliversGives
<1>4. /\ runs' = [runs EXCEPT ![r] = x]
      /\ UNCHANGED <<ui, typed, posted, posts, gone, open, mishaps>>
  BY DEF Delivers
<1> HIDE DEF x
<1> QED BY <1>2, <1>3, <1>4, RunsOnly

LEMMA StepEnds == ASSUME ChatInv, NEW r \in Ids, Ends(r) PROVE ChatInv'
<1>1. runs[r] \in Run /\ RunOK(runs[r], posted, r) /\ runs \in [Ids -> Run]
  BY InvGives, RunsGive DEF RunsGood
<1>2. runs[r].state # "none"
  BY DEF Ends, Alive
<1>3. PICK s \in Final : runs' = [runs EXCEPT ![r] = Ended(runs[r], s)]
  BY <1>1 DEF Ends
<1> DEFINE x == Ended(runs[r], s)
<1>4. x \in Run /\ RunOK(x, posted, r) /\ Len(x.ev) <= Cap /\ Extends(runs[r], x)
  BY <1>1, <1>2, EndedGives
<1>5. UNCHANGED <<ui, typed, posted, posts, gone, open, mishaps>>
  BY DEF Ends
<1>6. runs' = [runs EXCEPT ![r] = x]
  BY <1>3
<1> HIDE DEF x
<1> QED BY <1>2, <1>4, <1>5, <1>6, RunsOnly

\* The runs when one that exists changes.
LEMMA RunsChange ==
  ASSUME ChatInv, NEW r \in Ids, NEW x \in Run, runs[r].state # "none",
         Extends(runs[r], x), RunOK(x, posted, r), Len(x.ev) <= Cap, NEW R1,
         R1 = [runs EXCEPT ![r] = x]
  PROVE  /\ Good(ui, R1, typed, posted, posts) /\ RunsGood(R1, posted) /\ R1[r] = x
         /\ Grows(runs, R1)
<1>1. RunsGood(runs, posted) /\ posted \in Nat /\ posted <= posted /\ runs \in [Ids -> Run]
  BY InvGives DEF RunsGood
<1>2. /\ RunsGood(R1, posted) /\ Grows(runs, R1)
      /\ \A p : r = p \/ (runs[r].state = "none" => x.state = "none") => Begins(runs, R1, p)
  <2> DEFINE R2 == [runs EXCEPT ![r] = x]
  <2>1. /\ RunsGood(R2, posted) /\ Grows(runs, R2)
        /\ \A p : r = p \/ (runs[r].state = "none" => x.state = "none") => Begins(runs, R2, p)
    BY <1>1, RunsStep
  <2>2. R1 = R2
    OBVIOUS
  <2> HIDE DEF R2
  <2> QED BY <2>1, <2>2
<1>3. R1 \in [Ids -> Run] /\ Begins(runs, R1, 0)
  BY <1>2 DEF RunsGood
<1> QED BY <1>1, <1>2, <1>3, InvGives, CallRuns

\* What the hook cancels for a key, and its run.
LEMMA CanGives ==
  ASSUME ChatInv, NEW k \in Keys, ui.can[k] # None
  PROVE  /\ ui.can[k] \in Cancellation /\ ui.can[k].run \in Ids
         /\ runs[ui.can[k].run].state # "none" /\ runs[ui.can[k].run] \in Run
         /\ RunOK(runs[ui.can[k].run], posted, ui.can[k].run)
         /\ Len(runs[ui.can[k].run].ev) <= Cap
<1>1. PICK tn \in BOOLEAN :
         SlotOK(runs, typed, posted, k, ui.entry[k], ui.stream[k], ui.rec[k], ui.can[k], ui.epoch[k],
                tn, posts[k])
  BY InvGives, KeyHolds
<1>2. ui.can[k].run \in Ids /\ runs[ui.can[k].run].state # "none"
  BY <1>1 DEF SlotOK, HookOK, RunOf
<1>3. ui.can[k] \in Cancellation
  BY InvGives DEF Good, PageState
<1> QED BY <1>2, <1>3, InvGives, RunsGive

\* What the backend did of it, at any time.
LEMMA CancelledStep ==
  ASSUME ChatInv, NEW k \in Keys, ui.can[k] # None, NEW R1,
         R1 = [runs EXCEPT ![ui.can[k].run] = Cancelled(runs[ui.can[k].run])]
  PROVE  /\ Good(ui, R1, typed, posted, posts) /\ RunsGood(R1, posted) /\ Grows(runs, R1)
         /\ R1[ui.can[k].run].state \in Final
<1> DEFINE r == ui.can[k].run
           x == Cancelled(runs[r])
<1>1. r \in Ids /\ runs[r].state # "none" /\ runs[r] \in Run /\ RunOK(runs[r], posted, r)
  BY CanGives
<1>2. x \in Run /\ RunOK(x, posted, r) /\ Len(x.ev) <= Cap /\ Extends(runs[r], x) /\ x.state \in Final
  BY <1>1, CancelledGives
<1>3. R1 = [runs EXCEPT ![r] = x]
  OBVIOUS
<1> HIDE DEF r, x
<1>4. Good(ui, R1, typed, posted, posts) /\ RunsGood(R1, posted) /\ R1[r] = x /\ Grows(runs, R1)
  BY <1>1, <1>2, <1>3, RunsChange
<1>5. R1[r].state \in Final
  BY <1>2, <1>4
<1> QED BY <1>4, <1>5 DEF r

\* The callback of a cancellation.
LEMMA StepFails == ASSUME ChatInv, NEW k \in Keys, CancelFails(k) PROVE ChatInv'
<1> DEFINE t == ui.can[k]
           x == FinishCancellation(ui, k)
           b == ui.stream[k]
           told == b # None /\ b.run = t.run /\ b.epoch = t.epoch
<1>1. t # None /\ Mishap /\ UNCHANGED <<posts, posted, typed, gone>>
  BY DEF CancelFails
<1>2. t \in Cancellation /\ runs \in [Ids -> Run]
  BY <1>1, CanGives, InvGives DEF RunsGood
<1>3. Good(ui, runs', typed, posted, posts) /\ RunsGood(runs', posted)
  <2>1. runs' = runs \/ runs' = [runs EXCEPT ![t.run] = Cancelled(runs[t.run])]
    BY <1>2 DEF CancelFails
  <2>2. CASE runs' = runs
    BY <2>2, InvGives
  <2>3. CASE runs' = [runs EXCEPT ![t.run] = Cancelled(runs[t.run])]
    BY <1>1, <2>3, CancelledStep
  <2> QED BY <2>1, <2>2, <2>3
<1>4. /\ told => Good(x, runs', typed, posted, posts)
      /\ ~told /\ MayRecover(x, k, t.epoch) =>
           Good(StartRecovery(x, k, t.run, t.epoch), runs', typed, posted, posts)
      /\ ~told => Good(Exhausted(x, k, t.run, t.epoch), runs', typed, posted, posts)
  BY <1>2, <1>3, CallCancelFails
<1>5. \/ told /\ Show(x)
      \/ ~told /\ MayRecover(x, k, t.epoch) /\ Show(StartRecovery(x, k, t.run, t.epoch))
      \/ ~told /\ Show(Exhausted(x, k, t.run, t.epoch))
  BY DEF CancelFails
<1>6. PICK u : Show(u) /\ Good(u, runs', typed, posted, posts)
  BY <1>4, <1>5
<1>7. mishaps' \in 0..MaxMishaps
  BY <1>1, InvGives, ChatStreamAssumption DEF Mishap
<1>8. /\ Good(u, runs', typed', posted', posts') /\ RunsGood(runs', posted')
      /\ posted' \in 0..MaxPosts /\ typed' \in 0..MaxTexts /\ gone' \subseteq 1..typed'
  BY <1>1, <1>3, <1>6, InvGives
<1> QED BY <1>6, <1>7, <1>8, ShowStep

\* CancelTold, as the lemmas about a page say it.
LEMMA ToldShows ==
  ASSUME NEW k, NEW run, CancelTold(k, run)
  PROVE  Show(Arrived(RunSnapshot(Drop(ui, {k}), k, ui.can[k].run, ui.can[k].epoch, run.state,
                                  run.delivered), k, ui.can[k], run))
BY DEF CancelTold, Arrived

LEMMA StepRead == ASSUME ChatInv, NEW k \in Keys, CancelRead(k) PROVE ChatInv'
<1> DEFINE t == ui.can[k]
           r == t.run
<1>1. t # None /\ UNCHANGED <<posts, posted, typed, gone, mishaps>>
  BY DEF CancelRead
<1>2. /\ t \in Cancellation /\ r \in Ids /\ runs[r].state # "none" /\ runs[r] \in Run
      /\ RunOK(runs[r], posted, r) /\ Len(runs[r].ev) <= Cap
  BY <1>1, CanGives
<1>3. CASE runs[r].state \in Final
  <2> DEFINE u == Arrived(RunSnapshot(Drop(ui, {k}), k, t.run, t.epoch, runs[r].state,
                                      runs[r].delivered), k, t, runs[r])
  <2>1. CancelTold(k, runs[r]) /\ UNCHANGED runs
    BY <1>3 DEF CancelRead
  <2>2. Show(u)
    BY <2>1, ToldShows
  <2>3. RunsOK(runs, posted)
    BY InvGives DEF RunsGood
  <2>4. Good(u, runs, typed, posted, posts)
    BY <1>2, <1>3, <2>3, InvGives, CallAnswer
  <2> HIDE DEF u
  <2> QED BY <1>1, <2>1, <2>2, <2>4, PageOnly
<1>4. CASE runs[r].state \notin Final
  <2> DEFINE u == [ui EXCEPT !.can = [@ EXCEPT ![k] = [ui.can[k] EXCEPT !.at = "stopping"]]]
             x == [runs[r] EXCEPT !.stop = TRUE]
  <2>1. Show(u) /\ runs' = [runs EXCEPT ![r].stop = TRUE]
    BY <1>4 DEF CancelRead
  <2>2. runs' = [runs EXCEPT ![r] = x]
    BY <2>1, InvGives DEF RunsGood
  <2>3. x \in Run /\ RunOK(x, posted, r) /\ x.ev = runs[r].ev /\ Extends(runs[r], x)
    BY <1>2, StopGives
  <2> HIDE DEF r, x
  <2>4. Good(ui, runs', typed, posted, posts) /\ RunsGood(runs', posted)
    BY <1>2, <2>2, <2>3, RunsChange
  <2>5. Good(u, runs', typed, posted, posts)
    BY <1>1, <2>4, CallStopping
  <2> HIDE DEF u
  <2>6. /\ Good(u, runs', typed', posted', posts') /\ RunsGood(runs', posted')
        /\ posted' \in 0..MaxPosts /\ typed' \in 0..MaxTexts /\ gone' \subseteq 1..typed'
        /\ mishaps' \in 0..MaxMishaps
    BY <1>1, <2>4, <2>5, InvGives
  <2> QED BY <2>1, <2>6, ShowStep
<1> QED BY <1>3, <1>4

LEMMA StepDone == ASSUME ChatInv, NEW k \in Keys, CancelDone(k) PROVE ChatInv'
<1> DEFINE t == ui.can[k]
           u == Arrived(RunSnapshot(Drop(ui, {k}), k, t.run, t.epoch, runs'[t.run].state,
                                    runs'[t.run].delivered), k, t, runs'[t.run])
<1>1. t # None /\ UNCHANGED <<posts, posted, typed, gone, mishaps>> /\ CancelTold(k, runs'[t.run])
  BY DEF CancelDone
<1>2. t \in Cancellation /\ runs \in [Ids -> Run]
  BY <1>1, CanGives, InvGives DEF RunsGood
<1>3. runs' = [runs EXCEPT ![t.run] = Cancelled(runs[t.run])]
  BY <1>2 DEF CancelDone
<1>4. /\ Good(ui, runs', typed, posted, posts) /\ RunsGood(runs', posted)
      /\ runs'[t.run].state \in Final
  BY <1>1, <1>3, CancelledStep
<1>5. Show(u)
  BY <1>1, ToldShows
<1>6. RunsOK(runs', posted)
  BY <1>4 DEF RunsGood
<1>7. Good(u, runs', typed, posted, posts)
  BY <1>2, <1>4, <1>6, CallAnswer
<1> HIDE DEF u
<1>8. /\ Good(u, runs', typed', posted', posts') /\ RunsGood(runs', posted')
      /\ posted' \in 0..MaxPosts /\ typed' \in 0..MaxTexts /\ gone' \subseteq 1..typed'
      /\ mishaps' \in 0..MaxMishaps
  BY <1>1, <1>4, <1>7, InvGives
<1> QED BY <1>5, <1>8, ShowStep

LEMMA StepMessage == ASSUME ChatInv, NEW k \in Keys, Message(k) PROVE ChatInv'
<1> DEFINE b == ui.stream[k]
           n == b.sent + 1
           ev == runs[b.run].ev[n]
           b1 == [b EXCEPT !.sent = b.sent + 1]
           y == StreamEvent([ui EXCEPT !.stream = [ui.stream EXCEPT ![k] = b1]], k, b.run, b.epoch, ev)
           u == Shows(y, k, runs[b.run].chat, b.epoch, ev)
<1>1. /\ b # None /\ b.sent < Len(runs[b.run].ev)
      /\ UNCHANGED <<runs, typed, posted, posts, gone, mishaps>>
  BY DEF Message
<1>2. b \in Stream
  BY <1>1, InvGives DEF Good, PageState
<1>3. b.run \in Ids /\ b1 \in Stream /\ b1.run = b.run /\ b1.epoch = b.epoch
  BY <1>2 DEF Stream
<1>4. runs[b.run].ev \in Seq(Events) /\ TellsAll(runs[b.run], runs[b.run].ev)
  BY <1>3, InvGives, RunsGive
<1>5. n \in 1..Len(runs[b.run].ev)
  BY SMTT(60), <1>1, <1>2, <1>4 DEF Stream
<1>6. ev \in Events /\ Tells(runs[b.run], ev)
  BY <1>4, <1>5 DEF TellsAll
<1>7. RunsOK(runs, posted)
  BY InvGives DEF RunsGood
<1>8. Show(u)
  BY DEF Message, Shows, Carried
<1> HIDE DEF ev, b1
<1>9. Good(u, runs, typed, posted, posts)
  BY <1>2, <1>3, <1>6, <1>7, InvGives, CallMessage
<1> HIDE DEF u
<1> QED BY <1>1, <1>8, <1>9, PageOnly

LEMMA StepRecovers == ASSUME ChatInv, NEW k \in Keys, Recovers(k) PROVE ChatInv'
<1> DEFINE t == ui.rec[k]
           r == runs[t.run]
           st == r.state
           dv == r.delivered
           x == FinishRecovery(ui, k)
           v == RunSnapshot(x, k, t.run, t.epoch, st, dv)
           ep == ui.epoch[k] + 1
           w == RunSnapshot(x, k, t.run, ep, st, dv)
           shows == Has(v, k) /\ v.entry[k].run = t.run
<1>1. /\ t # None /\ ui.epoch[k] = t.epoch /\ ui.stream[k] = None /\ st # "none"
      /\ UNCHANGED <<runs, typed, posted, posts, gone, mishaps>>
  BY DEF Recovers, Current
<1>2. t \in Recovery
  BY <1>1, InvGives DEF Good, PageState
<1>3. r \in Run /\ RunOK(r, posted, t.run)
  BY <1>2, InvGives, RunsGive DEF Recovery
<1>4. dv \in BOOLEAN /\ (st \in Final \/ st \in {"SENDING", "DELIVERED"})
  BY <1>1, <1>3 DEF Run
<1>5. (st \in Final => st \in r.been) /\ (st = "DELIVERED" => dv)
  BY <1>3 DEF RunOK
<1>6. RunsOK(runs, posted)
  BY InvGives DEF RunsGood
<1>7. \/ st \in Final /\ shows /\ dv /\ Show(RekeyCanonical(v, k, r.chat))
      \/ st \in Final /\ Show(v)
      \/ st \notin Final /\ Follows(w, k, t.run, ep) /\ Show(Bind(w, k, t.run, ep, TRUE))
      \/ Show(ui)
  BY DEF Recovers
<1>8. ASSUME st \in Final, shows, dv PROVE Good(RekeyCanonical(v, k, r.chat), runs, typed, posted, posts)
  <2>1. dv = TRUE
    BY <1>4, <1>8
  <2> DEFINE z == RunSnapshot(x, k, t.run, t.epoch, st, TRUE)
  <2>2. Has(z, k) /\ z.entry[k].run = t.run =>
           Good(RekeyCanonical(z, k, r.chat), runs, typed, posted, posts)
    BY <1>1, <1>2, <1>6, <1>8, InvGives, CallRecovers
  <2>3. z = v
    BY <2>1
  <2> HIDE DEF z, v
  <2> QED BY <1>8, <2>2, <2>3
<1>9. ASSUME st \in Final PROVE Good(v, runs, typed, posted, posts)
  BY <1>1, <1>2, <1>4, <1>5, <1>9, InvGives, CallFound
<1>10. ASSUME st \notin Final, Follows(w, k, t.run, ep)
       PROVE  Good(Bind(w, k, t.run, ep, TRUE), runs, typed, posted, posts)
  BY <1>1, <1>2, <1>4, <1>5, <1>10, InvGives, CallFollowed
<1> HIDE DEF t, r, x, v, w, ep
<1>11. \E u : Show(u) /\ Good(u, runs, typed, posted, posts)
  BY <1>7, <1>8, <1>9, <1>10, InvGives
<1> QED BY <1>1, <1>11, PageOnly

\* The runs when the POST of key k creates its run.
LEMMA CreatedStep ==
  ASSUME ChatInv, NEW k \in Keys, posts[k] # 0, NEW R1,
         R1 = [runs EXCEPT ![posts[k]] = Created(k, posts[k])]
  PROVE  /\ RunsGood(R1, posted) /\ Later(runs, typed, posted, R1, typed, posted, posts[k])
         /\ R1[posts[k]].state = "SENDING" /\ (k \in Ids => R1[posts[k]].chat = k)
         /\ R1[posts[k]].text = runs[posts[k]].text
<1> DEFINE p == posts[k]
           x == Created(k, p)
<1>1. PICK tn \in BOOLEAN :
         SlotOK(runs, typed, posted, k, ui.entry[k], ui.stream[k], ui.rec[k], ui.can[k], ui.epoch[k],
                tn, posts[k])
  BY InvGives, KeyHolds
<1>2. p \in Ids /\ p <= posted /\ runs[p].state = "none"
  BY <1>1 DEF SlotOK, PostOK
<1>3. runs[p] \in Run /\ RunOK(runs[p], posted, p) /\ Len(runs[p].ev) <= Cap
  BY <1>2, InvGives, RunsGive
<1>4. RunsGood(runs, posted) /\ posted \in Nat /\ posted <= posted /\ runs \in [Ids -> Run]
  BY InvGives DEF RunsGood
<1>5. x = Founded(runs[p], k, p)
  BY DEF Created, Founded
<1>6. R1 = [runs EXCEPT ![p] = x]
  OBVIOUS
<1> HIDE DEF p, x
<1>7. /\ x \in Run /\ RunOK(x, posted, p) /\ x.ev = runs[p].ev /\ Extends(runs[p], x)
      /\ x.state = "SENDING" /\ (k \in Ids => x.chat = k) /\ x.text = runs[p].text
  BY <1>2, <1>3, <1>4, <1>5, CreatedGives
<1>8. /\ RunsGood(R1, posted) /\ Grows(runs, R1)
      /\ \A q : p = q \/ (runs[p].state = "none" => x.state = "none") => Begins(runs, R1, q)
  <2> DEFINE R2 == [runs EXCEPT ![p] = x]
  <2>1. /\ RunsGood(R2, posted) /\ Grows(runs, R2)
        /\ \A q : p = q \/ (runs[p].state = "none" => x.state = "none") => Begins(runs, R2, q)
    BY <1>2, <1>3, <1>4, <1>7, RunsStep
  <2>2. R1 = R2
    BY <1>6
  <2> HIDE DEF R2
  <2> QED BY <2>1, <2>2
<1>9. R1[p] = x
  BY <1>2, <1>4, <1>6
<1>10. Later(runs, typed, posted, R1, typed, posted, p)
  <2>1. Begins(runs, R1, p) /\ Grows(runs, R1) /\ R1 \in [Ids -> Run]
    BY <1>8 DEF RunsGood
  <2>2. typed \in Nat /\ posted \in Nat
    BY InvGives
  <2> QED BY <2>1, <2>2 DEF Later
<1>11. p = posts[k]
  BY DEF p
<1> QED BY <1>7, <1>8, <1>9, <1>10, <1>11

LEMMA SameLater ==
  ASSUME ChatInv, NEW p
  PROVE  Later(runs, typed, posted, runs, typed, posted, p)
BY InvGives, GrowsSame DEF Later, RunsGood

LEMMA StepPostFails == ASSUME ChatInv, NEW k \in Keys, PostFails(k) PROVE ChatInv'
<1> DEFINE p == posts[k]
           u == RequestFailed(ui, k)
<1>1. p # 0 /\ Mishap /\ posts' = [posts EXCEPT ![k] = 0] /\ Show(u) /\ UNCHANGED <<posted, typed, gone>>
  BY DEF PostFails
<1>2. RunsGood(runs', posted) /\ Later(runs, typed, posted, runs', typed, posted, p)
  <2>1. CASE runs' = runs
    BY <2>1, InvGives, SameLater
  <2>2. CASE runs' = [runs EXCEPT ![p] = Created(k, p)]
    BY <1>1, <2>2, CreatedStep
  <2> QED BY <2>1, <2>2 DEF PostFails
<1>3. Good(u, runs', typed, posted, posts')
  BY <1>1, <1>2, InvGives, CallPostFails
<1>4. mishaps' \in 0..MaxMishaps
  BY <1>1, InvGives, ChatStreamAssumption DEF Mishap
<1> HIDE DEF u
<1>5. /\ Good(u, runs', typed', posted', posts') /\ RunsGood(runs', posted')
      /\ posted' \in 0..MaxPosts /\ typed' \in 0..MaxTexts /\ gone' \subseteq 1..typed'
  BY <1>1, <1>2, <1>3, InvGives
<1> QED BY <1>1, <1>4, <1>5, ShowStep

\* An entry whose POST was accepted shows its run.
LEMMA AcceptedFollows ==
  ASSUME NEW u \in PageState, NEW k \in Keys, Has(u, k), NEW p \in Ids, NEW ep \in Nat, NEW tx \in Nat
  PROVE  Follows(RunAccepted(u, k, p, ep, tx), k, p, ep)
<1> DEFINE e == [u.entry[k] EXCEPT !.payload = [run |-> p, text |-> tx],
                                   !.run = p, !.shown = "SENDING", !.epoch = ep,
                                   !.sending = FALSE, !.recovering = FALSE]
           v == RunAccepted(u, k, p, ep, tx)
<1>1. u.entry[k] \in Entry
  BY DEF PageState, Has
<1>2. e.run = p /\ e.epoch = ep /\ e \in Entry
  <2> DEFINE m == [run |-> p, text |-> tx]
  <2>1. m \in [run : Ids, text : Nat] /\ p \in Nat /\ "SENDING" \in States
    BY DEF Ids, States
  <2> HIDE DEF m
  <2>2. e = [u.entry[k] EXCEPT !.payload = m, !.run = p, !.shown = "SENDING", !.epoch = ep,
                               !.sending = FALSE, !.recovering = FALSE]
    BY DEF m
  <2> HIDE DEF e
  <2> QED BY <1>1, <2>1, <2>2 DEF Entry
<1> DEFINE z == WithEntry(u, k, e)
<1>3. v = [z EXCEPT !.torn = @ \ {k}]
  BY DEF RunAccepted
<1> HIDE DEF e, v
<1>4. z \in PageState /\ z.entry[k] = e
  BY <1>2, PutEntry, PutGives DEF Entries
<1> HIDE DEF z
<1>5. v.entry[k] = e
  BY <1>3, <1>4 DEF PageState
<1>6. Follows(v, k, p, ep)
  BY <1>2, <1>5, NoneIsNothing DEF Follows, Has
<1> QED BY <1>6 DEF v

LEMMA StepAnswered == ASSUME ChatInv, NEW k \in Keys, PostAnswered(k) PROVE ChatInv'
<1> DEFINE p == posts[k]
           ep == ui.epoch[k] + 1
           tx == runs[p].text
           a == RunAccepted(ui, k, p, ep, tx)
           u == Bind(a, k, p, ep, FALSE)
           free == ui.stream[k] = None /\ ui.rec[k] = None /\ ui.can[k] = None
<1>1. /\ p # 0 /\ posts' = [posts EXCEPT ![k] = 0] /\ UNCHANGED <<posted, typed, gone, mishaps>>
      /\ runs' = [runs EXCEPT ![p] = Created(k, p)]
      /\ Show(IF free /\ Follows(a, k, p, ep) THEN u ELSE ui)
  BY DEF PostAnswered
<1>2. /\ RunsGood(runs', posted) /\ Later(runs, typed, posted, runs', typed, posted, p)
      /\ runs'[p].state = "SENDING" /\ (k \in Ids => runs'[p].chat = k)
      /\ runs'[p].text = tx
  BY <1>1, CreatedStep
<1>3. PICK tn \in BOOLEAN :
         /\ tn <=> k \in ui.torn
         /\ SlotOK(runs, typed, posted, k, ui.entry[k], ui.stream[k], ui.rec[k], ui.can[k], ui.epoch[k],
                   tn, posts[k])
  BY InvGives, KeyHolds
<1>4. /\ p \in Ids /\ Has(ui, k)
      /\ tn \/ free
  BY <1>1, <1>3 DEF SlotOK, PostOK, Has
<1>5. Follows(a, k, p, ep)
  <2>1. ui \in PageState /\ runs \in [Ids -> Run]
    BY InvGives DEF Good
  <2>2. ep \in Nat /\ tx \in Nat
    BY <1>4, <2>1 DEF PageState, Run
  <2> HIDE DEF ep, tx
  <2> QED BY <1>4, <2>1, <2>2, AcceptedFollows
<1>6. CASE free
  <2>1. Good(Bind(RunAccepted(ui, k, p, ui.epoch[k] + 1, runs'[p].text), k, p, ui.epoch[k] + 1, FALSE),
             runs', typed, posted, [posts EXCEPT ![k] = 0])
    <3>1. /\ p = posts[k] /\ p # 0 /\ ui.stream[k] = None /\ ui.rec[k] = None /\ ui.can[k] = None
          /\ Good(ui, runs, typed, posted, posts)
          /\ Later(runs, typed, posted, runs', typed, posted, p)
          /\ runs'[p].state = "SENDING" /\ (k \in Ids => runs'[p].chat = k)
      BY <1>1, <1>2, <1>6, InvGives
    <3> HIDE DEF p
    <3> QED BY <3>1, CallAnswered
  <2>2. Good(u, runs', typed, posted, posts')
    BY <1>1, <1>2, <2>1
  <2>3. Show(u)
    BY <1>1, <1>5, <1>6
  <2> HIDE DEF u
  <2>4. /\ Good(u, runs', typed', posted', posts') /\ RunsGood(runs', posted')
        /\ posted' \in 0..MaxPosts /\ typed' \in 0..MaxTexts /\ gone' \subseteq 1..typed'
        /\ mishaps' \in 0..MaxMishaps
    BY <1>1, <1>2, <2>2, InvGives
  <2> QED BY <2>3, <2>4, ShowStep
<1>7. CASE ~free
  <2>1. k \in ui.torn
    BY <1>3, <1>4, <1>7
  <2>2. Good(ui, runs', typed, posted, [posts EXCEPT ![k] = 0])
    BY <1>1, <1>2, <2>1, InvGives, CallUnanswered
  <2>3. Show(ui)
    BY <1>1, <1>7
  <2>4. /\ Good(ui, runs', typed', posted', posts') /\ RunsGood(runs', posted')
        /\ posted' \in 0..MaxPosts /\ typed' \in 0..MaxTexts /\ gone' \subseteq 1..typed'
        /\ mishaps' \in 0..MaxMishaps
    BY <1>1, <1>2, <2>2, InvGives
  <2> QED BY <2>3, <2>4, ShowStep
<1> QED BY <1>6, <1>7

\* The runs when the text of a send is fixed.
LEMMA SentStep ==
  ASSUME ChatInv, posted < MaxPosts, NEW t \in Nat, NEW R1,
         R1 = [runs EXCEPT ![posted + 1] = [@ EXCEPT !.text = t]]
  PROVE  /\ RunsGood(R1, posted + 1) /\ Grows(runs, R1) /\ Begins(runs, R1, 0)
         /\ posted + 1 \in Ids /\ runs[posted + 1].state = "none" /\ R1[posted + 1].text = t
<1> DEFINE p == posted + 1
           x == [runs[p] EXCEPT !.text = t]
<1>1. /\ p \in Ids /\ posted \in Nat /\ p \in Nat /\ posted <= p /\ p > posted
      /\ runs \in [Ids -> Run] /\ RunsGood(runs, posted)
  BY InvGives, ChatStreamAssumption DEF Ids, RunsGood
<1>2. R1 = [runs EXCEPT ![p] = x]
  BY <1>1
<1> HIDE DEF p
<1>3. runs[p] \in Run /\ RunOK(runs[p], posted, p) /\ Len(runs[p].ev) <= Cap
  BY <1>1, RunsGive
<1>4. runs[p].state = "none" /\ x.text = t
  BY <1>1, <1>3 DEF RunOK, Run
<1> HIDE DEF x
<1>5. x \in Run /\ RunOK(x, p, p) /\ x.ev = runs[p].ev /\ Extends(runs[p], x) /\ x.state = "none"
  BY <1>3, <1>4, SentGives DEF x
<1>6. /\ RunsGood(R1, p) /\ Grows(runs, R1)
      /\ \A q : p = q \/ (runs[p].state = "none" => x.state = "none") => Begins(runs, R1, q)
  <2> DEFINE R2 == [runs EXCEPT ![p] = x]
  <2>1. /\ RunsGood(R2, p) /\ Grows(runs, R2)
        /\ \A q : p = q \/ (runs[p].state = "none" => x.state = "none") => Begins(runs, R2, q)
    BY <1>1, <1>3, <1>5, RunsStep
  <2>2. R1 = R2
    BY <1>2
  <2> HIDE DEF R2
  <2> QED BY <2>1, <2>2
<1>7. Begins(runs, R1, 0)
  BY <1>5, <1>6
<1>8. R1[p] = x
  BY <1>1, <1>2
<1>9. p = posted + 1
  BY DEF p
<1> QED BY <1>1, <1>4, <1>6, <1>7, <1>8, <1>9

LEMMA StepSend == ASSUME ChatInv, NEW k \in Keys, Send(k) PROVE ChatInv'
<1> DEFINE u == RequestStarted(Close(ui, k), k)
           t == ui.entry[k].draft
<1>1. /\ posted < MaxPosts /\ posted' = posted + 1 /\ posts' = [posts EXCEPT ![k] = posted + 1]
      /\ runs' = [runs EXCEPT ![posted + 1] = [@ EXCEPT !.text = t]]
      /\ Show(u) /\ UNCHANGED <<typed, gone, mishaps>>
  BY DEF Send
<1>2. /\ Has(ui, k) /\ ~ActiveWork(ui.entry[k]) /\ t # 0 /\ posts[k] = 0
      /\ ui.conflict.from # k /\ ui.rec[k] = None /\ ui.can[k] = None
  BY DEF Send, Submits, MayBegin, MayEdit
<1>3. t \in Nat
  <2>1. ui.entry[k] \in Entry
    BY <1>2, InvGives DEF Good, PageState, Has
  <2> QED BY <2>1 DEF Entry
<1> HIDE DEF t
<1>4. /\ RunsGood(runs', posted + 1) /\ Grows(runs, runs') /\ Begins(runs, runs', 0)
      /\ posted + 1 \in Ids /\ runs[posted + 1].state = "none"
  BY <1>1, <1>3, SentStep
<1>5. runs' \in [Ids -> Run]
  BY <1>4 DEF RunsGood
<1>6. Good(u, runs', typed, posted + 1, [posts EXCEPT ![k] = posted + 1])
  BY <1>2, <1>4, <1>5, InvGives, CallSend DEF t
<1>7. posted' \in 0..MaxPosts
  BY <1>1, InvGives, ChatStreamAssumption
<1> HIDE DEF u
<1>8. /\ Good(u, runs', typed', posted', posts') /\ RunsGood(runs', posted')
      /\ typed' \in 0..MaxTexts /\ gone' \subseteq 1..typed' /\ mishaps' \in 0..MaxMishaps
  BY <1>1, <1>4, <1>6, InvGives
<1> QED BY <1>1, <1>7, <1>8, ShowStep

\* The page starts with empty conversations.
LEMMA InitSlot ==
  ASSUME NEW R, NEW T \in Nat, NEW P \in Nat, NEW k \in Keys, NEW e, e = NewEntry \/ (e = None /\ k \in Ids)
  PROVE  SlotOK(R, T, P, k, e, None, None, None, 0, FALSE, 0)
<1>1. NewEntry # None
  <2>1. NewEntry \in Entry
    BY DEF NewEntry, Entry
  <2> QED BY <2>1, NoneIsNothing
<1>2. "SENDING" # None /\ "DELIVERED" # None /\ "DELIVERY_UNCERTAIN" # None /\ None \notin Final
  BY NoneIsNothing DEF States
<1>3. CASE e = NewEntry
  BY <1>1, <1>2, <1>3 DEF SlotOK, EntryOK, HookOK, FitOK, PostOK, NewEntry, Doubtful, RunActive
<1>4. CASE e = None /\ k \in Ids
  BY <1>1, <1>4 DEF SlotOK, EntryOK, HookOK, FitOK, PostOK
<1> QED BY <1>3, <1>4

LEMMA InitInv == Init => ChatInv
<1> SUFFICES ASSUME Init PROVE ChatInv
  OBVIOUS
<1>0. MaxPosts \in Nat /\ MaxTexts \in Nat /\ MaxMishaps \in Nat /\ Cap \in Nat
  BY ChatStreamAssumption
<1>1. /\ posts = [k \in Keys |-> 0] /\ posted = 0 /\ typed = 0 /\ runs = [r \in Ids |-> NoRun]
      /\ gone = {} /\ open = {} /\ mishaps = 0
  BY DEF Init
<1>2. /\ ui.entry = [k \in Keys |-> IF k \in Provisional THEN NewEntry ELSE None]
      /\ ui.stream = [k \in Keys |-> None] /\ ui.epoch = [k \in Keys |-> 0]
      /\ ui.rec = [k \in Keys |-> None] /\ ui.can = [k \in Keys |-> None] /\ ui.torn = {}
      /\ ui.conflict = NoConflict
  BY DEF Init
<1>3. NewEntry \in Entry
  BY DEF NewEntry, Entry
<1>4. ui \in PageState
  BY <1>3 DEF Init, PageState
<1>5. NoRun \in Run /\ NoRun.ev = << >>
  <2>1. << >> \in Seq(Events) /\ 0 \in 0..MaxPosts
    BY <1>0
  <2> QED BY <2>1 DEF NoRun, Run
<1>6. /\ runs \in [Ids -> Run] /\ \A r \in Ids : Len(runs[r].ev) <= Cap
  BY <1>0, <1>1, <1>5
<1>7. \A k \in Keys : Has(ui, k) => ui.entry[k].draft <= typed /\ ui.entry[k].run <= posted
  BY <1>1, <1>2 DEF Has, NewEntry
<1>8. TypeOK
  BY <1>0, <1>1, <1>4, <1>6, <1>7 DEF TypeOK
<1>9. RunsOK(runs, posted)
  BY <1>1 DEF RunsOK, RunOK, NoRun, Final
<1>10. ASSUME NEW k \in Keys PROVE KeyOK(ui, runs, typed, posted, posts, k)
  <2>1. ui.entry[k] = NewEntry \/ (ui.entry[k] = None /\ k \in Ids)
    BY <1>2 DEF Keys
  <2>2. SlotOK(runs, 0, 0, k, ui.entry[k], None, None, None, 0, FALSE, 0)
    BY <2>1, InitSlot
  <2>3. (k \in ui.torn) = FALSE
    BY <1>2
  <2> QED BY <1>1, <1>2, <2>2, <2>3 DEF KeyOK
<1>11. ASSUME NEW j \in Keys, NEW k \in Keys, j # k PROVE ApartOK(ui, posts, j, k)
  BY <1>1, <1>2 DEF ApartOK, WorksOn, Works, Has, NewEntry
<1>12. ConflictOK(ui, runs, posts)
  BY <1>2 DEF ConflictOK
<1>13. PageOK(ui, runs, typed, posted, posts)
  BY <1>10, <1>11, <1>12 DEF PageOK
<1> QED BY <1>8, <1>9, <1>13 DEF ChatInv

LEMMA StutterInv == ChatInv /\ UNCHANGED vars => ChatInv'
<1> SUFFICES ASSUME ChatInv, UNCHANGED vars PROVE ChatInv'
  OBVIOUS
<1>1. /\ ui' = ui /\ posts' = posts /\ posted' = posted /\ typed' = typed /\ runs' = runs
      /\ gone' = gone /\ open' = open /\ mishaps' = mishaps
  BY DEF vars
<1>2. TypeOK'
  BY <1>1 DEF ChatInv, TypeOK, Has
<1> QED BY <1>1, <1>2 DEF ChatInv

LEMMA NextInv == ChatInv /\ [Next]_vars => ChatInv'
<1> SUFFICES ASSUME ChatInv, [Next]_vars PROVE ChatInv'
  OBVIOUS
<1>1. ASSUME NEW k \in Keys, Type(k) PROVE ChatInv'
  BY <1>1, StepType
<1>2. ASSUME NEW k \in Keys, Send(k) PROVE ChatInv'
  BY <1>2, StepSend
<1>3. ASSUME NEW k \in Keys, Cancel(k) PROVE ChatInv'
  BY <1>3, StepCancel
<1>4. ASSUME NEW k \in Keys, Retry(k) PROVE ChatInv'
  BY <1>4, StepRetry
<1>5. ASSUME NEW choice \in {"source", "target"}, Resolve(choice) PROVE ChatInv'
  BY <1>5, StepResolve
<1>6. ASSUME Refresh PROVE ChatInv'
  BY <1>6, StepRefresh
<1>7. ASSUME NEW k \in Keys, PostAnswered(k) PROVE ChatInv'
  BY <1>7, StepAnswered
<1>8. ASSUME NEW k \in Keys, Message(k) PROVE ChatInv'
  BY <1>8, StepMessage
<1>9. ASSUME NEW k \in Keys, Closes(k) PROVE ChatInv'
  BY <1>9, StepCloses
<1>10. ASSUME NEW k \in Keys, Recovers(k) PROVE ChatInv'
  BY <1>10, StepRecovers
<1>11. ASSUME NEW k \in Keys, CancelRead(k) PROVE ChatInv'
  BY <1>11, StepRead
<1>12. ASSUME NEW k \in Keys, CancelDone(k) PROVE ChatInv'
  BY <1>12, StepDone
<1>13. ASSUME NEW k \in Keys, PostFails(k) PROVE ChatInv'
  BY <1>13, StepPostFails
<1>14. ASSUME NEW k \in Keys, Breaks(k) PROVE ChatInv'
  BY <1>14, StepBreaks
<1>15. ASSUME NEW k \in Keys, GivesUp(k) PROVE ChatInv'
  BY <1>15, StepGivesUp
<1>16. ASSUME NEW k \in Keys, CancelFails(k) PROVE ChatInv'
  BY <1>16, StepFails
<1>17. ASSUME NEW r \in Ids, Delivers(r) PROVE ChatInv'
  BY <1>17, StepDelivers
<1>18. ASSUME NEW r \in Ids, Ends(r) PROVE ChatInv'
  BY <1>18, StepEnds
<1>19. ASSUME UNCHANGED vars PROVE ChatInv'
  BY <1>19, StutterInv
<1> QED
  BY <1>1, <1>2, <1>3, <1>4, <1>5, <1>6, <1>7, <1>8, <1>9, <1>10, <1>11, <1>12, <1>13, <1>14, <1>15,
     <1>16, <1>17, <1>18, <1>19 DEF Next, User, Page, Trouble

LEMMA InvAlways == Spec => []ChatInv
BY InitInv, NextInv, PTL DEF Spec

\* Every variable keeps its type; an entry never shows a text nobody typed or a
\* run nobody asked for, and a run never keeps more than Cap events.
THEOREM PageTypes == Spec => []TypeOK
<1>1. ChatInv => TypeOK
  BY DEF ChatInv
<1> QED BY <1>1, InvAlways, PTL

\* Whatever is sent, cancelled, retried, moved and merged: but for torn chats,
\* the page says that a POST is out exactly when one is, and it never shows a
\* cancellation or a recovery that the hook does not have.
THEOREM PendingIsUnderWay == Spec => []PendingTruthful
<1>1. ASSUME ChatInv, NEW k \in Keys, Has(ui, k)
      PROVE  /\ k \notin ui.torn => (ui.entry[k].sending <=> posts[k] # 0)
             /\ ui.entry[k].cancelling => ui.can[k] # None
             /\ ui.entry[k].recovering => ui.rec[k] # None
  <2>1. PICK tn \in BOOLEAN :
           /\ tn <=> k \in ui.torn
           /\ SlotOK(runs, typed, posted, k, ui.entry[k], ui.stream[k], ui.rec[k], ui.can[k],
                     ui.epoch[k], tn, posts[k])
    BY <1>1, InvGives, KeyHolds
  <2>2. ~tn => (ui.entry[k].sending <=> posts[k] # 0)
    BY <1>1, <2>1 DEF SlotOK, PostOK, Has
  <2>3. /\ ui.entry[k].cancelling => ui.can[k] # None
        /\ ui.entry[k].recovering => ui.rec[k] # None
    BY <1>1, <2>1 DEF SlotOK, FitOK, Has
  <2> QED BY <2>1, <2>2, <2>3
<1>2. ChatInv => PendingTruthful
  BY <1>1 DEF PendingTruthful
<1> QED BY <1>2, InvAlways, PTL

\* A run shown as active is watched by a stream, a recovery or a cancellation of
\* its own epoch, also across moves to the chat and merges with its entry.
THEOREM ActiveIsWatched == Spec => []ActiveWatched
<1>1. ASSUME ChatInv, NEW k \in Keys, Has(ui, k), RunActive(ui.entry[k])
      PROVE  \E t \in {ui.stream[k], ui.rec[k], ui.can[k]} :
                t # None /\ t.run = ui.entry[k].run /\ t.epoch = ui.entry[k].epoch
  <2>1. PICK tn \in BOOLEAN :
           SlotOK(runs, typed, posted, k, ui.entry[k], ui.stream[k], ui.rec[k], ui.can[k],
                  ui.epoch[k], tn, posts[k])
    BY <1>1, InvGives, KeyHolds
  <2>2. \/ ui.stream[k] # None /\ Match(ui.entry[k], ui.stream[k])
        \/ ui.rec[k] # None /\ Match(ui.entry[k], ui.rec[k])
        \/ ui.can[k] # None /\ Match(ui.entry[k], ui.can[k])
    BY <1>1, <2>1 DEF SlotOK, FitOK, Has
  <2> QED BY <2>2 DEF Match
<1>2. ChatInv => ActiveWatched
  BY <1>1 DEF ActiveWatched
<1> QED BY <1>2, InvAlways, PTL

\* No run is ever shown twice, and no two streams follow one run.
THEOREM RunIsShownOnce == Spec => []RunShownOnce
<1>1. ASSUME ChatInv, NEW j \in Keys, NEW k \in Keys, j # k
      PROVE  /\ Has(ui, j) /\ Has(ui, k) /\ ui.entry[j].run # 0 => ui.entry[j].run # ui.entry[k].run
             /\ ui.stream[j] # None /\ ui.stream[k] # None => ui.stream[j].run # ui.stream[k].run
  <2>1. ApartOK(ui, posts, j, k)
    BY <1>1 DEF ChatInv, PageOK
  <2>2. Has(ui, j) /\ Has(ui, k) /\ ui.entry[j].run # 0 => ui.entry[j].run # ui.entry[k].run
    BY <2>1 DEF ApartOK
  <2>3. ui.stream[j] # None => ui.stream[j].run \in Ids
    BY <1>1, InvGives DEF Good, PageState, Stream
  <2>4. ui.stream[j] # None /\ ui.stream[k] # None => ui.stream[j].run # ui.stream[k].run
    BY <2>1, <2>3 DEF ApartOK, WorksOn, Works
  <2> QED BY <2>2, <2>4
<1>2. ChatInv => RunShownOnce
  BY <1>1 DEF RunShownOnce
<1> QED BY <1>2, InvAlways, PTL

\* A final state on the page is one its run has reached, and a delivery is shown
\* only when it was proved.
THEOREM ShownIsTrue == Spec => []ShownTruthful
<1>1. ASSUME ChatInv, NEW k \in Keys, Has(ui, k), ui.entry[k].run # 0
      PROVE  /\ ui.entry[k].shown \in Final => ui.entry[k].shown \in runs[ui.entry[k].run].been
             /\ ui.entry[k].shown = "DELIVERED" => runs[ui.entry[k].run].delivered
  <2>1. PICK tn \in BOOLEAN :
           SlotOK(runs, typed, posted, k, ui.entry[k], ui.stream[k], ui.rec[k], ui.can[k],
                  ui.epoch[k], tn, posts[k])
    BY <1>1, InvGives, KeyHolds
  <2> QED BY <1>1, <2>1 DEF SlotOK, EntryOK, Has
<1>2. ChatInv => ShownTruthful
  BY <1>1 DEF ShownTruthful
<1> QED BY <1>2, InvAlways, PTL
-----------------------------------------------------------------------------
(* What becomes of a text: it stays in a composer, or it was delivered.     *)

Drafted(u, t) == \E k \in Keys : Has(u, k) /\ u.entry[k].draft = t
Told(R, t) == \E r \in Ids : R[r].text = t /\ R[r].delivered

\* From page u to page v no text is lost.
Keeps(u, v, R) == \A t \in Nat \ {0} : Drafted(u, t) => Drafted(v, t) \/ Told(R, t)

\* From entry e to entry d neither.
KeepsKey(e, d, R) ==
  e # None => d # None /\ (d.draft = e.draft \/ e.draft = 0 \/ Told(R, e.draft))

\* What a delivery takes for the text of entry e is that of its run.
Pays(R, e) == e # None /\ e.payload # None => e.run \in Ids /\ e.payload.text = R[e.run].text

LEMMA KeepsTwice ==
  ASSUME NEW u, NEW v, NEW w, NEW R, Keeps(u, v, R), Keeps(v, w, R) PROVE Keeps(u, w, R)
BY DEF Keeps

LEMMA KeepsSame == ASSUME NEW u, NEW v, NEW R, v.entry = u.entry PROVE Keeps(u, v, R)
BY DEF Keeps, Drafted, Has

LEMMA KeepsAll ==
  ASSUME NEW u, NEW v, NEW R, \A k \in Keys : KeepsKey(u.entry[k], v.entry[k], R)
  PROVE  Keeps(u, v, R)
BY DEF Keeps, KeepsKey, Drafted, Has

LEMMA KeepsPut ==
  ASSUME NEW u \in PageState, NEW v, NEW k \in Keys,
         NEW e, NEW s, NEW r, NEW c, NEW ep, Put(u, v, k, e, s, r, c, ep),
         NEW R, KeepsKey(u.entry[k], e, R)
  PROVE  v \in PageState /\ Keeps(u, v, R)
<1>1. /\ v \in PageState /\ v.entry[k] = e
      /\ \A j \in Keys \ {k} : v.entry[j] = u.entry[j]
  BY PutGives
<1>2. \A j \in Keys : KeepsKey(u.entry[j], v.entry[j], R)
  BY <1>1 DEF KeepsKey
<1> QED BY <1>1, <1>2, KeepsAll

\* The flags of an entry do not matter.
LEMMA SameKeeps ==
  ASSUME NEW e \in Entries, NEW d, e = None => d = None, e # None => Same(d, e), NEW R
  PROVE  KeepsKey(e, d, R) /\ (Pays(R, e) => Pays(R, d))
BY DEF KeepsKey, Pays, Same

LEMMA UnflaggedKeeps ==
  ASSUME NEW e \in Entries, NEW r \in Recoveries, NEW c \in Cancellations, NEW R
  PROVE  KeepsKey(e, Unflagged(e, r, c), R) /\ (Pays(R, e) => Pays(R, Unflagged(e, r, c)))
<1> DEFINE d == Unflagged(e, r, c)
<1>1. e = None => d = None
  BY DEF Unflagged
<1>2. e # None => Same(d, e)
  BY UnflaggedGives DEF Entries
<1> HIDE DEF d
<1>3. KeepsKey(e, d, R) /\ (Pays(R, e) => Pays(R, d))
  BY <1>1, <1>2, SameKeeps
<1> QED BY <1>3 DEF d

LEMMA FlaggedKeeps ==
  ASSUME NEW e \in Entries, NEW t, NEW R
  PROVE  KeepsKey(e, Flagged(e, t), R) /\ KeepsKey(e, FlaggedC(e, t), R)
<1>1. CASE e # None /\ Match(e, t)
  <2>1. Same(Flagged(e, t), e) /\ Same(FlaggedC(e, t), e)
    BY <1>1, FlaggedGives DEF Entries
  <2> QED BY <1>1, <2>1, SameKeeps
<1>2. CASE ~(e # None /\ Match(e, t))
  BY <1>2 DEF Flagged, FlaggedC, KeepsKey
<1> QED BY <1>1, <1>2

LEMMA DoubtedKeeps ==
  ASSUME NEW e \in Entries, NEW r, NEW ep, NEW R
  PROVE  KeepsKey(e, Doubted(e, r, ep), R)
<1>1. CASE e # None /\ e.run = r /\ e.epoch = ep
  <2> DEFINE d == Doubted(e, r, ep)
  <2>1. d = [e EXCEPT !.shown = "DELIVERY_UNCERTAIN", !.sending = FALSE, !.recovering = FALSE]
    BY <1>1 DEF Doubted
  <2>2. d \in Entries /\ e \in Entry
    BY <1>1, DoubtedTyped DEF Entries
  <2>3. "DELIVERY_UNCERTAIN" \in States
    BY DEF States
  <2> HIDE DEF d
  <2>4. d \in Entry /\ d.draft = e.draft
    BY <2>1, <2>2, <2>3 DEF Entry
  <2>5. d # None
    BY <2>4, NoneIsNothing
  <2> QED BY <2>4, <2>5 DEF KeepsKey, d
<1>2. CASE ~(e # None /\ e.run = r /\ e.epoch = ep)
  BY <1>2 DEF Doubted, KeepsKey
<1> QED BY <1>1, <1>2

\* A snapshot of a run clears the text that this run delivered.
LEMMA SnappedKeeps ==
  ASSUME NEW e \in Entries, NEW r, NEW ep \in Nat, NEW s \in States, NEW dv \in BOOLEAN,
         NEW R, Pays(R, e), dv => R[r].delivered
  PROVE  KeepsKey(e, Snapped(e, r, ep, s, dv), R)
<1> DEFINE d == Snapped(e, r, ep, s, dv)
<1>1. CASE e # None /\ e.run = r /\ ep >= e.epoch
  <2> DEFINE x == IF dv /\ e.payload # None /\ e.draft = e.payload.text THEN 0 ELSE e.draft
             y == IF dv \/ s \in {"FAILED", "CANCELLED"} THEN None ELSE e.payload
             z == e.cancelling /\ s \notin Final
  <2>1. /\ e \in Entry /\ x \in Nat /\ y \in [run : Ids, text : Nat] \cup {None} /\ z \in BOOLEAN
    BY <1>1 DEF Entries, Entry
  <2>2. d = [e EXCEPT !.shown = s, !.epoch = ep, !.recovering = FALSE, !.draft = x, !.payload = y,
                      !.cancelling = z]
    BY <1>1 DEF Snapped
  <2>3. x = e.draft \/ (dv /\ e.payload # None /\ e.draft = e.payload.text)
    OBVIOUS
  <2> HIDE DEF d, x, y, z
  <2>4. d \in Entry /\ d.draft = x
    BY <2>1, <2>2 DEF Entry
  <2>5. x = e.draft \/ Told(R, e.draft)
    BY <1>1, <2>3 DEF Pays, Told
  <2>6. d # None
    BY <2>4, NoneIsNothing
  <2> QED BY <2>4, <2>5, <2>6 DEF KeepsKey, d
<1>2. CASE ~(e # None /\ e.run = r /\ ep >= e.epoch)
  BY <1>2 DEF Snapped, KeepsKey
<1> QED BY <1>1, <1>2

\* A delivery clears the text that it delivered.
LEMMA EventedKeeps ==
  ASSUME NEW e \in Entries, NEW r, NEW ep \in Nat, NEW ev \in Events,
         NEW R, Pays(R, e), ev = "delivery" => R[r].delivered
  PROVE  KeepsKey(e, Evented(e, r, ep, ev), R)
<1> DEFINE d == Evented(e, r, ep, ev)
<1>1. CASE e # None /\ e.run = r /\ e.epoch = ep
  <2> DEFINE a == After(e, ev)
             last == ev \in {"complete", "error", "cancelled"}
             x == IF ev = "delivery" /\ e.payload # None /\ e.payload.run = r
                     /\ e.draft = e.payload.text THEN 0 ELSE e.draft
             y == IF ev \in {"delivery", "error", "cancelled"} THEN None ELSE e.payload
             m == e.cancelling /\ ~last
             n == e.recovering /\ ~last
  <2>1. a \in States /\ e \in Entry /\ m \in BOOLEAN /\ n \in BOOLEAN
    BY <1>1, AfterTyped DEF States, Entries
  <2>2. x \in Nat /\ y \in [run : Ids, text : Nat] \cup {None}
    BY <2>1 DEF Entry
  <2>3. d = [e EXCEPT !.shown = a, !.draft = x, !.payload = y, !.cancelling = m, !.recovering = n]
    BY <1>1 DEF Evented
  <2>4. x = e.draft \/ (ev = "delivery" /\ e.payload # None /\ e.draft = e.payload.text)
    OBVIOUS
  <2> HIDE DEF d, a, last, x, y, m, n
  <2>5. d \in Entry /\ d.draft = x
    BY <2>1, <2>2, <2>3 DEF Entry
  <2>6. x = e.draft \/ Told(R, e.draft)
    BY <1>1, <2>4 DEF Pays, Told
  <2>7. d # None
    BY <2>5, NoneIsNothing
  <2> QED BY <2>5, <2>6, <2>7 DEF KeepsKey, d
<1>2. CASE ~(e # None /\ e.run = r /\ e.epoch = ep)
  BY <1>2 DEF Evented, KeepsKey
<1> QED BY <1>1, <1>2

\* The helpers of the hook keep the drafts.
LEMMA KeepsCloses ==
  ASSUME NEW u \in PageState, NEW k \in Keys, NEW R
  PROVE  /\ CloseBinding(u, k) \in PageState /\ Keeps(u, CloseBinding(u, k), R)
         /\ CloseBinding(u, k).entry = u.entry
         /\ Close(u, k) \in PageState /\ Keeps(u, Close(u, k), R) /\ Close(u, k).entry = u.entry
<1>1. /\ Put(u, CloseBinding(u, k), k, u.entry[k], None, u.rec[k], u.can[k], u.epoch[k])
      /\ Put(u, Close(u, k), k, u.entry[k], None, u.rec[k], u.can[k], u.epoch[k] + 1)
  BY PutCloseBinding, PutClose
<1>2. /\ CloseBinding(u, k) \in PageState /\ CloseBinding(u, k).entry = u.entry
      /\ Close(u, k) \in PageState /\ Close(u, k).entry = u.entry
  BY <1>1 DEF Put, PageState
<1> QED BY <1>2, KeepsSame

LEMMA KeepsFinish ==
  ASSUME NEW u \in PageState, NEW k \in Keys, NEW R
  PROVE  /\ FinishRecovery(u, k) \in PageState /\ Keeps(u, FinishRecovery(u, k), R)
         /\ FinishCancellation(u, k) \in PageState /\ Keeps(u, FinishCancellation(u, k), R)
         /\ Drop(u, {k}) \in PageState /\ Keeps(u, Drop(u, {k}), R)
         /\ Pays(R, u.entry[k]) => /\ Pays(R, FinishRecovery(u, k).entry[k])
                                   /\ Pays(R, Drop(u, {k}).entry[k])
<1>1. /\ u.entry[k] \in Entries /\ u.rec[k] \in Recoveries /\ u.can[k] \in Cancellations
      /\ None \in Recoveries /\ None \in Cancellations
  BY KeyTyped DEF Recoveries, Cancellations
<1>2. /\ Put(u, FinishRecovery(u, k), k, Unflagged(u.entry[k], u.rec[k], None), u.stream[k], None,
             u.can[k], u.epoch[k])
      /\ Put(u, FinishCancellation(u, k), k, Unflagged(u.entry[k], None, u.can[k]), u.stream[k],
             u.rec[k], None, u.epoch[k])
      /\ Put(u, Drop(u, {k}), k, Unflagged(u.entry[k], u.rec[k], u.can[k]), u.stream[k],
             None, None, u.epoch[k])
  BY PutFinishRecovery, PutFinishCancellation, PutDrop
<1>3. /\ KeepsKey(u.entry[k], Unflagged(u.entry[k], u.rec[k], None), R)
      /\ KeepsKey(u.entry[k], Unflagged(u.entry[k], None, u.can[k]), R)
      /\ KeepsKey(u.entry[k], Unflagged(u.entry[k], u.rec[k], u.can[k]), R)
      /\ Pays(R, u.entry[k]) => /\ Pays(R, Unflagged(u.entry[k], u.rec[k], None))
                                /\ Pays(R, Unflagged(u.entry[k], u.rec[k], u.can[k]))
  BY <1>1, UnflaggedKeeps
<1>4. /\ FinishRecovery(u, k).entry[k] = Unflagged(u.entry[k], u.rec[k], None)
      /\ Drop(u, {k}).entry[k] = Unflagged(u.entry[k], u.rec[k], u.can[k])
  BY <1>2, PutGives
<1>5. FinishRecovery(u, k) \in PageState /\ Keeps(u, FinishRecovery(u, k), R)
  BY <1>2, <1>3, KeepsPut
<1>6. FinishCancellation(u, k) \in PageState /\ Keeps(u, FinishCancellation(u, k), R)
  BY <1>2, <1>3, KeepsPut
<1>7. Drop(u, {k}) \in PageState /\ Keeps(u, Drop(u, {k}), R)
  BY <1>2, <1>3, KeepsPut
<1> QED BY <1>3, <1>4, <1>5, <1>6, <1>7

LEMMA KeepsStarts ==
  ASSUME NEW u \in PageState, NEW k \in Keys, NEW r \in Ids, NEW ep \in Nat, NEW R
  PROVE  Keeps(u, StartRecovery(u, k, r, ep), R) /\ Keeps(u, StartCancellation(u, k, r, ep), R)
<1> DEFINE t == [run |-> r, epoch |-> ep]
           c == [run |-> r, epoch |-> ep, at |-> "asked"]
           e == u.entry[k]
           g == Unflagged(e, u.rec[k], None)
           d1 == Flagged(e, t)
           d2 == FlaggedC(g, c)
           v == StartRecovery(u, k, r, ep)
           w == StartCancellation(u, k, r, ep)
<1>1. Put(u, v, k, d1, u.stream[k], t, u.can[k], u.epoch[k])
  BY PutStartRecovery
<1>2. Put(u, w, k, d2, u.stream[k], None, c, u.epoch[k])
  BY PutStartCancellation
<1>3. e \in Entries /\ u.rec[k] \in Recoveries /\ None \in Cancellations
  BY KeyTyped DEF Cancellations
<1> HIDE DEF t, c, v, w, e
<1>4. g \in Entries /\ KeepsKey(e, g, R)
  BY <1>3, UnflaggedTyped, UnflaggedKeeps
<1> HIDE DEF g
<1>5. KeepsKey(e, d1, R) /\ KeepsKey(g, d2, R)
  BY <1>3, <1>4, FlaggedKeeps
<1> HIDE DEF d1, d2
<1>6. KeepsKey(e, d2, R)
  <2>1. CASE e = None
    BY <2>1 DEF KeepsKey
  <2>2. CASE e # None
    <3>1. Same(g, e)
      BY <1>3, <2>2, UnflaggedGives DEF Entries, g
    <3> QED BY <1>5, <2>2, <3>1 DEF KeepsKey, Same
  <2> QED BY <2>1, <2>2
<1>7. Keeps(u, v, R)
  BY <1>1, <1>5, KeepsPut DEF e
<1>8. Keeps(u, w, R)
  BY <1>2, <1>6, KeepsPut DEF e
<1> QED BY <1>7, <1>8 DEF v, w

LEMMA KeepsExhausted ==
  ASSUME NEW u \in PageState, NEW k \in Keys, NEW r, NEW ep, NEW R
  PROVE  Keeps(u, Exhausted(u, k, r, ep), R)
<1>1. Put(u, Exhausted(u, k, r, ep), k, Doubted(u.entry[k], r, ep),
          u.stream[k], u.rec[k], u.can[k], u.epoch[k])
  BY PutExhausted
<1>2. KeepsKey(u.entry[k], Doubted(u.entry[k], r, ep), R)
  BY KeyTyped, DoubtedKeeps
<1> QED BY <1>1, <1>2, KeepsPut

LEMMA KeepsSnapshot ==
  ASSUME NEW u \in PageState, NEW k \in Keys, NEW r, NEW ep \in Nat, NEW s \in States, NEW dv \in BOOLEAN,
         NEW R, Pays(R, u.entry[k]), dv => R[r].delivered
  PROVE  RunSnapshot(u, k, r, ep, s, dv) \in PageState /\ Keeps(u, RunSnapshot(u, k, r, ep, s, dv), R)
<1>1. Put(u, RunSnapshot(u, k, r, ep, s, dv), k, Snapped(u.entry[k], r, ep, s, dv),
          u.stream[k], u.rec[k], u.can[k], u.epoch[k])
  BY PutSnapshot
<1>2. KeepsKey(u.entry[k], Snapped(u.entry[k], r, ep, s, dv), R)
  BY KeyTyped, SnappedKeeps
<1> QED BY <1>1, <1>2, KeepsPut

LEMMA KeepsEvent ==
  ASSUME NEW u \in PageState, NEW k \in Keys, NEW r, NEW ep \in Nat, NEW ev \in Events,
         NEW R, Pays(R, u.entry[k]), ev = "delivery" => R[r].delivered
  PROVE  StreamEvent(u, k, r, ep, ev) \in PageState /\ Keeps(u, StreamEvent(u, k, r, ep, ev), R)
<1>1. Put(u, StreamEvent(u, k, r, ep, ev), k, Evented(u.entry[k], r, ep, ev),
          u.stream[k], u.rec[k], u.can[k], u.epoch[k])
  BY PutEvent
<1>2. KeepsKey(u.entry[k], Evented(u.entry[k], r, ep, ev), R)
  BY KeyTyped, EventedKeeps
<1> QED BY <1>1, <1>2, KeepsPut

LEMMA KeepsBind ==
  ASSUME NEW u \in PageState, NEW k \in Keys, NEW r \in Ids, NEW ep \in Nat, NEW again \in BOOLEAN, NEW R
  PROVE  Keeps(u, Bind(u, k, r, ep, again), R)
<1> DEFINE s == [run |-> r, epoch |-> ep, sent |-> 0, again |-> again]
           d == Unflagged(u.entry[k], u.rec[k], u.can[k])
           v == Bind(u, k, r, ep, again)
<1>1. Put(u, v, k, d, s, None, None, ep)
  BY PutBind
<1>2. KeepsKey(u.entry[k], d, R)
  BY KeyTyped, UnflaggedKeeps
<1> HIDE DEF s, d, v
<1>3. Keeps(u, v, R)
  BY <1>1, <1>2, KeepsPut
<1> QED BY <1>3 DEF v

\* A conversation that moves takes its draft along, and takes no other's place.
LEMMA KeepsMoved ==
  ASSUME NEW u \in PageState, NEW v, NEW k \in Keys, NEW c \in Keys,
         v.entry = Moved(u.entry, k, c), k = c \/ ~Has(u, c), NEW R
  PROVE  Keeps(u, v, R)
<1>1. \A q \in Keys : v.entry[q] = IF q = c THEN u.entry[k] ELSE IF q = k THEN None ELSE u.entry[q]
  BY DEF Moved
<1>2. ASSUME NEW t, Drafted(u, t) PROVE Drafted(v, t)
  <2>1. PICK j \in Keys : Has(u, j) /\ u.entry[j].draft = t
    BY <1>2 DEF Drafted
  <2>2. CASE j = k
    <3>1. v.entry[c] = u.entry[j]
      BY <1>1, <2>2
    <3> QED BY <2>1, <3>1 DEF Drafted, Has
  <2>3. CASE j # k
    <3>1. v.entry[j] = u.entry[j]
      BY <1>1, <2>1, <2>3 DEF Has
    <3> QED BY <2>1, <3>1 DEF Drafted, Has
  <2> QED BY <2>2, <2>3
<1> QED BY <1>2 DEF Keeps

LEMMA KeepsRekey ==
  ASSUME NEW u \in PageState, NEW k \in Keys, NEW c \in Ids, NEW R
  PROVE  LET v == RekeyCanonical(u, k, c) IN
         v \in PageState /\ Keeps(u, v, R) /\ (v.entry = u.entry \/ ~Has(u, c) \/ k = c)
<1> DEFINE v == RekeyCanonical(u, k, c)
           f == Moved(u.entry, k, c)
           g == [from |-> k, to |-> c]
<1>0. c \in Keys
  BY DEF Keys
<1>1. CASE ~Has(u, k)
  <2>1. v = u
    BY <1>1 DEF RekeyCanonical
  <2> QED BY <2>1, KeepsSame
<1>2. CASE Has(u, k) /\ k # c /\ Has(u, c)
  <2>1. v = [u EXCEPT !.conflict = g]
    BY <1>2 DEF RekeyCanonical
  <2>2. g \in [from : Keys, to : Ids]
    OBVIOUS
  <2> HIDE DEF v, g
  <2>3. v \in PageState /\ v.entry = u.entry
    BY <2>1, <2>2 DEF PageState
  <2> QED BY <2>3, KeepsSame DEF v
<1>3. CASE Has(u, k) /\ ~(k # c /\ Has(u, c))
  <2>1. v = [u EXCEPT !.conflict = NoConflict, !.entry = f]
    BY <1>3 DEF RekeyCanonical
  <2>2. f \in [Keys -> Entry \cup {None}] /\ f = Moved(u.entry, k, c)
    BY DEF Moved, PageState
  <2> HIDE DEF v, f
  <2>3. v \in PageState /\ v.entry = f
    BY <2>1, <2>2 DEF PageState
  <2>4. Keeps(u, v, R)
    BY <1>0, <1>3, <2>2, <2>3, KeepsMoved
  <2> QED BY <1>3, <2>3, <2>4 DEF v
<1> QED BY <1>1, <1>2, <1>3

LEMMA KeepsHook ==
  ASSUME NEW u \in PageState, NEW f \in Keys, NEW t \in Ids, NEW choice, NEW ep \in Nat, NEW R
  PROVE  LET w == RekeyHook(u, f, t, choice, ep) IN w \in PageState /\ Keeps(u, w, R)
<1> DEFINE w == RekeyHook(u, f, t, choice, ep)
<1>0. t \in Keys
  BY DEF Keys
<1>1. CASE f = t
  <2> DEFINE nn == [u.epoch EXCEPT ![t] = ep]
  <2>1. w = [u EXCEPT !.epoch = nn]
    BY <1>1 DEF RekeyHook
  <2>2. nn \in [Keys -> Nat]
    BY <1>0 DEF PageState
  <2> HIDE DEF w, nn
  <2>3. w \in PageState /\ w.entry = u.entry
    BY <2>1, <2>2 DEF PageState
  <2> QED BY <2>3, KeepsSame DEF w
<1>2. CASE f # t /\ choice = "source" /\ u.stream[t] # None
  <2> DEFINE tt == u.torn \cup {t}
  <2>1. w = [u EXCEPT !.torn = tt]
    BY <1>2 DEF RekeyHook
  <2>2. tt \in SUBSET Ids
    BY DEF PageState
  <2> HIDE DEF w, tt
  <2>3. w \in PageState /\ w.entry = u.entry
    BY <2>1, <2>2 DEF PageState
  <2> QED BY <2>3, KeepsSame DEF w
<1>3. CASE f # t /\ ~(choice = "source" /\ u.stream[t] # None)
  <2> DEFINE K == {f, t}
             y == Drop(u, {f, t})
             nn == [[u.epoch EXCEPT ![f] = 0] EXCEPT ![t] = ep]
             g == IF choice = "source" THEN Moved(u.stream, f, t) ELSE [u.stream EXCEPT ![f] = None]
  <2>1. w = [y EXCEPT !.epoch = [[@ EXCEPT ![f] = 0] EXCEPT ![t] = ep],
                      !.stream = IF choice = "source" THEN Moved(@, f, t) ELSE [@ EXCEPT ![f] = None]]
    BY <1>3 DEF RekeyHook
  <2>2. nn \in [Keys -> Nat] /\ g \in [Keys -> Stream \cup {None}]
    BY <1>0 DEF PageState, Moved
  <2>3. y = Drop(u, K) /\ K = {f, t}
    OBVIOUS
  <2> HIDE DEF y, K
  <2>4. /\ y \in PageState /\ y.stream = u.stream /\ y.epoch = u.epoch
        /\ y.entry[f] = Unflagged(u.entry[f], u.rec[f], u.can[f])
        /\ y.entry[t] = Unflagged(u.entry[t], u.rec[t], u.can[t])
        /\ \A j \in Keys \ K : y.entry[j] = u.entry[j]
    BY <1>0, <2>3, DropTwo
  <2>5. w = [y EXCEPT !.epoch = nn, !.stream = g]
    BY <2>1, <2>4
  <2> HIDE DEF w, nn, g
  <2>6. w \in PageState /\ w.entry = y.entry
    BY <2>2, <2>4, <2>5 DEF PageState
  <2>7. ASSUME NEW j \in Keys PROVE KeepsKey(u.entry[j], y.entry[j], R)
    <3>1. KeepsKey(u.entry[j], Unflagged(u.entry[j], u.rec[j], u.can[j]), R)
      BY KeyTyped, UnflaggedKeeps
    <3>2. y.entry[j] = u.entry[j] \/ y.entry[j] = Unflagged(u.entry[j], u.rec[j], u.can[j])
      BY <2>3, <2>4
    <3> QED BY <3>1, <3>2 DEF KeepsKey
  <2>8. Keeps(u, y, R) /\ Keeps(y, w, R)
    BY <2>6, <2>7, KeepsAll, KeepsSame
  <2>9. Keeps(u, w, R)
    BY <2>8, KeepsTwice
  <2> QED BY <2>6, <2>9 DEF w
<1> QED BY <1>1, <1>2, <1>3

\* The answer of a cancellation.
LEMMA KeepsArrived ==
  ASSUME NEW u \in PageState, NEW k \in Keys, NEW t, t.epoch \in Nat,
         NEW r, r.chat \in Ids, NEW R
  PROVE  Keeps(u, Arrived(u, k, t, r), R)
<1> DEFINE shows == Has(u, k) /\ u.entry[k].run = t.run
           v == IF r.delivered /\ shows THEN RekeyCanonical(u, k, r.chat) ELSE u
           moved == Has(u, k) /\ ~Has(v, k)
           w == IF moved THEN RekeyHook(v, k, r.chat, "source", t.epoch) ELSE v
           at == IF moved THEN r.chat ELSE k
           x == Arrived(u, k, t, r)
<1>1. v \in PageState /\ Keeps(u, v, R)
  BY KeepsRekey, KeepsSame
<1>2. x = w \/ x = CloseBinding(w, at)
  BY DEF Arrived
<1> HIDE DEF v, x
<1>3. w \in PageState /\ Keeps(v, w, R) /\ at \in Keys
  BY <1>1, KeepsHook, KeepsSame DEF Keys
<1> HIDE DEF w, at
<1>4. Keeps(w, x, R)
  BY <1>2, <1>3, KeepsCloses, KeepsSame
<1>5. Keeps(u, x, R)
  BY <1>1, <1>3, <1>4, KeepsTwice
<1> QED BY <1>5 DEF x

\* An event of a stream, once it is reduced.
LEMMA KeepsShows ==
  ASSUME NEW y \in PageState, NEW k \in Keys, NEW c \in Ids, NEW ep, NEW ev, NEW R
  PROVE  Keeps(y, Shows(y, k, c, ep, ev), R)
<1> DEFINE v == IF ev = "delivery" /\ c # k THEN RekeyCanonical(y, k, c) ELSE y
           z == FinishCancellation(v, k)
           x == Shows(y, k, c, ep, ev)
<1>1. v \in PageState /\ Keeps(y, v, R)
  BY KeepsRekey, KeepsSame
<1>2. x = Carried(v, k, c, ep) \/ x = CloseBinding(z, k) \/ x = v
  BY DEF Shows
<1> HIDE DEF v, x
<1>3. z \in PageState /\ Keeps(v, z, R)
  BY <1>1, KeepsFinish
<1> HIDE DEF z
<1>4. CASE x = Carried(v, k, c, ep)
  <2>1. x.entry = v.entry
    BY <1>1, <1>4 DEF Carried, PageState
  <2>2. Keeps(y, x, R)
    BY <1>1, <2>1, KeepsSame, KeepsTwice
  <2> QED BY <2>2 DEF x
<1>5. CASE x = CloseBinding(z, k)
  <2>1. Keeps(z, x, R)
    BY <1>3, <1>5, KeepsCloses
  <2>2. Keeps(y, x, R)
    BY <1>1, <1>3, <2>1, KeepsTwice
  <2> QED BY <2>2 DEF x
<1>6. CASE x = v
  BY <1>1, <1>6 DEF x
<1> QED BY <1>2, <1>4, <1>5, <1>6

\* A refresh drops no entry with a draft.
LEMMA KeepsRefresh ==
  ASSUME NEW u \in PageState, NEW listed, NEW selected, NEW R
  PROVE  Keeps(u, Summaries(u, listed, selected), R)
<1> DEFINE v == Summaries(u, listed, selected)
<1>1. ASSUME NEW k \in Keys
      PROVE  v.entry[k] = u.entry[k] \/ (v.entry[k] = NewEntry /\ u.entry[k] = None)
             \/ (v.entry[k] = None /\ u.entry[k].draft = 0)
  <2> DEFINE f == [j \in Keys |-> Left(u, listed, selected, j)]
  <2>1. v = [u EXCEPT !.entry = f]
    BY SummariesLeft
  <2>2. f[k] = Left(u, listed, selected, k)
    OBVIOUS
  <2> HIDE DEF v, f
  <2>3. v.entry[k] = Left(u, listed, selected, k)
    BY <2>1, <2>2 DEF PageState
  <2> QED BY <2>3, LeftGives
<1> HIDE DEF v
<1>2. ASSUME NEW t \in Nat \ {0}, Drafted(u, t) PROVE Drafted(v, t)
  <2>1. PICK k \in Keys : Has(u, k) /\ u.entry[k].draft = t
    BY <1>2 DEF Drafted
  <2>2. v.entry[k] = u.entry[k]
    BY <1>1, <1>2, <2>1 DEF Has
  <2> QED BY <2>1, <2>2 DEF Drafted, Has
<1>3. Keeps(u, v, R)
  BY <1>2 DEF Keeps
<1> QED BY <1>3 DEF v
-----------------------------------------------------------------------------
(* No action loses a text.                                                 *)

LEMMA ToldGrows ==
  ASSUME ChatInv, NEW R1, Grows(runs, R1), NEW t, Told(runs, t) PROVE Told(R1, t)
<1>1. PICK r \in Ids : runs[r].text = t /\ runs[r].delivered
  BY DEF Told
<1>2. runs[r].state # "none"
  BY <1>1, InvGives DEF RunsGood, RunsOK, RunOK
<1> QED BY <1>1, <1>2 DEF Told, Grows

LEMMA TextsStep ==
  ASSUME ChatInv, NothingLost, Keeps(ui, ui', runs'), Grows(runs, runs'),
         typed' = typed, gone \subseteq gone'
  PROVE  NothingLost'
<1> SUFFICES ASSUME NEW t \in 1..typed
             PROVE  t \in gone' \/ Drafted(ui', t) \/ Told(runs', t)
  BY DEF NothingLost, Drafted, Told, Has
<1>1. t \in gone \/ Drafted(ui, t) \/ Told(runs, t)
  BY DEF NothingLost, Drafted, Told
<1>2. t \in Nat \ {0}
  BY InvGives
<1>3. Told(runs, t) => Told(runs', t)
  BY ToldGrows
<1> QED BY <1>1, <1>2, <1>3 DEF Keeps

LEMMA TextsPage ==
  ASSUME ChatInv, NothingLost, NEW u, Show(u), Keeps(ui, u, runs), UNCHANGED <<runs, typed, gone>>
  PROVE  NothingLost'
<1>1. ui' = u /\ Keeps(ui, u, runs') /\ Grows(runs, runs')
  BY GrowsSame DEF Show
<1> QED BY <1>1, TextsStep

\* What the lemmas about a text need of an entry.
LEMMA EntryGives ==
  ASSUME NEW u, NEW Q, NEW R, NEW T, NEW P, Good(u, R, T, P, Q), NEW k \in Keys
  PROVE  /\ Pays(R, u.entry[k]) /\ u \in PageState
         /\ Has(u, k) => /\ u.entry[k] \in Entry /\ u.entry[k].epoch \in Nat
                         /\ u.entry[k].run # 0 => u.entry[k].run \in Ids
                         /\ u.entry[k].run # 0 <=> u.entry[k].shown # None
<1>1. EntryOK(R, T, P, k, u.entry[k]) /\ u \in PageState
  BY DEF Good, PageOK, KeyOK, SlotOK
<1>2. Has(u, k) => u.entry[k] \in Entry
  BY <1>1 DEF PageState, Has
<1> QED BY <1>1, <1>2 DEF EntryOK, RunOf, Pays, Has, Entry

LEMMA TextCancel == ASSUME ChatInv, NothingLost, NEW k \in Keys, Cancel(k) PROVE NothingLost'
<1> DEFINE u == StartCancellation(ui, k, ui.entry[k].run, ui.entry[k].epoch)
<1>1. Show(u) /\ UNCHANGED <<runs, typed, gone>> /\ Has(ui, k) /\ ui.entry[k].run # 0
  BY DEF Cancel, RunActive
<1>2. ui.entry[k].run \in Ids /\ ui.entry[k].epoch \in Nat /\ ui \in PageState
  BY <1>1, InvGives, EntryGives
<1>3. Keeps(ui, u, runs)
  BY <1>2, KeepsStarts
<1> HIDE DEF u
<1> QED BY <1>1, <1>3, TextsPage

LEMMA TextRetry == ASSUME ChatInv, NothingLost, NEW k \in Keys, Retry(k) PROVE NothingLost'
<1> DEFINE u == StartRecovery(ui, k, ui.entry[k].run, ui.entry[k].epoch)
<1>1. Show(u) /\ UNCHANGED <<runs, typed, gone>> /\ Has(ui, k) /\ ui.entry[k].shown # None
  BY NoneIsNothing DEF Retry, States
<1>2. ui.entry[k].run \in Ids /\ ui.entry[k].epoch \in Nat /\ ui \in PageState
  BY <1>1, InvGives, EntryGives
<1>3. Keeps(ui, u, runs)
  BY <1>2, KeepsStarts
<1> HIDE DEF u
<1> QED BY <1>1, <1>3, TextsPage

LEMMA TextDisconnected ==
  ASSUME ChatInv, NothingLost, NEW k \in Keys, ui.stream[k] # None, Disconnected(k),
         UNCHANGED <<runs, typed, gone>>
  PROVE  NothingLost'
<1> DEFINE b == ui.stream[k]
           x == CloseBinding(ui, k)
<1>1. ui \in PageState /\ b.run \in Ids /\ b.epoch \in Nat
  BY InvGives DEF Good, PageState, Stream
<1>2. Show(x) \/ Show(StartRecovery(x, k, b.run, b.epoch)) \/ Show(Exhausted(x, k, b.run, b.epoch))
  BY DEF Disconnected
<1>3. x \in PageState /\ Keeps(ui, x, runs)
  BY <1>1, KeepsCloses
<1> HIDE DEF x, b
<1>4. /\ Keeps(x, StartRecovery(x, k, b.run, b.epoch), runs)
      /\ Keeps(x, Exhausted(x, k, b.run, b.epoch), runs)
  BY <1>1, <1>3, KeepsStarts, KeepsExhausted
<1>5. \E u : Show(u) /\ Keeps(ui, u, runs)
  BY <1>2, <1>3, <1>4, KeepsTwice
<1> QED BY <1>5, TextsPage

LEMMA TextGivesUp == ASSUME ChatInv, NothingLost, NEW k \in Keys, GivesUp(k) PROVE NothingLost'
<1> DEFINE x == FinishRecovery(ui, k)
           u == Exhausted(x, k, ui.rec[k].run, ui.rec[k].epoch)
<1>1. Show(u) /\ UNCHANGED <<runs, typed, gone>>
  BY DEF GivesUp
<1>2. ui \in PageState
  BY InvGives DEF Good
<1>3. x \in PageState /\ Keeps(ui, x, runs)
  BY <1>2, KeepsFinish
<1> HIDE DEF x
<1>4. Keeps(x, u, runs)
  BY <1>3, KeepsExhausted
<1> HIDE DEF u
<1> QED BY <1>1, <1>3, <1>4, KeepsTwice, TextsPage

LEMMA TextRefresh == ASSUME ChatInv, NothingLost, Refresh PROVE NothingLost'
<1>1. PICK listed, selected : Show(Summaries(ui, listed, selected))
  BY DEF Refresh
<1>2. ui \in PageState /\ UNCHANGED <<runs, typed, gone>>
  BY InvGives DEF Good, Refresh
<1>3. Keeps(ui, Summaries(ui, listed, selected), runs)
  BY <1>2, KeepsRefresh
<1> QED BY <1>1, <1>2, <1>3, TextsPage

LEMMA TextFails == ASSUME ChatInv, NothingLost, NEW k \in Keys, CancelFails(k) PROVE NothingLost'
<1> DEFINE t == ui.can[k]
           x == FinishCancellation(ui, k)
<1>1. t # None /\ UNCHANGED <<typed, gone>>
  BY DEF CancelFails
<1>2. t \in Cancellation /\ t.run \in Ids /\ t.epoch \in Nat /\ ui \in PageState /\ runs \in [Ids -> Run]
  BY <1>1, CanGives, InvGives DEF Good, Cancellation
<1>3. Grows(runs, runs')
  <2>1. runs' = runs \/ runs' = [runs EXCEPT ![t.run] = Cancelled(runs[t.run])]
    BY <1>2 DEF CancelFails
  <2>2. CASE runs' = runs
    BY <2>2, GrowsSame
  <2>3. CASE runs' = [runs EXCEPT ![t.run] = Cancelled(runs[t.run])]
    BY <1>1, <2>3, CancelledStep
  <2> QED BY <2>1, <2>2, <2>3
<1>4. \/ Show(x) \/ Show(StartRecovery(x, k, t.run, t.epoch)) \/ Show(Exhausted(x, k, t.run, t.epoch))
  BY DEF CancelFails
<1>5. x \in PageState /\ Keeps(ui, x, runs')
  BY <1>2, KeepsFinish
<1> HIDE DEF x, t
<1>6. /\ Keeps(x, StartRecovery(x, k, t.run, t.epoch), runs')
      /\ Keeps(x, Exhausted(x, k, t.run, t.epoch), runs')
  BY <1>2, <1>5, KeepsStarts, KeepsExhausted
<1>7. PICK u : Show(u) /\ Keeps(ui, u, runs')
  BY <1>4, <1>5, <1>6, KeepsTwice
<1>8. ui' = u
  BY <1>7 DEF Show
<1> QED BY <1>1, <1>3, <1>7, <1>8, TextsStep

\* A run that exists has a chat.
LEMMA ChatGives ==
  ASSUME NEW R, NEW P, RunsGood(R, P), NEW r \in Ids, R[r].state # "none"
  PROVE  R[r].chat \in Ids /\ R[r].delivered \in BOOLEAN /\ (R[r].state \in States)
<1>1. R[r] \in Run /\ RunOK(R[r], P, r)
  BY RunsGive
<1> QED BY <1>1, ChatStreamAssumption DEF RunOK, Run, Ids, States

LEMMA TextTold ==
  ASSUME NEW u, NEW Q, NEW R, NEW T, NEW P, Good(u, R, T, P, Q), RunsGood(R, P), NEW k \in Keys,
         NEW t \in Cancellation, u.can[k] = t, R[t.run].state \in Final
  PROVE  Keeps(u, Arrived(RunSnapshot(Drop(u, {k}), k, t.run, t.epoch, R[t.run].state, R[t.run].delivered),
                          k, t, R[t.run]), R)
<1> DEFINE x == Drop(u, {k})
           st == R[t.run].state
           dv == R[t.run].delivered
           v == RunSnapshot(x, k, t.run, t.epoch, st, dv)
           w == Arrived(v, k, t, R[t.run])
<1>1. t.run \in Ids /\ t.epoch \in Nat
  BY DEF Cancellation
<1>2. R[t.run].chat \in Ids /\ dv \in BOOLEAN /\ st \in States
  BY <1>1, ChatGives DEF Final
<1>3. u \in PageState /\ Pays(R, u.entry[k])
  BY EntryGives
<1>4. x \in PageState /\ Keeps(u, x, R) /\ Pays(R, x.entry[k])
  BY <1>3, KeepsFinish
<1>5. dv => R[t.run].delivered
  OBVIOUS
<1> HIDE DEF x, st, dv
<1>6. v \in PageState /\ Keeps(x, v, R)
  BY <1>1, <1>2, <1>4, <1>5, KeepsSnapshot
<1> HIDE DEF v
<1>7. Keeps(v, w, R)
  BY <1>1, <1>2, <1>6, KeepsArrived
<1> HIDE DEF w
<1>8. Keeps(u, w, R)
  BY <1>4, <1>6, <1>7, KeepsTwice
<1> QED BY <1>8 DEF w, v, x, st, dv

LEMMA TextRead == ASSUME ChatInv, NothingLost, NEW k \in Keys, CancelRead(k) PROVE NothingLost'
<1> DEFINE t == ui.can[k]
<1>1. t # None /\ UNCHANGED <<typed, gone>>
  BY DEF CancelRead
<1>2. /\ t \in Cancellation /\ t.run \in Ids /\ runs[t.run].state # "none" /\ runs[t.run] \in Run
      /\ RunOK(runs[t.run], posted, t.run) /\ Len(runs[t.run].ev) <= Cap
  BY <1>1, CanGives
<1>3. CASE runs[t.run].state \in Final
  <2> DEFINE u == Arrived(RunSnapshot(Drop(ui, {k}), k, t.run, t.epoch, runs[t.run].state,
                                      runs[t.run].delivered), k, t, runs[t.run])
  <2>1. CancelTold(k, runs[t.run]) /\ UNCHANGED runs
    BY <1>3 DEF CancelRead
  <2>2. Show(u)
    BY <2>1, ToldShows
  <2>3. Keeps(ui, u, runs)
    BY <1>2, <1>3, InvGives, TextTold
  <2> HIDE DEF u
  <2> QED BY <1>1, <2>1, <2>2, <2>3, TextsPage
<1>4. CASE runs[t.run].state \notin Final
  <2> DEFINE u == [ui EXCEPT !.can = [@ EXCEPT ![k] = [ui.can[k] EXCEPT !.at = "stopping"]]]
             x == [runs[t.run] EXCEPT !.stop = TRUE]
             r == t.run
  <2>1. Show(u) /\ runs' = [runs EXCEPT ![r].stop = TRUE]
    BY <1>4 DEF CancelRead
  <2>2. runs' = [runs EXCEPT ![r] = x]
    BY <2>1, InvGives DEF RunsGood
  <2>3. x \in Run /\ RunOK(x, posted, r) /\ x.ev = runs[r].ev /\ Extends(runs[r], x)
    BY <1>2, StopGives
  <2>4. u.entry = ui.entry
    BY InvGives DEF Good, PageState
  <2>5. r \in Ids /\ runs[r].state # "none" /\ Len(runs[r].ev) <= Cap
    BY <1>2
  <2> HIDE DEF r, x, u
  <2>6. Grows(runs, runs')
    BY <2>2, <2>3, <2>5, RunsChange
  <2>7. Keeps(ui, ui', runs')
    BY <2>1, <2>4, KeepsSame DEF Show
  <2> QED BY <1>1, <2>6, <2>7, TextsStep
<1> QED BY <1>3, <1>4

LEMMA TextDone == ASSUME ChatInv, NothingLost, NEW k \in Keys, CancelDone(k) PROVE NothingLost'
<1> DEFINE t == ui.can[k]
           u == Arrived(RunSnapshot(Drop(ui, {k}), k, t.run, t.epoch, runs'[t.run].state,
                                    runs'[t.run].delivered), k, t, runs'[t.run])
<1>1. t # None /\ UNCHANGED <<typed, gone>> /\ CancelTold(k, runs'[t.run])
  BY DEF CancelDone
<1>2. t \in Cancellation /\ runs \in [Ids -> Run]
  BY <1>1, CanGives, InvGives DEF RunsGood
<1>3. runs' = [runs EXCEPT ![t.run] = Cancelled(runs[t.run])]
  BY <1>2 DEF CancelDone
<1>4. /\ Good(ui, runs', typed, posted, posts) /\ RunsGood(runs', posted) /\ Grows(runs, runs')
      /\ runs'[t.run].state \in Final
  BY <1>1, <1>3, CancelledStep
<1>5. ui' = u
  BY <1>1, ToldShows DEF Show
<1>6. Keeps(ui, u, runs')
  BY <1>2, <1>4, TextTold
<1> HIDE DEF u
<1> QED BY <1>1, <1>4, <1>5, <1>6, TextsStep

LEMMA TextMessage == ASSUME ChatInv, NothingLost, NEW k \in Keys, Message(k) PROVE NothingLost'
<1> DEFINE b == ui.stream[k]
           n == b.sent + 1
           ev == runs[b.run].ev[n]
           c == runs[b.run].chat
           b1 == [b EXCEPT !.sent = b.sent + 1]
           x == [ui EXCEPT !.stream = [ui.stream EXCEPT ![k] = b1]]
           y == StreamEvent(x, k, b.run, b.epoch, ev)
           u == Shows(y, k, c, b.epoch, ev)
<1>1. b # None /\ b.sent < Len(runs[b.run].ev) /\ UNCHANGED <<runs, typed, gone>>
  BY DEF Message
<1>2. ui \in PageState /\ Pays(runs, ui.entry[k])
  BY InvGives, EntryGives
<1>3. b \in Stream
  BY <1>1, <1>2 DEF PageState
<1>4. b.run \in Ids /\ b.epoch \in Nat /\ b1 \in Stream
  BY <1>3 DEF Stream
<1>5. runs[b.run].ev \in Seq(Events) /\ TellsAll(runs[b.run], runs[b.run].ev)
  BY <1>4, InvGives, RunsGive
<1>6. n \in 1..Len(runs[b.run].ev)
  BY <1>1, <1>3, <1>5 DEF Stream
<1>7. ev \in Events /\ (ev = "delivery" => runs[b.run].delivered)
  BY SMTT(60), <1>5, <1>6 DEF TellsAll, Tells
<1>8. c \in Ids
  <2>1. PICK tn \in BOOLEAN :
           SlotOK(runs, typed, posted, k, ui.entry[k], ui.stream[k], ui.rec[k], ui.can[k], ui.epoch[k],
                  tn, posts[k])
    BY InvGives, KeyHolds
  <2>2. runs[b.run].state # "none"
    BY <1>1, <2>1 DEF SlotOK, HookOK, RunOf
  <2> QED BY <1>4, <2>2, InvGives, ChatGives
<1>9. ui' = u
  BY DEF Message, Shows, Carried, Show
<1> HIDE DEF b1
<1>10. x \in PageState /\ x.entry = ui.entry
  BY <1>2, <1>4 DEF PageState
<1>11. Pays(runs, x.entry[k]) /\ Keeps(ui, x, runs)
  BY <1>2, <1>10, KeepsSame
<1> HIDE DEF x, ev, c, b
<1>12. y \in PageState /\ Keeps(x, y, runs)
  BY <1>4, <1>7, <1>10, <1>11, KeepsEvent
<1> HIDE DEF y
<1>13. Keeps(y, u, runs)
  BY <1>8, <1>12, KeepsShows
<1> HIDE DEF u
<1>14. Keeps(ui, u, runs)
  BY <1>11, <1>12, <1>13, KeepsTwice
<1>15. Keeps(ui, ui', runs') /\ Grows(runs, runs')
  BY <1>1, <1>9, <1>14, GrowsSame
<1> QED BY <1>1, <1>15, TextsStep

LEMMA TextRecovers == ASSUME ChatInv, NothingLost, NEW k \in Keys, Recovers(k) PROVE NothingLost'
<1> DEFINE t == ui.rec[k]
           r == runs[t.run]
           x == FinishRecovery(ui, k)
           v == RunSnapshot(x, k, t.run, t.epoch, r.state, r.delivered)
           ep == ui.epoch[k] + 1
           w == RunSnapshot(x, k, t.run, ep, r.state, r.delivered)
<1>1. t # None /\ r.state # "none" /\ UNCHANGED <<runs, typed, gone>>
  BY DEF Recovers, Current
<1>2. ui \in PageState /\ Pays(runs, ui.entry[k])
  BY InvGives, EntryGives
<1>3. t.run \in Ids /\ t.epoch \in Nat /\ ep \in Nat
  BY <1>1, <1>2 DEF PageState, Recovery
<1>4. r.chat \in Ids /\ r.delivered \in BOOLEAN /\ r.state \in States
  BY <1>1, <1>3, InvGives, ChatGives
<1>5. x \in PageState /\ Keeps(ui, x, runs) /\ Pays(runs, x.entry[k])
  BY <1>2, KeepsFinish
<1>6. \/ Show(RekeyCanonical(v, k, r.chat)) \/ Show(v) \/ Show(Bind(w, k, t.run, ep, TRUE)) \/ Show(ui)
  BY DEF Recovers
<1> HIDE DEF x, ep, t
<1>7. v \in PageState /\ Keeps(x, v, runs)
  BY <1>3, <1>4, <1>5, KeepsSnapshot
<1>8. w \in PageState /\ Keeps(x, w, runs)
  BY <1>3, <1>4, <1>5, KeepsSnapshot
<1> HIDE DEF v, w
<1>9. Keeps(v, RekeyCanonical(v, k, r.chat), runs)
  BY <1>4, <1>7, KeepsRekey
<1>10. Keeps(w, Bind(w, k, t.run, ep, TRUE), runs)
  BY <1>3, <1>8, KeepsBind
<1>11. /\ Keeps(ui, v, runs) /\ Keeps(ui, RekeyCanonical(v, k, r.chat), runs)
       /\ Keeps(ui, Bind(w, k, t.run, ep, TRUE), runs) /\ Keeps(ui, ui, runs)
  BY <1>5, <1>7, <1>8, <1>9, <1>10, KeepsTwice, KeepsSame
<1>12. \E u : Show(u) /\ Keeps(ui, u, runs)
  BY <1>6, <1>11
<1> QED BY <1>1, <1>12, TextsPage

LEMMA TextDelivers == ASSUME ChatInv, NothingLost, NEW r \in Ids, Delivers(r) PROVE NothingLost'
<1> DEFINE x == [runs[r] EXCEPT !.state = "DELIVERED", !.delivered = TRUE,
                                !.ev = Emit(runs[r].ev, <<"delivery">>)]
<1>1. runs[r] \in Run /\ RunOK(runs[r], posted, r)
  BY InvGives, RunsGive
<1>2. runs[r].state = "SENDING"
  BY DEF Delivers
<1>3. x \in Run /\ RunOK(x, posted, r) /\ Len(x.ev) <= Cap /\ Extends(runs[r], x)
  BY <1>1, <1>2, DeliversGives
<1>4. runs' = [runs EXCEPT ![r] = x] /\ ui' = ui /\ typed' = typed /\ gone' = gone
  BY DEF Delivers
<1> HIDE DEF x
<1>5. Grows(runs, runs')
  BY <1>2, <1>3, <1>4, RunsChange
<1> QED BY <1>4, <1>5, KeepsSame, TextsStep

LEMMA TextEnds == ASSUME ChatInv, NothingLost, NEW r \in Ids, Ends(r) PROVE NothingLost'
<1>1. runs[r] \in Run /\ RunOK(runs[r], posted, r) /\ runs \in [Ids -> Run]
  BY InvGives, RunsGive DEF RunsGood
<1>2. runs[r].state # "none"
  BY DEF Ends, Alive
<1>3. PICK s \in Final : runs' = [runs EXCEPT ![r] = Ended(runs[r], s)]
  BY <1>1 DEF Ends
<1> DEFINE x == Ended(runs[r], s)
<1>4. x \in Run /\ RunOK(x, posted, r) /\ Len(x.ev) <= Cap /\ Extends(runs[r], x)
  BY <1>1, <1>2, EndedGives
<1>5. ui' = ui /\ typed' = typed /\ gone' = gone /\ runs' = [runs EXCEPT ![r] = x]
  BY <1>3 DEF Ends
<1> HIDE DEF x
<1>6. Grows(runs, runs')
  BY <1>2, <1>4, <1>5, RunsChange
<1> QED BY <1>5, <1>6, KeepsSame, TextsStep

\* REQUEST_STARTED and REQUEST_FAILED leave the draft alone.
LEMMA KeepsRequest ==
  ASSUME NEW u \in PageState, NEW k \in Keys, Has(u, k), NEW R
  PROVE  Keeps(u, RequestStarted(u, k), R) /\ Keeps(u, RequestFailed(u, k), R)
<1> DEFINE e == u.entry[k]
<1>1. ASSUME NEW b \in BOOLEAN, NEW d, d = [e EXCEPT !.sending = b] PROVE Keeps(u, WithEntry(u, k, d), R)
  <2>1. e \in Entry
    BY DEF PageState, Has
  <2>2. d \in Entry /\ d.draft = e.draft
    BY <1>1, <2>1 DEF Entry
  <2>3. d \in Entries /\ KeepsKey(e, d, R)
    BY <2>2, NoneIsNothing DEF Entries, KeepsKey
  <2>4. Put(u, WithEntry(u, k, d), k, d, u.stream[k], u.rec[k], u.can[k], u.epoch[k])
    BY <2>3, PutEntry
  <2> QED BY <2>3, <2>4, KeepsPut
<1>2. TRUE \in BOOLEAN /\ FALSE \in BOOLEAN
  OBVIOUS
<1>3. /\ RequestStarted(u, k) = WithEntry(u, k, [e EXCEPT !.sending = TRUE])
      /\ RequestFailed(u, k) = WithEntry(u, k, [e EXCEPT !.sending = FALSE])
  BY DEF RequestStarted, RequestFailed
<1> QED BY <1>1, <1>2, <1>3

\* So does an accepted POST.
LEMMA KeepsAccepted ==
  ASSUME NEW u \in PageState, NEW k \in Keys, Has(u, k), NEW p \in Ids, NEW ep \in Nat, NEW tx \in Nat,
         NEW R
  PROVE  RunAccepted(u, k, p, ep, tx) \in PageState /\ Keeps(u, RunAccepted(u, k, p, ep, tx), R)
<1> DEFINE e == u.entry[k]
           m == [run |-> p, text |-> tx]
           d == [e EXCEPT !.payload = m, !.run = p, !.shown = "SENDING", !.epoch = ep,
                          !.sending = FALSE, !.recovering = FALSE]
           z == WithEntry(u, k, d)
           v == RunAccepted(u, k, p, ep, tx)
<1>1. e \in Entry
  BY DEF PageState, Has
<1>2. m \in [run : Ids, text : Nat] /\ p \in Nat /\ "SENDING" \in States
  BY DEF Ids, States
<1>3. v = [z EXCEPT !.torn = @ \ {k}]
  BY DEF RunAccepted
<1> HIDE DEF m, v
<1>4. d \in Entry /\ d.draft = e.draft
  BY <1>1, <1>2 DEF Entry
<1> HIDE DEF d
<1>5. d \in Entries /\ KeepsKey(e, d, R)
  BY <1>4, NoneIsNothing DEF Entries, KeepsKey
<1>6. Put(u, z, k, d, u.stream[k], u.rec[k], u.can[k], u.epoch[k])
  BY <1>5, PutEntry
<1>7. z \in PageState /\ Keeps(u, z, R)
  BY <1>5, <1>6, KeepsPut
<1> HIDE DEF z
<1> DEFINE tt == z.torn \ {k}
<1>8. tt \in SUBSET Ids /\ v = [z EXCEPT !.torn = tt]
  BY <1>3, <1>7 DEF PageState
<1> HIDE DEF tt
<1>9. v \in PageState /\ v.entry = z.entry
  BY <1>7, <1>8 DEF PageState
<1>10. Keeps(u, v, R)
  BY <1>7, <1>9, KeepsSame, KeepsTwice
<1> QED BY <1>9, <1>10 DEF v

\* The key of a POST has an entry, and its run is one to come.
LEMMA PostGives ==
  ASSUME ChatInv, NEW k \in Keys, posts[k] # 0
  PROVE  posts[k] \in Ids /\ Has(ui, k)
<1>1. PICK tn \in BOOLEAN :
         SlotOK(runs, typed, posted, k, ui.entry[k], ui.stream[k], ui.rec[k], ui.can[k], ui.epoch[k],
                tn, posts[k])
  BY InvGives, KeyHolds
<1> QED BY <1>1 DEF SlotOK, PostOK, Has

LEMMA TextAnswered == ASSUME ChatInv, NothingLost, NEW k \in Keys, PostAnswered(k) PROVE NothingLost'
<1> DEFINE p == posts[k]
           ep == ui.epoch[k] + 1
           tx == runs[p].text
           a == RunAccepted(ui, k, p, ep, tx)
           u == Bind(a, k, p, ep, FALSE)
<1>1. /\ p # 0 /\ UNCHANGED <<typed, gone>> /\ runs' = [runs EXCEPT ![p] = Created(k, p)]
      /\ Show(u) \/ Show(ui)
  BY DEF PostAnswered
<1>2. p \in Ids /\ Has(ui, k)
  BY <1>1, PostGives
<1>3. ui \in PageState /\ runs \in [Ids -> Run]
  BY InvGives DEF Good
<1>4. ep \in Nat /\ tx \in Nat
  BY <1>2, <1>3 DEF PageState, Run
<1>5. Grows(runs, runs')
  BY <1>1, CreatedStep DEF Later
<1> HIDE DEF p, ep, tx
<1>6. a \in PageState /\ Keeps(ui, a, runs')
  BY <1>2, <1>3, <1>4, KeepsAccepted
<1> HIDE DEF a
<1>7. Keeps(a, u, runs')
  BY <1>2, <1>4, <1>6, KeepsBind
<1> HIDE DEF u
<1>8. Keeps(ui, u, runs') /\ Keeps(ui, ui, runs')
  BY <1>6, <1>7, KeepsTwice, KeepsSame
<1>9. Keeps(ui, ui', runs')
  BY <1>1, <1>8 DEF Show
<1> QED BY <1>1, <1>5, <1>9, TextsStep

LEMMA TextPostFails == ASSUME ChatInv, NothingLost, NEW k \in Keys, PostFails(k) PROVE NothingLost'
<1> DEFINE p == posts[k]
<1>1. p # 0 /\ UNCHANGED <<typed, gone>> /\ Show(RequestFailed(ui, k))
  BY DEF PostFails
<1>2. Grows(runs, runs')
  <2>1. CASE runs' = runs
    BY <2>1, GrowsSame
  <2>2. CASE runs' = [runs EXCEPT ![p] = Created(k, p)]
    BY <1>1, <2>2, CreatedStep DEF Later
  <2> QED BY <2>1, <2>2 DEF PostFails
<1>3. ui \in PageState /\ Has(ui, k)
  BY <1>1, InvGives, PostGives DEF Good
<1>4. Keeps(ui, ui', runs')
  BY <1>1, <1>3, KeepsRequest DEF Show
<1> QED BY <1>1, <1>2, <1>4, TextsStep

LEMMA TextSend == ASSUME ChatInv, NothingLost, NEW k \in Keys, Send(k) PROVE NothingLost'
<1> DEFINE x == Close(ui, k)
           t == ui.entry[k].draft
<1>1. /\ posted < MaxPosts /\ runs' = [runs EXCEPT ![posted + 1] = [@ EXCEPT !.text = t]]
      /\ Show(RequestStarted(x, k)) /\ UNCHANGED <<typed, gone>> /\ Has(ui, k)
  BY DEF Send, Submits, MayEdit
<1>2. ui \in PageState
  BY InvGives DEF Good
<1>3. t \in Nat
  <2>1. ui.entry[k] \in Entry
    BY <1>1, <1>2 DEF PageState, Has
  <2> QED BY <2>1 DEF Entry
<1>4. Grows(runs, runs')
  BY <1>1, <1>3, SentStep
<1>5. x \in PageState /\ Keeps(ui, x, runs') /\ x.entry = ui.entry
  BY <1>2, KeepsCloses
<1> HIDE DEF x
<1>6. Has(x, k)
  BY <1>1, <1>5 DEF Has
<1>7. Keeps(x, RequestStarted(x, k), runs')
  BY <1>5, <1>6, KeepsRequest
<1>8. Keeps(ui, ui', runs')
  BY <1>1, <1>5, <1>7, KeepsTwice DEF Show
<1> QED BY <1>1, <1>4, <1>8, TextsStep

\* What the user types over is gone by the user's will, and the new text is there.
LEMMA TextType == ASSUME ChatInv, NothingLost, NEW k \in Keys, Type(k) PROVE NothingLost'
<1> DEFINE e == ui.entry[k]
           d == Retyped(e, typed + 1)
           u == DraftChanged(ui, k, typed + 1)
<1>1. /\ Has(ui, k) /\ typed' = typed + 1 /\ ui' = u /\ runs' = runs
      /\ gone' = IF e.draft = 0 THEN gone ELSE gone \cup {e.draft}
  BY DEF Type, MayEdit, Show
<1>2. ui \in PageState /\ typed \in Nat
  BY InvGives DEF Good
<1>3. e \in Entry
  BY <1>1, <1>2 DEF PageState, Has
<1>4. d \in Entry /\ d.draft = typed + 1
  <2> DEFINE n == typed + 1
             y == IF e.shown = "DELIVERY_UNCERTAIN" THEN None ELSE e.payload
  <2>1. n \in Nat /\ y \in [run : Ids, text : Nat] \cup {None}
    BY <1>2, <1>3 DEF Entry
  <2>2. d = [e EXCEPT !.draft = n, !.payload = y]
    BY DEF Retyped
  <2> HIDE DEF d, n, y
  <2>3. d \in Entry /\ d.draft = n
    BY <1>3, <2>1, <2>2 DEF Entry
  <2> QED BY <2>3 DEF n
<1>5. u = WithEntry(ui, k, d)
  BY DEF DraftChanged, Retyped
<1> HIDE DEF u, d
<1>6. u.entry = [ui.entry EXCEPT ![k] = d]
  BY <1>2, <1>5 DEF WithEntry, PageState
<1>7. /\ u.entry[k] = d /\ d # None
      /\ \A j \in Keys \ {k} : u.entry[j] = ui.entry[j]
  BY <1>2, <1>4, <1>6, NoneIsNothing DEF PageState
<1> SUFFICES ASSUME NEW t \in 1..(typed + 1)
             PROVE  t \in gone' \/ Drafted(ui', t) \/ Told(runs', t)
  BY <1>1 DEF NothingLost, Drafted, Told, Has
<1>8. CASE t = typed + 1
  BY <1>1, <1>4, <1>7, <1>8 DEF Drafted, Has
<1>9. CASE t \in 1..typed
  <2>1. t \in gone \/ Drafted(ui, t) \/ Told(runs, t)
    BY <1>9 DEF NothingLost, Drafted, Told
  <2>2. CASE t \in gone \/ Told(runs, t)
    BY <1>1, <2>2
  <2>3. CASE Drafted(ui, t)
    <3>1. PICK j \in Keys : Has(ui, j) /\ ui.entry[j].draft = t
      BY <2>3 DEF Drafted
    <3>2. CASE j = k
      <4>1. e.draft = t /\ t # 0
        BY <1>9, <3>1, <3>2
      <4> QED BY <1>1, <4>1
    <3>3. CASE j # k
      BY <1>1, <1>7, <3>1, <3>3 DEF Drafted, Has
    <3> QED BY <3>2, <3>3
  <2> QED BY <2>1, <2>2, <2>3
<1>10. t = typed + 1 \/ t \in 1..typed
  BY <1>2
<1> QED BY <1>8, <1>9, <1>10

\* Of two copies the user leaves one, with its text.
LEMMA TextResolve ==
  ASSUME ChatInv, NothingLost, NEW choice \in {"source", "target"}, Resolve(choice)
  PROVE  NothingLost'
<1> DEFINE f == ui.conflict.from
           t == ui.conflict.to
           x == Resolved(ui, choice)
           u == RekeyHook(x, f, t, choice, x.entry[t].epoch)
           j == IF choice = "source" THEN t ELSE f
           ff == IF choice = "source" THEN Moved(ui.entry, f, t) ELSE [ui.entry EXCEPT ![f] = None]
<1>1. /\ MayResolve(ui) /\ ui' = u /\ UNCHANGED <<runs, typed>>
      /\ gone' = gone \cup ({ui.entry[j].draft} \ {0})
  BY DEF Resolve, Show
<1>2. ui \in PageState
  BY InvGives DEF Good
<1>3. f \in Keys /\ t \in Ids /\ t \in Keys /\ Has(ui, f) /\ Has(ui, t) /\ f # t
  <2>1. ui.conflict # NoConflict /\ Has(ui, f) /\ Has(ui, t)
    BY <1>1 DEF MayResolve
  <2>2. f \in Keys /\ t \in Ids
    BY <1>2, <2>1 DEF PageState
  <2>3. f \in Provisional
    BY <2>1, InvGives DEF Good, PageOK, ConflictOK
  <2>4. f \notin Ids
    BY <2>3, ChatStreamAssumption DEF Ids
  <2> QED BY <2>1, <2>2, <2>4 DEF Keys
<1>4. ff \in [Keys -> Entry \cup {None}]
  BY <1>2, <1>3 DEF PageState, Moved
<1>5. x = [ui EXCEPT !.conflict = NoConflict, !.entry = ff]
  BY DEF Resolved
<1>6. /\ choice = "source" => ff[t] = ui.entry[f]
      /\ choice # "source" => ff[t] = ui.entry[t]
      /\ \A i \in Keys : i # f /\ i # t => ff[i] = ui.entry[i]
  BY <1>2, <1>3 DEF Moved, PageState
<1> HIDE DEF x, ff
<1>7. x \in PageState /\ x.entry = ff
  BY <1>2, <1>4, <1>5 DEF PageState
<1>8. x.entry[t].epoch \in Nat
  <2>1. ff[t] # None
    BY <1>3, <1>6 DEF Has
  <2>2. ff[t] \in Entry
    BY <1>3, <1>4, <2>1
  <2> QED BY <1>7, <2>2 DEF Entry
<1>9. Keeps(x, u, runs)
  BY <1>3, <1>7, <1>8, KeepsHook
<1>10. ASSUME NEW s, Drafted(ui, s) PROVE Drafted(x, s) \/ s = ui.entry[j].draft
  <2>1. PICK i \in Keys : Has(ui, i) /\ ui.entry[i].draft = s
    BY <1>10 DEF Drafted
  <2>2. CASE i = j
    BY <2>1, <2>2
  <2>3. CASE i # j
    <3>1. \E q \in Keys : x.entry[q] = ui.entry[i]
      BY <1>3, <1>6, <1>7, <2>1, <2>3
    <3> QED BY <2>1, <3>1 DEF Drafted, Has
  <2> QED BY <2>2, <2>3
<1> HIDE DEF u
<1> SUFFICES ASSUME NEW s \in 1..typed
             PROVE  s \in gone' \/ Drafted(ui', s) \/ Told(runs', s)
  BY <1>1 DEF NothingLost, Drafted, Told, Has
<1>11. s \in gone \/ Drafted(ui, s) \/ Told(runs, s)
  BY DEF NothingLost, Drafted, Told
<1>12. s \in Nat \ {0}
  BY InvGives
<1>13. CASE s \in gone \/ Told(runs, s)
  BY <1>1, <1>13
<1>14. CASE Drafted(ui, s)
  <2>1. Drafted(x, s) \/ s = ui.entry[j].draft
    BY <1>10, <1>14
  <2>2. CASE Drafted(x, s)
    BY <1>1, <1>9, <1>12, <2>2 DEF Keeps
  <2>3. CASE s = ui.entry[j].draft
    BY <1>1, <1>12, <2>3
  <2> QED BY <2>1, <2>2, <2>3
<1> QED BY <1>11, <1>13, <1>14

LEMMA NextTexts == ChatInv /\ NothingLost /\ [Next]_vars => NothingLost'
<1> SUFFICES ASSUME ChatInv, NothingLost, [Next]_vars PROVE NothingLost'
  OBVIOUS
<1>1. ASSUME NEW k \in Keys, Type(k) PROVE NothingLost'
  BY <1>1, TextType
<1>2. ASSUME NEW k \in Keys, Send(k) PROVE NothingLost'
  BY <1>2, TextSend
<1>3. ASSUME NEW k \in Keys, Cancel(k) PROVE NothingLost'
  BY <1>3, TextCancel
<1>4. ASSUME NEW k \in Keys, Retry(k) PROVE NothingLost'
  BY <1>4, TextRetry
<1>5. ASSUME NEW choice \in {"source", "target"}, Resolve(choice) PROVE NothingLost'
  BY <1>5, TextResolve
<1>6. ASSUME Refresh PROVE NothingLost'
  BY <1>6, TextRefresh
<1>7. ASSUME NEW k \in Keys, PostAnswered(k) PROVE NothingLost'
  BY <1>7, TextAnswered
<1>8. ASSUME NEW k \in Keys, Message(k) PROVE NothingLost'
  BY <1>8, TextMessage
<1>9. ASSUME NEW k \in Keys, Closes(k) PROVE NothingLost'
  BY <1>9, TextDisconnected DEF Closes
<1>10. ASSUME NEW k \in Keys, Recovers(k) PROVE NothingLost'
  BY <1>10, TextRecovers
<1>11. ASSUME NEW k \in Keys, CancelRead(k) PROVE NothingLost'
  BY <1>11, TextRead
<1>12. ASSUME NEW k \in Keys, CancelDone(k) PROVE NothingLost'
  BY <1>12, TextDone
<1>13. ASSUME NEW k \in Keys, PostFails(k) PROVE NothingLost'
  BY <1>13, TextPostFails
<1>14. ASSUME NEW k \in Keys, Breaks(k) PROVE NothingLost'
  BY <1>14, TextDisconnected DEF Breaks
<1>15. ASSUME NEW k \in Keys, GivesUp(k) PROVE NothingLost'
  BY <1>15, TextGivesUp
<1>16. ASSUME NEW k \in Keys, CancelFails(k) PROVE NothingLost'
  BY <1>16, TextFails
<1>17. ASSUME NEW r \in Ids, Delivers(r) PROVE NothingLost'
  BY <1>17, TextDelivers
<1>18. ASSUME NEW r \in Ids, Ends(r) PROVE NothingLost'
  BY <1>18, TextEnds
<1>19. ASSUME UNCHANGED vars PROVE NothingLost'
  BY <1>19 DEF vars, NothingLost, Has
<1> QED
  BY <1>1, <1>2, <1>3, <1>4, <1>5, <1>6, <1>7, <1>8, <1>9, <1>10, <1>11, <1>12, <1>13, <1>14, <1>15,
     <1>16, <1>17, <1>18, <1>19 DEF Next, User, Page, Trouble

\* A text the user typed is in a composer or in ChatGPT, unless the user replaced
\* it or let it go: no send, failure, move, merge, recovery or refresh loses it.
THEOREM TextIsNeverLost == Spec => []NothingLost
<1>1. Init => NothingLost
  BY DEF Init, NothingLost
<1>2. NothingLost /\ ChatInv /\ [Next]_vars => NothingLost'
  BY NextTexts
<1> QED BY <1>1, <1>2, InvAlways, PTL DEF Spec
=============================================================================
