------------------------- MODULE TrustedSend_proofs --------------------------
EXTENDS TrustedSend, SequenceTheorems, TLAPS

(***************************************************************************)
(* Theorems about TrustedSend.                                             *)
(*                                                                         *)
(* Six invariants, in the order in which they need one another.            *)
(* ClickInv: a send that was pressed is past the press, and not called     *)
(* refused.  DbgInv: the works that ask for a tab's debugger form a queue, *)
(* of which only the first does not wait.  ShotInv: a picture whose tab    *)
(* still holds a mask was taken behind it, because only the first of the   *)
(* queue touches the references of a mask.  ViewInv: what a send compared  *)
(* with its page stands until its press, unless the page changed.          *)
(* QueueInv: the activation queue holds nobody twice, and nobody whose     *)
(* command has ended or was not issued.  RestTyped: the types left over.   *)
(*                                                                         *)
(* What the extension's service worker promises thus holds for every set   *)
(* of tabs, sends, files and screenshots, and for every number of commands *)
(* and mishaps.  SendsAnswered is a liveness property: TLC checks it.      *)
(***************************************************************************)

\* The places of a screenshot.
ShotPCs == {"idle", "wait", "mask", "shoot", "restore"}

\* What a send is answered with.
Results == {"waiting", "ok", "refused", "uncertain"}

\* Where the works are, what became of the sends.
Shape ==
  /\ pc \in [Works -> SendPCs \cup ShotPCs]
  /\ \A s \in Sends : pc[s] \in SendPCs
  /\ \A k \in Captures : pc[k] \in ShotPCs
  /\ res \in [Sends -> Results]
  /\ presses \in [Sends -> Nat]

\* A text is pressed once, and a send that was pressed is past the press and is
\* not called refused.
ClickOK(s) ==
  /\ presses[s] \in {0, 1}
  /\ presses[s] = 1 => /\ pc[s] \in {"pressed", "confirm", "proof", "done"}
                       /\ res[s] # "refused"
  /\ res[s] = "refused" => pc[s] = "done"

\* The invariant about clicks.
ClickInv == Shape /\ \A s \in Sends : ClickOK(s)
-----------------------------------------------------------------------------
\* Work w goes to p, nothing is pressed, and no other work moves.
LEMMA ClickGo ==
  ASSUME ClickInv, NEW s \in Sends, NEW p \in SendPCs, Go(s, p),
         res' = res, presses' = presses, res[s] = "refused" => p = "done",
         presses[s] = 1 => p \in {"pressed", "confirm", "proof", "done"}
  PROVE  ClickInv'
<1>1. Sends \subseteq Works /\ \A k \in Captures : k \in Works /\ k # s
  BY TrustedSendAssumption DEF Works
<1>2. Shape'
  BY <1>1 DEF ClickInv, Shape, Go
<1>3. \A x \in Sends : ClickOK(x)'
  BY <1>1 DEF ClickInv, Shape, Go, ClickOK
<1> QED BY <1>2, <1>3 DEF ClickInv

\* A command is answered.
LEMMA ClickAnswer ==
  ASSUME ClickInv, NEW s \in Sends, NEW a \in {"ok", "uncertain", "retry", "rejected"}, Answer(s, a),
         presses' = presses, presses[s] = 1 => a \in {"ok", "uncertain"}
  PROVE  ClickInv'
<1>1. Sends \subseteq Works /\ \A k \in Captures : k \in Works /\ k # s
  BY TrustedSendAssumption DEF Works
<1>2. CASE a = "retry" /\ s \notin bare /\ res[s] = "waiting" /\ Go(s, "idle") /\ UNCHANGED res
  BY <1>2, ClickGo DEF SendPCs
<1>3. CASE /\ Go(s, "done")
           /\ res' = [res EXCEPT ![s] = IF @ # "waiting" THEN @
                                    ELSE IF a \in {"retry", "rejected"} THEN "refused" ELSE a]
  <2>1. Shape'
    BY <1>1, <1>3 DEF ClickInv, Shape, Go, Results, SendPCs
  <2>2. pc'[s] = "done" /\ \A x \in Sends : x # s => pc'[x] = pc[x] /\ res'[x] = res[x]
    BY <1>1, <1>3 DEF ClickInv, Shape, Go
  <2>3. presses[s] = 1 => res'[s] # "refused"
    BY <1>1, <1>3 DEF ClickInv, Shape, ClickOK
  <2>4. \A x \in Sends : ClickOK(x)'
    BY <2>2, <2>3 DEF ClickInv, ClickOK
  <2> QED BY <2>1, <2>4 DEF ClickInv
<1> QED BY <1>2, <1>3 DEF Answer

\* Nothing that the invariant looks at changes.
LEMMA ClickQuiet == ASSUME ClickInv, pc' = pc, res' = res, presses' = presses PROVE ClickInv'
BY DEF ClickInv, Shape, ClickOK

\* A screenshot moves no send.
LEMMA ClickShot ==
  ASSUME ClickInv, NEW k \in Captures, NEW p \in ShotPCs, Go(k, p), res' = res, presses' = presses
  PROVE  ClickInv'
<1>1. Captures \subseteq Works /\ \A s \in Sends : s \in Works /\ k # s
  BY TrustedSendAssumption DEF Works
<1> QED BY <1>1 DEF ClickInv, Shape, ClickOK, Go

\* No step of a send presses twice, or presses what is called refused later.
LEMMA ClickSteps == ASSUME ClickInv, NEW s \in Sends, SendStep(s) PROVE ClickInv'
<1> USE DEF SendPCs
<1>0. pc[s] \in {"pressed", "confirm", "proof", "done"} \/ presses[s] = 0
  BY DEF ClickInv, ClickOK, Shape
<1>00. pc[s] # "done" => res[s] # "refused"
  BY DEF ClickInv, ClickOK
<1>1. CASE UploadBegin(s)
  BY <1>0, <1>00, <1>1, ClickGo, ClickAnswer DEF UploadBegin, Refuse, Breaks, Goes, KeepUpload
<1>2. CASE UploadChunk(s)
  BY <1>0, <1>00, <1>2, ClickGo, ClickAnswer DEF UploadChunk, Refuse, Breaks, Goes, KeepUpload
<1>3. CASE UploadCommit(s)
  BY <1>0, <1>00, <1>3, ClickGo, ClickAnswer DEF UploadCommit, Refuse, Breaks, Goes, KeepUpload
<1>4. CASE UploadReady(s)
  BY <1>0, <1>00, <1>4, ClickGo, ClickAnswer DEF UploadReady, Refuse, Enqueue, KeepUpload
<1>5. CASE PrepareBare(s)
  BY <1>0, <1>00, <1>5, ClickGo, ClickAnswer DEF PrepareBare, OnTime, End, NoScript
<1>6. CASE NativeCheck(s)
  BY <1>0, <1>00, <1>6, ClickGo, ClickAnswer DEF NativeCheck, OnTime, End
<1>7. CASE NativeAnswer(s)
  BY <1>0, <1>00, <1>7, ClickGo, ClickAnswer DEF NativeAnswer, OnTime, End
<1>8. CASE Proof(s)
  BY <1>0, <1>00, <1>8, ClickGo, ClickAnswer DEF Proof, OnTime, End
<1>9. CASE Acquire(s)
  BY <1>0, <1>00, <1>9, ClickGo, ClickAnswer DEF Acquire, OnTime, Late, End
<1>10. CASE Focus(s)
  BY <1>0, <1>00, <1>10, ClickGo, ClickAnswer DEF Focus, OnTime, Late, End
<1>11. CASE PrepareType(s)
  BY <1>0, <1>00, <1>11, ClickGo DEF PrepareType
<1>12. CASE PrepareCheck(s)
  BY <1>0, <1>00, <1>12, ClickGo, ClickAnswer DEF PrepareCheck, OnTime, End, NoScript
<1>13. CASE StabiliseStart(s)
  BY <1>0, <1>00, <1>13, ClickGo, ClickAnswer DEF StabiliseStart, End
<1>14. CASE StabiliseEnd(s)
  BY <1>0, <1>00, <1>14, ClickGo, ClickAnswer DEF StabiliseEnd, Handover, End
<1>15. CASE AttachSend(s)
  BY <1>0, <1>00, <1>15, ClickGo, ClickAnswer DEF AttachSend, Attach, MayAttach, End
<1>16. CASE Check(s)
  BY <1>0, <1>00, <1>16, ClickGo, ClickAnswer DEF Check, OnTime, Abandon, End
<1>17. CASE Hover(s)
  BY <1>0, <1>00, <1>17, ClickGo, ClickAnswer DEF Hover, OnTime, Abandon, End
<1>18. CASE Press(s)
  <2>1. /\ presses[s] = 0 /\ presses' = [presses EXCEPT ![s] = @ + 1]
        /\ pc' = [pc EXCEPT ![s] = "pressed"] /\ res' = res /\ res[s] # "refused"
    BY <1>0, <1>00, <1>18 DEF Press, Pressed, OnTime, Go
  <2>2. Sends \subseteq Works /\ \A k \in Captures : k \in Works /\ k # s
    BY TrustedSendAssumption DEF Works
  <2>3. Shape'
    BY <2>1, <2>2 DEF ClickInv, Shape
  <2>4. \A x \in Sends : ClickOK(x)'
    BY <2>1, <2>2 DEF ClickInv, Shape, ClickOK
  <2> QED BY <2>3, <2>4 DEF ClickInv
<1>19. CASE PressAnswer(s)
  BY <1>0, <1>00, <1>19, ClickGo, ClickAnswer DEF PressAnswer, LostClick, OnTime, End
<1>20. CASE Confirm(s)
  BY <1>0, <1>00, <1>20, ClickGo, ClickAnswer DEF Confirm, End
<1> QED BY <1>1, <1>2, <1>3, <1>4, <1>5, <1>6, <1>7, <1>8, <1>9, <1>10, <1>11, <1>12, <1>13, <1>14,
           <1>15, <1>16, <1>17, <1>18, <1>19, <1>20 DEF SendStep, UploadStep

\* Screenshots press nothing.
LEMMA ClickShots == ASSUME ClickInv, NEW k \in Captures, Shot(k) \/ ShotStep(k) PROVE ClickInv'
<1> USE DEF KeepShot, sendVars, ShotPCs
<1>1. CASE Shot(k)
  BY <1>1, ClickShot, ClickQuiet DEF Shot
<1>2. CASE AttachShot(k)
  BY <1>2, ClickShot DEF AttachShot, Attach, EndShot
<1>3. CASE MaskBegin(k)
  BY <1>3, ClickShot DEF MaskBegin, NoMask, EndShot
<1>4. CASE Shoot(k)
  BY <1>4, ClickShot DEF Shoot
<1>5. CASE Restore(k)
  BY <1>5, ClickShot DEF Restore, EndShot
<1> QED BY <1>1, <1>2, <1>3, <1>4, <1>5 DEF ShotStep

\* Every step of the system keeps the invariant about clicks.
LEMMA ClickNext == ClickInv /\ [Next]_vars => ClickInv'
<1> SUFFICES ASSUME ClickInv, [Next]_vars PROVE ClickInv'
  OBVIOUS
<1>1. CASE UNCHANGED vars
  BY <1>1, ClickQuiet DEF vars, sendVars
<1>2. ASSUME NEW t \in Tabs, UserActs(t) \/ Processed(t) \/ MaskExpires(t) PROVE ClickInv'
  BY <1>2, ClickQuiet DEF UserActs, Processed, MaskExpires, sendVars
<1>3. ASSUME NEW s \in Sends, TransferExpires(s) PROVE ClickInv'
  BY <1>3, ClickQuiet DEF TransferExpires, sendVars
<1>4. ASSUME NEW s \in Sends, Call(s) PROVE ClickInv'
  <2>1. presses[s] # 1 /\ res[s] # "refused"
    BY <1>4 DEF Call, ClickInv, ClickOK
  <2> QED BY <1>4, <2>1, ClickGo DEF Call, Enqueue, SendPCs
<1>5. ASSUME NEW s \in Sends, GiveUp(s) PROVE ClickInv'
  BY <1>5 DEF GiveUp, ClickInv, Shape, ClickOK, Results
<1>6. ASSUME NEW s \in Sends, SendStep(s) PROVE ClickInv'
  BY <1>6, ClickSteps
<1>7. ASSUME NEW k \in Captures, Shot(k) \/ ShotStep(k) PROVE ClickInv'
  BY <1>7, ClickShots
<1> QED BY <1>1, <1>2, <1>3, <1>4, <1>5, <1>6, <1>7 DEF Next

\* Nothing is pressed at first.
LEMMA InitClick == Init => ClickInv
BY TrustedSendAssumption DEF Init, ClickInv, Shape, ClickOK, SendPCs, ShotPCs, Results, Works

\* A text is clicked at most once, and not at all when the driver calls the send
\* refused or asks again: no answer that lets the driver retry (Answer) is given
\* by a step after the press, and a lost confirmation is never called a refusal.
THEOREM ClickSafe == Spec => []ClickedOnce
<1>1. Init => ClickInv
  BY InitClick
<1>2. ClickInv => ClickedOnce
  BY DEF ClickInv, ClickedOnce, ClickOK, Shape
<1> QED BY <1>1, <1>2, ClickNext, PTL DEF Spec
-----------------------------------------------------------------------------
\* Where a work asks for the debugger or has it.  The press of a file is the
\* helper's and needs none.
DbgPCs == {"wait", "check", "hover", "pressing", "pressed", "mask", "shoot", "restore"}

\* Work w asks for the debugger of its tab, or has it.
InDbg(w) == pc[w] \in DbgPCs /\ w \notin Files

\* Who may be where.
Kind(w) ==
  /\ w \in Captures => pc[w] \in ShotPCs
  /\ w \in Sends => pc[w] \in SendPCs
  /\ w \in Files => pc[w] \notin {"refocus", "wait", "check", "hover"}
  /\ w \in Sends \ Files => pc[w] \notin {"begin", "chunk", "commit", "ready", "native", "proof"}

\* The works of tab t that ask for its debugger are q[1], ..., q[n] in the order
\* in which they asked.
Line(t, n, q) ==
  /\ \A w \in Works : TabOf[w] = t /\ InDbg(w) <=> \E i \in 1..n : q[i] = w
  /\ \A i, j \in 1..n : q[i] = q[j] => i = j
  /\ dtail[t] = IF n = 0 THEN None ELSE q[n]
  /\ \A i \in 1..n : dprev[q[i]] = IF i = 1 THEN None ELSE q[i-1]

\* The session of tab t belongs to a work that waits no more.
Session(t) ==
  attached[t] # None =>
    TabOf[attached[t]] = t /\ InDbg(attached[t]) /\ pc[attached[t]] # "wait"

\* The types of what the queues are made of.
DbgTyped ==
  /\ pc \in [Works -> SendPCs \cup ShotPCs]
  /\ dtail \in [Tabs -> Works \cup {None}]
  /\ dprev \in [Works -> Works \cup {None}]
  /\ attached \in [Tabs -> Works \cup {None}]

\* The invariant about the debugger queues.
DbgInv ==
  /\ DbgTyped
  /\ \A w \in Works : Kind(w)
  /\ \A t \in Tabs : \E n \in Nat : \E q \in [1..n -> Works] : Line(t, n, q)
  /\ \A w \in Works : dprev[w] # None => InDbg(w) /\ pc[w] = "wait"
  /\ \A t \in Tabs : Session(t)
-----------------------------------------------------------------------------
\* At most one work of a tab does not wait for another.
LEMMA OneHead ==
  ASSUME DbgInv, NEW v \in Works, NEW w \in Works, InDbg(v), InDbg(w), TabOf[v] = TabOf[w],
         dprev[v] = None, dprev[w] = None
  PROVE  v = w
<1>1. TabOf[w] \in Tabs /\ None \notin Works
  BY TrustedSendAssumption
<1>2a. PICK n \in Nat : \E q \in [1..n -> Works] : Line(TabOf[w], n, q)
  BY <1>1 DEF DbgInv
<1>2. PICK q \in [1..n -> Works] : Line(TabOf[w], n, q)
  BY <1>2a
<1>3. PICK i \in 1..n, j \in 1..n : q[i] = v /\ q[j] = w
  BY <1>2 DEF Line
<1>4. ASSUME NEW m \in 1..n, dprev[q[m]] = None PROVE m = 1
  <2>1. m # 1 => m - 1 \in 1..n
    OBVIOUS
  <2>2. m # 1 => q[m-1] \in Works
    BY <2>1
  <2> QED BY <1>1, <1>2, <1>4, <2>2 DEF Line
<1> QED BY <1>3, <1>4

\* Work w moves within the queue of its tab, or outside.
LEMMA DbgMove ==
  ASSUME DbgInv, NEW w \in Works, NEW p \in SendPCs \cup ShotPCs, Go(w, p), Kind(w)',
         UNCHANGED dbgVars,
         \/ ~InDbg(w) /\ ~InDbg(w)'
         \/ InDbg(w) /\ InDbg(w)' /\ pc[w] # "wait" /\ p # "wait"
  PROVE  DbgInv'
<1>1. /\ pc' \in [Works -> SendPCs \cup ShotPCs] /\ pc'[w] = p
      /\ \A x \in Works : x # w => pc'[x] = pc[x]
      /\ dtail' = dtail /\ dprev' = dprev /\ attached' = attached
  BY DEF DbgInv, DbgTyped, Go, dbgVars
<1>2. \A x \in Works : InDbg(x)' <=> InDbg(x)
  BY <1>1 DEF InDbg
<1>3. \A x \in Works : Kind(x)'
  BY <1>1 DEF DbgInv, Kind
<1>4. ASSUME NEW t \in Tabs PROVE \E n \in Nat : \E q \in [1..n -> Works] : Line(t, n, q)'
  <2>0. PICK n \in Nat : \E q \in [1..n -> Works] : Line(t, n, q)
    BY DEF DbgInv
  <2>1. PICK q \in [1..n -> Works] : Line(t, n, q)
    BY <2>0
  <2>2. Line(t, n, q)'
    BY <1>1, <1>2, <2>1 DEF Line
  <2> QED BY <2>2
<1>5. DbgTyped'
  BY <1>1 DEF DbgInv, DbgTyped
<1>6. ASSUME NEW x \in Works, dprev'[x] # None PROVE InDbg(x)' /\ pc'[x] = "wait"
  BY <1>1, <1>2, <1>6 DEF DbgInv
<1>7. ASSUME NEW t \in Tabs PROVE Session(t)'
  <2>1. Session(t) /\ attached[t] \in Works \cup {None}
    BY DEF DbgInv, DbgTyped
  <2> QED BY <1>1, <1>2, <2>1 DEF Session
<1> QED BY <1>3, <1>4, <1>5, <1>6, <1>7 DEF DbgInv

\* Work w asks: it is the last of the queue of its tab.
LEMMA DbgReserve ==
  ASSUME DbgInv, NEW w \in Works, w \notin Files, ~InDbg(w), Go(w, "wait"), Kind(w)',
         Reserve(w), attached' = attached
  PROVE  DbgInv'
<1> DEFINE u == TabOf[w]
<1>0. u \in Tabs /\ None \notin Works
  BY TrustedSendAssumption
<1>1. /\ pc' \in [Works -> SendPCs \cup ShotPCs] /\ pc'[w] = "wait"
      /\ \A x \in Works : x # w => pc'[x] = pc[x]
  BY DEF DbgInv, DbgTyped, Go, SendPCs
<1>2. /\ dprev' \in [Works -> Works \cup {None}] /\ dprev'[w] = dtail[u]
      /\ \A x \in Works : x # w => dprev'[x] = dprev[x]
  BY <1>0 DEF DbgInv, DbgTyped, Reserve
<1>3. /\ dtail' \in [Tabs -> Works \cup {None}] /\ dtail'[u] = w
      /\ \A t \in Tabs : t # u => dtail'[t] = dtail[t]
  BY <1>0 DEF DbgInv, DbgTyped, Reserve
<1>4. InDbg(w)' /\ \A x \in Works : x # w => (InDbg(x)' <=> InDbg(x))
  BY <1>1 DEF InDbg, DbgPCs
<1> HIDE DEF u
<1>5. ASSUME NEW t \in Tabs PROVE \E n \in Nat : \E q \in [1..n -> Works] : Line(t, n, q)'
  <2>0. PICK n \in Nat : \E q \in [1..n -> Works] : Line(t, n, q)
    BY DEF DbgInv
  <2>1. PICK q \in [1..n -> Works] : Line(t, n, q)
    BY <2>0
  <2>2. \A i \in 1..n : q[i] \in Works /\ q[i] # w
    BY <2>1 DEF Line
  <2>3. CASE t # u
    <3>1. TabOf[w] # t
      BY <2>3 DEF u
    <3>2. Line(t, n, q)'
      BY <1>1, <1>2, <1>3, <1>4, <2>1, <2>2, <2>3, <3>1 DEF Line
    <3> QED BY <3>2
  <2>4. CASE t = u
    <3> DEFINE r == [i \in 1..n+1 |-> IF i = n + 1 THEN w ELSE q[i]]
    <3>1. r \in [1..n+1 -> Works] /\ r[n+1] = w /\ \A i \in 1..n : r[i] = q[i]
      OBVIOUS
    <3> HIDE DEF r
    <3>2. \A x \in Works : TabOf[x] = t /\ InDbg(x)' <=> \E i \in 1..n+1 : r[i] = x
      <4>1. TabOf[w] = t
        BY <2>4 DEF u
      <4>2. ASSUME NEW x \in Works, x # w
            PROVE  (\E i \in 1..n+1 : r[i] = x) <=> (\E i \in 1..n : q[i] = x)
        BY <3>1, <4>2
      <4> QED BY <1>4, <2>1, <3>1, <4>1, <4>2 DEF Line
    <3>3. \A i, j \in 1..n+1 : r[i] = r[j] => i = j
      BY <2>1, <2>2, <3>1 DEF Line
    <3>4. dtail'[t] = r[n+1]
      BY <1>3, <2>4, <3>1
    <3>5. \A i \in 1..n+1 : dprev'[r[i]] = IF i = 1 THEN None ELSE r[i-1]
      <4>1. ASSUME NEW i \in 1..n PROVE dprev'[r[i]] = IF i = 1 THEN None ELSE r[i-1]
        BY <1>2, <2>1, <2>2, <3>1 DEF Line
      <4>2. dprev'[r[n+1]] = IF n + 1 = 1 THEN None ELSE r[n]
        BY <1>2, <2>1, <2>4, <3>1 DEF Line
      <4> QED BY <4>1, <4>2
    <3>6. Line(t, n+1, r)'
      BY <3>2, <3>3, <3>4, <3>5 DEF Line
    <3> QED BY <3>1, <3>6
  <2> QED BY <2>3, <2>4
<1>6. \A x \in Works : Kind(x)'
  BY <1>1 DEF DbgInv, Kind
<1>7. ASSUME NEW x \in Works, dprev'[x] # None PROVE InDbg(x)' /\ pc'[x] = "wait"
  BY <1>1, <1>2, <1>4, <1>7 DEF DbgInv
<1>8. ASSUME NEW t \in Tabs PROVE Session(t)'
  <2>1. Session(t) /\ attached[t] \in Works \cup {None}
    BY DEF DbgInv, DbgTyped
  <2> QED BY <1>1, <1>4, <2>1 DEF Session
<1>9. DbgTyped'
  BY <1>1, <1>2, <1>3 DEF DbgInv, DbgTyped
<1> QED BY <1>5, <1>6, <1>7, <1>8, <1>9 DEF DbgInv

\* Work w, the first of the queue, gets the session.
LEMMA DbgAttach ==
  ASSUME DbgInv, NEW w \in Works, w \notin Files, NEW p \in DbgPCs \ {"wait"},
         p \in SendPCs \cup ShotPCs, Attach(w, p), Kind(w)'
  PROVE  DbgInv'
<1> DEFINE u == TabOf[w]
<1>0. u \in Tabs /\ None \notin Works
  BY TrustedSendAssumption
<1>1. /\ pc' \in [Works -> SendPCs \cup ShotPCs] /\ pc'[w] = p
      /\ \A x \in Works : x # w => pc'[x] = pc[x]
      /\ pc[w] = "wait" /\ dprev[w] = None /\ dtail' = dtail /\ dprev' = dprev
  BY DEF DbgInv, DbgTyped, Attach, MayAttach, Go
<1>2. /\ attached' \in [Tabs -> Works \cup {None}] /\ attached'[u] = w
      /\ \A t \in Tabs : t # u => attached'[t] = attached[t]
  BY <1>0 DEF DbgInv, DbgTyped, Attach
<1>3. InDbg(w) /\ InDbg(w)' /\ \A x \in Works : InDbg(x)' <=> InDbg(x)
  BY <1>1 DEF InDbg, DbgPCs
<1>4. ASSUME NEW t \in Tabs PROVE \E n \in Nat : \E q \in [1..n -> Works] : Line(t, n, q)'
  <2>0. PICK n \in Nat : \E q \in [1..n -> Works] : Line(t, n, q)
    BY DEF DbgInv
  <2>1. PICK q \in [1..n -> Works] : Line(t, n, q)
    BY <2>0
  <2>2. Line(t, n, q)'
    BY <1>1, <1>3, <2>1 DEF Line
  <2> QED BY <2>2
<1>5. \A x \in Works : Kind(x)'
  BY <1>1 DEF DbgInv, Kind
<1>6. ASSUME NEW x \in Works, dprev'[x] # None PROVE InDbg(x)' /\ pc'[x] = "wait"
  BY <1>1, <1>3, <1>6 DEF DbgInv
<1>7. ASSUME NEW t \in Tabs PROVE Session(t)'
  <2>1. Session(t) /\ attached[t] \in Works \cup {None}
    BY DEF DbgInv, DbgTyped
  <2> QED BY <1>1, <1>2, <1>3, <2>1 DEF Session
<1>8. DbgTyped'
  BY <1>1, <1>2 DEF DbgInv, DbgTyped
<1> QED BY <1>4, <1>5, <1>6, <1>7, <1>8 DEF DbgInv

\* The first of the queue leaves it: the one behind it waits no more.
LEMMA DbgRelease ==
  ASSUME DbgInv, NEW w \in Works, NEW p \in SendPCs \cup ShotPCs, InDbg(w), dprev[w] = None,
         Go(w, p), p \notin DbgPCs, Kind(w)', Released(w)
  PROVE  DbgInv'
<1> DEFINE u == TabOf[w]
<1>0. u \in Tabs /\ None \notin Works
  BY TrustedSendAssumption
<1>1. /\ pc' \in [Works -> SendPCs \cup ShotPCs] /\ pc'[w] = p
      /\ \A x \in Works : x # w => pc'[x] = pc[x]
  BY DEF DbgInv, DbgTyped, Go
<1>2. /\ dprev' \in [Works -> Works \cup {None}]
      /\ \A x \in Works : dprev'[x] = IF dprev[x] = w THEN None ELSE dprev[x]
  BY DEF DbgInv, DbgTyped, Released
<1>3. /\ dtail' \in [Tabs -> Works \cup {None}]
      /\ dtail'[u] = (IF dtail[u] = w THEN None ELSE dtail[u])
      /\ \A t \in Tabs : t # u => dtail'[t] = dtail[t]
  BY <1>0 DEF DbgInv, DbgTyped, Released
<1>4. /\ attached' \in [Tabs -> Works \cup {None}]
      /\ attached'[u] = (IF attached[u] = w THEN None ELSE attached[u])
      /\ \A t \in Tabs : t # u => attached'[t] = attached[t]
  BY <1>0 DEF DbgInv, DbgTyped, Released
<1>5. ~InDbg(w)' /\ \A x \in Works : x # w => (InDbg(x)' <=> InDbg(x))
  BY <1>1 DEF InDbg
<1>6. ASSUME NEW t \in Tabs PROVE \E n \in Nat : \E q \in [1..n -> Works] : Line(t, n, q)'
  <2>0. PICK n \in Nat : \E q \in [1..n -> Works] : Line(t, n, q)
    BY DEF DbgInv
  <2>1. PICK q \in [1..n -> Works] : Line(t, n, q)
    BY <2>0
  <2>2. \A i \in 1..n : q[i] \in Works /\ TabOf[q[i]] = t
    BY <2>1 DEF Line
  <2>3. CASE t # u
    <3>1. \A i \in 1..n : q[i] # w
      BY <2>2, <2>3
    <3>2. \A i \in 1..n : dprev'[q[i]] = dprev[q[i]]
      <4>1. ASSUME NEW i \in 1..n PROVE dprev[q[i]] # w
        <5>1. i # 1 => i - 1 \in 1..n
          OBVIOUS
        <5> QED BY <1>0, <2>1, <3>1, <5>1 DEF Line
      <4> QED BY <1>2, <2>2, <4>1
    <3> HIDE DEF u
    <3>3. TabOf[w] # t
      BY <2>3 DEF u
    <3>4. Line(t, n, q)'
      BY <1>3, <1>5, <2>1, <2>3, <3>1, <3>2, <3>3 DEF Line
    <3> QED BY <3>4
  <2>4. CASE t = u
    <3>1. n # 0 /\ q[1] = w
      <4>1. PICK i \in 1..n : q[i] = w
        BY <2>1, <2>4 DEF Line
      <4>2. i # 1 => i - 1 \in 1..n
        OBVIOUS
      <4>3. i = 1
        BY <1>0, <2>1, <2>2, <4>1, <4>2 DEF Line
      <4> QED BY <4>1, <4>3
    <3> DEFINE m == n - 1
               r == [i \in 1..m |-> q[i+1]]
    <3>2. m \in Nat /\ n = m + 1
      BY <3>1
    <3>3. r \in [1..m -> Works] /\ \A i \in 1..m : i + 1 \in 1..n /\ r[i] = q[i+1]
      BY <3>2
    <3> HIDE DEF r, m, u
    <3>4. \A i \in 1..m : r[i] # w
      BY <2>1, <3>1, <3>3 DEF Line
    <3>5. \A x \in Works : TabOf[x] = t /\ InDbg(x)' <=> \E i \in 1..m : r[i] = x
      <4>1. ASSUME NEW x \in Works, x # w
            PROVE  (\E i \in 1..n : q[i] = x) <=> (\E i \in 1..m : r[i] = x)
        <5>1. ASSUME NEW i \in 1..n, q[i] = x PROVE \E j \in 1..m : r[j] = x
          <6>1. i - 1 \in 1..m
            BY <3>1, <3>2, <4>1, <5>1
          <6> QED BY <3>3, <5>1, <6>1
        <5> QED BY <3>3, <5>1
      <4> QED BY <1>5, <2>1, <3>4, <4>1 DEF Line
    <3>6. \A i, j \in 1..m : r[i] = r[j] => i = j
      <4>1. ASSUME NEW i \in 1..m, NEW j \in 1..m, r[i] = r[j] PROVE i = j
        <5>1. i + 1 = j + 1
          BY <2>1, <3>3, <4>1 DEF Line
        <5> QED BY <5>1
      <4> QED BY <4>1
    <3>7. dtail'[t] = IF m = 0 THEN None ELSE r[m]
      <4>1. dtail[t] = q[n]
        BY <2>1, <3>1 DEF Line
      <4>2. CASE m = 0
        BY <1>3, <2>4, <3>1, <3>2, <4>1, <4>2
      <4>3. CASE m # 0
        <5>1. m \in 1..m /\ r[m] = q[n]
          BY <3>2, <3>3, <4>3
        <5> QED BY <1>3, <2>4, <3>4, <4>1, <4>3, <5>1
      <4> QED BY <4>2, <4>3
    <3>8. \A i \in 1..m : dprev'[r[i]] = IF i = 1 THEN None ELSE r[i-1]
      <4>1. ASSUME NEW i \in 1..m PROVE dprev[r[i]] = q[i]
        <5>1. dprev[q[i+1]] = IF i + 1 = 1 THEN None ELSE q[i+1-1]
          BY <2>1, <3>3 DEF Line
        <5> QED BY <3>3, <5>1
      <4>2. ASSUME NEW i \in 1..m, i # 1 PROVE i - 1 \in 1..m /\ q[i] = r[i-1]
        <5>1. i - 1 \in 1..m
          BY <4>2, <3>2
        <5> QED BY <3>3, <5>1
      <4>3. ASSUME NEW i \in 1..m, i # 1 PROVE dprev'[r[i]] = r[i-1]
        BY <1>2, <3>3, <3>4, <4>1, <4>2, <4>3
      <4>4. 1 \in 1..m => dprev'[r[1]] = None
        BY <1>2, <3>1, <3>3, <4>1
      <4> QED BY <4>3, <4>4
    <3>9. Line(t, m, r)'
      BY <3>5, <3>6, <3>7, <3>8 DEF Line
    <3> QED BY <3>2, <3>3, <3>9
  <2> QED BY <2>3, <2>4
<1>7. \A x \in Works : Kind(x)'
  BY <1>1 DEF DbgInv, Kind
<1>8. ASSUME NEW x \in Works, dprev'[x] # None PROVE InDbg(x)' /\ pc'[x] = "wait"
  <2>1. dprev[x] # None /\ x # w
    BY <1>2, <1>8
  <2> QED BY <1>1, <1>5, <2>1 DEF DbgInv
<1>9. ASSUME NEW t \in Tabs PROVE Session(t)'
  <2>1. Session(t) /\ attached[t] \in Works \cup {None}
    BY DEF DbgInv, DbgTyped
  <2>2. attached'[t] # None => attached'[t] = attached[t] /\ attached[t] # w
    <3>1. attached[t] = w => t = u
      BY <1>0, <2>1 DEF Session
    <3> QED BY <1>4, <3>1
  <2>3. attached'[t] # None => attached[t] # None /\ attached[t] \in Works /\ attached[t] # w
    BY <2>1, <2>2
  <2> QED BY <1>1, <1>5, <2>1, <2>2, <2>3 DEF Session
<1>10. DbgTyped'
  BY <1>1, <1>2, <1>3, <1>4 DEF DbgInv, DbgTyped
<1> QED BY <1>6, <1>7, <1>8, <1>9, <1>10 DEF DbgInv

\* Who does not ask waits for nobody, nor does who has the session.
LEMMA NoWait == ASSUME DbgInv, NEW w \in Works, pc[w] # "wait" PROVE dprev[w] = None
BY DEF DbgInv

\* Sends and screenshots are different works.
LEMMA WorksKnown == Sends \subseteq Works /\ Captures \subseteq Works /\ Files \subseteq Sends
                    /\ \A k \in Captures : k \notin Sends
BY TrustedSendAssumption DEF Works

\* A send moves on, outside the debugger's queue or with the session.
LEMMA DbgGo ==
  ASSUME DbgInv, NEW s \in Sends, NEW p \in SendPCs \ {"wait"}, Go(s, p), UNCHANGED dbgVars,
         s \in Files => p \notin {"refocus", "check", "hover"},
         s \notin Files => p \notin {"begin", "chunk", "commit", "ready", "native", "proof"},
         s \in Files \/ (pc[s] \in DbgPCs <=> p \in DbgPCs), pc[s] # "wait"
  PROVE  DbgInv'
<1>1. s \in Works /\ s \notin Captures /\ p \in SendPCs \cup ShotPCs
  BY WorksKnown
<1>2. pc'[s] = p
  BY <1>1 DEF DbgInv, DbgTyped, Go
<1>3. Kind(s)'
  BY <1>1, <1>2 DEF Kind
<1>4. \/ ~InDbg(s) /\ ~InDbg(s)'
      \/ InDbg(s) /\ InDbg(s)' /\ pc[s] # "wait" /\ p # "wait"
  BY <1>2 DEF InDbg
<1> QED BY <1>1, <1>3, <1>4, DbgMove

\* A command is answered before it asked for the debugger, or after it left.
LEMMA DbgAnswer ==
  ASSUME DbgInv, NEW s \in Sends, NEW a, Answer(s, a), UNCHANGED dbgVars,
         s \in Files \/ pc[s] \notin DbgPCs
  PROVE  DbgInv'
<1>1. PICK p \in {"idle", "done"} : Go(s, p)
  BY DEF Answer
<1>2. pc[s] # "wait"
  BY WorksKnown DEF DbgInv, Kind, DbgPCs
<1> QED BY <1>1, <1>2, DbgGo DEF SendPCs, DbgPCs

\* A send gives its place back.
LEMMA DbgLeave ==
  ASSUME DbgInv, NEW s \in Sends, s \notin Files, pc[s] \in DbgPCs, dprev[s] = None,
         NEW p \in {"idle", "done", "confirm"}, Go(s, p), Released(s)
  PROVE  DbgInv'
<1>1. s \in Works /\ s \notin Captures /\ p \in SendPCs \cup ShotPCs /\ p \in SendPCs /\ p \notin DbgPCs
  BY WorksKnown DEF SendPCs, DbgPCs
<1>2. pc'[s] = p
  BY <1>1 DEF DbgInv, DbgTyped, Go
<1>3. Kind(s)'
  BY <1>1, <1>2, WorksKnown DEF Kind
<1> QED BY <1>1, <1>3, DbgRelease DEF InDbg

\* ... and its command is answered.
LEMMA DbgAnswerLeave ==
  ASSUME DbgInv, NEW s \in Sends, s \notin Files, pc[s] \in DbgPCs, dprev[s] = None,
         NEW a, Answer(s, a), Released(s)
  PROVE  DbgInv'
BY DbgLeave DEF Answer

\* Nothing that the queues are made of changes.
LEMMA DbgQuiet == ASSUME DbgInv, pc' = pc, UNCHANGED dbgVars PROVE DbgInv'
<1>1. pc' = pc /\ dtail' = dtail /\ dprev' = dprev /\ attached' = attached
  BY DEF dbgVars
<1>2. DbgTyped' /\ (\A w \in Works : Kind(w)') /\ \A w \in Works : InDbg(w)' <=> InDbg(w)
  BY <1>1 DEF DbgInv, DbgTyped, Kind, InDbg
<1>3. ASSUME NEW t \in Tabs PROVE (\E n \in Nat : \E q \in [1..n -> Works] : Line(t, n, q)') /\ Session(t)'
  <2>1. ASSUME NEW n, NEW q, Line(t, n, q) PROVE Line(t, n, q)'
    BY <1>1, <1>2, <2>1 DEF Line
  <2>2. Session(t) => Session(t)'
    BY <1>1 DEF Session, InDbg
  <2> QED BY <2>1, <2>2 DEF DbgInv
<1> QED BY <1>1, <1>2, <1>3 DEF DbgInv

\* Each step of a send keeps the queues: it asks once, attaches as the first, and
\* releases when it leaves.
LEMMA DbgSteps == ASSUME DbgInv, NEW s \in Sends, SendStep(s) PROVE DbgInv'
<1>0. s \in Works /\ Kind(s) /\ (pc[s] # "wait" => dprev[s] = None)
  BY NoWait, WorksKnown DEF DbgInv
<1>00. /\ s \in Files => pc[s] \notin {"refocus", "wait", "check", "hover"}
       /\ s \notin Files => pc[s] \notin {"begin", "chunk", "commit", "ready", "native", "proof"}
  BY <1>0 DEF Kind
<1> USE DEF SendPCs, DbgPCs
<1>1. CASE UploadBegin(s)
  BY <1>0, <1>00, <1>1, DbgGo, DbgAnswer DEF UploadBegin, Refuse, Breaks, Goes, KeepUpload
<1>2. CASE UploadChunk(s)
  BY <1>0, <1>00, <1>2, DbgGo, DbgAnswer DEF UploadChunk, Refuse, Breaks, Goes, KeepUpload
<1>3. CASE UploadCommit(s)
  BY <1>0, <1>00, <1>3, DbgGo, DbgAnswer DEF UploadCommit, Refuse, Breaks, Goes, KeepUpload
<1>4. CASE UploadReady(s)
  BY <1>0, <1>00, <1>4, DbgGo, DbgAnswer DEF UploadReady, Refuse, Enqueue, KeepUpload
<1>5. CASE PrepareBare(s)
  BY <1>0, <1>00, <1>5, DbgGo, DbgAnswer DEF PrepareBare, OnTime, End, NoScript
<1>6. CASE NativeCheck(s)
  BY <1>0, <1>00, <1>6, DbgGo, DbgAnswer DEF NativeCheck, OnTime, End
<1>7. CASE NativeAnswer(s)
  BY <1>0, <1>00, <1>7, DbgGo, DbgAnswer DEF NativeAnswer, OnTime, End
<1>8. CASE Proof(s)
  BY <1>0, <1>00, <1>8, DbgGo, DbgAnswer DEF Proof, OnTime, End
<1>9. CASE Acquire(s)
  BY <1>0, <1>00, <1>9, DbgGo, DbgAnswer DEF Acquire, OnTime, Late, End
<1>10. CASE Focus(s)
  <2>1. CASE pc[s] = "refocus" /\ Go(s, "wait") /\ Reserve(s) /\ attached' = attached
    <3>1. s \notin Files /\ ~InDbg(s)
      BY <1>00, <2>1 DEF InDbg
    <3>2. pc'[s] = "wait" /\ s \notin Captures
      BY <1>0, <2>1, WorksKnown DEF DbgInv, DbgTyped, Go
    <3>3. Kind(s)'
      BY <3>1, <3>2, WorksKnown DEF Kind
    <3> QED BY <1>0, <2>1, <3>1, <3>3, DbgReserve
  <2>2. CASE pc[s] = "focus" /\ Go(s, "prepare") /\ UNCHANGED dbgVars
    BY <1>0, <1>00, <2>2, DbgGo
  <2>3. CASE pc[s] \in {"focus", "refocus"} /\ Answer(s, "retry") /\ UNCHANGED dbgVars
    BY <1>0, <1>00, <2>3, DbgAnswer
  <2> QED BY <1>10, <2>1, <2>2, <2>3 DEF Focus, OnTime, Late, End, dbgVars
<1>11. CASE PrepareType(s)
  BY <1>0, <1>00, <1>11, DbgGo DEF PrepareType
<1>12. CASE PrepareCheck(s)
  BY <1>0, <1>00, <1>12, DbgGo, DbgAnswer DEF PrepareCheck, OnTime, End, NoScript
<1>13. CASE StabiliseStart(s)
  BY <1>0, <1>00, <1>13, DbgGo, DbgAnswer DEF StabiliseStart, End
<1>14. CASE StabiliseEnd(s)
  BY <1>0, <1>00, <1>14, DbgGo, DbgAnswer DEF StabiliseEnd, Handover, End
<1>15. CASE AttachSend(s)
  <2>1. CASE Attach(s, "check")
    <3>1. s \notin Files /\ pc'[s] = "check" /\ s \notin Captures
      BY <1>0, <1>00, <2>1, WorksKnown DEF DbgInv, DbgTyped, Attach, MayAttach, Go
    <3>2. Kind(s)'
      BY <3>1, WorksKnown DEF Kind
    <3> QED BY <1>0, <2>1, <3>1, <3>2, DbgAttach
  <2>2. CASE MayAttach(s) /\ Answer(s, "rejected") /\ Released(s)
    BY <1>00, <2>2, DbgAnswerLeave DEF MayAttach
  <2> QED BY <1>15, <2>1, <2>2 DEF AttachSend, End
<1>16. CASE Check(s)
  BY <1>0, <1>00, <1>16, DbgGo, DbgAnswerLeave DEF Check, OnTime, Abandon, End
<1>17. CASE Hover(s)
  BY <1>0, <1>00, <1>17, DbgGo, DbgAnswerLeave DEF Hover, OnTime, Abandon, End
<1>18. CASE Press(s)
  BY <1>0, <1>00, <1>18, DbgGo DEF Press, OnTime
<1>19. CASE PressAnswer(s)
  BY <1>0, <1>00, <1>19, DbgLeave, DbgAnswerLeave DEF PressAnswer, LostClick, OnTime, End
<1>20. CASE Confirm(s)
  BY <1>0, <1>00, <1>20, DbgAnswer DEF Confirm, End
<1> QED BY <1>1, <1>2, <1>3, <1>4, <1>5, <1>6, <1>7, <1>8, <1>9, <1>10, <1>11, <1>12, <1>13, <1>14,
           <1>15, <1>16, <1>17, <1>18, <1>19, <1>20 DEF SendStep, UploadStep

\* A screenshot gives its place back.
LEMMA DbgEndShot ==
  ASSUME DbgInv, NEW k \in Captures, pc[k] \in DbgPCs, dprev[k] = None, NEW ok, EndShot(k, ok)
  PROVE  DbgInv'
<1>1. k \in Works /\ k \notin Files /\ "idle" \in SendPCs \cup ShotPCs /\ "idle" \in ShotPCs /\ "idle" \notin DbgPCs
  BY WorksKnown DEF SendPCs, ShotPCs, DbgPCs
<1>2. Go(k, "idle") /\ pc'[k] = "idle" /\ Released(k)
  BY <1>1 DEF DbgInv, DbgTyped, Go, EndShot
<1>3. Kind(k)'
  BY <1>1, <1>2, WorksKnown DEF Kind
<1> QED BY <1>1, <1>2, <1>3, DbgRelease DEF InDbg

\* So does each step of a screenshot.
LEMMA DbgShots == ASSUME DbgInv, NEW k \in Captures, Shot(k) \/ ShotStep(k) PROVE DbgInv'
<1>0. k \in Works /\ k \notin Files /\ k \notin Sends /\ (pc[k] # "wait" => dprev[k] = None)
  BY NoWait, WorksKnown
<1>a. ASSUME NEW p \in ShotPCs, Go(k, p) PROVE pc'[k] = p /\ Kind(k)' /\ p \in SendPCs \cup ShotPCs
  <2>1. pc'[k] = p
    BY <1>0, <1>a DEF DbgInv, DbgTyped, Go
  <2> QED BY <1>0, <2>1, WorksKnown DEF Kind
<1> USE DEF ShotPCs, DbgPCs
<1>1. CASE Shot(k)
  <2>1. CASE pc[k] = "idle" /\ Go(k, "wait") /\ Reserve(k) /\ attached' = attached
    <3>1. ~InDbg(k)
      BY <2>1 DEF InDbg
    <3> QED BY <1>0, <1>a, <2>1, <3>1, DbgReserve
  <2>2. CASE pc' = pc /\ UNCHANGED dbgVars
    BY <2>2, DbgQuiet
  <2> QED BY <1>1, <2>1, <2>2 DEF Shot, dbgVars
<1>2. CASE AttachShot(k)
  <2>1. CASE Attach(k, "mask")
    <3>1. Go(k, "mask")
      BY <2>1 DEF Attach
    <3> QED BY <1>0, <1>a, <2>1, <3>1, DbgAttach
  <2>2. CASE MayAttach(k) /\ EndShot(k, FALSE)
    BY <2>2, DbgEndShot DEF MayAttach
  <2> QED BY <1>2, <2>1, <2>2 DEF AttachShot
<1>3. CASE MaskBegin(k)
  <2>1. CASE pc[k] = "mask" /\ Go(k, "shoot") /\ UNCHANGED dbgVars
    BY <1>0, <1>a, <2>1, DbgMove DEF InDbg
  <2>2. CASE pc[k] = "mask" /\ EndShot(k, FALSE)
    BY <1>0, <2>2, DbgEndShot
  <2> QED BY <1>3, <2>1, <2>2 DEF MaskBegin, NoMask
<1>4. CASE Shoot(k)
  <2>1. pc[k] = "shoot" /\ Go(k, "restore") /\ UNCHANGED dbgVars
    BY <1>4 DEF Shoot
  <2> QED BY <1>0, <1>a, <2>1, DbgMove DEF InDbg
<1>5. CASE Restore(k)
  <2>1. pc[k] = "restore" /\ \E ok : EndShot(k, ok)
    BY <1>5 DEF Restore
  <2> QED BY <1>0, <2>1, DbgEndShot
<1> QED BY <1>1, <1>2, <1>3, <1>4, <1>5 DEF ShotStep

\* Every step of the system keeps the queues.
LEMMA DbgNext == DbgInv /\ [Next]_vars => DbgInv'
<1> SUFFICES ASSUME DbgInv, [Next]_vars PROVE DbgInv'
  OBVIOUS
<1>1. CASE UNCHANGED vars
  BY <1>1, DbgQuiet DEF vars, dbgVars
<1>2. ASSUME NEW t \in Tabs, UserActs(t) \/ Processed(t) \/ MaskExpires(t) PROVE DbgInv'
  BY <1>2, DbgQuiet DEF UserActs, Processed, MaskExpires
<1>3. ASSUME NEW s \in Sends, TransferExpires(s) \/ GiveUp(s) PROVE DbgInv'
  BY <1>3, DbgQuiet DEF TransferExpires, GiveUp
<1>4. ASSUME NEW s \in Sends, Call(s) PROVE DbgInv'
  BY <1>4, DbgGo DEF Call, Enqueue, SendPCs, DbgPCs
<1>5. ASSUME NEW s \in Sends, SendStep(s) PROVE DbgInv'
  BY <1>5, DbgSteps
<1>6. ASSUME NEW k \in Captures, Shot(k) \/ ShotStep(k) PROVE DbgInv'
  BY <1>6, DbgShots
<1> QED BY <1>1, <1>2, <1>3, <1>4, <1>5, <1>6 DEF Next

\* They are empty at first.
LEMMA InitDbg == Init => DbgInv
<1> SUFFICES ASSUME Init PROVE DbgInv
  OBVIOUS
<1>1. DbgTyped /\ \A w \in Works : Kind(w)
  BY TrustedSendAssumption DEF Init, DbgTyped, Kind, SendPCs, ShotPCs, Works
<1>2. \A w \in Works : ~InDbg(w)
  BY DEF Init, InDbg, DbgPCs
<1>3. ASSUME NEW t \in Tabs PROVE \E n \in Nat : \E q \in [1..n -> Works] : Line(t, n, q)
  <2> DEFINE q == [i \in 1..0 |-> CHOOSE w \in Works : TRUE]
  <2>1. q \in [1..0 -> Works]
    OBVIOUS
  <2>2. dtail[t] = None
    BY DEF Init
  <2>3. Line(t, 0, q)
    BY <1>2, <2>2 DEF Line
  <2> QED BY <2>1, <2>3
<1>4. (\A w \in Works : dprev[w] = None) /\ \A t \in Tabs : Session(t)
  BY DEF Init, Session
<1> QED BY <1>1, <1>3, <1>4 DEF DbgInv

\* Chrome never refuses a send or a screenshot because the extension itself holds
\* a session on the tab: who may attach is the first of the queue (Reserve,
\* Released), and a session belongs to the first of the queue.
THEOREM SessionFree == Spec => []DebuggerExclusive
<1>1. DbgInv => DebuggerExclusive
  <2> SUFFICES ASSUME DbgInv, NEW w \in Works, MayAttach(w), attached[TabOf[w]] # None PROVE FALSE
    BY DEF DebuggerExclusive
  <2> DEFINE v == attached[TabOf[w]]
  <2>1. TabOf[w] \in Tabs
    BY TrustedSendAssumption
  <2>2. v \in Works /\ TabOf[v] = TabOf[w] /\ InDbg(v) /\ pc[v] # "wait" /\ dprev[v] = None
    BY <2>1, NoWait DEF DbgInv, DbgTyped, Session
  <2>3. InDbg(w) /\ dprev[w] = None /\ pc[w] = "wait"
    BY WorksKnown DEF MayAttach, InDbg, DbgPCs, DbgInv, Kind
  <2> QED BY <2>2, <2>3, OneHead
<1> QED BY <1>1, InitDbg, DbgNext, PTL DEF Spec
-----------------------------------------------------------------------------
\* Texts of a composer.
Texts == Sends \cup {Foreign, None}

\* What its composer can hold.
Chips == Files \cup {Foreign}

\* The documents.
Doc == [url : {Here, There}, text : Texts, file : SUBSET Chips, busy : BOOLEAN,
        refs : Nat, shown : BOOLEAN]

\* What a send remembers of one.
Seen == [url : {Here, There, None}, text : Texts, file : SUBSET Chips]

\* The types of the pages and of what is remembered of them.
DataTyped ==
  /\ page \in [Tabs -> Doc]
  /\ seen \in [Sends -> Seen]
  /\ changed \in [Sends -> BOOLEAN]
  /\ sent \in [Tabs -> SUBSET [text : Texts, file : SUBSET Chips]]
  /\ image \in [Captures -> Image \cup {None}]
  /\ mode \in [Captures -> {"click", "command"}]

\* The mask of a document.
Mask(d) == <<d.refs, d.shown>>

\* What the steps of send s leave alone.
Local(s) ==
  /\ \E p : Go(s, p)
  /\ UNCHANGED shotVars
  /\ page' \in [Tabs -> Doc] /\ seen' \in [Sends -> Seen] /\ changed' \in [Sends -> BOOLEAN]
  /\ sent' \in [Tabs -> SUBSET [text : Texts, file : SUBSET Chips]]
  /\ \A t \in Tabs : Mask(page'[t]) = Mask(page[t])
  /\ \A t \in Tabs : t # TabOf[s] => page'[t] = page[t] /\ sent'[t] = sent[t]
  /\ \A x \in Sends : x # s => /\ seen'[x] = seen[x] /\ changed'[x] = changed[x]
                               /\ presses'[x] = presses[x] /\ (x \in bare' <=> x \in bare)
-----------------------------------------------------------------------------
\* A change of text or files is a document with the same mask.
LEMMA DocViews ==
  ASSUME NEW d \in Doc
  PROVE  /\ \A x \in Texts : /\ [d EXCEPT !.text = x] \in Doc
                             /\ Mask([d EXCEPT !.text = x]) = Mask(d)
         /\ \A f \in SUBSET Chips : /\ [d EXCEPT !.file = f, !.busy = TRUE] \in Doc
                                    /\ Mask([d EXCEPT !.file = f, !.busy = TRUE]) = Mask(d)
                                    /\ [d EXCEPT !.file = f, !.busy = FALSE] \in Doc
                                    /\ Mask([d EXCEPT !.file = f, !.busy = FALSE]) = Mask(d)
         /\ [d EXCEPT !.text = None, !.file = {}, !.busy = FALSE] \in Doc
         /\ Mask([d EXCEPT !.text = None, !.file = {}, !.busy = FALSE]) = Mask(d)
BY DEF Doc, Mask, Texts

\* A document gets another one in its place.
LEMMA PagePut ==
  ASSUME page \in [Tabs -> Doc], NEW t \in Tabs, NEW d \in Doc, Mask(d) = Mask(page[t]),
         page' = [page EXCEPT ![t] = d]
  PROVE  /\ page' \in [Tabs -> Doc]
         /\ \A u \in Tabs : Mask(page'[u]) = Mask(page[u])
         /\ \A u \in Tabs : u # t => page'[u] = page[u]
BY DEF Mask

\* A step that only moves the command, in the worker or at the driver.
Plain(s) ==
  /\ \E p : Go(s, p)
  /\ UNCHANGED shotVars /\ page' = page /\ sent' = sent /\ presses' = presses
  /\ seen' = seen \/ \E d \in Seen : seen' = [seen EXCEPT ![s] = d]
  /\ changed' = changed \/ changed' = [changed EXCEPT ![s] = FALSE]
  /\ bare' \in {bare, bare \cup {s}}

\* Such a step disturbs no other send and no page.
LEMMA PlainLocal == ASSUME DataTyped, NEW s \in Sends, Plain(s) PROVE Local(s)
<1>1. seen' \in [Sends -> Seen] /\ \A x \in Sends : x # s => seen'[x] = seen[x]
  BY DEF Plain, DataTyped
<1>2. changed' \in [Sends -> BOOLEAN] /\ \A x \in Sends : x # s => changed'[x] = changed[x]
  BY DEF Plain, DataTyped
<1>3. \A x \in Sends : x # s => (x \in bare' <=> x \in bare)
  BY DEF Plain
<1> QED BY <1>1, <1>2, <1>3 DEF Plain, Local, DataTyped

\* A command that ends forgets what it saw.
LEMMA EndPlain ==
  ASSUME NEW s \in Sends, NEW a, End(s, a)
  PROVE  (\E p : Go(s, p)) /\ \E d \in Seen : seen' = [seen EXCEPT ![s] = d]
<1>1. NoPage \in Seen
  BY DEF NoPage, Seen, Texts
<1> QED BY <1>1 DEF End, Answer

\* What Prepared writes is one remembered view.
LEMMA SeenFields ==
  ASSUME DataTyped, NEW s \in Sends, NEW u \in {Here, There}, NEW f \in SUBSET Chips
  PROVE  LET d == [seen[s] EXCEPT !.url = u, !.file = f]
         IN  d \in Seen /\ [seen EXCEPT ![s] = [@ EXCEPT !.url = u,
                                                         !.file = f]] = [seen EXCEPT ![s] = d]
BY DEF DataTyped, Seen

\* The steps of a send touch its own tab, never a mask, and no other send.
LEMMA SendLocal == ASSUME DataTyped, NEW s \in Sends, SendStep(s), Kind(s) PROVE Local(s)
<1>0. TabOf[s] \in Tabs /\ page[TabOf[s]] \in Doc
  BY TrustedSendAssumption DEF DataTyped, Works
<1>1. CASE UploadBegin(s)
  <2>1. Plain(s)
    BY <1>1 DEF UploadBegin, Refuse, Breaks, Goes, KeepUpload, Answer, Plain
  <2> QED BY <2>1, PlainLocal
<1>2. CASE UploadChunk(s)
  <2>1. Plain(s)
    BY <1>2 DEF UploadChunk, Refuse, Breaks, Goes, KeepUpload, Answer, Plain
  <2> QED BY <2>1, PlainLocal
<1>3. CASE UploadCommit(s)
  <2>0. s \in Files
    BY <1>3 DEF UploadCommit, Kind
  <2> DEFINE t == TabOf[s]
             d == [page[t] EXCEPT !.file = page[t].file \cup {s}, !.busy = TRUE]
  <2>1. d \in Doc /\ Mask(d) = Mask(page[t])
    <3>1. page[t].file \cup {s} \in SUBSET Chips
      BY <1>0, <2>0 DEF Doc, Chips
    <3> QED BY <1>0, <3>1, DocViews
  <2>2. Staged(s) = [page EXCEPT ![t] = d]
    BY <1>0 DEF Staged, DataTyped
  <2> HIDE DEF t, d
  <2>3. page' = page \/ page' = [page EXCEPT ![t] = d]
    BY <1>3, <2>2 DEF UploadCommit
  <2>4. /\ page' \in [Tabs -> Doc]
        /\ \A u \in Tabs : Mask(page'[u]) = Mask(page[u])
        /\ \A u \in Tabs : u # TabOf[s] => page'[u] = page[u]
    BY <1>0, <2>1, <2>3, PagePut DEF DataTyped, t
  <2>5. (\E p : Go(s, p)) /\ UNCHANGED <<shotVars, sent, seen, presses, changed, bare>>
    BY <1>3 DEF UploadCommit, Goes, Refuse, Breaks, Answer, KeepUpload
  <2> QED BY <2>4, <2>5 DEF Local, DataTyped
<1>4. CASE UploadReady(s)
  <2>1. Plain(s)
    BY <1>4 DEF UploadReady, Refuse, Enqueue, KeepUpload, Answer, Plain
  <2> QED BY <2>1, PlainLocal
<1>5. CASE PrepareBare(s)
  <2>1. Plain(s)
    BY <1>5, EndPlain DEF PrepareBare, OnTime, NoScript, KeepSend, pageVars, Plain
  <2> QED BY <2>1, PlainLocal
<1>6. CASE NativeCheck(s)
  <2>1. Plain(s)
    BY <1>6, EndPlain DEF NativeCheck, OnTime, KeepSend, pageVars, Plain
  <2> QED BY <2>1, PlainLocal
<1>7. CASE NativeAnswer(s)
  <2>1. Plain(s)
    BY <1>7, EndPlain DEF NativeAnswer, OnTime, KeepSend, pageVars, Plain
  <2> QED BY <2>1, PlainLocal
<1>8. CASE Proof(s)
  <2>1. Plain(s)
    BY <1>8, EndPlain DEF Proof, KeepSend, pageVars, Plain
  <2> QED BY <2>1, PlainLocal
<1>9. CASE Acquire(s)
  <2>1. Plain(s)
    BY <1>9, EndPlain DEF Acquire, OnTime, Late, KeepSend, pageVars, Plain
  <2> QED BY <2>1, PlainLocal
<1>10. CASE Focus(s)
  <2>1. Plain(s)
    BY <1>10, EndPlain DEF Focus, OnTime, Late, KeepSend, pageVars, Plain
  <2> QED BY <2>1, PlainLocal
<1>11. CASE PrepareType(s)
  <2> DEFINE t == TabOf[s]
             d == [page[t] EXCEPT !.text = s]
  <2>1. d \in Doc /\ Mask(d) = Mask(page[t])
    BY <1>0, DocViews DEF Texts
  <2>2. page' = [page EXCEPT ![t] = d]
    BY <1>11 DEF PrepareType
  <2> HIDE DEF d
  <2>3. /\ page' \in [Tabs -> Doc]
        /\ \A u \in Tabs : Mask(page'[u]) = Mask(page[u])
        /\ \A u \in Tabs : u # TabOf[s] => page'[u] = page[u]
    BY <1>0, <2>1, <2>2, PagePut DEF DataTyped
  <2>4. (\E p : Go(s, p)) /\ UNCHANGED <<shotVars, sent, seen, presses, changed, bare>>
    BY <1>11 DEF PrepareType, KeepSend
  <2> QED BY <2>3, <2>4 DEF Local, DataTyped
<1>12. CASE PrepareCheck(s)
  <2>1. Plain(s)
    BY <1>12, EndPlain DEF PrepareCheck, OnTime, NoScript, KeepSend, pageVars, Plain
  <2> QED BY <2>1, PlainLocal
<1>13. CASE StabiliseStart(s)
  <2>1. View(TabOf[s]) \in Seen
    BY <1>0 DEF View, Doc, Seen
  <2>2. Plain(s)
    BY <1>13, <2>1, EndPlain DEF StabiliseStart, KeepSend, pageVars, Plain
  <2> QED BY <2>2, PlainLocal
<1>14. CASE StabiliseEnd(s)
  <2>1. ASSUME NEW f \in SUBSET Chips, Prepared(s, f)
        PROVE  \E d \in Seen : seen' = [seen EXCEPT ![s] = d]
    <3>1. page[TabOf[s]].url \in {Here, There}
      BY <1>0 DEF Doc
    <3> DEFINE u == page[TabOf[s]].url
               d == [seen[s] EXCEPT !.url = u, !.file = f]
    <3>2. seen' = [seen EXCEPT ![s] = [@ EXCEPT !.url = u, !.file = f]]
      BY <2>1 DEF Prepared
    <3> HIDE DEF u
    <3>3. d \in Seen /\ seen' = [seen EXCEPT ![s] = d]
      BY <3>1, <3>2, SeenFields DEF u
    <3> QED BY <3>3
  <2>2. NoPage \in Seen
    BY DEF NoPage, Seen, Texts
  <2>3. Stable(s) /\ s \in Files /\ Handover(s) => Plain(s)
    <3>1. s \in Files => {s} \in SUBSET Chips
      BY DEF Chips
    <3> QED BY <1>14, <2>1, <2>2, <3>1 DEF StabiliseEnd, Handover, KeepSend, pageVars, Plain
  <2>4. ASSUME NEW chips \in FirstChip(page[TabOf[s]].file), Prepared(s, chips), Go(s, "refocus")
        PROVE  Plain(s)
    <3>1. chips \in SUBSET Chips
      <4>1. page[TabOf[s]].file \in SUBSET Chips
        BY <1>0 DEF Doc
      <4>2. chips = {} \/ \E x \in page[TabOf[s]].file : chips = {x}
        BY <2>4 DEF FirstChip
      <4> QED BY <4>1, <4>2
    <3> QED BY <1>14, <2>1, <2>4, <3>1 DEF StabiliseEnd, KeepSend, pageVars, Plain
  <2>5. End(s, "rejected") => Plain(s)
    BY <1>14, EndPlain DEF StabiliseEnd, KeepSend, pageVars, Plain
  <2> QED BY <1>14, <2>3, <2>4, <2>5, PlainLocal DEF StabiliseEnd
<1>15. CASE AttachSend(s)
  <2>1. Plain(s)
    BY <1>15, EndPlain DEF AttachSend, Attach, KeepSend, pageVars, Plain
  <2> QED BY <2>1, PlainLocal
<1>16. CASE Check(s)
  <2>1. Plain(s)
    BY <1>16, EndPlain DEF Check, OnTime, Abandon, KeepSend, pageVars, Plain
  <2> QED BY <2>1, PlainLocal
<1>17. CASE Hover(s)
  <2>1. Plain(s)
    BY <1>17, EndPlain DEF Hover, OnTime, Abandon, KeepSend, pageVars, Plain
  <2> QED BY <2>1, PlainLocal
<1>18. CASE Press(s)
  <2> DEFINE t == TabOf[s]
             d == [page[t] EXCEPT !.text = None, !.file = {}, !.busy = FALSE]
  <2>1. d \in Doc /\ Mask(d) = Mask(page[t])
    BY <1>0, DocViews
  <2>2. page' = [page EXCEPT ![t] = d]
    BY <1>0, <1>18 DEF Press, Pressed, DataTyped
  <2> HIDE DEF d
  <2>3. /\ page' \in [Tabs -> Doc]
        /\ \A u \in Tabs : Mask(page'[u]) = Mask(page[u])
        /\ \A u \in Tabs : u # TabOf[s] => page'[u] = page[u]
    BY <1>0, <2>1, <2>2, PagePut DEF DataTyped
  <2>4. [text |-> page[t].text, file |-> page[t].file] \in [text : Texts, file : SUBSET Chips]
    BY <1>0 DEF Doc
  <2>5. /\ sent' \in [Tabs -> SUBSET [text : Texts, file : SUBSET Chips]]
        /\ \A u \in Tabs : u # TabOf[s] => sent'[u] = sent[u]
    BY <1>0, <1>18, <2>4 DEF Press, Pressed, DataTyped
  <2>6. /\ (\E p : Go(s, p)) /\ UNCHANGED <<shotVars, seen, changed, bare>>
        /\ presses' = [presses EXCEPT ![s] = @ + 1]
    BY <1>18 DEF Press, Pressed, OnTime, KeepSend
  <2> QED BY <2>3, <2>5, <2>6 DEF Local, DataTyped
<1>19. CASE PressAnswer(s)
  <2>1. Plain(s)
    BY <1>19, EndPlain DEF PressAnswer, LostClick, OnTime, KeepSend, pageVars, Plain
  <2> QED BY <2>1, PlainLocal
<1>20. CASE Confirm(s)
  <2>1. Plain(s)
    BY <1>20, EndPlain DEF Confirm, KeepSend, pageVars, Plain
  <2> QED BY <2>1, PlainLocal
<1> QED BY <1>1, <1>2, <1>3, <1>4, <1>5, <1>6, <1>7, <1>8, <1>9, <1>10, <1>11, <1>12, <1>13, <1>14,
           <1>15, <1>16, <1>17, <1>18, <1>19, <1>20 DEF SendStep, UploadStep
-----------------------------------------------------------------------------
\* What the user can do to the document of tab t.
LEMMA UserLocal ==
  ASSUME DataTyped, NEW t \in Tabs, UserActs(t)
  PROVE  /\ page' \in [Tabs -> Doc]
         /\ \A u \in Tabs : u # t => page'[u] = page[u]
         /\ Mask(page'[t]) = Mask(page[t]) \/ Mask(page'[t]) = <<0, FALSE>>
         /\ \/ page'[t].text = Foreign
            \/ page'[t].text = page[t].text /\ page'[t].file \subseteq page[t].file \cup {Foreign}
            \/ page'[t].file = {}
<1> DEFINE d == page[t]
           empty == [d EXCEPT !.text = None, !.file = {}, !.busy = FALSE]
<1>1. d \in Doc /\ page \in [Tabs -> Doc]
  BY DEF DataTyped
<1>2. ASSUME NEW e \in Doc, page' = [page EXCEPT ![t] = e]
      PROVE  page' \in [Tabs -> Doc] /\ page'[t] = e /\ \A u \in Tabs : u # t => page'[u] = page[u]
  BY <1>1, <1>2
<1> HIDE DEF d
<1>3. empty \in Doc /\ Mask(empty) = Mask(d) /\ empty.file = {}
  BY <1>1, DocViews DEF Doc
<1>4. CASE page' = [page EXCEPT ![t] = [d EXCEPT !.text = Foreign]]
  <2>1. [d EXCEPT !.text = Foreign] \in Doc /\ Mask([d EXCEPT !.text = Foreign]) = Mask(d)
    BY <1>1, DocViews DEF Texts
  <2>2. [d EXCEPT !.text = Foreign].text = Foreign
    BY <1>1 DEF Doc
  <2> QED BY <1>2, <1>4, <2>1, <2>2 DEF d
<1>5. CASE page' = [page EXCEPT ![t] = [d EXCEPT !.file = @ \cup {Foreign}, !.busy = TRUE]]
  <2> DEFINE e == [d EXCEPT !.file = d.file \cup {Foreign}, !.busy = TRUE]
  <2>1. d.file \cup {Foreign} \in SUBSET Chips
    BY <1>1 DEF Doc, Chips
  <2>2. e \in Doc /\ Mask(e) = Mask(d) /\ e.text = d.text /\ e.file = d.file \cup {Foreign}
    BY ZenonT(60), <1>1, <2>1, DocViews DEF Doc
  <2>3. page' = [page EXCEPT ![t] = e]
    BY <1>5
  <2> HIDE DEF e
  <2> QED BY <1>2, <2>2, <2>3 DEF d
<1>6. CASE page' = [page EXCEPT ![t] = [d EXCEPT !.file = {}, !.busy = FALSE]]
  <2> DEFINE e == [d EXCEPT !.file = {}, !.busy = FALSE]
  <2>1. e \in Doc /\ Mask(e) = Mask(d) /\ e.file = {}
    BY ZenonT(60), <1>1, DocViews DEF Doc
  <2> HIDE DEF e
  <2> QED BY <1>2, <1>6, <2>1 DEF d, e
<1>7. CASE page' = [page EXCEPT ![t] = [empty EXCEPT !.url = IF @ = Here THEN There ELSE Here]]
  <2> DEFINE e == [empty EXCEPT !.url = IF empty.url = Here THEN There ELSE Here]
  <2> HIDE DEF empty
  <2>1. e \in Doc /\ Mask(e) = Mask(empty) /\ e.file = {}
    BY <1>3 DEF Doc, Mask
  <2>2. page' = [page EXCEPT ![t] = e]
    BY <1>7
  <2> HIDE DEF e
  <2> QED BY <1>2, <1>3, <2>1, <2>2 DEF d
<1>8. CASE page' = [page EXCEPT ![t] = [empty EXCEPT !.refs = 0, !.shown = FALSE]]
  <2> DEFINE e == [empty EXCEPT !.refs = 0, !.shown = FALSE]
  <2> HIDE DEF empty
  <2>1. e \in Doc /\ Mask(e) = <<0, FALSE>> /\ e.file = {}
    BY <1>3 DEF Doc, Mask
  <2> HIDE DEF e
  <2> QED BY <1>2, <1>8, <2>1 DEF d, e
<1> QED BY <1>4, <1>5, <1>6, <1>7, <1>8 DEF UserActs, Change, d

\* The composer and the address of a document.
Face(d) == <<d.url, d.text, d.file>>

\* What the steps of screenshot k, and the masks, leave alone.
ShotLocal(k) ==
  /\ UNCHANGED <<sent, sendVars>>
  /\ pc' = pc \/ \E p : Go(k, p)
  /\ page' \in [Tabs -> Doc]
  /\ \A t \in Tabs : Face(page'[t]) = Face(page[t])
  /\ \A t \in Tabs : t # TabOf[k] => page'[t] = page[t]
  /\ image' \in [Captures -> Image \cup {None}] /\ mode' \in [Captures -> {"click", "command"}]
  /\ \A x \in Captures : x # k => image'[x] = image[x]

\* A change of the mask is a document with the same address and composer.
LEMMA DocMasks ==
  ASSUME NEW d \in Doc, NEW n \in Nat, NEW b \in BOOLEAN
  PROVE  /\ [d EXCEPT !.refs = n, !.shown = b] \in Doc
         /\ Face([d EXCEPT !.refs = n, !.shown = b]) = Face(d)
         /\ [d EXCEPT !.refs = n, !.shown = b].refs = n
         /\ [d EXCEPT !.refs = n, !.shown = b].shown = b
BY DEF Doc, Face

\* A document gets another mask.
LEMMA MaskPut ==
  ASSUME page \in [Tabs -> Doc], NEW t \in Tabs, NEW d \in Doc, Face(d) = Face(page[t]),
         page' = [page EXCEPT ![t] = d]
  PROVE  /\ page' \in [Tabs -> Doc]
         /\ \A u \in Tabs : Face(page'[u]) = Face(page[u])
         /\ \A u \in Tabs : u # t => page'[u] = page[u]
BY DEF Face

\* The mask of the tab, when it is put on, taken off and torn off.
LEMMA MaskDocs ==
  ASSUME DataTyped, NEW t \in Tabs
  PROVE  /\ \E d \in Doc : /\ Masked(t) = [page EXCEPT ![t] = d] /\ Face(d) = Face(page[t])
                           /\ d.shown = TRUE
         /\ page[t].refs > 0 =>
              \E d \in Doc : Unmasked(t) = [page EXCEPT ![t] = d] /\ Face(d) = Face(page[t])
         /\ \A g \in Forced(t) :
              \E d \in Doc : g = [page EXCEPT ![t] = d] /\ Face(d) = Face(page[t])
<1> DEFINE d == page[t]
<1>1. d \in Doc /\ page \in [Tabs -> Doc] /\ d.refs \in Nat /\ d.shown \in BOOLEAN
  BY DEF DataTyped, Doc
<1>2. \E e \in Doc : Masked(t) = [page EXCEPT ![t] = e] /\ Face(e) = Face(d) /\ e.shown = TRUE
  <2> DEFINE n == IF d.shown THEN d.refs + 1 ELSE 1
             e == [d EXCEPT !.refs = n, !.shown = TRUE]
  <2>1. n \in Nat
    BY <1>1
  <2>2. Masked(t) = [page EXCEPT ![t] = e]
    BY <1>1 DEF Masked
  <2> HIDE DEF n, d
  <2>3. e \in Doc /\ Face(e) = Face(d) /\ e.shown = TRUE
    BY <1>1, <2>1, DocMasks
  <2> QED BY <2>2, <2>3
<1>3. ASSUME d.refs > 0
      PROVE  \E e \in Doc : Unmasked(t) = [page EXCEPT ![t] = e] /\ Face(e) = Face(d)
  <2> DEFINE n == d.refs - 1
             b == d.shown /\ d.refs > 1
             e == [d EXCEPT !.refs = n, !.shown = b]
  <2>1. n \in Nat /\ b \in BOOLEAN
    BY <1>1, <1>3
  <2>2. Unmasked(t) = [page EXCEPT ![t] = e]
    BY <1>1, Zenon DEF Unmasked, DataTyped
  <2>a. b = TRUE \/ b = FALSE
    BY <2>1
  <2> HIDE DEF n, b, d
  <2>3. e \in Doc /\ Face(e) = Face(d)
    <3>1. ASSUME NEW x \in BOOLEAN, b = x PROVE e \in Doc /\ Face(e) = Face(d)
      <4>1. e = [d EXCEPT !.refs = n, !.shown = x]
        BY <3>1, Zenon
      <4> HIDE DEF e
      <4>2. [d EXCEPT !.refs = n, !.shown = x] \in Doc /\ Face([d EXCEPT !.refs = n, !.shown = x]) = Face(d)
        BY ZenonT(60), <1>1, <2>1, DocMasks
      <4> QED BY <4>1, <4>2, Zenon
    <3> QED BY <2>a, <3>1, Zenon
  <2> QED BY <2>2, <2>3
<1>4. ASSUME NEW g \in Forced(t)
      PROVE  \E e \in Doc : g = [page EXCEPT ![t] = e] /\ Face(e) = Face(d)
  <2>1. CASE g = page
    <3>1. page = [page EXCEPT ![t] = d]
      BY <1>1
    <3> QED BY <1>1, <2>1, <3>1
  <2>2. CASE g = [page EXCEPT ![t].shown = FALSE]
    <3> DEFINE e == [d EXCEPT !.shown = FALSE]
    <3>1. g = [page EXCEPT ![t] = e]
      BY <1>1, <2>2
    <3> HIDE DEF d
    <3>2. e \in Doc /\ Face(e) = Face(d)
      BY <1>1 DEF Doc, Face
    <3> QED BY <3>1, <3>2
  <2> QED BY <2>1, <2>2 DEF Forced
<1> QED BY <1>2, <1>3, <1>4

\* A screenshot that ends forgets its own picture only.
LEMMA EndShotLocal ==
  ASSUME DataTyped, NEW k \in Captures, NEW ok \in BOOLEAN, EndShot(k, ok)
  PROVE  /\ \E p : Go(k, p)
         /\ image' \in [Captures -> Image \cup {None}] /\ mode' \in [Captures -> {"click", "command"}]
         /\ \A x \in Captures : x # k => image'[x] = image[x]
         /\ image'[k] = None
BY DEF EndShot, DataTyped

\* The steps of a screenshot touch the mask of its tab only.
LEMMA ShotsLocal ==
  ASSUME DataTyped, NEW k \in Captures, Shot(k) \/ ShotStep(k) PROVE ShotLocal(k)
<1>0. TabOf[k] \in Tabs /\ page \in [Tabs -> Doc]
  BY TrustedSendAssumption DEF DataTyped, Works
<1>a. page' = page => /\ page' \in [Tabs -> Doc] /\ (\A t \in Tabs : Face(page'[t]) = Face(page[t]))
                      /\ \A t \in Tabs : t # TabOf[k] => page'[t] = page[t]
  BY <1>0
<1>b. ASSUME NEW d \in Doc, page' = [page EXCEPT ![TabOf[k]] = d], Face(d) = Face(page[TabOf[k]])
      PROVE  /\ page' \in [Tabs -> Doc] /\ (\A t \in Tabs : Face(page'[t]) = Face(page[t]))
             /\ \A t \in Tabs : t # TabOf[k] => page'[t] = page[t]
  BY <1>0, <1>b, MaskPut
<1>1. CASE Shot(k)
  <2>1. mode' \in [Captures -> {"click", "command"}]
    BY <1>1 DEF Shot, DataTyped
  <2> QED BY <1>1, <1>a, <2>1 DEF Shot, KeepShot, ShotLocal, DataTyped
<1>2. CASE AttachShot(k)
  <2>1. CASE Attach(k, "mask") /\ UNCHANGED shotVars
    BY <1>2, <1>a, <2>1 DEF AttachShot, Attach, KeepShot, ShotLocal, DataTyped, shotVars
  <2>2. CASE EndShot(k, FALSE)
    BY <1>2, <1>a, <2>2, EndShotLocal DEF AttachShot, KeepShot, ShotLocal
  <2> QED BY <1>2, <2>1, <2>2 DEF AttachShot
<1>3. CASE MaskBegin(k)
  <2>1. CASE page' = Masked(TabOf[k]) /\ Go(k, "shoot") /\ UNCHANGED shotVars
    <3>1. PICK d \in Doc : Masked(TabOf[k]) = [page EXCEPT ![TabOf[k]] = d] /\ Face(d) = Face(page[TabOf[k]])
      BY <1>0, MaskDocs
    <3> QED BY <1>3, <1>b, <2>1, <3>1 DEF MaskBegin, KeepShot, ShotLocal, DataTyped, shotVars
  <2>2. CASE EndShot(k, FALSE) /\ page' = page
    BY <1>3, <1>a, <2>2, EndShotLocal DEF MaskBegin, KeepShot, ShotLocal
  <2> QED BY <1>3, <2>1, <2>2 DEF MaskBegin, NoMask
<1>4. CASE Shoot(k)
  <2>1. [tab |-> TabOf[k], masked |-> page[TabOf[k]].shown] \in Image
    BY <1>0 DEF Image, Doc
  <2>2. image' \in [Captures -> Image \cup {None}] /\ \A x \in Captures : x # k => image'[x] = image[x]
    BY <1>4, <2>1 DEF Shoot, DataTyped
  <2> QED BY <1>4, <1>a, <2>2 DEF Shoot, KeepShot, ShotLocal, DataTyped
<1>5. CASE Restore(k)
  <2>1. PICK ok \in BOOLEAN : EndShot(k, ok)
    BY <1>5 DEF Restore
  <2>2. /\ page' \in [Tabs -> Doc] /\ (\A t \in Tabs : Face(page'[t]) = Face(page[t]))
        /\ \A t \in Tabs : t # TabOf[k] => page'[t] = page[t]
    <3>1. CASE Restored(k) /\ page' = Unmasked(TabOf[k])
      BY <1>0, <1>b, <3>1, MaskDocs DEF Restored
    <3>2. CASE page' \in Forced(TabOf[k])
      <4>1. PICK d \in Doc : page' = [page EXCEPT ![TabOf[k]] = d] /\ Face(d) = Face(page[TabOf[k]])
        BY <1>0, <3>2, MaskDocs
      <4> QED BY <1>b, <4>1
    <3> QED BY <1>5, <1>a, <3>1, <3>2 DEF Restore
  <2> QED BY <1>5, <2>1, <2>2, EndShotLocal DEF Restore, KeepShot, ShotLocal
<1> QED BY <1>1, <1>2, <1>3, <1>4, <1>5 DEF ShotStep
-----------------------------------------------------------------------------
\* A mask expires, or ChatGPT has processed a file: the composer stays.
LEMMA PageSteps ==
  ASSUME DataTyped, NEW t \in Tabs, Processed(t) \/ MaskExpires(t)
  PROVE  /\ page' \in [Tabs -> Doc]
         /\ \A u \in Tabs : Face(page'[u]) = Face(page[u])
         /\ \A u \in Tabs : Mask(page'[u]) = Mask(page[u]) \/ Mask(page'[u]) = <<0, FALSE>>
<1>1. page \in [Tabs -> Doc] /\ page[t] \in Doc
  BY DEF DataTyped
<1>2. CASE Processed(t)
  <2> DEFINE e == [page[t] EXCEPT !.busy = FALSE]
  <2>1. page' = [page EXCEPT ![t] = e]
    BY <1>2 DEF Processed
  <2>2. e \in Doc /\ Face(e) = Face(page[t]) /\ Mask(e) = Mask(page[t])
    BY <1>1 DEF Doc, Face, Mask
  <2> HIDE DEF e
  <2> QED BY <1>1, <2>1, <2>2, MaskPut
<1>3. CASE MaskExpires(t)
  <2> DEFINE e == [page[t] EXCEPT !.refs = 0, !.shown = FALSE]
  <2>1. page' = [page EXCEPT ![t] = e]
    BY <1>1, <1>3 DEF MaskExpires
  <2>2. e \in Doc /\ Face(e) = Face(page[t]) /\ Mask(e) = <<0, FALSE>>
    BY <1>1 DEF Doc, Face, Mask
  <2> HIDE DEF e
  <2> QED BY <1>1, <2>1, <2>2, MaskPut
<1> QED BY <1>2, <1>3

\* Every step of the system keeps the types.
LEMMA DataNext == DataTyped /\ DbgInv /\ [Next]_vars => DataTyped'
<1> SUFFICES ASSUME DataTyped, DbgInv, [Next]_vars PROVE DataTyped'
  OBVIOUS
<1>1. CASE UNCHANGED vars
  BY <1>1 DEF vars, pageVars, sendVars, shotVars, DataTyped
<1>2. ASSUME NEW t \in Tabs, UserActs(t) PROVE DataTyped'
  <2>1. changed' \in [Sends -> BOOLEAN]
    <3>1. changed' = [s \in Sends |-> changed[s] \/ (pc[s] = "pressing" /\ TabOf[s] = t)]
      BY <1>2 DEF UserActs, Change
    <3> QED BY <3>1, Zenon
  <2> QED BY <1>2, <2>1, UserLocal DEF UserActs, shotVars, DataTyped
<1>3. ASSUME NEW t \in Tabs, Processed(t) \/ MaskExpires(t) PROVE DataTyped'
  BY <1>3, PageSteps DEF Processed, MaskExpires, sendVars, shotVars, DataTyped
<1>4. ASSUME NEW s \in Sends, TransferExpires(s) \/ Call(s) \/ GiveUp(s) PROVE DataTyped'
  BY <1>4 DEF TransferExpires, Call, GiveUp, pageVars, sendVars, shotVars, DataTyped
<1>5. ASSUME NEW s \in Sends, SendStep(s) PROVE DataTyped'
  <2>1. Local(s)
    BY <1>5, SendLocal, WorksKnown DEF DbgInv
  <2> QED BY <2>1 DEF Local, shotVars, DataTyped
<1>6. ASSUME NEW k \in Captures, Shot(k) \/ ShotStep(k) PROVE DataTyped'
  <2>1. ShotLocal(k)
    BY <1>6, ShotsLocal
  <2> QED BY <2>1 DEF ShotLocal, sendVars, DataTyped
<1> QED BY <1>1, <1>2, <1>3, <1>4, <1>5, <1>6 DEF Next
-----------------------------------------------------------------------------
\* A picture is of its tab; if the document of the tab still holds a mask, the
\* picture was taken behind one, and one to come will be.
ShotOK(k) ==
  /\ image[k] # None => pc[k] = "restore" /\ image[k].tab = TabOf[k]
  /\ pc[k] = "shoot" /\ page[TabOf[k]].refs > 0 => page[TabOf[k]].shown
  /\ pc[k] = "restore" /\ image[k] # None /\ page[TabOf[k]].refs > 0 => image[k].masked

\* The invariant about pictures: none that was kept, and none that left, lacks the mask.
ShotInv ==
  /\ \A k \in Captures : ShotOK(k)
  /\ pend # None => pend.masked
  /\ ~leaked

\* Nothing happens to the screenshots, and masks are only torn off.
LEMMA ShotKeep ==
  ASSUME ShotInv, UNCHANGED shotVars, \A k \in Captures : pc'[k] = pc[k],
         \A t \in Tabs : Mask(page'[t]) = Mask(page[t]) \/ Mask(page'[t]) = <<0, FALSE>>
  PROVE  ShotInv'
<1>1. \A k \in Captures : TabOf[k] \in Tabs
  BY TrustedSendAssumption, WorksKnown
<1>2. image' = image /\ pend' = pend /\ leaked' = leaked
  BY DEF shotVars
<1>3. ASSUME NEW t \in Tabs
      PROVE  (page'[t].refs = page[t].refs /\ page'[t].shown = page[t].shown) \/ page'[t].refs = 0
  BY DEF Mask
<1>4. ASSUME NEW k \in Captures PROVE ShotOK(k)'
  BY <1>1, <1>2, <1>3 DEF ShotInv, ShotOK
<1> QED BY <1>2, <1>4 DEF ShotInv

\* Screenshot k is done.
LEMMA ShotEnds ==
  ASSUME ShotInv, DataTyped, NEW k \in Captures, NEW ok \in BOOLEAN, EndShot(k, ok),
         ok => image[k] # None /\ image[k].masked
  PROVE  /\ pend' # None => pend'.masked
         /\ ~leaked'
         /\ image'[k] = None
<1>1. image'[k] = None
  BY EndShotLocal
<1>2. CASE mode[k] = "click"
  BY <1>1, <1>2 DEF EndShot, ShotInv
<1>3. CASE mode[k] # "click" /\ ok
  <2>1. image[k].masked /\ image[k].tab = TabOf[k] /\ ~leaked
    BY <1>3 DEF ShotInv, ShotOK
  <2>2. leaked' = (leaked \/ ~image[k].masked \/ image[k].tab # TabOf[k]) /\ pend' = pend
    BY <1>3 DEF EndShot, Give
  <2>3. ~leaked'
    BY <2>1, <2>2
  <2> QED BY <1>1, <2>2, <2>3 DEF ShotInv
<1>4. CASE mode[k] # "click" /\ ~ok
  BY <1>1, <1>4 DEF EndShot, ShotInv
<1> QED BY <1>2, <1>3, <1>4

\* Each step of a screenshot keeps the invariant about pictures; no other work
\* of its tab is between mask and restore meanwhile (OneHead).
LEMMA ShotSteps ==
  ASSUME ShotInv, DataTyped, DbgInv, NEW k \in Captures, Shot(k) \/ ShotStep(k)
  PROVE  ShotInv'
<1>0. k \in Works /\ k \notin Files /\ TabOf[k] \in Tabs /\ pc[k] \in ShotPCs
  BY TrustedSendAssumption, WorksKnown DEF DbgInv, Kind
<1>1. ASSUME NEW x \in Captures, x # k, TabOf[x] = TabOf[k], pc[k] \in {"mask", "shoot", "restore"}
      PROVE  pc[x] \notin {"mask", "shoot", "restore"} /\ image[x] = None
  <2>1. x \in Works /\ x \notin Files
    BY WorksKnown
  <2>2. pc[x] \notin {"mask", "shoot", "restore"}
    BY <1>0, <1>1, <2>1, NoWait, OneHead DEF InDbg, DbgPCs
  <2> QED BY <2>2 DEF ShotInv, ShotOK
<1>2. ShotLocal(k)
  BY ShotsLocal
<1>3. \A x \in Captures : x # k => pc'[x] = pc[x]
  BY <1>0, <1>2, WorksKnown DEF ShotLocal, Go, DbgInv, DbgTyped
<1>4. \A p : Go(k, p) => pc'[k] = p
  BY <1>0 DEF Go, DbgInv, DbgTyped
<1>5. ASSUME page' = page \/ pc[k] \in {"mask", "shoot", "restore"},
             NEW x \in Captures, x # k
      PROVE  ShotOK(x)'
  <2>1. ShotOK(x) /\ pc'[x] = pc[x] /\ image'[x] = image[x] /\ TabOf[x] \in Tabs
    BY <1>2, <1>3, <1>5, TrustedSendAssumption, WorksKnown DEF ShotInv, ShotLocal
  <2>2. CASE page'[TabOf[x]] = page[TabOf[x]]
    BY <2>1, <2>2 DEF ShotOK
  <2>3. CASE TabOf[x] = TabOf[k] /\ pc[k] \in {"mask", "shoot", "restore"}
    BY <1>1, <1>5, <2>1, <2>3 DEF ShotOK
  <2> QED BY <1>2, <1>5, <2>1, <2>2, <2>3 DEF ShotLocal
<1>6. CASE Shot(k)
  <2>1. page' = page /\ image' = image /\ (pc'[k] = pc[k] \/ pc'[k] = "wait") /\ pc[k] = "idle"
    BY <1>4, <1>6 DEF Shot
  <2>2. ShotOK(k)'
    BY <2>1 DEF ShotInv, ShotOK
  <2>3. (pend' # None => pend'.masked) /\ ~leaked'
    <3>1. CASE pend' = None /\ leaked' = leaked
      BY <3>1 DEF ShotInv
    <3>2. CASE pend' = pend /\ leaked' = leaked
      BY <3>2 DEF ShotInv
    <3>3. CASE pend' = None /\ pend # None /\ pend.tab = TabOf[k] /\ Give(pend, TabOf[k])
      BY <3>3 DEF ShotInv, Give
    <3> QED BY <1>6, <3>1, <3>2, <3>3 DEF Shot
  <2> QED BY <1>5, <2>1, <2>2, <2>3 DEF ShotInv
<1>7. ASSUME EndShot(k, FALSE), page' = page \/ pc[k] \in {"mask", "shoot", "restore"} PROVE ShotInv'
  <2>1. /\ pend' # None => pend'.masked
        /\ ~leaked' /\ image'[k] = None /\ pc'[k] = "idle"
    BY <1>4, <1>7, ShotEnds DEF EndShot
  <2>2. ShotOK(k)'
    BY <2>1 DEF ShotOK
  <2> QED BY <1>5, <1>7, <2>1, <2>2 DEF ShotInv
<1>8. CASE AttachShot(k)
  <2>1. CASE Attach(k, "mask") /\ UNCHANGED shotVars
    <3>1. pc'[k] = "mask" /\ page' = page /\ pc[k] = "wait"
      BY <1>4, <1>8, <2>1 DEF AttachShot, Attach, MayAttach
    <3>2. ShotOK(k)'
      BY <2>1, <3>1 DEF ShotInv, ShotOK, shotVars
    <3> QED BY <1>5, <2>1, <3>1, <3>2 DEF ShotInv, shotVars
  <2>2. CASE EndShot(k, FALSE) /\ page' = page
    BY <1>7, <2>2
  <2> QED BY <1>8, <2>1, <2>2 DEF AttachShot
<1>9. CASE MaskBegin(k)
  <2>1. CASE page' = Masked(TabOf[k]) /\ Go(k, "shoot") /\ UNCHANGED shotVars
    <3>1. pc'[k] = "shoot" /\ pc[k] = "mask"
      BY <1>4, <1>9, <2>1 DEF MaskBegin
    <3>2. PICK d \in Doc : Masked(TabOf[k]) = [page EXCEPT ![TabOf[k]] = d] /\ d.shown = TRUE
      BY <1>0, MaskDocs
    <3>3. page'[TabOf[k]] = d
      BY <1>0, <2>1, <3>2 DEF DataTyped
    <3>4. ShotOK(k)'
      BY <2>1, <3>1, <3>2, <3>3 DEF ShotInv, ShotOK, shotVars
    <3> QED BY <1>5, <2>1, <3>1, <3>4 DEF ShotInv, shotVars
  <2>2. CASE EndShot(k, FALSE) /\ page' = page
    BY <1>7, <2>2
  <2> QED BY <1>9, <2>1, <2>2 DEF MaskBegin, NoMask
<1>10. CASE Shoot(k)
  <2>1. pc'[k] = "restore" /\ pc[k] = "shoot" /\ page' = page /\ pend' = pend /\ leaked' = leaked
    BY <1>4, <1>10 DEF Shoot
  <2>2. ShotOK(k)'
    <3>1. CASE image' = image
      BY <2>1, <3>1 DEF ShotInv, ShotOK
    <3>2. CASE image' = [image EXCEPT ![k] = [tab |-> TabOf[k], masked |-> page[TabOf[k]].shown]]
      <4>1. image'[k].tab = TabOf[k] /\ image'[k].masked = page[TabOf[k]].shown
        BY <3>2 DEF DataTyped
      <4> QED BY <2>1, <4>1 DEF ShotInv, ShotOK
    <3> QED BY <1>10, <3>1, <3>2 DEF Shoot
  <2> QED BY <1>5, <2>1, <2>2 DEF ShotInv
<1>11. CASE Restore(k)
  <2>0. pc[k] = "restore"
    BY <1>11 DEF Restore
  <2>1. PICK ok \in BOOLEAN : EndShot(k, ok) /\ (ok => Restored(k) /\ image[k] # None)
    BY <1>11 DEF Restore
  <2>2. ok => image[k] # None /\ image[k].masked
    BY <2>0, <2>1 DEF Restored, ShotInv, ShotOK
  <2>3. /\ pend' # None => pend'.masked
        /\ ~leaked' /\ image'[k] = None /\ pc'[k] = "idle"
    BY <1>4, <2>1, <2>2, ShotEnds DEF EndShot
  <2>4. ShotOK(k)'
    BY <2>3 DEF ShotOK
  <2> QED BY <1>5, <2>0, <2>3, <2>4 DEF ShotInv
<1> QED BY <1>6, <1>8, <1>9, <1>10, <1>11 DEF ShotStep

\* Every step of the system keeps it.
LEMMA ShotNext == ShotInv /\ DataTyped /\ DbgInv /\ [Next]_vars => ShotInv'
<1> SUFFICES ASSUME ShotInv, DataTyped, DbgInv, [Next]_vars PROVE ShotInv'
  OBVIOUS
<1>1. CASE UNCHANGED vars
  BY <1>1, ShotKeep DEF vars, pageVars
<1>2. ASSUME NEW t \in Tabs, UserActs(t) PROVE ShotInv'
  BY <1>2, UserLocal, ShotKeep DEF UserActs
<1>3. ASSUME NEW t \in Tabs, Processed(t) \/ MaskExpires(t) PROVE ShotInv'
  BY <1>3, PageSteps, ShotKeep DEF Processed, MaskExpires
<1>4. ASSUME NEW s \in Sends, TransferExpires(s) \/ Call(s) \/ GiveUp(s) PROVE ShotInv'
  <2>1. UNCHANGED shotVars /\ page' = page
    BY <1>4 DEF TransferExpires, Call, GiveUp, pageVars
  <2>2. \A k \in Captures : pc'[k] = pc[k]
    BY <1>4, WorksKnown DEF TransferExpires, Call, GiveUp, Enqueue, Go, DbgInv, DbgTyped
  <2> QED BY <2>1, <2>2, ShotKeep
<1>5. ASSUME NEW s \in Sends, SendStep(s) PROVE ShotInv'
  <2>1. Local(s)
    BY <1>5, SendLocal, WorksKnown DEF DbgInv
  <2>2. \A k \in Captures : pc'[k] = pc[k]
    BY <2>1, WorksKnown DEF Local, Go, DbgInv, DbgTyped
  <2> QED BY <2>1, <2>2, ShotKeep DEF Local
<1>6. ASSUME NEW k \in Captures, Shot(k) \/ ShotStep(k) PROVE ShotInv'
  BY <1>6, ShotSteps
<1> QED BY <1>1, <1>2, <1>3, <1>4, <1>5, <1>6 DEF Next

\* The initial states have the types, and no picture.
LEMMA InitData == Init => DataTyped /\ ShotInv
<1> SUFFICES ASSUME Init PROVE DataTyped /\ ShotInv
  OBVIOUS
<1>1. Fresh \in Doc /\ NoPage \in Seen
  BY DEF Fresh, NoPage, Doc, Seen, Texts, Chips
<1>2. DataTyped
  BY <1>1 DEF Init, DataTyped
<1>3. ShotInv
  BY WorksKnown DEF Init, ShotInv, ShotOK
<1> QED BY <1>2, <1>3

\* A picture that leaves the worker was taken behind the mask and in the tab it
\* was asked for: Restore drops a picture when the document no longer holds the
\* mask, and while it does nobody else has touched it.
THEOREM PicturesPrivate == Spec => []PrivateImages
<1>1. ShotInv => PrivateImages
  BY DEF ShotInv, PrivateImages
<1>2. Init => ShotInv /\ DataTyped /\ DbgInv
  BY InitData, InitDbg
<1>3. ShotInv /\ DataTyped /\ DbgInv /\ [Next]_vars => (ShotInv /\ DataTyped /\ DbgInv)'
  BY ShotNext, DataNext, DbgNext
<1> QED BY <1>1, <1>2, <1>3, PTL DEF Spec
-----------------------------------------------------------------------------
\* What a send compared with its page still holds until the press, unless the page
\* changed after the last look; what was sent is what was looked at.
ViewOK(s) ==
  LET d == page[TabOf[s]]
  IN /\ pc[s] = "pressing" /\ ~changed[s] => d.url = seen[s].url /\ d.text = seen[s].text
     /\ s \in Files /\ pc[s] \in {"stable", "native"} /\ d.text = Text(s) /\ s \in d.file
          => seen[s].text = Text(s)
     /\ s \in Files /\ pc[s] = "pressing" /\ ~changed[s] => d.text = Text(s) /\ s \in d.file
     /\ presses[s] = 0 => sent[TabOf[s]] = {}
     /\ s \in Files /\ presses[s] > 0 /\ ~changed[s] =>
          \A m \in sent[TabOf[s]] : s \in m.file /\ m.text = Text(s)

\* The invariant about clicks and what they were validated against.
ViewInv == (\A s \in Sends : ViewOK(s)) /\ ~wrong

\* Nothing that send s looks at changes.
LEMMA ViewRest ==
  ASSUME NEW s \in Sends, ViewOK(s), pc'[s] = pc[s], seen'[s] = seen[s],
         changed'[s] = changed[s], presses'[s] = presses[s], s \in bare' <=> s \in bare,
         Face(page'[TabOf[s]]) = Face(page[TabOf[s]]), sent'[TabOf[s]] = sent[TabOf[s]]
  PROVE  ViewOK(s)'
<1>1. Text(s)' = Text(s)
  BY DEF Text
<1> QED BY <1>1 DEF ViewOK, Face

\* Send s goes where it does not rely on what it saw.
LEMMA ViewAway ==
  ASSUME NEW s \in Sends, ViewOK(s), pc'[s] \notin {"stable", "native", "pressing"},
         presses' = presses, presses[s] \in Nat, sent' = sent,
         presses[s] = 0 \/ (changed' = changed /\ bare' = bare)
  PROVE  ViewOK(s)'
<1>1. presses[s] # 0 => Text(s)' = Text(s)
  BY DEF Text
<1> QED BY <1>1 DEF ViewOK

\* Where a send that ends goes.
LEMMA EndGoes ==
  ASSUME DbgTyped, NEW s \in Sends, NEW a, Answer(s, a)
  PROVE  pc'[s] \in {"idle", "done"}
BY WorksKnown DEF Answer, Go, DbgTyped

\* Each step of a send keeps what it relies on.
LEMMA ViewSteps ==
  ASSUME ViewInv, ClickInv, DbgInv, DataTyped, NEW s \in Sends, SendStep(s)
  PROVE  ViewInv'
<1>0. s \in Works /\ TabOf[s] \in Tabs /\ Kind(s) /\ ViewOK(s) /\ ~wrong /\ DbgTyped
  BY WorksKnown, TrustedSendAssumption DEF ViewInv, DbgInv
<1>a. Local(s)
  BY <1>0, SendLocal
<1>b. ASSUME NEW x \in Sends, x # s PROVE ViewOK(x)'
  <2>1. x \in Works /\ TabOf[x] \in Tabs /\ TabOf[x] # TabOf[s] /\ ViewOK(x)
    BY <1>b, WorksKnown, TrustedSendAssumption, OneSendPerTab DEF ViewInv
  <2>2. pc'[x] = pc[x]
    BY <1>0, <1>a, <1>b, <2>1 DEF Local, Go, DbgTyped
  <2> QED BY <1>a, <1>b, <2>1, <2>2, ViewRest DEF Local
<1>c. \A p : Go(s, p) => pc'[s] = p
  BY <1>0 DEF Go, DbgTyped
<1>d. \A a : Answer(s, a) => pc'[s] \in {"idle", "done"}
  BY <1>0, EndGoes
<1>e. \A a : End(s, a) => pc'[s] \in {"idle", "done"}
  BY <1>d DEF End
<1>f. /\ presses[s] \in Nat
      /\ pc[s] \notin {"pressed", "confirm", "proof", "done"} => presses[s] = 0
  BY DEF ClickInv, ClickOK, Shape
<1>g. ASSUME pc'[s] \notin {"stable", "native", "pressing"}, presses' = presses, sent' = sent,
             wrong' = wrong, presses[s] = 0 \/ (changed' = changed /\ bare' = bare)
      PROVE  ViewInv'
  BY <1>0, <1>b, <1>f, <1>g, ViewAway DEF ViewInv
<1>1. CASE UploadBegin(s)
  BY <1>1, <1>c, <1>d, <1>f, <1>g DEF UploadBegin, Refuse, Breaks, Goes, KeepUpload
<1>2. CASE UploadChunk(s)
  BY <1>2, <1>c, <1>d, <1>f, <1>g DEF UploadChunk, Refuse, Breaks, Goes, KeepUpload
<1>3. CASE UploadCommit(s)
  BY <1>3, <1>c, <1>d, <1>f, <1>g DEF UploadCommit, Refuse, Breaks, Goes, KeepUpload
<1>4. CASE UploadReady(s)
  BY <1>4, <1>c, <1>d, <1>f, <1>g DEF UploadReady, Refuse, Enqueue, KeepUpload
<1>5. CASE PrepareBare(s)
  BY <1>5, <1>c, <1>e, <1>g DEF PrepareBare, OnTime, NoScript, KeepSend, pageVars
<1>6. CASE NativeAnswer(s)
  BY <1>6, <1>c, <1>e, <1>g DEF NativeAnswer, OnTime, KeepSend, pageVars
<1>7. CASE Proof(s)
  BY <1>7, <1>e, <1>g DEF Proof, KeepSend, pageVars
<1>8. CASE Acquire(s)
  BY <1>8, <1>c, <1>e, <1>g DEF Acquire, OnTime, Late, KeepSend, pageVars
<1>9. CASE Focus(s)
  BY <1>9, <1>c, <1>e, <1>g DEF Focus, OnTime, Late, KeepSend, pageVars
<1>10. CASE PrepareType(s)
  BY <1>10, <1>c, <1>g DEF PrepareType, KeepSend
<1>11. CASE PrepareCheck(s)
  BY <1>11, <1>c, <1>e, <1>g DEF PrepareCheck, OnTime, NoScript, KeepSend, pageVars
<1>12. CASE AttachSend(s)
  BY <1>12, <1>c, <1>e, <1>g DEF AttachSend, Attach, KeepSend, pageVars
<1>13. CASE Check(s)
  BY <1>13, <1>c, <1>e, <1>g DEF Check, OnTime, Abandon, KeepSend, pageVars
<1>14. CASE PressAnswer(s)
  BY <1>14, <1>c, <1>e, <1>g DEF PressAnswer, LostClick, OnTime, KeepSend, pageVars
<1>15. CASE Confirm(s)
  BY <1>15, <1>e, <1>g DEF Confirm, KeepSend, pageVars
<1>16. CASE StabiliseStart(s)
  <2>1. CASE End(s, "rejected")
    BY <1>16, <1>e, <1>g, <2>1 DEF StabiliseStart, KeepSend, pageVars
  <2>2. CASE seen' = [seen EXCEPT ![s] = View(TabOf[s])] /\ Go(s, "stable")
    <3>1. seen'[s] = View(TabOf[s]) /\ pc'[s] = "stable"
      BY <1>c, <2>2 DEF DataTyped
    <3>2. page' = page /\ presses' = presses /\ changed' = changed /\ bare' = bare
          /\ sent' = sent /\ wrong' = wrong /\ presses[s] = 0
      BY <1>16, <1>f DEF StabiliseStart, KeepSend, pageVars
    <3>3. ViewOK(s)'
      BY <1>0, <3>1, <3>2 DEF ViewOK, View, Text
    <3> QED BY <1>0, <1>b, <3>2, <3>3 DEF ViewInv
  <2> QED BY <1>16, <2>1, <2>2 DEF StabiliseStart
<1>17. CASE StabiliseEnd(s)
  <2>0. page' = page /\ presses' = presses /\ changed' = changed /\ bare' = bare
        /\ sent' = sent /\ wrong' = wrong /\ presses[s] = 0 /\ pc[s] = "stable"
    BY <1>17, <1>f DEF StabiliseEnd, KeepSend, pageVars
  <2>1. CASE pc'[s] \in {"idle", "done", "refocus"}
    BY <1>g, <2>0, <2>1
  <2>2. CASE Go(s, "native") /\ Prepared(s, {s})
    <3>1. seen'[s].text = seen[s].text /\ pc'[s] = "native"
      BY <1>c, <2>2 DEF Prepared, DataTyped, Seen
    <3>2. ViewOK(s)'
      BY <1>0, <2>0, <3>1 DEF ViewOK, Text
    <3> QED BY <1>0, <1>b, <2>0, <3>2 DEF ViewInv
  <2> QED BY <1>17, <1>c, <1>e, <2>1, <2>2 DEF StabiliseEnd, Handover
<1>18. CASE Hover(s)
  <2>0. page' = page /\ presses' = presses /\ bare' = bare
        /\ sent' = sent /\ wrong' = wrong /\ presses[s] = 0 /\ pc[s] = "hover"
    BY <1>18, <1>f DEF Hover, KeepSend, pageVars
  <2>1. CASE pc'[s] \in {"idle", "done"}
    BY <1>g, <2>0, <2>1
  <2>2. CASE Valid(s) /\ OnTime(s, "pressing")
    <3>1. seen' = seen /\ pc'[s] = "pressing" /\ s \notin Files
      BY <1>0, <1>c, <2>0, <2>2 DEF OnTime, Kind
    <3>2. ViewOK(s)'
      BY <1>0, <2>0, <2>2, <3>1 DEF ViewOK, Valid
    <3> QED BY <1>0, <1>b, <2>0, <3>2 DEF ViewInv
  <2> QED BY <1>18, <1>e, <2>1, <2>2 DEF Hover, Abandon
<1>19. CASE NativeCheck(s)
  <2>0. page' = page /\ presses' = presses /\ bare' = bare
        /\ sent' = sent /\ wrong' = wrong /\ presses[s] = 0 /\ pc[s] = "native"
    BY <1>19, <1>f DEF NativeCheck, KeepSend, pageVars
  <2>1. CASE pc'[s] \in {"idle", "done"}
    BY <1>g, <2>0, <2>1
  <2>2. CASE NativeTarget(s) /\ OnTime(s, "pressing")
    <3>1. seen' = seen /\ pc'[s] = "pressing" /\ s \in Files
      BY <1>0, <1>c, <2>0, <2>2 DEF OnTime, Kind
    <3>2. seen[s].text = Text(s)
      BY <1>0, <2>0, <2>2, <3>1 DEF ViewOK, NativeTarget
    <3>3. ViewOK(s)'
      BY <1>0, <2>0, <2>2, <3>1, <3>2 DEF ViewOK, NativeTarget, Text
    <3> QED BY <1>0, <1>b, <2>0, <3>3 DEF ViewInv
  <2> QED BY <1>19, <1>e, <2>1, <2>2 DEF NativeCheck
<1>20. CASE Press(s)
  <2> DEFINE d == page[TabOf[s]]
             m == [text |-> d.text, file |-> d.file]
  <2>1. pc[s] = "pressing" /\ pc'[s] = "pressed" /\ presses[s] = 0 /\ sent[TabOf[s]] = {}
    BY <1>0, <1>20, <1>c, <1>f DEF Press, OnTime, ViewOK
  <2>2. presses'[s] = 1 /\ sent'[TabOf[s]] = {m}
    BY <1>0, <1>20, <2>1 DEF Press, Pressed, ClickInv, Shape, DataTyped
  <2>3. changed' = changed /\ bare' = bare
        /\ wrong' = (wrong \/ (~changed[s] /\ (d.url # seen[s].url \/ d.text # seen[s].text)))
    BY <1>20 DEF Press, KeepSend, View
  <2>4. ~wrong'
    BY <1>0, <2>1, <2>3 DEF ViewOK
  <2>5. s \in Files /\ ~changed[s] => s \in m.file /\ m.text = Text(s)
    BY <1>0, <2>1 DEF ViewOK
  <2>6. Text(s)' = Text(s)
    BY <2>3 DEF Text
  <2> HIDE DEF m
  <2>7. ViewOK(s)'
    BY <2>1, <2>2, <2>3, <2>5, <2>6 DEF ViewOK
  <2> QED BY <1>b, <2>4, <2>7 DEF ViewInv
<1> QED BY <1>1, <1>2, <1>3, <1>4, <1>5, <1>6, <1>7, <1>8, <1>9, <1>10, <1>11, <1>12, <1>13, <1>14,
           <1>15, <1>16, <1>17, <1>18, <1>19, <1>20 DEF SendStep, UploadStep

\* What the user, Chrome and the screenshots do to the pages keeps it as well.
LEMMA ViewNext == ViewInv /\ ClickInv /\ DbgInv /\ DataTyped /\ [Next]_vars => ViewInv'
<1> SUFFICES ASSUME ViewInv, ClickInv, DbgInv, DataTyped, [Next]_vars PROVE ViewInv'
  OBVIOUS
<1>0. \A s \in Sends : ViewOK(s) /\ TabOf[s] \in Tabs
  BY WorksKnown, TrustedSendAssumption DEF ViewInv
<1>1. CASE UNCHANGED vars
  BY <1>0, <1>1, ViewRest DEF vars, pageVars, sendVars, ViewInv
<1>2. ASSUME NEW t \in Tabs, UserActs(t) PROVE ViewInv'
  <2>1. /\ UNCHANGED <<sent, pc, seen, presses, wrong, bare>>
        /\ changed' = [s \in Sends |-> changed[s] \/ (pc[s] = "pressing" /\ TabOf[s] = t)]
    BY <1>2 DEF UserActs, Change
  <2>2. ASSUME NEW s \in Sends PROVE ViewOK(s)'
    <3>1. Text(s)' = Text(s) /\ Text(s) # Foreign /\ s # Foreign
      BY <2>1, ForeignText DEF Text, Foreign
    <3>2. CASE TabOf[s] # t
      <4>1. page'[TabOf[s]] = page[TabOf[s]]
        BY <1>0, <1>2, <3>2, UserLocal
      <4>2. changed'[s] = changed[s]
        BY <2>1, <3>2 DEF DataTyped
      <4> QED BY <1>0, <2>1, <4>1, <4>2, ViewRest
    <3>3. CASE TabOf[s] = t
      <4>1. pc[s] = "pressing" => changed'[s]
        BY <2>1, <3>3
      <4>2. pc[s] # "pressing" => changed'[s] = changed[s]
        BY <2>1, <3>3 DEF DataTyped
      <4>3. page'[t].text = Text(s) /\ s \in page'[t].file
              => page[t].text = Text(s) /\ s \in page[t].file
        BY <1>2, <3>1, UserLocal
      <4>4. pc[s] = "pressing" => presses[s] = 0
        BY DEF ClickInv, ClickOK, Shape
      <4> QED BY <1>0, <2>1, <3>1, <3>3, <4>1, <4>2, <4>3, <4>4 DEF ViewOK
    <3> QED BY <3>2, <3>3
  <2> QED BY <2>1, <2>2 DEF ViewInv
<1>3. ASSUME NEW t \in Tabs, Processed(t) \/ MaskExpires(t) PROVE ViewInv'
  <2>1. UNCHANGED <<sent, pc, sendVars>>
    BY <1>3 DEF Processed, MaskExpires
  <2> QED BY <1>0, <1>3, <2>1, PageSteps, ViewRest DEF sendVars, ViewInv
<1>4. ASSUME NEW s \in Sends, TransferExpires(s) \/ GiveUp(s) PROVE ViewInv'
  BY <1>0, <1>4, ViewRest DEF TransferExpires, GiveUp, pageVars, sendVars, ViewInv
<1>5. ASSUME NEW s \in Sends, Call(s) PROVE ViewInv'
  <2>1. UNCHANGED <<pageVars, seen, presses, wrong, changed, bare>> /\ \E p \in {"begin", "queued"} : Go(s, p)
    BY <1>5 DEF Call, Enqueue
  <2>2. pc'[s] \in {"begin", "queued"} /\ \A x \in Sends : x # s => pc'[x] = pc[x]
    BY <2>1, WorksKnown DEF Go, DbgInv, DbgTyped
  <2>3. presses[s] \in Nat
    BY DEF ClickInv, Shape
  <2>4. ViewOK(s)'
    BY <1>0, <2>1, <2>2, <2>3, ViewAway DEF pageVars
  <2>5. \A x \in Sends : x # s => ViewOK(x)'
    BY <1>0, <2>1, <2>2, ViewRest DEF pageVars
  <2> QED BY <2>1, <2>4, <2>5 DEF ViewInv
<1>6. ASSUME NEW s \in Sends, SendStep(s) PROVE ViewInv'
  BY <1>6, ViewSteps
<1>7. ASSUME NEW k \in Captures, Shot(k) \/ ShotStep(k) PROVE ViewInv'
  <2>1. ShotLocal(k)
    BY <1>7, ShotsLocal
  <2>2. \A s \in Sends : pc'[s] = pc[s]
    BY <2>1, WorksKnown DEF ShotLocal, Go, DbgInv, DbgTyped
  <2> QED BY <1>0, <2>1, <2>2, ViewRest DEF ShotLocal, sendVars, ViewInv
<1> QED BY <1>1, <1>2, <1>3, <1>4, <1>5, <1>6, <1>7 DEF Next

\* The initial states have it.
LEMMA InitView == Init => ViewInv
<1>1. \A s \in Sends : TabOf[s] \in Tabs
  BY WorksKnown, TrustedSendAssumption
<1> QED BY <1>1, WorksKnown DEF Init, ViewInv, ViewOK

\* The four invariants that the views rest on hold together.
LEMMA ViewsKept == Spec => [](ViewInv /\ ClickInv /\ DbgInv /\ DataTyped)
<1>1. Init => ViewInv /\ ClickInv /\ DbgInv /\ DataTyped
  BY InitView, InitClick, InitDbg, InitData
<1>2. ViewInv /\ ClickInv /\ DbgInv /\ DataTyped /\ [Next]_vars
        => (ViewInv /\ ClickInv /\ DbgInv /\ DataTyped)'
  BY ViewNext, ClickNext, DbgNext, DataNext
<1> QED BY <1>1, <1>2, PTL DEF Spec

\* A press never lands on an address or a text other than those that were
\* validated last, unless the page changed after that: what Hover and NativeCheck
\* compared still stands when Press happens, whatever the other works do.
THEOREM ClickOnWhatWasSeen == Spec => []ClickValidated
<1>1. ViewInv => ClickValidated
  BY DEF ViewInv, ClickValidated
<1> QED BY <1>1, ViewsKept, PTL

\* The helper's press sends the file with the text of its message and no other,
\* unless the page changed after the helper's last look.
THEOREM FileSentWithItsText == Spec => []FileWithItsText
<1>1. ViewInv => FileWithItsText
  BY WorksKnown DEF ViewInv, ViewOK, FileWithItsText
<1> QED BY <1>1, ViewsKept, PTL
-----------------------------------------------------------------------------
\* What is behind index i of a sequence.
LEMMA Behind ==
  ASSUME NEW q \in Seq(Sends), NEW i \in 1..Len(q)
  PROVE  LET b == SubSeq(q, i+1, Len(q))
         IN b \in Seq(Sends) /\ Len(b) = Len(q)-i /\ \A j \in 1..Len(q)-i : b[j] = q[i+j]
<1>1. i+1 \in Int /\ Len(q) \in Int /\ Len(q) \in Nat /\ i \in Nat /\ i <= Len(q)
  OBVIOUS
<1>2. \A j \in i+1..Len(q) : q[j] \in Sends
  BY <1>1
<1>3. /\ SubSeq(q, i+1, Len(q)) \in Seq(Sends)
      /\ Len(SubSeq(q, i+1, Len(q))) = (IF i+1 <= Len(q) THEN Len(q)-(i+1)+1 ELSE 0)
      /\ \A j \in 1..Len(q)-(i+1)+1 : SubSeq(q, i+1, Len(q))[j] = q[(i+1)+j-1]
  BY <1>1, <1>2, SubSeqProperties
<1>4. \A j \in 1..Len(q)-i : j \in 1..Len(q)-(i+1)+1 /\ (i+1)+j-1 = i+j
  BY <1>1
<1> QED BY <1>1, <1>3, <1>4

\* RemoveFirst takes the only place of s out of a sequence, wherever it is: a command
\* whose deadline passed leaves from the middle of the queue.
LEMMA Leaves ==
  ASSUME NEW q \in Seq(Sends), IsInjective(q), NEW s
  PROVE  LET r == RemoveFirst(q, s)
         IN r \in Seq(Sends) /\ IsInjective(r) /\ ToSet(r) = ToSet(q) \ {s}
<1> DEFINE r == RemoveFirst(q, s)
<1>0. Len(q) \in Nat /\ DOMAIN q = 1..Len(q) /\ \A j \in 1..Len(q) : q[j] \in Sends
  OBVIOUS
<1>1. CASE \A i \in 1..Len(q) : q[i] # s
  <2>1. r = q
    BY <1>1 DEF RemoveFirst
  <2> QED BY <2>1, <1>1, <1>0 DEF ToSet
<1>2. ASSUME NEW i \in 1..Len(q), q[i] = s PROVE r \in Seq(Sends) /\ IsInjective(r) /\ ToSet(r) = ToSet(q) \ {s}
  <2>1. \A j \in 1..Len(q) : q[j] = s => j = i
    BY <1>0, <1>2 DEF IsInjective
  <2>2. {j \in 1..Len(q) : q[j] = s} = {i}
    BY <2>1, <1>2
  <2>3. SelectInSeq(q, LAMBDA v : v = s) = Min({i})
    BY <2>2 DEF SelectInSeq
  <2>4. Min({i}) = i
    BY DEF Min
  <2>5. r = SubSeq(q, 1, i-1) \o SubSeq(q, i+1, Len(q))
    BY <2>3, <2>4, <1>2 DEF RemoveFirst, RemoveAt
  <2>6. r \in Seq(Sends) /\ Len(r) = Len(q) - 1
        /\ \A j \in 1..Len(r) : r[j] = IF j < i THEN q[j] ELSE q[j+1]
    <3> DEFINE a == SubSeq(q, 1, i-1)
               b == SubSeq(q, i+1, Len(q))
    <3>1. a \in Seq(Sends) /\ Len(a) = i-1 /\ \A j \in 1..i-1 : a[j] = q[j]
      BY <1>0
    <3>2. b \in Seq(Sends) /\ Len(b) = Len(q)-i /\ \A j \in 1..Len(q)-i : b[j] = q[i+j]
      BY Behind
    <3>3. r = a \o b
      BY <2>5
    <3> HIDE DEF a, b, r
    <3>4. r \in Seq(Sends) /\ Len(r) = Len(q) - 1
      BY <3>1, <3>2, <3>3, <1>0
    <3>5. ASSUME NEW j \in 1..Len(r) PROVE r[j] = IF j < i THEN q[j] ELSE q[j+1]
      <4>1. CASE j < i
        BY <3>1, <3>2, <3>3, <3>4, <4>1, <1>0
      <4>2. CASE j >= i
        <5>1. j \in Nat /\ i \in Nat /\ i <= Len(q) /\ j <= Len(q)-1 /\ Len(q) \in Nat
          BY <1>0, <3>4
        <5>2. Len(a) = i-1 /\ ~(j <= Len(a)) /\ j <= Len(a) + Len(b)
          BY <3>1, <3>2, <4>2, <5>1
        <5>3. r[j] = b[j-(i-1)]
          <6>1. j \in 1..Len(a)+Len(b)
            BY <5>1, <5>2, <3>1, <3>2, <3>4
          <6> QED BY <3>1, <3>2, <3>3, <5>2, <6>1, ConcatProperties
        <5>4. j-(i-1) \in 1..Len(q)-i /\ i+(j-(i-1)) = j+1
          BY <5>1, <4>2
        <5>5. r[j] = q[j+1] /\ ~(j < i)
          BY <5>3, <5>4, <3>2, <5>1, <4>2
        <5> QED BY <5>5
      <4> QED BY <4>1, <4>2, <3>4, <1>0
    <3> QED BY <3>4, <3>5
  <2>7. DOMAIN r = 1..Len(r)
    BY <2>6
  <2> HIDE DEF r
  <2>8. IsInjective(r)
    <3> SUFFICES ASSUME NEW x \in 1..Len(r), NEW y \in 1..Len(r), r[x] = r[y] PROVE x = y
      BY <2>7 DEF IsInjective
    <3>1. \A j, l \in 1..Len(q) : q[j] = q[l] => j = l
      BY <1>0 DEF IsInjective
    <3>2. r[x] = (IF x < i THEN q[x] ELSE q[x+1]) /\ r[y] = (IF y < i THEN q[y] ELSE q[y+1])
      BY <2>6
    <3>0. x \in Nat /\ y \in Nat /\ i \in Nat
      BY <2>6, <1>0
    <3>3. /\ x < i => x \in 1..Len(q)
          /\ y < i => y \in 1..Len(q)
          /\ x+1 \in 1..Len(q) /\ y+1 \in 1..Len(q)
      BY <2>6, <1>0
    <3>4. CASE x < i /\ y < i
      BY <3>1, <3>2, <3>3, <3>4
    <3>5. CASE ~(x < i) /\ ~(y < i)
      <4>1. q[x+1] = q[y+1]
        BY <3>2, <3>5
      <4>2. x+1 = y+1
        BY <4>1, <3>1, <3>3
      <4> QED BY <4>2, <3>0
    <3>6. CASE x < i /\ ~(y < i)
      <4>1. q[x] = q[y+1]
        BY <3>2, <3>6
      <4> QED BY <4>1, <3>1, <3>3, <3>6, <3>0
    <3>7. CASE ~(x < i) /\ y < i
      <4>1. q[x+1] = q[y]
        BY <3>2, <3>7
      <4> QED BY <4>1, <3>1, <3>3, <3>7, <3>0
    <3>8. (x < i \/ ~(x < i)) /\ (y < i \/ ~(y < i))
      OBVIOUS
    <3> QED BY <3>4, <3>5, <3>6, <3>7, <3>8, Zenon
  <2>9. ToSet(r) \subseteq ToSet(q) \ {s}
    BY <2>6, <2>7, <1>0, <2>1 DEF ToSet
  <2>10. ASSUME NEW x \in ToSet(q) \ {s} PROVE x \in ToSet(r)
    <3>1. PICK j \in 1..Len(q) : q[j] = x
      BY <1>0 DEF ToSet
    <3>2. CASE j < i
      BY <3>1, <3>2, <2>6, <2>7, <1>0 DEF ToSet
    <3>3. CASE j > i
      <4>1. j-1 \in 1..Len(r) /\ r[j-1] = x
        BY <3>1, <3>3, <2>6, <1>0
      <4> QED BY <4>1, <2>7 DEF ToSet
    <3> QED BY <3>1, <3>2, <3>3, <1>0, <1>2
  <2> QED BY <2>6, <2>8, <2>9, <2>10
<1> QED BY <1>1, <1>2
-----------------------------------------------------------------------------
\* Where a send has no slot of the activation queue.
NoSlot == {"idle", "begin", "chunk", "commit", "ready", "done"}

\* The activation queue: nobody twice, nobody whose command has ended or not come.
QueueInv ==
  /\ act \in Seq(Sends) /\ IsInjective(act)
  /\ \A s \in Sends : pc[s] \in NoSlot => s \notin ToSet(act)

\* The types that no other invariant has.
RestTyped ==
  /\ \A t \in Tabs : page[t].shown => page[t].refs > 0
  /\ \A s \in Sends : tries[s] \in 0..MaxTries[s]
  /\ tries \in [Sends -> Nat]
  /\ load \subseteq Files /\ bare \subseteq Files
  /\ mishaps \in 0..MaxMishaps
  /\ wrong \in BOOLEAN /\ leaked \in BOOLEAN

\* Send s moves, and keeps what it has of the queue.
LEMMA QueueGo ==
  ASSUME QueueInv, pc \in [Works -> SendPCs \cup ShotPCs], NEW s \in Sends, NEW p, Go(s, p), act' = act,
         p \in NoSlot => pc[s] \in NoSlot
  PROVE  QueueInv'
<1>1. \A x \in Sends : x \in Works /\ pc'[x] = IF x = s THEN p ELSE pc[x]
  BY WorksKnown DEF Go
<1> QED BY <1>1 DEF QueueInv

\* It leaves the queue, if it is in there.
LEMMA QueueLeave ==
  ASSUME QueueInv, pc \in [Works -> SendPCs \cup ShotPCs], NEW s \in Sends, NEW p, Go(s, p),
         act' = RemoveFirst(act, s)
  PROVE  QueueInv'
<1>1. \A x \in Sends : x # s => pc'[x] = pc[x]
  BY WorksKnown DEF Go
<1>2. act' \in Seq(Sends) /\ IsInjective(act') /\ ToSet(act') = ToSet(act) \ {s}
  BY Leaves DEF QueueInv
<1> QED BY <1>1, <1>2 DEF QueueInv

\* It enters the queue, last.
LEMMA QueueEnter ==
  ASSUME QueueInv, pc \in [Works -> SendPCs \cup ShotPCs], NEW s \in Sends, pc[s] \in NoSlot, Enqueue(s)
  PROVE  QueueInv'
<1>1. /\ \A x \in Sends : x # s => pc'[x] = pc[x]
      /\ pc'[s] = "queued"
  BY WorksKnown DEF Enqueue, Go
<1>2. s \notin ToSet(act) /\ act \in Seq(Sends) /\ IsInjective(act)
  BY DEF QueueInv
<1>3. /\ act' = Append(act, s) /\ act' \in Seq(Sends) /\ Len(act') = Len(act) + 1 /\ Len(act) \in Nat
      /\ DOMAIN act = 1..Len(act) /\ DOMAIN act' = 1..Len(act')
      /\ \A i \in 1..Len(act) : act'[i] = act[i]
      /\ act'[Len(act) + 1] = s
  BY <1>2 DEF Enqueue
<1>4. IsInjective(act')
  <2>1. \A i \in 1..Len(act) : act[i] # s
    BY <1>2, <1>3 DEF ToSet
  <2>2. \A i, j \in 1..Len(act) : act[i] = act[j] => i = j
    BY <1>2, <1>3 DEF IsInjective
  <2>3. \A i, j \in 1..Len(act') : act'[i] = act'[j] => i = j
    BY <1>3, <2>1, <2>2
  <2> QED BY <1>3, <2>3 DEF IsInjective
<1>5. \A x \in Sends : x \in ToSet(act') => x = s \/ x \in ToSet(act)
  BY <1>3 DEF ToSet
<1> QED BY <1>1, <1>3, <1>4, <1>5 DEF QueueInv, NoSlot

\* A command that ends takes its slot with it.
LEMMA QueueEnd ==
  ASSUME QueueInv, pc \in [Works -> SendPCs \cup ShotPCs], NEW s \in Sends, NEW a, End(s, a)
  PROVE  QueueInv'
<1>1. PICK p : Go(s, p)
  BY DEF End, Answer
<1> QED BY <1>1, QueueLeave DEF End

\* A command that is answered outside the queue.
LEMMA QueueAnswer ==
  ASSUME QueueInv, pc \in [Works -> SendPCs \cup ShotPCs], NEW s \in Sends, NEW a, Answer(s, a), act' = act,
         pc[s] \in NoSlot
  PROVE  QueueInv'
<1>1. PICK p : Go(s, p)
  BY DEF Answer
<1> QED BY <1>1, QueueGo

\* No sends move.
LEMMA QueueQuiet ==
  ASSUME QueueInv, \A s \in Sends : pc'[s] = pc[s], act' = act
  PROVE  QueueInv'
BY DEF QueueInv

\* The steps of a send.
LEMMA QueueSteps ==
  ASSUME QueueInv, pc \in [Works -> SendPCs \cup ShotPCs], NEW s \in Sends, SendStep(s)
  PROVE  QueueInv'
<1> USE DEF NoSlot
<1>1. CASE UploadBegin(s)
  BY <1>1, QueueGo, QueueAnswer DEF UploadBegin, Refuse, Breaks, Goes
<1>2. CASE UploadChunk(s)
  BY <1>2, QueueGo, QueueAnswer DEF UploadChunk, Refuse, Breaks, Goes
<1>3. CASE UploadCommit(s)
  BY <1>3, QueueGo, QueueAnswer DEF UploadCommit, Refuse, Breaks, Goes
<1>4. CASE UploadReady(s)
  BY <1>4, QueueEnter, QueueAnswer DEF UploadReady, Refuse
<1>5. CASE PrepareBare(s)
  BY <1>5, QueueGo, QueueEnd DEF PrepareBare, OnTime, NoScript
<1>6. CASE NativeCheck(s)
  BY <1>6, QueueGo, QueueEnd DEF NativeCheck, OnTime
<1>7. CASE NativeAnswer(s)
  BY <1>7, QueueGo, QueueEnd DEF NativeAnswer, OnTime
<1>8. CASE Proof(s)
  BY <1>8, QueueEnd DEF Proof
<1>9. CASE Acquire(s)
  BY <1>9, QueueGo, QueueEnd DEF Acquire, OnTime, Late
<1>10. CASE Focus(s)
  BY <1>10, QueueGo, QueueEnd DEF Focus, OnTime, Late
<1>11. CASE PrepareType(s)
  BY <1>11, QueueGo DEF PrepareType
<1>12. CASE PrepareCheck(s)
  BY <1>12, QueueGo, QueueEnd DEF PrepareCheck, OnTime, NoScript
<1>13. CASE StabiliseStart(s)
  BY <1>13, QueueGo, QueueEnd DEF StabiliseStart
<1>14. CASE StabiliseEnd(s)
  BY <1>14, QueueGo, QueueLeave, QueueEnd DEF StabiliseEnd, Handover
<1>15. CASE AttachSend(s)
  BY <1>15, QueueGo, QueueEnd DEF AttachSend, Attach
<1>16. CASE Check(s)
  BY <1>16, QueueGo, QueueEnd DEF Check, OnTime, Abandon
<1>17. CASE Hover(s)
  BY <1>17, QueueGo, QueueEnd DEF Hover, OnTime, Abandon
<1>18. CASE Press(s)
  BY <1>18, QueueGo DEF Press, OnTime
<1>19. CASE PressAnswer(s)
  BY <1>19, QueueGo, QueueEnd DEF PressAnswer, LostClick, OnTime
<1>20. CASE Confirm(s)
  BY <1>20, QueueEnd DEF Confirm
<1> QED BY <1>1, <1>2, <1>3, <1>4, <1>5, <1>6, <1>7, <1>8, <1>9, <1>10, <1>11, <1>12, <1>13, <1>14,
           <1>15, <1>16, <1>17, <1>18, <1>19, <1>20 DEF SendStep, UploadStep

\* Every step of the system keeps the queue.
LEMMA QueueNext == QueueInv /\ DataTyped /\ DbgInv /\ [Next]_vars => QueueInv'
<1> SUFFICES ASSUME QueueInv, DataTyped, DbgInv, [Next]_vars PROVE QueueInv'
  OBVIOUS
<1>0. pc \in [Works -> SendPCs \cup ShotPCs]
  BY DEF DbgInv, DbgTyped
<1>1. CASE UNCHANGED vars
  BY <1>1, QueueQuiet DEF vars
<1>2. ASSUME NEW t \in Tabs, UserActs(t) \/ Processed(t) \/ MaskExpires(t) PROVE QueueInv'
  BY <1>2, QueueQuiet DEF UserActs, Processed, MaskExpires
<1>3. ASSUME NEW s \in Sends, TransferExpires(s) \/ GiveUp(s) PROVE QueueInv'
  BY <1>3, QueueQuiet DEF TransferExpires, GiveUp
<1>4. ASSUME NEW s \in Sends, Call(s) PROVE QueueInv'
  BY <1>0, <1>4, QueueGo, QueueEnter DEF Call, NoSlot
<1>5. ASSUME NEW s \in Sends, SendStep(s) PROVE QueueInv'
  BY <1>0, <1>5, QueueSteps
<1>6. ASSUME NEW k \in Captures, Shot(k) \/ ShotStep(k) PROVE QueueInv'
  <2>1. ShotLocal(k)
    BY <1>6, ShotsLocal
  <2>2. \A s \in Sends : pc'[s] = pc[s]
    BY <2>1, WorksKnown, <1>0, TrustedSendAssumption DEF ShotLocal, Go
  <2>3. act' = act
    BY <1>6 DEF Shot, ShotStep, AttachShot, MaskBegin, Shoot, Restore, KeepShot
  <2> QED BY <2>2, <2>3, QueueQuiet
<1> QED BY <1>1, <1>2, <1>3, <1>4, <1>5, <1>6 DEF Next
-----------------------------------------------------------------------------
\* What the steps of a send do to the rest.
LEMMA RestSteps ==
  ASSUME RestTyped, DataTyped, DbgInv, NEW s \in Sends, SendStep(s)
  PROVE  RestTyped'
<1>0. Local(s)
  BY SendLocal, WorksKnown DEF DbgInv
<1>1. \A t \in Tabs : page'[t].shown => page'[t].refs > 0
  BY <1>0 DEF Local, Mask, RestTyped
<1>2. tries' = tries
  BY DEF SendStep, UploadStep, UploadBegin, UploadChunk, UploadCommit, UploadReady, PrepareBare, NativeCheck,
         NativeAnswer, Proof, Acquire, Focus, PrepareType, PrepareCheck, StabiliseStart, StabiliseEnd,
         AttachSend, Check, Hover, Press, PressAnswer, Confirm, KeepSend, KeepUpload
<1>3. mishaps' \in 0..MaxMishaps
  <2>1. mishaps' = mishaps \/ Fault
    BY DEF SendStep, UploadStep, UploadBegin, UploadChunk, UploadCommit, UploadReady, PrepareBare, NativeCheck,
           NativeAnswer, Proof, Acquire, Focus, PrepareType, PrepareCheck, StabiliseStart, StabiliseEnd,
           AttachSend, Check, Hover, Press, PressAnswer, Confirm, Breaks, NoScript
  <2> QED BY <2>1, TrustedSendAssumption DEF Fault, RestTyped
<1>4. load' \subseteq Files /\ bare' \subseteq Files
  <2>1. pc[s] \in {"begin", "chunk", "commit", "ready"} => s \in Files
    BY WorksKnown DEF DbgInv, Kind
  <2>2. CASE UploadBegin(s)
    BY <2>1, <2>2 DEF UploadBegin, RestTyped
  <2>3. CASE UploadChunk(s) \/ UploadCommit(s) \/ UploadReady(s)
    BY <2>1, <2>3 DEF UploadChunk, UploadCommit, UploadReady, RestTyped
  <2>4. CASE ~UploadStep(s)
    <3>1. load' = load /\ bare' = bare
      BY <2>4 DEF SendStep, PrepareBare, NativeCheck, NativeAnswer, Proof, Acquire, Focus, PrepareType,
         PrepareCheck, StabiliseStart, StabiliseEnd, AttachSend, Check, Hover, Press, PressAnswer, Confirm,
         KeepSend, pageVars
    <3> QED BY <3>1 DEF RestTyped
  <2> QED BY <2>2, <2>3, <2>4 DEF UploadStep
<1>5. leaked' = leaked
  BY <1>0 DEF Local, shotVars
<1>6. wrong' = wrong \/ wrong' = TRUE \/ wrong' = FALSE
  <2>1. CASE Press(s)
    <3>1. \E b : wrong' = (wrong \/ b)
      BY <2>1, Zenon DEF Press
    <3> QED BY <3>1, Zenon
  <2>2. CASE ~Press(s)
    BY <2>2 DEF SendStep, UploadStep, UploadBegin, UploadChunk, UploadCommit, UploadReady, PrepareBare,
       NativeCheck, NativeAnswer, Proof, Acquire, Focus, PrepareType, PrepareCheck, StabiliseStart,
       StabiliseEnd, AttachSend, Check, Hover, PressAnswer, Confirm, KeepUpload
  <2> QED BY <2>1, <2>2
<1> QED BY <1>1, <1>2, <1>3, <1>4, <1>5, <1>6 DEF RestTyped

\* A document gets a mask with n references.
LEMMA MaskRefs ==
  ASSUME NEW d \in Doc, NEW n \in Nat, NEW b
  PROVE  [d EXCEPT !.refs = n, !.shown = b].refs = n /\ [d EXCEPT !.refs = n, !.shown = b].shown = b
BY DEF Doc

\* A mask put on or taken off, seen in the document.
LEMMA MaskSeen ==
  ASSUME page \in [Tabs -> Doc], NEW t \in Tabs
  PROVE  /\ page' = Masked(t) => page'[t].refs \in Nat /\ page'[t].refs > 0
         /\ page' = Unmasked(t) /\ page[t].refs > 0 /\ page'[t].shown => page'[t].refs > 0
<1> DEFINE d == page[t]
<1>1. d \in Doc /\ d.refs \in Nat
  BY DEF Doc
<1>2. ASSUME NEW n \in Nat, NEW b, page' = [page EXCEPT ![t] = [@ EXCEPT !.refs = n, !.shown = b]]
      PROVE  page'[t].refs = n /\ page'[t].shown = b
  <2>1. page'[t] = [d EXCEPT !.refs = n, !.shown = b]
    BY <1>2
  <2> HIDE DEF d
  <2> QED BY <1>1, <2>1, MaskRefs
<1>3. ASSUME page' = Masked(t) PROVE d.refs \in Nat /\ page'[t].refs \in Nat /\ page'[t].refs > 0
  <2> DEFINE n == IF d.shown THEN d.refs + 1 ELSE 1
  <2>1. n \in Nat /\ n > 0
    BY <1>1
  <2>2. page' = [page EXCEPT ![t] = [@ EXCEPT !.refs = n, !.shown = TRUE]]
    BY <1>3, Zenon DEF Masked
  <2> HIDE DEF n
  <2>3. PICK b : b = TRUE
    OBVIOUS
  <2>4. page' = [page EXCEPT ![t] = [@ EXCEPT !.refs = n, !.shown = b]]
    BY <2>2, <2>3, Zenon
  <2>5. page'[t].refs = n
    BY <1>2, <2>1, <2>4, Zenon
  <2> QED BY <1>1, <2>1, <2>5
<1>4. ASSUME page' = Unmasked(t), d.refs > 0, page'[t].shown PROVE page'[t].refs > 0
  <2>1. d.refs - 1 \in Nat
    BY <1>1, <1>4
  <2>2. PICK b : b = (d.shown /\ d.refs > 1)
    OBVIOUS
  <2>3. page' = [page EXCEPT ![t] = [@ EXCEPT !.refs = d.refs - 1, !.shown = b]]
    BY <1>4, <2>2, Zenon DEF Unmasked
  <2>4. page'[t].refs = d.refs - 1 /\ page'[t].shown = b
    BY <1>2, <2>1, <2>3, Zenon
  <2>5. d.refs > 1
    BY <1>4, <2>2, <2>4, Zenon
  <2> QED BY <1>1, <2>4, <2>5
<1> QED BY <1>3, <1>4

\* What the screenshots do to it.
LEMMA RestShots ==
  ASSUME RestTyped, DataTyped, NEW k \in Captures, Shot(k) \/ ShotStep(k)
  PROVE  RestTyped'
<1>0. TabOf[k] \in Tabs /\ page \in [Tabs -> Doc]
  BY TrustedSendAssumption, WorksKnown DEF DataTyped
<1>1. tries' = tries /\ load' = load /\ bare' = bare
  BY DEF Shot, ShotStep, AttachShot, MaskBegin, Shoot, Restore, KeepShot, sendVars
<1>2. mishaps' \in 0..MaxMishaps
  <2>1. mishaps' = mishaps \/ Fault
    BY DEF Shot, ShotStep, AttachShot, MaskBegin, Shoot, Restore, NoMask
  <2> QED BY <2>1, TrustedSendAssumption DEF Fault, RestTyped
<1>3. \/ page' \in {page, Masked(TabOf[k])} \cup Forced(TabOf[k])
      \/ Restored(k) /\ page' = Unmasked(TabOf[k])
  BY DEF Shot, ShotStep, AttachShot, MaskBegin, Shoot, Restore, NoMask, Forced
<1>4. ASSUME NEW t \in Tabs PROVE page'[t].shown => page'[t].refs > 0
  <2>1. page[t].shown => page[t].refs > 0
    BY DEF RestTyped
  <2>2. page[t] \in Doc
    BY <1>0
  <2>3. CASE t # TabOf[k]
    <3>1. ShotLocal(k)
      BY ShotsLocal
    <3>2. page'[t] = page[t]
      BY <3>1, <2>3 DEF ShotLocal
    <3> QED BY <3>2, <2>1
  <2>4. CASE t = TabOf[k]
    <3>1. CASE page' = page
      BY <3>1, <2>1, Zenon
    <3>2. CASE page' = Masked(t)
      BY <1>0, <3>2, MaskSeen
    <3>3. CASE page' = [page EXCEPT ![t].shown = FALSE]
      <4>1. page'[t].shown = FALSE
        BY <1>0, <2>2, <3>3 DEF Doc
      <4> QED BY <4>1, Zenon
    <3>4. CASE Restored(k) /\ page' = Unmasked(t)
      BY <1>0, <2>4, <3>4, MaskSeen DEF Restored
    <3> QED BY <1>3, <2>4, <3>1, <3>2, <3>3, <3>4 DEF Forced
  <2> QED BY <2>3, <2>4
<1>5. wrong' = wrong
  BY DEF Shot, ShotStep, AttachShot, MaskBegin, Shoot, Restore, KeepShot, sendVars
<1>6. leaked' = leaked \/ leaked' \in BOOLEAN
  <2>1. leaked' = leaked \/ \E g, t : Give(g, t)
    BY DEF Shot, ShotStep, AttachShot, MaskBegin, Shoot, Restore, NoMask, EndShot, shotVars
  <2>2. ASSUME NEW g, NEW t, Give(g, t) PROVE leaked' \in BOOLEAN
    <3>1. leaked' = (leaked \/ ~g.masked \/ g.tab # t)
      BY <2>2 DEF Give
    <3> QED BY <3>1, Zenon
  <2> QED BY <2>1, <2>2
<1> QED BY <1>1, <1>2, <1>4, <1>5, <1>6 DEF RestTyped

\* Every step of the system keeps it.
LEMMA RestNext == RestTyped /\ DataTyped /\ DbgInv /\ [Next]_vars => RestTyped'
<1> SUFFICES ASSUME RestTyped, DataTyped, DbgInv, [Next]_vars PROVE RestTyped'
  OBVIOUS
<1>1. CASE UNCHANGED vars
  BY <1>1 DEF vars, pageVars, sendVars, shotVars, RestTyped
<1>2. ASSUME NEW t \in Tabs, UserActs(t) PROVE RestTyped'
  <2>1. \A u \in Tabs : Mask(page'[u]) = Mask(page[u]) \/ Mask(page'[u]) = <<0, FALSE>>
    BY <1>2, UserLocal
  <2>2. \A u \in Tabs : page'[u].shown => page'[u].refs > 0
    BY <2>1 DEF Mask, RestTyped
  <2>3. load' \subseteq load /\ mishaps' \in 0..MaxMishaps
    BY <1>2, TrustedSendAssumption DEF UserActs, Change, Fault, RestTyped
  <2> QED BY <1>2, <2>2, <2>3 DEF UserActs, shotVars, RestTyped
<1>3. ASSUME NEW t \in Tabs, Processed(t) \/ MaskExpires(t) PROVE RestTyped'
  <2>1. \A u \in Tabs : Mask(page'[u]) = Mask(page[u]) \/ Mask(page'[u]) = <<0, FALSE>>
    BY <1>3, PageSteps
  <2>2. \A u \in Tabs : page'[u].shown => page'[u].refs > 0
    BY <2>1 DEF Mask, RestTyped
  <2> QED BY <1>3, <2>2 DEF Processed, MaskExpires, sendVars, shotVars, RestTyped
<1>4. ASSUME NEW s \in Sends, TransferExpires(s) PROVE RestTyped'
  BY <1>4 DEF TransferExpires, sendVars, shotVars, RestTyped
<1>5. ASSUME NEW s \in Sends, Call(s) PROVE RestTyped'
  <2>1. tries' = [tries EXCEPT ![s] = @ + 1] /\ tries[s] < MaxTries[s] /\ MaxTries[s] \in Nat
    BY <1>5, TrustedSendAssumption DEF Call
  <2>2. tries' \in [Sends -> Nat] /\ \A x \in Sends : tries'[x] \in 0..MaxTries[x]
    BY <2>1 DEF RestTyped
  <2> QED BY <1>5, <2>2 DEF Call, pageVars, shotVars, RestTyped
<1>6. ASSUME NEW s \in Sends, GiveUp(s) PROVE RestTyped'
  BY <1>6, TrustedSendAssumption DEF GiveUp, Fault, pageVars, shotVars, RestTyped
<1> QED BY <1>1, <1>2, <1>3, <1>4, <1>5, <1>6, RestSteps, RestShots DEF Next

\* The initial states.
LEMMA InitRest == Init => RestTyped /\ QueueInv
<1> SUFFICES ASSUME Init PROVE RestTyped /\ QueueInv
  OBVIOUS
<1>1. RestTyped
  <2>1. wrong \in BOOLEAN /\ leaked \in BOOLEAN
    BY Zenon DEF Init
  <2>2. \A t \in Tabs : page[t].shown => page[t].refs > 0
    BY DEF Init, Fresh
  <2> QED BY <2>1, <2>2, TrustedSendAssumption DEF Init, RestTyped
<1>2. QueueInv
  BY DEF Init, QueueInv, IsInjective, ToSet
<1> QED BY <1>1, <1>2

\* The variables of the worker, the driver and the pages have their types in every
\* reachable state: among them, no command holds two slots of the activation queue
\* and none is left behind in it (Append in Enqueue, RemoveFirst in End and Handover),
\* and a mask that is shown is referenced.
THEOREM SendTypes == Spec => []TypeOK
<1>1. ViewInv /\ ClickInv /\ DbgInv /\ DataTyped /\ ShotInv /\ QueueInv /\ RestTyped => TypeOK
  <2> SUFFICES ASSUME ViewInv, ClickInv, DbgInv, DataTyped, ShotInv, QueueInv, RestTyped PROVE TypeOK
    OBVIOUS
  <2>1. ASSUME NEW t \in Tabs
        PROVE  /\ page[t].url \in {Here, There}
               /\ page[t].text \in Sends \cup {Foreign, None}
               /\ page[t].file \subseteq Files \cup {Foreign} /\ page[t].busy \in BOOLEAN
               /\ page[t].refs \in Nat /\ page[t].shown \in BOOLEAN
               /\ page[t].shown => page[t].refs > 0
               /\ dtail[t] \in Works \cup {None} /\ attached[t] \in Works \cup {None}
               /\ sent[t] \subseteq [text : Sends \cup {Foreign, None},
                                    file : SUBSET (Files \cup {Foreign})]
    <3>1. page[t] \in Doc
      BY DEF DataTyped
    <3>2. sent[t] \subseteq [text : Texts, file : SUBSET Chips]
      BY DEF DataTyped
    <3> QED BY <3>1, <3>2 DEF Doc, Texts, Chips, RestTyped, DbgInv, DbgTyped
  <2>2. ToSet(act) \subseteq Sends /\ IsInjective(act)
    BY DEF QueueInv, ToSet
  <2>3. \A w \in Works : dprev[w] \in Works \cup {None}
    BY DEF DbgInv, DbgTyped
  <2>4. ASSUME NEW s \in Sends
        PROVE  /\ pc[s] \in SendPCs
               /\ changed[s] \in BOOLEAN
               /\ res[s] \in {"waiting", "ok", "refused", "uncertain"}
               /\ tries[s] \in 0..MaxTries[s] /\ presses[s] \in Nat
    BY DEF ClickInv, Shape, Results, DataTyped, RestTyped
  <2>5. ASSUME NEW k \in Captures
        PROVE  /\ pc[k] \in {"idle", "wait", "mask", "shoot", "restore"}
               /\ mode[k] \in {"click", "command"} /\ image[k] \in Image \cup {None}
    BY DEF ClickInv, Shape, ShotPCs, DataTyped
  <2>6. load \subseteq Files /\ bare \subseteq Files /\ mishaps \in 0..MaxMishaps
    BY DEF RestTyped
  <2>7. {wrong, leaked} \subseteq BOOLEAN
    BY DEF RestTyped
  <2> QED BY <2>1, <2>2, <2>3, <2>4, <2>5, <2>6, <2>7 DEF TypeOK
<1>2. Init => ShotInv /\ DataTyped /\ DbgInv /\ QueueInv /\ RestTyped
  BY InitData, InitDbg, InitRest
<1>3. ShotInv /\ DataTyped /\ DbgInv /\ QueueInv /\ RestTyped /\ [Next]_vars
        => (ShotInv /\ DataTyped /\ DbgInv /\ QueueInv /\ RestTyped)'
  BY ShotNext, DataNext, DbgNext, QueueNext, RestNext
<1>4. Spec => [](ShotInv /\ DataTyped /\ DbgInv /\ QueueInv /\ RestTyped)
  BY <1>2, <1>3, PTL DEF Spec
<1> QED BY <1>1, <1>4, ViewsKept, PTL
==============================================================================
