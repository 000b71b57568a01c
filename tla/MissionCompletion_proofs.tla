---------------------- MODULE MissionCompletion_proofs -----------------------
(***************************************************************************)
(* Proof that a mission of MissionLoop is completed only with the evidence *)
(* default_trace_validator asks for, as long as it has one loop.           *)
(*                                                                         *)
(* The argument: every tool that was started is either recorded, or still  *)
(* runs in a task, or was lost with the process.  While it runs the state  *)
(* is EXECUTING_LOCAL_ACTION, so a process that is lost then leaves a      *)
(* pause no resume accepts.  When the one loop of the mission decides to   *)
(* complete, it runs no tool: all that was started is recorded, and what   *)
(* is recorded was validated.  Afterwards no task is left to change that.  *)
(***************************************************************************)
EXTENDS MissionTasks_proofs

Executing(t) == task[t].pc = "executing"
Started(a) == \E i \in 1..Len(ran) : ran[i] = a

\* What was started is recorded, or runs.
Accounted ==
  \A i \in 1..Len(ran) :
    ran[i] \in db.executed \/ \E t \in Tasks : Executing(t) /\ task[t].act = ran[i]

\* The process was lost in a state no resume goes on from.
Stranded == st \in Stalled /\ from \in RuntimeBound /\ rt = 0 /\ \A t \in Tasks : ~Live(t)

\* What runs or is recorded was started, what is validated was recorded.
Recorded ==
  /\ \A a \in db.executed : Started(a)
  /\ \A t \in Tasks : Executing(t) => Started(task[t].act)
  /\ db.validated \subseteq db.executed

\* While a tool runs the mission is in its state, or over.
ToolState == \A t \in Tasks : Executing(t) => st = "EXECUTING_LOCAL_ACTION" \/ st \in Terminal

\* A completed mission has no loop, and none to come.
NoLoopLeft == st = "COMPLETED" => \A t \in Tasks : task[t].pc \in {"unborn", "after", "closing", "done"}

\* The inductive invariant, next to IInv, TInv and OneLoop.
HInv ==
  /\ Recorded /\ CompletedHonest
  /\ ~overlap => ToolState /\ NoLoopLeft /\ (Accounted \/ Stranded \/ st \in Terminal)

Order == IInv /\ TInv /\ OneLoop
-----------------------------------------------------------------------------
(* The steps of a task at work, as the tools see them.                     *)

\* No tool starts or ends.
Plain(t) ==
  /\ ~Executing(t) /\ task'[t].pc # "executing"
  /\ ran' = ran /\ db'.executed = db.executed /\ db'.validated = db.validated

\* A coordinator or a task about to close touches nothing but itself.
Aside(t) == task[t].pc \in {"after", "closing"} => UNCHANGED <<st, db, ran>> /\ Plain(t)

\* A tool starts.
Starts(t) ==
  /\ ~Executing(t) /\ task'[t].pc = "executing" /\ st' = "EXECUTING_LOCAL_ACTION"
  /\ ran' = Append(ran, task'[t].act)
  /\ db'.executed = db.executed /\ db'.validated = db.validated

\* A tool ends, and is recorded.
Ends(t) ==
  /\ Executing(t) /\ task'[t].pc # "executing" /\ ran' = ran
  /\ db'.executed = db.executed \cup {task[t].act}
  /\ db'.validated \subseteq db.validated \cup {task[t].act} /\ db.validated \subseteq db'.validated

\* The mission completes, on the evidence of the tables.
Completes(t) ==
  /\ EvidenceComplete /\ db'.denied = db.denied /\ st \notin Terminal
  /\ task[t].pc = "have" /\ task'[t].pc \in {"closing", "done"} /\ Plain(t)

ToolStep(t) ==
  /\ Works(t) /\ Aside(t)
  /\ Plain(t) \/ Starts(t) \/ Ends(t)
  /\ st' = "COMPLETED" => st = "COMPLETED" \/ Completes(t)

\* A task at work that is neither a coordinator nor closing is the only one, and
\* nobody is attaching.
LEMMA Alone ==
  ASSUME Order, ~overlap, st \notin Terminal, NEW t \in Tasks, Works(t),
         task[t].pc \notin {"after", "closing"}
  PROVE  \A u \in Tasks : u # t => task[u].pc \in {"unborn", "after", "closing", "done"}
<1>1. Drives(t) /\ Live(t)
  BY DEF Works, Drives, Live
<1>2. ASSUME NEW u \in Tasks, u # t, task[u].pc = "attach" PROVE FALSE
  BY <1>1, <1>2 DEF Order, TInv, Newest, Live
<1> QED BY <1>1, <1>2 DEF Order, OneLoop, Drives

\* Such a step keeps what is said of the tools.
LEMMA ToolStepKeeps ==
  ASSUME Order, HInv, NEW t \in Tasks, ToolStep(t)
  PROVE  HInv'
<1>0. /\ overlap' = overlap /\ rt' = rt /\ \A u \in Tasks : u # t => task'[u] = task[u]
      /\ st \in Terminal => st' \in Terminal
  BY DEF ToolStep, Works
<1>1. ran \in Seq(Replies) /\ task'[t].pc # "attach"
  BY DEF Order, IInv, TypeOK, ToolStep, Works
<1>2. \A a : Started(a) => Started(a)'
  <2>1. CASE ran' = ran
    BY <2>1 DEF Started
  <2>2. CASE \E b : ran' = Append(ran, b)
    BY <1>1, <2>2 DEF Started
  <2> QED BY <2>1, <2>2 DEF ToolStep, Plain, Starts, Ends
<1>3. Starts(t) => Started(task[t].act)'
  <2> SUFFICES ASSUME Starts(t) PROVE \E i \in 1..Len(ran') : ran'[i] = task'[t].act
    BY DEF Started
  <2>1. Len(ran') = Len(ran) + 1 /\ ran'[Len(ran) + 1] = task'[t].act /\ Len(ran) \in Nat
    BY <1>1 DEF Starts
  <2> QED BY <2>1
<1>4. Recorded'
  <2>1. Recorded
    BY DEF HInv
  <2>2. ASSUME NEW a \in db'.executed PROVE Started(a)'
    BY <1>2, <2>1, <2>2 DEF ToolStep, Plain, Starts, Ends, Recorded
  <2>3. ASSUME NEW u \in Tasks, Executing(u)' PROVE Started(task[u].act)'
    BY <1>0, <1>2, <1>3, <2>1, <2>3 DEF ToolStep, Plain, Ends, Starts, Recorded, Executing
  <2>4. db'.validated \subseteq db'.executed
    BY <2>1 DEF ToolStep, Plain, Starts, Ends, Recorded
  <2> QED BY <2>2, <2>3, <2>4 DEF Recorded
<1>5. ASSUME ~overlap', st \in Terminal
      PROVE  ToolState' /\ NoLoopLeft' /\ CompletedHonest'
  <2>1. st' \in Terminal /\ (st' = "COMPLETED" => st = "COMPLETED")
    BY <1>0, <1>5 DEF ToolStep, Completes
  <2>2. ASSUME st = "COMPLETED"
        PROVE  task'[t].pc \in {"closing", "done"} /\ UNCHANGED <<db, ran>>
    <3>1. task[t].pc \in {"after", "closing"}
      BY <1>0, <1>5, <2>2 DEF HInv, NoLoopLeft, ToolStep, Works
    <3> QED BY <2>1, <3>1 DEF ToolStep, Works, Aside
  <2>3. NoLoopLeft'
    BY <1>0, <1>5, <2>1, <2>2 DEF HInv, NoLoopLeft
  <2>4. CompletedHonest'
    BY <1>0, <1>5, <2>1, <2>2 DEF HInv, CompletedHonest
  <2> QED BY <2>1, <2>3, <2>4 DEF ToolState
<1>6. ASSUME ~overlap', st \notin Terminal, task[t].pc \in {"after", "closing"}
      PROVE  ToolState' /\ NoLoopLeft' /\ Accounted' /\ CompletedHonest'
  <2>1. UNCHANGED <<st, db, ran>> /\ Plain(t)
    BY <1>6 DEF ToolStep, Aside
  <2>2. \A u \in Tasks : Executing(u)' <=> Executing(u)
    BY <1>0, <2>1 DEF Plain, Executing
  <2>3. \A u \in Tasks : Executing(u)' => task'[u] = task[u]
    BY <1>0, <2>1 DEF Plain, Executing
  <2>4. ToolState /\ Accounted
    BY <1>0, <1>6 DEF HInv, Stranded, ToolStep, Works, Live
  <2>5. ToolState' /\ Accounted'
    BY <2>1, <2>2, <2>3, <2>4 DEF ToolState, Accounted
  <2> QED BY <1>6, <2>1, <2>5 DEF NoLoopLeft, CompletedHonest, Terminal
<1>7. ASSUME ~overlap', st \notin Terminal, task[t].pc \notin {"after", "closing"}
      PROVE  ToolState' /\ NoLoopLeft' /\ Accounted' /\ CompletedHonest'
  <2>1. \A u \in Tasks : u # t => task[u].pc \in {"unborn", "after", "closing", "done"}
    BY <1>0, <1>7, Alone DEF ToolStep
  <2>2. \A u \in Tasks : u # t => ~Executing(u) /\ task'[u] = task[u]
    BY <1>0, <2>1 DEF Executing
  <2>3. Accounted
    BY <1>0, <1>7 DEF HInv, Stranded, ToolStep, Works, Live
  <2>4. ASSUME ~Executing(t) PROVE \A i \in 1..Len(ran) : ran[i] \in db.executed
    BY <2>2, <2>3, <2>4 DEF Accounted
  <2>5. ToolState'
    BY <2>2 DEF ToolState, ToolStep, Plain, Starts, Ends, Executing
  <2>6. NoLoopLeft'
    BY <1>7, <2>1, <2>2 DEF NoLoopLeft, ToolStep, Completes, Terminal
  <2>7. Accounted'
    <3>1. CASE Plain(t)
      BY <2>4, <3>1 DEF Plain, Accounted
    <3>2. CASE Starts(t)
      <4>1. ASSUME NEW i \in 1..Len(ran')
            PROVE  ran'[i] \in db'.executed \/ (task'[t].pc = "executing" /\ task'[t].act = ran'[i])
        <5>1. i \in 1..Len(ran) \/ i = Len(ran) + 1
          BY <1>1, <3>2, <4>1 DEF Starts
        <5>2. CASE i \in 1..Len(ran)
          BY <1>1, <2>4, <3>2, <5>2 DEF Starts
        <5>3. CASE i = Len(ran) + 1
          BY <1>1, <3>2, <5>3 DEF Starts
        <5> QED BY <5>1, <5>2, <5>3
      <4> QED BY <4>1 DEF Accounted, Executing
    <3>3. CASE Ends(t)
      BY <2>2, <2>3, <3>3 DEF Ends, Accounted
    <3> QED BY <3>1, <3>2, <3>3 DEF ToolStep
  <2>8. CompletedHonest'
    <3> SUFFICES ASSUME st' = "COMPLETED"
                 PROVE  /\ ran' # <<>> /\ \A i \in 1..Len(ran') : ran'[i] \in db'.validated
                        /\ db'.denied = {}
      BY DEF CompletedHonest
    <3>1. Completes(t)
      BY <1>7 DEF ToolStep, Terminal
    <3>2. ran' = ran /\ db'.validated = db.validated /\ db'.denied = {}
          /\ db.validated # {} /\ db.executed \subseteq db.validated /\ ~Executing(t)
      BY <3>1 DEF Completes, Plain, EvidenceComplete
    <3>3. PICK a : a \in db.executed
      BY <3>2 DEF HInv, Recorded
    <3>4. ran # <<>>
      BY <1>1, <3>3 DEF HInv, Recorded, Started
    <3> QED BY <2>4, <3>2, <3>4
  <2> QED BY <2>5, <2>6, <2>7, <2>8
<1> QED BY <1>0, <1>4, <1>5, <1>6, <1>7 DEF HInv, CompletedHonest
-----------------------------------------------------------------------------
(* One lemma per kind of step.                                             *)

\* The mission is not completed by this step.
NotCompleted == st' = "COMPLETED" => st = "COMPLETED"

\* _fail_mission and the transitions that may be ignored complete nothing.
LEMMA FailNotCompleted == FailMission => NotCompleted
BY DEF FailMission, GoIfAllowed, Go, NotCompleted

LEMMA PauseNotCompleted == GoIfAllowed("PAUSED") \/ GoIfAllowed("CANCELLED") => NotCompleted
BY DEF GoIfAllowed, Go, NotCompleted

\* A step of the mission, or the crash in its place, leaves the target or a
\* frame that is over.
LEMMA StepNotCompleted ==
  ASSUME NEW t \in Tasks, NEW target, target # "COMPLETED", NEW f, Step(t, target, f)
  PROVE  NotCompleted
BY FailNotCompleted DEF Step, Crash, Go, NotCompleted

\* A loop that ends runs no tool.
LEMMA EndIdle ==
  ASSUME IInv, NEW t \in Tasks, End(t)
  PROVE  task'[t].pc \in {"closing", "done"}
BY FrameFacts DEF End, Ended, Fresh

\* A step at another point than a tool's, an approval's or a decision's.
LEMMA PlainStep ==
  ASSUME Order, NEW t \in Tasks, Works(t), NotCompleted, ~Executing(t), task'[t].pc # "executing",
         ran' = ran, db'.executed = db.executed, db'.validated = db.validated,
         task[t].pc \in {"after", "closing"} => UNCHANGED <<st, db>>
  PROVE  ToolStep(t)
BY DEF ToolStep, Plain, Aside, NotCompleted

\* The head of a cycle, the selection, a transport error, the close.
LEMMA LoopTools ==
  ASSUME Order, NEW t \in Tasks,
         HeadStops(t) \/ HeadGoesOn(t) \/ Selected(t) \/ TransportFails(t) \/ Close(t)
  PROVE  ToolStep(t)
<1>1. Works(t)
  BY HeadWorks, SelectedWorks, TransportFailsWorks, CloseWorks DEF Order
<1>2. ~Executing(t) /\ UNCHANGED <<ran, db>>
  BY DEF HeadStops, HeadGoesOn, Selected, TransportFails, Close, At, Executing, history
<1>3. NotCompleted
  BY PauseNotCompleted DEF HeadStops, HeadGoesOn, Selected, TransportFails, Close, Go, NotCompleted, mission
<1>4. task'[t].pc # "executing"
  <2>1. CASE End(t)
    BY <2>1, EndIdle DEF Order
  <2>2. CASE HeadGoesOn(t)
    <3> DEFINE p == IF task[t].rep # 0 THEN "have"
                    ELSE IF task[t].pending = None THEN "awaiting" ELSE "next"
    <3>1. task' = [task EXCEPT ![t].pc = p] /\ p # "executing"
      BY <2>2 DEF HeadGoesOn
    <3> HIDE DEF p
    <3> QED BY <3>1, FrameFacts DEF Order, Frame
  <2>3. CASE Selected(t) \/ Close(t)
    BY <2>3, FrameFacts DEF Order, Selected, Close, Frame, Ended, Fresh
  <2> QED BY <2>1, <2>2, <2>3 DEF HeadStops, TransportFails
<1>5. task[t].pc \in {"after", "closing"} => UNCHANGED <<st, db>>
  BY DEF HeadStops, HeadGoesOn, Selected, TransportFails, Close, At, mission
<1> QED BY <1>1, <1>2, <1>3, <1>4, <1>5, PlainStep

\* The outbound message and the reply.
LEMMA MessageTools ==
  ASSUME Order, NEW t \in Tasks, Reserve(t) \/ Confirm(t) \/ Abort(t) \/ Receive(t)
  PROVE  ToolStep(t)
<1>1. Works(t)
  BY SendingWorks, ReceiveWorks DEF Order
<1>2. ~Executing(t) /\ task[t].pc \notin {"after", "closing"} /\ ran' = ran
  BY DEF Reserve, Confirm, Abort, Receive, At, Executing, history
<1>3. db'.executed = db.executed /\ db'.validated = db.validated
  <2>1. db \in DB
    BY DEF Order, IInv, TypeOK
  <2> QED BY <2>1 DEF Reserve, Confirm, Abort, Receive, DB
<1>4. NotCompleted
  BY PauseNotCompleted DEF Reserve, Confirm, Abort, Receive, NotCompleted, mission
<1>5. task'[t].pc # "executing"
  <2>1. CASE End(t)
    BY <2>1, EndIdle DEF Order
  <2>2. CASE Confirm(t) \/ (Reserve(t) /\ MayReserve(task[t].pending))
    BY <2>2, FrameFacts DEF Order, Confirm, Reserve, Frame
  <2>3. CASE Receive(t)
    <3>1. task'[t] = [task[t] EXCEPT !.pc = "have", !.rep = replies]
      BY <2>3, FrameFacts DEF Order, Receive
    <3> QED BY <3>1, FrameFacts DEF Order, Frame
  <2> QED BY <2>1, <2>2, <2>3 DEF Reserve, Abort
<1> QED BY <1>1, <1>2, <1>3, <1>4, <1>5, PlainStep

\* The resume task and the coordinator.
LEMMA ResumeTools ==
  ASSUME Order, NEW t \in Tasks, Reconcile(t) \/ Prove(t) \/ Rebuild(t) \/ Recover(t) \/ After(t)
  PROVE  ToolStep(t)
<1>1. Works(t)
  BY ResumeWorks, AfterWorks DEF Order
<1>2. task'[t].pc # "executing"
  <2>1. CASE End(t)
    BY <2>1, EndIdle DEF Order
  <2>2. CASE After(t) /\ ~End(t)
    BY <2>2, FrameFacts DEF Order, After, Frame
  <2>3. CASE ~After(t)
    BY <2>3, ResumePoints DEF Order
  <2> QED BY <2>1, <2>2, <2>3
<1>3. ~Executing(t) /\ ran' = ran /\ NotCompleted
  BY DEF Reconcile, Prove, Rebuild, Recover, After, At, Executing, history, mission, NotCompleted
<1>4. db'.executed = db.executed /\ db'.validated = db.validated
  <2>1. db \in DB
    BY DEF Order, IInv, TypeOK
  <2> QED BY <2>1 DEF Reconcile, Prove, Rebuild, Recover, After, DB
<1>5. task[t].pc \in {"after", "closing"} => UNCHANGED <<st, db>>
  BY DEF Reconcile, Prove, Rebuild, Recover, After, At, mission
<1> QED BY <1>1, <1>2, <1>3, <1>4, <1>5, PlainStep

\* A reply that is no valid decision.
LEMMA ReplyTools ==
  ASSUME Order, NEW t \in Tasks, ReplyTooLate(t) \/ ReplyCollides(t) \/ DuplicateReply(t) \/ Violation(t)
  PROVE  ToolStep(t)
<1>1. Works(t)
  BY ReplyWorks DEF Order
<1>2. ~Executing(t) /\ task[t].pc \notin {"after", "closing"} /\ ran' = ran
  BY DEF ReplyTooLate, ReplyCollides, DuplicateReply, Violation, Parsing, At, Executing, history
<1>3. db'.executed = db.executed /\ db'.validated = db.validated
  <2>1. db \in DB
    BY DEF Order, IInv, TypeOK
  <2> QED BY <2>1 DEF ReplyTooLate, ReplyCollides, DuplicateReply, Violation, DB
<1>4. NotCompleted
  BY FailNotCompleted DEF ReplyTooLate, ReplyCollides, DuplicateReply, Violation, Crash, Go,
     NotCompleted, mission
<1>5. task'[t].pc # "executing"
  <2>1. CASE End(t)
    BY <2>1, EndIdle DEF Order
  <2>2. CASE DuplicateReply(t)
    BY <2>2, FrameFacts DEF Order, DuplicateReply, Frame
  <2>3. CASE Violation(t) /\ ~End(t)
    <3>1. PICK k, c : task' = [task EXCEPT ![t] = [@ EXCEPT !.pc = "head", !.rep = 0,
                                                            !.viol = task[t].viol + 1,
                                                            !.credits = task[t].credits + c,
                                                            !.pending = Correction(k)]]
      BY <2>3 DEF Violation
    <3>2. task'[t] = [task[t] EXCEPT !.pc = "head", !.rep = 0, !.viol = @ + 1,
                                     !.credits = @ + c, !.pending = Correction(k)]
      BY <3>1, FrameFacts DEF Order
    <3> QED BY <3>2, FrameFacts DEF Order, Frame
  <2> QED BY <2>1, <2>2, <2>3 DEF ReplyTooLate, ReplyCollides, Crash
<1> QED BY <1>1, <1>2, <1>3, <1>4, <1>5, PlainStep

\* A valid decision: it may start a tool or complete the mission.
LEMMA DecideTools == ASSUME Order, NEW t \in Tasks, DecideAny(t) PROVE ToolStep(t)
<1> PICK a, i : Decide(t, a, i) \/ RecordCollides(t, a, i)
  BY DEF DecideAny
<1>1. Works(t)
  BY DecideWorks DEF Order
<1>2. ~Executing(t) /\ task[t].pc = "have" /\ st \notin Terminal
  BY DEF Decide, RecordCollides, Valid, Parsing, At, Executing
<1>3. db'.executed = db.executed /\ db'.validated = db.validated /\ db'.denied = db.denied
  <2>1. db \in DB
    BY DEF Order, IInv, TypeOK
  <2> QED BY <2>1 DEF Decide, RecordCollides, DB
<1>4. CASE RecordCollides(t, a, i)
  <2>1. ran' = ran /\ NotCompleted /\ End(t)
    BY <1>4 DEF RecordCollides, history, Go, NotCompleted
  <2> QED BY <1>1, <1>2, <1>3, <2>1, EndIdle, PlainStep DEF Order
<1>5. CASE Decide(t, a, i) /\ End(t) /\ ran' = ran
  <2>1. task'[t].pc \in {"closing", "done"}
    BY <1>5, EndIdle DEF Order
  <2>2. Plain(t)
    BY <1>2, <1>3, <1>5, <2>1 DEF Plain
  <2>3. EvidenceComplete \/ NotCompleted
    BY <1>5 DEF Decide, Go, NotCompleted
  <2> QED BY <1>1, <1>2, <1>3, <2>1, <2>2, <2>3 DEF ToolStep, Aside, Completes, NotCompleted
<1> DEFINE f == [task[t] EXCEPT !.rep = 0, !.sure = FALSE, !.viol = 0, !.credits = 0, !.act = a]
<1>6. f \in [pc : PCs, pending : Messages \cup {None}, rep : {0}, sure : BOOLEAN, act : {a},
             answer : {"none", "yes", "no"}, viol : {0}, credits : {0}, outer : BOOLEAN,
             rt : 0..MaxTasks, waits : 0..MaxTasks]
  BY FrameFacts DEF Order, Frame
<1> HIDE DEF f
<1>7. CASE task' = [task EXCEPT ![t] = [f EXCEPT !.pc = "reporting"]] /\ ran' = ran /\ NotCompleted
  <2>1. task'[t].pc = "reporting"
    BY <1>6, <1>7, FrameFacts DEF Order
  <2> QED BY <1>1, <1>2, <1>3, <1>7, <2>1, PlainStep
<1>8. CASE /\ task' = [task EXCEPT ![t] = [f EXCEPT !.pc = "approval", !.answer = "none"]]
           /\ ran' = ran /\ NotCompleted
  <2>1. task'[t].pc = "approval"
    BY <1>6, <1>8, FrameFacts DEF Order
  <2> QED BY <1>1, <1>2, <1>3, <1>8, <2>1, PlainStep
<1>9. CASE /\ task' = [task EXCEPT ![t] = [f EXCEPT !.pc = "executing"]]
           /\ ran' = Append(ran, a) /\ st' = "EXECUTING_LOCAL_ACTION"
  <2>1. task'[t].pc = "executing" /\ task'[t].act = a
    BY <1>6, <1>9, FrameFacts DEF Order
  <2>2. Starts(t)
    BY <1>2, <1>3, <1>9, <2>1 DEF Starts
  <2> QED BY <1>1, <1>2, <1>9, <2>2 DEF ToolStep, Aside
<1> QED BY <1>4, <1>5, <1>7, <1>8, <1>9 DEF Decide, Go, NotCompleted, f

\* An action is approved, refused, executed, reported, and the iteration ends.
LEMMA ActionTools ==
  ASSUME Order, NEW t \in Tasks,
         Approved(t) \/ Denied(t) \/ ToolEnds(t) \/ FileReport(t) \/ Replan(t) \/ Advance(t)
  PROVE  ToolStep(t)
<1>0. db \in DB /\ task[t] \in Frame
  BY FrameFacts DEF Order, IInv, TypeOK
<1>1. Works(t)
  BY ActionWorks, AdvanceWorks DEF Order
<1>2. CASE Approved(t)
  <2>1. ~Executing(t) /\ db' = db /\ task[t].pc = "approval" /\ NotCompleted
    BY <1>2, StepNotCompleted DEF Approved, At, Executing
  <2>2. CASE "EXECUTING_LOCAL_ACTION" \in Transitions(st)
    <3> DEFINE f == [task[t] EXCEPT !.pc = "executing", !.answer = "none"]
    <3>1. f.pc = "executing" /\ f.act = task[t].act
      BY <1>0 DEF Frame
    <3>2. task'[t] = f /\ ran' = Append(ran, task[t].act) /\ st' = "EXECUTING_LOCAL_ACTION"
      BY <1>2, <2>2, FrameFacts DEF Order, Approved, Step, Go
    <3>3. Starts(t)
      BY <2>1, <3>1, <3>2 DEF Starts
    <3> QED BY <1>1, <2>1, <3>2, <3>3 DEF ToolStep, Aside
  <2>3. CASE "EXECUTING_LOCAL_ACTION" \notin Transitions(st)
    <3>1. End(t) /\ ran' = ran
      BY <1>2, <2>3 DEF Approved, Step, Crash
    <3> QED BY <1>1, <2>1, <3>1, EndIdle, PlainStep DEF Order
  <2> QED BY <2>2, <2>3
<1>3. CASE Denied(t) \/ Advance(t)
  <2>1. /\ ~Executing(t) /\ task[t].pc \notin {"after", "closing"} /\ ran' = ran /\ NotCompleted
        /\ db'.executed = db.executed /\ db'.validated = db.validated
    BY <1>0, <1>3 DEF Denied, Advance, At, Executing, history, mission, Go, NotCompleted, DB
  <2>2. task'[t].pc # "executing"
    <3>1. CASE End(t)
      BY <3>1, EndIdle DEF Order
    <3>2. CASE Denied(t)
      <4>1. task'[t] = [task[t] EXCEPT !.pc = "reporting", !.answer = "none"]
        BY <3>2, FrameFacts DEF Order, Denied
      <4> QED BY <4>1, FrameFacts DEF Order, Frame
    <3>3. CASE Advance(t) /\ ~End(t)
      BY <1>0, <3>3, FrameFacts DEF Order, Advance, Frame
    <3> QED BY <1>3, <3>1, <3>2, <3>3
  <2> QED BY <1>1, <2>1, <2>2, PlainStep
<1>4. CASE FileReport(t) \/ Replan(t)
  <2>1. /\ ~Executing(t) /\ task[t].pc \notin {"after", "closing"} /\ ran' = ran
        /\ db'.executed = db.executed /\ db'.validated = db.validated
    BY <1>0, <1>4 DEF FileReport, Replan, At, Executing, history, DB
  <2> DEFINE f == [task[t] EXCEPT !.pc = "replanning", !.act = 0, !.pending = Report(task[t].act)]
             g == [task[t] EXCEPT !.pc = "advancing"]
  <2>2. f.pc = "replanning" /\ g.pc = "advancing"
    BY <1>0 DEF Frame
  <2>3. Step(t, "SENDING_REPORT", f) \/ Step(t, "REPLANNING", g)
    BY <1>4 DEF FileReport, Replan
  <2> HIDE DEF f, g
  <2>4. NotCompleted
    BY <2>3, StepNotCompleted
  <2>5. task'[t].pc # "executing"
    BY <2>2, <2>3, EndIdle, FrameFacts DEF Order, Step, Crash
  <2> QED BY <1>1, <2>1, <2>4, <2>5, PlainStep
<1>5. CASE ToolEnds(t)
  <2>1. Executing(t) /\ ran' = ran /\ task[t].pc = "executing"
    BY <1>5 DEF ToolEnds, At, Executing, history
  <2>2. /\ db'.executed = db.executed \cup {task[t].act}
        /\ db'.validated \subseteq db.validated \cup {task[t].act} /\ db.validated \subseteq db'.validated
    BY <1>0, <1>5 DEF ToolEnds, DB
  <2> DEFINE f == [task[t] EXCEPT !.pc = "reporting"]
  <2>3. f.pc = "reporting"
    BY <1>0 DEF Frame
  <2>4. Step(t, "VALIDATING_ACTION", f)
    BY <1>5 DEF ToolEnds
  <2> HIDE DEF f
  <2>5. NotCompleted /\ task'[t].pc # "executing"
    BY <2>3, <2>4, StepNotCompleted, EndIdle, FrameFacts DEF Order, Step, Crash
  <2>6. Ends(t)
    BY <2>1, <2>2, <2>5 DEF Ends
  <2> QED BY <1>1, <2>1, <2>5, <2>6 DEF ToolStep, Aside, NotCompleted
<1> QED BY <1>2, <1>3, <1>4, <1>5
-----------------------------------------------------------------------------
(* The steps that no task at work takes.                                   *)

\* Nothing happens to the tools, and no task but one that does not run them
\* changes.
LEMMA ToolsStay ==
  ASSUME HInv, UNCHANGED <<ran, db>>, overlap => overlap',
         \A t \in Tasks : task'[t].pc = "executing" <=> Executing(t),
         \A t \in Tasks : Executing(t) => task'[t] = task[t],
         ~overlap' => ToolState' /\ NoLoopLeft' /\ (Stranded => Stranded' \/ st' \in Terminal),
         st \in Terminal => st' \in Terminal,
         st' = "COMPLETED" => st = "COMPLETED"
  PROVE  HInv'
<1>1. Recorded'
  BY DEF HInv, Recorded, Started, Executing
<1>2. CompletedHonest'
  BY DEF HInv, CompletedHonest
<1>3. Accounted => Accounted'
  BY DEF Accounted, Executing
<1> QED BY <1>1, <1>2, <1>3 DEF HInv

\* No task changes, and the mission does not or is paused at a safe point.
LEMMA OutsideTools == ASSUME HInv, Pause \/ Land \/ Answer PROVE HInv'
<1>1. UNCHANGED <<task, ran, db, rt, overlap>>
  BY DEF Pause, Land, Answer, history
<1>2. UNCHANGED <<st, from>> \/ (st \in SafePause /\ st' = "PAUSED")
  BY DEF Pause, Land, Answer, mission, Go
<1>3. ASSUME ~overlap'
      PROVE  ToolState' /\ NoLoopLeft' /\ (Stranded => Stranded')
  BY <1>1, <1>2, <1>3 DEF HInv, ToolState, NoLoopLeft, Stranded, Executing, Live, SafePause,
     Stalled, Terminal
<1>4. (st \in Terminal => st' \in Terminal) /\ (st' = "COMPLETED" => st = "COMPLETED")
  BY <1>2 DEF SafePause, Terminal
<1> QED BY <1>1, <1>3, <1>4, ToolsStay DEF Executing

\* The answer to an approval changes the frame of the task that waits for it.
LEMMA ApproveTools ==
  ASSUME IInv, HInv, NEW a, NEW yes, Approve(a, yes)
  PROVE  HInv'
<1>1. PICK t \in Tasks : Matches(t, a) /\ task' = [task EXCEPT ![t].answer = IF yes THEN "yes" ELSE "no"]
  BY DEF Approve
<1>2. task'[t].pc = "approval" /\ task[t].pc = "approval" /\ \A u \in Tasks : u # t => task'[u] = task[u]
  BY <1>1, FrameFacts DEF Matches, Pending, Frame
<1>3. UNCHANGED <<st, from, db, rt, ran, overlap>> /\ st = "WAITING_FOR_APPROVAL"
  BY DEF Approve, mission
<1>4. ASSUME ~overlap' PROVE ToolState' /\ NoLoopLeft' /\ (Stranded => Stranded')
  BY <1>2, <1>3, <1>4 DEF HInv, ToolState, NoLoopLeft, Stranded, Executing, Stalled
<1> QED BY <1>2, <1>3, <1>4, ToolsStay DEF Executing

\* A new coordinator or a new attach: the mission has not ended, and was not
\* stranded.
LEMMA ResumesTools ==
  ASSUME IInv, HInv, NEW t \in Tasks, ResumeActive(t) \/ ResumeRebuild(t)
  PROVE  HInv'
<1>1. /\ UNCHANGED <<ran, db>> /\ (overlap => overlap') /\ st \in Stalled
      /\ st' = st \/ st' \in RunningStates
  <2>1. CASE ResumeActive(t)
    BY <2>1 DEF ResumeActive, history
  <2>2. CASE ResumeRebuild(t)
    BY <2>2 DEF ResumeRebuild, mission
  <2> QED BY <2>1, <2>2
<1>2. /\ task'[t].pc \in {"after", "attach"} /\ task[t].pc = "unborn"
      /\ \A u \in Tasks : u # t => task'[u] = task[u]
  BY FrameFacts DEF ResumeActive, ResumeRebuild, Newborn, Fresh
<1>3. ~Stranded /\ st \notin Terminal /\ st' \notin Terminal
  BY <1>1 DEF ResumeActive, ResumeRebuild, Stranded, Stalled, RunningStates, Terminal
<1>4. ASSUME ~overlap' PROVE ToolState' /\ NoLoopLeft'
  <2>1. \A u \in Tasks : ~Executing(u)
    BY <1>1, <1>3, <1>4 DEF HInv, ToolState, Stalled
  <2> QED BY <1>2, <1>3, <2>1 DEF ToolState, NoLoopLeft, Executing, Terminal
<1> QED BY <1>1, <1>2, <1>3, <1>4, ToolsStay DEF Executing, Terminal

\* The attach ends: no task that is alive runs a tool.
LEMMA AttachTools ==
  ASSUME Order, HInv, NEW t \in Tasks, AttachFails(t) \/ Attached(t)
  PROVE  HInv'
<1>0. st \in States
  BY DEF Order, IInv, TypeOK
<1>1. UNCHANGED <<ran, db, overlap>>
  BY DEF AttachFails, Attached, history
<1>2. task[t].pc = "attach" /\ \A u \in Tasks : u # t => task'[u] = task[u]
  BY FrameFacts DEF Order, AttachFails, Attached, At, End
<1>3. task'[t].pc \in {"closing", "done", "reconcile"}
  BY EndIdle, FrameFacts DEF Order, AttachFails, Attached, Frame
<1>4. st' \in Terminal \/ (st \in Stalled /\ st' = "WAITING_FOR_CHATGPT")
  BY <1>0, FailEnds DEF AttachFails, Attached, Terminal
<1>5. NotCompleted
  BY FailNotCompleted DEF AttachFails, Attached, NotCompleted
<1>6. st \in Terminal => st' \in Terminal
  BY <1>4 DEF Stalled, Terminal
<1>7. ASSUME ~overlap' PROVE ToolState' /\ NoLoopLeft' /\ ~Stranded
  <2>1. ~Stranded
    BY <1>2 DEF Stranded, Live
  <2>2. \A u \in Tasks : Executing(u) => st \notin Stalled
    BY <1>1, <1>7 DEF HInv, ToolState, Stalled, Terminal
  <2>3. ToolState'
    BY <1>2, <1>3, <1>4, <2>2 DEF ToolState, Executing
  <2>4. st # "COMPLETED"
    BY <1>1, <1>2, <1>7 DEF HInv, NoLoopLeft
  <2> QED BY <1>5, <2>1, <2>3, <2>4 DEF NoLoopLeft, NotCompleted
<1> QED BY <1>1, <1>2, <1>3, <1>5, <1>6, <1>7, ToolsStay DEF Executing, NotCompleted

\* What was started stays started when the tasks go.
LEMMA TasksGone ==
  ASSUME HInv, UNCHANGED <<ran, db, overlap>>,
         \A t \in Tasks : Executing(t)' => Executing(t) /\ task'[t].act = task[t].act
  PROVE  Recorded'
BY DEF HInv, Recorded, Started, Executing

\* The mission is cancelled, and some tasks with it.
LEMMA CancelTools == ASSUME IInv, HInv, Cancel PROVE HInv'
<1>1. UNCHANGED <<ran, db, overlap>> /\ st' \in Terminal /\ NotCompleted
  BY CancelEnds, PauseNotCompleted DEF Cancel, history, IInv, TypeOK
<1>2. ASSUME NEW u \in Tasks
      PROVE  /\ task'[u].pc \in {task[u].pc, "done"}
             /\ task'[u].pc # "done" => task'[u].act = task[u].act
  <2>1. task'[u] = task[u] \/ task'[u] = [task[u] EXCEPT !.answer = "no"] \/ task'[u] = Ended
    BY DEF Cancel
  <2> QED BY <2>1, FrameFacts DEF Ended, Fresh, Frame
<1>3. Recorded'
  BY <1>1, <1>2, TasksGone DEF Executing
<1>4. CompletedHonest'
  BY <1>1 DEF HInv, CompletedHonest, NotCompleted
<1>5. ASSUME ~overlap' PROVE ToolState' /\ NoLoopLeft'
  BY <1>1, <1>2, <1>5 DEF HInv, ToolState, NoLoopLeft, NotCompleted
<1> QED BY <1>1, <1>3, <1>4, <1>5 DEF HInv

\* The process is lost: a tool that ran leaves the mission stranded.
LEMMA RestartTools == ASSUME Order, HInv, Restart PROVE HInv'
<1>0. st \in States
  BY DEF Order, IInv, TypeOK
<1>1. UNCHANGED <<ran, db, overlap>> /\ rt' = 0
  BY DEF Restart, history
<1>2. \A u \in Tasks : task'[u].pc = "unborn"
  BY DEF Restart, Fresh
<1>3. \/ st \in RunningStates /\ st' = "PAUSED_RECOVERY_REQUIRED" /\ from' = st
      \/ st \notin RunningStates /\ UNCHANGED <<st, from>>
  BY DEF Restart, Go, Stalled
<1>4. NotCompleted /\ (st \in Terminal => st' \in Terminal)
  BY <1>3 DEF NotCompleted, RunningStates, Terminal
<1>5. Recorded' /\ CompletedHonest'
  BY <1>1, <1>2, <1>4, TasksGone DEF HInv, CompletedHonest, NotCompleted, Executing
<1>6. ASSUME ~overlap' PROVE (Accounted \/ Stranded \/ st \in Terminal)'
  <2>1. CASE Stranded \/ st \in Terminal
    BY <1>1, <1>2, <1>3, <1>4, <2>1 DEF Stranded, Live, Stalled, RunningStates
  <2>2. CASE Accounted /\ \A u \in Tasks : ~Executing(u)
    BY <1>1, <2>2 DEF Accounted
  <2>3. CASE st = "EXECUTING_LOCAL_ACTION"
    BY <1>1, <1>2, <1>3, <2>3 DEF Stranded, Live, Stalled, RunningStates, RuntimeBound
  <2> QED BY <1>1, <1>6, <2>1, <2>2, <2>3 DEF HInv, ToolState
<1>7. ToolState' /\ NoLoopLeft'
  BY <1>2 DEF ToolState, NoLoopLeft, Executing
<1> QED BY <1>5, <1>6, <1>7 DEF HInv
-----------------------------------------------------------------------------
(* What follows for every run.                                             *)

\* A mission that has just been created has started nothing.
LEMMA InitHInv == Init => HInv
<1> SUFFICES ASSUME Init PROVE HInv
  OBVIOUS
<1>1. \A u \in Tasks : ~Executing(u)
  BY DEF Init, Fresh, Executing
<1> QED BY <1>1 DEF Init, HInv, Recorded, CompletedHonest, ToolState, NoLoopLeft, Accounted

\* Every step keeps the account of the tools.
LEMMA HInvStep == Order /\ HInv /\ [Next]_vars => HInv'
<1> SUFFICES ASSUME Order, HInv, [Next]_vars PROVE HInv'
  OBVIOUS
<1>1. CASE UNCHANGED vars
  BY <1>1 DEF vars, mission, history, HInv, Recorded, Started, CompletedHonest, ToolState,
     NoLoopLeft, Accounted, Stranded, Executing, Live
<1>2. ASSUME NEW t \in Tasks, TaskStep(t) PROVE HInv'
  <2>1. CASE AttachFails(t) \/ Attached(t)
    BY <2>1, AttachTools
  <2>2. CASE ~AttachFails(t) /\ ~Attached(t)
    <3>1. ToolStep(t)
      BY <1>2, <2>2, LoopTools, MessageTools, ResumeTools, ReplyTools, DecideTools, ActionTools
         DEF TaskStep
    <3> QED BY <3>1, ToolStepKeeps
  <2> QED BY <2>1, <2>2
<1>3. ASSUME NEW t \in Tasks, ResumeActive(t) \/ ResumeRebuild(t) PROVE HInv'
  BY <1>3, ResumesTools DEF Order
<1>4. ASSUME NEW a \in Replies, NEW yes \in BOOLEAN, Approve(a, yes) PROVE HInv'
  BY <1>4, ApproveTools DEF Order
<1>5. CASE Pause \/ Cancel \/ Land \/ Answer \/ Restart
  BY <1>5, OutsideTools, CancelTools, RestartTools DEF Order
<1> QED BY <1>1, <1>2, <1>3, <1>4, <1>5 DEF Next

\* A mission is completed only when something was done, every tool that was ever
\* started passed its validation, and nothing was denied: unless two resumes
\* overlapped, however often it is paused, resumed, cancelled and its backend
\* killed.
THEOREM CompletionHonest == Spec => []CompletedHonest
<1>1. Order /\ HInv /\ [Next]_vars => HInv'
  BY HInvStep
<1>2. HInv => CompletedHonest
  BY DEF HInv
<1>3. Spec => []Order
  BY TaskOrder DEF Order
<1> QED BY <1>1, <1>2, <1>3, InitHInv, PTL DEF Spec
==============================================================================
