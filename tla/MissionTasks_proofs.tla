------------------------- MODULE MissionTasks_proofs -------------------------
(***************************************************************************)
(* Proofs about the tasks that share one mission of MissionLoop: while no  *)
(* resume was granted during the attach of another one, at most one task   *)
(* drives the loop of a mission that has not ended.                        *)
(*                                                                         *)
(* The argument: the tasks that are alive queue up.  Every one but the     *)
(* oldest is a coordinator that waits for an older one that is alive, with *)
(* none alive between them; the task of the current runtime is youngest.   *)
(* So a resume that finds it over finds every task over, one that finds it *)
(* alive lines up behind all of them, and a coordinator whose turn comes   *)
(* is alone.  An attaching task is alone, too, and no runtime has it yet:  *)
(* that is why a second resume at that time must be left out.              *)
(***************************************************************************)
EXTENDS MissionLoop_proofs

Live(t) == task[t].pc \notin {"unborn", "done"}

\* Of two tasks alive, the younger is a coordinator in line behind the older.
Queue ==
  \A t, u \in Tasks : Live(t) /\ Live(u) /\ t < u =>
    task[u].pc = "after" /\ t <= task[u].waits /\ Live(task[u].waits)

\* The current runtime has the youngest of them, or waits for its own attach.
Newest ==
  \A t \in Tasks : Live(t) =>
    /\ rt # 0
    /\ task[t].pc = "attach" => rt = t /\ rtm[t].task = 0 /\ \A u \in Tasks : Live(u) => u = t
    /\ task[t].pc # "attach" => t <= rtm[rt].task /\ Live(rtm[rt].task)

\* Tasks are born in the order of their names, each with a runtime to come; a
\* runtime knows no other.
Births ==
  /\ \A t, u \in Tasks : task[t].pc = "unborn" /\ t < u => task[u].pc = "unborn"
  /\ \A t \in Tasks : task[t].pc = "unborn" => rtm[t].task = 0
  /\ \A q \in Tasks, t \in Tasks : rtm[q].task = t => task[t].pc # "unborn"

\* Between its report and the next head a loop runs on without an await.
Points ==
  \A t \in Tasks :
    /\ task[t].pc = "replanning" => st = "SENDING_REPORT"
    /\ task[t].pc = "advancing" => st = "REPLANNING"

\* The inductive invariant, next to IInv.
TInv == Points /\ (~overlap /\ st \notin Terminal => Queue /\ Newest /\ Births)
-----------------------------------------------------------------------------
(* The mission does not leave a terminal state.                            *)

\* Nothing follows a terminal state; from any other the mission can be cancelled.
LEMMA TerminalLast ==
  /\ \A s \in Terminal : Transitions(s) = {}
  /\ \A s \in States \ Terminal : "CANCELLED" \in Transitions(s)
<1>1. ASSUME NEW s \in Terminal PROVE Transitions(s) = {}
  BY DEF Terminal, Transitions, Forward, Stalled, RunningStates
<1>2. ASSUME NEW s \in States \ Terminal PROVE "CANCELLED" \in Transitions(s)
  <2>1. CASE s \in RunningStates
    BY <2>1 DEF Transitions
  <2>2. CASE s \in Stalled
    BY <2>2 DEF Transitions, Forward, Stalled
  <2>3. CASE s \in {"IDLE", "SELECTING_CONVERSATION"}
    BY <2>3 DEF Transitions, Forward
  <2> QED BY <1>2, <2>1, <2>2, <2>3 DEF States
<1> QED BY <1>1, <1>2

\* A transition whose failure is ignored leaves a terminal state alone.
LEMMA AllowedStays ==
  ASSUME NEW target, GoIfAllowed(target), st \in Terminal
  PROVE  st' = st
BY TerminalLast DEF GoIfAllowed

\* cancel_mission ends the mission, whatever its state.
LEMMA CancelEnds ==
  ASSUME st \in States, GoIfAllowed("CANCELLED")
  PROVE  st' \in Terminal
BY TerminalLast DEF GoIfAllowed, Go, Terminal

\* So does _fail_mission.
LEMMA FailEnds ==
  ASSUME st \in States, FailMission
  PROVE  st' \in Terminal
BY CancelEnds DEF FailMission, Go, Terminal

-----------------------------------------------------------------------------
\* What a step of a task at work does to the tasks: it stays at work or ends,
\* and a coordinator moves only when the task it waits for is over.
Works(t) ==
  /\ \A u \in Tasks : u # t => task'[u] = task[u]
  /\ \A u \in Tasks : task[u].pc \in Busy => u = t
  /\ task[t].pc \notin {"unborn", "attach", "done"}
  /\ task[t].pc = "after" => ~Live(task[t].waits)
  /\ task'[t].pc \notin {"unborn", "attach", "after"}
  /\ task[t].pc \in {"after", "closing"} /\ st' \in Terminal => task'[t].pc \in {"closing", "done"}
  /\ rt' = rt /\ overlap' = overlap /\ \A r \in Tasks : rtm'[r].task = rtm[r].task
  /\ st \in Terminal => st' \in Terminal
  /\ task'[t].pc = "replanning" => st' = "SENDING_REPORT"
  /\ task'[t].pc = "advancing" => st' = "REPLANNING"

\* Such a step keeps the order of the tasks.
LEMMA WorksKeeps ==
  ASSUME IInv, TInv, NEW t \in Tasks, Works(t)
  PROVE  TInv'
<1> DEFINE Later(x) == task'[x].pc \notin {"unborn", "done"}
<1>1. Points'
  BY DEF TInv, Points, Works, Busy
<1>2. ASSUME ~overlap', st' \notin Terminal
      PROVE  Queue' /\ Newest' /\ Births'
  <2>1. Queue /\ Newest /\ Births
    BY <1>2 DEF TInv, Works
  <2>2. \A u \in Tasks : Later(u) => Live(u)
    BY DEF Live, Works
  <2>3. \A u \in Tasks : u # t /\ Live(u) => Later(u)
    BY DEF Live, Works
  <2>4. \A u \in Tasks : task[u].waits \in 0..MaxTasks
    BY FrameFacts DEF Frame
  <2>5. Live(t)
    BY DEF Live, Works
  <2>6. \A u \in Tasks : Live(u) => t <= u
    <3>1. ASSUME NEW u \in Tasks, Live(u), u < t PROVE FALSE
      BY <2>1, <2>5, <3>1 DEF Queue, Works
    <3> QED BY <3>1 DEF Tasks
  <2>7. ASSUME NEW x \in Tasks, NEW u \in Tasks, Later(x), Later(u), x < u
        PROVE  task'[u].pc = "after" /\ x <= task'[u].waits /\ Later(task[u].waits)
    <3>1. Live(x) /\ Live(u) /\ t <= x
      BY <2>2, <2>6, <2>7
    <3>2. u # t
      BY <2>7, <3>1 DEF Tasks
    <3>3. task[u].pc = "after" /\ x <= task[u].waits /\ Live(task[u].waits)
      BY <2>1, <2>7, <3>1 DEF Queue
    <3>4. task[u].waits \in Tasks
      BY <2>4, <3>3 DEF Tasks
    <3>5. Later(task[u].waits)
      <4>1. CASE task[u].waits # t
        BY <2>3, <3>3, <3>4, <4>1
      <4>2. CASE task[u].waits = t
        <5>1. x = t
          BY <3>1, <3>3, <4>2 DEF Tasks
        <5> QED BY <2>7, <4>2, <5>1
      <4> QED BY <4>1, <4>2
    <3> QED BY <3>2, <3>3, <3>5 DEF Works
  <2>8. Queue'
    BY <2>7, <2>2, <2>6 DEF Queue, Works, Live, Tasks
  <2>9. Newest'
    <3> SUFFICES ASSUME NEW x \in Tasks, Later(x)
                 PROVE  /\ rt' # 0
                        /\ task'[x].pc = "attach" => FALSE
                        /\ x <= rtm'[rt].task /\ Later(rtm'[rt].task)
      BY DEF Newest, Works, Live
    <3>1. Live(x) /\ task[x].pc # "attach"
      BY <2>1, <2>2, <2>5 DEF Newest, Works
    <3>2. rt # 0 /\ x <= rtm[rt].task /\ Live(rtm[rt].task)
      BY <2>1, <3>1 DEF Newest
    <3>3. rt \in Tasks /\ rtm[rt].task \in Tasks
      <4>1. rt \in 0..MaxTasks /\ rtm \in [Tasks -> Runtime]
        BY DEF IInv, TypeOK
      <4>2. rt \in Tasks
        BY <3>2, <4>1 DEF Tasks
      <4>3. rtm[rt].task \in 0..MaxTasks
        BY <4>1, <4>2 DEF Runtime
      <4> QED BY <3>2, <4>2, <4>3 DEF Tasks
    <3>4. Later(rtm[rt].task)
      <4>1. CASE rtm[rt].task # t
        BY <2>3, <3>2, <3>3, <4>1
      <4>2. CASE rtm[rt].task = t
        <5>1. x = t
          BY <2>6, <3>1, <3>2, <4>2 DEF Tasks
        <5> QED BY <4>2, <5>1
      <4> QED BY <4>1, <4>2
    <3>5. task'[x].pc # "attach"
      BY <3>1 DEF Works
    <3> QED BY <3>2, <3>3, <3>4, <3>5 DEF Works
  <2>10. Births'
    BY <2>1 DEF Births, Works
  <2> QED BY <2>8, <2>9, <2>10
<1> QED BY <1>1, <1>2 DEF TInv
-----------------------------------------------------------------------------
(* One lemma per kind of step of a task at work.                           *)

\* What a step of the loop leaves alone, and that it does not revive a mission.
Shared ==
  /\ rt' = rt /\ overlap' = overlap /\ \A r \in Tasks : rtm'[r].task = rtm[r].task
  /\ st \in Terminal => st' \in Terminal

\* The program points of a loop.
AtWork(t) ==
  At(t, task[t].pc) /\ task[t].pc \notin {"unborn", "attach", "after", "closing", "done"}

\* The loop ends.
LEMMA EndWorks ==
  ASSUME IInv, NEW t \in Tasks, AtWork(t), End(t), Shared
  PROVE  Works(t)
<1>1. task \in [Tasks -> Frame]
  BY FrameFacts
<1>2. task'[t].pc \in {"closing", "done"} /\ \A u \in Tasks : u # t => task'[u] = task[u]
  BY <1>1 DEF End, Ended, Fresh
<1> QED BY <1>2 DEF Works, AtWork, At, Shared

\* The loop goes on at another point.
LEMMA GoesOn ==
  ASSUME IInv, NEW t \in Tasks, AtWork(t), NEW f, task' = [task EXCEPT ![t] = f], Shared,
         f.pc \notin {"unborn", "attach", "after", "replanning", "advancing"}
  PROVE  Works(t)
<1>1. task'[t] = f /\ \A u \in Tasks : u # t => task'[u] = task[u]
  BY FrameFacts
<1> QED BY <1>1 DEF Works, AtWork, At, Shared

\* A step of the mission, or the crash in its place.
LEMMA StepWorks ==
  ASSUME IInv, NEW t \in Tasks, AtWork(t), NEW target, NEW f, Step(t, target, f),
         rt' = rt, overlap' = overlap, \A r \in Tasks : rtm'[r].task = rtm[r].task,
         f.pc \notin {"unborn", "attach", "after"},
         f.pc = "replanning" => target = "SENDING_REPORT",
         f.pc = "advancing" => target = "REPLANNING"
  PROVE  Works(t)
<1>1. st \in States
  BY DEF IInv, TypeOK
<1>2. CASE target \in Transitions(st)
  <2>1. st' = target /\ st \notin Terminal /\ task' = [task EXCEPT ![t] = f]
    BY <1>2, TerminalLast DEF Step, Go
  <2>2. task'[t] = f /\ \A u \in Tasks : u # t => task'[u] = task[u]
    BY <2>1, FrameFacts
  <2> QED BY <2>1, <2>2 DEF Works, AtWork, At
<1>3. CASE target \notin Transitions(st)
  <2>1. End(t) /\ Shared
    BY <1>1, <1>3, FailEnds DEF Step, Crash, Shared
  <2> QED BY <2>1, EndWorks
<1> QED BY <1>2, <1>3

\* The fields of a runtime that the loop writes are not its task.
LEMMA RuntimeTask ==
  ASSUME IInv, NEW q
  PROVE  /\ \A x \in BOOLEAN, r \in Tasks : [rtm EXCEPT ![q].bad = @ \/ x][r].task = rtm[r].task
         /\ \A x \in 0..MaxReplies, r \in Tasks : [rtm EXCEPT ![q].base = x][r].task = rtm[r].task
         /\ \A x \in 0..MaxReplies, r \in Tasks : [rtm EXCEPT ![q].got = x][r].task = rtm[r].task
<1>1. rtm \in [Tasks -> Runtime]
  BY DEF IInv, TypeOK
<1> QED BY <1>1 DEF Runtime

\* Nothing that concerns the tasks changes.
LEMMA NothingShared == ASSUME UNCHANGED <<st, rt, rtm, overlap>> PROVE Shared
BY DEF Shared

\* A mission that has ended takes no transition.
LEMMA GoShared ==
  ASSUME UNCHANGED <<rt, rtm, overlap>>, st \notin Terminal
  PROVE  Shared
BY DEF Shared

\* The head of a cycle.
LEMMA HeadWorks == ASSUME IInv, NEW t \in Tasks, HeadStops(t) \/ HeadGoesOn(t) PROVE Works(t)
<1>1. CASE HeadStops(t)
  <2>1. AtWork(t) /\ End(t)
    BY <1>1 DEF HeadStops, AtWork, At
  <2>2. Shared
    BY <1>1 DEF HeadStops, Shared, history
  <2> QED BY <2>1, <2>2, EndWorks
<1>2. CASE HeadGoesOn(t)
  <2> DEFINE p == IF task[t].rep # 0 THEN "have"
                  ELSE IF task[t].pending = None THEN "awaiting" ELSE "next"
  <2>1. AtWork(t) /\ task' = [task EXCEPT ![t] = [task[t] EXCEPT !.pc = p]]
    BY <1>2 DEF HeadGoesOn, AtWork, At
  <2>2. [task[t] EXCEPT !.pc = p].pc = p
    BY FrameFacts DEF Frame
  <2>3. Shared
    BY <1>2, NothingShared DEF HeadGoesOn, mission, history
  <2>4. p \in {"have", "awaiting", "next"}
    OBVIOUS
  <2> HIDE DEF p
  <2> QED BY <2>1, <2>2, <2>3, <2>4, GoesOn
<1> QED BY <1>1, <1>2

\* The conversation is selected.
LEMMA SelectedWorks == ASSUME IInv, NEW t \in Tasks, Selected(t) PROVE Works(t)
<1>1. AtWork(t) /\ task' = [task EXCEPT ![t] = [task[t] EXCEPT !.pc = "head"]]
  BY DEF Selected, AtWork, At
<1>2. [task[t] EXCEPT !.pc = "head"].pc = "head"
  BY FrameFacts DEF Frame
<1>3. Shared
  BY DEF Selected, Shared, history, Terminal
<1> QED BY <1>1, <1>2, <1>3, GoesOn

\* A transport error.
LEMMA TransportFailsWorks == ASSUME IInv, NEW t \in Tasks, TransportFails(t) PROVE Works(t)
<1>1. AtWork(t) /\ End(t)
  BY DEF TransportFails, AtWork, At
<1>2. Shared
  BY AllowedStays, RuntimeTask DEF TransportFails, Shared, history
<1> QED BY <1>1, <1>2, EndWorks

\* The loop is over, and its task with it.
LEMMA CloseWorks == ASSUME IInv, NEW t \in Tasks, Close(t) PROVE Works(t)
<1>1. /\ task[t].pc = "closing" /\ \A u \in Tasks : task[u].pc \in Busy => u = t
      /\ task'[t].pc = "done" /\ \A u \in Tasks : u # t => task'[u] = task[u]
  BY FrameFacts DEF Close, At, Ended, Fresh
<1>2. Shared
  BY NothingShared DEF Close, mission, history
<1> QED BY <1>1, <1>2 DEF Works, Shared

\* A message is reserved, proven delivered, or proven not sent.
LEMMA SendingWorks ==
  ASSUME IInv, NEW t \in Tasks, Reserve(t) \/ Confirm(t) \/ Abort(t)
  PROVE  Works(t)
<1>0. replies \in 0..MaxReplies
  BY DEF IInv, TypeOK
<1>1. CASE Reserve(t) /\ MayReserve(task[t].pending)
  <2>1. AtWork(t) /\ task' = [task EXCEPT ![t] = [task[t] EXCEPT !.pc = "sending"]]
    BY <1>1 DEF Reserve, AtWork, At
  <2>2. [task[t] EXCEPT !.pc = "sending"].pc = "sending"
    BY FrameFacts DEF Frame
  <2>3. Shared
    <3>1. rtm' = [rtm EXCEPT ![task[t].rt].base = replies] /\ UNCHANGED <<st, rt, overlap>>
      BY <1>1 DEF Reserve, history
    <3> QED BY <1>0, <3>1, RuntimeTask DEF Shared
  <2> QED BY <2>1, <2>2, <2>3, GoesOn
<1>2. CASE Reserve(t) /\ ~MayReserve(task[t].pending)
  <2>1. AtWork(t) /\ End(t)
    BY <1>2 DEF Reserve, AtWork, At
  <2>2. Shared
    BY <1>2, AllowedStays DEF Reserve, Shared, history
  <2> QED BY <2>1, <2>2, EndWorks
<1>3. CASE Confirm(t)
  <2>1. AtWork(t) /\ task' = [task EXCEPT ![t] = [task[t] EXCEPT !.pc = "awaiting"]]
    BY <1>3 DEF Confirm, AtWork, At
  <2>2. [task[t] EXCEPT !.pc = "awaiting"].pc = "awaiting"
    BY FrameFacts DEF Frame
  <2>3. Shared
    BY <1>3, NothingShared DEF Confirm, mission, history
  <2> QED BY <2>1, <2>2, <2>3, GoesOn
<1>4. CASE Abort(t)
  <2>1. AtWork(t) /\ End(t)
    BY <1>4 DEF Abort, AtWork, At
  <2>2. Shared
    BY <1>4, AllowedStays DEF Abort, Shared, history
  <2> QED BY <2>1, <2>2, EndWorks
<1> QED BY <1>1, <1>2, <1>3, <1>4

\* A reply was extracted.
LEMMA ReceiveWorks == ASSUME IInv, NEW t \in Tasks, Receive(t) PROVE Works(t)
<1>0. replies \in 0..MaxReplies
  BY DEF IInv, TypeOK
<1> DEFINE f == [task[t] EXCEPT !.pc = "have", !.rep = replies]
<1>1. AtWork(t) /\ task' = [task EXCEPT ![t] = f]
  BY FrameFacts DEF Receive, AtWork, At
<1>2. f.pc = "have"
  BY FrameFacts DEF Frame
<1>3. Shared
  BY <1>0, RuntimeTask DEF Receive, mission, history, Shared
<1> QED BY <1>1, <1>2, <1>3, GoesOn

\* A reply: dropped or stashed, colliding, repeated, or refused.
LEMMA ReplyWorks ==
  ASSUME IInv, NEW t \in Tasks, ReplyTooLate(t) \/ ReplyCollides(t) \/ DuplicateReply(t) \/ Violation(t)
  PROVE  Works(t)
<1>0. st \in States
  BY DEF IInv, TypeOK
<1>1. CASE ReplyTooLate(t)
  <2>1. AtWork(t) /\ End(t)
    BY <1>1 DEF ReplyTooLate, AtWork, At
  <2>2. Shared
    BY <1>1, NothingShared DEF ReplyTooLate, mission, history
  <2> QED BY <2>1, <2>2, EndWorks
<1>2. CASE ReplyCollides(t)
  <2>1. AtWork(t) /\ End(t)
    BY <1>2 DEF ReplyCollides, Crash, AtWork, At
  <2>2. Shared
    BY <1>0, <1>2, FailEnds DEF ReplyCollides, Crash, Shared, history
  <2> QED BY <2>1, <2>2, EndWorks
<1>3. CASE DuplicateReply(t)
  <2> DEFINE f == [task[t] EXCEPT !.pc = "head", !.rep = 0, !.sure = FALSE]
  <2>1. AtWork(t) /\ task' = [task EXCEPT ![t] = f]
    BY <1>3, FrameFacts DEF DuplicateReply, Parsing, AtWork, At
  <2>2. f.pc = "head"
    BY FrameFacts DEF Frame
  <2>3. Shared
    BY <1>3, GoShared DEF DuplicateReply, Parsing, history
  <2> QED BY <2>1, <2>2, <2>3, GoesOn
<1>4. CASE Violation(t)
  <2>1. AtWork(t)
    BY <1>4 DEF Violation, Parsing, AtWork, At
  <2>2. Shared
    BY <1>4, GoShared DEF Violation, Parsing, history
  <2>3. CASE End(t)
    BY <2>1, <2>2, <2>3, EndWorks
  <2>4. ASSUME NEW k, NEW c, task' = [task EXCEPT ![t] = [@ EXCEPT !.pc = "head", !.rep = 0,
                                                                   !.viol = task[t].viol + 1,
                                                                   !.credits = task[t].credits + c,
                                                                   !.pending = Correction(k)]]
        PROVE Works(t)
    <3> DEFINE f == [task[t] EXCEPT !.pc = "head", !.rep = 0, !.viol = @ + 1,
                                    !.credits = @ + c, !.pending = Correction(k)]
    <3>1. f.pc = "head" /\ task' = [task EXCEPT ![t] = f]
      BY <2>4, FrameFacts DEF Frame
    <3> HIDE DEF f
    <3> QED BY <2>1, <2>2, <3>1, GoesOn
  <2> QED BY <1>4, <2>3, <2>4 DEF Violation
<1> QED BY <1>1, <1>2, <1>3, <1>4

\* A valid decision.
LEMMA DecideWorks == ASSUME IInv, NEW t \in Tasks, DecideAny(t) PROVE Works(t)
<1> PICK a, i : Decide(t, a, i) \/ RecordCollides(t, a, i)
  BY DEF DecideAny
<1>1. AtWork(t)
  BY DEF Decide, RecordCollides, Valid, Parsing, AtWork, At
<1>2. Shared
  BY GoShared DEF Decide, RecordCollides, Valid, Parsing, history
<1>3. CASE End(t)
  BY <1>1, <1>2, <1>3, EndWorks
<1> DEFINE f == [task[t] EXCEPT !.rep = 0, !.sure = FALSE, !.viol = 0, !.credits = 0, !.act = a]
<1>4. ASSUME NEW p \in {"reporting", "executing"}, task' = [task EXCEPT ![t] = [f EXCEPT !.pc = p]]
      PROVE  Works(t)
  <2>1. [f EXCEPT !.pc = p].pc = p
    BY FrameFacts DEF Frame
  <2> HIDE DEF f
  <2> QED BY <1>1, <1>2, <1>4, <2>1, GoesOn
<1>5. CASE task' = [task EXCEPT ![t] = [f EXCEPT !.pc = "approval", !.answer = "none"]]
  <2>1. [f EXCEPT !.pc = "approval", !.answer = "none"].pc = "approval"
    BY FrameFacts DEF Frame
  <2> HIDE DEF f
  <2> QED BY <1>1, <1>2, <1>5, <2>1, GoesOn
<1> QED BY <1>3, <1>4, <1>5 DEF Decide, RecordCollides

\* An action: approved or refused, executed, reported.
LEMMA ActionWorks ==
  ASSUME IInv, NEW t \in Tasks,
         Approved(t) \/ Denied(t) \/ ToolEnds(t) \/ FileReport(t) \/ Replan(t)
  PROVE  Works(t)
<1>1. CASE Approved(t)
  <2> DEFINE f == [task[t] EXCEPT !.pc = "executing", !.answer = "none"]
  <2>1. AtWork(t) /\ Step(t, "EXECUTING_LOCAL_ACTION", f) /\ UNCHANGED <<rt, rtm, overlap>>
    BY <1>1 DEF Approved, AtWork, At
  <2>2. f.pc = "executing"
    BY FrameFacts DEF Frame
  <2> HIDE DEF f
  <2> QED BY <2>1, <2>2, StepWorks
<1>2. CASE Denied(t)
  <2> DEFINE f == [task[t] EXCEPT !.pc = "reporting", !.answer = "none"]
  <2>1. AtWork(t) /\ task' = [task EXCEPT ![t] = f]
    BY <1>2, FrameFacts DEF Denied, AtWork, At
  <2>2. f.pc = "reporting"
    BY FrameFacts DEF Frame
  <2>3. Shared
    BY <1>2, NothingShared DEF Denied, mission, history
  <2> HIDE DEF f
  <2> QED BY <2>1, <2>2, <2>3, GoesOn
<1>3. CASE ToolEnds(t)
  <2> DEFINE f == [task[t] EXCEPT !.pc = "reporting"]
  <2>1. AtWork(t) /\ Step(t, "VALIDATING_ACTION", f) /\ UNCHANGED <<rt, rtm, overlap>>
    BY <1>3 DEF ToolEnds, AtWork, At, history
  <2>2. f.pc = "reporting"
    BY FrameFacts DEF Frame
  <2> HIDE DEF f
  <2> QED BY <2>1, <2>2, StepWorks
<1>4. CASE FileReport(t)
  <2> DEFINE f == [task[t] EXCEPT !.pc = "replanning", !.act = 0, !.pending = Report(task[t].act)]
  <2>1. AtWork(t) /\ Step(t, "SENDING_REPORT", f) /\ UNCHANGED <<rt, rtm, overlap>>
    BY <1>4 DEF FileReport, AtWork, At, history
  <2>2. f.pc = "replanning"
    BY FrameFacts DEF Frame
  <2> HIDE DEF f
  <2> QED BY <2>1, <2>2, StepWorks
<1>5. CASE Replan(t)
  <2> DEFINE f == [task[t] EXCEPT !.pc = "advancing"]
  <2>1. AtWork(t) /\ Step(t, "REPLANNING", f) /\ UNCHANGED <<rt, rtm, overlap>>
    BY <1>5 DEF Replan, AtWork, At, history
  <2>2. f.pc = "advancing"
    BY FrameFacts DEF Frame
  <2> HIDE DEF f
  <2> QED BY <2>1, <2>2, StepWorks
<1> QED BY <1>1, <1>2, <1>3, <1>4, <1>5

\* The next iteration: the mission is where Replan left it, so it has not ended.
LEMMA AdvanceWorks == ASSUME IInv, TInv, NEW t \in Tasks, Advance(t) PROVE Works(t)
<1>1. AtWork(t)
  BY DEF Advance, AtWork, At
<1>2. st \notin Terminal
  BY DEF Advance, At, TInv, Points, Terminal
<1>3. Shared
  BY <1>2, GoShared DEF Advance, history
<1>4. CASE End(t)
  BY <1>1, <1>3, <1>4, EndWorks
<1>5. CASE task' = [task EXCEPT ![t].pc = "head"]
  <2>1. task' = [task EXCEPT ![t] = [task[t] EXCEPT !.pc = "head"]]
    BY <1>5
  <2>2. [task[t] EXCEPT !.pc = "head"].pc = "head"
    BY FrameFacts DEF Frame
  <2> QED BY <1>1, <1>3, <2>1, <2>2, GoesOn
<1> QED BY <1>4, <1>5 DEF Advance

\* Where the resume task goes.
LEMMA ResumePoints ==
  ASSUME IInv, NEW t \in Tasks, Reconcile(t) \/ Prove(t) \/ Rebuild(t) \/ Recover(t)
  PROVE  task'[t].pc \in {"rebuild", "proving", "head", "recover"}
<1>1. CASE Reconcile(t)
  BY <1>1, FrameFacts DEF Reconcile, Frame
<1>2. CASE Prove(t)
  BY <1>2, FrameFacts DEF Prove, Frame
<1>3. CASE Rebuild(t)
  <2> DEFINE m == ResumePending
  <2>1. \/ \E r \in db.stashed : task' = [task EXCEPT ![t] = [@ EXCEPT !.pc = "head", !.rep = r, !.pending = m]]
        \/ task' = [task EXCEPT ![t] = [@ EXCEPT !.pc = "head", !.pending = m]]
        \/ task' = [task EXCEPT ![t] = [@ EXCEPT !.pc = "recover", !.pending = None]]
    BY <1>3 DEF Rebuild
  <2> HIDE DEF m
  <2>2. CASE \E r : task' = [task EXCEPT ![t] = [@ EXCEPT !.pc = "head", !.rep = r,
                                                          !.pending = m]]
    <3> PICK r : task' = [task EXCEPT ![t] = [@ EXCEPT !.pc = "head", !.rep = r, !.pending = m]]
      BY <2>2
    <3> QED BY FrameFacts DEF Frame
  <2>3. CASE task' = [task EXCEPT ![t] = [@ EXCEPT !.pc = "head", !.pending = m]]
    BY <2>3, FrameFacts DEF Frame
  <2>4. CASE task' = [task EXCEPT ![t] = [@ EXCEPT !.pc = "recover", !.pending = None]]
    BY <2>4, FrameFacts DEF Frame
  <2> QED BY <2>1, <2>2, <2>3, <2>4
<1>4. CASE Recover(t)
  <2> DEFINE m == ResumePending
  <2>1. PICK r, b : task' = [task EXCEPT ![t] = [@ EXCEPT !.pc = "head", !.rep = r, !.sure = b,
                                                          !.pending = m]]
    BY <1>4 DEF Recover
  <2> HIDE DEF m
  <2> QED BY <2>1, FrameFacts DEF Frame
<1> QED BY <1>1, <1>2, <1>3, <1>4

\* The resume task: it reconciles, proves, rebuilds and recovers.
LEMMA ResumeWorks ==
  ASSUME IInv, NEW t \in Tasks, Reconcile(t) \/ Prove(t) \/ Rebuild(t) \/ Recover(t)
  PROVE  Works(t)
<1>1. AtWork(t)
  BY DEF Reconcile, Prove, Rebuild, Recover, AtWork, At
<1>2. Shared
  BY NothingShared DEF Reconcile, Prove, Rebuild, Recover, mission, history
<1>3. task'[t].pc \in {"rebuild", "proving", "head", "recover"}
  BY ResumePoints
<1>4. \A u \in Tasks : u # t => task'[u] = task[u]
  BY FrameFacts DEF Reconcile, Prove, Rebuild, Recover
<1> QED BY <1>1, <1>2, <1>3, <1>4 DEF Works, AtWork, At, Shared

\* The coordinator: the task it waited for is over.
LEMMA AfterWorks == ASSUME IInv, NEW t \in Tasks, After(t) PROVE Works(t)
<1>1. task[t].pc = "after" /\ ~Live(task[t].waits) /\ \A u \in Tasks : task[u].pc \in Busy => u = t
  BY DEF After, At, Live
<1>2. Shared
  BY NothingShared DEF After, mission, history
<1>3. task'[t].pc \in {"closing", "done", "reconcile"} /\ \A u \in Tasks : u # t => task'[u] = task[u]
  <2>1. CASE End(t)
    BY <2>1, FrameFacts DEF End, Ended, Fresh
  <2>2. CASE task' = [task EXCEPT ![t] = [@ EXCEPT !.pc = "reconcile", !.waits = 0]]
    BY <2>2, FrameFacts DEF Frame
  <2> QED BY <2>1, <2>2 DEF After
<1>4. st' \in Terminal => task'[t].pc \in {"closing", "done"}
  <2> SUFFICES ASSUME st' \in Terminal PROVE End(t)
    BY FrameFacts DEF End, Ended, Fresh
  <2> QED BY DEF After, mission
<1> QED BY <1>1, <1>2, <1>3, <1>4 DEF Works, Shared

\* The answer to an approval reaches the task that waits for it.
LEMMA ApproveWorks ==
  ASSUME IInv, NEW a, NEW yes, Approve(a, yes)
  PROVE  \E t \in Tasks : Works(t)
<1>1. PICK t \in Tasks : Matches(t, a) /\ task' = [task EXCEPT ![t].answer = IF yes THEN "yes" ELSE "no"]
  BY DEF Approve
<1>2. task'[t].pc = "approval" /\ task[t].pc = "approval" /\ \A u \in Tasks : u # t => task'[u] = task[u]
  BY <1>1, FrameFacts DEF Matches, Pending, Frame
<1>3. Shared
  BY NothingShared DEF Approve, mission
<1> QED BY <1>2, <1>3 DEF Works, Shared, Approve, Quiet
-----------------------------------------------------------------------------
(* The steps that no task at work takes.                                   *)

\* Nothing happens to the tasks.
LEMMA TasksStay ==
  ASSUME TInv, UNCHANGED <<task, rt, rtm, overlap>>,
         st' = st \/ (st \notin Terminal /\ Quiet)
  PROVE  TInv'
<1>1. Points'
  BY DEF TInv, Points, Quiet, Busy
<1>2. ASSUME ~overlap', st' \notin Terminal PROVE Queue' /\ Newest' /\ Births'
  <2>1. Queue /\ Newest /\ Births
    BY <1>2 DEF TInv
  <2> QED BY <2>1 DEF Queue, Newest, Births, Live
<1> QED BY <1>1, <1>2 DEF TInv

\* A pause, a message that shows, an answer of ChatGPT.
LEMMA OutsideKeeps == ASSUME TInv, Pause \/ Land \/ Answer PROVE TInv'
<1>1. st' = st \/ (st \notin Terminal /\ Quiet)
  BY DEF Pause, Land, Answer, mission, SafePause, Terminal
<1> QED BY <1>1, TasksStay DEF Pause, Land, Answer, history

\* A mission that has ended, with no task between a report and the next head.
LEMMA OverKeeps ==
  ASSUME st' \in Terminal, \A u \in Tasks : task'[u].pc \notin {"replanning", "advancing"}
  PROVE  TInv'
BY DEF TInv, Points

\* The mission is cancelled.
LEMMA CancelKeeps == ASSUME IInv, Cancel PROVE TInv'
<1>1. st' \in Terminal
  BY CancelEnds DEF Cancel, IInv, TypeOK
<1>2. ASSUME NEW u \in Tasks PROVE task'[u].pc \notin {"replanning", "advancing"}
  <2>1. task[u].pc \notin {"replanning", "advancing"} /\ task[u] \in Frame
    BY FrameFacts DEF Cancel, Quiet, Busy
  <2>2. task'[u] = task[u] \/ task'[u] = [task[u] EXCEPT !.answer = "no"] \/ task'[u] = Ended
    BY DEF Cancel
  <2> QED BY <2>1, <2>2 DEF Ended, Fresh, Frame
<1> QED BY <1>1, <1>2, OverKeeps

\* The backend starts again without a task.
LEMMA RestartKeeps == ASSUME Restart PROVE TInv'
<1>1. \A u \in Tasks : task'[u].pc = "unborn" /\ rtm'[u].task = 0
  BY DEF Restart, Fresh, NoRuntime
<1> QED BY <1>1 DEF TInv, Points, Queue, Newest, Births, Live, Tasks

\* An attach that fails, or that comes too late, ends the mission.
LEMMA AttachFailsKeeps ==
  ASSUME IInv, NEW t \in Tasks, AttachFails(t) \/ (Attached(t) /\ st \notin Stalled)
  PROVE  TInv'
<1>1. st' \in Terminal
  BY FailEnds DEF AttachFails, Attached, IInv, TypeOK, Terminal
<1>2. ASSUME NEW u \in Tasks PROVE task'[u].pc \notin {"replanning", "advancing"}
  <2>1. \A x \in Tasks : task[x].pc \notin {"replanning", "advancing"}
    BY DEF AttachFails, Attached, At, Busy
  <2>2. End(t)
    BY DEF AttachFails, Attached
  <2> QED BY <2>1, <2>2, FrameFacts DEF End, Ended, Fresh
<1> QED BY <1>1, <1>2, OverKeeps

\* The attach succeeds: the only task alive starts, and the runtime has it.
LEMMA AttachedKeeps ==
  ASSUME IInv, TInv, NEW t \in Tasks, Attached(t), st \in Stalled
  PROVE  TInv'
<1>1. /\ st \notin Terminal /\ overlap' = overlap /\ rt' = rt
      /\ task' = [task EXCEPT ![t].pc = "reconcile"]
      /\ rtm' = [rtm EXCEPT ![t] = [NoRuntime EXCEPT !.task = t, !.base = replies]]
      /\ task[t].pc = "attach" /\ \A u \in Tasks : task[u].pc \notin {"replanning", "advancing"}
  BY DEF Attached, At, Busy, Stalled, Terminal, history
<1>2. rtm'[t].task = t /\ \A u \in Tasks : u # t => rtm'[u] = rtm[u]
  BY <1>1 DEF NoRuntime, IInv, TypeOK
<1>3. task'[t].pc = "reconcile" /\ \A u \in Tasks : u # t => task'[u] = task[u]
  BY <1>1, FrameFacts DEF Frame
<1>4. Points'
  BY <1>1, <1>3 DEF Points
<1>5. ASSUME ~overlap' PROVE Queue' /\ Newest' /\ Births'
  <2>1. Queue /\ Newest /\ Births
    BY <1>1, <1>5 DEF TInv
  <2>2. rt = t /\ \A u \in Tasks : Live(u) => u = t
    BY <1>1, <2>1 DEF Newest, Live
  <2>3. \A u \in Tasks : task'[u].pc \notin {"unborn", "done"} => u = t
    BY <1>3, <2>2 DEF Live
  <2>4. Queue'
    BY <2>3 DEF Queue, Live, Tasks
  <2>5. Newest'
    BY <1>1, <1>2, <1>3, <2>2, <2>3 DEF Newest, Live, Tasks
  <2>6. Births'
    BY <1>1, <1>2, <1>3, <2>1 DEF Births
  <2> QED BY <2>4, <2>5, <2>6
<1> QED BY <1>4, <1>5 DEF TInv

\* What Births says of a task that is about to be born.
LEMMA Birth ==
  ASSUME IInv, Births, NEW t \in Tasks, Newborn(t)
  PROVE  rtm[t].task = 0 /\ \A u \in Tasks : Live(u) => u < t
<1>1. ASSUME NEW u \in Tasks, Live(u) PROVE u < t
  <2>1. task[t].pc = "unborn" /\ (t < u => task[u].pc = "unborn")
    BY DEF Births, Newborn
  <2> QED BY <1>1, <2>1 DEF Live, Tasks
<1> QED BY <1>1 DEF Births, Newborn

\* Nobody after a task that is born is born, and all before it are.
LEMMA BirthsKept ==
  ASSUME IInv, Births, NEW t \in Tasks, Newborn(t), task'[t].pc # "unborn",
         \A u \in Tasks : u # t => task'[u] = task[u],
         \A u \in Tasks : task[u].pc = "unborn" /\ u # t => rtm'[u].task = rtm[u].task,
         \A q \in Tasks : rtm'[q].task \in {rtm[q].task, t}
  PROVE  Births'
<1>1. ASSUME NEW x \in Tasks, NEW u \in Tasks, task'[x].pc = "unborn", x < u
      PROVE  task'[u].pc = "unborn"
  <2>1. x # t /\ task[x].pc = "unborn" /\ task[u].pc = "unborn"
    BY <1>1 DEF Births
  <2>2. t < x
    BY <2>1 DEF Newborn, Tasks
  <2>3. u # t
    BY <1>1, <2>2 DEF Tasks
  <2> QED BY <2>1, <2>3
<1>2. ASSUME NEW x \in Tasks, task'[x].pc = "unborn" PROVE rtm'[x].task = 0
  BY <1>2 DEF Births
<1>3. ASSUME NEW q \in Tasks, NEW x \in Tasks, rtm'[q].task = x PROVE task'[x].pc # "unborn"
  BY <1>3 DEF Births
<1> QED BY <1>1, <1>2, <1>3 DEF Births

\* A resume while the task of the runtime is alive: the new coordinator lines
\* up behind the youngest task.
LEMMA ResumeActiveKeeps ==
  ASSUME IInv, TInv, NEW t \in Tasks, ResumeActive(t)
  PROVE  TInv'
<1> DEFINE T == rtm[rt].task
           f == [Fresh EXCEPT !.pc = "after", !.rt = rt, !.waits = T]
<1>1. rt \in Tasks /\ T \in Tasks /\ rtm \in [Tasks -> Runtime]
  <2>1. rt \in 0..MaxTasks /\ rtm \in [Tasks -> Runtime] /\ rt # 0 /\ T # 0
    BY DEF ResumeActive, Running, IInv, TypeOK
  <2>2. rt \in Tasks
    BY <2>1 DEF Tasks
  <2>3. T \in 0..MaxTasks
    BY <2>1, <2>2 DEF Runtime
  <2> QED BY <2>1, <2>2, <2>3 DEF Tasks
<1>2. f.pc = "after" /\ f.waits = T
  BY DEF Fresh
<1>3. task'[t] = f /\ \A u \in Tasks : u # t => task'[u] = task[u]
  BY FrameFacts DEF ResumeActive
<1> HIDE DEF f
<1>4. /\ st \notin Terminal /\ rt' = rt /\ overlap' = overlap /\ Newborn(t)
      /\ rtm'[rt].task = t /\ \A u \in Tasks : u # rt => rtm'[u] = rtm[u]
      /\ task[T].pc # "done" /\ Quiet
  <2>1. st \notin Terminal
    BY DEF ResumeActive, Stalled, Terminal
  <2>2. rtm'[rt].task = t /\ \A u \in Tasks : u # rt => rtm'[u] = rtm[u]
    BY <1>1 DEF ResumeActive, Runtime
  <2> QED BY <2>1, <2>2 DEF ResumeActive, Running, history
<1>5. Points'
  BY <1>2, <1>3, <1>4 DEF Points, Quiet, Busy
<1>6. ASSUME ~overlap' PROVE Queue' /\ Newest' /\ Births'
  <2> DEFINE Later(x) == task'[x].pc \notin {"unborn", "done"}
  <2>1. Queue /\ Newest /\ Births
    BY <1>4, <1>6 DEF TInv
  <2>2. Live(T) /\ T # t
    BY <1>1, <1>4, <2>1 DEF Births, Live, Newborn
  <2>3. \A u \in Tasks : Live(u) => u <= T /\ task[u].pc # "attach"
    BY <1>1, <2>1, <2>2 DEF Newest
  <2>4. rtm[t].task = 0 /\ \A u \in Tasks : Live(u) => u < t
    BY <1>4, <2>1, Birth
  <2>5. \A u \in Tasks : Later(u) => u = t \/ Live(u)
    BY <1>3 DEF Live
  <2>6. Later(t) /\ Later(T)
    BY <1>1, <1>2, <1>3, <2>2 DEF Live
  <2>7. Queue'
    <3> SUFFICES ASSUME NEW x \in Tasks, NEW u \in Tasks, Later(x), Later(u), x < u
                 PROVE  task'[u].pc = "after" /\ x <= task'[u].waits /\ Later(task'[u].waits)
      BY DEF Queue, Live
    <3>1. Live(x)
      BY <2>4, <2>5 DEF Tasks
    <3>2. CASE u = t
      BY <1>2, <1>3, <2>3, <2>6, <3>1, <3>2
    <3>3. CASE u # t
      <4>1. task[u].pc = "after" /\ x <= task[u].waits /\ Live(task[u].waits)
        BY <2>1, <2>5, <3>1, <3>3 DEF Queue
      <4>2. task[u].waits \in Tasks
        BY <4>1, FrameFacts DEF Frame, Tasks
      <4>3. task[u].waits # t
        BY <1>4, <4>1 DEF Live, Newborn
      <4> QED BY <1>3, <3>3, <4>1, <4>2, <4>3 DEF Live
    <3> QED BY <3>2, <3>3
  <2>8. Newest'
    <3> SUFFICES ASSUME NEW x \in Tasks, Later(x)
                 PROVE  /\ rt' # 0 /\ task'[x].pc # "attach"
                        /\ x <= rtm'[rt'].task /\ Later(rtm'[rt'].task)
      BY DEF Newest, Live
    <3>1. x <= t /\ task'[x].pc # "attach"
      BY <1>2, <1>3, <2>3, <2>4, <2>5 DEF Tasks
    <3>2. rt' # 0 /\ rtm'[rt'].task = t
      BY <1>1, <1>4 DEF Tasks
    <3> QED BY <2>6, <3>1, <3>2
  <2>9. Births'
    <3>1. \A q \in Tasks : rtm'[q].task \in {rtm[q].task, t}
      BY <1>4
    <3>2. \A u \in Tasks : task[u].pc = "unborn" /\ u # t => rtm'[u].task = rtm[u].task
      <4>1. task[rt].pc # "unborn"
        BY <1>1, <2>1 DEF Births, Tasks
      <4> QED BY <1>4, <4>1
    <3>3. rt # t
      BY <1>1, <2>4 DEF Tasks
    <3>4. task'[t].pc # "unborn"
      BY <1>2, <1>3
    <3> QED BY <1>3, <1>4, <2>1, <3>1, <3>2, <3>3, <3>4, BirthsKept
  <2> QED BY <2>7, <2>8, <2>9
<1> QED BY <1>5, <1>6 DEF TInv

\* A resume that finds no task of the runtime alive, and none attaching: nobody
\* is alive, and the attaching task is alone.
LEMMA ResumeRebuildKeeps ==
  ASSUME IInv, TInv, NEW t \in Tasks, ResumeRebuild(t)
  PROVE  TInv'
<1>1. /\ st' = st /\ st \notin Terminal /\ rt' = t /\ rtm' = rtm /\ Newborn(t) /\ Quiet
      /\ rt # 0 => ~Running(rtm[rt].task)
  BY DEF ResumeRebuild, mission, Stalled, Terminal
<1>2. task'[t].pc = "attach" /\ \A u \in Tasks : u # t => task'[u] = task[u]
  BY FrameFacts DEF ResumeRebuild, Fresh
<1>3. Points'
  BY <1>1, <1>2 DEF Points, Quiet, Busy
<1>4. ASSUME ~overlap' PROVE Queue' /\ Newest' /\ Births'
  <2> DEFINE Later(x) == task'[x].pc \notin {"unborn", "done"}
  <2>1. ~overlap /\ \A u \in Tasks : task[u].pc # "attach"
    BY <1>4 DEF ResumeRebuild
  <2>2. Queue /\ Newest /\ Births
    BY <1>1, <2>1 DEF TInv
  <2>3. ASSUME NEW u \in Tasks PROVE ~Live(u)
    BY <1>1, <2>1, <2>2 DEF Newest, Live, Running, Tasks
  <2>4. rtm[t].task = 0
    BY <1>1, <2>2, Birth
  <2>5. \A u \in Tasks : Later(u) => u = t
    BY <1>2, <2>3 DEF Live
  <2>6. Queue'
    BY <2>5 DEF Queue, Live, Tasks
  <2>7. Newest'
    BY <1>1, <1>2, <2>4, <2>5 DEF Newest, Live, Tasks
  <2>8. Births'
    BY <1>1, <1>2, <2>2, BirthsKept
  <2> QED BY <2>6, <2>7, <2>8
<1> QED BY <1>3, <1>4 DEF TInv
-----------------------------------------------------------------------------
(* What follows for every run.                                             *)

\* create_mission starts one task, and the first runtime has it.
LEMMA InitTInv == Init => TInv
<1> SUFFICES ASSUME Init PROVE TInv
  OBVIOUS
<1>1. /\ 1 \in Tasks /\ task[1].pc = "select" /\ rt = 1 /\ rtm[1].task = 1
      /\ \A u \in Tasks : u # 1 => task[u].pc = "unborn" /\ rtm[u].task = 0
  BY MissionBounds DEF Init, Fresh, NoRuntime, Tasks
<1>2. Points /\ Queue /\ Newest
  BY <1>1 DEF Points, Queue, Newest, Live, Tasks
<1>3. Births
  BY <1>1 DEF Births, Tasks
<1> QED BY <1>2, <1>3 DEF TInv

\* Every step of a task but the end of its attach is one of a task at work.
LEMMA TaskWorks ==
  ASSUME IInv, TInv, NEW t \in Tasks, TaskStep(t)
  PROVE  Works(t) \/ AttachFails(t) \/ Attached(t)
BY HeadWorks, SelectedWorks, TransportFailsWorks, CloseWorks, SendingWorks, ReceiveWorks, ReplyWorks,
   DecideWorks, ActionWorks, AdvanceWorks, ResumeWorks, AfterWorks DEF TaskStep

\* Every step keeps the order of the tasks.
LEMMA TInvStep == IInv /\ TInv /\ [Next]_vars => TInv'
<1> SUFFICES ASSUME IInv, TInv, [Next]_vars PROVE TInv'
  OBVIOUS
<1>1. CASE UNCHANGED vars
  BY <1>1, TasksStay DEF vars, mission, history
<1>2. ASSUME NEW t \in Tasks, TaskStep(t) PROVE TInv'
  BY <1>2, TaskWorks, WorksKeeps, AttachFailsKeeps, AttachedKeeps
<1>3. ASSUME NEW t \in Tasks, ResumeActive(t) \/ ResumeRebuild(t) PROVE TInv'
  BY <1>3, ResumeActiveKeeps, ResumeRebuildKeeps
<1>4. ASSUME NEW a \in Replies, NEW yes \in BOOLEAN, Approve(a, yes) PROVE TInv'
  BY <1>4, ApproveWorks, WorksKeeps
<1>5. CASE Pause \/ Cancel \/ Land \/ Answer \/ Restart
  BY <1>5, OutsideKeeps, CancelKeeps, RestartKeeps
<1> QED BY <1>1, <1>2, <1>3, <1>4, <1>5 DEF Next

\* A mission that has ended gets no new loop.
LEMMA NoNewLoop ==
  ASSUME IInv, TInv, [Next]_vars, st' \in Terminal, NEW x \in Tasks, Drives(x)'
  PROVE  Drives(x)
<1>1. ASSUME NEW t \in Tasks, Works(t) PROVE Drives(x)
  <2>1. CASE x = t
    BY <1>1, <2>1 DEF Works, Drives
  <2>2. CASE x # t
    BY <1>1, <2>2 DEF Works, Drives
  <2> QED BY <2>1, <2>2
<1>2. CASE UNCHANGED task
  BY <1>2 DEF Drives
<1>3. ASSUME NEW t \in Tasks, AttachFails(t) \/ Attached(t) PROVE Drives(x)
  <2>1. End(t)
    BY <1>3 DEF AttachFails, Attached, Stalled, Terminal
  <2> QED BY <2>1, FrameFacts DEF End, Ended, Fresh, Drives
<1>4. ASSUME NEW t \in Tasks, TaskStep(t) PROVE Drives(x)
  BY <1>1, <1>3, <1>4, TaskWorks
<1>5. ASSUME NEW t \in Tasks, ResumeActive(t) \/ ResumeRebuild(t) PROVE Drives(x)
  <2>1. CASE x = t
    BY <1>5, <2>1, FrameFacts DEF ResumeActive, ResumeRebuild, Fresh, Drives
  <2>2. CASE x # t
    BY <1>5, <2>2, FrameFacts DEF ResumeActive, ResumeRebuild, Drives
  <2> QED BY <2>1, <2>2
<1>6. ASSUME NEW a \in Replies, NEW yes \in BOOLEAN, Approve(a, yes) PROVE Drives(x)
  BY <1>1, <1>6, ApproveWorks
<1>7. CASE Pause \/ Land \/ Answer
  BY <1>2, <1>7 DEF Pause, Land, Answer
<1>8. CASE Cancel
  <2>1. task'[x] = task[x] \/ task'[x] = [task[x] EXCEPT !.answer = "no"] \/ task'[x] = Ended
    BY <1>8 DEF Cancel
  <2> QED BY <2>1, FrameFacts DEF Ended, Fresh, Frame, Drives
<1>9. CASE Restart
  BY <1>9 DEF Restart, Fresh, Drives
<1> QED BY <1>2, <1>4, <1>5, <1>6, <1>7, <1>8, <1>9 DEF Next, vars

\* A mission that has not ended has one loop at most: two would be in a queue.
LEMMA QueueOneLoop == ASSUME TInv, st \notin Terminal PROVE OneLoop
<1> SUFFICES ASSUME ~overlap, NEW t \in Tasks, NEW u \in Tasks, Drives(t), Drives(u), t # u
             PROVE  FALSE
  BY DEF OneLoop
<1>1. Queue /\ Live(t) /\ Live(u) /\ (t < u \/ u < t)
  BY DEF TInv, Live, Drives, Tasks
<1> QED BY <1>1 DEF Queue, Drives

\* That two resumes overlapped is not forgotten.
LEMMA OverlapStays == IInv /\ TInv /\ [Next]_vars /\ overlap => overlap'
<1> SUFFICES ASSUME IInv, TInv, [Next]_vars, overlap PROVE overlap'
  OBVIOUS
<1>1. ASSUME NEW t \in Tasks, TaskStep(t) PROVE overlap'
  <2>1. CASE Works(t)
    BY <2>1 DEF Works
  <2>2. CASE AttachFails(t) \/ Attached(t)
    BY <2>2 DEF AttachFails, Attached, history
  <2> QED BY <1>1, <2>1, <2>2, TaskWorks
<1>2. ASSUME NEW t \in Tasks, ResumeActive(t) \/ ResumeRebuild(t) PROVE overlap'
  BY <1>2 DEF ResumeActive, ResumeRebuild, history
<1>3. ASSUME NEW a \in Replies, NEW yes \in BOOLEAN, Approve(a, yes) PROVE overlap'
  BY <1>3 DEF Approve
<1>4. CASE Pause \/ Cancel \/ Land \/ Answer \/ Restart
  BY <1>4 DEF Pause, Cancel, Land, Answer, Restart, history
<1>5. CASE UNCHANGED vars
  BY <1>5 DEF vars, history
<1> QED BY <1>1, <1>2, <1>3, <1>4, <1>5 DEF Next

\* Nor has one that has ended, since it gets no new one.
LEMMA OneLoopStep == IInv /\ TInv /\ OneLoop /\ [Next]_vars => OneLoop'
<1> SUFFICES ASSUME IInv, TInv, OneLoop, [Next]_vars PROVE OneLoop'
  OBVIOUS
<1>1. CASE st' \notin Terminal
  <2>1. TInv'
    BY TInvStep
  <2> SUFFICES ASSUME ~overlap', NEW t \in Tasks, NEW u \in Tasks, Drives(t)', Drives(u)', t # u
               PROVE  FALSE
    BY DEF OneLoop
  <2>2. Queue' /\ Live(t)' /\ Live(u)' /\ (t < u \/ u < t)
    BY <1>1, <2>1 DEF TInv, Live, Drives, Tasks
  <2> QED BY <2>2 DEF Queue, Drives
<1>2. CASE st' \in Terminal
  <2>1. overlap => overlap'
    BY OverlapStays
  <2>2. \A x \in Tasks : Drives(x)' => Drives(x)
    BY <1>2, NoNewLoop
  <2> QED BY <2>1, <2>2 DEF OneLoop
<1> QED BY <1>1, <1>2

\* The order of the tasks holds in every state, and one task at most has a loop.
THEOREM TaskOrder == Spec => [](IInv /\ TInv /\ OneLoop)
<1>1. Init => IInv /\ TInv /\ OneLoop
  BY InitIInv, InitTInv, QueueOneLoop DEF Init, Terminal
<1>2. IInv /\ TInv /\ OneLoop /\ [Next]_vars => IInv' /\ TInv' /\ OneLoop'
  BY IInvStep, TInvStep, OneLoopStep
<1> QED BY <1>1, <1>2, PTL DEF Spec

\* While no resume was granted during the attach of another one, at most one
\* task drives the mission, however often it is paused, resumed, cancelled,
\* and its backend killed.
THEOREM OneLoopKept == Spec => []OneLoop
BY TaskOrder, PTL
==============================================================================
