------------------------- MODULE MissionLoop_proofs --------------------------
(***************************************************************************)
(* Proofs about MissionLoop, for any number of tasks, replies, iterations, *)
(* pauses and restarts: type correctness, no action executed twice, no     *)
(* action executed that the user was asked about and did not approve, and  *)
(* the refinement of Outbox.                                               *)
(*                                                                         *)
(* The argument: validate_decision accepts an action id once, so a new     *)
(* decision is about an action nobody has started or waits for; from then  *)
(* on the action is in the frame of one task, which starts it at once or   *)
(* puts it to the user, waits at "approval" with the action not started,   *)
(* and leaves that point by the only step that starts it.                  *)
(***************************************************************************)
EXTENDS MissionLoop, TLAPS

\* What the frame of a task says at its program point.
FrameOK(f) ==
  /\ f.pc = "have" => f.rep # 0
  /\ f.pc = "next" => f.pending # None
  /\ f.pc \in {"approval", "executing", "reporting"} => f.act \in Acts
  /\ f.pc \notin {"unborn", "done", "closing"} => f.rt \in Tasks

\* Every task is where its frame says.
FramesOK == \A t \in Tasks : FrameOK(task[t])

\* What was started or put to the user is a valid decision.
RanDecided == \A i \in 1..Len(ran) : ran[i] \in Acts
AskedDecided == db.asked \subseteq Acts

\* An action that waits for the user was not started, and waits in one task.
Waiting(f) ==
  f.pc = "approval" =>
    /\ \A i \in 1..Len(ran) : ran[i] # f.act
    /\ f.answer = "yes" => f.act \in userYes
NotStarted == \A t \in Tasks : Waiting(task[t])
WaitsOnce ==
  \A t, u \in Tasks :
    task[t].pc = "approval" /\ task[u].pc = "approval" /\ task[t].act = task[u].act => t = u

\* The inductive invariant.
IInv ==
  /\ TypeOK /\ FramesOK /\ RanDecided /\ AskedDecided /\ NotStarted /\ WaitsOnce
  /\ ActionOnce /\ ApprovedBeforeRun

\* The part of the types that no lemma below looks into.
Rest ==
  /\ st \in States /\ from \in States \cup {None}
  /\ cursor \in 0..MaxIterations
  /\ slot \in Messages \cup {None} /\ log \in Seq(Messages)
  /\ replies \in 0..MaxReplies
  /\ rtm \in [Tasks -> Runtime] /\ rt \in 0..MaxTasks
  /\ pauses \in 0..MaxPauses /\ restarts \in 0..MaxRestarts /\ overlap \in BOOLEAN
-----------------------------------------------------------------------------
(* What the helpers of the module do to the types.                         *)

\* Every transition of MissionStates leads to a state of the mission.
LEMMA StatesKnown ==
  /\ Terminal \cup Stalled \cup RunningStates \subseteq States
  /\ \A s \in States : Transitions(s) \subseteq States
<1>1. Terminal \cup Stalled \cup RunningStates \subseteq States
  BY DEF States
<1>2. ASSUME NEW s \in States PROVE Transitions(s) \subseteq States
  <2>1. Forward(s) \subseteq States
    BY DEF Forward, States, RunningStates, Stalled, Terminal
  <2>2. {"FAILED", "CANCELLED"} \subseteq States
    BY DEF States, Terminal
  <2> QED BY <2>1, <2>2 DEF Transitions
<1> QED BY <1>1, <1>2

\* Store.transition leaves a state, and a state before the pause or none.
LEMMA GoTyped ==
  ASSUME st \in States, NEW target \in States, Go(target)
  PROVE  st' \in States /\ from' \in States \cup {None}
BY DEF Go

\* So does a transition whose failure is ignored.
LEMMA GoIfAllowedTyped ==
  ASSUME st \in States, from \in States \cup {None}, NEW target \in States, GoIfAllowed(target)
  PROVE  st' \in States /\ from' \in States \cup {None}
BY GoTyped DEF GoIfAllowed

\* So does _fail_mission.
LEMMA FailTyped ==
  ASSUME st \in States, from \in States \cup {None}, FailMission
  PROVE  st' \in States /\ from' \in States \cup {None}
<1>1. {"FAILED", "CANCELLED"} \subseteq States
  BY DEF States, Terminal
<1> QED BY <1>1, GoTyped, GoIfAllowedTyped DEF FailMission

\* A task not started, one that is over and one about to be closed are frames.
LEMMA FreshTyped == Fresh \in Frame /\ Ended \in Frame /\ [Ended EXCEPT !.pc = "closing"] \in Frame
<1>1. 0 \in 0..MaxViolations-1 /\ 0 \in 0..MaxTasks /\ 0 \in 0..MaxReplies
  BY MissionBounds
<1> QED BY <1>1 DEF Fresh, Ended, Frame, PCs, Busy

\* A frame the task may leave behind without an approval pending.
Calm(f) == f \in Frame /\ FrameOK(f) /\ f.pc # "approval"

\* A loop that ends leaves no approval behind.
LEMMA EndCalm ==
  ASSUME NEW t \in Tasks, End(t)
  PROVE  \E f : Calm(f) /\ task' = [task EXCEPT ![t] = f]
<1>1. Calm(Ended) /\ Calm([Ended EXCEPT !.pc = "closing"])
  BY FreshTyped DEF Calm, FrameOK, Ended, Fresh
<1> QED BY <1>1 DEF End

\* A step of the mission, or the crash in its place, leaves the types and a calm
\* frame when the frame of the step is calm.
LEMMA StepCalm ==
  ASSUME TypeOK, NEW t \in Tasks, NEW target \in States, NEW f, Calm(f), Step(t, target, f)
  PROVE  /\ st' \in States /\ from' \in States \cup {None} /\ cursor' = cursor
         /\ \E g : Calm(g) /\ task' = [task EXCEPT ![t] = g]
BY EndCalm, GoTyped, FailTyped DEF Step, Crash, TypeOK

-----------------------------------------------------------------------------
\* A task moves to a calm frame, and the decisions, the actions started and the
\* answers of the user stay: what most actions do.
LEMMA Moves ==
  ASSUME IInv, NEW t \in Tasks, \E f : Calm(f) /\ task' = [task EXCEPT ![t] = f],
         db' \in DB, db'.decided = db.decided, db'.asked = db.asked,
         ran' = ran, userYes' = userYes, Rest'
  PROVE  IInv'
<1> PICK f : Calm(f) /\ task' = [task EXCEPT ![t] = f]
  OBVIOUS
<1>0. Acts' = Acts
  BY DEF Acts
<1>1. task' \in [Tasks -> Frame] /\ task'[t] = f /\ \A u \in Tasks : u # t => task'[u] = task[u]
  BY DEF IInv, TypeOK, Calm
<1>2. TypeOK'
  BY <1>1 DEF IInv, TypeOK, Rest
<1>3. FramesOK'
  BY <1>0, <1>1 DEF IInv, FramesOK, FrameOK, Calm
<1>4. RanDecided' /\ AskedDecided' /\ ActionOnce' /\ ApprovedBeforeRun'
  BY <1>0 DEF IInv, RanDecided, AskedDecided, ActionOnce, ApprovedBeforeRun
<1>5. NotStarted'
  BY <1>1 DEF IInv, NotStarted, Waiting, Calm
<1>6. WaitsOnce'
  BY <1>1 DEF IInv, WaitsOnce, Calm
<1> QED BY <1>2, <1>3, <1>4, <1>5, <1>6 DEF IInv

\* Nothing happens to a task, the decisions and the answers.
LEMMA Stays ==
  ASSUME IInv, task' = task, db' = db, ran' = ran, userYes' = userYes, Rest'
  PROVE  IInv'
<1>1. TypeOK'
  BY DEF IInv, TypeOK, Rest
<1>2. Acts' = Acts
  BY DEF Acts
<1> QED BY <1>1, <1>2 DEF IInv, FramesOK, FrameOK, RanDecided, AskedDecided, NotStarted, Waiting,
                          WaitsOnce, ActionOnce, ApprovedBeforeRun

\* create_mission starts one task with the contract pending, and no action ran.
LEMMA InitIInv == Init => IInv
<1> SUFFICES ASSUME Init PROVE IInv
  OBVIOUS
<1>0. 1 \in Tasks /\ 1 \in 0..MaxTasks /\ 0 \in 0..MaxTasks /\ 0 \in 0..MaxReplies
      /\ 0 \in 0..MaxPauses /\ 0 \in 0..MaxRestarts /\ 0 \in 0..MaxIterations
  BY MissionBounds DEF Tasks
<1>1. [Fresh EXCEPT !.pc = "select", !.rt = 1, !.outer = TRUE, !.pending = Contract] \in Frame
  <2>1. Contract \in Messages
    BY DEF Messages
  <2> QED BY <1>0, <2>1, FreshTyped DEF Frame, Fresh, PCs
<1>2. task \in [Tasks -> Frame]
  BY <1>1, FreshTyped DEF Init
<1>3. NoRuntime \in Runtime /\ [NoRuntime EXCEPT !.task = 1] \in Runtime
  BY <1>0 DEF NoRuntime, Runtime
<1>4. db \in DB
  BY DEF Init, DB
<1>5. TypeOK
  <2>1. overlap \in BOOLEAN /\ st \in States
    BY DEF Init, States, RunningStates
  <2> QED BY <1>0, <1>2, <1>3, <1>4, <2>1 DEF Init, TypeOK
<1>6. FramesOK /\ NotStarted /\ WaitsOnce
  BY <1>0 DEF Init, FramesOK, FrameOK, NotStarted, Waiting, WaitsOnce, Fresh
<1>7. RanDecided /\ AskedDecided /\ ActionOnce /\ ApprovedBeforeRun
  BY DEF Init, RanDecided, AskedDecided, ActionOnce, ApprovedBeforeRun
<1> QED BY <1>5, <1>6, <1>7 DEF IInv
-----------------------------------------------------------------------------
(* One lemma per kind of step.                                             *)

\* What IInv says of one task.
LEMMA FrameFacts ==
  ASSUME IInv, NEW t \in Tasks
  PROVE  task[t] \in Frame /\ FrameOK(task[t]) /\ task \in [Tasks -> Frame]
BY DEF IInv, TypeOK, FramesOK

\* A task at work may go to any program point that asks nothing of its frame.
LEMMA GoesTo ==
  ASSUME NEW f \in Frame, FrameOK(f), f.pc \notin {"unborn", "done", "closing"}, NEW p \in PCs,
         p \notin {"have", "next", "approval", "executing", "reporting"}
  PROVE  Calm([f EXCEPT !.pc = p])
BY DEF Frame, FrameOK, Calm

\* The fields of a runtime that the loop writes keep their types.
LEMMA RuntimeFields ==
  ASSUME IInv, NEW r
  PROVE  /\ \A x \in BOOLEAN : [rtm EXCEPT ![r].bad = @ \/ x] \in [Tasks -> Runtime]
         /\ \A x \in 0..MaxReplies : /\ [rtm EXCEPT ![r].base = x] \in [Tasks -> Runtime]
                                     /\ [rtm EXCEPT ![r].got = x] \in [Tasks -> Runtime]
<1>1. rtm \in [Tasks -> Runtime]
  BY DEF IInv, TypeOK
<1> QED BY <1>1 DEF Runtime

\* One more MESSAGE_DELIVERED row leaves decisions and questions alone.
LEMMA Receipt ==
  ASSUME IInv
  PROVE  LET d == [db EXCEPT !.receipts = @ + 1]
         IN d \in DB /\ d.decided = db.decided /\ d.asked = db.asked
<1>1. db \in DB
  BY DEF IInv, TypeOK
<1> QED BY <1>1 DEF DB

\* The loop ends here, and the database is as it was.
LEMMA EndStep ==
  ASSUME IInv, NEW t \in Tasks, End(t), db' \in DB, db'.decided = db.decided,
         db'.asked = db.asked, ran' = ran, userYes' = userYes, Rest'
  PROVE  IInv'
BY EndCalm, Moves

\* The conversation is selected: the loop starts at its head.
LEMMA SelectedStep == ASSUME IInv, NEW t \in Tasks, Selected(t) PROVE IInv'
<1>1. db \in DB /\ db' = db /\ ran' = ran /\ userYes' = userYes
  BY DEF IInv, TypeOK, Selected, history
<1>2. Rest'
  <2>1. "WAITING_FOR_CHATGPT" \in States
    BY DEF States, RunningStates
  <2> QED BY <2>1, GoTyped DEF IInv, TypeOK, Rest, Selected, outbound, bounds, history
<1>3. Calm([task[t] EXCEPT !.pc = "head"])
  BY FrameFacts, GoesTo DEF Selected, At, PCs, Busy
<1>4. task' = [task EXCEPT ![t] = [task[t] EXCEPT !.pc = "head"]]
  BY DEF Selected
<1> QED BY <1>1, <1>2, <1>3, <1>4, Moves

\* A transport error ends the loop.
LEMMA TransportFailsStep == ASSUME IInv, NEW t \in Tasks, TransportFails(t) PROVE IInv'
<1>1. db \in DB /\ db' = db /\ ran' = ran /\ userYes' = userYes /\ End(t)
  BY DEF IInv, TypeOK, TransportFails, history
<1>2. Rest'
  <2>1. "PAUSED" \in States
    BY DEF States, Stalled
  <2>2. rtm' \in [Tasks -> Runtime]
    BY RuntimeFields DEF TransportFails
  <2> QED BY <2>1, <2>2, GoIfAllowedTyped DEF IInv, TypeOK, Rest, TransportFails, outbound, bounds, history
<1> QED BY <1>1, <1>2, EndStep

\* _run_mission_task notices that its loop is over.
LEMMA CloseStep == ASSUME IInv, NEW t \in Tasks, Close(t) PROVE IInv'
<1>1. db \in DB /\ db' = db /\ ran' = ran /\ userYes' = userYes
  BY DEF IInv, TypeOK, Close, history
<1>2. Rest'
  BY DEF IInv, TypeOK, Rest, Close, mission, outbound, bounds, history
<1>3. Calm(Ended)
  BY FreshTyped DEF Calm, FrameOK, Ended, Fresh
<1> QED BY <1>1, <1>2, <1>3, Moves DEF Close

\* The head of a cycle ends the loop.
LEMMA HeadStopsStep == ASSUME IInv, NEW t \in Tasks, HeadStops(t) PROVE IInv'
<1>1. db \in DB /\ db' = db /\ ran' = ran /\ userYes' = userYes /\ End(t)
  BY DEF IInv, TypeOK, HeadStops, history
<1>2. Rest'
  <2>1. "FAILED" \in States
    BY DEF States, Terminal
  <2> QED BY <2>1, GoTyped DEF IInv, TypeOK, Rest, HeadStops, outbound, bounds, history
<1> QED BY <1>1, <1>2, EndStep

\* The head goes on: to the stashed reply, or to the message that is pending.
LEMMA HeadGoesOnStep == ASSUME IInv, NEW t \in Tasks, HeadGoesOn(t) PROVE IInv'
<1>1. db \in DB /\ db' = db /\ ran' = ran /\ userYes' = userYes
  BY DEF IInv, TypeOK, HeadGoesOn, history
<1>2. Rest'
  BY DEF IInv, TypeOK, Rest, HeadGoesOn, mission, outbound, bounds, history
<1> DEFINE p == IF task[t].rep # 0 THEN "have"
                ELSE IF task[t].pending = None THEN "awaiting" ELSE "next"
<1>3. Calm([task[t] EXCEPT !.pc = p])
  BY FrameFacts DEF HeadGoesOn, At, Calm, FrameOK, Frame, PCs, Busy
<1>4. task' = [task EXCEPT ![t] = [task[t] EXCEPT !.pc = p]]
  BY DEF HeadGoesOn
<1> QED BY <1>1, <1>2, <1>3, <1>4, Moves

\* A message is reserved, or the refusal pauses the mission.
LEMMA ReserveStep == ASSUME IInv, NEW t \in Tasks, Reserve(t) PROVE IInv'
<1>1. db \in DB /\ db' = db /\ ran' = ran /\ userYes' = userYes
  BY DEF IInv, TypeOK, Reserve, history
<1>2. "PAUSED" \in States
  BY DEF States, Stalled
<1>3. CASE MayReserve(task[t].pending)
  <2>1. Rest'
    <3>1. rtm' \in [Tasks -> Runtime]
      <4>1. replies \in 0..MaxReplies /\ rtm' = [rtm EXCEPT ![task[t].rt].base = replies]
        BY <1>3 DEF IInv, TypeOK, Reserve
      <4> QED BY <4>1, RuntimeFields
    <3>2. slot' \in Messages \cup {None}
      BY <1>3, FrameFacts DEF Reserve, Frame
    <3> QED BY <1>3, <3>1, <3>2 DEF IInv, TypeOK, Rest, Reserve, bounds, history
  <2>2. Calm([task[t] EXCEPT !.pc = "sending"])
    BY FrameFacts, GoesTo DEF Reserve, At, PCs, Busy
  <2>3. task' = [task EXCEPT ![t] = [task[t] EXCEPT !.pc = "sending"]]
    BY <1>3 DEF Reserve
  <2> QED BY <1>1, <2>1, <2>2, <2>3, Moves
<1>4. CASE ~MayReserve(task[t].pending)
  <2>1. End(t) /\ Rest'
    BY <1>2, <1>4, GoIfAllowedTyped DEF IInv, TypeOK, Rest, Reserve, bounds, history
  <2> QED BY <1>1, <2>1, EndStep
<1> QED BY <1>3, <1>4

\* The message is proven delivered.
LEMMA ConfirmStep == ASSUME IInv, NEW t \in Tasks, Confirm(t) PROVE IInv'
<1>1. /\ db' \in DB /\ db'.decided = db.decided /\ db'.asked = db.asked
      /\ ran' = ran /\ userYes' = userYes
  BY Receipt DEF Confirm, history
<1>2. Rest'
  BY DEF IInv, TypeOK, Rest, Confirm, mission, bounds, history
<1>3. Calm([task[t] EXCEPT !.pc = "awaiting"])
  BY FrameFacts, GoesTo DEF Confirm, At, PCs, Busy
<1>4. task' = [task EXCEPT ![t] = [task[t] EXCEPT !.pc = "awaiting"]]
  BY DEF Confirm
<1> QED BY <1>1, <1>2, <1>3, <1>4, Moves

\* The message is proven not sent.
LEMMA AbortStep == ASSUME IInv, NEW t \in Tasks, Abort(t) PROVE IInv'
<1>1. db \in DB /\ db' = db /\ ran' = ran /\ userYes' = userYes /\ End(t)
  BY DEF IInv, TypeOK, Abort, history
<1>2. "PAUSED" \in States
  BY DEF States, Stalled
<1>3. Rest'
  BY <1>2, GoIfAllowedTyped DEF IInv, TypeOK, Rest, Abort, bounds, history
<1> QED BY <1>1, <1>3, EndStep

\* A reply was extracted: it is one the page shows.
LEMMA ReceiveStep == ASSUME IInv, NEW t \in Tasks, Receive(t) PROVE IInv'
<1>1. db \in DB /\ db' = db /\ ran' = ran /\ userYes' = userYes
  BY DEF IInv, TypeOK, Receive, history
<1>2. rtm' \in [Tasks -> Runtime]
  BY RuntimeFields DEF IInv, TypeOK, Receive
<1>3. Rest'
  BY <1>2 DEF IInv, TypeOK, Rest, Receive, mission, outbound, bounds, history
<1>4. replies \in 0..MaxReplies /\ replies # 0
  <2>1. task[t].rt \in Tasks
    BY DEF IInv, FramesOK, FrameOK, Receive, At
  <2>2. rtm[task[t].rt].base \in 0..MaxReplies
    BY <2>1 DEF IInv, TypeOK, Runtime
  <2> QED BY <2>2 DEF Receive, MyRuntime, IInv, TypeOK
<1>5. Calm([task[t] EXCEPT !.pc = "have", !.rep = replies])
  <2>1. [task[t] EXCEPT !.pc = "have", !.rep = replies] \in Frame
    BY <1>4, FrameFacts DEF Frame, PCs, Busy
  <2>2. FrameOK([task[t] EXCEPT !.pc = "have", !.rep = replies])
    BY <1>4, FrameFacts DEF Receive, At, FrameOK, Frame
  <2> QED BY <2>1, <2>2, FrameFacts DEF Calm, Frame
<1>6. task' = [task EXCEPT ![t] = [task[t] EXCEPT !.pc = "have", !.rep = replies]]
  BY DEF Receive, IInv, TypeOK
<1> QED BY <1>1, <1>3, <1>5, <1>6, Moves

\* The actions decided are ids of replies.
LEMMA ActsTyped == ASSUME IInv PROVE Acts \subseteq Replies /\ db \in DB
BY DEF IInv, TypeOK, DB, Acts

\* A task that handles a reply has one.
LEMMA ReplyAtHand ==
  ASSUME IInv, NEW t \in Tasks, task[t].pc = "have"
  PROVE  task[t].rep \in Replies
BY FrameFacts, MissionBounds DEF Frame, FrameOK, Replies

\* A task that carries out an action has a valid decision.
LEMMA ActAtHand ==
  ASSUME IInv, NEW t \in Tasks, task[t].pc \in {"approval", "executing", "reporting"}
  PROVE  task[t].act \in Acts /\ task[t].act \in Replies
BY FrameFacts, ActsTyped DEF FrameOK

\* A reply that came too late is stashed or dropped.
LEMMA ReplyTooLateStep == ASSUME IInv, NEW t \in Tasks, ReplyTooLate(t) PROVE IInv'
<1>1. /\ db' \in DB /\ db'.decided = db.decided /\ db'.asked = db.asked
      /\ ran' = ran /\ userYes' = userYes /\ End(t)
  <2>1. db \in DB /\ task[t].rep \in Replies
    BY ReplyAtHand, ActsTyped DEF ReplyTooLate, At
  <2> QED BY <2>1 DEF ReplyTooLate, history, DB
<1>2. Rest'
  BY DEF IInv, TypeOK, Rest, ReplyTooLate, mission, outbound, bounds, history
<1> QED BY <1>1, <1>2, EndStep

\* A reply that no transition admits ends the loop.
LEMMA ReplyCollidesStep == ASSUME IInv, NEW t \in Tasks, ReplyCollides(t) PROVE IInv'
<1>1. /\ db' \in DB /\ db' = db
      /\ ran' = ran /\ userYes' = userYes /\ End(t)
  BY ActsTyped DEF ReplyCollides, Crash, history
<1>2. Rest'
  BY FailTyped DEF IInv, TypeOK, Rest, ReplyCollides, Crash, outbound, bounds, history
<1> QED BY <1>1, <1>2, EndStep

\* A reply seen before changes nothing but the place of the task.
LEMMA DuplicateReplyStep == ASSUME IInv, NEW t \in Tasks, DuplicateReply(t) PROVE IInv'
<1>1. db \in DB /\ db' = db /\ ran' = ran /\ userYes' = userYes
  BY ActsTyped DEF DuplicateReply, history
<1>2. Rest'
  <2>1. "WAITING_FOR_CHATGPT" \in States
    BY DEF States, RunningStates
  <2> QED BY <2>1, GoTyped DEF IInv, TypeOK, Rest, DuplicateReply, outbound, bounds, history
<1> DEFINE f == [task[t] EXCEPT !.pc = "head", !.rep = 0, !.sure = FALSE]
<1>3. Calm(f)
  <2>1. f \in Frame
    <3>1. task[t] \in Frame /\ 0 \in 0..MaxReplies /\ "head" \in PCs
      BY FrameFacts, MissionBounds DEF PCs, Busy
    <3> QED BY <3>1 DEF Frame
  <2>2. FrameOK(f)
    BY FrameFacts DEF DuplicateReply, Parsing, At, FrameOK, Frame
  <2> QED BY <2>1, <2>2, FrameFacts DEF Calm, Frame
<1>4. task' = [task EXCEPT ![t] = f]
  BY FrameFacts DEF DuplicateReply
<1> QED BY <1>1, <1>2, <1>3, <1>4, Moves

\* A reply that is no valid decision is corrected, or the mission fails.
LEMMA ViolationStep == ASSUME IInv, NEW t \in Tasks, Violation(t) PROVE IInv'
<1>1. PICK k \in {task[t].rep} \cup {r \in Replies : InLog(Correction(r))}, c \in 0..1 :
      \E id \in SUBSET {k} :
         /\ db' = [db EXCEPT !.seen = @ \cup {task[t].rep}, !.refused = @ \cup id]
         /\ IF TooManyViolations(t)
            THEN Go("FAILED") /\ End(t)
            ELSE /\ Go("WAITING_FOR_CHATGPT")
                 /\ task' = [task EXCEPT ![t] = [@ EXCEPT !.pc = "head", !.rep = 0,
                                                          !.viol = task[t].viol + 1,
                                                          !.credits = task[t].credits + c,
                                                          !.pending = Correction(k)]]
  BY DEF Violation
<1>2. task[t].rep \in Replies /\ k \in Replies
  BY ReplyAtHand DEF Violation, Parsing, At
<1>3. /\ db' \in DB /\ db'.decided = db.decided /\ db'.asked = db.asked
      /\ ran' = ran /\ userYes' = userYes
  <2>1. db \in DB
    BY ActsTyped
  <2>2. ran' = ran /\ userYes' = userYes
    BY DEF Violation, history
  <2>3. PICK id \in SUBSET {k} :
          db' = [db EXCEPT !.seen = @ \cup {task[t].rep}, !.refused = @ \cup id]
    BY <1>1
  <2> QED BY <1>2, <2>1, <2>2, <2>3 DEF DB
<1>4. Rest'
  <2>1. "WAITING_FOR_CHATGPT" \in States /\ "FAILED" \in States
    BY DEF States, RunningStates, Terminal
  <2>2. st' \in States /\ from' \in States \cup {None}
    BY <1>1, <2>1, GoTyped DEF IInv, TypeOK
  <2> QED BY <2>2 DEF IInv, TypeOK, Rest, Violation, outbound, bounds, history
<1>5. CASE TooManyViolations(t)
  BY <1>1, <1>3, <1>4, <1>5, EndStep
<1>6. CASE ~TooManyViolations(t)
  <2> DEFINE f == [task[t] EXCEPT !.pc = "head", !.rep = 0, !.viol = @ + 1,
                                  !.credits = @ + c, !.pending = Correction(k)]
  <2>1. f \in Frame
    <3>1. Correction(k) \in Messages
      BY <1>2 DEF Messages
    <3>2. task[t].viol + 1 \in 0..MaxViolations-1
      BY <1>6, FrameFacts, MissionBounds DEF TooManyViolations, Frame
    <3>3. task[t] \in Frame /\ 0 \in 0..MaxReplies /\ "head" \in PCs
      BY FrameFacts, MissionBounds DEF PCs, Busy
    <3>4. [task[t] EXCEPT !.pc = "head", !.rep = 0, !.pending = Correction(k)] \in Frame
      BY <3>1, <3>3 DEF Frame
    <3>5. task[t].credits + c \in Nat
      BY <3>3 DEF Frame
    <3>6. f = [[task[t] EXCEPT !.pc = "head", !.rep = 0, !.pending = Correction(k)]
                 EXCEPT !.viol = task[t].viol + 1, !.credits = task[t].credits + c]
      BY <3>3 DEF Frame
    <3> QED BY <3>2, <3>4, <3>5, <3>6 DEF Frame
  <2>2. FrameOK(f)
    <3>1. task[t] \in Frame /\ task[t].rt \in Tasks
      BY FrameFacts DEF Violation, Parsing, At, FrameOK
    <3>2. f.pc = "head" /\ f.rt = task[t].rt
      BY <3>1 DEF Frame
    <3> QED BY <3>1, <3>2 DEF FrameOK
  <2>3. Calm(f)
    BY <2>1, <2>2, FrameFacts DEF Calm, Frame
  <2>4. task' = [task EXCEPT ![t] = f]
    BY <1>1, <1>6, FrameFacts
  <2> QED BY <1>3, <1>4, <2>3, <2>4, Moves
<1> QED BY <1>5, <1>6

\* A new valid decision is recorded, with an action nobody has seen.
LEMMA Decides ==
  ASSUME IInv, NEW t \in Tasks, NEW a \in Replies \ Acts, NEW f \in Frame,
         task' = [task EXCEPT ![t] = f], Acts' = Acts \cup {a},
         f.pc \in {"closing", "done"} \/ (f.act = a /\ f.rt \in Tasks),
         f.pc \notin {"have", "next"}, f.pc = "approval" => f.answer = "none" /\ ran' = ran,
         db' \in DB, db'.asked \subseteq db.asked \cup {a},
         ran' = ran \/ (ran' = Append(ran, a) /\ db'.asked = db.asked),
         userYes' = userYes, Rest'
  PROVE  IInv'
<1>0. ran \in Seq(Replies) /\ db.asked \subseteq Acts
  BY DEF IInv, TypeOK, AskedDecided
<1>1. task' \in [Tasks -> Frame] /\ task'[t] = f /\ \A u \in Tasks : u # t => task'[u] = task[u]
  BY FrameFacts
<1>2. TypeOK'
  <2>1. ran' \in Seq(Replies)
    BY <1>0
  <2>2. userYes \subseteq Replies
    BY DEF IInv, TypeOK
  <2> QED BY <1>1, <2>1, <2>2 DEF TypeOK, Rest
<1>3. FramesOK'
  <2>1. FrameOK(f)'
    BY DEF FrameOK
  <2>2. ASSUME NEW u \in Tasks, u # t PROVE FrameOK(task[u])'
    BY <1>1, <2>2 DEF IInv, FramesOK, FrameOK
  <2>3. ASSUME NEW u \in Tasks PROVE FrameOK(task[u])'
    BY <1>1, <2>1, <2>2 DEF FrameOK
  <2> QED BY <2>3 DEF FramesOK
<1>4. \A i \in 1..Len(ran') : (i \in 1..Len(ran) /\ ran'[i] = ran[i])
                              \/ (i = Len(ran) + 1 /\ ran'[i] = a /\ ran' = Append(ran, a))
  BY <1>0
<1>5. \A i \in 1..Len(ran) : ran[i] \in Acts
  BY DEF IInv, RanDecided
<1>6. RanDecided' /\ AskedDecided'
  BY <1>0, <1>4, <1>5 DEF RanDecided, AskedDecided
<1>7. ActionOnce'
  BY <1>0, <1>4, <1>5 DEF IInv, ActionOnce
<1>8. ApprovedBeforeRun'
  BY <1>0, <1>4, <1>5 DEF IInv, ApprovedBeforeRun
<1>9. \A u \in Tasks : task[u].pc = "approval" => task[u].act \in Acts
  BY ActAtHand
<1>10. NotStarted'
  <2>1. Waiting(f)'
    BY <1>5 DEF Waiting
  <2>2. ASSUME NEW u \in Tasks, u # t PROVE Waiting(task[u])'
    BY <1>1, <1>4, <1>9, <2>2 DEF IInv, NotStarted, Waiting
  <2>3. ASSUME NEW u \in Tasks PROVE Waiting(task[u])'
    BY <1>1, <2>1, <2>2 DEF Waiting
  <2> QED BY <2>3 DEF NotStarted
<1>11. WaitsOnce'
  BY <1>1, <1>9 DEF IInv, WaitsOnce
<1> QED BY <1>2, <1>3, <1>6, <1>7, <1>8, <1>10, <1>11 DEF IInv

\* The decision that cannot be recorded takes no action.
LEMMA RecordCollidesStep ==
  ASSUME IInv, NEW t \in Tasks, NEW a, NEW i \in 1..MaxIterations, RecordCollides(t, a, i)
  PROVE  IInv'
<1>1. /\ db' \in DB /\ db'.decided = db.decided /\ db'.asked = db.asked
      /\ ran' = ran /\ userYes' = userYes /\ End(t)
  <2>1. db \in DB /\ task[t].rep \in Replies
    BY ReplyAtHand, ActsTyped DEF RecordCollides, Valid, Parsing, At
  <2> QED BY <2>1 DEF RecordCollides, history, DB
<1>2. Rest'
  <2>1. "FAILED" \in States
    BY DEF States, Terminal
  <2>2. cursor' \in 0..MaxIterations
    BY MissionBounds DEF RecordCollides
  <2> QED BY <2>1, <2>2, GoTyped DEF IInv, TypeOK, Rest, RecordCollides, outbound, bounds, history
<1> QED BY <1>1, <1>2, EndStep

\* A decision takes an action id that no decision had: the action cannot have
\* been started, or be waiting in any task, before.
LEMMA DecideStep ==
  ASSUME IInv, NEW t \in Tasks, NEW a \in {task[t].rep} \cup Acts \cup db.refused,
         NEW i \in 1..MaxIterations, Decide(t, a, i)
  PROVE  IInv'
<1> DEFINE r == task[t].rep
           d == [db EXCEPT !.seen = @ \cup {r}, !.decided = @ \cup {[act |-> a, iter |-> i]}]
           f == [task[t] EXCEPT !.rep = 0, !.sure = FALSE, !.viol = 0, !.credits = 0, !.act = a]
<1>1. r \in Replies /\ db \in DB /\ Acts \subseteq Replies
  BY ReplyAtHand, ActsTyped DEF Decide, Valid, Parsing, At
<1>2. a \in Replies \ Acts
  BY <1>1 DEF Decide, Valid, NewAction, DB
<1>3. i \in Nat
  BY MissionBounds
<1>4. /\ d \in DB /\ d.asked = db.asked
      /\ d.decided = db.decided \cup {[act |-> a, iter |-> i]}
  <2>1. [act |-> a, iter |-> i] \in [act : Replies, iter : Nat]
    BY <1>2, <1>3
  <2>2. /\ db.decided \cup {[act |-> a, iter |-> i]} \subseteq [act : Replies, iter : Nat]
        /\ db.seen \cup {r} \subseteq Replies
    BY <1>1, <2>1 DEF DB
  <2> QED BY <1>1, <2>2 DEF DB
<1>5. [d EXCEPT !.asked = @ \cup {a}] \in DB
      /\ [d EXCEPT !.asked = @ \cup {a}].decided = d.decided
      /\ [d EXCEPT !.asked = @ \cup {a}].asked = db.asked \cup {a}
  BY <1>2, <1>4 DEF DB
<1>6. db' = d \/ db' = [d EXCEPT !.asked = @ \cup {a}]
  BY DEF Decide
<1>7. /\ db' \in DB /\ db'.asked \subseteq db.asked \cup {a}
      /\ db'.decided = db.decided \cup {[act |-> a, iter |-> i]}
  BY <1>4, <1>5, <1>6
<1>8. Acts' = Acts \cup {a}
  <2>1. Acts' = {x.act : x \in db.decided \cup {[act |-> a, iter |-> i]}}
    BY <1>7 DEF Acts
  <2>2. [act |-> a, iter |-> i].act = a
    OBVIOUS
  <2> QED BY <2>1, <2>2, Zenon DEF Acts
<1>9. userYes' = userYes /\ UNCHANGED <<slot, log, replies, rtm, rt, overlap, pauses, restarts>>
  BY DEF Decide, outbound, bounds
<1>10. Rest'
  <2>1. {"PAUSED", "PARSING_DECISION", "BLOCKED", "COMPLETED", "FINAL_VALIDATION",
         "WAITING_FOR_APPROVAL", "EXECUTING_LOCAL_ACTION"} \subseteq States
    BY DEF States, Stalled, RunningStates, Terminal
  <2>2. st' \in States /\ from' \in States \cup {None}
    BY <2>1, GoTyped DEF Decide, IInv, TypeOK
  <2>3. cursor' \in 0..MaxIterations
    BY MissionBounds DEF Decide
  <2> QED BY <1>9, <2>2, <2>3 DEF IInv, TypeOK, Rest
<1>11. task[t] \in Frame /\ task[t].rt \in Tasks
  BY FrameFacts DEF Decide, Valid, Parsing, At, FrameOK
<1>12. f \in Frame /\ f.act = a /\ f.rt = task[t].rt
  <2>1. 0 \in 0..MaxReplies /\ a \in 0..MaxReplies /\ 0 \in 0..MaxViolations-1
    BY <1>2, MissionBounds DEF Replies
  <2> QED BY <1>11, <2>1 DEF Frame
<1>13. CASE End(t) /\ db' = d /\ ran' = ran
  <2>1. PICK g \in Frame : g.pc \in {"closing", "done"} /\ task' = [task EXCEPT ![t] = g]
    BY <1>13, FreshTyped DEF End, Ended, Fresh
  <2> QED BY <1>2, <1>7, <1>8, <1>9, <1>10, <1>13, <2>1, Decides
<1>14. ASSUME NEW p \in {"reporting", "executing"}, task' = [task EXCEPT ![t] = [f EXCEPT !.pc = p]],
              db' = d, ran' = ran \/ ran' = Append(ran, a)
       PROVE  IInv'
  <2>1. /\ [f EXCEPT !.pc = p] \in Frame /\ [f EXCEPT !.pc = p].pc = p
        /\ [f EXCEPT !.pc = p].act = a /\ [f EXCEPT !.pc = p].rt \in Tasks
    BY <1>11, <1>12 DEF Frame, PCs, Busy
  <2>2. db'.asked = db.asked
    BY <1>4, <1>14
  <2> HIDE DEF f
  <2> QED BY <1>2, <1>7, <1>8, <1>9, <1>10, <1>14, <2>1, <2>2, Decides
<1>15. CASE /\ task' = [task EXCEPT ![t] = [f EXCEPT !.pc = "approval", !.answer = "none"]]
            /\ ran' = ran
  <2> DEFINE g == [f EXCEPT !.pc = "approval", !.answer = "none"]
  <2>1. g \in Frame /\ g.pc = "approval" /\ g.answer = "none" /\ g.act = a /\ g.rt \in Tasks
    BY <1>11, <1>12 DEF Frame, PCs, Busy
  <2> HIDE DEF f, g
  <2>2. task' = [task EXCEPT ![t] = g]
    BY <1>15 DEF g
  <2> QED BY <1>2, <1>7, <1>8, <1>9, <1>10, <1>15, <2>1, <2>2, Decides
<1> QED BY <1>13, <1>14, <1>15 DEF Decide

\* A refusal is reported: the action does not wait any more, and did not run.
LEMMA DeniedStep == ASSUME IInv, NEW t \in Tasks, Denied(t) PROVE IInv'
<1>1. task[t] \in Frame /\ db \in DB /\ task[t].act \in Acts /\ task[t].act \in Replies /\ task[t].rt \in Tasks
  BY FrameFacts, ActsTyped, ActAtHand DEF Denied, At, FrameOK
<1>2. /\ db' \in DB /\ db'.decided = db.decided /\ db'.asked = db.asked
      /\ ran' = ran /\ userYes' = userYes
  BY <1>1 DEF Denied, history, DB
<1>3. Rest'
  BY DEF IInv, TypeOK, Rest, Denied, mission, outbound, bounds, history
<1> DEFINE f == [task[t] EXCEPT !.pc = "reporting", !.answer = "none"]
<1>4. f \in Frame /\ f.pc = "reporting" /\ f.act = task[t].act /\ f.rt = task[t].rt
  BY <1>1 DEF Frame, PCs, Busy
<1>5. Calm(f)
  BY <1>1, <1>4 DEF Calm, FrameOK
<1>6. task' = [task EXCEPT ![t] = f]
  BY FrameFacts DEF Denied
<1> QED BY <1>2, <1>3, <1>5, <1>6, Moves

\* The tool ends: its action stays a decided one.
LEMMA ToolEndsStep == ASSUME IInv, NEW t \in Tasks, ToolEnds(t) PROVE IInv'
<1>1. task[t] \in Frame /\ db \in DB /\ task[t].act \in Acts /\ task[t].act \in Replies /\ task[t].rt \in Tasks
  BY FrameFacts, ActsTyped, ActAtHand DEF ToolEnds, At, FrameOK
<1>2. /\ db' \in DB /\ db'.decided = db.decided /\ db'.asked = db.asked
      /\ ran' = ran /\ userYes' = userYes
  <2>1. ran' = ran /\ userYes' = userYes
    BY DEF ToolEnds, history
  <2>2. PICK v \in {db.validated, db.validated \cup {task[t].act}} :
          db' = [db EXCEPT !.executed = @ \cup {task[t].act}, !.validated = v]
    BY DEF ToolEnds
  <2>3. db.executed \cup {task[t].act} \subseteq Replies /\ v \subseteq Replies
    BY <1>1, <2>2 DEF DB
  <2> QED BY <1>1, <2>1, <2>2, <2>3 DEF DB
<1> DEFINE f == [task[t] EXCEPT !.pc = "reporting"]
<1>3. f \in Frame /\ f.pc = "reporting" /\ f.act = task[t].act /\ f.rt = task[t].rt
  BY <1>1 DEF Frame, PCs, Busy
<1>4. Calm(f)
  BY <1>1, <1>3 DEF Calm, FrameOK
<1>5. TypeOK /\ "VALIDATING_ACTION" \in States /\ Step(t, "VALIDATING_ACTION", f)
  BY DEF IInv, ToolEnds, States, RunningStates
<1>6. /\ st' \in States /\ from' \in States \cup {None} /\ cursor' = cursor
      /\ \E g : Calm(g) /\ task' = [task EXCEPT ![t] = g]
  <2> HIDE DEF f
  <2> QED BY <1>4, <1>5, StepCalm
<1>7. Rest'
  BY <1>6 DEF IInv, TypeOK, Rest, ToolEnds, outbound, bounds, history
<1> QED BY <1>2, <1>6, <1>7, Moves

\* The report is filed, and is the message to send next.
LEMMA FileReportStep == ASSUME IInv, NEW t \in Tasks, FileReport(t) PROVE IInv'
<1>1. task[t] \in Frame /\ db \in DB /\ task[t].act \in Acts /\ task[t].act \in Replies /\ task[t].rt \in Tasks
  BY FrameFacts, ActsTyped, ActAtHand DEF FileReport, At, FrameOK
<1>2. /\ db' \in DB /\ db'.decided = db.decided /\ db'.asked = db.asked
      /\ ran' = ran /\ userYes' = userYes
  <2>1. [db EXCEPT !.reported = Append(@, task[t].act)] \in DB
    <3>1. Append(db.reported, task[t].act) \in Seq(Replies)
      <4>1. db.reported \in Seq(Replies)
        BY <1>1 DEF DB
      <4> QED BY <1>1, <4>1
    <3> QED BY <1>1, <3>1 DEF DB
  <2> QED BY <1>1, <2>1 DEF FileReport, history, DB
<1> DEFINE f == [task[t] EXCEPT !.pc = "replanning", !.act = 0, !.pending = Report(task[t].act)]
<1>3. f \in Frame /\ f.pc = "replanning" /\ f.rt = task[t].rt
  <2>1. Report(task[t].act) \in Messages /\ 0 \in 0..MaxReplies
    BY <1>1, MissionBounds DEF Messages
  <2> QED BY <1>1, <2>1 DEF Frame, PCs, Busy
<1>4. Calm(f)
  BY <1>1, <1>3 DEF Calm, FrameOK
<1>5. TypeOK /\ "SENDING_REPORT" \in States /\ Step(t, "SENDING_REPORT", f)
  BY DEF IInv, FileReport, States, RunningStates
<1>6. /\ st' \in States /\ from' \in States \cup {None} /\ cursor' = cursor
      /\ \E g : Calm(g) /\ task' = [task EXCEPT ![t] = g]
  <2> HIDE DEF f
  <2> QED BY <1>4, <1>5, StepCalm
<1>7. Rest'
  BY <1>6 DEF IInv, TypeOK, Rest, FileReport, outbound, bounds, history
<1> QED BY <1>2, <1>6, <1>7, Moves

\* REPLANNING is entered, or the loop crashes.
LEMMA ReplanStep == ASSUME IInv, NEW t \in Tasks, Replan(t) PROVE IInv'
<1>1. db \in DB /\ db' = db /\ ran' = ran /\ userYes' = userYes
  BY ActsTyped DEF Replan, history
<1> DEFINE f == [task[t] EXCEPT !.pc = "advancing"]
<1>2. Calm(f)
  BY FrameFacts, GoesTo DEF Replan, At, PCs, Busy
<1>3. TypeOK /\ "REPLANNING" \in States /\ Step(t, "REPLANNING", f)
  BY DEF IInv, Replan, States, RunningStates
<1>4. /\ st' \in States /\ from' \in States \cup {None} /\ cursor' = cursor
      /\ \E g : Calm(g) /\ task' = [task EXCEPT ![t] = g]
  <2> HIDE DEF f
  <2> QED BY <1>2, <1>3, StepCalm
<1>5. Rest'
  BY <1>4 DEF IInv, TypeOK, Rest, Replan, outbound, bounds, history
<1> QED BY <1>1, <1>4, <1>5, Moves

\* The iteration advances within the budget, or the mission fails.
LEMMA AdvanceStep == ASSUME IInv, NEW t \in Tasks, Advance(t) PROVE IInv'
<1>1. db \in DB /\ db' = db /\ ran' = ran /\ userYes' = userYes
  BY ActsTyped DEF Advance, history
<1>2. Rest'
  <2>1. "FAILED" \in States /\ "WAITING_FOR_CHATGPT" \in States
    BY DEF States, RunningStates, Terminal
  <2>2. cursor' \in 0..MaxIterations
    BY MissionBounds DEF Advance, IInv, TypeOK
  <2> QED BY <2>1, <2>2, GoTyped DEF IInv, TypeOK, Rest, Advance, outbound, bounds, history
<1>3. CASE cursor + 1 > MaxIterations
  BY <1>1, <1>2, <1>3, EndStep DEF Advance
<1>4. CASE ~(cursor + 1 > MaxIterations)
  <2>1. Calm([task[t] EXCEPT !.pc = "head"])
    BY FrameFacts, GoesTo DEF Advance, At, PCs, Busy
  <2>2. task' = [task EXCEPT ![t] = [task[t] EXCEPT !.pc = "head"]]
    BY <1>4 DEF Advance
  <2> QED BY <1>1, <1>2, <2>1, <2>2, Moves
<1> QED BY <1>3, <1>4

\* The resume starts with the message whose fate is open.
LEMMA ReconcileStep == ASSUME IInv, NEW t \in Tasks, Reconcile(t) PROVE IInv'
<1>1. db \in DB /\ db' = db /\ ran' = ran /\ userYes' = userYes
  BY ActsTyped DEF Reconcile, history
<1>2. Rest'
  BY DEF IInv, TypeOK, Rest, Reconcile, mission, outbound, bounds, history
<1> DEFINE p == IF slot = None THEN "rebuild" ELSE "proving"
           f == [task[t] EXCEPT !.pc = p, !.pending = slot]
<1>3. task[t] \in Frame /\ task[t].rt \in Tasks /\ slot \in Messages \cup {None}
  BY FrameFacts DEF Reconcile, At, FrameOK, IInv, TypeOK
<1>4. f \in Frame /\ f.pc = p /\ f.rt = task[t].rt
  BY <1>3 DEF Frame, PCs, Busy
<1>5. Calm(f)
  BY <1>3, <1>4 DEF Calm, FrameOK
<1>6. task' = [task EXCEPT ![t] = f]
  BY FrameFacts DEF Reconcile
<1> QED BY <1>1, <1>2, <1>5, <1>6, Moves

\* It is proven delivered.
LEMMA ProveStep == ASSUME IInv, NEW t \in Tasks, Prove(t) PROVE IInv'
<1>1. /\ db' \in DB /\ db'.decided = db.decided /\ db'.asked = db.asked
      /\ ran' = ran /\ userYes' = userYes
  BY Receipt DEF Prove, history
<1>2. Rest'
  BY DEF IInv, TypeOK, Rest, Prove, mission, bounds, history
<1>3. Calm([task[t] EXCEPT !.pc = "rebuild"])
  BY FrameFacts, GoesTo DEF Prove, At, PCs, Busy
<1>4. task' = [task EXCEPT ![t] = [task[t] EXCEPT !.pc = "rebuild"]]
  BY DEF Prove
<1> QED BY <1>1, <1>2, <1>3, <1>4, Moves

\* What a resume sends first is a report filed before, the contract or nothing.
LEMMA ResumePendingTyped == ASSUME IInv PROVE ResumePending \in Messages \cup {None}
<1>1. db.reported \in Seq(Replies)
  BY ActsTyped DEF DB
<1>2. Len(db.reported) > 0 => db.reported[Len(db.reported)] \in Replies
  BY <1>1
<1> QED BY <1>2 DEF ResumePending, Messages

\* The last reply stashed is taken again, or the page is searched.
LEMMA RebuildStep == ASSUME IInv, NEW t \in Tasks, Rebuild(t) PROVE IInv'
<1>1. task[t] \in Frame /\ task[t].rt \in Tasks /\ db \in DB /\ ResumePending \in Messages \cup {None}
  BY FrameFacts, ActsTyped, ResumePendingTyped DEF Rebuild, At, FrameOK
<1>2. Rest' /\ ran' = ran /\ userYes' = userYes
  BY DEF IInv, TypeOK, Rest, Rebuild, mission, outbound, bounds, history
<1>3. CASE db.stashed # {}
  <2>1. PICK r \in db.stashed :
          /\ db' = [db EXCEPT !.stashed = @ \ {r}]
          /\ task' = [task EXCEPT ![t] = [@ EXCEPT !.pc = "head", !.rep = r,
                                                   !.pending = ResumePending]]
    BY <1>3 DEF Rebuild
  <2>2. db' \in DB /\ db'.decided = db.decided /\ db'.asked = db.asked
    BY <1>1, <2>1 DEF DB
  <2> DEFINE f == [task[t] EXCEPT !.pc = "head", !.rep = r, !.pending = ResumePending]
  <2>3. r \in 0..MaxReplies
    BY <1>1 DEF DB, Replies
  <2>4. f \in Frame /\ f.pc = "head" /\ f.rt = task[t].rt
    BY <1>1, <2>3 DEF Frame, PCs, Busy
  <2>5. Calm(f)
    BY <1>1, <2>4 DEF Calm, FrameOK
  <2>6. task' = [task EXCEPT ![t] = f]
    BY <2>1, FrameFacts
  <2> QED BY <1>2, <2>2, <2>5, <2>6, Moves
<1>4. CASE db.stashed = {}
  <2>1. db' = db
    BY <1>4 DEF Rebuild
  <2>2. ASSUME NEW p \in {"head", "recover"}, NEW m \in Messages \cup {None},
               task' = [task EXCEPT ![t] = [@ EXCEPT !.pc = p, !.pending = m]]
        PROVE  IInv'
    <3> DEFINE f == [task[t] EXCEPT !.pc = p, !.pending = m]
    <3>1. f \in Frame /\ f.pc = p /\ f.rt = task[t].rt
      BY <1>1 DEF Frame, PCs, Busy
    <3>2. Calm(f)
      BY <1>1, <3>1 DEF Calm, FrameOK
    <3>3. task' = [task EXCEPT ![t] = f]
      BY <2>2, FrameFacts
    <3> QED BY <1>1, <1>2, <2>1, <3>2, <3>3, Moves
  <2> QED BY <1>1, <1>4, <2>2 DEF Rebuild
<1> QED BY <1>3, <1>4

\* The reply found on the page is one the page shows.
LEMMA RecoverStep == ASSUME IInv, NEW t \in Tasks, Recover(t) PROVE IInv'
<1>1. db \in DB /\ db' = db /\ ran' = ran /\ userYes' = userYes
  BY ActsTyped DEF Recover, history
<1>2. Rest'
  BY DEF IInv, TypeOK, Rest, Recover, mission, outbound, bounds, history
<1>3. PICK r \in {0} \cup (1..replies \ Acts) :
        task' = [task EXCEPT ![t] = [@ EXCEPT !.pc = "head", !.rep = r, !.sure = (r # 0),
                                              !.pending = ResumePending]]
  BY DEF Recover
<1>4. /\ task[t] \in Frame /\ task[t].rt \in Tasks
      /\ ResumePending \in Messages \cup {None} /\ r \in 0..MaxReplies
  <2>1. task[t] \in Frame /\ task[t].rt \in Tasks
    BY FrameFacts DEF Recover, At, FrameOK
  <2>2. replies \in 0..MaxReplies
    BY DEF IInv, TypeOK
  <2>3. r \in 0..MaxReplies
    BY <2>2, MissionBounds
  <2> QED BY <2>1, <2>3, ResumePendingTyped
<1> DEFINE f == [task[t] EXCEPT !.pc = "head", !.rep = r, !.sure = (r # 0), !.pending = ResumePending]
<1>5. f \in Frame /\ f.pc = "head" /\ f.rt = task[t].rt
  <2>1. ASSUME NEW b \in BOOLEAN
        PROVE  LET g == [task[t] EXCEPT !.pc = "head", !.rep = r, !.sure = b,
                                        !.pending = ResumePending]
               IN  g \in Frame /\ g.pc = "head" /\ g.rt = task[t].rt
    BY <1>4 DEF Frame, PCs, Busy
  <2>2. (r # 0) \in BOOLEAN
    OBVIOUS
  <2> QED BY <2>1, <2>2
<1>6. Calm(f)
  BY <1>4, <1>5 DEF Calm, FrameOK
<1>7. task' = [task EXCEPT ![t] = f]
  BY <1>3, FrameFacts
<1> QED BY <1>1, <1>2, <1>6, <1>7, Moves

\* The new runtime attaches: its task reconciles, or the mission is failed.
LEMMA AttachedStep == ASSUME IInv, NEW t \in Tasks, Attached(t) PROVE IInv'
<1>1. db \in DB /\ db' = db /\ ran' = ran /\ userYes' = userYes
  BY ActsTyped DEF Attached, history
<1>2. CASE st \in Stalled
  <2>1. Rest'
    <3>1. [NoRuntime EXCEPT !.task = t, !.base = replies] \in Runtime
      <4>1. t \in 0..MaxTasks /\ replies \in 0..MaxReplies /\ 0 \in 0..MaxReplies
        BY MissionBounds DEF IInv, TypeOK, Tasks
      <4> QED BY <4>1 DEF NoRuntime, Runtime
    <3>2. rtm' \in [Tasks -> Runtime]
      BY <1>2, <3>1 DEF Attached, IInv, TypeOK
    <3>3. "WAITING_FOR_CHATGPT" \in States
      BY DEF States, RunningStates
    <3> QED BY <1>2, <3>2, <3>3 DEF IInv, TypeOK, Rest, Attached, outbound, bounds, history
  <2>2. Calm([task[t] EXCEPT !.pc = "reconcile"])
    BY FrameFacts, GoesTo DEF Attached, At, PCs, Busy
  <2>3. task' = [task EXCEPT ![t] = [task[t] EXCEPT !.pc = "reconcile"]]
    BY <1>2 DEF Attached
  <2> QED BY <1>1, <2>1, <2>2, <2>3, Moves
<1>3. CASE st \notin Stalled
  <2>1. End(t) /\ Rest'
    BY <1>3, FailTyped, MissionBounds DEF IInv, TypeOK, Rest, Attached, outbound, bounds, history
  <2> QED BY <1>1, <2>1, EndStep
<1> QED BY <1>2, <1>3

\* It does not attach: no runtime is left.
LEMMA AttachFailsStep == ASSUME IInv, NEW t \in Tasks, AttachFails(t) PROVE IInv'
<1>1. db \in DB /\ db' = db /\ ran' = ran /\ userYes' = userYes /\ End(t)
  BY ActsTyped DEF AttachFails, history
<1>2. Rest'
  <2>1. "FAILED" \in States /\ 0 \in 0..MaxTasks
    BY MissionBounds DEF States, Terminal
  <2> QED BY <2>1, FailTyped DEF IInv, TypeOK, Rest, AttachFails, outbound, bounds, history
<1> QED BY <1>1, <1>2, EndStep

\* The coordinator goes on with the runtime it was started for, or ends.
LEMMA AfterStep == ASSUME IInv, NEW t \in Tasks, After(t) PROVE IInv'
<1>1. db \in DB /\ db' = db /\ ran' = ran /\ userYes' = userYes
  BY ActsTyped DEF After, history
<1>2. Rest'
  BY DEF IInv, TypeOK, Rest, After, mission, outbound, bounds, history
<1>3. CASE End(t)
  BY <1>1, <1>2, <1>3, EndStep
<1>4. CASE task' = [task EXCEPT ![t] = [@ EXCEPT !.pc = "reconcile", !.waits = 0]]
  <2> DEFINE f == [task[t] EXCEPT !.pc = "reconcile", !.waits = 0]
  <2>1. task[t] \in Frame /\ task[t].rt \in Tasks /\ 0 \in 0..MaxTasks
    BY FrameFacts, MissionBounds DEF After, At, FrameOK
  <2>2. f \in Frame /\ f.pc = "reconcile" /\ f.rt = task[t].rt
    BY <2>1 DEF Frame, PCs, Busy
  <2>3. Calm(f)
    BY <2>1, <2>2 DEF Calm, FrameOK
  <2>4. task' = [task EXCEPT ![t] = f]
    BY <1>4, FrameFacts
  <2> QED BY <1>1, <1>2, <2>3, <2>4, Moves
<1> QED BY <1>3, <1>4 DEF After

\* A coordinator is started for the runtime at work.
LEMMA ResumeActiveStep == ASSUME IInv, NEW t \in Tasks, ResumeActive(t) PROVE IInv'
<1>1. db \in DB /\ db' = db /\ ran' = ran /\ userYes' = userYes
  BY ActsTyped DEF ResumeActive, history
<1> DEFINE f == [Fresh EXCEPT !.pc = "after", !.rt = rt, !.waits = rtm[rt].task]
<1>2. rt \in Tasks /\ rt \in 0..MaxTasks /\ rtm[rt].task \in 0..MaxTasks /\ rtm \in [Tasks -> Runtime]
  BY DEF ResumeActive, IInv, TypeOK, Tasks, Runtime
<1>3. Rest'
  <2>1. t \in 0..MaxTasks /\ from \in States
    BY DEF Tasks, ResumeActive, States
  <2>2. rtm' \in [Tasks -> Runtime]
    BY <1>2, <2>1 DEF ResumeActive, Runtime
  <2> QED BY <2>1, <2>2 DEF IInv, TypeOK, Rest, ResumeActive, outbound, bounds, history
<1>4. f \in Frame /\ f.pc = "after" /\ f.rt = rt
  <2>1. Fresh \in Frame
    BY FreshTyped
  <2> QED BY <1>2, <2>1 DEF Frame, PCs, Busy
<1>5. Calm(f)
  BY <1>2, <1>4 DEF Calm, FrameOK
<1>6. task' = [task EXCEPT ![t] = f]
  BY DEF ResumeActive
<1> QED BY <1>1, <1>3, <1>5, <1>6, Moves

\* A resume without a runtime builds one.
LEMMA ResumeRebuildStep == ASSUME IInv, NEW t \in Tasks, ResumeRebuild(t) PROVE IInv'
<1>1. db \in DB /\ db' = db /\ ran' = ran /\ userYes' = userYes
  BY ActsTyped DEF ResumeRebuild, history
<1>2. t \in 0..MaxTasks
  BY DEF Tasks
<1>3. Rest'
  BY <1>2 DEF IInv, TypeOK, Rest, ResumeRebuild, mission, outbound, bounds, history
<1> DEFINE f == [Fresh EXCEPT !.pc = "attach", !.rt = t]
<1>4. f \in Frame /\ f.pc = "attach" /\ f.rt = t
  <2>1. Fresh \in Frame
    BY FreshTyped
  <2> QED BY <1>2, <2>1 DEF Frame, PCs, Busy
<1>5. Calm(f)
  BY <1>4 DEF Calm, FrameOK
<1>6. task' = [task EXCEPT ![t] = f]
  BY DEF ResumeRebuild
<1> QED BY <1>1, <1>3, <1>5, <1>6, Moves

\* The tool of an approved action starts: it waited in this task alone and was
\* not started, and the user said yes to it.
LEMMA ApprovedStep == ASSUME IInv, NEW t \in Tasks, Approved(t) PROVE IInv'
<1>1. db \in DB /\ db' = db /\ userYes' = userYes /\ Acts' = Acts
  BY ActsTyped DEF Approved, Acts
<1>2. "EXECUTING_LOCAL_ACTION" \in States /\ TypeOK
  BY DEF States, RunningStates, IInv
<1>3. CASE "EXECUTING_LOCAL_ACTION" \notin Transitions(st)
  <2>1. End(t) /\ ran' = ran /\ Rest'
    BY <1>3, FailTyped DEF Approved, Step, Crash, IInv, TypeOK, Rest, outbound, bounds, history
  <2> QED BY <1>1, <2>1, EndStep
<1>4. CASE "EXECUTING_LOCAL_ACTION" \in Transitions(st)
  <2> DEFINE f == [task[t] EXCEPT !.pc = "executing", !.answer = "none"]
             a == task[t].act
  <2>1. task[t] \in Frame /\ task[t].rt \in Tasks /\ a \in Acts /\ a \in Replies
        /\ task[t].pc = "approval" /\ task[t].answer = "yes"
    BY FrameFacts, ActAtHand DEF Approved, At, FrameOK
  <2>2. (\A i \in 1..Len(ran) : ran[i] # a) /\ a \in userYes
    BY <2>1 DEF IInv, NotStarted, Waiting
  <2>3. f \in Frame /\ f.pc = "executing" /\ f.act = a /\ f.rt = task[t].rt
    BY <2>1 DEF Frame, PCs, Busy
  <2>4. task' = [task EXCEPT ![t] = f] /\ ran' = Append(ran, a) /\ Go("EXECUTING_LOCAL_ACTION")
        /\ cursor' = cursor
    BY <1>4 DEF Approved, Step
  <2> HIDE DEF f
  <2>5. task' \in [Tasks -> Frame] /\ task'[t] = f /\ \A u \in Tasks : u # t => task'[u] = task[u]
    BY <2>3, <2>4, FrameFacts
  <2>6. ran \in Seq(Replies) /\ ran' \in Seq(Replies)
    <3>1. ran \in Seq(Replies)
      BY DEF IInv, TypeOK
    <3> QED BY <2>1, <2>4, <3>1
  <2>7. \A i \in 1..Len(ran') : (i \in 1..Len(ran) /\ ran'[i] = ran[i])
                                \/ (i = Len(ran) + 1 /\ ran'[i] = a)
    BY <2>4, <2>6
  <2>8. TypeOK'
    <3>1. Rest'
      BY <1>2, <2>4, GoTyped DEF Approved, IInv, TypeOK, Rest, outbound, bounds, history
    <3>2. userYes \subseteq Replies
      BY DEF IInv, TypeOK
    <3> QED BY <1>1, <2>5, <2>6, <3>1, <3>2 DEF TypeOK, Rest
  <2>9. FramesOK'
    BY <1>1, <2>1, <2>3, <2>5 DEF IInv, FramesOK, FrameOK
  <2>10. RanDecided' /\ AskedDecided'
    BY <1>1, <2>1, <2>7 DEF IInv, RanDecided, AskedDecided
  <2>11. ActionOnce'
    BY <2>2, <2>6, <2>7 DEF IInv, ActionOnce
  <2>12. ApprovedBeforeRun'
    BY <1>1, <2>2, <2>7 DEF IInv, ApprovedBeforeRun
  <2>13. NotStarted'
    BY <1>1, <2>1, <2>3, <2>5, <2>7 DEF IInv, NotStarted, Waiting, WaitsOnce
  <2>14. WaitsOnce'
    BY <2>3, <2>5 DEF IInv, WaitsOnce
  <2> QED BY <2>8, <2>9, <2>10, <2>11, <2>12, <2>13, <2>14 DEF IInv
<1> QED BY <1>3, <1>4

\* The user's answer reaches the one task that waits for this action.
LEMMA ApproveStep ==
  ASSUME IInv, NEW a \in Replies, NEW yes \in BOOLEAN, Approve(a, yes)
  PROVE  IInv'
<1>1. db \in DB /\ db' = db /\ ran' = ran /\ Acts' = Acts
  BY ActsTyped DEF Approve, Acts
<1>2. PICK t \in Tasks : /\ Matches(t, a)
                         /\ task' = [task EXCEPT ![t].answer = IF yes THEN "yes" ELSE "no"]
  BY DEF Approve
<1> DEFINE f == [task[t] EXCEPT !.answer = IF yes THEN "yes" ELSE "no"]
<1>3. task[t] \in Frame /\ FrameOK(task[t]) /\ task[t].pc = "approval" /\ task[t].act = a
  BY <1>2, FrameFacts DEF Matches, Pending
<1>4. /\ f \in Frame /\ f.pc = "approval" /\ f.act = a /\ f.rt = task[t].rt
      /\ f.answer = "yes" => yes
  BY <1>3 DEF Frame
<1>5. task' = [task EXCEPT ![t] = f]
  BY <1>2
<1> HIDE DEF f
<1>6. task' \in [Tasks -> Frame] /\ task'[t] = f /\ \A u \in Tasks : u # t => task'[u] = task[u]
  BY <1>4, <1>5, FrameFacts
<1>7. userYes \subseteq userYes' /\ userYes' \subseteq userYes \cup {a} /\ (yes => a \in userYes')
  BY DEF Approve
<1>8. TypeOK'
  <2>1. userYes' \subseteq Replies /\ ran \in Seq(Replies)
    BY <1>7 DEF IInv, TypeOK
  <2>2. Rest'
    BY DEF Approve, IInv, TypeOK, Rest, mission, outbound, bounds, history
  <2> QED BY <1>1, <1>6, <2>1, <2>2 DEF TypeOK, Rest
<1>9. FramesOK'
  BY <1>1, <1>3, <1>4, <1>6 DEF IInv, FramesOK, FrameOK
<1>10. RanDecided' /\ AskedDecided' /\ ActionOnce' /\ ApprovedBeforeRun'
  BY <1>1, <1>7 DEF IInv, RanDecided, AskedDecided, ActionOnce, ApprovedBeforeRun
<1>11. NotStarted'
  BY <1>1, <1>3, <1>4, <1>6, <1>7 DEF IInv, NotStarted, Waiting
<1>12. WaitsOnce'
  BY <1>3, <1>4, <1>6 DEF IInv, WaitsOnce
<1> QED BY <1>8, <1>9, <1>10, <1>11, <1>12 DEF IInv

\* Tasks are cancelled, or all of them are gone.
LEMMA Cancelling ==
  ASSUME IInv, task' \in [Tasks -> Frame],
         \A u \in Tasks : \/ task'[u] = task[u]
                          \/ task'[u].pc \in {"done", "unborn"}
                          \/ /\ task[u].pc = "approval" /\ task'[u].pc = "approval"
                             /\ task'[u].act = task[u].act /\ task'[u].rt = task[u].rt
                             /\ task'[u].answer = "no",
         db' = db, ran' = ran, userYes' = userYes, Rest'
  PROVE  IInv'
<1>1. Acts' = Acts
  BY DEF Acts
<1>2. TypeOK'
  BY DEF IInv, TypeOK, Rest
<1>3. FramesOK'
  BY <1>1 DEF IInv, FramesOK, FrameOK
<1>4. RanDecided' /\ AskedDecided' /\ ActionOnce' /\ ApprovedBeforeRun'
  BY <1>1 DEF IInv, RanDecided, AskedDecided, ActionOnce, ApprovedBeforeRun
<1>5. NotStarted'
  BY DEF IInv, NotStarted, Waiting
<1>6. WaitsOnce'
  BY DEF IInv, WaitsOnce
<1> QED BY <1>2, <1>3, <1>4, <1>5, <1>6 DEF IInv

\* A cancellation ends tasks, or answers their approval with no.
LEMMA CancelStep == ASSUME IInv, Cancel PROVE IInv'
<1> DEFINE killed == IF rt = 0 THEN {} ELSE Chain[rtm[rt].task]
<1>1. db' = db /\ ran' = ran /\ userYes' = userYes
  BY DEF Cancel, history
<1>2. Rest'
  <2>1. "CANCELLED" \in States
    BY DEF States, Terminal
  <2> QED BY <2>1, GoIfAllowedTyped DEF Cancel, IInv, TypeOK, Rest, outbound, bounds, history
<1>3. task' = [u \in Tasks |->
                 IF u \notin killed \/ task[u].pc = "done" THEN task[u]
                 ELSE IF task[u].pc = "approval" THEN [task[u] EXCEPT !.answer = "no"]
                 ELSE Ended]
  BY DEF Cancel
<1> HIDE DEF killed
<1>4. ASSUME NEW u \in Tasks
      PROVE  LET f == [task[u] EXCEPT !.answer = "no"]
             IN /\ f \in Frame /\ f.pc = task[u].pc /\ f.act = task[u].act
                /\ f.rt = task[u].rt /\ f.answer = "no"
  <2>1. task[u] \in Frame
    BY FrameFacts
  <2> QED BY <2>1 DEF Frame
<1>5. \A u \in Tasks : task[u] \in Frame
  BY FrameFacts
<1>6. Ended \in Frame /\ Ended.pc = "done"
  BY FreshTyped DEF Ended, Fresh
<1>7. task' \in [Tasks -> Frame]
  BY <1>3, <1>4, <1>5, <1>6
<1>8. \A u \in Tasks : \/ task'[u] = task[u]
                       \/ task'[u].pc \in {"done", "unborn"}
                       \/ /\ task[u].pc = "approval" /\ task'[u].pc = "approval"
                          /\ task'[u].act = task[u].act /\ task'[u].rt = task[u].rt
                          /\ task'[u].answer = "no"
  BY <1>3, <1>4, <1>6
<1> QED BY <1>1, <1>2, <1>7, <1>8, Cancelling

\* A kill leaves no task, and pauses a mission that was running.
LEMMA RestartStep == ASSUME IInv, Restart PROVE IInv'
<1>1. db' = db /\ ran' = ran /\ userYes' = userYes
  BY DEF Restart, history
<1>2. Rest'
  <2>1. "PAUSED_RECOVERY_REQUIRED" \in States /\ 0 \in 0..MaxTasks
    BY MissionBounds DEF States, Stalled
  <2>2. NoRuntime \in Runtime
    BY MissionBounds DEF NoRuntime, Runtime
  <2>3. rtm' \in [Tasks -> Runtime]
    BY <2>2 DEF Restart
  <2>4. restarts' \in 0..MaxRestarts
    BY MissionBounds DEF Restart, IInv, TypeOK
  <2> QED BY <2>1, <2>3, <2>4, GoTyped DEF Restart, IInv, TypeOK, Rest, outbound, history
<1>3. task' \in [Tasks -> Frame] /\ \A u \in Tasks : task'[u].pc \in {"done", "unborn"}
  BY FreshTyped DEF Restart, Fresh
<1> QED BY <1>1, <1>2, <1>3, Cancelling

\* A pause, a message that shows and an answer of ChatGPT touch no task.
LEMMA OutsideStep == ASSUME IInv, Pause \/ Land \/ Answer PROVE IInv'
<1>1. task' = task /\ db' = db /\ ran' = ran /\ userYes' = userYes
  BY DEF Pause, Land, Answer, history
<1>2. Rest'
  <2>1. CASE Pause
    <3>1. "PAUSED" \in States
      BY DEF States, Stalled
    <3>2. pauses' \in 0..MaxPauses
      BY <2>1, MissionBounds DEF Pause, IInv, TypeOK
    <3> QED BY <2>1, <3>1, <3>2, GoTyped DEF Pause, IInv, TypeOK, Rest, outbound, history
  <2>2. CASE Land
    <3>1. log' \in Seq(Messages)
      <4>1. log \in Seq(Messages) /\ slot \in Messages
        BY <2>2 DEF Land, IInv, TypeOK
      <4> QED BY <2>2, <4>1 DEF Land
    <3> QED BY <2>2, <3>1 DEF Land, IInv, TypeOK, Rest, mission, bounds, history
  <2>3. CASE Answer
    <3>1. replies' \in 0..MaxReplies
      BY <2>3, MissionBounds DEF Answer, IInv, TypeOK
    <3> QED BY <2>3, <3>1 DEF Answer, IInv, TypeOK, Rest, mission, bounds, history
  <2> QED BY <2>1, <2>2, <2>3
<1> QED BY <1>1, <1>2, Stays

\* Every step of the mission keeps IInv.
LEMMA IInvStep == IInv /\ [Next]_vars => IInv'
<1> SUFFICES ASSUME IInv, [Next]_vars PROVE IInv'
  OBVIOUS
<1>1. CASE UNCHANGED vars
  <2>1. task' = task /\ db' = db /\ ran' = ran /\ userYes' = userYes /\ Rest'
    BY <1>1 DEF vars, mission, outbound, history, bounds, IInv, TypeOK, Rest
  <2> QED BY <2>1, Stays
<1>2. ASSUME NEW t \in Tasks, TaskStep(t) PROVE IInv'
  <2>1. CASE HeadStops(t) \/ HeadGoesOn(t)
    BY <2>1, HeadStopsStep, HeadGoesOnStep
  <2>2. CASE ReplyTooLate(t) \/ ReplyCollides(t) \/ DuplicateReply(t) \/ Violation(t)
    BY <2>2, ReplyTooLateStep, ReplyCollidesStep, DuplicateReplyStep, ViolationStep
  <2>3. CASE DecideAny(t)
    BY <2>3, DecideStep, RecordCollidesStep DEF DecideAny
  <2>4. CASE FileReport(t) \/ Replan(t) \/ Advance(t) \/ Rebuild(t)
    BY <2>4, FileReportStep, ReplanStep, AdvanceStep, RebuildStep
  <2>5. CASE Selected(t) \/ Reserve(t) \/ Confirm(t) \/ Abort(t) \/ Receive(t)
    BY <2>5, SelectedStep, ReserveStep, ConfirmStep, AbortStep, ReceiveStep
  <2>6. CASE Approved(t) \/ Denied(t) \/ ToolEnds(t)
    BY <2>6, ApprovedStep, DeniedStep, ToolEndsStep
  <2>7. CASE Reconcile(t) \/ Prove(t) \/ Recover(t)
    BY <2>7, ReconcileStep, ProveStep, RecoverStep
  <2>8. CASE Attached(t) \/ AttachFails(t) \/ After(t)
    BY <2>8, AttachedStep, AttachFailsStep, AfterStep
  <2>9. CASE TransportFails(t) \/ Close(t)
    BY <2>9, TransportFailsStep, CloseStep
  <2> QED BY <1>2, <2>1, <2>2, <2>3, <2>4, <2>5, <2>6, <2>7, <2>8, <2>9 DEF TaskStep
<1>3. ASSUME NEW t \in Tasks, ResumeActive(t) \/ ResumeRebuild(t) PROVE IInv'
  BY <1>3, ResumeActiveStep, ResumeRebuildStep
<1>4. ASSUME NEW a \in Replies, NEW yes \in BOOLEAN, Approve(a, yes) PROVE IInv'
  BY <1>4, ApproveStep
<1>5. CASE Pause \/ Cancel \/ Land \/ Answer \/ Restart
  BY <1>5, OutsideStep, CancelStep, RestartStep
<1> QED BY <1>1, <1>2, <1>3, <1>4, <1>5 DEF Next
-----------------------------------------------------------------------------
(* What follows for every run.                                             *)

\* IInv holds in every state.
THEOREM Invariance == Spec => []IInv
BY InitIInv, IInvStep, PTL DEF Spec

\* The state of the mission, its tables and the frames of its tasks keep the
\* types of TypeOK, however many tasks, replies and restarts there are.
THEOREM TypeCorrect == Spec => []TypeOK
<1>1. IInv => TypeOK
  BY DEF IInv
<1> QED BY <1>1, Invariance, PTL

\* No action is executed twice, whatever pauses, resumes, kills of the backend
\* and repeated replies do.
THEOREM NoActionTwice == Spec => []ActionOnce
<1>1. IInv => ActionOnce
  BY DEF IInv
<1> QED BY <1>1, Invariance, PTL

\* An action put to the user is executed only after a yes to that action.
THEOREM ApprovalsKept == Spec => []ApprovedBeforeRun
<1>1. IInv => ApprovedBeforeRun
  BY DEF IInv
<1> QED BY <1>1, Invariance, PTL

\* A step that touches neither the slot nor the log is a stutter of the outbox;
\* a loop only ends, it does not touch them.
LEMMA QuietStep ==
  ASSUME NEW t \in Tasks, TaskStep(t), ~Reserve(t), ~Confirm(t), ~Abort(t), ~Prove(t)
  PROVE  UNCHANGED <<log, slot>>
BY DEF TaskStep, outbound, HeadStops, HeadGoesOn, ReplyTooLate, ReplyCollides, DuplicateReply,
       Violation, DecideAny, Decide, RecordCollides, FileReport, Replan, Advance, Rebuild,
       Selected, Receive, Approved, Denied, ToolEnds, Reconcile, Recover, Attached, AttachFails,
       After, TransportFails, Close

\* A reservation opens the slot for a message that is not in the conversation;
\* a receipt or a proof that nothing was sent settles it.
LEMMA OutboxTaskStep ==
  ASSUME IInv, NEW t \in Tasks, TaskStep(t)
  PROVE  O!Next \/ UNCHANGED <<log, slot>>
<1>1. CASE Reserve(t)
  <2>1. task[t].pending \in Messages
    BY <1>1, FrameFacts DEF Reserve, At, Frame, FrameOK
  <2>2. CASE MayReserve(task[t].pending)
    <3>1. slot = None /\ ~O!InLog(task[t].pending)
      BY <2>2 DEF MayReserve, InLog, O!InLog
    <3>2. slot' = task[t].pending /\ log' = log
      BY <1>1, <2>2 DEF Reserve
    <3>3. O!Open
      BY <2>1, <3>1, <3>2 DEF O!Open
    <3> QED BY <3>3 DEF O!Next
  <2>3. CASE ~MayReserve(task[t].pending)
    BY <1>1, <2>3 DEF Reserve
  <2> QED BY <2>2, <2>3
<1>2. CASE Confirm(t) \/ Abort(t) \/ Prove(t)
  <2>1. log' = log /\ (slot' = None \/ slot' = slot)
    BY <1>2 DEF Confirm, Abort, Prove
  <2> QED BY <2>1 DEF O!Next, O!Settle
<1>3. CASE ~Reserve(t) /\ ~Confirm(t) /\ ~Abort(t) /\ ~Prove(t)
  BY <1>3, QuietStep
<1> QED BY <1>1, <1>2, <1>3

\* What the loops of the mission do to its conversation, with pauses, resumes
\* and kills of the backend, is what the outbox allows: one message at a time,
\* and none of them twice.
THEOREM ImplementsOutbox == Spec => OutboxSpec
<1>1. Init => O!Init
  BY DEF Init, O!Init
<1>2. IInv /\ [Next]_vars => [O!Next]_<<log, slot>>
  <2> SUFFICES ASSUME IInv, [Next]_vars PROVE O!Next \/ UNCHANGED <<log, slot>>
    OBVIOUS
  <2>1. CASE UNCHANGED vars
    BY <2>1 DEF vars, outbound
  <2>2. ASSUME NEW t \in Tasks, TaskStep(t) PROVE O!Next \/ UNCHANGED <<log, slot>>
    BY <2>2, OutboxTaskStep
  <2>3. ASSUME NEW t \in Tasks, ResumeActive(t) \/ ResumeRebuild(t) PROVE UNCHANGED <<log, slot>>
    BY <2>3 DEF ResumeActive, ResumeRebuild, outbound
  <2>4. ASSUME NEW a \in Replies, NEW yes \in BOOLEAN, Approve(a, yes) PROVE UNCHANGED <<log, slot>>
    BY <2>4 DEF Approve, outbound
  <2>5. CASE Land
    BY <2>5 DEF Land, InLog, O!InLog, O!Enter, O!Next
  <2>6. CASE Pause \/ Cancel \/ Answer \/ Restart
    BY <2>6 DEF Pause, Cancel, Answer, Restart, outbound
  <2> QED BY <2>1, <2>2, <2>3, <2>4, <2>5, <2>6 DEF Next
<1> QED BY <1>1, <1>2, Invariance, PTL DEF Spec, OutboxSpec, O!Spec
==============================================================================
