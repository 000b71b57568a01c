----------------------------- MODULE MissionLoop -----------------------------
(***************************************************************************)
(* One mission of the console: the loop of orchestration/loop.py with its  *)
(* state machine (orchestration/state.py), the runner that drives it over  *)
(* the browser (orchestration/runner.py), and the HTTP handlers and resume *)
(* tasks of console/missions.py that pause it, approve its actions, cancel *)
(* it and build it again.                                                  *)
(*                                                                         *)
(* Several tasks may drive the mission in one life of the backend: the one *)
(* create_mission starts, coordinators that wait for a running loop before *)
(* they resume, and loops rebuilt by a resume.  They share an event loop:  *)
(* a task gives way only at an await, so other tasks and handlers find no  *)
(* task at a program point of Busy.  A kill of the process strikes between *)
(* any two steps.                                                          *)
(*                                                                         *)
(* The outbound journal is replaced by its abstract specification, Outbox. *)
(* What ChatGPT says is chosen when the reply is parsed: the bytes of a    *)
(* reply matter to nobody before.  An action id is the reply it came with. *)
(***************************************************************************)
EXTENDS MissionStates, Sequences, Naturals, FiniteSets

CONSTANTS
  None,
  MaxTasks,       \* bound: tasks and resume requests in one life of the backend
  MaxReplies,     \* bound: replies of ChatGPT
  MaxIterations,  \* budget max_iterations
  MaxViolations,  \* MAX_CONSECUTIVE_PROTOCOL_VIOLATIONS
  RepetitionThreshold,   \* budget repetition_threshold
  MaxPauses,      \* bound: pause requests granted
  MaxRestarts     \* bound: restarts of the backend

ASSUME MissionBounds ==
  /\ MaxTasks \in Nat \ {0} /\ MaxReplies \in Nat /\ MaxIterations \in Nat \ {0}
  /\ MaxViolations \in Nat \ {0} /\ RepetitionThreshold \in Nat \ {0} /\ MaxPauses \in Nat /\ MaxRestarts \in Nat

Tasks == 1..MaxTasks
Replies == 1..MaxReplies
Contract == <<"contract", 0>>
Report(a) == <<"report", a>>
Correction(k) == <<"correction", k>>
Messages == {Contract} \cup {Report(a) : a \in Replies} \cup {Correction(k) : k \in Replies}

VARIABLES
  st, from,   \* missions.state and paused_from_state
  cursor,     \* missions.iteration
  db,         \* the other tables: see DB below
  slot,       \* the outbound message whose fate is not settled
  log,        \* the mission's messages in the conversation
  replies,    \* replies of ChatGPT on the page
  task,       \* each task: its frame, see Frame below
  rtm,        \* each runtime, named after the task that built it
  rt,         \* _runtimes: the current runtime, 0 when there is none
  ran,        \* history: the actions whose tool was started, in order
  userYes,    \* history: the actions the user said yes to
  overlap,    \* history: a resume was granted while another one was attaching
  pauses, restarts

outbound == <<slot, log, replies>>
mission == <<st, from, cursor>>
history == <<ran, userYes, overlap>>
bounds == <<pauses, restarts>>
vars == <<mission, db, outbound, task, rtm, rt, history, bounds>>

DB == [seen : SUBSET Replies,        \* messages: fingerprints of replies
       decided : SUBSET [act : Replies, iter : Nat],   \* valid decisions
       refused : SUBSET Replies,     \* action ids of invalid decisions
       reported : Seq(Replies),      \* REPORT_SENT rows
       receipts : Nat,               \* number of MESSAGE_DELIVERED rows
       stashed : SUBSET Replies,     \* PAUSED_RESPONSE_STASHED, not consumed
       asked : SUBSET Replies,       \* actions put to the user
       denied : SUBSET Replies,      \* approvals with approved = 0
       executed : SUBSET Replies,    \* tool_executions
       validated : SUBSET Replies]   \* validation_results with passed = 1

\* At these points the task runs on without an await.
Busy == {"head", "have", "reporting", "replanning", "advancing", "rebuild"}
PCs == {"unborn", "select", "attach", "after", "reconcile", "proving", "recover",
        "next", "sending", "awaiting", "approval", "executing", "closing", "done"} \cup Busy

Frame == [pc : PCs,
          pending : Messages \cup {None},   \* _pending
          rep : 0..MaxReplies,              \* the reply at hand, or _stashed at the head
          sure : BOOLEAN,                   \* recovered from the page: known to be valid
          act : 0..MaxReplies,              \* the decision being carried out
          answer : {"none", "yes", "no"},   \* approval_event and approval_scope
          viol : 0..MaxViolations-1, credits : Nat,
          outer : BOOLEAN,                  \* wrapped by _run_mission_task
          rt : 0..MaxTasks, waits : 0..MaxTasks]

Fresh == [pc |-> "unborn", pending |-> None, rep |-> 0, sure |-> FALSE, act |-> 0,
          answer |-> "none", viol |-> 0, credits |-> 0, outer |-> FALSE,
          rt |-> 0, waits |-> 0]
Ended == [Fresh EXCEPT !.pc = "done"]

\* rt.task; transport paused or uncertain; replies in its baseline; last extracted.
Runtime == [task : 0..MaxTasks, bad : BOOLEAN, base : 0..MaxReplies, got : 0..MaxReplies]
NoRuntime == [task |-> 0, bad |-> FALSE, base |-> 0, got |-> 0]

TypeOK ==
  /\ st \in States /\ from \in States \cup {None}
  /\ cursor \in 0..MaxIterations
  /\ db \in DB
  /\ slot \in Messages \cup {None} /\ log \in Seq(Messages)
  /\ replies \in 0..MaxReplies
  /\ task \in [Tasks -> Frame]
  /\ rtm \in [Tasks -> Runtime] /\ rt \in 0..MaxTasks
  /\ ran \in Seq(Replies) /\ userYes \subseteq Replies /\ overlap \in BOOLEAN
  /\ pauses \in 0..MaxPauses /\ restarts \in 0..MaxRestarts

\* create_mission has stored the mission and started its task.
Init ==
  /\ st = "INITIALIZING_MISSION" /\ from = None /\ cursor = 0
  /\ db = [seen |-> {}, decided |-> {}, refused |-> {}, reported |-> <<>>, receipts |-> 0, stashed |-> {},
           asked |-> {}, denied |-> {}, executed |-> {}, validated |-> {}]
  /\ slot = None /\ log = <<>> /\ replies = 0
  /\ task = [t \in Tasks |-> IF t = 1 THEN [Fresh EXCEPT !.pc = "select", !.rt = 1, !.outer = TRUE,
                                                                      !.pending = Contract]
                             ELSE Fresh]
  /\ rtm = [t \in Tasks |-> IF t = 1 THEN [NoRuntime EXCEPT !.task = 1] ELSE NoRuntime]
  /\ rt = 1
  /\ ran = <<>> /\ userYes = {} /\ overlap = FALSE
  /\ pauses = 0 /\ restarts = 0

-----------------------------------------------------------------------------
(* Helpers                                                                 *)

InLog(m) == \E i \in 1..Len(log) : log[i] = m
Acts == {d.act : d \in db.decided}
MyRuntime(t) == rtm[task[t].rt]

\* Task t runs at program point p: no other task is in the middle of something.
At(t, p) == task[t].pc = p /\ \A u \in Tasks : task[u].pc \in Busy => u = t

\* No task is: a handler may run.  A busy task does not look at the page either,
\* so what happens there meanwhile is as good as happening after it.
Quiet == \A u \in Tasks : task[u].pc \notin Busy

\* Store.transition: the state before a pause is kept, any other step forgets it.
Go(target) ==
  /\ st' = target
  /\ from' = IF target \in Stalled THEN st ELSE None

\* A transition whose failure is ignored.
GoIfAllowed(target) ==
  IF target \in Transitions(st) THEN Go(target) ELSE UNCHANGED <<st, from>>

\* _fail_mission: FAILED, or CANCELLED where only that is allowed.
FailMission ==
  IF "FAILED" \in Transitions(st) THEN Go("FAILED") ELSE GoIfAllowed("CANCELLED")

\* The loop of task t is over.  The task itself is, too, unless
\* _run_mission_task has still to notice it.
End(t) == task' = [task EXCEPT ![t] = IF task[t].outer THEN [Ended EXCEPT !.pc = "closing"] ELSE Ended]

\* An exception that is no transport error: "runner crashed", "resume crashed".
Crash(t) == End(t) /\ FailMission /\ UNCHANGED cursor

\* A step of the mission that is allowed, or the exception of Store.transition.
Step(t, target, frame) ==
  IF target \in Transitions(st)
  THEN Go(target) /\ task' = [task EXCEPT ![t] = frame] /\ UNCHANGED cursor
  ELSE Crash(t)

-----------------------------------------------------------------------------
(* The loop                                                                *)

\* run_mission: the conversation is selected, and loop.start runs through to
\* WAITING_FOR_CHATGPT.
Selected(t) ==
  /\ At(t, "select")
  /\ IF st = "INITIALIZING_MISSION" THEN Go("WAITING_FOR_CHATGPT") ELSE UNCHANGED <<st, from>>
  /\ task' = [task EXCEPT ![t].pc = "head"]
  /\ UNCHANGED <<cursor, db, outbound, rtm, rt, history, bounds>>

\* A transport error or a blocker pauses the mission.  A timeout of the reply
\* and an unconfirmed send also leave the transport paused.
TransportFails(t) ==
  /\ \E p \in {"select", "next", "sending", "awaiting", "proving", "recover"} : At(t, p)
  /\ End(t) /\ GoIfAllowed("PAUSED")
  /\ \E b \in BOOLEAN :
       /\ task[t].pc = "sending" => b
       /\ task[t].pc \in {"select", "next", "proving", "recover"} => ~b
       /\ rtm' = [rtm EXCEPT ![task[t].rt].bad = @ \/ b]
  /\ UNCHANGED <<cursor, db, outbound, rt, history, bounds>>

Close(t) ==
  /\ At(t, "closing")
  /\ task' = [task EXCEPT ![t] = Ended]
  /\ UNCHANGED <<mission, db, outbound, rtm, rt, history, bounds>>

\* The head of a cycle finds the mission stopped, or its budget spent.
HeadStops(t) ==
  /\ At(t, "head")
  /\ \/ st \in Terminal \cup Stalled /\ UNCHANGED <<st, from>>
     \/ st \notin Terminal \cup Stalled /\ Go("FAILED")    \* MISSION_TIMEOUT, or the iterations
  /\ End(t)
  /\ UNCHANGED <<cursor, db, outbound, rtm, rt, history, bounds>>

\* Take the stashed reply, or ask for the next one.
HeadGoesOn(t) ==
  /\ At(t, "head")
  /\ st \notin Terminal \cup Stalled /\ cursor < MaxIterations
  /\ task' = [task EXCEPT ![t].pc = IF task[t].rep # 0 THEN "have"
                                    ELSE IF task[t].pending = None THEN "awaiting" ELSE "next"]
  /\ UNCHANGED <<mission, db, outbound, rtm, rt, history, bounds>>

\* Mutant of MayReserve: an unsettled message does not block.
MutMayReserve(m) == ~InLog(m)

\* reserve_outbound.
MayReserve(m) == slot = None /\ ~InLog(m)

\* next_decision: the head of the page was read, reserve the message.  A
\* refusal is DELIVERY_UNCERTAIN: the mission pauses.
Reserve(t) ==
  /\ At(t, "next") /\ ~MyRuntime(t).bad
  /\ LET m == task[t].pending IN
       IF MayReserve(m)
       THEN /\ slot' = m
            /\ task' = [task EXCEPT ![t].pc = "sending"]
            /\ rtm' = [rtm EXCEPT ![task[t].rt].base = replies]
            /\ UNCHANGED <<st, from>>
       ELSE /\ End(t) /\ GoIfAllowed("PAUSED")
            /\ UNCHANGED <<slot, rtm>>
  /\ UNCHANGED <<cursor, db, log, replies, rt, history, bounds>>

\* The message shows on the page: MESSAGE_DELIVERED.
Confirm(t) ==
  /\ At(t, "sending") /\ InLog(task[t].pending)
  /\ slot' = IF slot = task[t].pending THEN None ELSE slot
  /\ db' = [db EXCEPT !.receipts = @ + 1]
  /\ task' = [task EXCEPT ![t].pc = "awaiting"]
  /\ UNCHANGED <<mission, log, replies, rtm, rt, history, bounds>>

\* A proven non-delivery: MESSAGE_SEND_ABORTED, and the mission pauses.
Abort(t) ==
  /\ At(t, "sending") /\ slot = task[t].pending /\ ~InLog(slot)
  /\ slot' = None
  /\ End(t) /\ GoIfAllowed("PAUSED")
  /\ UNCHANGED <<cursor, db, log, replies, rtm, rt, history, bounds>>

\* await_response: the latest message outside the baseline, extracted once.
Receive(t) ==
  /\ At(t, "awaiting") /\ ~MyRuntime(t).bad
  /\ replies > MyRuntime(t).base /\ replies # MyRuntime(t).got
  /\ task' = [task EXCEPT ![t] = [@ EXCEPT !.pc = "have", !.rep = replies]]
  /\ rtm' = [rtm EXCEPT ![task[t].rt].got = replies]
  /\ UNCHANGED <<mission, db, outbound, rt, history, bounds>>

-----------------------------------------------------------------------------
(* A reply: _handle_reply                                                  *)

\* The mission was stopped while the reply was awaited: keep the reply for the
\* resume, or drop it.
ReplyTooLate(t) ==
  /\ At(t, "have") /\ st \in Terminal \cup Stalled
  /\ db' = IF st \in Stalled THEN [db EXCEPT !.stashed = @ \cup {task[t].rep}] ELSE db
  /\ End(t)
  /\ UNCHANGED <<mission, outbound, rtm, rt, history, bounds>>

\* PARSING_DECISION cannot be entered: another task is at work.
ReplyCollides(t) ==
  /\ At(t, "have") /\ st \notin Terminal \cup Stalled
  /\ "PARSING_DECISION" \notin Transitions(st)
  /\ Crash(t)
  /\ UNCHANGED <<db, outbound, rtm, rt, history, bounds>>

\* PARSING_DECISION is entered; the step that follows is part of the action.
Parsing(t) ==
  /\ At(t, "have") /\ st \notin Terminal \cup Stalled
  /\ "PARSING_DECISION" \in Transitions(st)

\* DUPLICATE_RESPONSE_IGNORED: nothing changes but the state, through REPLANNING.
DuplicateReply(t) ==
  /\ Parsing(t) /\ task[t].rep \in db.seen
  /\ Go("WAITING_FOR_CHATGPT")
  /\ task' = [task EXCEPT ![t] = [@ EXCEPT !.pc = "head", !.rep = 0, !.sure = FALSE]]
  /\ UNCHANGED <<cursor, db, outbound, rtm, rt, history, bounds>>

\* Mutant of TooManyViolations: off by one.
MutTooManyViolations(t) == task[t].viol + 1 > MaxViolations

TooManyViolations(t) == task[t].viol + 1 >= MaxViolations

\* A reply that is no valid decision: no decision block, malformed JSON (which
\* grants a resynchronisation credit), or a decision refused by
\* validate_decision.  Its action id, or a new one when there is none to read,
\* is recorded unless a row has it already; the same invalid decision twice
\* gets the same correction.
Violation(t) ==
  /\ Parsing(t) /\ task[t].rep \notin db.seen /\ ~task[t].sure
  /\ \E k \in {task[t].rep} \cup {r \in Replies : InLog(Correction(r))}, c \in 0..1 :
     \E id \in SUBSET {k} :
       /\ c = 1 => k = task[t].rep /\ id = {k}
       /\ k # task[t].rep => id = {}
       /\ id = {} => k # task[t].rep \/ Acts \cup db.refused # {}
       /\ db' = [db EXCEPT !.seen = @ \cup {task[t].rep}, !.refused = @ \cup id]
       /\ IF TooManyViolations(t)
          THEN Go("FAILED") /\ End(t)
          ELSE /\ Go("WAITING_FOR_CHATGPT")
               /\ task' = [task EXCEPT ![t] = [@ EXCEPT
                      !.pc = "head", !.rep = 0, !.viol = task[t].viol + 1,
                      !.credits = task[t].credits + c, !.pending = Correction(k)]]
  /\ UNCHANGED <<cursor, outbound, rtm, rt, history, bounds>>

\* Mutant of NewAction: the ids of the decisions already taken are not looked at.
MutNewAction(a) == TRUE

\* validate_decision refuses an action id that a valid decision already has.
NewAction(a) == a \notin Acts

\* The iteration a decision may carry: the next one, or one that the credits
\* of malformed replies let it skip to.
Expected(t, i) == i \in cursor + 1 .. cursor + 1 + task[t].credits /\ i <= MaxIterations

\* Mutant of EvidenceComplete: no failure is enough, nothing need have succeeded.
MutEvidenceComplete == db.executed \subseteq db.validated /\ db.denied = {}

\* default_trace_validator.
EvidenceComplete == db.validated # {} /\ db.executed \subseteq db.validated /\ db.denied = {}

\* _track_repetition: enough decisions and enough failed ones, were they all alike.
MayRepeat ==
  /\ Cardinality(db.decided) + 1 >= RepetitionThreshold
  /\ Cardinality({i \in 1..Len(db.reported) : db.reported[i] \notin db.validated})
       >= RepetitionThreshold - 1

\* The reply at hand is a valid decision with action id a for iteration i.
Valid(t, a, i) ==
  /\ Parsing(t) /\ task[t].rep \notin db.seen /\ NewAction(a) /\ Expected(t, i)
  /\ task[t].sure => a \in {task[t].rep} \cup db.refused /\ i = cursor + 1

\* A valid decision whose action id stands on the row of an invalid one: the row
\* cannot be written, and the DuplicateRecord ends the loop.
RecordCollides(t, a, i) ==
  /\ Valid(t, a, i) /\ a \in db.refused
  /\ cursor' = i - 1
  /\ Go("FAILED") /\ End(t)
  /\ db' = [db EXCEPT !.seen = @ \cup {task[t].rep}]
  /\ UNCHANGED <<outbound, rtm, rt, history, bounds>>

\* A valid decision, with action id a: process_decision, then the branch of
\* _handle_reply and _handle_action it leads to, up to the next await.
Decide(t, a, i) ==
  LET r == task[t].rep
      d == [db EXCEPT !.seen = @ \cup {r}, !.decided = @ \cup {[act |-> a, iter |-> i]}]
      f == [task[t] EXCEPT !.rep = 0, !.sure = FALSE, !.viol = 0, !.credits = 0, !.act = a]
  IN
  /\ Valid(t, a, i) /\ a \notin db.refused
  /\ cursor' = i - 1
  /\ \/ /\ MayRepeat                                               \* REPETITION_LOOP
        /\ st' = "PAUSED" /\ from' = "PARSING_DECISION" /\ End(t)
        /\ db' = d /\ UNCHANGED ran
     \/ /\ Go("BLOCKED") /\ End(t)
        /\ db' = d /\ UNCHANGED ran
     \/ /\ EvidenceComplete                                        \* COMPLETE
        /\ Go("COMPLETED") /\ End(t)
        /\ db' = d /\ UNCHANGED ran
     \/ /\ ~EvidenceComplete                                       \* COMPLETE
        /\ Go("FINAL_VALIDATION") /\ task' = [task EXCEPT ![t] = [f EXCEPT !.pc = "reporting"]]
        /\ db' = d /\ UNCHANGED ran
     \/ /\ Go("PARSING_DECISION")                       \* no action, or denied by policy
        /\ task' = [task EXCEPT ![t] = [f EXCEPT !.pc = "reporting"]]
        /\ db' = d /\ UNCHANGED ran
     \/ /\ Go("WAITING_FOR_APPROVAL")
        /\ task' = [task EXCEPT ![t] = [f EXCEPT !.pc = "approval", !.answer = "none"]]
        /\ db' = [d EXCEPT !.asked = @ \cup {a}] /\ UNCHANGED ran
     \/ /\ Go("EXECUTING_LOCAL_ACTION")
        /\ task' = [task EXCEPT ![t] = [f EXCEPT !.pc = "executing"]]
        /\ ran' = Append(ran, a)
        /\ db' = d
  /\ UNCHANGED <<outbound, rtm, rt, userYes, overlap, bounds>>

\* The action id of a reply is new, or one the conversation has seen before.
DecideAny(t) == \E a \in {task[t].rep} \cup Acts \cup db.refused, i \in 1..MaxIterations :
  Decide(t, a, i) \/ RecordCollides(t, a, i)

-----------------------------------------------------------------------------
(* An action: approval, execution, report                                  *)

\* The callback of _make_approval_callback returns a scope: the tool starts,
\* unless the mission left WAITING_FOR_APPROVAL since the user answered.
Approved(t) ==
  /\ At(t, "approval") /\ task[t].answer = "yes"
  /\ Step(t, "EXECUTING_LOCAL_ACTION", [task[t] EXCEPT !.pc = "executing", !.answer = "none"])
  /\ ran' = IF "EXECUTING_LOCAL_ACTION" \in Transitions(st) THEN Append(ran, task[t].act) ELSE ran
  /\ UNCHANGED <<db, outbound, rtm, rt, userYes, overlap, bounds>>

\* It returns None: the user refused, or the task was cancelled.
Denied(t) ==
  /\ At(t, "approval") /\ task[t].answer = "no"
  /\ db' = [db EXCEPT !.denied = @ \cup {task[t].act}]
  /\ task' = [task EXCEPT ![t] = [@ EXCEPT !.pc = "reporting", !.answer = "none"]]
  /\ UNCHANGED <<mission, outbound, rtm, rt, history, bounds>>

\* The tool returns or raises a tool error; its result is recorded, validated.
ToolEnds(t) ==
  /\ At(t, "executing")
  /\ \E ok \in BOOLEAN :
       db' = [db EXCEPT !.executed = @ \cup {task[t].act},
                        !.validated = IF ok /\ "VALIDATING_ACTION" \in Transitions(st)
                                      THEN @ \cup {task[t].act} ELSE @]
  /\ Step(t, "VALIDATING_ACTION", [task[t] EXCEPT !.pc = "reporting"])
  /\ UNCHANGED <<outbound, rtm, rt, history, bounds>>

\* _finalize_cycle: REPORT_SENT is recorded once, then SENDING_REPORT.
FileReport(t) ==
  /\ At(t, "reporting")
  /\ LET a == task[t].act IN
       /\ db' = IF \E i \in 1..Len(db.reported) : db.reported[i] = a
                THEN db ELSE [db EXCEPT !.reported = Append(@, a)]
       /\ Step(t, "SENDING_REPORT",
               [task[t] EXCEPT !.pc = "replanning", !.act = 0, !.pending = Report(a)])
  /\ UNCHANGED <<outbound, rtm, rt, history, bounds>>

Replan(t) ==
  /\ At(t, "replanning")
  /\ Step(t, "REPLANNING", [task[t] EXCEPT !.pc = "advancing"])
  /\ UNCHANGED <<db, outbound, rtm, rt, history, bounds>>

\* advance_iteration, then WAITING_FOR_CHATGPT.
Advance(t) ==
  /\ At(t, "advancing")
  /\ IF cursor + 1 > MaxIterations
     THEN Go("FAILED") /\ End(t) /\ UNCHANGED cursor
     ELSE /\ cursor' = cursor + 1
          /\ Go("WAITING_FOR_CHATGPT")
          /\ task' = [task EXCEPT ![t].pc = "head"]
  /\ UNCHANGED <<db, outbound, rtm, rt, history, bounds>>

-----------------------------------------------------------------------------
(* The resume task: _resume_mission_task                                   *)

\* An unsettled message must be proven first; nothing is awaited without one.
Reconcile(t) ==
  /\ At(t, "reconcile")
  /\ task' = [task EXCEPT ![t] = [@ EXCEPT !.pc = IF slot = None THEN "rebuild" ELSE "proving",
                                           !.pending = slot]]
  /\ UNCHANGED <<mission, db, outbound, rtm, rt, history, bounds>>

Prove(t) ==
  /\ At(t, "proving") /\ InLog(task[t].pending)
  /\ slot' = IF slot = task[t].pending THEN None ELSE slot
  /\ db' = [db EXCEPT !.receipts = @ + 1]
  /\ task' = [task EXCEPT ![t].pc = "rebuild"]
  /\ UNCHANGED <<mission, log, replies, rtm, rt, history, bounds>>

\* What to send first: the last report if the receipts say it was not
\* delivered, the contract if nothing was, else nothing.
ResumePending ==
  LET n == Len(db.reported) IN
  IF db.decided # {} /\ n > 0 /\ db.receipts < 1 + n THEN Report(db.reported[n])
  ELSE IF db.receipts = 0 THEN Contract ELSE None

\* The last reply stashed is consumed; or the page is searched for the reply to
\* the next iteration, unless that iteration has its decision.
Rebuild(t) ==
  /\ At(t, "rebuild")
  /\ IF db.stashed # {}
     THEN \E r \in db.stashed :
          /\ \A x \in db.stashed : x <= r
          /\ db' = [db EXCEPT !.stashed = @ \ {r}]
          /\ task' = [task EXCEPT ![t] = [@ EXCEPT !.pc = "head", !.rep = r,
                                                   !.pending = ResumePending]]
     ELSE /\ UNCHANGED db
          /\ IF \E d \in db.decided : d.iter = cursor + 1
             THEN task' = [task EXCEPT ![t] = [@ EXCEPT !.pc = "head", !.pending = ResumePending]]
             ELSE task' = [task EXCEPT ![t] = [@ EXCEPT !.pc = "recover", !.pending = None]]
  /\ UNCHANGED <<mission, outbound, rtm, rt, history, bounds>>

\* _recover_unconsumed_visible_reply: a visible reply that no valid decision
\* stands for may be the decision of the next iteration.
Recover(t) ==
  /\ At(t, "recover")
  /\ \E r \in {0} \cup (1..replies \ Acts) :
       task' = [task EXCEPT ![t] = [@ EXCEPT !.pc = "head", !.rep = r, !.sure = (r # 0),
                                             !.pending = ResumePending]]
  /\ UNCHANGED <<mission, db, outbound, rtm, rt, history, bounds>>

-----------------------------------------------------------------------------
(* The HTTP handlers                                                       *)

Newborn(t) == task[t].pc = "unborn" /\ \A u \in 1..t-1 : task[u].pc # "unborn"
Running(t) == t # 0 /\ task[t].pc # "done"

Pause ==
  /\ Quiet /\ st \in SafePause /\ pauses < MaxPauses
  /\ Go("PAUSED")
  /\ pauses' = pauses + 1
  /\ UNCHANGED <<cursor, db, outbound, task, rtm, rt, history, restarts>>

\* The approval a task of the current runtime waits for.
Pending(t) == rt # 0 /\ task[t].rt = rt /\ task[t].pc = "approval" /\ task[t].answer = "none"

\* Mutant of Matches: an answer to any action settles the pending one.
MutMatches(t, a) == Pending(t)

\* expected_action_id is the pending action.
Matches(t, a) == Pending(t) /\ task[t].act = a

\* The user answers a question seen earlier, maybe not the pending one.
Approve(a, yes) ==
  /\ Quiet /\ st = "WAITING_FOR_APPROVAL" /\ a \in db.asked
  /\ \E t \in Tasks :
       /\ Matches(t, a)
       /\ task' = [task EXCEPT ![t].answer = IF yes THEN "yes" ELSE "no"]
  /\ userYes' = IF yes THEN userYes \cup {a} ELSE userYes
  /\ UNCHANGED <<mission, db, outbound, rtm, rt, ran, overlap, bounds>>

\* Cancelling a coordinator cancels the task it waits for, an older one.
Chain[t \in 0..MaxTasks] == IF t = 0 THEN {} ELSE {t} \cup Chain[task[t].waits]

\* cancel_mission and STOP EVERYTHING: _stop_runtime.  The approval callback
\* answers a cancellation with None and its loop goes on.
Cancel ==
  /\ Quiet
  /\ GoIfAllowed("CANCELLED")
  /\ LET killed == IF rt = 0 THEN {} ELSE Chain[rtm[rt].task] IN
       task' = [t \in Tasks |->
                 IF t \notin killed \/ task[t].pc = "done" THEN task[t]
                 ELSE IF task[t].pc = "approval" THEN [task[t] EXCEPT !.answer = "no"]
                 ELSE Ended]
  /\ UNCHANGED <<cursor, db, outbound, rtm, rt, history, bounds>>

\* resume_mission while the task of the current runtime is alive.
ResumeActive(t) ==
  /\ Quiet /\ st \in Stalled /\ from \in RunningStates
  /\ rt # 0 /\ Running(rtm[rt].task)
  /\ Newborn(t)
  /\ st' = from /\ from' = None
  /\ task' = [task EXCEPT ![t] = [Fresh EXCEPT !.pc = "after", !.rt = rt, !.waits = rtm[rt].task]]
  /\ rtm' = [rtm EXCEPT ![rt].task = t]
  /\ UNCHANGED <<cursor, db, outbound, rt, history, bounds>>

\* resume_mission without one: a new runtime attaches to the conversation.  It
\* has no task before it has attached, so a second resume does not see it.
ResumeRebuild(t) ==
  /\ Quiet /\ st \in Stalled /\ from # None /\ from \notin RuntimeBound
  /\ rt # 0 => ~Running(rtm[rt].task)
  /\ Newborn(t)
  /\ rt' = t
  /\ task' = [task EXCEPT ![t] = [Fresh EXCEPT !.pc = "attach", !.rt = t]]
  /\ overlap' = (overlap \/ \E u \in Tasks : task[u].pc = "attach")
  /\ UNCHANGED <<mission, db, outbound, rtm, ran, userYes, bounds>>

\* The handler goes on after attach: its task starts, or Store.resume finds
\* that the mission is not paused any more and the handler fails it.
Attached(t) ==
  /\ At(t, "attach")
  /\ IF st \in Stalled
     THEN /\ st' = "WAITING_FOR_CHATGPT" /\ from' = None
          /\ task' = [task EXCEPT ![t].pc = "reconcile"]
          /\ rtm' = [rtm EXCEPT ![t] = [NoRuntime EXCEPT !.task = t, !.base = replies]]
          /\ UNCHANGED rt
     ELSE /\ FailMission /\ End(t)
          /\ rt' = 0
          /\ UNCHANGED rtm
  /\ UNCHANGED <<cursor, db, outbound, history, bounds>>

\* attach raises: the mission is resumed only to be failed.
AttachFails(t) ==
  /\ At(t, "attach")
  /\ IF st \in Stalled THEN st' = "FAILED" /\ from' = None ELSE FailMission
  /\ End(t) /\ rt' = 0
  /\ UNCHANGED <<cursor, db, outbound, rtm, history, bounds>>

\* Mutant of After: the coordinator never rebuilds.
MutAfter(t) ==
  /\ At(t, "after") /\ task[task[t].waits].pc = "done"
  /\ End(t)
  /\ UNCHANGED <<mission, db, outbound, rtm, rt, history, bounds>>

\* Mutant of After: the coordinator does not wait.
MutAfterHasty(t) ==
  /\ At(t, "after")
  /\ IF st \in Terminal \cup Stalled \/ rt # task[t].rt
     THEN End(t)
     ELSE task' = [task EXCEPT ![t] = [@ EXCEPT !.pc = "reconcile", !.waits = 0]]
  /\ UNCHANGED <<mission, db, outbound, rtm, rt, history, bounds>>

\* _resume_after_active_task: the loop it waited for has ended.
After(t) ==
  /\ At(t, "after") /\ task[task[t].waits].pc = "done"
  /\ IF st \in Terminal \cup Stalled \/ rt # task[t].rt
     THEN End(t)
     ELSE task' = [task EXCEPT ![t] = [@ EXCEPT !.pc = "reconcile", !.waits = 0]]
  /\ UNCHANGED <<mission, db, outbound, rtm, rt, history, bounds>>

-----------------------------------------------------------------------------
(* The environment                                                         *)

\* A message that was reserved shows in the conversation.
Land ==
  /\ Quiet /\ slot # None /\ ~InLog(slot)
  /\ log' = Append(log, slot)
  /\ UNCHANGED <<mission, db, slot, replies, task, rtm, rt, history, bounds>>

\* ChatGPT answers the mission, or the user who typed in the page.  Replies from
\* before the contract name no mission and are not counted.
Answer ==
  /\ Quiet /\ log # <<>> /\ replies < MaxReplies
  /\ replies' = replies + 1
  /\ UNCHANGED <<mission, db, slot, log, task, rtm, rt, history, bounds>>

\* The backend is killed and started again: _recover_interrupted_missions.
Restart ==
  /\ restarts < MaxRestarts
  /\ restarts' = restarts + 1
  /\ IF st \in RunningStates THEN Go("PAUSED_RECOVERY_REQUIRED") ELSE UNCHANGED <<st, from>>
  /\ task' = [t \in Tasks |-> Fresh]
  /\ rtm' = [t \in Tasks |-> NoRuntime] /\ rt' = 0
  /\ UNCHANGED <<cursor, db, outbound, history, pauses>>

-----------------------------------------------------------------------------
\* The steps of a task: the loop, and what follows an await.
TaskStep(t) ==
  \/ HeadStops(t) \/ HeadGoesOn(t)
  \/ ReplyTooLate(t) \/ ReplyCollides(t) \/ DuplicateReply(t) \/ Violation(t) \/ DecideAny(t)
  \/ FileReport(t) \/ Replan(t) \/ Advance(t) \/ Rebuild(t)
  \/ Selected(t) \/ Reserve(t) \/ Confirm(t) \/ Abort(t) \/ Receive(t)
  \/ Approved(t) \/ Denied(t) \/ ToolEnds(t)
  \/ Reconcile(t) \/ Prove(t) \/ Recover(t)
  \/ Attached(t) \/ AttachFails(t) \/ After(t)
  \/ TransportFails(t) \/ Close(t)

Next ==
  \/ \E t \in Tasks : TaskStep(t) \/ ResumeActive(t) \/ ResumeRebuild(t)
  \/ \E a \in Replies, yes \in BOOLEAN : Approve(a, yes)
  \/ Pause \/ Cancel \/ Land \/ Answer \/ Restart

Spec == Init /\ [][Next]_vars

\* Every await of a task ends: a page answer, a tool result, a time limit.  Only
\* the user's answer to an approval may never come.
FairSpec == Spec /\ \A t \in Tasks : WF_vars(TaskStep(t))

-----------------------------------------------------------------------------
(* Properties                                                              *)

\* No action is executed twice, whatever pauses, resumes, crashes and
\* repeated replies do (process_decision, register_response).
ActionOnce == \A i, j \in 1..Len(ran) : ran[i] = ran[j] => i = j

\* An action that was put to the user runs only if the user said yes to that
\* very action: an approval is never carried over to another one.
ApprovedBeforeRun ==
  \A i \in 1..Len(ran) : ran[i] \in db.asked => ran[i] \in userYes

\* A task that drives the loop: it consumes the conversation or runs a tool.
Drives(t) == task[t].pc \notin {"unborn", "attach", "after", "closing", "done"}

\* "Do not create two browser consumers for one conversation"
\* (console/missions.py:1274): pauses, resumes, coordinators, cancellations and
\* restarts never leave two loops at work.  It fails after two resumes that
\* attach at the same time: neither is the task the other one looks for.
OneLoop == ~overlap => \A t, u \in Tasks : Drives(t) /\ Drives(u) => t = u

\* COMPLETED means what default_trace_validator claims: something was done,
\* every tool that was ever started passed its validation, nothing was denied.
\* A second loop may still run a tool when the first one completes.
CompletedHonest ==
  ~overlap /\ st = "COMPLETED" =>
    /\ ran # <<>> /\ \A i \in 1..Len(ran) : ran[i] \in db.validated
    /\ db.denied = {}

\* What the loops do to the conversation is what the outbox allows.
O == INSTANCE Outbox
OutboxSpec == O!Spec

\* "never leave a mission stuck running" (console/missions.py:537): a running
\* mission comes to rest, it ends, pauses or waits for the user.
ComesToRest ==
  (st \in RunningStates) ~> (st \in Terminal \cup Stalled \cup {"WAITING_FOR_APPROVAL"})

\* console/missions.py:738-740: "A report recorded but not delivered must be
\* resent; anything else means we are waiting on ChatGPT."
ReportResent ==
  \A t \in Tasks : task[t].pc = "awaiting" /\ db.reported # <<>> =>
    InLog(Report(db.reported[Len(db.reported)]))

\* CHANGELOG.md:133-135, "A corrected valid decision at the same iteration can
\* resume normally": a reply that the resume has found to be a valid decision
\* does not fail the mission that takes it.
CorrectionResumes ==
  [][\A t \in Tasks :
       st = "WAITING_FOR_CHATGPT" /\ task[t].pc = "have" /\ task[t].sure /\ task'[t].pc # "have"
         => st' # "FAILED"]_vars
==============================================================================
