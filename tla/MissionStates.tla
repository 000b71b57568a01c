---------------------------- MODULE MissionStates ----------------------------
(* The mission life cycle of orchestration/store.py: which state may follow  *)
(* which.  Every writer of the missions table goes through it.               *)

Terminal == {"COMPLETED", "BLOCKED", "FAILED", "CANCELLED"}
Stalled == {"PAUSED", "PAUSED_RECOVERY_REQUIRED"}          \* RESUMABLE_FROM
RunningStates ==
  {"INITIALIZING_MISSION", "SENDING_OBJECTIVE", "WAITING_FOR_CHATGPT",
   "PARSING_DECISION", "WAITING_FOR_APPROVAL", "EXECUTING_LOCAL_ACTION",
   "VALIDATING_ACTION", "SENDING_REPORT", "REPLANNING", "FINAL_VALIDATION",
   "TRANSPORT_ERROR"}
States == {"IDLE", "SELECTING_CONVERSATION"} \cup RunningStates \cup Stalled \cup Terminal

\* Steps of the loop; FAILED and CANCELLED are added to every running state.
Forward(s) ==
  CASE s = "IDLE" -> {"SELECTING_CONVERSATION", "INITIALIZING_MISSION", "PAUSED", "CANCELLED"}
    [] s = "SELECTING_CONVERSATION" -> {"INITIALIZING_MISSION", "PAUSED", "CANCELLED"}
    [] s = "INITIALIZING_MISSION" -> {"SENDING_OBJECTIVE", "PAUSED"}
    [] s = "SENDING_OBJECTIVE" -> {"WAITING_FOR_CHATGPT", "TRANSPORT_ERROR"}
    [] s = "WAITING_FOR_CHATGPT" -> {"PARSING_DECISION", "PAUSED", "TRANSPORT_ERROR"}
    [] s = "PARSING_DECISION" ->
         {"WAITING_FOR_APPROVAL", "EXECUTING_LOCAL_ACTION", "FINAL_VALIDATION",
          "SENDING_REPORT", "REPLANNING", "BLOCKED", "PAUSED"}
    [] s = "WAITING_FOR_APPROVAL" ->
         {"EXECUTING_LOCAL_ACTION", "SENDING_REPORT", "PAUSED", "BLOCKED"}
    [] s = "EXECUTING_LOCAL_ACTION" -> {"VALIDATING_ACTION", "PAUSED"}
    [] s = "VALIDATING_ACTION" -> {"SENDING_REPORT"}
    [] s = "SENDING_REPORT" -> {"REPLANNING", "TRANSPORT_ERROR", "PAUSED"}
    [] s = "REPLANNING" -> {"WAITING_FOR_CHATGPT", "PAUSED"}
    [] s = "FINAL_VALIDATION" -> {"COMPLETED", "SENDING_REPORT"}
    [] s = "TRANSPORT_ERROR" ->
         {"WAITING_FOR_CHATGPT", "SENDING_OBJECTIVE", "SENDING_REPORT", "PAUSED"}
    [] s \in Stalled -> {"CANCELLED"}
    [] OTHER -> {}

Transitions(s) == Forward(s) \cup (IF s \in RunningStates THEN {"FAILED", "CANCELLED"} ELSE {})

\* States a mission cannot be rebuilt from once its process is gone
\* (resume_mission, runtime_bound_states).
RuntimeBound ==
  {"PARSING_DECISION", "WAITING_FOR_APPROVAL", "EXECUTING_LOCAL_ACTION",
   "VALIDATING_ACTION", "FINAL_VALIDATION"}

\* Where a user may pause (pause_mission, safe_pause_states).
SafePause == {"WAITING_FOR_CHATGPT", "WAITING_FOR_APPROVAL", "TRANSPORT_ERROR"}
==============================================================================
