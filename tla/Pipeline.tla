------------------------------ MODULE Pipeline ------------------------------
(***************************************************************************)
(* The contract between a media::Pipeline and its client, as base/pipeline.h *)
(* states it: one asynchronous operation at a time, each answered by exactly *)
(* one completion, no operation on a pipeline that is not ready for it, and  *)
(* after an error nothing but Stop().  The module says nothing of how the    *)
(* pipeline works.  PipelineController is shown to respect the client's half *)
(* of it and PipelineImpl the pipeline's half.                               *)
(***************************************************************************)
VARIABLE
  phase       \* where the pipeline is, as its client may know it

Phases == { "stopped",              \* before Start() and after Stop()
            "starting",             \* Start(kNormal) not answered yet
            "starting_suspendable", \* Start(kSuspendAfterMetadata*) not answered
            "playing", "seeking", "suspending", "suspended", "resuming",
            "failed" }              \* an error was reported; only Stop() is left

(* Where a call of the client takes a pipeline that is in phase p: Seek()   *)
(* and Suspend() want a pipeline that is started and idle, Resume() one     *)
(* that is suspended.                                                       *)
Calls(p) ==
  CASE p = "stopped"   -> {"starting", "starting_suspendable"}
    [] p = "playing"   -> {"seeking", "suspending"}
    [] p = "suspended" -> {"resuming"}
    [] OTHER           -> {}

(* Where the completion, with PIPELINE_OK, of the operation under way takes *)
(* it: only a Start() that asked for it may end suspended.                  *)
Completions(p) ==
  CASE p \in {"starting", "seeking", "resuming"} -> {"playing"}
    [] p = "starting_suspendable"                -> {"playing", "suspended"}
    [] p = "suspending"                          -> {"suspended"}
    [] OTHER                                     -> {}

Init == phase = "stopped"

Call == phase' \in Calls(phase)

(* seek_cb(OK) or suspend_cb(OK); the callback may make the next call. *)
Complete == \E p \in Completions(phase) : phase' \in {p} \cup Calls(p)

(* seek_cb(error), suspend_cb(error) or Client::OnError(). *)
Error == /\ phase = "playing" \/ Completions(phase) # {}
         /\ phase' = "failed"

(* Stop() is allowed at any time, and nothing is answered after it. *)
Stop == phase # "stopped" /\ phase' = "stopped"

Next == Call \/ Complete \/ Error \/ Stop

Spec == Init /\ [][Next]_phase
=============================================================================
