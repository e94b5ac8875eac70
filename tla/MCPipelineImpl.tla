---------------------------- MODULE MCPipelineImpl ----------------------------
(* Two sessions with errors and no time to speak of; and one session of a    *)
(* media that starts at 1 and is played to its end.                          *)
EXTENDS PipelineImpl

Sessions == [time |-> 0, start |-> 0, starts |-> 2, calls |-> 3, errors |-> 2]
Playback == [time |-> 3, start |-> 1, starts |-> 1, calls |-> 3, errors |-> 0]
AllSetups == {Sessions, Playback}
=============================================================================
