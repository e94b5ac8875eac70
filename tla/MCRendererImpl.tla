---------------------------- MODULE MCRendererImpl ----------------------------
(* Clear audio and video, both of whose tracks change; encrypted video only, *)
(* encrypted audio and video of which only the audio track changes.          *)
EXTENDS RendererImpl

Both == {"audio", "video"}
BothChange(bound) ==
  [streams |-> Both, encrypted |-> FALSE, changing |-> Both, calls |-> 5, errors |-> bound]
VideoOnly == [ streams |-> {"video"}, encrypted |-> TRUE, changing |-> {"video"},
               calls |-> 6, errors |-> 1 ]
AudioChanges == [ streams |-> Both, encrypted |-> TRUE, changing |-> {"audio"},
                  calls |-> 5, errors |-> 1 ]
SafetySetups == {BothChange(1), VideoOnly}
LiveSetups == {AudioChanges}
StuckSetups == {BothChange(0)}
=============================================================================
