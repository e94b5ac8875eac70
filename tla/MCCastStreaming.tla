--------------------------- MODULE MCCastStreaming ---------------------------
(* A frame of two packets and one of one, with a picture loss; two frames    *)
(* whose reports overtake one another; three frames, which the window admits *)
(* two at a time or all at once.                                             *)
EXTENDS CastStreaming

TwoPackets == [sizes |-> <<2, 1>>, window |-> 2, faults |-> 1, plis |-> 1, reports |-> 1]
TwoReports == [sizes |-> <<1, 1>>, window |-> 2, faults |-> 1, plis |-> 0, reports |-> 2]
ThreeFrames(window, bound) ==
  [sizes |-> <<1, 1, 1>>, window |-> window, faults |-> bound, plis |-> 0, reports |-> 1]
AllStreams == {TwoPackets, TwoReports, ThreeFrames(2, 1), ThreeFrames(3, 1)}
=============================================================================
