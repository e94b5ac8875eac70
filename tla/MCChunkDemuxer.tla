---------------------------- MODULE MCChunkDemuxer ----------------------------
(* One stream with much to append and remove, and two with a little each.    *)
EXTENDS ChunkDemuxer

CONSTANTS audio, video

Requested(seeks, appends, removes, ends, errors, removed_sources, stops) ==
  [seeks |-> seeks, appends |-> appends, removes |-> removes, ends |-> ends,
   errors |-> errors, removed_sources |-> removed_sources, stops |-> stops]

OneStream ==
  [streams |-> {video}, times |-> {0, 2, 4}, burst |-> 2,
   intervals |-> {<< 0, 1 >>, << 2, 4 >>, << 3, 4 >>},
   requests |-> Requested(1, 4, 1, 0, 0, 0, 0)]

TwoStreams ==
  [streams |-> {audio, video}, times |-> {0, 4}, burst |-> 1, intervals |-> {<< 0, 4 >>},
   requests |-> Requested(2, 2, 1, 1, 1, 1, 1)]

MCSetups == {OneStream, TwoStreams}
===============================================================================
