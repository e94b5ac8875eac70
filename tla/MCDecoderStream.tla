--------------------------- MODULE MCDecoderStream ---------------------------
(* One request at a time, with three decoders that fail; an encrypted stream *)
(* with failures and resets; two requests at a time and prepared outputs.    *)
EXTENDS DecoderStream

OneByOne == [ requests |-> 1, decoders |-> 3, encrypted |-> FALSE, prepares |-> FALSE,
              buffers |-> 4, resets |-> 0, changes |-> 2, failures |-> 2 ]
WithResets == [ requests |-> 1, decoders |-> 2, encrypted |-> TRUE, prepares |-> FALSE,
                buffers |-> 3, resets |-> 2, changes |-> 1, failures |-> 2 ]
Parallel == [ requests |-> 2, decoders |-> 2, encrypted |-> FALSE, prepares |-> TRUE,
              buffers |-> 4, resets |-> 1, changes |-> 2, failures |-> 0 ]
AllSetups == {OneByOne, WithResets, Parallel}

(* A decoder that takes two requests and fails.                              *)
FailingParallel == { [ requests |-> 2, decoders |-> 2, encrypted |-> FALSE,
                       prepares |-> FALSE, buffers |-> 3, resets |-> 0, changes |-> 0,
                       failures |-> 1 ] }
=============================================================================
