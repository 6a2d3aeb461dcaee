--------------------------- MODULE MCTerminalOutput ---------------------------
(* A small instance of TerminalOutput for TLC: chunks of one or two units  *)
(* and a limit of two, so that a full buffer, an overfull one and a lost   *)
(* chunk all happen within the chunks of the two streams.                  *)
EXTENDS TerminalOutput

TwoStreams == {"stdout", "stderr"}
SmallSizes == {1, 2}
=============================================================================
