----------------------------- MODULE MCSshSession -----------------------------
(* Small instances of SshSession for TLC.                                  *)
EXTENDS SshSession, TLC

CONSTANTS u1, u2, w1   \* model values

TwoUsers == {u1, u2}
OneWriter == {w1}
=============================================================================
