--------------------------- MODULE MCSessionBase ---------------------------
(***************************************************************************)
(* Up to seven messages, of every kind of length the code tells apart: a   *)
(* header alone, a header and a payload, one that fills the whole buffer.  *)
(* Several of the short ones fit the buffer together.                      *)
(***************************************************************************)
EXTENDS SessionBase

MCMessageEnd ==
  LET ends == <<2, 5, 13, 15, 17, 19, 24>>
  IN  [n \in 0..MessageCount |-> IF n = 0 THEN 0 ELSE ends[n]]
=============================================================================
