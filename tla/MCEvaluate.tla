----------------------------- MODULE MCEvaluate -----------------------------
(***************************************************************************)
(* Three rounds from tile 1, on process 0, to tile 3, on process 1.        *)
(* Packets 4, 5 and 6 are the answers.                                     *)
(***************************************************************************)
EXTENDS Evaluate

RoundSource == <<1, 1, 1, 3, 3, 3>>
RoundTo == <<3, 3, 3, 1, 1, 1>>
RoundReturnTo == RoundSource
RoundAnswer == <<4, 5, 6>>

=============================================================================
