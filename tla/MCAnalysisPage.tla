--------------------------- MODULE MCAnalysisPage ---------------------------
(* A finite instance of AnalysisPage for TLC.                              *)
EXTENDS AnalysisPage

CONSTANTS r1, r2, Signed, Remark
=============================================================================
