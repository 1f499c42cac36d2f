-------------------------- MODULE MCReportTransfer --------------------------
(***************************************************************************)
(* A small instance of ReportTransfer, a byte to a chunk: a file of one    *)
(* byte, two of the largest size that differ in content, and one that is   *)
(* over the cap.                                                           *)
(***************************************************************************)
EXTENDS ReportTransfer

Contents == {<<1>>, <<2, 1, 1, 1>>, <<1, 1, 1, 1>>, <<1, 1, 1, 1, 1>>}
=============================================================================
