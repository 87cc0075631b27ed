--------------------------- MODULE MCReportStream ---------------------------
(* TLC instance of ReportStream. *)
EXTENDS ReportStream, TLC
=============================================================================
