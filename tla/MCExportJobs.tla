---------------------------- MODULE MCExportJobs ----------------------------
(* Export jobs for TLC: one job, two requests, two workers, short limits. *)
EXTENDS ExportJobs

CONSTANTS j1, c1, c2, w1, w2

=============================================================================
