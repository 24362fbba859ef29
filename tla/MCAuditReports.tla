--------------------------- MODULE MCAuditReports ---------------------------
(* Instances of AuditReports for TLC. *)
EXTENDS AuditReports

CONSTANTS r1, r2, r3, h1, h2, p1, p2, csv, pdf
=============================================================================
