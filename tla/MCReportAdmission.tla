--------------------------- MODULE MCReportAdmission ---------------------------
(* Two reports of one person and one of another, on two players. *)
EXTENDS ReportAdmission, TLC

CONSTANTS s1, s2, s3, r1, r2, p1, p2
MCBy == s1 :> r1 @@ s2 :> r1 @@ s3 :> r2
MCAbout == s1 :> p1 @@ s2 :> p2 @@ s3 :> p1
=============================================================================
