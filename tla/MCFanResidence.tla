--------------------------- MODULE MCFanResidence ---------------------------
(* A fan the curve may stop.                                               *)
EXTENDS FanResidence

CurveModes == {"automatic", "curve"}
=============================================================================
