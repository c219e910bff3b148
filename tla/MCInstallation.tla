--------------------------- MODULE MCInstallation ---------------------------
(* Four versions of the helper: a legacy one, the one this app needs, and  *)
(* an older and a newer one, which another copy of the app installs.       *)
EXTENDS Installation
=============================================================================
