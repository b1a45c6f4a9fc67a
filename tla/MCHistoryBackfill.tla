--------------------------- MODULE MCHistoryBackfill ---------------------------
(* Three fixtures, the second done by the prior pull.  A day has room for one  *)
(* fixture and a retry.                                                        *)
EXTENDS HistoryBackfill

CONSTANTS f1, f2, f3

MCManifest == <<f1, f2, f3>>
MCPrior    == {f2}
=============================================================================
