--------------------------- MODULE MCWeightsSetter ---------------------------
(* The default settings in scale, a turn of the loop being 5 minutes here:  *)
(* the interval of 30 minutes, the wait of 25, the timeout of 10, retries   *)
(* of 5 and leaders published from 15 minutes ahead.                        *)
EXTENDS WeightsSetter

OneRetry == {1}
LeadsOf == {3, 4, 6}

=============================================================================
