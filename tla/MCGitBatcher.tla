--------------------------- MODULE MCGitBatcher ---------------------------
(* Model-checking instances of GitBatcher.                                  *)
EXTENDS GitBatcher

CONSTANTS state_json, winner_json, c1

MCPaths == {state_json, winner_json}
MCCoroutines == {c1}

\* Three writes to the two files together.
Bound == queued'[state_json] + queued'[winner_json] <= 3
=============================================================================
