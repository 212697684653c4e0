------------------------------- MODULE MCCalls ------------------------------
(* One request at a time; what goes wrong does so before the attempt that   *)
(* replaces a failed one.                                                   *)
EXTENDS Calls

Bound == faults' # faults => call.exchange = 1
=============================================================================
