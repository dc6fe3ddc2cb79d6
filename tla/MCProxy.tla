------------------------------- MODULE MCProxy -------------------------------
(* Model-checking instance of Proxy: two requests at a time, so that one      *)
(* can change the phase, open the breaker or hold its slot under the other.   *)
EXTENDS Proxy
=============================================================================
