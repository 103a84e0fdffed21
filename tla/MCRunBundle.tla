----------------------------- MODULE MCRunBundle -----------------------------
(* Two runs that may publish, fail, be killed and leave orphans behind.         *)
EXTENDS RunBundle
=============================================================================
