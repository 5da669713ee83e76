------------------------------- MODULE MCWatch -------------------------------
(* The constants are plain values in the configuration; a home is its path.  *)
EXTENDS Watch
==============================================================================
