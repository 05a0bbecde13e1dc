------------------------------- MODULE MCMapping -------------------------------
\* The run checks liveness, so nodes are model values without symmetry.
EXTENDS Mapping
=============================================================================
