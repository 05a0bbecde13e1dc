------------------------------- MODULE MCFreeze -------------------------------
\* The runs check liveness, so nodes are model values without symmetry.
EXTENDS Freeze
=============================================================================
