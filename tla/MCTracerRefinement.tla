------------------------- MODULE MCTracerRefinement -------------------------
\* TracerRefinement on the instances of MCTracer.
EXTENDS MCTracer, TracerRefinement
=============================================================================
