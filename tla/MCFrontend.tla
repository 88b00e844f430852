----------------------------- MODULE MCFrontend -----------------------------
EXTENDS Frontend

\* A trace, and one of a single instant.
MCTraces == {<<1, 3>>, <<2, 2>>}

\* Above the bar, its top, its middle, and below it.
MCMouse == {-1, 0, 1, 3}
=============================================================================
