--------------------------- MODULE MCAsyncLogging ---------------------------
(* Model checking instance of AsyncLogging.                                *)
EXTENDS AsyncLogging
============================================================================
