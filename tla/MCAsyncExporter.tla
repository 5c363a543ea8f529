--------------------------- MODULE MCAsyncExporter ---------------------------
(* AsyncExporter with a channel that fills up and two workers, as in the   *)
(* code.                                                                   *)
EXTENDS AsyncExporter
=============================================================================
