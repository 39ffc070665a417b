--------------------------- MODULE MCCallbackCore ---------------------------
(***************************************************************************)
(* A reprocessing request between two preview requests: it follows its own *)
(* order, and may leave before and after each of them.                     *)
(***************************************************************************)
EXTENDS CallbackCore

CONSTANTS preview, input

TypeOf == <<"NORMAL", "REPROCESSING", "NORMAL">>
ImagesOf == <<{preview}, {preview, input}, {preview}>>
=============================================================================
