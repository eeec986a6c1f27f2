--------------------------- MODULE MCExtractLock ---------------------------
(* Constants for the model checking run of ExtractLock.                     *)
EXTENDS ExtractLock

CONSTANTS p1, p2, p3, url1
=============================================================================
