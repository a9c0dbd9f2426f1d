--------------------------- MODULE MCEngineLibraries ---------------------------
(* EngineLibraries with two objects and two files: the default one, and one   *)
(* that only an explicit path finds.                                          *)
EXTENDS EngineLibraries

CONSTANTS libA, libB

AnyDisk == [Lib -> Kind]
=============================================================================
