------------------------ MODULE MC_FdiskScriptReader ------------------------
(* Every file of up to three lines over all line kinds.                    *)
EXTENDS FdiskScriptReader
=============================================================================
