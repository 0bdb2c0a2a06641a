--------------------------- MODULE MC_FdiskScript ---------------------------
(* Instantiates FdiskScript for TLC: two script and two table addresses,   *)
(* the "dos" and "gpt" label drivers, and the header name "label" in two  *)
(* spellings beside "unit".                                                *)
EXTENDS FdiskScript

MCCaseFold == [n \in Names |->
                 CASE n \in {"label", "LABEL"} -> "label"
                   [] OTHER -> n]

\* Script and table addresses are interchangeable.
Symm == Permutations(Scripts) \cup Permutations(Tables)
=============================================================================
