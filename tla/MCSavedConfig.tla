---------------------------- MODULE MCSavedConfig ----------------------------
(* Two commands of one user, which may overlap; they are interchangeable.  *)
EXTENDS SavedConfig, TLC
CONSTANTS i1, i2
MCInvocations == {i1, i2}
MCSymmetry == Permutations(MCInvocations)
=============================================================================
