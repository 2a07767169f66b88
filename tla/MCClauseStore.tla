--------------------------- MODULE MCClauseStore ---------------------------
(* Instance of ClauseStore for TLC.  Clause identities are interchangeable. *)
EXTENDS ClauseStore, TLC

CONSTANTS d1, d2, d3, c1, c2, c3, OMPC_private, Lang_C, Lang_Fortran

MCDirective == {d1, d2, d3}
MCClause == {c1, c2, c3}
MCKind == {OMPC_private}
MCBaseLang == {Lang_unknown, Lang_C, Lang_Fortran}

Symmetry == Permutations(MCClause) \cup Permutations(MCDirective)
============================================================================
