-------------------------- MODULE MCParserContext --------------------------
(* Instance of ParserContext for TLC: how many directives and clauses the   *)
(* texts of one behaviour may contain in all.                               *)
EXTENDS ParserContext

CONSTANTS MaxDirectives, MaxClauses, Lang_C

MCDirective == 1 .. MaxDirectives
MCClause == 1 .. MaxClauses
MCKind == {"private", "when", "match", "otherwise", "default"}
MCBaseLang == {Lang_unknown, Lang_C}
============================================================================
