-------------------------- MODULE MCDirectiveTree --------------------------
(* Instance of DirectiveTree for TLC: every graph on three directives whose *)
(* clauses hold at most one directive, or both others.                      *)
EXTENDS DirectiveTree

CONSTANTS d2, d3

MCDirective == {Root, d2, d3}
MCAttachments == {<<>>, <<Root>>, <<d2>>, <<d3>>, <<d2, d3>>}
============================================================================
