---------------------------- MODULE MCParseSession ----------------------------
(***************************************************************************)
(* Small instances of ParseSession.                                        *)
(***************************************************************************)
EXTENDS ParseSession

CONSTANTS t1, t2, C, CXX, FTN, par, refmod, fomp, ompx, unsound

Req(text, lang, hooks, allow) ==
    [text |-> text, lang |-> lang, hooks |-> hooks, allow |-> allow]

Languages == {C, CXX, FTN}
Texts == {par, refmod, fomp, ompx, unsound}
SentinelTexts == {fomp}
\* The REF modifier of LINEAR is refused in C.
ParsableTexts ==
    ({par, ompx, unsound} \X {C, CXX}) \cup {<<refmod, CXX>>, <<fomp, FTN>>}
SoundTexts == Texts \ {unsound}
ExtendedTexts == {ompx}
FragmentCounts ==
    [t \in Texts |-> CASE t = par -> 2 [] t = refmod -> 1 [] OTHER -> 0]
Reports == {"HostError", "HostWarning"}

Nested ==
    {Req(par, C, TRUE, FALSE), Req(refmod, CXX, TRUE, FALSE),
     Req(refmod, C, TRUE, FALSE), Req(fomp, FTN, TRUE, FALSE),
     Req(fomp, C, FALSE, FALSE), Req(ompx, C, FALSE, FALSE),
     Req(ompx, C, TRUE, TRUE), Req(NULL, C, TRUE, FALSE),
     Req(unsound, C, FALSE, FALSE)}

Parallel ==
    {Req(refmod, C, TRUE, FALSE), Req(refmod, CXX, TRUE, FALSE),
     Req(fomp, FTN, FALSE, FALSE)}
==============================================================================
