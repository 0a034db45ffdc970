------------------------------- MODULE MCSurfaces -------------------------------
(* Surfaces for TLC: what a configuration file cannot express.             *)
EXTENDS Surfaces

MCCallsOf ==
  [git |-> 2, models |-> 2, extensions |-> 2, market |-> 1, memory |-> 3, personal |-> 2,
   save |-> 2, preview |-> 2, goals |-> 2, cloud |-> 2, list |-> 2, settings |-> 2,
   tasks |-> 2, today |-> 2, data |-> 2, island |-> 2, feed |-> 1, sentinel |-> 2,
   navigation |-> 2, theme |-> 2]
MCClicksOf ==
  [git |-> 2, models |-> 2, extensions |-> 3, market |-> 4, memory |-> 2, personal |-> 3,
   save |-> 2, preview |-> 3, goals |-> 2, cloud |-> 2, list |-> 2, settings |-> 2,
   tasks |-> 2, today |-> 2, data |-> 3, island |-> 2, feed |-> 7, sentinel |-> 3,
   navigation |-> 3, theme |-> 2]
MCSlug == [p \in {"Acme", "acme"} |-> "acme"]
MCMentions == {<<"p2", "p1">>}
MCKindOf == [p1 |-> "mcp", p2 |-> "skills"]
MCTypeOf == [r1 |-> "all", r2 |-> "mcp"]
MCFrom == {<<"p1", "r1">>, <<"p1", "r2">>}
MCHits == {<<"p2", "q">>, <<"r1", "q">>}
MCKeyOf == [t \in {"t"} |-> "k"]
MCModeOf == [c1 |-> "work", c2 |-> "code"]
=============================================================================
