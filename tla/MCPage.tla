------------------------------- MODULE MCPage --------------------------------
(* Pages of one or two small suites over two workers, for TLC. *)
EXTENDS BrowserDriver

C(tagged, applies, selected) == [tagged |-> tagged, applies |-> applies, selected |-> selected]
Plain   == C(TRUE, TRUE, TRUE)
NA      == C(TRUE, FALSE, TRUE)
Out     == C(TRUE, TRUE, FALSE)
Stray   == C(FALSE, TRUE, TRUE)

S(key, cases, only, timed) == [key |-> key, cases |-> cases, only |-> only, timed |-> timed]

P(jobs, list) == [jobs |-> jobs, suites |-> list]

\* Three cases with a timeout over two workers; a suite after another; a
\* filter that leaves a stripe without a case; one that leaves nothing, over
\* two workers and for one; a case without tags.
MCConfigs ==
  {P(2, <<S("one", <<Plain, Plain, Plain>>, FALSE, TRUE)>>),
   P(2, <<S("one", <<Plain, NA>>, FALSE, FALSE), S("two", <<Plain>>, FALSE, TRUE)>>),
   P(2, <<S("one", <<Out, Plain, Out, Plain>>, TRUE, FALSE)>>),
   P(2, <<S("one", <<Out, Out>>, TRUE, FALSE)>>),
   P(1, <<S("one", <<Out, Out>>, TRUE, TRUE)>>),
   P(2, <<S("one", <<Plain, Stray>>, FALSE, FALSE)>>)}
=============================================================================
