---------------------------- MODULE ResultsViews ----------------------------
(***************************************************************************)
(* What else is made of a folded document (ResultsFold): the fold of the   *)
(* documents of several roles, the parties of one run, into one            *)
(* (fold_roles, crates/component-test-results/src/lib.rs), and the JUnit   *)
(* report (crates/component-test-cli/src/junit.rs) that `component-test    *)
(* emit` writes of a stream without judging it.                            *)
(***************************************************************************)
EXTENDS ResultsFold, SequencesExt

CONSTANT Partners   \* results that other roles of the run may have

ASSUME PartnersAssumption == Partners \subseteq Seq(ResultRecord)

-----------------------------------------------------------------------------
\* fold_roles.

\* Mutant: a case that was not reached is no worse than one that passed.
RankReached(status) ==
  CASE status \in {"fail", "trap"} -> 2
    [] status = "skipped"          -> 1
    [] OTHER                       -> 0

Rank(status) ==
  CASE status \in {"fail", "trap"} -> 3
    [] status = "not-reached"      -> 2
    [] status = "skipped"          -> 1
    [] OTHER                       -> 0

\* The reports of all roles, role by role.
Reports(roles) ==
  FlattenSeq([i \in DOMAIN roles |-> [k \in DOMAIN roles[i] |-> [role |-> i, result |-> roles[i][k]]]])

\* The reports that are the first of their case.
Firsts(reports) ==
  {k \in DOMAIN reports : \A j \in 1..(k - 1) : reports[j].result.case # reports[k].result.case}

\* The earliest of the worst.
Winner(of) ==
  CHOOSE w \in DOMAIN of :
    \A k \in DOMAIN of : \/ Rank(of[k].result.status) < Rank(of[w].result.status)
                         \/ Rank(of[k].result.status) = Rank(of[w].result.status) /\ w <= k

RolesOf(of) == [k \in DOMAIN of |-> of[k].role]

\* The positions of a finite set, in order, and what a sequence has there.
Ascending(K) == [n \in 1..Cardinality(K) |-> CHOOSE k \in K : Cardinality({j \in K : j <= k}) = n]

Only(s, K) == [n \in 1..Cardinality(K) |-> s[Ascending(K)[n]]]

NotPassing(of) == Only(of, {k \in DOMAIN of : Rank(of[k].result.status) > 0})

\* What one report says passes unmodified.  Otherwise the winner's status
\* stays; the detail blames the winner, if it has not passed, and the others
\* that have not; and everyone's diagnostics are kept, the winner's first.
Merged(of) ==
  IF Len(of) = 1
  THEN [case |-> of[1].result.case, status |-> of[1].result.status, blames |-> <<>>, diagnostics |-> <<>>]
  ELSE LET w == Winner(of)
           winnerFirst == <<of[w]>> \o RemoveAt(of, w) IN
       [case        |-> of[w].result.case,
        status      |-> of[w].result.status,
        blames      |-> RolesOf(NotPassing(winnerFirst)),
        diagnostics |-> RolesOf(winnerFirst)]

\* A result for every case, in the order of the first reports.
FoldRoles(roles) ==
  LET reports == Reports(roles)
      order == Ascending(Firsts(reports))
      Same(j) == {k \in DOMAIN reports : reports[k].result.case = reports[order[j]].result.case} IN
  [j \in DOMAIN order |-> Merged(Only(reports, Same(j)))]

-----------------------------------------------------------------------------
\* junit: a testcase for every result, and for every transport problem.

Outcome(status) ==
  CASE status = "pass" -> "passed"
    [] status \in {"skipped", "not-applicable", "deselected"} -> "skipped"
    [] OTHER -> "failure"

Testcase(name, outcome) ==
  [classname |-> IF Len(name) > 1 THEN Front(name) ELSE name, name |-> name, outcome |-> outcome]

Unterminated == <<"unterminated-segment">>
RunError     == <<"run-error">>

\* Mutant: a segment without a terminator is converted as it is.
SyntheticWhole ==
  [k \in 1..runErrors |-> Testcase(RunError, "error")]
    \o SetToSeq({Testcase(name, "error") : name \in unknown})

Synthetic ==
  [k \in 1..runErrors |-> Testcase(RunError, "error")]
    \o SetToSeq({Testcase(name, "error") : name \in unknown})
    \o (IF terminated THEN <<>> ELSE <<Testcase(Unterminated, "error")>>)

Testsuite ==
  [k \in DOMAIN results |-> Testcase(results[k].case, Outcome(results[k].status))] \o Synthetic

\* The suite's attributes.
Tally(outcome) == Cardinality({k \in DOMAIN Testsuite : Testsuite[k].outcome = outcome})

-----------------------------------------------------------------------------
Folded == mode \in {"document", "green", "red"}

\* However the document is folded with other roles' results, before or after
\* them, every case that some role reported has one result; it is failing if
\* and only if some role's is; and of several reports no diagnostics are lost
\* and the roles that are blamed are those that did not pass.
RolesAgree ==
  Folded =>
    \A p \in Partners : \A roles \in {<<results, p>>, <<p, results>>, <<p, <<>>, results>>} :
      LET folded == FoldRoles(roles)
          reports == Reports(roles)
          About(c) == {k \in DOMAIN reports : reports[k].result.case = c} IN
      /\ {folded[j].case : j \in DOMAIN folded} = {reports[k].result.case : k \in DOMAIN reports}
      /\ Len(folded) = Cardinality({folded[j].case : j \in DOMAIN folded})
      /\ \A j \in DOMAIN folded :
           LET of == About(folded[j].case) IN
           /\ folded[j].status \in Failing <=> \E k \in of : reports[k].result.status \in Failing
           /\ Cardinality(of) > 1 =>
                /\ Len(folded[j].diagnostics) = Cardinality(of)
                /\ ToSet(folded[j].blames) =
                     {reports[k].role : k \in {r \in of : reports[r].result.status \in Failing \union {"skipped"}}}

\* "The rule is never greener than the stream" (junit.rs): the report of a
\* stream without failures and errors is that of a whole run of cases that
\* came out well; the report of a green fold has none of either; and every
\* event that is not a good one is red under its own case's name.
NeverGreener ==
  Folded =>
    /\ Tally("failure") + Tally("error") = 0 =>
         /\ state = "closed" /\ Len(lines) = N
         /\ \A k \in 1..N : lines[k].status \in {"pass", "skipped", "not-applicable", "deselected"}
    /\ mode = "green" => Tally("failure") + Tally("error") = 0
    /\ \A k \in 1..Len(lines) :
         lines[k].status \in Failing \union {"renamed"} =>
           \E t \in DOMAIN Testsuite : /\ Testsuite[t].name = NameAt(k)
                                       /\ Testsuite[t].outcome \in {"failure", "error"}
=============================================================================
