------------------------------- MODULE Matrix -------------------------------
(***************************************************************************)
(* The markdown matrix (crates/component-test-formats/src/matrix.rs) that  *)
(* `component-test aggregate` renders of the corpus: a row per top-level   *)
(* group of cases, a column per declared target, in each cell one word or  *)
(* counts; then the failures, the declared failures, and a summary.        *)
(*                                                                         *)
(* The words are those of the statuses; "FAIL" and "NOT-REACHED" shout.    *)
(***************************************************************************)
EXTENDS Aggregate, Functions

Columns == Declared

TopGroup(case) == case[1]

Cases == {r.case : r \in results}
Groups == {TopGroup(c) : c \in Cases}
Members(group) == {c \in Cases : TopGroup(c) = group}

Word(status) ==
  CASE status = "fail"        -> "FAIL"
    [] status = "not-reached" -> "NOT-REACHED"
    [] OTHER                  -> status

\* Mutant: a failure declared for one target is quiet in every column.
CellWordAnyTarget(r) ==
  IF r.case \in {e[2] : e \in excused} /\ r.status = "fail" THEN "xfail"
  ELSE IF r.status = "pass" /\ r.case \in ExpectedFail(r.target) THEN "XPASS"
  ELSE Word(r.status)

\* What the target declares to fail is quiet when it does and shouts when not.
CellWord(r) ==
  IF <<r.target, r.case>> \in excused THEN "xfail"
  ELSE IF r.status = "pass" /\ r.case \in ExpectedFail(r.target) THEN "XPASS"
  ELSE Word(r.status)

ResultsIn(target, group) == {r \in results : r.target = target /\ TopGroup(r.case) = group}

CellWords(target, group) == {CellWord(r) : r \in ResultsIn(target, group)}

\* A cell is uniform when it has one word.
Uniform(target, group) == Cardinality(CellWords(target, group)) = 1

\* The rows with one word in every cell; the others have counts.
Collapsed == {g \in Groups : \A t \in Columns : Uniform(t, g)}

\* A count per word; a cell of a group without results is empty.
Counts(target, group) ==
  [w \in CellWords(target, group) |->
     Cardinality({r \in ResultsIn(target, group) : CellWord(r) = w})]

\* The sections below the table.
Failures == {r \in FailingResults : r.target \in Columns}

ExpectedFailures == {e \in excused : e[1] \in Columns}

Summary(target) ==
  [w \in {CellWord(r) : r \in {x \in results : x.target = target}} |->
     Cardinality({r \in results : r.target = target /\ CellWord(r) = w})]

-----------------------------------------------------------------------------
Quiet == (Statuses \ {"fail", "not-reached"}) \union {"xfail"}

\* The rendered page of a judged corpus hides nothing: what a quiet word is
\* written for is no failure; the counts of a cell are those of its results;
\* of a corpus without validation errors a cell's one word stands for every
\* case of its row, though the code looks only at those the target reports;
\* every failure is listed, unless its target has no column, which is an error
\* on the page; and the summary shouts or there are errors unless the verdict
\* is green.
NothingHidden ==
  mode \in {"green", "red"} =>
    /\ \A r \in results : CellWord(r) \in Quiet => r \notin FailingResults
    /\ \A t \in Columns, g \in Groups :
         /\ SumFunction(Counts(t, g)) = Cardinality(ResultsIn(t, g))
         /\ (Uniform(t, g) /\ errors = {}) => Members(g) = {r.case : r \in ResultsIn(t, g)}
    /\ \A r \in FailingResults : r \in Failures \/ <<"undeclared", r.target>> \in errors
    /\ mode = "green" <=> (errors = {} /\ \A t \in Columns : DOMAIN Summary(t) \subseteq Quiet)
=============================================================================
