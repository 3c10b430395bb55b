--------------------------- MODULE MCSuiteRunner ----------------------------
(* Instances of SuiteRunner small enough for TLC. *)
EXTENDS SuiteRunner

Opt(jobs, k, filtered) ==
  [jobs |-> jobs, perInstance |-> k, missing |-> TRUE, filtered |-> filtered,
   budgeted |-> TRUE, timed |-> TRUE]

All == [i \in Census |-> TRUE]
Suite(artifact, census, applies, chosen) ==
  [artifact |-> artifact, census |-> census, applies |-> applies, chosen |-> chosen]

\* Sequential runs: every granularity with both guards armed, and at one case
\* per instance every combination of guards, and of filter and missing features.
SeqOptions ==
  {Opt(1, k, TRUE) : k \in 0..2}
  \union {[Opt(1, 1, TRUE) EXCEPT !.budgeted = b, !.timed = t] :
            b \in BOOLEAN, t \in BOOLEAN}
  \union {[Opt(1, 1, f) EXCEPT !.missing = m] : f \in BOOLEAN, m \in BOOLEAN}

\* Suites that fail before any case, a suite that runs all its cases, and
\* every way of excluding one case by capability and one by selection.
SeqSuites ==
  {Suite(a, c, All, All) : a \in {"tagged", "untagged", "malformed"},
     c \in {"empty", "drift", "unpaired", "trap", "spin", "wedge"}}
  \union {Suite("tagged", "ok", [All EXCEPT ![i] = FALSE], [All EXCEPT ![j] = FALSE]) :
            i \in Census, j \in Census}
  \union {Suite("tagged", "ok", All, All),
           Suite("untagged", "ok", All, [i \in Census |-> FALSE])}

\* Parallel runs, at every granularity: the whole census, and a census with
\* an excluded and a deselected case.
ParOptions == {Opt(j, k, TRUE) : j \in 2..MaxJobs, k \in 0..2}
ParSuites ==
  {Suite("tagged", "ok", All, All),
   Suite("tagged", "ok", [All EXCEPT ![1] = FALSE], [All EXCEPT ![2] = FALSE])}
=============================================================================
