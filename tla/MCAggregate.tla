---------------------------- MODULE MCAggregate -----------------------------
(* Two targets and a stranger, two exact cases and a row, for TLC. *)
EXTENDS Matrix

A  == <<"a">>
B  == <<"b">>
GX == <<"g", "x">>
GY == <<"g", "y">>
Z  == <<"z">>

MCNames == {A, B, GX, GY, Z}

Needs(f)    == [feature |-> f, negative |-> FALSE]
Declines(f) == [feature |-> f, negative |-> TRUE]

Entry(name, tags) == [name |-> name, tags |-> tags]
Row(cases) == [prefix |-> <<"g">>, tags |-> <<>>, cases |-> cases]

\* a needs the feature, b asserts its absence, and the row is for everyone:
\* open, and enumerated.  Then a case with contradictory marks.
Pair == <<Entry(A, <<Needs("f")>>), Entry(B, <<Declines("f")>>)>>
MCLockfiles ==
  {[case |-> Pair, generated |-> <<Row(<<>>)>>],
   [case |-> Pair, generated |-> <<Row(<<<<"x">>>>)>>],
   [case |-> <<Entry(A, <<Needs("f"), Declines("f")>>)>>, generated |-> <<>>]}

T(missing, optional, xf) == [missing |-> missing, optional |-> optional, expectedFail |-> xf]
Manifest(gated, targets) ==
  [wellFormed |-> TRUE, gated |-> gated, structural |-> {"s"}, targets |-> targets]

\* Plain; with declared failures and an optional target; with no target for
\* b; without the feature.
MCManifests ==
  {Manifest({"f"}, [t1 |-> T({}, FALSE, {}), t2 |-> T({"f", "s"}, FALSE, {})]),
   Manifest({"f"}, [t1 |-> T({}, FALSE, {A, GX}), t2 |-> T({"f"}, TRUE, {B})]),
   Manifest({"f"}, [t1 |-> T({}, FALSE, {})]),
   Manifest({}, [t1 |-> T({}, FALSE, {}), t2 |-> T({}, TRUE, {})])}

Run(names, words, served, scheduled) ==
  [names |-> names, words |-> words, served |-> served, scheduled |-> scheduled,
   whole |-> Len(names) = Len(words), runErrors |-> FALSE]

ABG == <<A, B, GX>>

\* Every way three cases can pass or fail; other words; more, fewer or other
\* cases; cut runs; a run with an error.
Plain == {Run(ABG, w, served, sch) :
            w \in [1..3 -> {"pass", "fail"}], served \in {{}, {"f"}}, sch \in BOOLEAN}
Odd == {Run(names, [k \in 1..Len(names) |-> IF k = 3 THEN w ELSE "pass"], served, sch) :
          names \in {ABG, <<A, B, GX, GY>>, <<A, B>>, <<A, GX>>, <<A, B, GX, GX>>, <<A, B, Z>>},
          w \in {"pass", "skipped", "deselected", "renamed"}, served \in {{}, {"f"}}, sch \in {TRUE}}
Cut == {Run(ABG, <<w>>, {}, sch) : w \in {"pass", "fail"}, sch \in BOOLEAN}
Broken == {[Run(ABG, <<"pass", "pass", "pass">>, served, TRUE) EXCEPT !.runErrors = TRUE] :
             served \in {{}, {"f"}}}
MCRuns == Plain \union Odd \union Cut \union Broken
=============================================================================
