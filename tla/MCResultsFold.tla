--------------------------- MODULE MCResultsFold ----------------------------
(* Folds of streams of two or three cases, small enough for TLC. *)
EXTENDS ResultsViews

A  == <<"a">>
GX == <<"g", "x">>
GY == <<"g", "Y">>   \* under g, and no valid name

MCNames == {A, <<"b">>, GX, GY}

Entry(name) == [name |-> name, tags |-> <<>>]
Row(cases) == [prefix |-> <<"g">>, tags |-> <<>>, cases |-> cases]
Lock(names, rows) == [case |-> [k \in DOMAIN names |-> Entry(names[k])], generated |-> rows]

\* Exact cases only, an open row, an enumerated row, and a lockfile that does
\* not validate.
MCLockfiles ==
  {Lock(<<A, <<"b">>>>, <<>>),
   Lock(<<A, <<"b">>>>, <<Row(<<>>)>>),
   Lock(<<A>>, <<Row(<<<<"x">>>>)>>),
   Lock(<<A, A>>, <<>>)}

\* The other role skipped a, failed b, and did not reach g/x; or agreed on a
\* and never heard of the others; or reported nothing.
Tell(case, status) == [case |-> case, status |-> status, cause |-> {}]
MCPartners ==
  {<<Tell(A, "skipped"), Tell(<<"b">>, "fail"), Tell(GX, "not-reached")>>,
   <<Tell(A, "pass")>>,
   <<>>}
=============================================================================
