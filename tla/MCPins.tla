------------------------------- MODULE MCPins -------------------------------
(***************************************************************************)
(* PinsBump on a Cargo.toml, a package.json and a workflow.                *)
(***************************************************************************)
EXTENDS PinsBump

Pin(rev)   == [pin |-> TRUE, hashes |-> <<[rev |-> rev, bounded |-> TRUE]>>, short |-> {}]
Short(rev) == [pin |-> TRUE, hashes |-> <<>>, short |-> {rev}]
Other(rev) == [Pin(rev) EXCEPT !.pin = FALSE]

\* A dependency that means no commit.
Bare == [pin |-> TRUE, hashes |-> <<>>, short |-> {}]

\* A pin beside a hash inside a longer word.
Mixed(rev) == [Pin(rev) EXCEPT !.hashes = <<[rev |-> rev, bounded |-> FALSE]>> \o @]

Tree(cargo, js, action) ==
  [f \in Files |-> IF f \in Tomls THEN cargo ELSE IF f \in Packages THEN js ELSE action]

MCTrees ==
  {Tree(cargo, js, <<Pin("r1")>>) :
     cargo \in {<<Pin("r1"), Pin("r2")>>, <<Pin("r1"), Short("r1")>>, <<Pin("r2"), Other("r1")>>, <<Other("r1")>>},
     js \in {<<Pin("r1")>>, <<Mixed("r1"), Other("r2")>>, <<Other("r1")>>, <<Short("r2")>>,
            <<Pin("r1"), Bare>>}}
  \union {Tree(<<Bare>>, <<Pin("r1")>>, <<Other("r1")>>)}
=============================================================================
