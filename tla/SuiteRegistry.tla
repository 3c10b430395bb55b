--------------------------- MODULE SuiteRegistry ----------------------------
(***************************************************************************)
(* The suite that the macro's expansion is compiled to: its tags records,  *)
(* which the linker puts into the artifact in an order of its own, and its *)
(* registry (crates/component-test-sdk/src/lib.rs), built when an export   *)
(* is first called: the cases in source order, then what the generators    *)
(* yield.  A bad registration panics, which traps the instance.            *)
(***************************************************************************)
EXTENDS SuiteMacro, SequencesExt

VARIABLES
  records,   \* the artifact's tags records in link order: [name, row, tags]
  built,     \* registrations done
  registry   \* the registered cases: [name, tags]

artifact == <<records, built, registry>>

RegistryInit == records = <<>> /\ built = 0 /\ registry = <<>>

-----------------------------------------------------------------------------
\* record_line: a record per case, and per generator one that ends in "/*".
Records ==
  {[name |-> cases[k].name, row |-> FALSE, tags |-> cases[k].tags] : k \in DOMAIN cases}
    \union {[name |-> gens[g].prefix, row |-> TRUE, tags |-> gens[g].tags] : g \in DOMAIN gens}

\* mode: "expanded" -> "registering" -> "ready", or "panicked".
Compile ==
  /\ mode = "expanded"
  /\ records' \in SetToSeqs(Records)
  /\ built' = 0
  /\ registry' = <<>>
  /\ mode' = "registering"
  /\ UNCHANGED walk

-----------------------------------------------------------------------------
\* Mutant: of a leaf of several segments only the last is looked at.
PrefixedLast(prefix, leaf) ==
  IF leaf # <<>> /\ leaf[Len(leaf)] \in LeafSegments THEN {prefix \o leaf} ELSE {}

\* CaseName::prefixed: the name a generator's leaf makes, if it makes one.
Prefixed(prefix, leaf) ==
  IF /\ leaf # <<>>
     /\ \A k \in DOMAIN prefix : prefix[k] \in Labels
     /\ \A k \in 1..(Len(leaf) - 1) : leaf[k] \in Labels
     /\ leaf[Len(leaf)] \in LeafSegments
  THEN {prefix \o leaf} ELSE {}

\* What a generator yields: leaves, joined to its prefix; a row registers full
\* names (from_parts), which must be under its prefix (generated_named).
LeafNames(gen, leaf) ==
  IF ~gen.row THEN Prefixed(gen.prefix, leaf)
  ELSE IF ValidName(leaf) /\ IsUnder(leaf, gen.prefix) THEN {leaf} ELSE {}

\* The registrations in the order of __ct_registry: [names, tags], names the
\* valid name as a set of at most one.
Registrations ==
  [k \in DOMAIN cases |->
     [names |-> IF ValidName(cases[k].name) THEN {cases[k].name} ELSE {}, tags |-> cases[k].tags]]
  \o FlattenSeq([g \in DOMAIN gens |->
       [k \in DOMAIN gens[g].cases |->
          [names |-> LeafNames(gens[g], gens[g].cases[k]), tags |-> gens[g].tags]]])

Registered == {registry[k].name : k \in DOMAIN registry}

\* Registry::case, generated, generated_named: an invalid name panics, and so
\* does one that is taken.
Register ==
  /\ mode = "registering"
  /\ built < Len(Registrations)
  /\ LET new == Registrations[built + 1] IN
     IF new.names = {} \/ new.names \subseteq Registered
     THEN mode' = "panicked" /\ UNCHANGED <<built, registry>>
     ELSE /\ registry' \in {Append(registry, [name |-> n, tags |-> new.tags]) : n \in new.names}
          /\ built' = built + 1
          /\ UNCHANGED mode
  /\ UNCHANGED <<walk, records>>

GetOrInit ==
  /\ mode = "registering"
  /\ built = Len(Registrations)
  /\ mode' = "ready"
  /\ UNCHANGED <<walk, artifact>>

RegistryNext == Compile \/ Register \/ GetOrInit
=============================================================================
