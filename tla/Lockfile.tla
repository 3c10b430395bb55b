------------------------------ MODULE Lockfile ------------------------------
(***************************************************************************)
(* The inventory lockfile (crates/component-test-formats/src/lockfile.rs), *)
(* with the case names and the feature marks of component-test-core it is  *)
(* made of.  Pure operators: the result fold and the aggregator use them.  *)
(*                                                                         *)
(* A name is the sequence of its segments.  A lockfile lists exact cases   *)
(* and generated rows; a row's leaves are known only at run time, unless   *)
(* the row enumerates them.                                                *)
(***************************************************************************)
EXTENDS Integers, Sequences, FiniteSets

CONSTANTS
  Labels,        \* segments that are WIT labels
  LeafSegments,  \* segments that may end a name
  Features       \* feature names

ASSUME NameAssumption == Labels \subseteq LeafSegments

-----------------------------------------------------------------------------
\* Case names.

ValidName(name) ==
  /\ name # <<>>
  /\ \A k \in 1..(Len(name) - 1) : name[k] \in Labels
  /\ name[Len(name)] \in LeafSegments

\* Strictly under: a row's leaf extends the prefix.
IsUnder(name, prefix) ==
  Len(name) > Len(prefix) /\ SubSeq(name, 1, Len(prefix)) = prefix

-----------------------------------------------------------------------------
\* Feature marks: a case requires a feature, or declines it.

Tag == [feature : Features, negative : BOOLEAN]

\* At most one mark per feature: neither a duplicate nor a contradiction.
TagsValid(tags) ==
  \A j, k \in DOMAIN tags : tags[j].feature = tags[k].feature => j = k

\* A target missing those features gets a case with these marks.
Applies(tags, missing) ==
  \A k \in DOMAIN tags : tags[k].negative <=> tags[k].feature \in missing

\* The first mark that excludes the case, as a set of at most one.
ExcludingMark(tags, missing) ==
  LET excluding == {k \in DOMAIN tags : ~(tags[k].negative <=> tags[k].feature \in missing)}
  IN {tags[k] : k \in {e \in excluding : \A f \in excluding : e <= f}}

-----------------------------------------------------------------------------
\* The lockfile: case is a sequence of [name, tags], generated a sequence of
\* [prefix, tags, cases], cases being the enumerated leaves relative to the
\* prefix, empty when the row is not enumerated.

ExactNames(lf) == {lf.case[k].name : k \in DOMAIN lf.case}

Marks(lf) == {lf.case[k].tags : k \in DOMAIN lf.case}
               \union {lf.generated[g].tags : g \in DOMAIN lf.generated}

MarkSet(lf) == UNION {{tags[k] : k \in DOMAIN tags} : tags \in Marks(lf)}

\* Features some case requires and none declines.
UnpairedFeatures(lf) ==
  {m.feature : m \in {t \in MarkSet(lf) : ~t.negative}}
    \ {m.feature : m \in {t \in MarkSet(lf) : t.negative}}

FeaturesOf(lf) == {m.feature : m \in MarkSet(lf)}

RowValid(row) ==
  /\ row.prefix # <<>>
  /\ \A k \in DOMAIN row.prefix : row.prefix[k] \in Labels
  /\ TagsValid(row.tags)
  /\ \A j \in DOMAIN row.cases :
       /\ ValidName(row.prefix \o row.cases[j])
       /\ \A k \in DOMAIN row.cases : row.cases[j] = row.cases[k] => j = k

\* Lockfile::validate.
Validates(lf) ==
  /\ \A j, k \in DOMAIN lf.case : lf.case[j].name = lf.case[k].name => j = k
  /\ \A k \in DOMAIN lf.case : TagsValid(lf.case[k].tags)
  /\ \A g, h \in DOMAIN lf.generated :
       lf.generated[g].prefix = lf.generated[h].prefix => g = h
  /\ \A g \in DOMAIN lf.generated : RowValid(lf.generated[g])
  /\ UnpairedFeatures(lf) = {}

\* The rows covering a name: the longest prefix above it, if there is one.
PrefixOf(lf, name) ==
  LET above == {g \in DOMAIN lf.generated : IsUnder(name, lf.generated[g].prefix)}
  IN {g \in above : \A h \in above : Len(lf.generated[h].prefix) <= Len(lf.generated[g].prefix)}

\* The full names a row enumerates.
Enumerated(row) == {row.prefix \o row.cases[k] : k \in DOMAIN row.cases}

\* The reported names that are not exact cases, at their place in the report.
LeafReports(lf, names) == {k \in DOMAIN names : names[k] \notin ExactNames(lf)}

\* Lockfile::check_coverage: nothing is reported twice, every report that is
\* not an exact case is a valid name under a row, every exact case is
\* reported, and an enumerated row is reported leaf for leaf.
Covers(lf, names) ==
  /\ \A j, k \in DOMAIN names : names[j] = names[k] => j = k
  /\ \A k \in LeafReports(lf, names) : PrefixOf(lf, names[k]) # {} /\ ValidName(names[k])
  /\ ExactNames(lf) \subseteq {names[k] : k \in DOMAIN names}
  /\ \A g \in {h \in DOMAIN lf.generated : lf.generated[h].cases # <<>>} :
       Enumerated(lf.generated[g]) =
         {names[k] : k \in {l \in LeafReports(lf, names) : g \in PrefixOf(lf, names[l])}}
=============================================================================
