---------------------------- MODULE LockCommand -----------------------------
(***************************************************************************)
(* From the suite's source to the committed lockfile: the inventory that   *)
(* is scanned out of an artifact (crates/component-test-formats/src/       *)
(* inventory.rs) and `component-test lock` (crates/component-test-cli/src/ *)
(* main.rs) on it, with the listing of a runner's `--enumerate`, and with  *)
(* `--check` against the file committed before.  Between the commands the  *)
(* suite is edited and built again; the listing and the committed file     *)
(* stay as they are.                                                       *)
(***************************************************************************)
EXTENDS SuiteRegistry

CONSTANTS
  Revisions,  \* bound: the sources that are edited, and what an edit makes of them
  MaxBuilds   \* bound: a suite is built no more often than this

ASSUME BuildsAssumption == MaxBuilds \in Nat \ {0} /\ \A s \in Revisions : IsSuite(s)

VARIABLES
  builds,     \* which build this is
  listing,    \* the output of --enumerate: a set of at most one sequence of names
  committed,  \* the committed lockfile: a set of at most one
  told,       \* the last command's outcome: "none", "wrote", "quiet", "drift", "refused"
  leaves,     \* whether that command was given the listing
  listed,     \* history: the build the listing is of
  origin      \* history: the source and the listing committed was written from

files == <<listing, committed, listed, origin>>
vars  == <<walk, mode, artifact, files, builds, told, leaves>>

Init ==
  /\ MacroInit
  /\ RegistryInit
  /\ builds = 1
  /\ listing = {} /\ committed = {}
  /\ listed = 0 /\ origin = <<>>
  /\ told = "none" /\ leaves = FALSE

-----------------------------------------------------------------------------
\* The inventory.

\* try_inventory sorts what the linker left in any order.
InOrder(S) == SetToSeq(S)

RecordsOf(row) == {r \in Range(records) : r.row = row}

CaseEntries == InOrder({[name |-> r.name, tags |-> r.tags] : r \in RecordsOf(FALSE)})

RowEntries == InOrder({[prefix |-> r.name, tags |-> r.tags, cases |-> <<>>] : r \in RecordsOf(TRUE)})

Inventory == [case |-> CaseEntries, generated |-> RowEntries]

\* parse_tags_records: a malformed or repeated record is an error, and so is
\* an artifact without any.
InventoryParses ==
  /\ records # <<>>
  /\ \A k \in DOMAIN records : TagsValid(records[k].tags)
  /\ \A j, k \in DOMAIN records :
       records[j].name = records[k].name /\ records[j].row = records[k].row => j = k
  /\ \A r \in RecordsOf(TRUE) : \A k \in DOMAIN r.name : r.name[k] \in Labels
  /\ \A r \in RecordsOf(FALSE) : ValidName(r.name)

-----------------------------------------------------------------------------
\* lock.

\* The listed leaves of a row, in the order of the listing.
Assigned(g) ==
  LET names == CHOOSE names \in listing : TRUE
      under == Retain(names, {k \in LeafReports(Inventory, names) : g \in PrefixOf(Inventory, names[k])})
      from  == Len(Inventory.generated[g].prefix) + 1
  IN [k \in DOMAIN under |-> SubSeq(under[k], from, Len(under[k]))]

Pinned == [Inventory EXCEPT !.generated =
             [g \in DOMAIN @ |-> [@[g] EXCEPT !.cases = Assigned(g)]]]

\* A line that is neither, and a row that no line is under, stop the command.
ListingFits ==
  \A names \in listing :
    /\ \A k \in DOMAIN names :
         names[k] \in ExactNames(Inventory) \/ PrefixOf(Inventory, names[k]) # {}
    /\ \A g \in DOMAIN Inventory.generated : Assigned(g) # <<>>

Lockable(lf, given) == InventoryParses /\ (given => ListingFits) /\ Validates(lf)

LockOf(given) == IF given THEN Pinned ELSE Inventory

\* Mutant: rows are compared as far as both files have some.
RowsMatchZip(existing, lf, given) ==
  \A g \in DOMAIN existing.generated \intersect DOMAIN lf.generated :
    /\ existing.generated[g].prefix = lf.generated[g].prefix
    /\ existing.generated[g].tags = lf.generated[g].tags
    /\ given => existing.generated[g].cases = lf.generated[g].cases

RowsMatch(existing, lf, given) ==
  /\ Len(existing.generated) = Len(lf.generated)
  /\ \A g \in DOMAIN lf.generated :
       /\ existing.generated[g].prefix = lf.generated[g].prefix
       /\ existing.generated[g].tags = lf.generated[g].tags
       /\ given => existing.generated[g].cases = lf.generated[g].cases

Built == mode \in {"registering", "ready", "panicked"}

\* The command looks at the artifact and the listing only.
Lock ==
  /\ Built
  /\ \E given \in {g \in BOOLEAN : g => listing # {}} :
       /\ leaves' = given
       /\ IF Lockable(LockOf(given), given)
          THEN /\ told' = "wrote"
               /\ committed' = {LockOf(given)}
               /\ origin' = <<source, IF given THEN listing ELSE {}>>
          ELSE /\ told' = "refused"
               /\ UNCHANGED <<committed, origin>>
  /\ UNCHANGED <<walk, mode, artifact, listing, listed, builds>>

Check ==
  /\ Built /\ committed # {}
  /\ \E given \in {g \in BOOLEAN : g => listing # {}}, existing \in committed :
       /\ leaves' = given
       /\ told' = IF ~Lockable(LockOf(given), given) \/ ~Validates(existing) THEN "refused"
                  ELSE IF /\ existing.case = Inventory.case
                          /\ RowsMatch(existing, LockOf(given), given)
                       THEN "quiet" ELSE "drift"
  /\ UNCHANGED <<walk, mode, artifact, files, builds>>

-----------------------------------------------------------------------------
\* all(): every registered case, in order.
EnumerateSuite ==
  /\ mode = "ready"
  /\ listing' = {[k \in DOMAIN registry |-> registry[k].name]}
  /\ listed' = builds
  /\ told' = "none"
  /\ UNCHANGED <<walk, mode, artifact, committed, origin, builds, leaves>>

\* The suite is edited, or built once more as it is.
Edit ==
  /\ Built \/ mode = "refused"
  /\ builds < MaxBuilds /\ source \in Revisions
  /\ builds' = builds + 1
  /\ \E s \in Revisions : Written(s)
  /\ told' = "none"
  /\ UNCHANGED <<artifact, files, leaves>>

Next ==
  \/ (MacroNext /\ UNCHANGED <<artifact, files, builds, told, leaves>>)
  \/ (RegistryNext /\ UNCHANGED <<files, builds, told, leaves>>)
  \/ EnumerateSuite
  \/ Lock
  \/ Check
  \/ Edit

Spec == Init /\ [][Next]_vars

-----------------------------------------------------------------------------
\* What was collected and registered is well-formed: registered names are valid,
\* marks are consistent, and a committed lockfile validates.
TypeOK ==
  /\ source \in Sources \union Revisions
  /\ pos \in 0..Len(source.items)
  /\ Len(stack) \in 1..(Len(source.items) + 1)
  /\ mode \in {"walking", "expanded", "refused", "registering", "ready", "panicked"}
  /\ \A k \in DOMAIN cases : TagsValid(cases[k].tags) /\ Range(cases[k].tags) \subseteq Tag
  /\ \A k \in DOMAIN registry : ValidName(registry[k].name) /\ TagsValid(registry[k].tags)
  /\ builds \in 1..MaxBuilds /\ listed \in 0..builds
  /\ told \in {"none", "wrote", "quiet", "drift", "refused"} /\ leaves \in BOOLEAN
  /\ Cardinality(listing) <= 1 /\ Cardinality(committed) <= 1
  /\ \A lf \in committed : Validates(lf)

\* The module item j is open where item i is.
Encloses(j, i) ==
  /\ j < i /\ source.items[j].kind = "mod"
  /\ \A k \in j..(i - 1) :
       Cardinality({m \in j..k : source.items[m].kind = "mod"})
         > Cardinality({m \in j..k : source.items[m].kind = "end"})

\* The marks of the levels around item i that no nearer level overrides.
MarksInForce(i) ==
  LET levels == {j \in 1..i : j = i \/ Encloses(j, i)}
      marksOf(j) == Range(source.items[j].tags)
  IN UNION {{t \in marksOf(j) : \A k \in levels : k > j =>
                                 \A u \in marksOf(k) : u.feature # t.feature} : j \in levels}

\* Items of a kind among the first i.
Nth(attrs, i) ==
  Cardinality({j \in 1..i : source.items[j].kind = "fn" /\ source.items[j].attr \in attrs})

\* What a case or a generator is marked with is what its own attribute and the
\* modules around it say, the nearest of a feature, whatever came before it in
\* the source: merge_scope works on a scope that is passed down and not back up.
NearestMarkWins ==
  \A i \in 1..pos : source.items[i].kind = "fn" =>
    /\ source.items[i].attr = "case" =>
         Range(cases[Nth({"case"}, i)].tags) = MarksInForce(i)
    /\ source.items[i].attr \in {"generator", "row"} =>
         Range(gens[Nth({"generator", "row"}, i)].tags) = MarksInForce(i)

\* What a generator yields is sound on its own.
YieldsSound(gen) ==
  /\ \A k \in DOMAIN gen.cases : LeafNames(gen, gen.cases[k]) # {}
  /\ \A j, k \in DOMAIN gen.cases : gen.cases[j] = gen.cases[k] => j = k

\* A suite the macro accepts registers all its cases unless one of its
\* generators yields a bad name or one name twice: no two declarations can
\* collide, and none is left for the first run to find.  Its inventory is one
\* that lock accepts; only a listing can be refused.
AcceptedSuiteRuns ==
  /\ mode = "panicked" => \E g \in DOMAIN gens : ~YieldsSound(gens[g])
  /\ told = "refused" => leaves

\* The marks a case is registered with in the instance are those the inventory
\* says it has, by its exact record or by the longest row above its name: a
\* runner decides on the latter whether it applies.
TagsAgree ==
  Built => \A k \in DOMAIN registry :
    LET name  == registry[k].name
        exact == {e \in Range(Inventory.case) : e.name = name}
        rows  == PrefixOf(Inventory, name)
    IN IF exact # {} THEN \A e \in exact : e.tags = registry[k].tags
       ELSE rows # {} /\ \A g \in rows : Inventory.generated[g].tags = registry[k].tags

\* A lockfile just written, or just checked in silence, accepts a full run of
\* this build, if its leaves are not pinned or come from a listing of this
\* build; and --check reports no drift where there is none: the same source
\* and the same listing, in whatever order the artifact was linked.
QuietCheckCovers ==
  /\ \A lf \in committed :
       /\ told \in {"wrote", "quiet"} /\ mode = "ready"
       /\ (leaves /\ listed = builds) \/ \A g \in DOMAIN lf.generated : lf.generated[g].cases = <<>>
       => Covers(lf, [k \in DOMAIN registry |-> registry[k].name])
  /\ told = "drift" /\ origin[1] = source => leaves /\ origin[2] # listing
=============================================================================
