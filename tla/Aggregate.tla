----------------------------- MODULE Aggregate ------------------------------
(***************************************************************************)
(* `component-test aggregate` (crates/component-test-cli/src/main.rs) over *)
(* the aggregator (crates/component-test-formats/src/aggregate.rs): the    *)
(* documents of several targets' runs are joined, one by one, against the  *)
(* lockfile and the target manifest, and the corpus is judged.             *)
(*                                                                         *)
(* A document is what the result fold (ResultsFold) makes of one target's  *)
(* run; Runs are the runs there may be.  Warnings do not reach the verdict *)
(* and are left out.                                                       *)
(***************************************************************************)
EXTENDS Lockfile

CONSTANTS
  Targets,    \* the target names a command line may give
  Names,      \* the case names of the lockfiles and the runs
  Lockfiles,  \* the lockfiles
  Manifests,  \* the target manifests
  Runs,       \* the runs whose results may be given
  MaxDocs     \* bound: a command line gives no more documents than this

\* The statuses of results, and "renamed", a word the consumer does not know.
Statuses == {"pass", "fail", "skipped", "not-applicable", "deselected", "not-reached"}
Words    == {"pass", "fail", "skipped", "deselected", "renamed"}

CaseEntry == [name : Names, tags : Seq(Tag)]
RowEntry  == [prefix : Seq(Labels), tags : Seq(Tag), cases : Seq(Seq(LeafSegments))]

\* wellFormed: the version is known, and no expected-fail declaration is
\* given twice, misnamed, or without a reason and a tracking reference.
TargetEntry == [missing : SUBSET Features, optional : BOOLEAN, expectedFail : SUBSET Names]
IsManifest(m) ==
  /\ m.wellFormed \in BOOLEAN
  /\ m.gated \union m.structural \subseteq Features
  /\ DOMAIN m.targets \subseteq Targets
  /\ m.targets \in [DOMAIN m.targets -> TargetEntry]

\* A run: the names it enumerates and how each case comes out when executed,
\* the features its runner takes for missing, whether the runner schedules by
\* tags, after how many events the run was cut (or that it was not), and
\* whether the harness reports run errors.
RunRecord ==
  [names : Seq(Names), words : Seq(Words), served : SUBSET Features,
   scheduled : BOOLEAN, whole : BOOLEAN, runErrors : BOOLEAN]

ASSUME AggregateAssumption ==
  /\ \A lf \in Lockfiles : lf.case \in Seq(CaseEntry) /\ lf.generated \in Seq(RowEntry)
  /\ \A m \in Manifests : IsManifest(m)
  /\ Runs \subseteq RunRecord
  /\ \A r \in Runs : Len(r.words) <= Len(r.names) /\ (r.whole => Len(r.words) = Len(r.names))
  /\ MaxDocs \in Nat

VARIABLES
  lock, manifest,   \* the declarations; fixed
  given,            \* the [target, run]s joined so far
  mode,
  errors,           \* validation failures: <<kind, target>>
  results,          \* [target, case, status]s
  excused           \* <<target, case>>s assessed expected-fail

vars == <<lock, manifest, given, mode, errors, results, excused>>

-----------------------------------------------------------------------------
\* The tag set of a name, as a set of at most one: that of the last exact case
\* of that name, or of the row above it.
TagsFor(name) ==
  LET exact == {k \in DOMAIN lock.case : lock.case[k].name = name} IN
  IF exact # {}
  THEN {lock.case[k].tags : k \in {e \in exact : \A f \in exact : f <= e}}
  ELSE {lock.generated[g].tags : g \in PrefixOf(lock, name)}

\* A case that is not for a target missing those features.
Excluded(name, missing) == \E tags \in TagsFor(name) : ~Applies(tags, missing)

-----------------------------------------------------------------------------
\* The document of a run: what its runner says of the cases it comes to, and
\* of a cut run the open cases.

\* Mutant: a word the consumer does not know is a result like any other.
ToldAll(run) == DOMAIN run.words

Said(run, k) ==
  IF run.scheduled /\ Excluded(run.names[k], run.served) THEN "not-applicable" ELSE run.words[k]

\* The events whose word the consumer knows, and the exact cases a cut run has
\* no event of, which come after the last event.
Told(run) == {k \in DOMAIN run.words : Said(run, k) # "renamed"}

OpenAt(run) ==
  IF run.whole THEN {}
  ELSE {Len(run.words) + i :
          i \in {o \in DOMAIN lock.case : \A k \in DOMAIN run.words : run.names[k] # lock.case[o].name}}

\* The results by their place; places whose event is no result are left out.
Document(run) ==
  [k \in Told(run) \union OpenAt(run) |->
     IF k \in DOMAIN run.words
     THEN [case |-> run.names[k], status |-> Said(run, k)]
     ELSE [case |-> lock.case[k - Len(run.words)].name, status |-> "not-reached"]]

CaseNames(doc) == [k \in DOMAIN doc |-> doc[k].case]

\* Results are collected into a map: of a case reported twice the last stays.
LastReports(doc) ==
  {doc[k] : k \in {i \in DOMAIN doc : \A j \in DOMAIN doc : doc[j].case = doc[i].case => j <= i}}

Leaves(doc) == {doc[k].case : k \in {i \in DOMAIN doc : PrefixOf(lock, doc[i].case) # {}}}

-----------------------------------------------------------------------------
Init ==
  /\ lock \in Lockfiles
  /\ manifest \in Manifests
  /\ given = <<>>
  /\ mode = "checking"
  /\ errors = {}
  /\ results = {}
  /\ excused = {}

Declared == DOMAIN manifest.targets
Missing(t) == manifest.targets[t].missing

\* Manifest::validate.
ManifestValid ==
  /\ manifest.wellFormed
  /\ Declared # {}
  /\ \A t \in Declared : Missing(t) \subseteq manifest.gated \union manifest.structural

\* The features the lockfile's marks name, if it validates.
LockFeatures == IF Validates(lock) THEN FeaturesOf(lock) ELSE {}

\* Every entry of the lockfile is for some declared target.
NoDeadCoverage == \A tags \in Marks(lock) : \E t \in Declared : Applies(tags, Missing(t))

DeclarationKinds == {"lockfile", "manifest", "unclassified feature", "dead coverage", "dead feature"}

DeclarationErrors ==
  {e \in DeclarationKinds :
     \/ e = "lockfile" /\ ~Validates(lock)
     \/ e = "manifest" /\ ~ManifestValid
     \/ e = "unclassified feature" /\ ~(LockFeatures \subseteq manifest.gated \union manifest.structural)
     \/ e = "dead coverage" /\ ~NoDeadCoverage
     \/ e = "dead feature" /\ ~(manifest.gated \subseteq LockFeatures)}

\* The marks of every entry are built into tag sets before the documents are
\* looked at, and one that contradicts itself panics, reported or not.
CheckDeclarations ==
  /\ mode = "checking"
  /\ IF \A tags \in Marks(lock) : TagsValid(tags)
     THEN mode' = "joining" /\ errors' = {<<e, "">> : e \in DeclarationErrors}
     ELSE mode' = "panicked" /\ UNCHANGED errors
  /\ UNCHANGED <<lock, manifest, given, results, excused>>

-----------------------------------------------------------------------------
\* One document.

Seen == {given[k].target : k \in DOMAIN given}

\* Mutant: only a failure is taken for a case that should not have been run.
NormalFailures(t, run, report) ==
  IF /\ t \in Declared /\ ~run.scheduled
     /\ Excluded(report.case, Missing(t))
     /\ report.status = "fail"
  THEN "not-applicable" ELSE report.status

\* A status as the corpus has it: what an unscheduled runner executed though
\* the target is missing a feature for it is not applicable.
Normal(t, run, report) ==
  IF /\ t \in Declared /\ ~run.scheduled
     /\ Excluded(report.case, Missing(t))
     /\ report.status \notin {"not-applicable", "not-reached"}
  THEN "not-applicable" ELSE report.status

Drifts(t, run, report) ==
  /\ t \in Declared
  /\ \/ /\ run.scheduled
        /\ Excluded(report.case, Missing(t))
        /\ report.status \notin {"not-applicable", "not-reached"}
     \/ /\ TagsFor(report.case) # {} /\ ~Excluded(report.case, Missing(t))
        /\ report.status = "not-applicable"

NormalReports(t, run) ==
  {[case |-> r.case, status |-> Normal(t, run, r)] : r \in LastReports(Document(run))}

\* The declared failures of a target that name an applicable case.
ExpectedFail(t) ==
  IF t \in Declared
  THEN {c \in manifest.targets[t].expectedFail : TagsFor(c) # {} /\ ~Excluded(c, Missing(t))}
  ELSE {}

Comes(t, run, status) == {r.case : r \in {n \in NormalReports(t, run) : n.status = status}}

DocumentKinds ==
  {"undeclared", "unterminated", "run error", "coverage", "drift", "stale", "unexpected pass"}

DocumentErrors(t, run) ==
  {e \in DocumentKinds :
     \/ e = "undeclared" /\ t \notin Declared
     \/ e = "unterminated" /\ ~run.whole
     \/ e = "run error" /\ run.runErrors
     \/ e = "coverage" /\ ~Covers(lock, CaseNames(Document(run)))
     \/ e = "drift" /\ \E r \in LastReports(Document(run)) : Drifts(t, run, r)
     \/ e = "stale" /\ t \in Declared /\ manifest.targets[t].expectedFail # ExpectedFail(t)
     \/ e = "unexpected pass" /\ ExpectedFail(t) \intersect Comes(t, run, "pass") # {}}

\* A second document of a target is refused and looked at no further.
Join ==
  /\ mode = "joining"
  /\ Len(given) < MaxDocs
  /\ \E t \in Targets, run \in Runs :
       /\ given' = Append(given, [target |-> t, run |-> run])
       /\ IF t \in Seen
          THEN /\ errors' = errors \union {<<"multiple", t>>}
               /\ UNCHANGED <<results, excused>>
          ELSE /\ errors' = errors \union {<<e, t>> : e \in DocumentErrors(t, run)}
               /\ results' = results \union
                    {[target |-> t, case |-> r.case, status |-> r.status] : r \in NormalReports(t, run)}
               /\ excused' = excused \union
                    {<<t, c>> : c \in ExpectedFail(t) \intersect Comes(t, run, "fail")}
  /\ UNCHANGED <<lock, manifest, mode>>

-----------------------------------------------------------------------------
\* The verdict.

\* The documents that were joined: the first of each target.
Joined == {given[k] : k \in {i \in DOMAIN given : \A j \in 1..(i - 1) : given[j].target # given[i].target}}

\* The declared targets without a document, unless they are optional.
Silent == {t \in Declared \ Seen : ~manifest.targets[t].optional}

\* Mutant: a row is shed only if it has no leaf left.
ShedWhole ==
  {g \in Joined : Leaves(Document(g.run)) = {} /\ \E h \in Joined : Leaves(Document(h.run)) # {}}

\* The joined documents without some leaf that another one reports.
Shed == {g \in Joined : \E h \in Joined : ~(Leaves(Document(h.run)) \subseteq Leaves(Document(g.run)))}

\* Mutant: a failure declared for one target is excused on the others.
FailingUndeclared ==
  {r \in results : r.status \in {"fail", "not-reached"} /\ r.case \notin {e[2] : e \in excused}}

\* Failing, and not a declared failure.
FailingResults ==
  {r \in results : r.status \in {"fail", "not-reached"} /\ <<r.target, r.case>> \notin excused}

Finish ==
  /\ mode = "joining"
  /\ errors' = errors \union {<<"silent", t>> : t \in Silent} \union {<<"shed", g.target>> : g \in Shed}
  /\ mode' = IF errors' = {} /\ FailingResults = {} THEN "green" ELSE "red"
  /\ UNCHANGED <<lock, manifest, given, results, excused>>

\* The command has exited.
Exited == mode \in {"green", "red", "panicked"} /\ UNCHANGED vars

Next == CheckDeclarations \/ Join \/ Finish \/ Exited

Spec == Init /\ [][Next]_vars

-----------------------------------------------------------------------------
Error == (DeclarationKinds \union DocumentKinds \union {"multiple", "silent", "shed"})
           \X (Targets \union {""})

\* The aggregator's variables have their types.
TypeOK ==
  /\ lock \in Lockfiles
  /\ manifest \in Manifests
  /\ given \in Seq([target : Targets, run : Runs])
  /\ mode \in {"checking", "joining", "green", "red", "panicked"}
  /\ errors \subseteq Error
  /\ results \subseteq [target : Targets, case : Names, status : Statuses]
  /\ excused \subseteq Targets \X Names

\* A result that a green corpus may have: it came out well, or it failed as
\* the manifest says it does.
Fine(t, run, report) ==
  \/ report.status \in {"pass", "skipped", "deselected", "not-applicable"}
  \/ report.status = "fail" /\ report.case \in manifest.targets[t].expectedFail
  \/ report.status = "fail" /\ ~run.scheduled /\ Excluded(report.case, Missing(t))

\* The cases the lockfile lists by name: exact ones, and the leaves of the rows
\* that enumerate theirs.  Those of an open row are known from the runs alone.
Listed ==
  ExactNames(lock) \union UNION {Enumerated(lock.generated[g]) : g \in DOMAIN lock.generated}

\* A green corpus is earned: every declared target that is not optional has
\* one document, of a run that was not cut; each case the lockfile lists has a
\* result in it, every result came out well or failed as declared, and no
\* declared failure passes.  Nothing a target leaves out, reports twice or adds
\* can make up for that.  An event whose status is unknown makes no result, so
\* it is by the missing result that a listed case turns the corpus red; a leaf
\* of an open row with such a status is warned about, and the property does not
\* speak of it (aggregate.rs counts unknown statuses among the gates).
GreenIsEarned ==
  mode = "green" =>
    /\ \A t \in Declared : t \in Seen \/ manifest.targets[t].optional
    /\ \A j, k \in DOMAIN given : given[j].target = given[k].target => j = k
    /\ \A k \in DOMAIN given :
         LET t == given[k].target
             run == given[k].run
             doc == Document(run) IN
         /\ t \in Declared
         /\ run.whole /\ ~run.runErrors
         /\ \A i \in DOMAIN doc : Fine(t, run, doc[i])
         /\ \A i \in DOMAIN doc :
              doc[i].case \in manifest.targets[t].expectedFail => doc[i].status # "pass"
         /\ Listed \subseteq {doc[i].case : i \in DOMAIN doc}

\* Green targets ran the same suite: they report the very same cases.
SameCensus ==
  mode = "green" =>
    \A j, k \in DOMAIN given :
      {r.case : r \in LastReports(Document(given[j].run))}
        = {r.case : r \in LastReports(Document(given[k].run))}

\* "Downstream sees runner parity": whether a runner schedules by tags or
\* executes everything, the corpus has the same status for a case of a known
\* target: how it came out if it is for the target, and not applicable
\* otherwise.  A runner that schedules for other features than the manifest's
\* is found out, so this is a matter of valid corpora only for those.
RunnerParity ==
  \A g \in Joined : \A k \in DOMAIN g.run.words :
    LET name == g.run.names[k] IN
    /\ g.target \in Declared
    /\ g.run.scheduled => mode = "green"
    /\ g.run.words[k] # "renamed"
    /\ \A i, j \in DOMAIN g.run.words : g.run.names[i] = g.run.names[j] => i = j
    => [target |-> g.target, case |-> name,
        status |-> IF Excluded(name, Missing(g.target)) THEN "not-applicable" ELSE g.run.words[k]]
         \in results

\* "Entries whose tag sets don't validate are skipped" (aggregate.rs): a
\* lockfile that does not validate is a validation failure, never a panic.
NeverPanics == mode # "panicked"
=============================================================================
