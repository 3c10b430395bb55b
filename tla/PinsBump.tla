------------------------------ MODULE PinsBump ------------------------------
(***************************************************************************)
(* `component-test pins` (crates/component-test-cli/src/pins.rs): the bump *)
(* rewrites the declared pins of a consumer's files, one file after the    *)
(* other; cargo and npm then write their lockfiles; and the gate compares  *)
(* the revs it finds in those.  A bump may fail or die at any file.        *)
(*                                                                         *)
(* A file is a sequence of lines, a line the 40-digit hashes on it and     *)
(* whether it names what the bump of that file looks for.  The workflow's  *)
(* refs are in no lockfile, so the gate does not see them.                 *)
(***************************************************************************)
EXTENDS Integers, Sequences, FiniteSets, SequencesExt

CONSTANTS
  Revs,
  Tomls, Packages, Workflows,  \* the consumer's files
  Trees,     \* the contents the files may have at first
  MaxBumps   \* bound: bump is run no more often than this

Files == Tomls \union Packages \union Workflows

\* pin: the line names a component-test crate from git, the JS package, or an
\* action.  A hash is bounded unless it is part of a longer word.  short: the
\* commit that a tag or an abbreviated rev on the line means, as a set.
Hash == [rev : Revs, bounded : BOOLEAN]
Line == [pin : BOOLEAN, hashes : Seq(Hash), short : SUBSET Revs]

ASSUME PinsAssumption ==
  /\ MaxBumps \in Nat
  /\ IsFiniteSet(Files) /\ Tomls # {}
  /\ \A t \in Trees : DOMAIN t = Files /\ \A f \in Files : t[f] \in Seq(Line)

VARIABLES
  tree,       \* history: the files as they were
  files,      \* the files
  cargoLock,  \* Cargo.lock: [name, source, commit]s, commit a set of at most one
  jsLocks,    \* the npm lockfile of each package.json: lines
  bumps,
  target,     \* the rev of the last bump, as a set of at most one
  given,      \* the files it was given
  todo,       \* those it has not done
  writing,    \* what it is writing, as a set of at most one
  told,       \* how it ended: "none", "bumping", "bumped", "pinless", "failed"
  passed      \* the [js, expect] of the gate that passed on these lockfiles, if one did

locks == <<cargoLock, jsLocks>>
bump  == <<bumps, target, given>>
vars  == <<tree, files, locks, bump, todo, writing, told, passed>>

-----------------------------------------------------------------------------
\* What cargo and npm make of the files.

\* The commit a declaration means.
Commits(line) == {line.hashes[k].rev : k \in {h \in DOMAIN line.hashes : line.hashes[h].bounded}} \union line.short

\* A package per line; one that is no pin is from a path or from elsewhere.
CargoLockOf(fs) ==
  UNION {{[name |-> <<f, k>>, source |-> IF fs[f][k].pin THEN "git" ELSE "none",
           commit |-> Commits(fs[f][k])] : k \in DOMAIN fs[f]} : f \in Tomls}

LockLine(indent, names, hashes) == [indent |-> indent, names |-> names, hashes |-> hashes]

\* Every other line is the head of a package's block, which has one more.
Block(line, k) == IF k % 2 = 1 THEN LockLine(1, line.pin, {}) ELSE LockLine(2, FALSE, Commits(line))

\* The declaration is repeated, and each package has a block.
JsLockOf(file) ==
  [k \in DOMAIN file |-> LockLine(2, file[k].pin, Commits(file[k]))]
    \o [k \in 1..(2 * Len(file)) |-> Block(file[(k + 1) \div 2], k)]

Init ==
  /\ tree \in Trees /\ files = tree
  /\ cargoLock = CargoLockOf(files)
  /\ jsLocks = [p \in Packages |-> JsLockOf(files[p])]
  /\ bumps = 0 /\ target = {} /\ given = {} /\ todo = <<>> /\ writing = {}
  /\ told = "none" /\ passed = {}

CargoUpdate ==
  /\ todo = <<>>
  /\ cargoLock' = CargoLockOf(files)
  /\ passed' = {}
  /\ UNCHANGED <<tree, files, jsLocks, bump, todo, writing, told>>

NpmInstall ==
  /\ todo = <<>>
  /\ \E p \in Packages : jsLocks' = [jsLocks EXCEPT ![p] = JsLockOf(files[p])]
  /\ passed' = {}
  /\ UNCHANGED <<tree, files, cargoLock, bump, todo, writing, told>>

-----------------------------------------------------------------------------
\* The bump.

\* replace_bounded_revs on a line that names what is looked for.
BumpLine(line, rev) ==
  IF line.pin
  THEN [line EXCEPT !.hashes =
          [k \in DOMAIN @ |-> IF @[k].bounded THEN [rev |-> rev, bounded |-> TRUE] ELSE @[k]]]
  ELSE line

Bumped(file, rev) == [k \in DOMAIN file |-> BumpLine(file[k], rev)]

\* The lines counted: those that change, and those at the rev already; in a
\* Cargo.toml the latter must hold the rev as such.
Sites(f, rev) ==
  {k \in DOMAIN files[f] :
     LET line == files[f][k] IN
     line.pin /\ \/ BumpLine(line, rev) # line
                 \/ \E h \in Range(line.hashes) : h.rev = rev /\ (f \in Tomls => h.bounded)}

\* The Cargo.tomls first, then the package.jsons, then the workflows.
InOrder(fs) ==
  SetToSeq(fs \intersect Tomls) \o SetToSeq(fs \intersect Packages) \o SetToSeq(fs \intersect Workflows)

StartBump ==
  /\ todo = <<>> /\ bumps < MaxBumps
  /\ bumps' = bumps + 1
  /\ target' \in {{rev} : rev \in Revs}
  /\ given' \in (SUBSET Files) \ {{}}
  /\ todo' = InOrder(given')
  /\ told' = "bumping"
  /\ UNCHANGED <<tree, files, locks, writing, passed>>

\* Writing a file truncates it first.
BumpFile ==
  /\ todo # <<>> /\ writing = {}
  /\ \E rev \in target :
       IF Sites(todo[1], rev) = {}
       THEN /\ told' = "pinless" /\ given' = {todo[1]} /\ todo' = <<>>
            /\ UNCHANGED <<files, writing>>
       ELSE /\ writing' = {Bumped(files[todo[1]], rev)}
            /\ files' = [files EXCEPT ![todo[1]] = <<>>]
            /\ UNCHANGED <<given, todo, told>>
  /\ UNCHANGED <<tree, locks, bumps, target, passed>>

Write ==
  /\ \E text \in writing : files' = [files EXCEPT ![todo[1]] = text]
  /\ writing' = {}
  /\ todo' = Tail(todo)
  /\ told' = IF Len(todo) = 1 THEN "bumped" ELSE told
  /\ UNCHANGED <<tree, locks, bump, passed>>

\* A file that cannot be read or written, or the process killed.
Fail ==
  /\ todo # <<>>
  /\ todo' = <<>> /\ writing' = {}
  /\ told' = "failed"
  /\ UNCHANGED <<tree, files, locks, bump, passed>>

\* A file that a write left empty is taken from version control again.
Restore ==
  /\ todo = <<>>
  /\ \E f \in Files :
       /\ files[f] = <<>> /\ tree[f] # <<>>
       /\ files' = [files EXCEPT ![f] = tree[f]]
  /\ told' = "none"
  /\ UNCHANGED <<tree, locks, bump, todo, writing, passed>>

-----------------------------------------------------------------------------
\* The gate.

GitPackages == {p \in cargoLock : p.source = "git"}

\* Mutant: a block goes on to the next line of its own indentation.
InBlockLoose(lock, i, k) == \A j \in (i + 1)..k : lock[j].indent >= lock[i].indent

\* Line k is in the block of line i: everything up to it is indented more.
InBlock(lock, i, k) == \A j \in (i + 1)..k : lock[j].indent > lock[i].indent

\* js_lock_revs: the hashes on lines that name the package, and in their blocks.
JsLockRevs(lock) ==
  UNION {UNION {lock[k].hashes : k \in {l \in i..Len(lock) : InBlock(lock, i, l)}} :
           i \in {n \in DOMAIN lock : lock[n].names}}

\* Mutant: what the JS lockfiles hold is not compared.
GateCargoOnly(js, expect) ==
  IF \E p \in js : JsLockRevs(jsLocks[p]) = {} THEN "jspinless"
  ELSE IF \E r, s \in (UNION {p.commit : p \in GitPackages}) \union expect : r # s THEN "skew" ELSE "ok"

\* pins_cmd.
Gate(js, expect) ==
  IF \E p \in GitPackages : p.commit = {} THEN "sourceless"
  ELSE IF GitPackages = {} THEN "crateless"
  ELSE IF \E p \in js : JsLockRevs(jsLocks[p]) = {} THEN "jspinless"
  ELSE IF \E r, s \in (UNION ({p.commit : p \in GitPackages} \union {JsLockRevs(jsLocks[p]) : p \in js}))
                        \union expect : r # s
       THEN "skew" ELSE "ok"

RunGate ==
  /\ todo = <<>>
  /\ \E js \in SUBSET Packages, expect \in {{}} \union {{rev} : rev \in Revs} :
       passed' = IF Gate(js, expect) = "ok" THEN {[js |-> js, expect |-> expect]} ELSE {}
  /\ UNCHANGED <<tree, files, locks, bump, todo, writing, told>>

Next ==
  \/ CargoUpdate
  \/ NpmInstall
  \/ StartBump
  \/ BumpFile
  \/ Write
  \/ Fail
  \/ Restore
  \/ RunGate

Spec == Init /\ [][Next]_vars

-----------------------------------------------------------------------------
Fresh == cargoLock = CargoLockOf(files) /\ \A p \in Packages : jsLocks[p] = JsLockOf(files[p])

PinsOf(f) == {k \in DOMAIN files[f] : files[f][k].pin}

\* A line that gives its pin as full hashes.
FullHashes(line) == line.short = {} /\ \E h \in Range(line.hashes) : h.bounded

\* A bump of all files that ends well makes the gate pass at its rev once cargo
\* and npm have run, whatever earlier bumps left half-done, if the pins are
\* full hashes; it refuses a file only if that has none, so a file that an
\* earlier bump did is none to stop at; and of a file that is not cut short by
\* a failure it changes nothing but the hashes of the pins.
BumpHeals ==
  /\ (/\ told = "bumped" /\ given = Files /\ Fresh
      /\ \A f \in Files : \A k \in PinsOf(f) : FullHashes(files[f][k]))
     => Gate(Packages, target) = "ok"
  /\ told = "pinless" => \A f \in given : \A k \in PinsOf(f) :
       \A h \in Range(files[f][k].hashes) : ~h.bounded
  /\ \A f \in Files : files[f] # <<>> =>
       /\ Len(files[f]) = Len(tree[f])
       /\ \A k \in DOMAIN files[f] :
            \/ files[f][k] = tree[f][k]
            \/ files[f][k].pin /\ \E rev \in Revs : files[f][k] = BumpLine(tree[f][k], rev)

\* A gate that passes on fresh lockfiles saw one rev: every crate from git
\* means that commit, and so does every JS dependency that means one, of which
\* each package.json whose lockfile the gate was given has some; it is the
\* expected rev if one is, however the bumps before it ended.
GateSeesSkew ==
  \A g \in passed : Fresh =>
    \E rev \in Revs :
      /\ g.expect \subseteq {rev}
      /\ \A f \in Tomls : \A k \in PinsOf(f) : Commits(files[f][k]) = {rev}
      /\ \A f \in g.js : UNION {Commits(files[f][k]) : k \in PinsOf(f)} = {rev}
=============================================================================
