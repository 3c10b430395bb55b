----------------------------- MODULE SuiteMacro -----------------------------
(***************************************************************************)
(* The `#[suite]` macro (crates/component-test-sdk-macro/src/lib.rs): it   *)
(* walks a module tree of the suite's source, collects cases and           *)
(* generators with their names and the feature marks in force, and refuses *)
(* what it must.                                                           *)
(*                                                                         *)
(* The tree is the sequence of its items in source order; a module is      *)
(* closed by an "end" item.  A frame of the stack is one call of           *)
(* walk_items: the name prefix and the marks it was given.                 *)
(***************************************************************************)
EXTENDS Lockfile, CaseNames

CONSTANT Sources  \* the [root, items]s a suite may be written as

\* name and prefix attributes are sequences of segments; <<>> is none given.
Item == [kind   : {"mod", "end", "fn"},
         ident  : Seq(Letters \union Digits \union {"_"}),
         attr   : {"none", "case", "generator", "row", "test"},
         name   : Seq(Seq(STRING)),
         tags   : Seq([feature : STRING, negative : BOOLEAN]),
         leaves : Seq(Seq(Seq(STRING))),   \* what the generator yields when it is run
         args   : 0..2,
         cfg    : BOOLEAN]

\* The root is a name prefix; an "end" closes a module that is open.
IsSuite(s) ==
  /\ s.root \in Seq(Seq(STRING))
  /\ s.items \in Seq(Item)
  /\ \A k \in DOMAIN s.items :
       Cardinality({j \in 1..k : s.items[j].kind = "end"})
         <= Cardinality({j \in 1..k : s.items[j].kind = "mod"})

ASSUME SourcesAssumption == \A s \in Sources : IsSuite(s)

VARIABLES
  source,   \* the suite as it is written
  pos,      \* items walked
  stack,    \* the modules open: [prefix, scope]
  cases,    \* collected cases: [name, tags]
  gens,     \* collected generators: [prefix, tags, cases, row]; cases as in
            \* the lockfile, the leaves it yields
  mode      \* "walking" -> "expanded", or "refused"; later: see SuiteRegistry

walk == <<source, pos, stack, cases, gens>>

\* The walk starts at the suite's module.
Opened(s) == <<[prefix |-> s.root, scope |-> <<>>]>>

Written(s) ==
  /\ source' = s
  /\ pos' = 0
  /\ stack' = Opened(s)
  /\ cases' = <<>>
  /\ gens' = <<>>
  /\ mode' = "walking"

MacroInit ==
  /\ source \in Sources
  /\ pos = 0
  /\ stack = Opened(source)
  /\ cases = <<>>
  /\ gens = <<>>
  /\ mode = "walking"

-----------------------------------------------------------------------------
\* A declaration level must parse and hold each feature once.
LevelValid(tags) == (\A k \in DOMAIN tags : tags[k] \in Tag) /\ TagsValid(tags)

\* The elements of s at the places in K.
Retain(s, K) ==
  LET retained[k \in 0..Len(s)] ==
        IF k = 0 THEN <<>>
        ELSE IF k \in K THEN Append(retained[k - 1], s[k]) ELSE retained[k - 1]
  IN retained[Len(s)]

\* The places of the marks whose feature the level does not declare.
Undeclared(marks, level) ==
  {k \in DOMAIN marks : \A j \in DOMAIN level : level[j].feature # marks[k].feature}

\* Mutant: the first declaration wins.
MergeScopeOuter(scope, level) == scope \o Retain(level, Undeclared(level, scope))

\* merge_scope: the nearest declaration of a feature wins.
MergeScope(scope, level) == Retain(scope, Undeclared(scope, level)) \o level

Here == stack[Len(stack)]

At(kind) ==
  /\ mode = "walking"
  /\ pos < Len(source.items)
  /\ source.items[pos + 1].kind = kind

ItemHere == source.items[pos + 1]

Collected(item) == item.attr \in {"case", "generator", "row"}

\* The errors of walk_items: gated items, bad marks, a module that is no
\* label, a foreign test attribute, a wrong shape, a generator without prefix.
ItemRefused(item) ==
  \/ item.kind = "mod" /\ IdentToSegment(item.ident) \notin Labels
  \/ item.kind = "fn" /\ item.attr = "test"
  \/ item.kind = "fn" /\ item.attr \in {"case", "generator"} /\ item.args > 1
  \/ item.kind = "fn" /\ item.attr \in {"generator", "row"} /\ item.name = <<>>
  \/ (item.kind = "mod" \/ Collected(item)) /\ (item.cfg \/ ~LevelValid(item.tags))

Refuse ==
  /\ mode = "walking"
  /\ pos < Len(source.items)
  /\ ItemRefused(ItemHere)
  /\ mode' = "refused"
  /\ UNCHANGED walk

EnterModule ==
  /\ At("mod") /\ ~ItemRefused(ItemHere)
  /\ pos' = pos + 1
  /\ stack' = Append(stack, [prefix |-> Append(Here.prefix, IdentToSegment(ItemHere.ident)),
                             scope  |-> MergeScope(Here.scope, ItemHere.tags)])
  /\ UNCHANGED <<source, cases, gens, mode>>

LeaveModule ==
  /\ At("end")
  /\ pos' = pos + 1
  /\ stack' = SubSeq(stack, 1, Len(stack) - 1)
  /\ UNCHANGED <<source, cases, gens, mode>>

\* A function without one of our attributes registers nothing.
TakeFn ==
  /\ At("fn") /\ ~ItemRefused(ItemHere)
  /\ pos' = pos + 1
  /\ LET tags == MergeScope(Here.scope, ItemHere.tags)
         leaf == IF ItemHere.name = <<>> THEN <<IdentToSegment(ItemHere.ident)>> ELSE ItemHere.name
     IN /\ cases' = IF ItemHere.attr # "case" THEN cases
                    ELSE Append(cases, [name |-> Here.prefix \o leaf, tags |-> tags])
        /\ gens' = IF ItemHere.attr \notin {"generator", "row"} THEN gens
                   ELSE Append(gens, [prefix |-> Here.prefix \o ItemHere.name, tags |-> tags,
                                      cases |-> ItemHere.leaves, row |-> ItemHere.attr = "row"])
  /\ UNCHANGED <<source, stack, mode>>

-----------------------------------------------------------------------------
\* validate.

Apart(prefix, other) == ~IsUnder(prefix, other) /\ ~IsUnder(other, prefix)

\* Mutant: a case must only not be named as a generator's prefix is.
CasesApartEqual == \A k \in DOMAIN cases, g \in DOMAIN gens : cases[k].name # gens[g].prefix

\* No case is where a generator's leaves are.
CasesApart == \A k \in DOMAIN cases, g \in DOMAIN gens : ~IsUnder(cases[k].name, gens[g].prefix)

\* Mutant: only a prefix that comes after the one it is under is noticed.
RowsApartForward ==
  \A g, h \in DOMAIN gens : g < h => ~IsUnder(gens[h].prefix, gens[g].prefix)

\* No generator's leaves can be those of another.
RowsApart == \A g, h \in DOMAIN gens : g # h => Apart(gens[g].prefix, gens[h].prefix)

Paired == UnpairedFeatures([case |-> cases, generated |-> gens]) = {}

Accepted ==
  /\ cases # <<>> \/ gens # <<>>
  /\ \A k \in DOMAIN cases : ValidName(cases[k].name)
  /\ \A j, k \in DOMAIN cases : cases[j].name = cases[k].name => j = k
  /\ \A g \in DOMAIN gens : \A k \in DOMAIN gens[g].prefix : gens[g].prefix[k] \in Labels
  /\ \A g, h \in DOMAIN gens : gens[g].prefix = gens[h].prefix => g = h
  /\ CasesApart
  /\ RowsApart
  /\ Paired

Validate ==
  /\ mode = "walking"
  /\ pos = Len(source.items)
  /\ mode' = IF Accepted THEN "expanded" ELSE "refused"
  /\ UNCHANGED walk

MacroNext == Refuse \/ EnterModule \/ LeaveModule \/ TakeFn \/ Validate
=============================================================================
