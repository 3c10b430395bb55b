------------------------------ MODULE MCSuite -------------------------------
(***************************************************************************)
(* LockCommand on small suites: marks at four levels of nested modules,    *)
(* pairs of declarations that may collide, and what the macro refuses.     *)
(***************************************************************************)
EXTENDS LockCommand

MCLetters == {"a", "b", "c"}
MCDigits  == {"1"}
Chars     == MCLetters \union MCDigits \union {"-", "_", "."}
Segments  == UNION {[1..n -> Chars] : n \in 1..3}

MCLabels       == {s \in Segments : IsWitLabel(s)}
MCLeafSegments == {s \in Segments : IsSegment(s)}

A == <<"a">>
B == <<"b">>
C == <<"c">>
AB == <<"a", "-", "b">>
Hidden == <<"_">>   \* a leaf, but no label

Plus  == [feature |-> "f", negative |-> FALSE]
Minus == [feature |-> "f", negative |-> TRUE]
Level == {<<>>, <<Plus>>, <<Minus>>}

Fn(ident, attr, name, tags, leafs) ==
  [kind |-> "fn", ident |-> ident, attr |-> attr, name |-> name, tags |-> tags,
   leaves |-> leafs, args |-> 1, cfg |-> FALSE]
Case(ident, tags)       == Fn(ident, "case", <<>>, tags, <<>>)
Gen(prefix, tags, leafs) == Fn(C, "generator", prefix, tags, leafs)
Mod(ident, tags) == [Case(ident, tags) EXCEPT !.kind = "mod", !.attr = "none"]
End == [Case(A, <<>>) EXCEPT !.kind = "end", !.attr = "none"]

Suite(root, items) == [root |-> root, items |-> items]

\* Marks on two nested modules, on a case in the inner one, and on a case or a
\* generator after it in the outer one; the last case declines the feature.
Scoped ==
  {Suite(<<A>>, <<Mod(A, s), Mod(B, t), Case(C, u), End, last, End, Case(B, <<Minus>>)>>) :
     s, t, u \in Level,
     last \in {Case(C, <<>>), Case(C, <<Plus>>), Gen(<<C>>, <<>>, <<<<A>>>>), Gen(<<C>>, <<Minus>>, <<>>)}}

\* Declarations in pairs, at the top and in a module.
Declarations ==
  {Case(A, <<>>), Case(<<"a", "_", "b">>, <<>>), Fn(C, "case", <<AB>>, <<>>, <<>>),
   Fn(C, "case", <<A, B>>, <<Minus>>, <<>>), Fn(C, "case", <<Hidden, A>>, <<>>, <<>>),
   Gen(<<A>>, <<>>, <<>>), Gen(<<A>>, <<>>, <<<<B>>>>), Gen(<<A>>, <<Minus>>, <<<<B, C>>, <<C>>>>), Gen(<<A>>, <<>>, <<<<B>>, <<B>>>>),
   Gen(<<A, B>>, <<>>, <<<<C>>, <<Hidden>>>>), Gen(<<A, B>>, <<Plus>>, <<<<A>>>>),
   Gen(<<B>>, <<>>, <<<<Hidden, A>>>>), Gen(<<Hidden>>, <<>>, <<>>),
   Fn(C, "row", <<B>>, <<>>, <<<<B, A>>, <<B, C, A>>>>), Fn(C, "row", <<B>>, <<>>, <<<<A, C>>>>)}

Pairs ==
  {Suite(<<>>, <<d, e>>) : d, e \in Declarations}
    \union {Suite(<<>>, <<d, Mod(A, <<>>), e, End>>) : d \in Declarations, e \in {Case(B, <<>>), Gen(<<B>>, <<>>, <<<<C>>>>)}}

Refused ==
  {Suite(<<A>>, <<>>),
   Suite(<<A>>, <<[Case(A, <<>>) EXCEPT !.attr = "none"]>>),
   Suite(<<A>>, <<[Case(A, <<>>) EXCEPT !.cfg = TRUE]>>),
   Suite(<<A>>, <<[Case(A, <<>>) EXCEPT !.attr = "test"], Case(B, <<>>)>>),
   Suite(<<A>>, <<[Case(A, <<>>) EXCEPT !.args = 2]>>),
   Suite(<<A>>, <<Gen(<<>>, <<>>, <<>>)>>),
   Suite(<<A>>, <<Mod(<<"_", "a">>, <<>>), End, Case(B, <<>>)>>),
   Suite(<<A>>, <<Mod(A, <<Plus, Minus>>), End, Case(B, <<>>)>>),
   Suite(<<A>>, <<Case(B, <<[feature |-> "?", negative |-> FALSE]>>)>>),
   Suite(<<Hidden>>, <<Case(B, <<>>)>>)}

MCRevisions ==
  {Suite(<<>>, <<Case(C, <<>>), Gen(<<A>>, <<>>, <<<<B>>>>)>>),
   Suite(<<>>, <<Case(C, <<>>), Gen(<<A>>, <<>>, <<<<C>>, <<B>>>>)>>),
   Suite(<<>>, <<Case(C, <<>>), Gen(<<A>>, <<>>, <<<<B>>>>), Gen(<<B>>, <<>>, <<<<B>>>>)>>),
   Suite(<<>>, <<Case(C, <<>>), Case(B, <<Minus>>)>>),
   Suite(<<>>, <<Case(C, <<>>), Case(C, <<>>)>>)}

MCSources == Scoped \union Pairs \union Refused \union MCRevisions
=============================================================================
