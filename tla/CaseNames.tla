----------------------------- MODULE CaseNames ------------------------------
(***************************************************************************)
(* The grammar of segments (crates/component-test-core/src/name.rs) and    *)
(* how the `#[suite]` macro makes segments of Rust identifiers.  A segment *)
(* is a sequence of characters; letters and digits stand for their         *)
(* classes.  The length limits (64 bytes a segment, 256 a name) are left   *)
(* out.                                                                    *)
(***************************************************************************)
EXTENDS Naturals, Sequences

CONSTANTS Letters,  \* lower-case letters
          Digits

\* is_wit_label: words joined by hyphens; the first starts with a letter, and
\* a later one that starts with a digit is a number.
IsWitLabel(s) ==
  /\ s # <<>> /\ s[1] \in Letters /\ s[Len(s)] # "-"
  /\ \A k \in DOMAIN s : s[k] \in Letters \union Digits \union {"-"}
  /\ \A j \in DOMAIN s : s[j] = "-" =>
       /\ s[j + 1] # "-"
       /\ s[j + 1] \in Digits =>
            \A k \in (j + 1)..Len(s) : (\A i \in (j + 1)..k : s[i] # "-") => s[k] \in Digits

\* validate_segment.
IsSegment(s) ==
  /\ s # <<>> /\ s \notin {<<".">>, <<".", ".">>}
  /\ \A k \in DOMAIN s : s[k] \in Letters \union Digits \union {"-", "_", "."}

\* ident_to_segment: distinct identifiers stay distinct, but an explicit name
\* may be the segment of another identifier.
IdentToSegment(ident) == [k \in DOMAIN ident |-> IF ident[k] = "_" THEN "-" ELSE ident[k]]
=============================================================================
