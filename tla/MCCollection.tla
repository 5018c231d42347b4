---------------------------- MODULE MCCollection ----------------------------
(* Trees of five objects, and rules, for TLC. *)
EXTENDS Collection

N == 5
Objects == 1..N

\* Every tree: each object but the first is the last child of an earlier one.
Trees ==
  {[p \in Objects |-> SetToSortSeq({o \in 2..N : up[o] = p}, <)] :
     up \in {f \in [2..N -> Objects] : \A o \in 2..N : f[o] < o}}

Empty == [of |-> {}, how |-> "all"]
Plain(role, leaf) ==
  [role |-> role, states |-> {}, interfaces |-> {}, attributes |-> {}, leaf |-> leaf]

\* The objects of S have the role that is asked for and are leaves.
Shapes ==
  {[kids |-> t,
    feature |-> [o \in Objects |-> Plain(IF o \in S THEN "heading" ELSE "text", o \in S)],
    rule |-> [states |-> Empty, attributes |-> Empty, interfaces |-> Empty,
              roles |-> [of |-> {"heading"}, how |-> "any"], invert |-> FALSE]] :
     t \in Trees, S \in SUBSET Objects}

\* One criterion at a time, on a row of objects with all combinations of two values.
Values == <<{}, {"v1"}, {"v2"}, {"v1", "v2"}>>
Row == [p \in Objects |-> IF p = 1 THEN <<2, 3, 4, 5>> ELSE <<>>]
Feature(o) ==
  LET s == IF o = 1 THEN {} ELSE Values[o - 1]
  IN [role |-> IF o < 4 THEN "v1" ELSE "v2", states |-> s, interfaces |-> s,
      attributes |-> s, leaf |-> FALSE]
Criterion == [of : SUBSET {"v1", "v2"}, how : {"all", "any", "none", "empty"}]
Rules ==
  LET none == [states |-> Empty, attributes |-> Empty, interfaces |-> Empty, roles |-> Empty,
               invert |-> FALSE]
  IN {[none EXCEPT ![k] = c] : k \in DOMAIN none \ {"invert"}, c \in Criterion}
     \cup {[none EXCEPT !.roles = [of |-> {"v1"}, how |-> "any"], !.invert = TRUE]}

Scenarios ==
  Shapes \cup {[kids |-> Row, feature |-> [o \in Objects |-> Feature(o)], rule |-> r] : r \in Rules}
=============================================================================
