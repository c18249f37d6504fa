---------------------------- MODULE Constraints ----------------------------
(***************************************************************************)
(* Constraints and affinities of src/src/constraint.rs: whether a node     *)
(* with given attributes satisfies [left, operand, right].  An affinity    *)
(* has a weight besides and is evaluated alike.                            *)
(*                                                                         *)
(* Attribute names and values are strings that are only compared.  What    *)
(* their characters mean to parse::<i64>, to split(',') and to the regex   *)
(* and semver crates is the constant Text.                                 *)
(***************************************************************************)
EXTENDS Integers

CONSTANT
  Text  \* number:   the i64 of each value that parses as one
        \* elements: the parts of each value that split and trim change
        \* regexp:   the <<value, pattern>> that match
        \* version:  the <<value, requirement>> that parse and match

\* An attribute the node does not have reads as the empty string.
AttrVal(left, attributes) == IF left \in DOMAIN attributes THEN attributes[left] ELSE ""

\* A comparison holds only between two values that parse as numbers.
BothNumbers(l, r) == {l, r} \subseteq DOMAIN Text.number

SetContains(v, right) ==
  IF v \in DOMAIN Text.elements THEN right \in Text.elements[v] ELSE v = right

\* An operand that is not listed is never satisfied; the two distinct_ ones
\* always are.
SatisfiedBy(c, attributes) ==
  LET v == AttrVal(c.left, attributes) IN
  \/ c.operand = "=" /\ v = c.right
  \/ c.operand = "!=" /\ v # c.right
  \/ c.operand = ">" /\ BothNumbers(v, c.right) /\ Text.number[v] > Text.number[c.right]
  \/ c.operand = ">=" /\ BothNumbers(v, c.right) /\ Text.number[v] >= Text.number[c.right]
  \/ c.operand = "<" /\ BothNumbers(v, c.right) /\ Text.number[v] < Text.number[c.right]
  \/ c.operand = "<=" /\ BothNumbers(v, c.right) /\ Text.number[v] <= Text.number[c.right]
  \/ c.operand = "regexp" /\ <<v, c.right>> \in Text.regexp
  \/ c.operand = "version" /\ <<v, c.right>> \in Text.version
  \/ c.operand = "set_contains" /\ SetContains(v, c.right)
  \/ c.operand \in {"distinct_hosts", "distinct_property"}

============================================================================
