------------------------------ MODULE HuntQuery ------------------------------
(***************************************************************************)
(* The expressions of a hunt: a comparison of a field, a negation, or all  *)
(* or any of several expressions; how they are validated, and the          *)
(* condition they are compiled to.  internal/hunt/query.go.                *)
(*                                                                         *)
(* Strings are sequences of letters that stand for either case; a field an *)
(* event does not have is the empty one.  Whether a number exists, a       *)
(* question the query language allows, is left out: what ClickHouse makes  *)
(* of its comparison with the empty string is not in this code.            *)
(***************************************************************************)
EXTENDS Hunting, SequencesExt

CONSTANTS MaximumDepth, MaximumChildren, MaximumPredicates

numberFields == {"severity"}
RECURSIVE predicates(_), validateExpression(_, _)
predicates(x) ==
    Cardinality(x.predicate) + FoldSeq(LAMBDA child, sum : sum + predicates(child), 0, x.all \o x.any \o SetToSeq(x.not))
validatePredicate(p) ==
    /\ p.comparator \in {"eq", "neq", "in"}
          \cup (IF p.field \in numberFields THEN {"gt", "gte", "lt", "lte"} ELSE {"exists", "not_exists", "contains", "starts_with", "ends_with"})
    /\ p.comparator \notin {"exists", "not_exists"} =>
          p.values # {} /\ (p.field \notin numberFields => <<>> \notin p.values)
forms(x) == Cardinality({form \in {"all", "any"} : x[form] # <<>>}) + Cardinality(x.not) + Cardinality(x.predicate)
validateExpression(x, depth) ==
    /\ depth <= MaximumDepth
    /\ forms(x) = 1
    /\ Len(x.all) <= MaximumChildren /\ Len(x.any) <= MaximumChildren
    /\ \A i \in DOMAIN x.all : validateExpression(x.all[i], depth + 1)
    /\ \A i \in DOMAIN x.any : validateExpression(x.any[i], depth + 1)
    /\ \A child \in x.not : validateExpression(child, depth + 1)
    /\ \A p \in x.predicate : validatePredicate(p)

accepted(x) == validateExpression(x, 1) /\ predicates(x) <= MaximumPredicates

(* What the compiled condition says of the fields of an event. *)
fieldOf(fields, field) == IF field \in DOMAIN fields THEN fields[field] ELSE <<>>
contains(s, t) == \E i \in 0 .. Len(s) - Len(t) : SubSeq(s, i + 1, i + Len(t)) = t
compilePredicate(p, fields) ==
    LET value == fieldOf(fields, p.field) IN
    CASE p.comparator = "exists" -> value # <<>>
      [] p.comparator = "not_exists" -> value = <<>>
      [] p.comparator \in {"eq", "in"} -> value \in p.values
      [] p.comparator = "neq" -> value \notin p.values
      [] p.comparator = "gt" -> \A v \in p.values : value > v
      [] p.comparator = "gte" -> \A v \in p.values : value >= v
      [] p.comparator = "lt" -> \A v \in p.values : value < v
      [] p.comparator = "lte" -> \A v \in p.values : value <= v
      [] p.comparator = "contains" -> \A v \in p.values : contains(value, v)
      [] p.comparator = "starts_with" -> \A v \in p.values : IsPrefix(v, value)
      [] p.comparator = "ends_with" -> \A v \in p.values : IsSuffix(v, value)
RECURSIVE compileNode(_, _)
compileNode(x, fields) ==
    CASE x.any # <<>> -> \E i \in DOMAIN x.any : compileNode(x.any[i], fields)
      [] x.all # <<>> -> \A i \in DOMAIN x.all : compileNode(x.all[i], fields)
      [] x.not # {} -> \A child \in x.not : ~compileNode(child, fields)
      [] OTHER -> \A p \in x.predicate : compilePredicate(p, fields)

-----------------------------------------------------------------------------
(* The events an expression stands for, by the algebra of sets: what the   *)
(* compiled condition is held against (HuntAssumption), however forms are  *)
(* nested.  An expression of two forms, of which one would be dropped, is  *)
(* none that was accepted.                                                 *)
allFields == {e.fields : e \in StoredEvents}
RECURSIVE meant(_)
meant(x) ==
    IF x.predicate # {} THEN {fields \in allFields : \A p \in x.predicate : compilePredicate(p, fields)}
    ELSE IF x.not # {} THEN allFields \ UNION {meant(child) : child \in x.not}
    ELSE IF x.all # <<>> THEN {fields \in allFields : \A i \in DOMAIN x.all : fields \in meant(x.all[i])}
    ELSE UNION {meant(x.any[i]) : i \in DOMAIN x.any}
standsFor(x, fields) == fields \in meant(x)
=============================================================================
