------------------------------ MODULE SigmaRules ------------------------------
(***************************************************************************)
(* The compiler of Sigma rules and the evaluation of a compiled rule       *)
(* (internal/detection/compiler.go): a rule is a set of named selections   *)
(* and a condition over them, which is expanded, parsed by recursive       *)
(* descent and evaluated against an event.  A condition is a sequence of   *)
(* tokens; a syntax tree is represented by what it means, the set of       *)
(* selections' outcomes (which of them match) for which it holds.          *)
(***************************************************************************)
EXTENDS Integers, Sequences, SequencesExt, TLC

CONSTANTS
    Selections,     \* name -> set of alternatives, each a set of predicates [field, modifier, all, values]
    SelectionOrder, \* the names, sorted
    Patterns,       \* pattern of a quantifier -> the names path.Match finds for it; "them" is none
    Conditions,     \* the conditions examined, sequences of tokens
    SigmaEvents     \* events: field -> set of values; a value is a sequence of characters

ASSUME SelectionOrderAssumption ==
    /\ {SelectionOrder[i] : i \in DOMAIN SelectionOrder} = DOMAIN Selections
    /\ \A pattern \in DOMAIN Patterns : Patterns[pattern] \subseteq DOMAIN Selections

VARIABLES condition, event, match    \* match is {} until the rule was compiled and evaluated

sigmaVars == <<condition, event, match>>

Names == DOMAIN Selections
Outcomes == SUBSET Names

SigmaInit == condition \in Conditions /\ event \in SigmaEvents /\ match = {}

-----------------------------------------------------------------------------
(* Selections.                                                             *)

(* A field the event does not have, or has empty, matches no predicate.    *)
eventFieldValues(e, field) == IF field \in DOMAIN e THEN e[field] ELSE {}

(* Letter case is folded on both sides; wildcards are left out.            *)
matchValue(actual, expected, modifier) ==
    CASE modifier = "contains" -> \E i \in 1 .. Len(actual) + 1 : IsPrefix(expected, SubSeq(actual, i, Len(actual)))
      [] modifier = "startswith" -> IsPrefix(expected, actual)
      [] modifier = "endswith" -> IsSuffix(expected, actual)
      [] OTHER -> actual = expected

(* One of the values, or each of them, is matched by some actual value.    *)
predicateMatches(p, e) ==
    LET matched(expected) == \E actual \in eventFieldValues(e, p.field) : matchValue(actual, expected, p.modifier) IN
    /\ eventFieldValues(e, p.field) # {}
    /\ IF p.all THEN \A v \in p.values : matched(v) ELSE \E v \in p.values : matched(v)

selectionMatches(name, e) == \E alternative \in Selections[name] : \A p \in alternative : predicateMatches(p, e)

(* A selection has alternatives, an alternative predicates, a predicate a  *)
(* modifier the compiler knows and values.                                 *)
scalarValues(p) == p.values # {}
compileAlternative(alternative) ==
    alternative # {} /\ \A p \in alternative : p.modifier \in {"equals", "contains", "startswith", "endswith"} /\ scalarValues(p)
compileSelection(name) == Selections[name] # {} /\ \A alternative \in Selections[name] : compileAlternative(alternative)

-----------------------------------------------------------------------------
(* Conditions.                                                             *)

(* A quantifier is one token here: "1 of" or "all of" and what it is of.   *)
Quantifiers == {<<count, of>> : count \in {"1", "all"}, of \in DOMAIN Patterns \cup {"them"}}
word(token) == <<token>>    \* any other token, of the same shape

selected(of) == IF of = "them" THEN SelectionOrder ELSE SelectSeq(SelectionOrder, LAMBDA name : name \in Patterns[of])
joined(quantifier) ==
    LET op == IF quantifier[1] = "all" THEN word("and") ELSE word("or") IN
    FoldLeft(LAMBDA acc, name : IF acc = <<>> THEN <<word(name)>> ELSE acc \o <<op, word(name)>>, <<>>, selected(quantifier[2]))

matchesNone(tokens) == \E i \in DOMAIN tokens : tokens[i] \in Quantifiers /\ selected(tokens[i][2]) = <<>>

expandBare(tokens) ==
    IF matchesNone(tokens) THEN {}
    ELSE {FlattenSeq([i \in DOMAIN tokens |-> IF tokens[i] \in Quantifiers THEN joined(tokens[i]) ELSE <<tokens[i]>>])}

(* A quantifier is replaced by the parenthesised list of the names it      *)
(* selects; one that selects none refuses the rule.                        *)
expandQuantifiers(tokens) ==
    IF matchesNone(tokens) THEN {}
    ELSE {FlattenSeq([i \in DOMAIN tokens |->
             IF tokens[i] \in Quantifiers THEN <<word("(")>> \o joined(tokens[i]) \o <<word(")")>> ELSE <<tokens[i]>>])}

peek(tokens, position, token) == position <= Len(tokens) /\ tokens[position] = word(token)

(* A parser returns {} on an error, and otherwise the set of one pair: the *)
(* position after what it took, and its meaning.                           *)
RECURSIVE parseOr(_, _), parseAnd(_, _), parseUnary(_, _), moreAnd(_, _), moreOr(_, _)

parseOr(tokens, position) == UNION {moreOr(tokens, left) : left \in parseAnd(tokens, position)}
parseAnd(tokens, position) == UNION {moreAnd(tokens, left) : left \in parseUnary(tokens, position)}

moreOr(tokens, left) ==
    IF ~peek(tokens, left[1], "or") THEN {left}
    ELSE UNION {moreOr(tokens, <<right[1], left[2] \cup right[2]>>) : right \in parseAnd(tokens, left[1] + 1)}

moreAnd(tokens, left) ==
    IF ~peek(tokens, left[1], "and") THEN {left}
    ELSE UNION {moreAnd(tokens, <<right[1], left[2] \cap right[2]>>) : right \in parseUnary(tokens, left[1] + 1)}

parseUnary(tokens, position) ==
    IF peek(tokens, position, "not")
    THEN {<<child[1], Outcomes \ child[2]>> : child \in parseUnary(tokens, position + 1)}
    ELSE IF peek(tokens, position, "(")
    THEN {<<inner[1] + 1, inner[2]>> : inner \in {n \in parseOr(tokens, position + 1) : peek(tokens, n[1], ")")}}
    ELSE IF position <= Len(tokens) /\ tokens[position][1] \in Names
    THEN {<<position + 1, {o \in Outcomes : tokens[position][1] \in o}>>}
    ELSE {}

(* The whole condition must be taken.                                      *)
parseCondition(tokens) == {node[2] : node \in {n \in parseOr(tokens, 1) : n[1] = Len(tokens) + 1}}

(* Compile: {} when the rule is refused, otherwise its meaning.            *)
Compile(tokens) ==
    IF tokens = <<>> \/ Names = {} \/ \E name \in Names : ~compileSelection(name) THEN {}
    ELSE UNION {parseCondition(expanded) : expanded \in expandQuantifiers(tokens)}

Evaluate(meaning, e) == {name \in Names : selectionMatches(name, e)} \in meaning

(* Simulate: the rule is compiled and evaluated against one event.         *)
Simulate ==
    /\ match = {}
    /\ match' = IF Compile(condition) = {} THEN {"refused"}
                ELSE {IF Evaluate(meaning, event) THEN "matched" ELSE "unmatched" : meaning \in Compile(condition)}
    /\ UNCHANGED <<condition, event>>

SigmaNext == Simulate
SigmaSpec == SigmaInit /\ [][SigmaNext]_sigmaVars

-----------------------------------------------------------------------------
(* The meaning of a condition, read off its outermost operator: "or" binds *)
(* least, then "and", then "not"; a quantifier stands for itself.          *)
depth(tokens, i) ==
    LET opened == SelectSeq(SubSeq(tokens, 1, i - 1), LAMBDA t : t = word("("))
        closed == SelectSeq(SubSeq(tokens, 1, i - 1), LAMBDA t : t = word(")"))
    IN Len(opened) - Len(closed)
outermost(tokens, op) == {i \in DOMAIN tokens : tokens[i] = word(op) /\ depth(tokens, i) = 0}
quantified(q) == IF q[2] = "them" THEN Names ELSE Patterns[q[2]]

RECURSIVE Holds(_, _), WellFormed(_)
WellFormed(tokens) ==
    LET cuts == outermost(tokens, "or") \cup outermost(tokens, "and") IN
    IF tokens = <<>> THEN FALSE
    ELSE IF cuts # {} THEN \A i \in cuts : WellFormed(SubSeq(tokens, 1, i - 1)) /\ WellFormed(SubSeq(tokens, i + 1, Len(tokens)))
    ELSE IF Head(tokens) = word("not") THEN WellFormed(Tail(tokens))
    ELSE IF Head(tokens) = word("(") THEN Last(tokens) = word(")") /\ Len(tokens) > 2 /\ WellFormed(SubSeq(tokens, 2, Len(tokens) - 1))
    ELSE Len(tokens) = 1 /\ (IF Head(tokens) \in Quantifiers THEN quantified(Head(tokens)) # {} ELSE Head(tokens)[1] \in Names)

Holds(tokens, outcome) ==
    LET part(op, all) ==
            LET cuts == outermost(tokens, op)
                pieces == {SubSeq(tokens, a + 1, b - 1) : <<a, b>> \in
                              {<<a, b>> \in (cuts \cup {0}) \X (cuts \cup {Len(tokens) + 1}) : a < b /\ \A c \in cuts : ~(a < c /\ c < b)}}
            IN IF all THEN \A p \in pieces : Holds(p, outcome) ELSE \E p \in pieces : Holds(p, outcome)
    IN IF outermost(tokens, "or") # {} THEN part("or", FALSE)
       ELSE IF outermost(tokens, "and") # {} THEN part("and", TRUE)
       ELSE IF Head(tokens) = word("not") THEN ~Holds(Tail(tokens), outcome)
       ELSE IF Head(tokens) = word("(") THEN Holds(SubSeq(tokens, 2, Len(tokens) - 1), outcome)
       ELSE IF Head(tokens) \in Quantifiers
       THEN LET names == quantified(Head(tokens)) IN IF Head(tokens)[1] = "all" THEN names \subseteq outcome ELSE names \cap outcome # {}
       ELSE Head(tokens)[1] \in outcome

(* The meaning of a selection: an expected value occurs in an actual one,  *)
(* where the modifier says whether at its start, its end or both.          *)
occurs(actual, expected, modifier) ==
    \E skipped \in 0 .. Len(actual) - Len(expected) :
        /\ SubSeq(actual, skipped + 1, skipped + Len(expected)) = expected
        /\ modifier \in {"startswith", "equals"} => skipped = 0
        /\ modifier \in {"endswith", "equals"} => skipped + Len(expected) = Len(actual)
meets(p, e) ==
    LET found == {v \in p.values : p.field \in DOMAIN e /\ \E actual \in e[p.field] : occurs(actual, v, p.modifier)}
    IN IF p.all THEN found = p.values ELSE found # {}
selectedBy(e) == {n \in Names : \E alternative \in Selections[n] : {p \in alternative : ~meets(p, e)} = {}}

(* A condition is refused exactly when it is not well formed or quantifies *)
(* over no selection, and a compiled rule matches an event exactly when    *)
(* the condition, read by the usual precedence with each quantifier a term *)
(* of its own, holds of the selections the event meets.                    *)
ConditionIsRead ==
    match # {} => match =
        IF ~WellFormed(condition) THEN {"refused"}
        ELSE IF Holds(condition, selectedBy(event)) THEN {"matched"} ELSE {"unmatched"}
=============================================================================
