--------------------------- MODULE PlaybookValidator ---------------------------
(***************************************************************************)
(* The validation of a playbook specification (internal/soar/validate.go): *)
(* the rules on nodes and dependencies, the search for a cycle, and the    *)
(* rule that a dangerous action follows enough approvals.  A node is       *)
(*   [id, deps, type, level, reversible, mode, verify, compensation,       *)
(*    approvals, fault]                                                    *)
(* where fault says that one of the checks on its own fields fails (type,  *)
(* name, timeout, retry policy, forbidden configuration, unknown action,   *)
(* mode, risk level, delay, loop bound).                                   *)
(***************************************************************************)
EXTENDS Naturals, Sequences, FiniteSets, SequencesExt, FiniteSetsExt

CONSTANTS
    PlaybookSpecs,    \* the specifications examined: sequences of nodes
    NodeIdOrder       \* node identifiers, sorted

VARIABLES playbookSpec, report      \* report is {} until the specification was validated

validatorVars == <<playbookSpec, report>>

ValidatorInit == playbookSpec \in PlaybookSpecs /\ report = {}

-----------------------------------------------------------------------------
(* nodes, by id: the first of several with one id counts.                  *)
nodesOf(spec) ==
    [id \in {spec[i].id : i \in DOMAIN spec} |-> spec[Min({i \in DOMAIN spec : spec[i].id = id})]]

validateNode(n) ==
    /\ ~n.fault
    /\ n.type = "approval" => n.approvals \in 1 .. 2

validDependencies(n, nodes) == n.id \notin Range(n.deps) /\ Range(n.deps) \subseteq DOMAIN nodes /\ IsInjective(n.deps)

rootsOnlyCycle(nodes) == \A id \in DOMAIN nodes : nodes[id].deps # <<>>

(* detectCycle: depth-first search with the marks "visiting" and "visited". *)
(* The search is carried through the nodes as [marks, cycle].              *)
RECURSIVE visit(_, _, _)
visit(id, nodes, search) ==
    IF search.cycle \/ search.mark[id] = "visited" THEN search
    ELSE IF search.mark[id] = "visiting" THEN [search EXCEPT !.cycle = TRUE]
    ELSE LET entered == [search EXCEPT !.mark[id] = "visiting"]
             known == SelectSeq(nodes[id].deps, LAMBDA d : d \in DOMAIN nodes)
             walked == FoldLeft(LAMBDA acc, d : visit(d, nodes, acc), entered, known)
         IN IF walked.cycle THEN walked ELSE [walked EXCEPT !.mark[id] = "visited"]

detectCycle(nodes) ==
    FoldLeft(LAMBDA acc, id : visit(id, nodes, acc),
             [mark |-> [id \in DOMAIN nodes |-> "new"], cycle |-> FALSE],
             SelectSeq(NodeIdOrder, LAMBDA id : id \in DOMAIN nodes)).cycle

(* maximumApprovalAncestors: a walk that visits each dependency once and   *)
(* keeps the largest number of approvals an approval node asks for.        *)
RECURSIVE walk(_, _, _)
walk(id, nodes, acc) ==
    FoldLeft(LAMBDA a, d :
                 IF d \in a.visited THEN a
                 ELSE IF d \notin DOMAIN nodes THEN [a EXCEPT !.visited = @ \cup {d}]
                 ELSE walk(d, nodes, [visited |-> a.visited \cup {d},
                                      maximum |-> IF nodes[d].type = "approval" /\ nodes[d].approvals > a.maximum
                                                  THEN nodes[d].approvals ELSE a.maximum]),
             acc, nodes[id].deps)

maximumApprovalAncestors(id, nodes) == walk(id, nodes, [visited |-> {}, maximum |-> 0]).maximum

requiredApprovals(level) == IF level = 4 THEN 1 ELSE IF level \in {5, 6} THEN 2 ELSE 0

actionIssue(n, nodes) ==
    /\ n.type = "action"
    /\ \/ n.level = 6 /\ n.mode = "LIVE"
       \/ requiredApprovals(n.level) > 0 /\ maximumApprovalAncestors(n.id, nodes) < requiredApprovals(n.level)
       \/ n.level >= 3 /\ n.mode = "LIVE" /\ ~n.verify
       \/ n.level = 3 /\ n.mode = "LIVE" /\ ~(n.reversible /\ n.compensation)

MaxPlaybookNodes == 100

ValidateSpec(spec) ==
    LET nodes == nodesOf(spec) IN
    /\ Len(spec) \in 1 .. MaxPlaybookNodes
    /\ \A i, j \in DOMAIN spec : spec[i].id = spec[j].id => i = j
    /\ \A i \in DOMAIN spec : validateNode(spec[i]) /\ validDependencies(spec[i], nodes)
    /\ \E i \in DOMAIN spec : spec[i].deps = <<>>
    /\ ~detectCycle(nodes)
    /\ ~\E i \in DOMAIN spec : actionIssue(spec[i], nodes)

ValidatePlaybook ==
    /\ report = {}
    /\ report' = {ValidateSpec(playbookSpec)}
    /\ UNCHANGED playbookSpec

ValidatorNext == ValidatePlaybook
ValidatorSpec == ValidatorInit /\ [][ValidatorNext]_validatorVars

-----------------------------------------------------------------------------
(* What a valid playbook guarantees, said of execution orders: there is an *)
(* order of the nodes in which each follows what it depends on, and in     *)
(* every such order, cut off before a dangerous action, an approval node   *)
(* that asks for enough approvals has come before it.                      *)
ids(spec) == {spec[i].id : i \in DOMAIN spec}
depsOf(spec, id) == UNION {Range(spec[i].deps) : i \in {i \in DOMAIN spec : spec[i].id = id}}
executionOrders(spec) ==
    {s \in SetToSeqs(ids(spec)) : \A i \in DOMAIN s : depsOf(spec, s[i]) \subseteq {s[k] : k \in 1 .. i - 1}}
approvedBefore(spec, s, i, needed) ==
    \E k \in 1 .. i - 1, n \in Range(spec) : n.id = s[k] /\ n.type = "approval" /\ n.approvals >= needed

(* A specification that validates can be executed, and no execution order  *)
(* reaches an action of level 4 without one approval or of level 5 or 6    *)
(* without two; a specification of sound nodes that keeps to the rules on  *)
(* live actions is refused only when one of the two fails.                 *)
ValidationIsSound ==
    \A valid \in report :
        LET orders == executionOrders(playbookSpec)
            sound == \A n \in Range(playbookSpec) : validateNode(n) /\ IsInjective(n.deps)
            distinct == Cardinality(ids(playbookSpec)) = Len(playbookSpec)
            guarded == \A s \in orders : \A i \in DOMAIN s, n \in Range(playbookSpec) :
                (n.id = s[i] /\ n.type = "action" /\ n.level >= 4) => approvedBefore(playbookSpec, s, i, requiredApprovals(n.level))
            liveRules == \A n \in Range(playbookSpec) : (n.type = "action" /\ n.mode = "LIVE") =>
                n.level < 6 /\ (n.level >= 3 => n.verify) /\ (n.level = 3 => n.reversible /\ n.compensation)
        IN valid <=> (orders # {} /\ playbookSpec # <<>> /\ sound /\ distinct /\ liveRules /\ guarded)
=============================================================================
