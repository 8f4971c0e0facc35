--------------------------- MODULE DetectionContent ---------------------------
(***************************************************************************)
(* The versions of detection rules: drafts, validation against samples,    *)
(* publication, disabling and rollback.  internal/detection/service.go,    *)
(* internal/store/detection_content.go, internal/httpapi/server.go.  A     *)
(* correlation rule validates only while the rules it names are published. *)
(* Publication and rollback hold an advisory lock on the rule and the rows *)
(* they change, so each is one step; disabling takes one statement that    *)
(* waits for those rows and looks at them again, so it is one step too.    *)
(* Validation reads, evaluates and saves later.                            *)
(***************************************************************************)
EXTENDS Naturals, Sequences

CONSTANTS
    BaseRule, CorrelationRule,   \* a rule, and a correlation over it
    RuleValidators,              \* editors who validate
    MaxRuleVersions              \* bound: versions of a rule

ASSUME DetectionContentAssumption ==
    /\ BaseRule # CorrelationRule
    /\ MaxRuleVersions \in Nat \ {0}

VARIABLES
    ruleVersion,    \* rule -> version -> [state, passes]: passes says whether its own tests pass
    publishedOrder, \* rule -> versions by published_at, the latest last
    validation      \* editor -> the validation in progress

detectionVars == <<ruleVersion, publishedOrder, validation>>

DetectionRules == {BaseRule, CorrelationRule}
RuleVersionIds == 1 .. MaxRuleVersions
NoValidation == [at |-> "idle", rule |-> BaseRule, v |-> 0, valid |-> FALSE]

DetectionInit ==
    /\ ruleVersion = [r \in DetectionRules |-> [v \in RuleVersionIds |-> [state |-> "ABSENT", passes |-> FALSE]]]
    /\ publishedOrder = [r \in DetectionRules |-> <<>>]
    /\ validation = [e \in RuleValidators |-> NoValidation]

versionsIn(r, S) == {v \in RuleVersionIds : ruleVersion[r][v].state \in S}
setStates(r, s) == [ruleVersion EXCEPT ![r] = [v \in RuleVersionIds |-> [state |-> s[v], passes |-> ruleVersion[r][v].passes]]]
latestPublished(r, v) == [publishedOrder EXCEPT ![r] = Append(SelectSeq(@, LAMBDA x : x # v), v)]

-----------------------------------------------------------------------------

(* A version is created once; the primary key refuses a second one.        *)
CreateDraft(r, v, passes) ==
    /\ ruleVersion[r][v].state = "ABSENT"
    /\ ruleVersion' = [ruleVersion EXCEPT ![r][v] = [state |-> "DRAFT", passes |-> passes]]
    /\ UNCHANGED <<publishedOrder, validation>>

(* sampleEvaluator: a correlation needs every rule it names PUBLISHED when *)
(* it is read.                                                             *)
dependenciesPublished(r) == r = CorrelationRule => versionsIn(BaseRule, {"PUBLISHED"}) # {}

(* Validate reads the content in any state and evaluates the samples       *)
(* against the rules published now;                                        *)
Validate(e, r, v) ==
    /\ validation[e].at = "idle" /\ ruleVersion[r][v].state # "ABSENT"
    /\ validation' = [validation EXCEPT ![e] = [at |-> "evaluated", rule |-> r, v |-> v,
          valid |-> ruleVersion[r][v].passes /\ dependenciesPublished(r)]]
    /\ UNCHANGED <<ruleVersion, publishedOrder>>

mayRevalidate(r, v) == ruleVersion[r][v].state # "ABSENT"
mayValidate(r, v) == ruleVersion[r][v].state \in {"DRAFT", "VALIDATED"}

(* the result is saved over a version that is still DRAFT or VALIDATED,    *)
(* and is a conflict otherwise.                                            *)
SaveDetectionValidation(e) ==
    LET w == validation[e] IN
    /\ w.at = "evaluated"
    /\ ruleVersion' = IF mayValidate(w.rule, w.v)
                      THEN [ruleVersion EXCEPT ![w.rule][w.v].state = IF w.valid THEN "VALIDATED" ELSE "DRAFT"]
                      ELSE ruleVersion
    /\ validation' = [validation EXCEPT ![e] = NoValidation]
    /\ UNCHANGED publishedOrder

putInForce(r, v) == [x \in RuleVersionIds |->
    IF x = v THEN "PUBLISHED" ELSE IF ruleVersion[r][x].state = "PUBLISHED" THEN "SUPERSEDED" ELSE ruleVersion[r][x].state]

PublishDetectionContent(r, v) ==
    /\ ruleVersion[r][v].state = "VALIDATED"
    /\ ruleVersion' = setStates(r, putInForce(r, v))
    /\ publishedOrder' = latestPublished(r, v)
    /\ UNCHANGED validation

DisableDetectionContent(r) ==
    /\ versionsIn(r, {"PUBLISHED"}) # {}
    /\ ruleVersion' = setStates(r, [x \in RuleVersionIds |->
          IF ruleVersion[r][x].state = "PUBLISHED" THEN "DISABLED" ELSE ruleVersion[r][x].state])
    /\ UNCHANGED <<publishedOrder, validation>>

(* Rollback brings back the SUPERSEDED version published last and          *)
(* supersedes the current one; it needs both.                              *)
rollbackTarget(r, v) == \E i \in DOMAIN publishedOrder[r] :
    /\ publishedOrder[r][i] = v
    /\ \A j \in DOMAIN publishedOrder[r] : j > i => publishedOrder[r][j] \notin versionsIn(r, {"SUPERSEDED"})

RollbackDetectionContent(r) ==
    /\ versionsIn(r, {"PUBLISHED"}) # {}
    /\ \E v \in versionsIn(r, {"SUPERSEDED"}) :
          /\ rollbackTarget(r, v)
          /\ ruleVersion' = setStates(r, putInForce(r, v))
          /\ publishedOrder' = latestPublished(r, v)
    /\ UNCHANGED validation

DetectionNext ==
    \/ \E r \in DetectionRules, v \in RuleVersionIds :
          \/ \E passes \in BOOLEAN : CreateDraft(r, v, passes)
          \/ \E e \in RuleValidators : Validate(e, r, v)
          \/ PublishDetectionContent(r, v)
    \/ \E r \in DetectionRules : DisableDetectionContent(r) \/ RollbackDetectionContent(r)
    \/ \E e \in RuleValidators : SaveDetectionValidation(e)

DetectionSpec == DetectionInit /\ [][DetectionNext]_detectionVars

-----------------------------------------------------------------------------
BaseContent == INSTANCE VersionedContent WITH
    Versions <- RuleVersionIds, Requests <- {}, Restorable <- TRUE,
    live <- versionsIn(BaseRule, {"PUBLISHED"}), kept <- versionsIn(BaseRule, {"SUPERSEDED"}),
    spent <- versionsIn(BaseRule, {"DISABLED"}), served <- [q \in {} |-> {}]

CorrelationContent == INSTANCE VersionedContent WITH
    Versions <- RuleVersionIds, Requests <- {}, Restorable <- TRUE,
    live <- versionsIn(CorrelationRule, {"PUBLISHED"}), kept <- versionsIn(CorrelationRule, {"SUPERSEDED"}),
    spent <- versionsIn(CorrelationRule, {"DISABLED"}), served <- [q \in {} |-> {}]

(* A detection rule behaves as versioned content whatever validations are  *)
(* under way: one version is in force, publication happens once, only a    *)
(* superseded version comes back and only in exchange for the current one, *)
(* and a version that was disabled never does.                             *)
DetectionContract == BaseContent!ContentSpec /\ CorrelationContent!ContentSpec
=============================================================================
