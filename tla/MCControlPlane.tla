--------------------------- MODULE MCControlPlane ---------------------------
(* Who may do what, and what counts as a match or as a playbook, one part at *)
(* a time: the quota of the licence, the credentials of agents and the       *)
(* requests of the API; the publication of parsers, the conditions of rules, *)
(* their correlation and the validator of playbooks. The parts share no      *)
(* state, and no property speaks of two of them: their state spaces add and  *)
(* do not multiply.                                                          *)
EXTENDS LicenseQuota, AgentIdentity, ApiRequests, ParserStudio, CorrelationWindow, SigmaRules, PlaybookValidator

VARIABLE part

-----------------------------------------------------------------------------
(* Licences: one of a single event, after whose expiry nothing is taken.    *)
Limits == [l \in Licenses |-> IF l = "small" THEN 1 ELSE 2]
Policy == [l \in Licenses |-> IF l = "small" THEN "BLOCK" ELSE "ALLOW"]

(* The API: a user of every sort of token, and routes of every sort.        *)
claims(roles, tenants, mfa) == [roles |-> roles, tenants |-> tenants, mfa |-> mfa]
mcUsers == [admin  |-> claims({"tenant_admin"}, {"t1"}, TRUE),
            root   |-> claims({"platform_administrator"}, {}, TRUE),
            reader |-> claims({"auditor", "nobody"}, {"t2"}, TRUE),
            weak   |-> claims({"soc_manager"}, {"t1"}, FALSE),
            stray  |-> claims({"soc_l3"}, {}, TRUE)]

(* Parsers: two versions of one parser and one of another, for one format. *)
mcFormatOf(p) == "syslog"
mcParserOf(p) == IF p = "other1" THEN "other" ELSE "own"

(* Correlation: matches of two rules around a window of two, with ties, an *)
(* event that matches both, an empty value and one far ahead.              *)
match1(id, time, rules, value) == [id |-> id, time |-> time, rules |-> rules, value |-> value]
mcEvents == {match1(1, 0, {1}, "x"), match1(2, 1, {2}, "y"), match1(3, 1, {1, 2}, "x"),
             match1(4, 3, {1}, "z"), match1(5, 4, {2}, ""), match1(6, 9, {2}, "x")}
mcRules == <<1, 2>>

(* Sigma: three selections, all conditions of up to three tokens and some  *)
(* longer ones; a quantifier is over all names, two of them or none.       *)
predicate(field, modifier, all, values) == [field |-> field, modifier |-> modifier, all |-> all, values |-> values]
mcSelections == [a1 |-> {{predicate("user", "startswith", FALSE, {<<"x">>, <<"y">>}), predicate("host", "equals", FALSE, {<<"h">>})},
                         {predicate("user", "endswith", TRUE, {<<"y">>})}},
                 a2 |-> {{predicate("host", "contains", TRUE, {<<"h">>, <<"i">>})}},
                 b |-> {{predicate("user", "contains", FALSE, {<<"x">>})}}]
mcSelectionOrder == <<"a1", "a2", "b">>
mcPatterns == ("a*" :> {"a1", "a2"}) @@ ("c*" :> {})
mcWords == {<<w>> : w \in {"a1", "a2", "b", "not", "and", "or", "(", ")", "c"}}
mcConditions == (UNION {[1 .. n -> mcWords \cup Quantifiers] : n \in 0 .. 3})
    \cup {<<word("not")>> \o s : s \in [1 .. 4 -> {word("a1"), word("b"), word("or"), word("and"), <<"1", "a*">>}]}
    \cup {<<word("(")>> \o s \o <<word(")"), word("and"), word("b")>> :
             s \in [1 .. 3 -> {word("a1"), word("or"), word("and"), word("not"), <<"all", "a*">>}]}
mcSigmaEvents == {[user |-> {<<"x", "z">>}, host |-> {<<"h">>}], [user |-> {<<"x", "y">>}],
                  [host |-> {<<"h">>, <<"j", "i">>}], [host |-> {<<"h">>}]}

(* Playbooks of three nodes with every shape of dependencies.              *)
node(id, deps, type, level, mode, approvals) ==
    [id |-> id, deps |-> deps, type |-> type, level |-> level, reversible |-> TRUE, mode |-> mode,
     verify |-> TRUE, compensation |-> FALSE, approvals |-> approvals, fault |-> FALSE]
mcNodeIds == <<"a", "b", "c">>
mcDeps == {<<>>, <<"a">>, <<"b">>, <<"c">>, <<"a", "b">>, <<"b", "c">>, <<"c", "a">>}
mcKinds == {<<"action", 4, "DRY_RUN", 0>>, <<"action", 5, "LIVE", 0>>, <<"approval", 0, "", 1>>, <<"approval", 0, "", 2>>}
mcPlaybooks == {[i \in 1 .. 3 |-> node(mcNodeIds[i], d[i], k[i][1], k[i][2], k[i][3], k[i][4])] :
                   d \in [1 .. 3 -> mcDeps], k \in [1 .. 3 -> mcKinds]}
    \cup {<<node("a", <<>>, "other", 0, "", 0), node("b", d, "action", 0, "LIVE", 0), node(id, <<>>, "approval", 0, "", n)>> :
             d \in {<<"x">>, <<"a", "a">>, <<"a">>}, id \in {"a", "c"}, n \in 1 .. 3}
    \cup {<<[node("a", <<>>, "action", level, mode, 0) EXCEPT !.verify = seen, !.compensation = undo, !.fault = fault]>> :
             level \in {2, 3}, mode \in {"LIVE", "DRY_RUN"}, seen \in BOOLEAN, undo \in BOOLEAN, fault \in BOOLEAN}

-----------------------------------------------------------------------------
admissionVars == <<licenseVars, identityVars, apiVars>>
contentVars == <<parserVars, correlationVars, sigmaVars, validatorVars>>

MCInit ==
    /\ part \in {"licence", "identity", "api", "parsers", "correlation", "sigma", "validator"}
    /\ LicenseInit /\ IdentityInit /\ ApiInit /\ StudioInit
    /\ CorrelationInit /\ (part # "correlation" => correlation = [type |-> "event_count", threshold |-> 2] /\ ~inMemory)
    /\ IF part = "sigma" THEN SigmaInit
       ELSE condition = <<>> /\ event = [user |-> {<<"y">>}] /\ match = {}
    /\ IF part = "validator" THEN ValidatorInit ELSE playbookSpec = <<>> /\ report = {}

MCNext ==
    \/ part = "licence" /\ LicenseNext /\ UNCHANGED <<part, contentVars, identityVars, apiVars>>
    \/ part = "identity" /\ IdentityNext /\ UNCHANGED <<part, contentVars, licenseVars, apiVars>>
    \/ part = "api" /\ ApiNext /\ UNCHANGED <<part, contentVars, licenseVars, identityVars>>
    \/ /\ part = "parsers" /\ StudioNext
       /\ UNCHANGED <<part, admissionVars, correlationVars, sigmaVars, validatorVars>>
    \/ /\ part = "correlation" /\ CorrelationNext
       /\ UNCHANGED <<part, admissionVars, parserVars, sigmaVars, validatorVars>>
    \/ /\ part = "sigma" /\ SigmaNext
       /\ UNCHANGED <<part, admissionVars, parserVars, correlationVars, validatorVars>>
    \/ /\ part = "validator" /\ ValidatorNext
       /\ UNCHANGED <<part, admissionVars, parserVars, correlationVars, sigmaVars>>

MCSpec == MCInit /\ [][MCNext]_<<part, admissionVars, contentVars>>
=============================================================================
