------------------------------ MODULE MCRecords ------------------------------
(* What the platform keeps and answers for, one part at a time: alerts and   *)
(* incidents, cases, evidence, backups, behaviour baselines and the hunts    *)
(* through the events. The parts share no state: their state spaces add and  *)
(* do not multiply.                                                          *)
EXTENDS MCSocDesk, CaseDesk, EvidenceLocker, BackupRestore, Ueba, HuntQuery

VARIABLE part

-----------------------------------------------------------------------------
(* Cases: one goes through every kind of change and two ways of closing.    *)
patch(owner, status, summary) == [kind |-> "update", owner |-> owner, status |-> status, summary |-> summary]
mcChanges == {patch("", "INVESTIGATION", FALSE), patch("", "CLOSED", TRUE), patch("a2", "CLOSED", FALSE),
              [kind |-> "comment"], [kind |-> "task"],
              [kind |-> "task_update", task |-> 1, status |-> "DONE"],
              [kind |-> "participant", user |-> "a1", role |-> "MEMBER"],
              [kind |-> "observable", value |-> "o1"], [kind |-> "link", incident |-> "i1"]}

(* Behaviour: a user seen on three devices, on three days, the last after a *)
(* silence long enough to forget, and a device of the same peer group.      *)
ev(entity, device, process, day, deviates) ==
    [kind |-> IF entity = "d" THEN "device" ELSE "user", entity |-> entity, peer |-> "g",
     device |-> device, process |-> process, day |-> day, deviates |-> deviates]
mcObservations == [e \in 1 .. 4 |->
    CASE e = 1 -> ev("u", 1, 1, 1, {})
      [] e = 2 -> ev("u", 2, 1, 2, {"volume_anomaly", "time_of_day_deviation"})
      [] e = 3 -> ev("u", 3, 2, 22, {})
      [] OTHER -> ev("d", 3, 1, 2, {})]
mcRemaining == [d \in 2 .. 30 |-> IF d > 15 THEN 49 ELSE 70]

(* Hunts: three events, two at the same time and one of them stored twice;  *)
(* every comparator and every form of expression, some of them refused.     *)
stored(id, time, version, user, severity) ==
    [id |-> id, time |-> time, version |-> version, fields |-> [user |-> user, severity |-> severity]]
mcStored == {stored(1, 1, 1, <<>>, 5), stored(2, 2, 1, <<"a", "b">>, 3), stored(2, 2, 2, <<"a", "b">>, 3),
             stored(3, 2, 1, <<"b">>, 2)}
noForm == [all |-> <<>>, any |-> <<>>, not |-> {}, predicate |-> {}]
is(field, comparator, values) ==
    [noForm EXCEPT !.predicate = {[field |-> field, comparator |-> comparator, values |-> values]}]
mcExpressions ==
    {is("user", c, {<<"b">>}) : c \in {"eq", "neq", "contains", "starts_with", "ends_with", "exists", "not_exists"}}
    \cup {is("severity", c, {3}) : c \in {"gt", "gte", "lt", "lte", "in", "contains"}}
    \cup {[noForm EXCEPT !.not = {is("user", "in", {<<"a">>, <<"b">>})}],
          [noForm EXCEPT !.all = <<is("user", "exists", {}), [noForm EXCEPT !.not = {is("severity", "gt", {2})}]>>],
          [noForm EXCEPT !.any = <<is("user", "eq", {<<"a">>}), is("severity", "gt", {2})>>],
          [noForm EXCEPT !.any = <<is("user", "eq", {<<"a">>})>>, !.not = {is("user", "exists", {})}],
          noForm, is("user", "eq", {<<>>})}
huntFor(start, end, lookback, limit, x) ==
    [start |-> start, end |-> end, lookback |-> lookback, limit |-> limit, expression |-> x]
mcHunts == {huntFor(1, 4, 0, 1, {x}) : x \in mcExpressions}
           \cup {huntFor(0, 0, 2, 2, {}), huntFor(2, 3, 0, 1, {}), huntFor(3, 3, 0, 2, {}), huntFor(1, 9, 0, 2, {})}

-----------------------------------------------------------------------------
recordVars == <<part, deskVars, caseVars, evidenceVars, drVars, uebaVars, huntVars>>

MCInit ==
    /\ part \in {"desk", "cases", "evidence", "recovery", "behaviour", "hunts"}
    /\ DeskInit /\ CaseInit /\ EvidenceInit /\ UebaInit /\ HuntInit
    /\ DrInit /\ (part # "recovery" => \A t \in Targets : target[t] = "none")

MCNext ==
    \/ part = "desk" /\ DeskNext /\ UNCHANGED <<part, caseVars, evidenceVars, drVars, uebaVars, huntVars>>
    \/ part = "cases" /\ CaseNext /\ UNCHANGED <<part, deskVars, evidenceVars, drVars, uebaVars, huntVars>>
    \/ part = "evidence" /\ EvidenceNext /\ UNCHANGED <<part, deskVars, caseVars, drVars, uebaVars, huntVars>>
    \/ part = "recovery" /\ DrNext /\ UNCHANGED <<part, deskVars, caseVars, evidenceVars, uebaVars, huntVars>>
    \/ part = "behaviour" /\ UebaNext /\ UNCHANGED <<part, deskVars, caseVars, evidenceVars, drVars, huntVars>>
    \/ part = "hunts" /\ HuntNext /\ UNCHANGED <<part, deskVars, caseVars, evidenceVars, drVars, uebaVars>>

MCSpec == MCInit /\ [][MCNext]_recordVars
=============================================================================
