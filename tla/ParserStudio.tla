----------------------------- MODULE ParserStudio -----------------------------
(***************************************************************************)
(* Parser definitions written in the studio: drafts, validation against    *)
(* samples, publication for a format, disabling, and the choice of the     *)
(* parser for an envelope.  internal/parser/studio.go, dynamic.go,         *)
(* registry.go, internal/store/parser_content.go.  A publication is a      *)
(* transaction of several statements, as in PlaybookVersions; a unique     *)
(* index allows one PUBLISHED row per format.                              *)
(***************************************************************************)
EXTENDS FiniteSets

CONSTANTS
    ParserRows,        \* parser versions, of one tenant
    FormatOf(_),       \* the format a version is for
    ParserOf(_),       \* the parser it is a version of
    ParserEditors

VARIABLES
    parserRow,       \* row -> [state, valid, passes]
    parserEdit       \* editor -> the request in progress

parserVars == <<parserRow, parserEdit>>

NoEdit == [at |-> "idle", row |-> {}, seen |-> {}, take |-> {}]

StudioInit ==
    /\ parserRow = [p \in ParserRows |-> [state |-> "ABSENT", valid |-> FALSE, passes |-> FALSE]]
    /\ parserEdit = [e \in ParserEditors |-> NoEdit]

holdsParserRow(f, p) ==
    \/ parserEdit[f].at \in {"locked", "superseding", "superseded"} /\ p \in parserEdit[f].row
    \/ p \in parserEdit[f].take
parserRowFree(e, p) == ~\E f \in ParserEditors \ {e} : holdsParserRow(f, p)
published(S) == {p \in S : parserRow[p].state = "PUBLISHED"}
sameFormat(p) == {q \in ParserRows : FormatOf(q) = FormatOf(p)}
goesTo(e, edit) == parserEdit' = [parserEdit EXCEPT ![e] = edit]
theRow(e) == CHOOSE p \in parserEdit[e].row : TRUE

-----------------------------------------------------------------------------

(* Only a definition without errors becomes a draft; whether its samples   *)
(* pass is found out by validation.                                        *)
CreateParserDraft(p, passes) ==
    /\ parserRow[p].state = "ABSENT"
    /\ parserRow' = [parserRow EXCEPT ![p] = [state |-> "DRAFT", valid |-> FALSE, passes |-> passes]]
    /\ UNCHANGED parserEdit

(* Validate reads the version, runs its samples,                           *)
ValidateParser(e, p) ==
    /\ parserEdit[e].at = "idle" /\ parserRow[p].state # "ABSENT"
    /\ goesTo(e, [at |-> "validated", row |-> {p}, seen |-> {}, take |-> {}])
    /\ UNCHANGED parserRow

(* and stores the report and the state with no condition on the state the  *)
(* version is in by then: a published version goes back to VALIDATED.      *)
SaveParserValidation(e) ==
    LET p == theRow(e) IN
    /\ parserEdit[e].at = "validated" /\ parserRowFree(e, p)
    /\ parserRow' = [parserRow EXCEPT ![p] = [state |-> IF @.passes THEN "VALIDATED" ELSE "DRAFT", valid |-> @.passes, passes |-> @.passes]]
    /\ goesTo(e, NoEdit)

PublishParser(e, p) ==
    /\ parserEdit[e].at = "idle" /\ parserRow[p].valid
    /\ goesTo(e, [at |-> "begin", row |-> {p}, seen |-> {}, take |-> {}])
    /\ UNCHANGED parserRow

lockParserRow(e) ==
    LET p == theRow(e) IN
    /\ parserEdit[e].at = "begin" /\ parserRowFree(e, p)
    /\ goesTo(e, IF parserRow[p].valid THEN [parserEdit[e] EXCEPT !.at = "locked"] ELSE NoEdit)
    /\ UNCHANGED parserRow

supersedeBegins(e) ==
    /\ parserEdit[e].at = "locked"
    /\ goesTo(e, [at |-> "superseding", row |-> parserEdit[e].row, seen |-> published(sameFormat(theRow(e))), take |-> {}])
    /\ UNCHANGED parserRow

supersedeEnds(e) ==
    /\ parserEdit[e].at = "superseding"
    /\ \A q \in parserEdit[e].seen : parserRowFree(e, q)
    /\ goesTo(e, [at |-> "superseded", row |-> parserEdit[e].row, seen |-> {}, take |-> published(parserEdit[e].seen)])
    /\ UNCHANGED parserRow

noFormatIndex(e) == FALSE
formatTaken(e) == published(sameFormat(theRow(e))) \ parserEdit[e].take # {}

PublishParserContent(e) ==
    LET p == theRow(e) IN
    /\ parserEdit[e].at = "superseded" /\ ~formatTaken(e)
    /\ parserRow' = [q \in ParserRows |->
          IF q = p THEN [parserRow[q] EXCEPT !.state = "PUBLISHED"]
          ELSE IF q \in parserEdit[e].take THEN [parserRow[q] EXCEPT !.state = "SUPERSEDED"] ELSE parserRow[q]]
    /\ goesTo(e, NoEdit)

parserRollsBack(e) ==
    /\ parserEdit[e].at # "idle"
    /\ goesTo(e, NoEdit)
    /\ UNCHANGED parserRow

DisableParserContent(p) ==
    /\ parserRow[p].state = "PUBLISHED" /\ \A e \in ParserEditors : ~holdsParserRow(e, p)
    /\ parserRow' = [q \in ParserRows |-> IF ParserOf(q) = ParserOf(p) /\ q \in published(ParserRows)
                                          THEN [parserRow[q] EXCEPT !.state = "DISABLED"] ELSE parserRow[q]]
    /\ UNCHANGED parserEdit

StudioNext ==
    \/ \E p \in ParserRows : (\E passes \in BOOLEAN : CreateParserDraft(p, passes)) \/ DisableParserContent(p)
    \/ \E e \in ParserEditors :
          \/ \E p \in ParserRows : ValidateParser(e, p) \/ PublishParser(e, p)
          \/ SaveParserValidation(e) \/ lockParserRow(e) \/ supersedeBegins(e) \/ supersedeEnds(e)
          \/ PublishParserContent(e) \/ parserRollsBack(e)

StudioSpec == StudioInit /\ [][StudioNext]_parserVars

-----------------------------------------------------------------------------
(* PublishedParserByFormat has at most one parser to choose from for every *)
(* format, and it passed its samples, however publications, validations    *)
(* and disabling overlap.                                                  *)
OneParserPerFormat ==
    \A p, q \in published(ParserRows) :
        parserRow[p].passes /\ (FormatOf(p) = FormatOf(q) => p = q)
=============================================================================
