--------------------------- MODULE VersionedContent ---------------------------
(***************************************************************************)
(* What the platform promises about content that is released in versions   *)
(* (SOAR playbooks, detection rules): at most one version is in force, a   *)
(* version is released once, a version that was taken out of force by hand *)
(* or by a successor that keeps nothing never returns, and a request is    *)
(* served once, by the version in force at that moment.  PlaybookVersions  *)
(* and DetectionContent implement it.                                      *)
(***************************************************************************)
EXTENDS FiniteSets

CONSTANTS
    Versions,      \* the versions one item of content may have
    Requests,      \* the identities under which the item is put to use
    Restorable     \* whether a superseded version can be brought back

VARIABLES
    live,          \* the version in force, as a set of at most one
    kept,          \* superseded versions that may be restored
    spent,         \* versions that are out of force for good
    served         \* for each request, the version that served it, as a set

contentVars == <<live, kept, spent, served>>

Nothing == live = {} /\ kept = {} /\ spent = {} /\ served = [r \in Requests |-> {}]

Release(v) ==
    /\ v \notin live \cup kept \cup spent
    /\ live' = {v}
    /\ kept' = IF Restorable THEN kept \cup live ELSE kept
    /\ spent' = IF Restorable THEN spent ELSE spent \cup live
    /\ UNCHANGED served

Withdraw ==
    /\ live' = {}
    /\ spent' = spent \cup live
    /\ UNCHANGED <<kept, served>>

Restore(v) ==
    /\ Restorable /\ live # {} /\ v \in kept
    /\ live' = {v}
    /\ kept' = (kept \ {v}) \cup live
    /\ UNCHANGED <<spent, served>>

Serve(r) ==
    /\ live # {} /\ served[r] = {}
    /\ served' = [served EXCEPT ![r] = live]
    /\ UNCHANGED <<live, kept, spent>>

ContentStep ==
    \/ \E v \in Versions : Release(v) \/ Restore(v)
    \/ Withdraw
    \/ \E r \in Requests : Serve(r)

ContentSpec == Nothing /\ [][ContentStep]_contentVars
=============================================================================
