--------------------------- MODULE AgentIdentity ---------------------------
(* How an agent gets and keeps its credential: enrolment with a limited     *)
(* token, the credential file it survives a restart by, and rotation. Each  *)
(* request crosses a network that may delay it past the agent's timeout or  *)
(* lose its answer; the agent may crash at every step, those of the         *)
(* replacement of the file included.                                        *)
EXTENDS Naturals, FiniteSets

CONSTANTS
    Agents,         \* installations, each with its own persisted identity
    Windows,        \* the ones that replace a file in several renames
    MaxUses,        \* max_uses of the enrolment token
    MaxCredentials, \* bound: credentials issued to one agent
    MaxFaults       \* bound: crashes and timeouts

ASSUME IdentityAssumption ==
    /\ Windows \subseteq Agents
    /\ MaxUses \in Nat \ {0} /\ MaxCredentials \in Nat /\ MaxFaults \in Nat

VARIABLES
    token,      \* agent_enrollment_tokens row: [state, uses]
    collector,  \* collectors.state of each agent, "none" before enrolment
    live,       \* agent_credentials not revoked and not expired
    issued,     \* number of credentials issued so far: the name of the last
    wire,       \* control requests under way
    attempt,    \* the request each agent waits for
    pc,         \* where each agent's credential manager is
    current,    \* the credential it holds in memory, 0 for none
    grant,      \* the answer it is about to persist
    disk,       \* credential.json and credential.json.previous, 0 when absent
    faults,     \* crashes and timeouts so far
    cut,        \* history: agents cut off by a fault, an expiry or an operator
    kept        \* history: agents that have persisted a credential

agentVars == <<attempt, pc, current, grant, disk, faults, kept>>
serverVars == <<token, collector, live, issued>>
identityVars == <<agentVars, serverVars, wire, cut>>

IdentityInit ==
    /\ token = [state |-> "ACTIVE", uses |-> 0]
    /\ collector = [a \in Agents |-> "none"]
    /\ live = [a \in Agents |-> {}]
    /\ issued = [a \in Agents |-> 0]
    /\ wire = {}
    /\ attempt = [a \in Agents |-> 0]
    /\ pc = [a \in Agents |-> "start"]
    /\ current = [a \in Agents |-> 0]
    /\ grant = [a \in Agents |-> 0]
    /\ disk = [a \in Agents |-> [path |-> 0, previous |-> 0]]
    /\ faults = 0 /\ cut = {} /\ kept = {}

----------------------------------------------------------------------------
(* The agent                                                                *)

\* The previous file stands in for one that is missing.
readPrivateFile(a) == IF disk[a].path # 0 THEN disk[a].path ELSE disk[a].previous

\* postJSON, up to the answer: a repeated request is a request of its own.
send(a, credential) ==
    /\ attempt' = [attempt EXCEPT ![a] = faults]
    /\ wire' = wire \cup {[agent |-> a, with |-> credential, n |-> faults]}

\* Ensure: the stored credential if there is one, else enrolment under the
\* persisted identity.
Ensure(a) ==
    /\ pc[a] = "start"
    /\ IF readPrivateFile(a) # 0
       THEN /\ current' = [current EXCEPT ![a] = readPrivateFile(a)]
            /\ pc' = [pc EXCEPT ![a] = "running"]
            /\ UNCHANGED <<wire, attempt>>
       ELSE /\ send(a, 0)
            /\ pc' = [pc EXCEPT ![a] = "enrolling"]
            /\ UNCHANGED current
    /\ UNCHANGED <<grant, disk, faults, kept, serverVars, cut>>

Rotate(a) ==
    /\ pc[a] = "running" /\ issued[a] < MaxCredentials
    /\ send(a, current[a])
    /\ pc' = [pc EXCEPT ![a] = "rotating"]
    /\ UNCHANGED <<current, grant, disk, faults, kept, serverVars, cut>>

\* The client gives up; the request may still be under way.
Timeout(a) ==
    /\ pc[a] \in {"enrolling", "rotating"} /\ faults < MaxFaults
    /\ faults' = faults + 1
    /\ pc' = [pc EXCEPT ![a] = IF @ = "enrolling" THEN "start" ELSE "running"]
    /\ UNCHANGED <<attempt, current, grant, disk, kept, serverVars, wire, cut>>

Crash(a) ==
    /\ pc[a] # "start" /\ faults < MaxFaults
    /\ faults' = faults + 1
    /\ pc' = [pc EXCEPT ![a] = "start"]
    /\ current' = [current EXCEPT ![a] = 0]
    /\ grant' = [grant EXCEPT ![a] = 0]
    /\ cut' = IF grant[a] # 0 THEN cut \cup {a} ELSE cut
    /\ UNCHANGED <<attempt, disk, kept, serverVars, wire>>

\* writePrivateJSON: one rename, or on Windows the removal of the old backup,
\* the move of the file to the backup and the rename of the new one. Only
\* then does the manager use the credential.
persisted(a) ==
    /\ pc' = [pc EXCEPT ![a] = "running"]
    /\ current' = [current EXCEPT ![a] = grant[a]]
    /\ grant' = [grant EXCEPT ![a] = 0]
    /\ kept' = kept \cup {a}

WriteRename(a) ==
    /\ pc[a] = "persist" /\ a \notin Windows
    /\ disk' = [disk EXCEPT ![a] = [path |-> grant[a], previous |-> disk[a].previous]]
    /\ persisted(a)
    /\ UNCHANGED <<attempt, faults, serverVars, wire, cut>>

WriteBackup(a) ==
    /\ pc[a] = "persist" /\ a \in Windows
    /\ disk' = [disk EXCEPT ![a] = [path |-> 0, previous |-> @.path]]
    /\ pc' = [pc EXCEPT ![a] = "moved"]
    /\ UNCHANGED <<attempt, current, grant, faults, kept, serverVars, wire, cut>>

WriteReplace(a) ==
    /\ pc[a] = "moved"
    /\ \E p \in {0, disk[a].previous} : disk' = [disk EXCEPT ![a] = [path |-> grant[a], previous |-> p]]
    /\ persisted(a)
    /\ UNCHANGED <<attempt, faults, serverVars, wire, cut>>

\* A rename fails: the old file is put back, and the new credential is lost
\* though the server has already revoked the old one.
WriteFails(a) ==
    /\ pc[a] \in {"persist", "moved"} /\ faults < MaxFaults
    /\ faults' = faults + 1
    /\ disk' = IF pc[a] = "moved"
               THEN [disk EXCEPT ![a] = [path |-> @.previous, previous |-> 0]] ELSE disk
    /\ grant' = [grant EXCEPT ![a] = 0]
    /\ pc' = [pc EXCEPT ![a] = IF current[a] = 0 THEN "start" ELSE "running"]
    /\ cut' = cut \cup {a}
    /\ UNCHANGED <<attempt, current, kept, serverVars, wire>>

----------------------------------------------------------------------------
(* The server                                                               *)

\* The answer reaches the agent if it still waits for this request; the
\* replacement credential of a request it gave up is lost.
awaited(m) == pc[m.agent] \in {"enrolling", "rotating"} /\ attempt[m.agent] = m.n

answer(m) ==
    LET a == m.agent
    IN  /\ wire' = wire \ {m}
        /\ IF awaited(m)
           THEN /\ grant' = [grant EXCEPT ![a] = issued'[a]]
                /\ pc' = [pc EXCEPT ![a] = "persist"]
                /\ UNCHANGED cut
           ELSE cut' = cut \cup {a} /\ UNCHANGED <<grant, pc>>

refuse(m) ==
    /\ wire' = wire \ {m}
    /\ pc' = [pc EXCEPT ![m.agent] = IF ~awaited(m) THEN @
                                     ELSE IF m.with = 0 THEN "start" ELSE "running"]
    /\ UNCHANGED <<grant, cut, serverVars>>

issue(a, revoked) ==
    /\ issued' = [issued EXCEPT ![a] = @ + 1]
    /\ live' = [live EXCEPT ![a] = (@ \ revoked) \cup {issued[a] + 1}]

\* One transaction under the token row's lock: the collector is created, so a
\* second enrolment of the same identity fails and costs no use.
ConsumeAgentEnrollment(m) ==
    /\ m \in wire /\ m.with = 0
    /\ LET a == m.agent IN
       IF token.state = "ACTIVE" /\ token.uses < MaxUses /\ collector[a] = "none"
       THEN /\ collector' = [collector EXCEPT ![a] = "ACTIVE"]
            /\ issue(a, {})
            /\ token' = [state |-> IF token.uses + 1 >= MaxUses THEN "EXHAUSTED" ELSE "ACTIVE",
                         uses |-> token.uses + 1]
            /\ answer(m)
       ELSE refuse(m)
    /\ UNCHANGED <<attempt, current, disk, faults, kept>>

RotateUnlocked(m) ==        \* mutant of RotateAgentCredential
    /\ m \in wire /\ m.with # 0
    /\ LET a == m.agent IN
       IF collector[a] = "ACTIVE"
       THEN issue(a, {m.with}) /\ answer(m) /\ UNCHANGED <<token, collector>>
       ELSE refuse(m)
    /\ UNCHANGED <<attempt, current, disk, faults, kept>>

\* The old credential's row is locked, checked and revoked in the transaction
\* that inserts the new one: a second request with it finds it revoked.
RotateAgentCredential(m) ==
    /\ m \in wire /\ m.with # 0
    /\ LET a == m.agent IN
       IF m.with \in live[a] /\ collector[a] = "ACTIVE"
       THEN issue(a, {m.with}) /\ answer(m) /\ UNCHANGED <<token, collector>>
       ELSE refuse(m)
    /\ UNCHANGED <<attempt, current, disk, faults, kept>>

RevokeAgentEnrollmentToken ==
    /\ token.state # "REVOKED"
    /\ token' = [token EXCEPT !.state = "REVOKED"]
    /\ UNCHANGED <<agentVars, collector, live, issued, wire, cut>>

Expire(a) ==
    /\ live[a] # {} /\ pc[a] = "running"
    /\ live' = [live EXCEPT ![a] = {}]
    /\ cut' = cut \cup {a}
    /\ UNCHANGED <<agentVars, token, collector, issued, wire>>

SetCollectorState(a, s) ==
    /\ collector[a] \notin {"none", s}
    /\ collector' = [collector EXCEPT ![a] = s]
    /\ cut' = cut \cup {a}
    /\ UNCHANGED <<agentVars, token, live, issued, wire>>

\* AgentCredentialByHash, behind AgentAuthenticator.Authenticate.
credentialAccepted(a, c) == c \in live[a] /\ collector[a] = "ACTIVE"

IdentityNext ==
    \/ \E a \in Agents : \/ Ensure(a) \/ Rotate(a) \/ Timeout(a) \/ Crash(a)
                         \/ WriteRename(a) \/ WriteBackup(a) \/ WriteReplace(a) \/ WriteFails(a)
                         \/ Expire(a)
                         \/ \E s \in {"ACTIVE", "REVOKED"} : SetCollectorState(a, s)
    \/ \E m \in wire : ConsumeAgentEnrollment(m) \/ RotateAgentCredential(m)
    \/ RevokeAgentEnrollmentToken

IdentitySpec == IdentityInit /\ [][IdentityNext]_identityVars

----------------------------------------------------------------------------
(* However requests are delayed and repeated, an agent has at most one live *)
(* credential, and the one a running agent holds is accepted by the server  *)
(* unless a fault between the commit and the file, an expiry or an operator *)
(* has cut it off (RotateAgentCredential revokes before the agent knows).   *)
CredentialInStep ==
    \A a \in Agents :
        /\ Cardinality(live[a]) <= 1
        /\ pc[a] = "running" /\ a \notin cut => credentialAccepted(a, current[a])

(* Once a credential is on disk a restart finds one, wherever a crash falls *)
(* in the replacement of the file: the agent never asks to enrol an         *)
(* identity that is already taken (writePrivateJSON, readPrivateFile).      *)
CredentialSurvives == \A a \in kept : readPrivateFile(a) # 0

(* An agent keeps the credential it was given: in step with the server and   *)
(* through crashes (CredentialManager and RotateAgentCredential).            *)
CredentialIsKept == CredentialInStep /\ CredentialSurvives
=============================================================================
