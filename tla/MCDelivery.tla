----------------------------- MODULE MCDelivery -----------------------------
(* What must arrive, one part at a time: the events of a host at the raw     *)
(* topic, the records of the topic at their alerts, and a request to the     *)
(* model that advises the analyst at its answer. The parts share no state.   *)
EXTENDS AgentDelivery, MCTelemetryProcessor, AiRequests

VARIABLE part

(* The agent: three events of two sizes, which together overfill the queue;  *)
(* all fit into a request, the second only just.                             *)
MixedSize == <<2, 1, 2>>
FittingEstimate == <<1, 2, 1>>

-----------------------------------------------------------------------------
MCInit ==
    /\ part \in {"agent", "processor", "ai"}
    /\ AgentInit /\ TelemetryInit /\ AiInit

MCNext ==
    \/ part = "agent" /\ AgentNext /\ UNCHANGED <<part, telemetryVars, aiVars>>
    \/ part = "processor" /\ TelemetryNext /\ UNCHANGED <<part, agentVars, aiVars>>
    \/ part = "ai" /\ AiNext /\ UNCHANGED <<part, agentVars, telemetryVars>>

(* The agent's loop, the gateway's handler, the poll loop and every worker   *)
(* run on, and time goes on; failures are not fair.                          *)
MCSpec ==
    /\ MCInit /\ [][MCNext]_<<part, agentVars, telemetryVars, aiVars>>
    /\ WF_agentVars(part = "agent" /\ Agent)
    /\ WF_agentVars(part = "agent" /\ Gateway)
    /\ WF_agentVars(part = "agent" /\ NextWindow)
    /\ WF_telemetryVars(part = "processor" /\ Poll)
    /\ \A w \in Workers : WF_telemetryVars(part = "processor" /\ Work(w))
    /\ \A w \in AiWorkers : WF_aiVars(part = "ai" /\ ProcessOne(w))
    /\ WF_aiVars(part = "ai" /\ aiLeaseStep)

(* Every event of the source reaches the raw topic once faults end (drain,  *)
(* the poll loop, ReserveIngestBatch), in the behaviours of an agent.       *)
AgentDelivers == part = "agent" => Delivered

(* The processor gets through its partition once hard failures end          *)
(* (Processor.Run), in the behaviours of a processor.                       *)
ProcessorCommits == part = "processor" => AllCommitted
=============================================================================
