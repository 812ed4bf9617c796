------------------------------- MODULE MCServers -------------------------------
(***************************************************************************)
(* Three protocols that share no state, for TLC: the checks and            *)
(* preparations of a server, its monitoring agent, and the way from a push *)
(* to its deployment.  `area' is chosen once and says which of them runs;  *)
(* the properties are those of the three modules.                          *)
(***************************************************************************)
EXTENDS ServerUpkeep, MonitoringAgent, MCAutomaticDeployment, FiniteSets

VARIABLE area

serversVars == <<area, upkeepVars, agentVars, automationVars>>

ThirdNeedsMore == [config \in Configs |-> IF config = "c3" THEN "more" ELSE "less"]

ServersInit ==
    /\ area \in {"upkeep", "agent", "automation"}
    /\ UpkeepInit /\ AgentInit /\ AutomationInit
    /\ area # "upkeep" => server.config = "c1"

AskedFor == {i \in Jobs : requester[i] # "off" \/ jobRow[i].status # "none"}

\* Two jobs are asked for when nothing goes wrong, and one otherwise.
OfUpkeep(step) ==
    /\ area = "upkeep" /\ step /\ UNCHANGED <<area, agentVars, automationVars>>
    /\ Cardinality(AskedFor') <= IF upsets' = 0 THEN 2 ELSE 1
OfAgent(step) ==
    area = "agent" /\ step /\ UNCHANGED <<area, upkeepVars, automationVars>>
\* The third change of a control resets one of two.  When something goes wrong, one
\* control is set, and reset before a second synchronisation is asked for.
OfAutomation(step) ==
    /\ area = "automation" /\ step /\ UNCHANGED <<area, upkeepVars, agentVars>>
    /\ changes' = 3 => changes = 3 \/ paused = Controls
    /\ snags' = 0 \/ changes' <= 1 \/ (changes' = 2 /\ paused' = {} /\ sync'[2].status = "none")

ServersNext ==
    OfUpkeep(UpkeepNext) \/ OfAgent(AgentNext) \/ OfAutomation(AutomationNext)

\* UpkeepFairness, AgentFairness and AutomationFairness: since one area runs, an
\* action of each shares a conjunct.
Fair(upkeepStep, agentStep, automationStep) ==
    OfUpkeep(upkeepStep) \/ OfAgent(agentStep) \/ OfAutomation(automationStep)

AnyPreparation == \E p \in Preparations : UpkeepStepsOf(p)
AnyCheck == \E c \in Checks : UpkeepStepsOf(c)
AnySyncSignal == \E s \in Syncs : SignalSync(s)

ServersFairness ==
    /\ WF_serversVars(Fair(AnyPreparation, FlowSteps(1), SourceCoordinatorSteps))
    /\ WF_serversVars(Fair(AnyCheck, FlowSteps(2), SweepSteps))
    /\ WF_serversVars(Fair(UpkeepSweep, AgentSweep, DeploymentSteps))
    /\ WF_serversVars(OfAutomation(AnySyncSignal))

\* What is under way on a server ends: its checks, what is done with its agent.
ServerWorkEnds == ChecksEnd /\ AgentSettles

ServersSpec == ServersInit /\ [][ServersNext]_serversVars /\ ServersFairness
=============================================================================
