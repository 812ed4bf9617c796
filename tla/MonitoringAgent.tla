-------------------------- MODULE MonitoringAgent --------------------------
(***************************************************************************)
(* The Scout agent of one server: its row (areas/monitoring/lifecycle.ts), *)
(* the workflow of each request and its attempts, the script that installs *)
(* or removes the agent on the host, the sweep of maintenance, and the     *)
(* removal of the server, which waits for the agent to be gone.            *)
(*                                                                         *)
(* A row that does not exist is one with the status "disabled"; "waiting"  *)
(* and "online" are one status, "installed": a report of the agent only    *)
(* turns the first into the second.  The other work of the server, which   *)
(* its removal waits for, comes and goes; whether the server is prepared,  *)
(* which an installation asks for, is left out.                            *)
(***************************************************************************)
EXTENDS Naturals

CONSTANTS
    MaxGeneration,   \* bound on the requests that are made
    AgentTries,      \* maximumAttempts of the activity
    MaxHitches       \* bound on what is given up or lost

ASSUME AgentAssumption ==
    /\ MaxGeneration \in Nat /\ MaxHitches \in Nat
    /\ AgentTries \in Nat \ {0}

VARIABLES
    listed,      \* the server is not archived
    otherWork,   \* it has other unfinished work
    asked,       \* somebody has asked for its removal since it was added
    agent,       \* [status, generation, removal, remover]: removalRequested, and
                 \* whether removalRequestedBy names somebody
    wish,        \* generation |-> desiredState
    flow,        \* generation |-> the workflow's [state, tries]
    grip,        \* generation |-> where its attempt is
    adrift,      \* attempts at work that Temporal has given up
    hostAgent,   \* [there, late]; late: by a script that ran after its request was decided
    selected,    \* what finishPendingServerRemovals has done: "none", "read", "refused"
    hitches

agentVars == <<listed, otherWork, asked, agent, wish, flow, grip, adrift,
               hostAgent, selected, hitches>>

Generations == 1..MaxGeneration
AgentBusy == {"queued", "installing", "uninstalling"}
Underway == {"context", "read", "script", "applied"}

Hitch == hitches < MaxHitches /\ hitches' = hitches + 1

AgentInit ==
    /\ listed = TRUE /\ otherWork = FALSE /\ asked = FALSE
    /\ agent = [status |-> "disabled", generation |-> 0, removal |-> FALSE,
                remover |-> FALSE]
    /\ wish = [g \in Generations |-> "disabled"]
    /\ flow = [g \in Generations |-> [state |-> "none", tries |-> 0]]
    /\ grip = [g \in Generations |-> "off"]
    /\ adrift = {}
    /\ hostAgent = [there |-> FALSE, late |-> FALSE]
    /\ selected = "none"
    /\ hitches = 0

-----------------------------------------------------------------------------
(***************************************************************************)
(* Requests.                                                               *)
(***************************************************************************)

\* A new generation waits for its workflow.
QueueAgent(desired, removal, remover) ==
    /\ agent.generation < MaxGeneration
    /\ agent' = [status |-> "queued", generation |-> agent.generation + 1,
                 removal |-> removal, remover |-> remover]
    /\ wish' = [wish EXCEPT ![agent.generation + 1] = desired]

RequestAgent(desired) ==
    /\ listed /\ agent.status \notin AgentBusy
    /\ QueueAgent(desired, FALSE, FALSE)
    /\ UNCHANGED <<listed, otherWork, asked, flow, grip, adrift, hostAgent, selected, hitches>>

OtherWork ==
    /\ otherWork' = ~otherWork /\ (otherWork \/ listed)
    /\ UNCHANGED <<listed, asked, agent, wish, flow, grip, adrift, hostAgent, selected, hitches>>

\* removeServer, once its guards are passed: first the agent, then the server.
\* A key of the team, which is nobody's, may ask as well as a user.
Removes(byUser) ==
    /\ listed /\ ~otherWork /\ agent.status \notin AgentBusy
    /\ IF agent.status = "disabled"
       THEN listed' = FALSE /\ agent' = [agent EXCEPT !.remover = FALSE] /\ UNCHANGED wish
       ELSE QueueAgent("disabled", TRUE, byUser) /\ UNCHANGED listed

RemoveListedServer ==
    /\ \E byUser \in BOOLEAN : Removes(byUser)
    /\ asked' = TRUE
    /\ UNCHANGED <<otherWork, flow, grip, adrift, hostAgent, selected, hitches>>

\* createServer or a synchronisation; a sweep that has read the server before
\* still carries out what was asked then.
AddServerAgain ==
    /\ ~listed /\ listed' = TRUE /\ asked' = (selected = "read")
    /\ UNCHANGED <<otherWork, agent, wish, flow, grip, adrift, hostAgent, selected, hitches>>

-----------------------------------------------------------------------------
(***************************************************************************)
(* The sweep (recoverMonitoringOperations).                                *)
(***************************************************************************)

\* The agent is gone, and somebody wants the server gone.
RemovalWaits ==
    listed /\ agent.status = "disabled" /\ agent.removal /\ agent.remover

\* finishPendingServerRemovals, of the sweep or of the report of a success,
\* reads the servers ...
SelectRemoval ==
    /\ selected = "none" /\ RemovalWaits
    /\ selected' = "read"
    /\ UNCHANGED <<listed, otherWork, asked, agent, wish, flow, grip, adrift, hostAgent, hitches>>

\* ... removes them ...
FinishRemoval ==
    /\ selected = "read" /\ selected' = "none"
    /\ Removes(TRUE)
    /\ UNCHANGED <<otherWork, asked, flow, grip, adrift, hostAgent, hitches>>

\* ... or is refused: the server is gone or busy, the user may not remove it any
\* more, or the answer is lost, of a removal that was made or not.
RefuseRemoval ==
    /\ selected = "read" /\ selected' = "refused"
    /\ \/ UNCHANGED <<listed, agent, wish, hitches>>
       \/ Removes(TRUE) /\ Hitch
    /\ UNCHANGED <<otherWork, asked, flow, grip, adrift, hostAgent>>

\* Then it forgets the removal, whatever the row has come to say since.
ForgetRemoval ==
    /\ selected = "refused" /\ selected' = "none"
    /\ agent' = [agent EXCEPT !.removal = FALSE, !.remover = FALSE]
    /\ UNCHANGED <<listed, otherWork, asked, wish, flow, grip, adrift, hostAgent, hitches>>

\* Mutant: the report of a request is taken for that of any other.
AfterAnyFinish(g, succeeded) ==
    IF agent.status \notin AgentBusy THEN agent
    ELSE [agent EXCEPT !.status =
            IF ~succeeded THEN "failed"
            ELSE IF wish[g] = "enabled" THEN "installed" ELSE "disabled"]

\* The row after finishMonitoringOperation(g, succeeded).
AfterFinish(g, succeeded) ==
    IF agent.generation # g \/ agent.status \notin AgentBusy THEN agent
    ELSE [agent EXCEPT !.status =
            IF ~succeeded THEN "failed"
            ELSE IF wish[g] = "enabled" THEN "installed" ELSE "disabled"]

\* The workflow is started by the request or by the sweep; its identity is used once.
StartFlow(g) ==
    /\ listed /\ agent.status = "queued" /\ agent.generation = g
    /\ flow[g].state = "none"
    /\ flow' = [flow EXCEPT ![g] = [state |-> "trying", tries |-> 1]]
    /\ grip' = [grip EXCEPT ![g] = "context"]
    /\ UNCHANGED <<listed, otherWork, asked, agent, wish, adrift, hostAgent, selected, hitches>>

\* A queued row whose workflow has closed.
SweepClosed(g) ==
    /\ listed /\ agent.status = "queued" /\ agent.generation = g
    /\ flow[g].state = "closed"
    /\ agent' = AfterFinish(g, FALSE)
    /\ UNCHANGED <<listed, otherWork, asked, wish, flow, grip, adrift, hostAgent, selected, hitches>>

\* Twenty minutes after its start, when its workflow has been closed for five.
SweepTimeout(g) ==
    /\ agent.status \in {"installing", "uninstalling"} /\ agent.generation = g
    /\ flow[g].state = "closed"
    /\ agent' = [agent EXCEPT !.status = "failed"]
    /\ UNCHANGED <<listed, otherWork, asked, wish, flow, grip, adrift, hostAgent, selected, hitches>>

-----------------------------------------------------------------------------
(***************************************************************************)
(* An attempt: executeMonitoringAgentActivity and what it calls.           *)
(***************************************************************************)

\* getMonitoringExecutionContext reads the row ...
ReadsContext(g, next) ==
    /\ next = IF ~listed \/ agent.generation # g \/ agent.status = "failed" THEN "thrown"
              ELSE IF agent.status \in AgentBusy THEN "read" ELSE "done"
    /\ UNCHANGED <<agent, hostAgent>>

\* ... and writes it, whatever has become of its status since.
WritesContext(g, next) ==
    /\ next = "script" /\ UNCHANGED hostAgent
    /\ agent' = IF agent.generation # g THEN agent
                ELSE [agent EXCEPT !.status =
                        IF wish[g] = "enabled" THEN "installing" ELSE "uninstalling"]

\* The scripts take turns at the host (flock); one that fails may have done it.
RunsScript(g, next) ==
    /\ UNCHANGED agent
    /\ \/ /\ next \in {"applied", "thrown"}
          /\ hostAgent' = [there |-> wish[g] = "enabled",
                           late |-> agent.generation # g \/ agent.status \notin AgentBusy]
       \/ next = "thrown" /\ UNCHANGED hostAgent

PostsSuccess(g, next) ==
    next = "done" /\ agent' = AfterFinish(g, TRUE) /\ UNCHANGED hostAgent

AttemptActs(g, stage, next) ==
    \/ stage = "context" /\ ReadsContext(g, next)
    \/ stage = "read"    /\ WritesContext(g, next)
    \/ stage = "script"  /\ RunsScript(g, next)
    \/ stage = "applied" /\ PostsSuccess(g, next)

Outcomes == Underway \cup {"done", "thrown"}

AttemptGoesOn(g) ==
    /\ flow[g].state = "trying"
    /\ \E next \in Outcomes :
         /\ AttemptActs(g, grip[g], next)
         /\ grip' = [grip EXCEPT ![g] = next]
    /\ UNCHANGED <<listed, otherWork, asked, wish, flow, adrift, selected, hitches>>

\* A call or a connection fails; a report may have arrived.
AttemptFails(g) ==
    /\ flow[g].state = "trying" /\ grip[g] \in Underway /\ Hitch
    /\ agent' \in {agent} \cup IF grip[g] = "applied" THEN {AfterFinish(g, TRUE)} ELSE {}
    /\ grip' = [grip EXCEPT ![g] = "thrown"]
    /\ UNCHANGED <<listed, otherWork, asked, wish, flow, adrift, hostAgent, selected>>

\* Temporal gives an attempt up that is still at work, on the worker or the host.
AttemptIsGivenUp(g) ==
    /\ flow[g].state = "trying" /\ grip[g] \in Underway /\ Hitch
    /\ adrift' = adrift \cup {[of |-> g, stage |-> grip[g]]}
    /\ grip' = [grip EXCEPT ![g] = "thrown"]
    /\ UNCHANGED <<listed, otherWork, asked, agent, wish, flow, hostAgent, selected>>

AdriftGoesOn(a) ==
    /\ \E next \in Outcomes :
         /\ AttemptActs(a.of, a.stage, next)
         /\ adrift' = (adrift \ {a}) \cup
                IF next \in Underway THEN {[a EXCEPT !.stage = next]} ELSE {}
    /\ UNCHANGED <<listed, otherWork, asked, wish, flow, grip, selected, hitches>>

AdriftEnds(a) ==
    /\ adrift' = adrift \ {a}
    /\ UNCHANGED <<listed, otherWork, asked, agent, wish, flow, grip, hostAgent, selected, hitches>>

-----------------------------------------------------------------------------
(***************************************************************************)
(* runMonitoringAgentWorkflow.                                             *)
(***************************************************************************)

FlowGoesOn(g) ==
    /\ flow[g].state = "trying" /\ grip[g] \in {"done", "thrown"}
    /\ IF grip[g] = "thrown" /\ flow[g].tries < AgentTries
       THEN /\ flow' = [flow EXCEPT ![g].tries = @ + 1]
            /\ grip' = [grip EXCEPT ![g] = "context"]
       ELSE /\ flow' = [flow EXCEPT ![g].state =
                            IF grip[g] = "done" THEN "closed" ELSE "failing"]
            /\ UNCHANGED grip
    /\ UNCHANGED <<listed, otherWork, asked, agent, wish, adrift, hostAgent, selected, hitches>>

\* failMonitoringAgentActivity
FlowFails(g) ==
    /\ flow[g].state = "failing"
    /\ flow' = [flow EXCEPT ![g].state = "closed"]
    /\ agent' = AfterFinish(g, FALSE)
    /\ UNCHANGED <<listed, otherWork, asked, wish, grip, adrift, hostAgent, selected, hitches>>

\* Its own timeout, or three failures to post the failure, end the workflow.
FlowTimesOut(g) ==
    /\ flow[g].state \in {"trying", "failing"} /\ Hitch
    /\ flow' = [flow EXCEPT ![g].state = "closed"]
    /\ adrift' = adrift \cup {[of |-> g, stage |-> s] : s \in {grip[g]} \cap Underway}
    /\ UNCHANGED <<listed, otherWork, asked, agent, wish, grip, hostAgent, selected>>

-----------------------------------------------------------------------------

FlowSteps(g) == StartFlow(g) \/ AttemptGoesOn(g) \/ FlowGoesOn(g) \/ FlowFails(g)
AgentSweep ==
    \/ SelectRemoval \/ FinishRemoval \/ RefuseRemoval \/ ForgetRemoval
    \/ \E g \in Generations : SweepClosed(g) \/ SweepTimeout(g)

AgentNext ==
    \/ \E desired \in {"enabled", "disabled"} : RequestAgent(desired)
    \/ OtherWork \/ RemoveListedServer \/ AddServerAgain
    \/ AgentSweep
    \/ \E g \in Generations :
         FlowSteps(g) \/ AttemptFails(g) \/ AttemptIsGivenUp(g) \/ FlowTimesOut(g)
    \/ \E a \in adrift : AdriftGoesOn(a) \/ AdriftEnds(a)

\* Temporal schedules, commands and requests have timeouts, maintenance runs.
AgentFairness ==
    /\ \A g \in Generations : WF_agentVars(FlowSteps(g))
    /\ WF_agentVars(AgentSweep)

AgentSpec == AgentInit /\ [][AgentNext]_agentVars /\ AgentFairness

-----------------------------------------------------------------------------

AgentTypeOK ==
    /\ listed \in BOOLEAN /\ otherWork \in BOOLEAN /\ asked \in BOOLEAN
    /\ agent \in [status : AgentBusy \cup {"disabled", "installed", "failed"},
                  generation : 0..MaxGeneration, removal : BOOLEAN, remover : BOOLEAN]
    /\ wish \in [Generations -> {"enabled", "disabled"}]
    /\ flow \in [Generations -> [state : {"none", "trying", "failing", "closed"},
                                 tries : 0..AgentTries]]
    /\ grip \in [Generations -> Outcomes \cup {"off"}]
    /\ adrift \subseteq [of : Generations, stage : Underway]
    /\ hostAgent \in [there : BOOLEAN, late : BOOLEAN]
    /\ selected \in {"none", "read", "refused"} /\ hitches \in 0..MaxHitches

(***************************************************************************)
(* The host is as the row shows it: no agent runs where it is shown as     *)
(* disabled or the server is removed, one is installed where it is shown.  *)
(* Only a script that runs when its request is decided already, as one of  *)
(* an attempt that was given up may, can change it:                        *)
(* finishMonitoringOperation must not take the report of one request for   *)
(* that of another.                                                        *)
(***************************************************************************)
HostIsAsShown ==
    ~hostAgent.late =>
        /\ agent.status = "disabled" \/ ~listed => ~hostAgent.there
        /\ agent.status = "installed" /\ listed => hostAgent.there

(***************************************************************************)
(* A server is removed, or waits for its agent to go, only because somebody *)
(* asked for it since it was added: a request that was carried out does    *)
(* not remove the server again once it is back (removalRequestedBy).       *)
(***************************************************************************)
RemovalIsAsked == (agent.removal /\ agent.remover) \/ ~listed => asked

AgentInv == AgentTypeOK /\ HostIsAsShown /\ RemovalIsAsked

(***************************************************************************)
(* An operation on the agent ends, and with it a removal that waited for   *)
(* it, whichever call, attempt or workflow is lost (the row as an outbox,  *)
(* the closed workflow, the timeout of twenty minutes): it is carried out  *)
(* or given up.  A removal that names no user is neither: RemovalWaits     *)
(* leaves it out.                                                          *)
(***************************************************************************)
AgentSettles == []<>(agent.status \notin AgentBusy /\ ~RemovalWaits)
=============================================================================
