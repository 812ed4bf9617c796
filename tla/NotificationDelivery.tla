------------------------- MODULE NotificationDelivery -------------------------
(***************************************************************************)
(* Notifications of one deployment on their way to one Slack destination:  *)
(* areas/notifications/delivery-service.ts, the workflow that asks for one *)
(* attempt after the other (notification-delivery.workflow.ts), and the    *)
(* sweep that starts workflows again.                                      *)
(*                                                                         *)
(* Deliveries are the numbers 1..NoOfDeliveries, in the order in which     *)
(* their events occurred; all of them write to one thread.  `troubles'     *)
(* counts what may go wrong besides refused messages.                      *)
(***************************************************************************)
EXTENDS Naturals, FiniteSets

CONSTANTS
    NoOfDeliveries,
    MaxAttempts,   \* maximumAutomaticAttempts, and of the workflow
    MaxTroubles    \* bound of `troubles'

ASSUME NotificationAssumption ==
    NoOfDeliveries \in Nat /\ MaxAttempts \in Nat \ {0} /\ MaxTroubles \in Nat

Deliveries == 1..NoOfDeliveries
Sequences == 1..MaxAttempts
Attempts == Deliveries \X Sequences
Nobody == 0

VARIABLES
    delivery,     \* d |-> state of the row, "none" if there is none
    attempt,      \* <<d, n>> |-> state of the row of this attempt
    asking,       \* d |-> the attempt its workflow is at, 0 if none runs
    sleeping,     \* workflows that wait before they ask again
    routed,       \* the destination is configured and takes these events
    handler,      \* <<d, n>> |-> where the API is in this attempt
    toThread,     \* <<d, n>> |-> the claim found a message, and it updates the root
    slackThread,  \* [claim, message, latest]: notificationThreads
    claimExpired, \* the claim is two minutes old
    roots,        \* messages that opened a thread
    shown,        \* the event the root shows
    accepted,     \* deliveries the provider has taken (history)
    troubles

notificationVars == <<delivery, attempt, asking, sleeping, routed, handler, toThread, slackThread,
                      claimExpired, roots, shown, accepted, troubles>>
workflowVars == <<asking, sleeping>>
threadVars == <<slackThread, claimExpired>>
slackVars == <<roots, shown, accepted>>

Trouble == troubles < MaxTroubles /\ troubles' = troubles + 1

NotificationInit ==
    /\ delivery = [d \in Deliveries |-> "none"]
    /\ attempt = [a \in Attempts |-> "none"]
    /\ asking = [d \in Deliveries |-> 0]
    /\ sleeping = {}
    /\ routed = TRUE
    /\ handler = [a \in Attempts |-> "off"]
    /\ toThread = [a \in Attempts |-> "no"]
    /\ slackThread = [claim |-> Nobody, message |-> FALSE, latest |-> 0]
    /\ claimExpired = FALSE
    /\ roots = 0 /\ shown = 0 /\ accepted = {}
    /\ troubles = 0

-----------------------------------------------------------------------------
(***************************************************************************)
(* The workflow.                                                           *)
(***************************************************************************)
\* emitNotificationEvent: an event of a subscribed category is recorded once,
\* with its delivery; events need not be recorded in the order they occurred in.
Emit(d) ==
    /\ delivery[d] = "none" /\ routed
    /\ delivery' = [delivery EXCEPT ![d] = "pending"]
    /\ UNCHANGED <<attempt, workflowVars, routed, handler, toThread, threadVars,
                   slackVars, troubles>>

\* emitNotificationEvent, unless the API stops, and the sweep start the workflow
\* of a delivery that is pending or due again, unless it runs.
StartWorkflow(d) ==
    /\ delivery[d] \in {"pending", "retrying"}
    /\ asking[d] = 0
    /\ asking' = [asking EXCEPT ![d] = 1]
    /\ UNCHANGED <<delivery, attempt, sleeping, routed, handler, toThread, threadVars,
                   slackVars, troubles>>

\* The attempt after an outcome: a wait does not count.
NextAttempt(outcome, n) == IF outcome = "retryable" THEN n + 1 ELSE n

\* What the workflow makes of the answer to an attempt.
Answer(d, outcome) ==
    IF outcome \in {"retryable", "wait"} /\ NextAttempt(outcome, asking[d]) <= MaxAttempts
    THEN /\ asking' = [asking EXCEPT ![d] = NextAttempt(outcome, @)]
         /\ sleeping' = sleeping \cup {d}
    ELSE /\ asking' = [asking EXCEPT ![d] = 0]
         /\ sleeping' = sleeping \ {d}

Wakes(d) ==
    /\ d \in sleeping
    /\ sleeping' = sleeping \ {d}
    /\ UNCHANGED <<delivery, attempt, asking, routed, handler, toThread, threadVars,
                   slackVars, troubles>>

\* Its activity has failed three times: the workflow fails.
WorkflowFails(d) ==
    /\ asking[d] # 0 /\ d \notin sleeping
    /\ Trouble
    /\ asking' = [asking EXCEPT ![d] = 0]
    /\ UNCHANGED <<delivery, attempt, sleeping, routed, handler, toThread, threadVars, slackVars>>

-----------------------------------------------------------------------------
(***************************************************************************)
(* claimAttempt, one transaction: answered at once when there is nothing   *)
(* to send.                                                                *)
(***************************************************************************)
Awake(d) == asking[d] # 0 /\ d \notin sleeping
Current(d) == <<d, asking[d]>>

\* The answer to an attempt that exists already.
Existing(d) ==
    CASE attempt[Current(d)] = "succeeded" -> "succeeded"
      [] attempt[Current(d)] = "retryable_failure" -> "retryable"
      [] attempt[Current(d)] = "terminal_failure" -> "terminal"
      [] OTHER -> "wait"

AskDecided(d) ==
    /\ Awake(d)
    /\ \/ /\ delivery[d] = "succeeded"
          /\ Answer(d, "stale")
          /\ UNCHANGED delivery
       \/ /\ delivery[d] # "succeeded" /\ ~routed
          /\ delivery' = [delivery EXCEPT ![d] = "failed"]
          /\ Answer(d, "terminal")
       \/ /\ delivery[d] # "succeeded" /\ routed
          /\ attempt[Current(d)] # "none"
          /\ Answer(d, Existing(d))
          /\ UNCHANGED delivery
    /\ UNCHANGED <<attempt, routed, handler, toThread, threadVars, slackVars, troubles>>

\* The attempt is claimed, and the handler goes on outside of the transaction.
Claim(d) ==
    /\ Awake(d)
    /\ delivery[d] # "succeeded" /\ routed
    /\ attempt[Current(d)] = "none"
    /\ attempt' = [attempt EXCEPT ![Current(d)] = "started"]
    /\ delivery' = [delivery EXCEPT ![d] = "delivering"]
    /\ handler' = [handler EXCEPT ![Current(d)] = "claimed"]
    /\ UNCHANGED <<workflowVars, routed, toThread, threadVars, slackVars, troubles>>

RouteChanges ==
    /\ Trouble
    /\ routed' = ~routed
    /\ UNCHANGED <<delivery, attempt, workflowVars, handler, toThread, threadVars, slackVars>>

-----------------------------------------------------------------------------
(***************************************************************************)
(* The handler of an attempt a = <<d, n>>.                                 *)
(***************************************************************************)
HandlerAt(a, place) == handler' = [handler EXCEPT ![a] = place]

\* Mutant: the claim of another delivery is not respected.
ClaimFreeAlways(d) == TRUE

ClaimFree(d) == slackThread.claim \in {Nobody, d} \/ claimExpired

\* claimNotificationThread: the claim of another delivery that is younger than
\* two minutes makes the attempt fail.
ClaimThread(a) ==
    /\ handler[a] = "claimed"
    /\ IF ClaimFree(a[1])
       THEN /\ slackThread' = [slackThread EXCEPT !.claim = a[1],
                          !.latest = IF @ = 0 THEN a[1] ELSE @]
            /\ claimExpired' = FALSE
            /\ toThread' = [toThread EXCEPT ![a] =
                              IF ~slackThread.message THEN "new"
                              ELSE IF a[1] >= slackThread.latest THEN "update" ELSE "reply"]
            /\ HandlerAt(a, IF slackThread.message /\ a[1] < slackThread.latest
                            THEN "reply" ELSE "root")
       ELSE HandlerAt(a, "retryable_failure") /\ UNCHANGED <<threadVars, toThread>>
    /\ UNCHANGED <<delivery, attempt, workflowVars, routed, slackVars, troubles>>

\* The message that opens the thread is posted, or the root is updated.
SendRoot(a) ==
    /\ handler[a] = "root"
    /\ shown' = a[1]
    /\ IF toThread[a] = "new"
       THEN /\ roots' = roots + 1
            /\ accepted' = accepted \cup {a[1]}
            /\ HandlerAt(a, "sent")
       ELSE HandlerAt(a, "reply") /\ UNCHANGED <<roots, accepted>>
    /\ UNCHANGED <<delivery, attempt, workflowVars, routed, toThread, threadVars, troubles>>

SendReply(a) ==
    /\ handler[a] = "reply"
    /\ accepted' = accepted \cup {a[1]}
    /\ HandlerAt(a, "sent")
    /\ UNCHANGED <<delivery, attempt, workflowVars, routed, toThread, threadVars,
                   roots, shown, troubles>>

\* releaseNotificationThreadClaim, of the claim of this delivery only; when it
\* fails too, the claim is left to expire.
ReleaseThread(a) ==
    slackThread' = IF slackThread.claim = a[1] THEN [slackThread EXCEPT !.claim = Nobody]
                   ELSE slackThread

\* The provider is not configured or refuses: the claim is released, and the
\* attempt may be repeated unless the refusal is final.
Refused(a) ==
    /\ handler[a] \in {"claimed", "root", "reply"}
    /\ \E outcome \in {"retryable_failure", "terminal_failure"} : HandlerAt(a, outcome)
    /\ \/ ReleaseThread(a) /\ UNCHANGED troubles
       \/ Trouble /\ UNCHANGED slackThread
    /\ UNCHANGED <<delivery, attempt, workflowVars, routed, toThread, claimExpired, slackVars>>

\* The answer of the provider, or the statement that records it, is lost after
\* the message was taken.  A timeout is not repeated; a broken connection and a
\* failed statement are.
LosesAnswer(a) ==
    /\ handler[a] = "sent"
    /\ Trouble
    /\ \E outcome \in {"retryable_failure", "terminal_failure"} : HandlerAt(a, outcome)
    /\ ReleaseThread(a) \/ UNCHANGED slackThread
    /\ UNCHANGED <<delivery, attempt, workflowVars, routed, toThread, claimExpired, slackVars>>

\* Mutant: the order of the events is forgotten.
LatestOfLast(a) == a[1]

\* latestEventAt moves only with the root.
Latest(a) == IF toThread[a] = "reply" THEN slackThread.latest ELSE a[1]

\* completeNotificationThread, if the claim is still this delivery's.
CompleteThread(a) ==
    /\ handler[a] = "sent"
    /\ slackThread' = IF slackThread.claim = a[1]
                 THEN [claim |-> Nobody, message |-> TRUE, latest |-> Latest(a)]
                 ELSE slackThread
    /\ HandlerAt(a, "succeeded")
    /\ UNCHANGED <<delivery, attempt, workflowVars, routed, toThread, claimExpired,
                   slackVars, troubles>>

\* Mutant: the last attempt is repeated like the others.
OutcomeAlwaysRetried(a) == handler[a]

Outcome(a) ==
    IF handler[a] = "retryable_failure" /\ a[2] = MaxAttempts
    THEN "terminal_failure" ELSE handler[a]

DeliveryAfter(a) ==
    CASE Outcome(a) = "succeeded" -> "succeeded"
      [] Outcome(a) = "retryable_failure" -> "retrying"
      [] OTHER -> "failed"

\* finishAttempt, one transaction, and the answer, which comes too late when
\* the activity has been given up.
FinishAttempt(a) ==
    /\ handler[a] \in {"succeeded", "retryable_failure", "terminal_failure"}
    /\ attempt' = [attempt EXCEPT ![a] = Outcome(a)]
    /\ delivery' = [delivery EXCEPT ![a[1]] = DeliveryAfter(a)]
    /\ HandlerAt(a, "off")
    /\ UNCHANGED <<routed, toThread, threadVars, slackVars, workflowVars, troubles>>

\* The transaction that records the success fails, or commits and only its answer
\* is lost: the catch records a failure, whatever the rows say.
FinishFails(a) ==
    /\ handler[a] = "succeeded"
    /\ Trouble
    /\ \/ /\ attempt' = [attempt EXCEPT ![a] = "succeeded"]
          /\ delivery' = [delivery EXCEPT ![a[1]] = "succeeded"]
       \/ UNCHANGED <<attempt, delivery>>
    /\ HandlerAt(a, "retryable_failure")
    /\ ReleaseThread(a)
    /\ UNCHANGED <<workflowVars, routed, toThread, claimExpired, slackVars>>

\* The API dies in the middle of an attempt.
HandlerDies(a) ==
    /\ handler[a] # "off"
    /\ Trouble
    /\ HandlerAt(a, "off")
    /\ UNCHANGED <<delivery, attempt, workflowVars, routed, toThread, threadVars, slackVars>>

\* Two minutes pass: the two requests of a handler end long before.
ClaimExpires ==
    /\ slackThread.claim # Nobody /\ ~claimExpired
    /\ \A n \in Sequences : handler[<<slackThread.claim, n>>] \notin {"root", "reply", "sent"}
    /\ claimExpired' = TRUE
    /\ UNCHANGED <<delivery, attempt, workflowVars, routed, handler, toThread, slackThread,
                   slackVars, troubles>>

-----------------------------------------------------------------------------
WorkflowSteps(d) == StartWorkflow(d) \/ Wakes(d) \/ AskDecided(d) \/ Claim(d)

HandlerSteps(a) ==
    ClaimThread(a) \/ SendRoot(a) \/ SendReply(a) \/ CompleteThread(a) \/ FinishAttempt(a)

\* No workflow runs and none is due; a delivery may have been abandoned.
Settled ==
    /\ \A d \in Deliveries : asking[d] = 0 /\ delivery[d] \notin {"pending", "retrying"}
    /\ \A a \in Attempts : handler[a] = "off"
    /\ UNCHANGED notificationVars

NotificationNext ==
    \/ \E d \in Deliveries : Emit(d) \/ WorkflowSteps(d) \/ WorkflowFails(d)
    \/ \E a \in Attempts :
          HandlerSteps(a) \/ Refused(a) \/ LosesAnswer(a) \/ FinishFails(a) \/ HandlerDies(a)
    \/ RouteChanges
    \/ ClaimExpires
    \/ Settled

NotificationSpec == NotificationInit /\ [][NotificationNext]_notificationVars

\* Temporal goes on with workflows, the sweep starts them again, a request of
\* the API ends.
NotificationFairness ==
    /\ \A d \in Deliveries : WF_notificationVars(WorkflowSteps(d))
    /\ WF_notificationVars(\E a \in Attempts : HandlerSteps(a))

NotificationFairSpec == NotificationSpec /\ NotificationFairness

-----------------------------------------------------------------------------
NotificationTypeOK ==
    /\ delivery \in [Deliveries -> {"none", "pending", "delivering", "retrying",
                                  "succeeded", "failed"}]
    /\ attempt \in [Attempts -> {"none", "started", "succeeded", "retryable_failure",
                                "terminal_failure"}]
    /\ asking \in [Deliveries -> 0..MaxAttempts]
    /\ sleeping \subseteq Deliveries
    /\ routed \in BOOLEAN /\ claimExpired \in BOOLEAN
    /\ handler \in [Attempts -> {"off", "claimed", "root", "reply", "sent", "succeeded",
                                "retryable_failure", "terminal_failure"}]
    /\ toThread \in [Attempts -> {"no", "new", "update", "reply"}]
    /\ slackThread \in [claim : 0..NoOfDeliveries, message : BOOLEAN, latest : 0..NoOfDeliveries]
    /\ roots \in Nat /\ shown \in 0..NoOfDeliveries
    /\ accepted \subseteq Deliveries
    /\ troubles \in 0..MaxTroubles

Sending == {a \in Attempts : handler[a] \in {"root", "reply", "sent"}}

\* One delivery at a time writes to a thread, and one attempt of it: however
\* often an attempt is asked for, answered too late, or found under way.
ThreadIsExclusive ==
    /\ \A a, b \in Sending : a = b
    /\ \A d \in Deliveries, m, n \in Sequences :
          handler[<<d, m>>] # "off" /\ handler[<<d, n>>] # "off" => m = n

\* Every message that opens a thread beyond the first takes a lost answer or a
\* dead handler.
OneRoot == roots <= 1 + troubles

\* What the thread knows as its latest event never goes back, and between two
\* writers the root shows no older one: an event that comes late only replies.
RootNeverGoesBack ==
    [][slackThread.message =>
         /\ slackThread'.latest >= slackThread.latest
         /\ Sending' = {} => shown' >= slackThread'.latest]_notificationVars

\* A delivery that succeeded was accepted by the provider
\* (docs/docs/integrations/notifications.mdx:50).
SucceededIsAccepted == \A d \in Deliveries : delivery[d] = "succeeded" => d \in accepted

\* What holds of a thread at every moment: the types, one writer, no superfluous
\* root, and success only of what the provider accepted.
ThreadInv == NotificationTypeOK /\ ThreadIsExclusive /\ OneRoot /\ SucceededIsAccepted

\* Its success was recorded, but the handler takes it for a failure.
Misjudged(d) ==
    \E n \in Sequences :
        attempt[<<d, n>>] = "succeeded" /\ handler[<<d, n>>] = "retryable_failure"

\* A delivery that succeeded stays so: no other attempt, no sweep and no change of
\* the destination turns it into a failure.  Only the attempt that succeeded does,
\* when the answer to the transaction that recorded it was lost: the catch writes
\* without looking (executeNotificationDeliveryAttempt, finishAttempt).
SucceededStays ==
    [][\A d \in Deliveries :
          delivery[d] = "succeeded" => delivery'[d] = "succeeded" \/ Misjudged(d)]_notificationVars

\* A handler died in the middle of an attempt.
Abandoned(d) ==
    \E n \in Sequences : attempt[<<d, n>>] = "started" /\ handler[<<d, n>>] = "off"

\* Every delivery succeeds or fails in the end, unless its handler died: then
\* its workflow waits for that attempt for ever.
DeliveriesEnd ==
    []<>(\A d \in Deliveries : delivery[d] \in {"none", "succeeded", "failed"} \/ Abandoned(d))
=============================================================================
