---------------------- MODULE AutomaticDeploymentProofs ----------------------
(***************************************************************************)
(* Proofs about AutomaticDeployment, for any commits and digests, any      *)
(* number of synchronisations, attempts and changes of the controls, and   *)
(* whatever fails, is lost or is given up.                                 *)
(***************************************************************************)
EXTENDS AutomaticDeployment, TLAPS

InPlay == {call, sweep} \cup astray

\* Under way: in the queue of the coordinator or at work.
Taken(s) == turn.of = s \/ \E i \in 1..Len(line) : line[i] = s

\* A synchronisation is there before it is signalled, and signalled before it
\* is taken.
CourseIsSound ==
    /\ \A s \in unsent : sync[s].status = "queued"
    /\ \A s \in Syncs : Taken(s) => sync[s].status # "none" /\ s \notin unsent
    /\ \A s \in Syncs : sync[s].status # "none" => head # 0

\* What is known of commits is not ahead of the branch.
BranchIsAhead ==
    /\ IF env.latest = 0 THEN env.commit = 0 ELSE env.commit \in 1..head
    /\ deferred # 0 => env.latest # 0
    /\ \A r \in rows : r.commit <= head
    /\ \A s \in Syncs : sync[s].commit <= head
    /\ \A control \in Controls : since[control] <= head

\* The controls that a request goes by.
ControlsRead(c) ==
    CASE c.stage = "environment" -> {"source"}
      [] c.stage \in {"choose", "request"} -> {"source", "environment"}
      [] OTHER -> {}

\* What a request has read: the commit before the controls, so that one it did not find
\* set was set when the commit was pushed already.
RequestIsSound(c) ==
    /\ c.of # 0 => sync[c.of].status # "none" /\ c.of \notin unsent
    /\ c.commit <= head
    /\ c.stage \in Executing => c.of # 0
    /\ c.stage \in Deploying => env.latest # 0
    /\ c.stage \in (Deploying \cup {"store"}) \ {"commit", "source", "environment"} => c.commit # 0
    /\ c.stage = "request" => ~c.paused
    /\ ~c.paused => \A control \in ControlsRead(c) \cap paused : c.commit <= since[control]

\* One deployment waits and one runs, and while the branch is read in order the
\* one that waits is not older, and neither is the environment.
OrderIsKept ==
    /\ \A q, r \in rows : q.state \in Waiting /\ r.state \in Waiting => q.commit = r.commit
    /\ \A q, r \in rows : q.state = "running" /\ r.state = "running" => q.commit = r.commit
    /\ ReadInOrder =>
         /\ current <= env.commit /\ \A r \in rows : r.commit <= env.commit
         /\ \A r \in rows : r.state \in Waiting \cup {"running"} => current <= r.commit
         /\ \A q, r \in rows : q.state = "running" /\ r.state \in Waiting => q.commit <= r.commit

AutomationIInv ==
    /\ AutomationInv /\ CourseIsSound /\ BranchIsAhead /\ OrderIsKept
    /\ \A c \in InPlay : RequestIsSound(c)

\* A control that is set was set before, or just now.
PausesAreKept ==
    \A control \in paused' : \/ since'[control] = head
                             \/ control \in paused /\ since'[control] = since[control]

\* What a request does, alone or when something goes wrong.
Acts(c, next) == RequestActs(c, next) \/ RequestBreaks(c, next)

-----------------------------------------------------------------------------

LEMMA OverIsSound ==
  ASSUME AutomationTypeOK, NEW stage \in {"done", "thrown"}
  PROVE  Over(stage) \in Requests /\ RequestIsSound(Over(stage))
<1>1. Over(stage) = [of |-> 0, stage |-> stage, commit |-> 0, paused |-> FALSE]
  BY DEF Over, Call
<1>2. head \in Nat /\ MaxSync \in Nat /\ MaxCommit \in Nat
  BY AutomationAssumption DEF AutomationTypeOK
<1>3. Over(stage) \in Requests
  BY <1>1, <1>2 DEF Requests
<1>4. stage \notin Executing \cup Deploying
  BY DEF Executing, Deploying
<1>5. ControlsRead(Over(stage)) = {}
  BY <1>1 DEF ControlsRead
<1>6. /\ Over(stage).of = 0 /\ Over(stage).commit = 0 /\ Over(stage).stage = stage
      /\ stage \notin {"store", "request"} /\ 0 <= head
  BY <1>1, <1>2
<1>7. RequestIsSound(Over(stage))
  BY <1>4, <1>5, <1>6 DEF RequestIsSound
<1>8. QED
  BY <1>3, <1>7

\* What a request may do to the synchronisations and to the environment: nothing, mark
\* its synchronisation, or store what it has read.
Marks(c) ==
    /\ c.of \in Syncs /\ sync[c.of].status \notin {"none", "succeeded"} /\ env' = env
    /\ sync' \in {[sync EXCEPT ![c.of].status = "running"], [sync EXCEPT ![c.of].status = "failed"]}

Stores(c) ==
    /\ c.stage = "store" /\ c.of \in Syncs /\ c.of > env.latest
    /\ sync[c.of].status \notin {"none", "succeeded"}
    /\ env' = [latest |-> c.of, commit |-> c.commit]
    /\ sync' = [sync EXCEPT ![c.of].status = "succeeded", ![c.of].commit = c.commit]

LEMMA ActsInOneOfThreeWays ==
  ASSUME AutomationTypeOK, NewestSyncIsShown, NEW c \in Requests, RequestIsSound(c), NEW next,
         Acts(c, next)
  PROVE  UNCHANGED <<sync, env>> \/ Marks(c) \/ Stores(c)
<1>1. c.stage \in Executing => c.of \in Syncs /\ sync[c.of].status # "none"
  BY DEF Requests, RequestIsSound, Syncs
<1>2. CASE StartsSync(c, next)
  BY <1>1, <1>2 DEF StartsSync, Executing, Marks
<1>3. ASSUME c.stage \in Executing, sync' = MarkedFailed(c.of), env' = env
      PROVE  UNCHANGED <<sync, env>> \/ Marks(c)
  BY <1>1, <1>3 DEF MarkedFailed, Marks
<1>4. CASE StoresRevision(c, next)
  <2>1. c.stage = "store" /\ c.of \in Syncs /\ sync[c.of].status # "none"
    BY <1>1, <1>4 DEF StoresRevision, Executing
  <2>2. CASE IsStale(c)
    BY <1>3, <1>4, <2>1, <2>2 DEF StoresRevision, Executing
  <2>3. CASE ~IsStale(c) /\ env.latest = c.of
    BY <1>4, <2>3 DEF StoresRevision
  <2>4. CASE ~IsStale(c) /\ env.latest # c.of
    <3>1. c.of > env.latest
      BY <2>1, <2>4, AutomationAssumption DEF IsStale, Syncs, AutomationTypeOK
    <3>2. sync[c.of].status # "succeeded"
      BY <2>1, <3>1 DEF NewestSyncIsShown
    <3>3. QED
      BY <1>4, <2>1, <2>4, <3>1, <3>2 DEF StoresRevision, Stores
  <2>5. QED
    BY <2>2, <2>3, <2>4
<1>5. CASE RequestBreaks(c, next)
  BY <1>3, <1>5 DEF RequestBreaks, SignalsDeployment, Executing
<1>6. QED
  BY <1>2, <1>4, <1>5 DEF Acts, RequestActs, FetchesHead, ReadsCommit, ReadsSource, ReadsEnvironment, ChoosesWorkload, Forgets,
     Defers, RequestsDeployment, SignalsDeployment

SyncRecords == [status : {"none", "queued", "running", "succeeded", "failed"},
                deploys : BOOLEAN, commit : 0..MaxCommit]

LEMMA SyncChanges ==
  ASSUME NEW f \in [Syncs -> SyncRecords], NEW s \in Syncs, NEW commit \in 0..MaxCommit,
         NEW status \in {"none", "queued", "running", "succeeded", "failed"}
  PROVE  /\ [f EXCEPT ![s].status = status] \in [Syncs -> SyncRecords]
         /\ [f EXCEPT ![s].status = status, ![s].commit = commit] \in [Syncs -> SyncRecords]
<1>1. [f[s] EXCEPT !.status = status] \in SyncRecords
  BY DEF SyncRecords
<1>2. [f[s] EXCEPT !.status = status, !.commit = commit] \in SyncRecords
  BY DEF SyncRecords
<1>3. [f EXCEPT ![s].status = status] = [f EXCEPT ![s] = [f[s] EXCEPT !.status = status]]
  OBVIOUS
<1>4. [f EXCEPT ![s].status = status, ![s].commit = commit]
         = [f EXCEPT ![s] = [f[s] EXCEPT !.status = status, !.commit = commit]]
  OBVIOUS
<1>5. QED
  BY <1>1, <1>2, <1>3, <1>4

LEMMA ActsOnData ==
  ASSUME AutomationTypeOK, NewestSyncIsShown, NEW c \in Requests, RequestIsSound(c), NEW next,
         Acts(c, next)
  PROVE  /\ sync' \in [Syncs -> SyncRecords]
         /\ env' \in [latest : 0..MaxSync, commit : 0..MaxCommit]
         /\ \A s \in Syncs : /\ sync[s].status = "none" <=> sync'[s].status = "none"
                             /\ sync[s].status = "succeeded" => sync'[s] = sync[s]
                             /\ s # c.of => sync'[s] = sync[s]
                             /\ sync'[s].commit \in {sync[s].commit, c.commit}
         /\ \/ /\ env' = env
               /\ \A s \in Syncs : sync'[s].status = "succeeded" => sync'[s] = sync[s]
            \/ Stores(c)
<1>1. CASE UNCHANGED <<sync, env>>
  BY <1>1 DEF AutomationTypeOK, SyncRecords
<1>2. CASE Marks(c)
  <2>1. PICK x \in {"running", "failed"} : sync' = [sync EXCEPT ![c.of].status = x]
    BY <1>2 DEF Marks
  <2>2. /\ \A s \in Syncs \ {c.of} : sync'[s] = sync[s]
        /\ sync'[c.of].status = x
    BY <1>2, <2>1 DEF AutomationTypeOK, Marks
  <2>3. sync' \in [Syncs -> SyncRecords]
    BY <1>2, <2>1, SyncChanges DEF AutomationTypeOK, Marks, SyncRecords
  <2>4. sync'[c.of].commit = sync[c.of].commit
    BY <1>2, <2>1 DEF AutomationTypeOK, Marks
  <2>5. /\ sync[c.of].status # "none" /\ sync[c.of].status # "succeeded"
        /\ x # "none" /\ x # "succeeded"
    BY <1>2, <2>1 DEF Marks
  <2>6. env' = env /\ env' \in [latest : 0..MaxSync, commit : 0..MaxCommit]
    BY <1>2 DEF AutomationTypeOK, Marks
  <2>7. \A s \in Syncs : /\ sync[s].status = "none" <=> sync'[s].status = "none"
                         /\ sync[s].status = "succeeded" => sync'[s] = sync[s]
                         /\ s # c.of => sync'[s] = sync[s]
                         /\ sync'[s].commit \in {sync[s].commit, c.commit}
                         /\ sync'[s].status = "succeeded" => sync'[s] = sync[s]
    <3>1. TAKE s \in Syncs
    <3>2. CASE s = c.of
      BY <2>2, <2>4, <2>5, <3>2
    <3>3. CASE s # c.of
      BY <2>2, <3>3
    <3>4. QED
      BY <3>2, <3>3
  <2>8. QED
    BY <2>3, <2>6, <2>7
<1>3. CASE Stores(c)
  <2>1. c.of \in 0..MaxSync /\ c.commit \in 0..MaxCommit
    BY DEF Requests
  <2>2. /\ \A s \in Syncs \ {c.of} : sync'[s] = sync[s]
        /\ sync'[c.of].status = "succeeded"
    BY <1>3, <2>1 DEF AutomationTypeOK, Stores
  <2>3. sync' \in [Syncs -> SyncRecords]
    BY <1>3, <2>1, SyncChanges DEF AutomationTypeOK, Stores, SyncRecords
  <2>4. env' \in [latest : 0..MaxSync, commit : 0..MaxCommit]
    BY <1>3, <2>1 DEF Stores
  <2>5. QED
    BY <1>3, <2>2, <2>3, <2>4 DEF AutomationTypeOK, Stores
<1>4. QED
  BY <1>1, <1>2, <1>3, ActsInOneOfThreeWays


\* The environment shows the newest that succeeded, which is a commit of the branch.
LEMMA ActsKeepsEnvironment ==
  ASSUME AutomationIInv, NEW c \in InPlay, NEW next, Acts(c, next), head' = head
  PROVE  /\ NewestSyncIsShown'
         /\ (IF env.latest = 0 THEN env.commit = 0 ELSE env.commit \in 1..head)'
         /\ env.latest # 0 => env'.latest # 0
         /\ ReadInOrder' => ReadInOrder /\ env.commit <= env'.commit
<1>0. /\ AutomationTypeOK /\ NewestSyncIsShown /\ CourseIsSound /\ BranchIsAhead
      /\ c \in Requests /\ RequestIsSound(c)
  BY DEF AutomationIInv, AutomationInv, InPlay, AutomationTypeOK
<1>1. /\ env \in [latest : 0..MaxSync, commit : 0..MaxCommit]
      /\ sync \in [Syncs -> SyncRecords] /\ sync' \in [Syncs -> SyncRecords]
      /\ head \in 0..MaxCommit
  BY <1>0, ActsOnData DEF AutomationTypeOK, SyncRecords
<1>2. \A s \in Syncs : sync[s].status = "succeeded" => sync'[s] = sync[s]
  BY <1>0, ActsOnData
<1>3. ASSUME ReadInOrder' PROVE ReadInOrder
  BY <1>1, <1>2, <1>3 DEF ReadInOrder, Succeeded, Syncs
<1>4. CASE /\ env' = env
           /\ \A s \in Syncs : sync'[s].status = "succeeded" => sync'[s] = sync[s]
  <2>1. NewestSyncIsShown'
    BY <1>0, <1>1, <1>2, <1>4 DEF NewestSyncIsShown, Syncs
  <2>2. QED
    BY <1>0, <1>1, <1>3, <1>4, <2>1 DEF BranchIsAhead
<1>5. CASE Stores(c)
  <2>1. /\ c.of \in Syncs /\ c.of > env.latest
        /\ env' = [latest |-> c.of, commit |-> c.commit]
        /\ sync'[c.of].status = "succeeded" /\ sync'[c.of].commit = c.commit
        /\ \A s \in Syncs \ {c.of} : sync'[s] = sync[s]
    BY <1>1, <1>5 DEF Stores, SyncRecords
  <2>2. c.commit \in 1..head
    BY <1>0, <1>1, <1>5 DEF Stores, RequestIsSound, Deploying, Requests
  <2>3. NewestSyncIsShown'
    BY <1>0, <1>1, <2>1, AutomationAssumption DEF NewestSyncIsShown, Syncs
  <2>4. ASSUME ReadInOrder' PROVE env.commit <= env'.commit
    <3>1. CASE env.latest = 0
      BY <1>0, <1>1, <2>1, <2>2, <3>1 DEF BranchIsAhead
    <3>2. CASE env.latest # 0
      <4>1. /\ env.latest \in Syncs /\ sync'[env.latest].status = "succeeded"
            /\ sync'[env.latest].commit = env.commit
        BY <1>0, <1>1, <1>2, <3>2, AutomationAssumption DEF NewestSyncIsShown, Syncs
      <4>2. QED
        BY <2>1, <2>4, <4>1 DEF ReadInOrder, Succeeded
    <3>3. QED
      BY <3>1, <3>2
  <2>5. QED
    BY <1>1, <1>3, <2>1, <2>2, <2>3, <2>4, AutomationAssumption DEF Syncs
<1>6. QED
  BY <1>0, <1>4, <1>5, ActsOnData

RowRecords == [of : 0..MaxSync, commit : Commits, state : Waiting \cup Finished \cup {"running"}]

\* No deployment is admitted, and none starts.
Subsides ==
    \A q \in rows' : \E r \in rows :
        /\ q.commit = r.commit
        /\ q.state \in Waiting => r.state \in Waiting
        /\ q.state = "running" => r.state = "running"

\* A deployment of c is admitted in place of those that wait.
Admits(c) ==
    /\ c.stage = "request" /\ env.commit = c.commit
    /\ \A q \in rows' :
          \/ q.commit = c.commit /\ q.state = "unsignalled"
          \/ /\ q.state \notin Waiting
             /\ \E r \in rows : q.commit = r.commit /\ (q.state = "running" => r.state = "running")

LEMMA ActsOnRows ==
  ASSUME AutomationTypeOK, NEW c \in Requests, RequestIsSound(c), NEW next, Acts(c, next)
  PROVE  /\ rows' \subseteq RowRecords
         /\ Subsides \/ (Admits(c) /\ UNCHANGED <<sync, env>>)
<1>1. /\ \A r \in rows : r \in RowRecords
      /\ c.of \in 0..MaxSync /\ c.commit \in 0..MaxCommit /\ MaxCommit \in Nat
  BY AutomationAssumption DEF AutomationTypeOK, RowRecords, Requests
<1>2. ASSUME NEW r \in RowRecords, NEW state \in Waiting \cup Finished
      PROVE  /\ WithState(r, state) \in RowRecords
             /\ WithState(r, state).commit = r.commit /\ WithState(r, state).state = state
  BY DEF RowRecords, WithState
<1>3. CASE UNCHANGED rows
  BY <1>1, <1>3 DEF Subsides
<1>4. CASE RequestsDeployment(c, next) /\ ~UNCHANGED rows
  <2>1. /\ c.stage = "request" /\ env.commit = c.commit /\ UNCHANGED <<sync, env>>
        /\ rows' = {IF r.state \in Waiting THEN WithState(r, "skipped") ELSE r : r \in rows}
                   \cup {[of |-> c.of, commit |-> c.commit, state |-> "unsignalled"]}
    BY <1>4 DEF RequestsDeployment, IsSuperseded
  <2>2. c.commit \in Commits
    BY <1>1, <2>1 DEF RequestIsSound, Deploying, Commits
  <2>3. [of |-> c.of, commit |-> c.commit, state |-> "unsignalled"] \in RowRecords
    BY <1>1, <2>2 DEF RowRecords, Waiting
  <2>4. ASSUME NEW r \in rows, NEW q, q = IF r.state \in Waiting THEN WithState(r, "skipped") ELSE r
        PROVE  /\ q \in RowRecords /\ q.commit = r.commit /\ q.state \notin Waiting
               /\ q.state = "running" => r.state = "running"
    BY <1>1, <1>2, <2>4 DEF Finished, Waiting
  <2>5. QED
    BY <2>1, <2>3, <2>4 DEF Admits
<1>5. ASSUME NEW delivered \in BOOLEAN, SignalsDeployment(c, next, delivered)
      PROVE  rows' \subseteq RowRecords /\ Subsides
  <2>1. ASSUME NEW q \in rows'
        PROVE  /\ q \in RowRecords
               /\ \E r \in rows : /\ q.commit = r.commit
                                  /\ q.state \in Waiting => r.state \in Waiting
                                  /\ q.state = "running" => r.state = "running"
    <3>1. PICK r \in rows :
             q = IF r.of # c.of \/ r.commit # c.commit THEN r
                 ELSE IF ~delivered THEN WithState(r, "failed")
                 ELSE IF r.state = "unsignalled" THEN WithState(r, "queued") ELSE r
      BY <1>5, <2>1 DEF SignalsDeployment
    <3>2. CASE q = r
      BY <1>1, <3>2
    <3>3. CASE q = WithState(r, "failed")
      BY <1>1, <1>2, <3>3 DEF Finished, Waiting
    <3>4. CASE q = WithState(r, "queued") /\ r.state = "unsignalled"
      BY <1>1, <1>2, <3>4 DEF Waiting
    <3>5. QED
      BY <3>1, <3>2, <3>3, <3>4
  <2>2. QED
    BY <2>1 DEF Subsides
<1>6. QED
  BY <1>3, <1>4, <1>5 DEF Acts, RequestActs, RequestBreaks, StartsSync, StoresRevision,
     FetchesHead, ReadsCommit, ReadsSource, ReadsEnvironment, ChoosesWorkload, Forgets, Defers


\* What it goes on with.
LEMMA ActsOnRequest ==
  ASSUME AutomationIInv, NEW c \in InPlay, NEW next, Acts(c, next), head' = head,
         UNCHANGED <<unsent, paused, since>>
  PROVE  next \in Requests /\ RequestIsSound(next)'
<1>0. /\ AutomationTypeOK /\ NewestSyncIsShown /\ CourseIsSound /\ BranchIsAhead
      /\ c \in Requests /\ RequestIsSound(c)
  BY DEF AutomationIInv, AutomationInv, InPlay, AutomationTypeOK
<1>1. /\ c.of \in 0..MaxSync /\ c.commit \in 0..MaxCommit /\ c.paused \in BOOLEAN
      /\ c.stage \in Unended \cup {"done", "thrown"}
      /\ head \in 0..MaxCommit /\ MaxCommit \in Nat
      /\ env \in [latest : 0..MaxSync, commit : 0..MaxCommit]
  BY <1>0, AutomationAssumption DEF Requests, AutomationTypeOK
<1>2. /\ \A s \in Syncs : sync[s].status # "none" => sync'[s].status # "none"
      /\ env.latest # 0 => env'.latest # 0
  BY <1>0, ActsOnData, ActsKeepsEnvironment
<1>3. c.of # 0 => c.of \in Syncs /\ sync'[c.of].status # "none" /\ c.of \notin unsent /\ head # 0
  BY <1>0, <1>1, <1>2 DEF RequestIsSound, Syncs, CourseIsSound
<1>4. ASSUME NEW stage \in {"done", "thrown"}, next = Over(stage)
      PROVE  next \in Requests /\ RequestIsSound(next)'
  BY <1>1, <1>4, AutomationAssumption DEF ControlsRead, Over, Call, Requests, Unended, Executing, Deploying,
     RequestIsSound
<1>5. ASSUME next \in Requests, next.of = c.of, next.commit <= head,
             next.stage \in Executing => c.of # 0,
             next.stage \in (Deploying \cup {"store"}) \ {"commit", "source", "environment"}
                => next.commit # 0,
             next.stage \in Deploying => env'.latest # 0,
             next.stage = "request" => ~next.paused,
             ~next.paused => \A control \in ControlsRead(next) \cap paused :
                                next.commit <= since[control]
      PROVE  RequestIsSound(next)'
  BY <1>3, <1>5 DEF RequestIsSound, ControlsRead
<1>6. ASSUME NEW stage \in Unended, next = [c EXCEPT !.stage = stage]
      PROVE  /\ next \in Requests /\ next.stage = stage
             /\ next.of = c.of /\ next.commit = c.commit /\ next.paused = c.paused
  BY <1>0, <1>6 DEF Requests
<1>7. CASE StartsSync(c, next)
  <2>1. c.of # 0 /\ c.commit <= head
    BY <1>0, <1>7 DEF StartsSync, RequestIsSound, Executing
  <2>2. CASE sync[c.of].status = "succeeded"
    <3>1. next = [c EXCEPT !.stage = "commit"]
      BY <1>7, <2>2 DEF StartsSync
    <3>2. env.latest # 0
      BY <1>0, <1>1, <1>3, <2>1, <2>2 DEF NewestSyncIsShown, Syncs
    <3>3. QED
      BY <1>2, <1>5, <1>6, <2>1, <3>1, <3>2 DEF ControlsRead, Executing, Deploying, Unended
  <2>3. CASE sync[c.of].status # "succeeded"
    <3>1. next = [c EXCEPT !.stage = "fetch"]
      BY <1>7, <2>3 DEF StartsSync
    <3>2. QED
      BY <1>5, <1>6, <2>1, <3>1 DEF ControlsRead, Executing, Deploying, Unended
  <2>4. QED
    BY <2>2, <2>3
<1>8. CASE FetchesHead(c, next)
  <2>1. /\ next \in Requests /\ next.stage = "store" /\ next.of = c.of /\ next.commit = head
        /\ c.of # 0
    BY <1>0, <1>1, <1>8 DEF FetchesHead, Requests, RequestIsSound, Executing, Unended
  <2>2. QED
    BY <1>1, <1>3, <1>5, <2>1 DEF ControlsRead, Executing, Deploying
<1>9. CASE StoresRevision(c, next)
  <2>1. c.of # 0 /\ c.commit <= head
    BY <1>0, <1>9 DEF StoresRevision, RequestIsSound, Executing
  <2>2. CASE IsStale(c)
    BY <1>4, <1>9, <2>2 DEF StoresRevision
  <2>3. CASE ~IsStale(c)
    <3>1. next = [c EXCEPT !.stage = "commit"] /\ env'.latest # 0
      BY <1>9, <2>1, <2>3 DEF StoresRevision
    <3>2. QED
      BY <1>5, <1>6, <2>1, <3>1 DEF ControlsRead, Executing, Deploying, Unended
  <2>4. QED
    BY <2>2, <2>3
<1>10. CASE ReadsCommit(c, next)
  <2>1. CASE next = Idle
    BY <1>4, <2>1 DEF Idle
  <2>2. CASE next # Idle
    <3>1. PICK commit \in {env.commit, sync[c.of].commit} :
             /\ next = [c EXCEPT !.stage = "source", !.commit = commit]
             /\ c.stage = "commit" /\ (commit = env.commit \/ c.of # 0)
      BY <1>10, <2>2 DEF ReadsCommit
    <3>2. commit <= head /\ commit \in 0..MaxCommit /\ env'.latest # 0
      BY <1>0, <1>1, <1>2, <1>3, <1>10, <3>1
         DEF ReadsCommit, RequestIsSound, BranchIsAhead, Deploying, AutomationTypeOK
    <3>3. /\ next \in Requests /\ next.stage = "source" /\ next.of = c.of
          /\ next.commit = commit
      BY <1>0, <1>1, <3>1, <3>2 DEF Requests, Unended, Deploying
    <3>4. QED
      BY <1>1, <1>5, <3>2, <3>3 DEF Executing, Deploying, ControlsRead
  <2>3. QED
    BY <2>1, <2>2
<1>15. CASE ReadsSource(c, next)
  <2>1. /\ next = [c EXCEPT !.stage = "environment", !.paused = "source" \in paused]
        /\ ("source" \in paused) \in BOOLEAN /\ c.stage = "source"
    BY <1>15 DEF ReadsSource
  <2>2. /\ next \in Requests /\ next.stage = "environment" /\ next.of = c.of
        /\ next.commit = c.commit
    BY <1>0, <1>1, <2>1 DEF Requests, Unended, Deploying
  <2>3. next.paused = ("source" \in paused)
    BY <1>0, <2>1 DEF Requests
  <2>4. ~next.paused => "source" \notin paused
    BY <2>3, Zenon
  <2>5. env'.latest # 0 /\ c.commit <= head
    BY <1>0, <1>2, <2>1 DEF RequestIsSound, Deploying
  <2>6. QED
    BY <1>5, <2>2, <2>4, <2>5 DEF Executing, Deploying, ControlsRead
<1>16. CASE ReadsEnvironment(c, next)
  <2>1. CASE next = Idle
    BY <1>4, <2>1 DEF Idle
  <2>2. CASE next # Idle
    <3>1. /\ IsAdmissible(c) /\ c.stage = "environment"
          /\ next = [c EXCEPT !.stage = "choose", !.paused = c.paused \/ "environment" \in paused]
          /\ (c.paused \/ "environment" \in paused) \in BOOLEAN
      BY <1>16, <2>2 DEF ReadsEnvironment
    <3>2. /\ next \in Requests /\ next.stage = "choose" /\ next.of = c.of
          /\ next.commit = c.commit
      BY <1>0, <1>1, <3>1 DEF Requests, Unended, Deploying
    <3>3. next.paused = (c.paused \/ "environment" \in paused)
      BY <1>0, <3>1 DEF Requests
    <3>4. ~next.paused => ~c.paused /\ "environment" \notin paused
      BY <3>3, Zenon
    <3>5. /\ env'.latest # 0 /\ c.commit <= head /\ c.commit # 0
          /\ ~c.paused /\ "source" \in paused => c.commit <= since["source"]
      <4>1. env.latest # 0 /\ c.commit = env.commit /\ env.commit # 0
        BY <1>0, <1>1, <3>1 DEF RequestIsSound, Deploying, BranchIsAhead, IsAdmissible
      <4>2. QED
        BY <1>0, <1>2, <3>1, <4>1 DEF RequestIsSound, ControlsRead
    <3>6. \A control \in ControlsRead(next) \cap paused : control \in {"source", "environment"}
      BY <3>2 DEF ControlsRead
    <3>7. QED
      BY <1>5, <3>2, <3>4, <3>5, <3>6 DEF Executing, Deploying
  <2>3. QED
    BY <2>1, <2>2
<1>11. ASSUME c.stage \in {"choose", "request", "signal"},
              \E stage \in {"forget", "defer", "request", "signal", "admitted"} :
                  /\ next = [c EXCEPT !.stage = stage]
                  /\ stage = "request" => c.stage = "choose" /\ ~c.paused
       PROVE  next \in Requests /\ RequestIsSound(next)'
  <2>1. PICK stage \in {"forget", "defer", "request", "signal", "admitted"} :
           /\ next = [c EXCEPT !.stage = stage]
           /\ stage = "request" => c.stage = "choose" /\ ~c.paused
    BY <1>11
  <2>2. /\ c.commit # 0 /\ c.commit <= head /\ env'.latest # 0
        /\ c.stage = "choose" /\ ~c.paused
             => \A control \in {"source", "environment"} \cap paused : c.commit <= since[control]
    BY <1>0, <1>2, <1>11 DEF RequestIsSound, Deploying, ControlsRead
  <2>3. /\ next \in Requests /\ next.stage = stage /\ next.of = c.of
        /\ next.commit = c.commit /\ next.paused = c.paused
    BY <1>6, <2>1 DEF Deploying, Unended
  <2>4. QED
    BY <1>5, <2>1, <2>2, <2>3 DEF Executing, Deploying, ControlsRead
<1>12. CASE Forgets(c, next) \/ Defers(c, next)
  BY <1>4, <1>12 DEF Forgets, Defers, Idle
<1>13. CASE ChoosesWorkload(c, next) \/ RequestsDeployment(c, next)
            \/ \E delivered \in BOOLEAN : SignalsDeployment(c, next, delivered)
  BY <1>4, <1>11, <1>13 DEF ChoosesWorkload, RequestsDeployment, SignalsDeployment
<1>14. QED
  BY <1>4, <1>7, <1>8, <1>9, <1>10, <1>12, <1>13, <1>15, <1>16
     DEF Acts, RequestActs, RequestBreaks

\* What it defers.
LEMMA ActsOnDeferral ==
  ASSUME AutomationIInv, NEW c \in InPlay, NEW next, Acts(c, next), head' = head
  PROVE  /\ deferred' \in 0..MaxCommit /\ heldBack' \in 0..MaxCommit
         /\ deferred' # 0 => env'.latest # 0
<1>0. /\ AutomationTypeOK /\ BranchIsAhead /\ c \in Requests /\ RequestIsSound(c)
  BY DEF AutomationIInv, AutomationInv, InPlay, AutomationTypeOK
<1>1. env.latest # 0 => env'.latest # 0
  BY ActsKeepsEnvironment
<1>2. CASE UNCHANGED <<deferred, heldBack>>
  BY <1>0, <1>1, <1>2 DEF AutomationTypeOK, BranchIsAhead
<1>3. CASE Forgets(c, next)
  BY <1>0, <1>3, AutomationAssumption DEF AutomationTypeOK, Forgets
<1>4. CASE Defers(c, next)
  BY <1>0, <1>1, <1>4 DEF Defers, RequestIsSound, BranchIsAhead, Deploying, Requests
<1>5. QED
  BY <1>2, <1>3, <1>4 DEF Acts, RequestActs, RequestBreaks, StartsSync, StoresRevision,
     FetchesHead, ReadsCommit, ReadsSource, ReadsEnvironment, ChoosesWorkload, RequestsDeployment, SignalsDeployment


\* A request stays sound while it waits for others.
LEMMA RequestsStaySound ==
  ASSUME AutomationTypeOK, AutomationTypeOK', NEW d \in Requests, RequestIsSound(d),
         \A s \in Syncs : sync[s].status # "none" => sync'[s].status # "none",
         \A s \in unsent' : s \in unsent \/ sync[s].status = "none",
         head <= head', env.latest # 0 => env'.latest # 0, PausesAreKept
  PROVE  RequestIsSound(d)'
<1>1. d.commit \in Nat /\ (d.of # 0 => d.of \in Syncs)
  BY AutomationAssumption DEF Requests, Syncs
<1>2. head \in Nat /\ head' \in Nat
  BY AutomationAssumption DEF AutomationTypeOK
<1>3. d.commit <= head /\ d.commit <= head'
  BY <1>1, <1>2 DEF RequestIsSound
<1>4. ~d.paused => \A control \in ControlsRead(d) \cap paused' : d.commit <= since'[control]
  BY <1>1, <1>2, <1>3 DEF RequestIsSound, PausesAreKept
<1>5. QED
  BY <1>1, <1>2, <1>3, <1>4 DEF RequestIsSound, ControlsRead

LEMMA CommitsAreNumbers ==
  ASSUME AutomationTypeOK, AutomationTypeOK'
  PROVE  /\ \A r \in rows : r.commit \in Nat
         /\ \A r \in rows' : r.commit \in Nat
         /\ env.commit \in Nat /\ env'.commit \in Nat /\ current \in Nat
<1>1. rows \subseteq RowRecords /\ rows' \subseteq RowRecords
  BY DEF AutomationTypeOK, RowRecords
<1>2. \A r \in RowRecords : r.commit \in Nat
  BY AutomationAssumption DEF RowRecords, Commits
<1>3. env.commit \in Nat /\ env'.commit \in Nat /\ current \in Nat
  BY AutomationAssumption DEF AutomationTypeOK
<1>4. QED
  BY <1>1, <1>2, <1>3

\* The deployments stay in order unless one is admitted, starts or ends.
LEMMA OrderStays ==
  ASSUME AutomationTypeOK, AutomationTypeOK', OrderIsKept, Subsides, UNCHANGED current,
         ReadInOrder' => ReadInOrder /\ env.commit <= env'.commit
  PROVE  OrderIsKept'
<1>1. /\ \A r \in rows : r.commit \in Nat
      /\ \A q \in rows' : q.commit \in Nat
      /\ env.commit \in Nat /\ env'.commit \in Nat /\ current \in Nat
  BY CommitsAreNumbers
<1>2. /\ \A q, r \in rows' : q.state \in Waiting /\ r.state \in Waiting => q.commit = r.commit
      /\ \A q, r \in rows' : q.state = "running" /\ r.state = "running" => q.commit = r.commit
  BY DEF OrderIsKept, Subsides
<1>3. ASSUME ReadInOrder'
      PROVE  /\ current' <= env'.commit /\ \A r \in rows' : r.commit <= env'.commit
             /\ \A r \in rows' : r.state \in Waiting \cup {"running"} => current' <= r.commit
             /\ \A q, r \in rows' :
                   q.state = "running" /\ r.state \in Waiting => q.commit <= r.commit
  <2>1. current' <= env'.commit /\ \A r \in rows' : r.commit <= env'.commit
    BY <1>1, <1>3 DEF OrderIsKept, Subsides
  <2>2. \A r \in rows' : r.state \in Waiting \cup {"running"} => current' <= r.commit
    BY <1>1, <1>3 DEF OrderIsKept, Subsides
  <2>3. \A q, r \in rows' : q.state = "running" /\ r.state \in Waiting => q.commit <= r.commit
    BY <1>1, <1>3 DEF OrderIsKept, Subsides
  <2>4. QED
    BY <2>1, <2>2, <2>3
<1>4. QED
  BY <1>2, <1>3 DEF OrderIsKept

LEMMA AdmissionKeepsOrder ==
  ASSUME AutomationTypeOK, AutomationTypeOK', OrderIsKept, NEW c \in Requests, Admits(c),
         UNCHANGED <<sync, env, current>>
  PROVE  OrderIsKept'
<1>1. /\ \A r \in rows : r.commit \in Nat
      /\ \A q \in rows' : q.commit \in Nat
      /\ env.commit \in Nat /\ current \in Nat /\ c.commit = env.commit
  BY CommitsAreNumbers DEF Admits
<1>2. \A q \in rows' :
          /\ q.state \in Waiting => q.commit = env.commit
          /\ q.commit = env.commit \/ \E r \in rows : q.commit = r.commit
          /\ q.state = "running" => \E r \in rows : q.commit = r.commit /\ r.state = "running"
  BY <1>1 DEF Admits, Waiting
<1>3. /\ \A q, r \in rows' : q.state \in Waiting /\ r.state \in Waiting => q.commit = r.commit
      /\ \A q, r \in rows' : q.state = "running" /\ r.state = "running" => q.commit = r.commit
  BY <1>2 DEF OrderIsKept
<1>4. ASSUME ReadInOrder'
      PROVE  /\ current' <= env'.commit /\ \A r \in rows' : r.commit <= env'.commit
             /\ \A r \in rows' : r.state \in Waiting \cup {"running"} => current' <= r.commit
             /\ \A q, r \in rows' :
                   q.state = "running" /\ r.state \in Waiting => q.commit <= r.commit
  <2>1. ReadInOrder
    BY <1>4 DEF ReadInOrder, Succeeded
  <2>2. current' <= env'.commit /\ \A r \in rows' : r.commit <= env'.commit
    BY <1>1, <1>2, <2>1 DEF OrderIsKept
  <2>3. \A r \in rows' : r.state \in Waiting \cup {"running"} => current' <= r.commit
    BY <1>1, <1>2, <2>1 DEF OrderIsKept
  <2>4. QED
    BY <1>2, <2>2, <2>3
<1>5. QED
  BY <1>3, <1>4 DEF OrderIsKept


LEMMA ActsKeepsIInv ==
  ASSUME AutomationIInv, NEW c \in InPlay, NEW next, Acts(c, next),
         UNCHANGED <<courseVars, controlVars, current>>, snags' \in 0..MaxSnags,
         call' \in {call, next}, sweep' \in {sweep, next}, astray' \subseteq astray \cup {next}
  PROVE  AutomationIInv'
<1>0. /\ AutomationTypeOK /\ NewestSyncIsShown /\ PauseIsRespected /\ CourseIsSound
      /\ BranchIsAhead
      /\ OrderIsKept /\ c \in Requests /\ RequestIsSound(c)
      /\ \A d \in InPlay : d \in Requests /\ RequestIsSound(d)
  BY DEF AutomationIInv, AutomationInv, InPlay, AutomationTypeOK
<1>1. /\ UNCHANGED <<head, unsent, line, turn>> /\ UNCHANGED <<paused, since, changes>>
      /\ UNCHANGED current
  BY DEF courseVars, controlVars
<1>2. /\ sync' \in [Syncs -> SyncRecords]
      /\ env' \in [latest : 0..MaxSync, commit : 0..MaxCommit]
      /\ \A s \in Syncs : sync[s].status = "none" <=> sync'[s].status = "none"
  BY <1>0, ActsOnData
<1>3. /\ NewestSyncIsShown'
      /\ (IF env.latest = 0 THEN env.commit = 0 ELSE env.commit \in 1..head)'
      /\ env.latest # 0 => env'.latest # 0
      /\ ReadInOrder' => ReadInOrder /\ env.commit <= env'.commit
  BY <1>1, ActsKeepsEnvironment
<1>4. /\ rows' \subseteq RowRecords
      /\ Subsides \/ (Admits(c) /\ UNCHANGED <<sync, env>>)
  BY <1>0, ActsOnRows
<1>5. next \in Requests /\ RequestIsSound(next)'
  BY <1>1, ActsOnRequest
<1>6. /\ deferred' \in 0..MaxCommit /\ heldBack' \in 0..MaxCommit
      /\ deferred' # 0 => env'.latest # 0
  BY <1>1, ActsOnDeferral
<1>7. call' \in Requests /\ sweep' \in Requests /\ astray' \subseteq Requests
  BY <1>0, <1>5 DEF AutomationTypeOK
<1>8. AutomationTypeOK'
  BY <1>0, <1>1, <1>2, <1>4, <1>6, <1>7 DEF AutomationTypeOK, SyncRecords, RowRecords
<1>9. \A r \in rows' : r.commit <= head /\ \A control \in paused : r.commit <= since[control]
  <2>1. CASE Subsides
    BY <1>0, <2>1 DEF Subsides, PauseIsRespected, BranchIsAhead
  <2>2. CASE Admits(c)
    <3>1. /\ c.commit <= head /\ c.stage = "request"
          /\ \A control \in paused : c.commit <= since[control]
      BY <1>0, <2>2, AutomationAssumption
         DEF RequestIsSound, Admits, ControlsRead, AutomationTypeOK
    <3>2. QED
      BY <1>0, <2>2, <3>1 DEF Admits, PauseIsRespected, BranchIsAhead
  <2>3. QED
    BY <1>4, <2>1, <2>2
<1>10. PauseIsRespected'
  BY <1>1, <1>9 DEF PauseIsRespected
<1>11. CourseIsSound'
  <2>1. \A s \in unsent : sync'[s].status = "queued"
    <3>1. \A s \in unsent : s \in Syncs /\ s # c.of
      BY <1>0, AutomationAssumption DEF AutomationTypeOK, RequestIsSound, Syncs
    <3>2. \A s \in Syncs : s # c.of => sync'[s] = sync[s]
      BY <1>0, ActsOnData
    <3>3. QED
      BY <1>0, <3>1, <3>2 DEF CourseIsSound
  <2>2. QED
    BY <1>0, <1>1, <1>2, <2>1 DEF CourseIsSound, Taken
<1>12. BranchIsAhead'
  <2>1. \A s \in Syncs : sync'[s].commit \in {sync[s].commit, c.commit}
    BY <1>0, ActsOnData
  <2>2. \A s \in Syncs : sync'[s].commit <= head
    BY <1>0, <2>1 DEF BranchIsAhead, RequestIsSound
  <2>3. QED
    BY <1>0, <1>1, <1>3, <1>6, <1>9, <2>2 DEF BranchIsAhead
<1>13. OrderIsKept'
  BY <1>0, <1>1, <1>3, <1>4, <1>8, OrderStays, AdmissionKeepsOrder
<1>14. \A d \in InPlay' : RequestIsSound(d)'
  <2>1. \A d \in InPlay : RequestIsSound(d)'
    <3>1. head <= head'
      BY <1>0, <1>1, AutomationAssumption DEF AutomationTypeOK
    <3>2. QED
      BY <1>0, <1>1, <1>2, <1>3, <1>8, <3>1, RequestsStaySound DEF PausesAreKept
  <2>2. InPlay' \subseteq InPlay \cup {next}
    BY DEF InPlay
  <2>3. QED
    BY <1>5, <2>1, <2>2
<1>15. QED
  BY <1>3, <1>8, <1>10, <1>11, <1>12, <1>13, <1>14 DEF AutomationIInv, AutomationInv


\* The steps that no request takes and that start or end no deployment.
LEMMA TheRestStays ==
  ASSUME AutomationIInv, AutomationTypeOK', UNCHANGED <<env, rows, current, deferred>>,
         \A s \in Syncs : \/ sync'[s] = sync[s]
                          \/ /\ sync[s].status # "succeeded"
                             /\ sync'[s].status \in {"queued", "failed"}
                             /\ sync'[s].commit = sync[s].commit,
         \A s \in unsent' : s \in unsent \/ sync[s].status = "none",
         head <= head', PausesAreKept,
         \A control \in Controls : since'[control] <= head'
  PROVE  /\ NewestSyncIsShown' /\ PauseIsRespected' /\ BranchIsAhead' /\ OrderIsKept'
         /\ \A d \in InPlay : RequestIsSound(d)'
<1>0. /\ AutomationTypeOK /\ NewestSyncIsShown /\ PauseIsRespected /\ CourseIsSound
      /\ BranchIsAhead /\ OrderIsKept
      /\ \A d \in InPlay : d \in Requests /\ RequestIsSound(d)
  BY DEF AutomationIInv, AutomationInv, InPlay, AutomationTypeOK
<1>1. /\ head \in Nat /\ head' \in Nat
      /\ \A control \in paused : since[control] \in Nat
      /\ \A control \in paused' : since'[control] \in Nat
      /\ env.latest \in 0..MaxSync /\ env.commit \in Nat
      /\ \A r \in rows : r.commit \in Nat
  <2>1. /\ head \in Nat /\ \A control \in paused : since[control] \in Nat
        /\ env.latest \in 0..MaxSync
    BY <1>0, AutomationAssumption DEF AutomationTypeOK
  <2>2. head' \in Nat /\ \A control \in paused' : since'[control] \in Nat
    <3>1. /\ head' \in 0..MaxCommit /\ paused' \subseteq Controls
          /\ since' \in [Controls -> 0..MaxCommit]
      BY DEF AutomationTypeOK
    <3>2. 0..MaxCommit \subseteq Nat
      BY AutomationAssumption
    <3>3. QED
      BY <3>1, <3>2
  <2>3. QED
    BY <1>0, <2>1, <2>2, CommitsAreNumbers
<1>2. /\ \A s \in Syncs : sync[s].status # "none" => sync'[s].status # "none"
      /\ \A s \in Syncs : sync[s].status = "succeeded" => sync'[s] = sync[s]
      /\ \A s \in Syncs : sync'[s].status = "succeeded" => sync'[s] = sync[s]
  OBVIOUS
<1>3. NewestSyncIsShown'
  BY <1>0, <1>1, <1>2, AutomationAssumption DEF NewestSyncIsShown, Syncs
<1>4. PauseIsRespected' /\ BranchIsAhead'
  <2>1. PauseIsRespected'
    BY <1>0, <1>1 DEF PauseIsRespected, BranchIsAhead, PausesAreKept
  <2>2. \A s \in Syncs : sync'[s].commit = sync[s].commit /\ sync[s].commit \in Nat
    <3>1. TAKE s \in Syncs
    <3>2. sync'[s].commit = sync[s].commit
      OBVIOUS
    <3>3. sync[s].commit \in 0..MaxCommit
      BY <1>0 DEF AutomationTypeOK
    <3>4. QED
      BY <3>2, <3>3, AutomationAssumption
  <2>3. \A s \in Syncs : sync'[s].commit <= head'
    BY <1>0, <1>1, <2>2 DEF BranchIsAhead
  <2>4. QED
    BY <1>0, <1>1, <2>1, <2>3 DEF BranchIsAhead
<1>5. Subsides /\ UNCHANGED <<env, current>>
  BY DEF Subsides
<1>6. ReadInOrder' => ReadInOrder
  BY <1>2 DEF ReadInOrder, Succeeded
<1>7. OrderIsKept'
  BY <1>0, <1>1, <1>5, <1>6, OrderStays
<1>8. \A d \in InPlay : RequestIsSound(d)'
  BY <1>0, <1>2, RequestsStaySound
<1>9. QED
  BY <1>3, <1>4, <1>7, <1>8

LEMMA QueueKeepsIInv ==
  ASSUME AutomationIInv, Push \/ SyncNow
  PROVE  AutomationIInv'
<1>0. /\ AutomationTypeOK /\ CourseIsSound /\ BranchIsAhead
      /\ sync \in [Syncs -> SyncRecords] /\ head \in 0..MaxCommit /\ since \in [Controls -> 0..MaxCommit]
      /\ MaxCommit \in Nat
  BY AutomationAssumption
     DEF AutomationIInv, AutomationInv, AutomationTypeOK, SyncRecords
<1>1. /\ head' \in 0..MaxCommit /\ head <= head' /\ head' # 0
      /\ UNCHANGED <<line, turn, call, sweep, astray, env, deferred, heldBack, rows, current>>
      /\ UNCHANGED <<paused, since, changes, snags>>
      /\ \E deploys \in BOOLEAN : QueueSync(deploys)
  <2>1. CASE Push
    <3>1. ("environment" \notin paused) \in BOOLEAN /\ QueueSync("environment" \notin paused)
      BY <2>1 DEF Push
    <3>2. \E deploys \in BOOLEAN : QueueSync(deploys)
      BY <3>1, Zenon
    <3>3. QED
      BY <1>0, <2>1, <3>2 DEF Push, requestVars, controlVars
  <2>2. CASE SyncNow
    <3>1. \E deploys \in BOOLEAN : QueueSync(deploys)
      BY <2>2, Zenon DEF SyncNow
    <3>2. QED
      BY <1>0, <2>2, <3>1 DEF SyncNow, requestVars, controlVars
  <2>3. QED
    BY <2>1, <2>2
<1>2. PICK deploys \in BOOLEAN, s \in Syncs :
         /\ sync[s].status = "none" /\ unsent' = unsent \cup {s}
         /\ sync' = [sync EXCEPT ![s].status = "queued", ![s].deploys = deploys]
  BY <1>1 DEF QueueSync
<1>3. sync' \in [Syncs -> SyncRecords]
  <2>1. [sync[s] EXCEPT !.status = "queued", !.deploys = deploys] \in SyncRecords
    BY <1>0 DEF SyncRecords
  <2>2. sync' = [sync EXCEPT ![s] = [sync[s] EXCEPT !.status = "queued", !.deploys = deploys]]
    BY <1>2
  <2>3. QED
    BY <1>0, <2>1, <2>2
<1>4. /\ \A t \in Syncs \ {s} : sync'[t] = sync[t]
      /\ sync'[s].status = "queued" /\ sync'[s].commit = sync[s].commit
  BY <1>0, <1>2 DEF SyncRecords
<1>5. AutomationTypeOK'
  BY <1>0, <1>1, <1>2, <1>3 DEF AutomationTypeOK, SyncRecords
<1>6. /\ NewestSyncIsShown' /\ PauseIsRespected' /\ BranchIsAhead' /\ OrderIsKept'
      /\ \A d \in InPlay : RequestIsSound(d)'
  <2>1. \A t \in Syncs : \/ sync'[t] = sync[t]
                         \/ /\ sync[t].status # "succeeded"
                            /\ sync'[t].status \in {"queued", "failed"}
                            /\ sync'[t].commit = sync[t].commit
    BY <1>2, <1>4
  <2>2. \A t \in unsent' : t \in unsent \/ sync[t].status = "none"
    BY <1>2
  <2>3. \A control \in Controls : since'[control] <= head'
    BY <1>0, <1>1 DEF BranchIsAhead
  <2>4. PausesAreKept
    BY <1>1 DEF PausesAreKept
  <2>5. UNCHANGED <<env, rows, current, deferred>>
    BY <1>1
  <2>6. QED
    BY <1>1, <1>5, <2>1, <2>2, <2>3, <2>4, <2>5, TheRestStays
<1>7. CourseIsSound'
  <2>1. \A t \in unsent' : sync'[t].status = "queued"
    BY <1>0, <1>2, <1>4 DEF CourseIsSound, AutomationTypeOK
  <2>2. \A t \in Syncs : Taken(t)' => sync'[t].status # "none" /\ t \notin unsent'
    <3>1. \A t \in Syncs : Taken(t)' <=> Taken(t)
      BY <1>1 DEF Taken
    <3>2. QED
      BY <1>0, <1>2, <1>4, <3>1 DEF CourseIsSound
  <2>3. QED
    BY <1>1, <2>1, <2>2 DEF CourseIsSound
<1>8. \A d \in InPlay' : RequestIsSound(d)'
  BY <1>1, <1>6 DEF InPlay
<1>9. QED
  BY <1>5, <1>6, <1>7, <1>8 DEF AutomationIInv, AutomationInv


LEMMA SnagsAreBounded == AutomationTypeOK /\ Snag => snags' \in 0..MaxSnags
BY AutomationAssumption DEF AutomationTypeOK, Snag

LEMMA SignalKeepsIInv ==
  ASSUME AutomationIInv, NEW s \in Syncs, SignalSync(s) \/ SignalSyncFails(s)
  PROVE  AutomationIInv'
<1>0. /\ AutomationTypeOK /\ CourseIsSound /\ BranchIsAhead
      /\ sync \in [Syncs -> SyncRecords] /\ line \in Seq(Syncs)
      /\ head \in Nat /\ since \in [Controls -> 0..MaxCommit]
  BY AutomationAssumption DEF AutomationIInv, AutomationInv, AutomationTypeOK, SyncRecords
<1>1. /\ s \in unsent /\ unsent' = unsent \ {s} /\ line' \in {line, Append(line, s)}
      /\ sync' \in {sync, [sync EXCEPT ![s].status = "failed"]}
      /\ UNCHANGED <<head, turn, call, sweep, astray, env, deferred, heldBack, rows, current>>
      /\ UNCHANGED <<paused, since, changes>> /\ snags' \in 0..MaxSnags
  <2>1. CASE SignalSync(s)
    BY <1>0, <2>1 DEF SignalSync, requestVars, dataVars, controlVars, AutomationTypeOK
  <2>2. CASE SignalSyncFails(s)
    <3>1. snags' \in 0..MaxSnags
      BY <1>0, <2>2, SnagsAreBounded DEF SignalSyncFails
    <3>2. QED
      BY <2>2, <3>1 DEF SignalSyncFails, requestVars, controlVars
  <2>3. QED
    BY <2>1, <2>2
<1>2. sync[s].status = "queued"
  BY <1>0, <1>1 DEF CourseIsSound
<1>3. /\ sync' \in [Syncs -> SyncRecords]
      /\ \A t \in Syncs : \/ sync'[t] = sync[t]
                          \/ /\ t = s /\ sync'[t].status = "failed"
                             /\ sync'[t].commit = sync[t].commit
  <2>1. 0 \in 0..MaxCommit
    BY AutomationAssumption
  <2>2. QED
    <3>1. CASE sync' = sync
      BY <1>0, <3>1
    <3>2. CASE sync' = [sync EXCEPT ![s].status = "failed"]
      <4>1. sync' \in [Syncs -> SyncRecords]
        BY <1>0, <2>1, <3>2, SyncChanges
      <4>2. /\ sync'[s].status = "failed" /\ sync'[s].commit = sync[s].commit
              /\ \A t \in Syncs \ {s} : sync'[t] = sync[t]
        BY <1>0, <3>2 DEF SyncRecords
      <4>3. QED
        BY <4>1, <4>2
    <3>3. QED
      BY <1>1, <3>1, <3>2
<1>4. AutomationTypeOK'
  <2>1. line' \in Seq(Syncs) /\ unsent' \subseteq Syncs
    <3>1. Append(line, s) \in Seq(Syncs)
      BY <1>0
    <3>2. QED
      BY <1>0, <1>1, <3>1 DEF AutomationTypeOK
  <2>2. QED
    BY <1>0, <1>1, <1>3, <2>1 DEF AutomationTypeOK, SyncRecords
<1>5. /\ NewestSyncIsShown' /\ PauseIsRespected' /\ BranchIsAhead' /\ OrderIsKept'
      /\ \A d \in InPlay : RequestIsSound(d)'
  <2>1. \A t \in Syncs : \/ sync'[t] = sync[t]
                         \/ /\ sync[t].status # "succeeded"
                            /\ sync'[t].status \in {"queued", "failed"}
                            /\ sync'[t].commit = sync[t].commit
    BY <1>2, <1>3
  <2>2. \A t \in unsent' : t \in unsent \/ sync[t].status = "none"
    BY <1>1
  <2>3. head <= head' /\ \A control \in Controls : since'[control] <= head'
    BY <1>0, <1>1 DEF BranchIsAhead
  <2>4. PausesAreKept
    BY <1>1 DEF PausesAreKept
  <2>5. UNCHANGED <<env, rows, current, deferred>>
    BY <1>1
  <2>6. QED
    BY <1>4, <2>1, <2>2, <2>3, <2>4, <2>5, TheRestStays
<1>6. CourseIsSound'
  <2>1. \A t \in Syncs : Taken(t)' => Taken(t) \/ t = s
    BY <1>0, <1>1 DEF Taken
  <2>2. \A t \in Syncs : Taken(t)' => sync'[t].status # "none" /\ t \notin unsent'
    BY <1>0, <1>1, <1>2, <1>3, <2>1 DEF CourseIsSound
  <2>3. \A t \in unsent' : sync'[t].status = "queued"
    BY <1>0, <1>1, <1>3 DEF CourseIsSound, AutomationTypeOK
  <2>4. \A t \in Syncs : sync'[t].status # "none" => head' # 0
    BY <1>0, <1>1, <1>2, <1>3 DEF CourseIsSound
  <2>5. QED
    BY <2>2, <2>3, <2>4 DEF CourseIsSound
<1>7. \A d \in InPlay' : RequestIsSound(d)'
  BY <1>1, <1>5 DEF InPlay
<1>8. QED
  BY <1>4, <1>5, <1>6, <1>7 DEF AutomationIInv, AutomationInv

\* A request begins, is over, or is no longer waited for; the controls may change.
LEMMA RequestsBegin ==
  ASSUME AutomationIInv, NEW new \in Requests, RequestIsSound(new),
         UNCHANGED <<head, unsent, sync, env, deferred, heldBack, rows, current>>,
         call' \in {call, new}, sweep' \in {sweep, new},
         astray' \subseteq InPlay \cup {new},
         line' \in Seq(Syncs), turn' \in [of : 0..MaxSync, tries : 0..SyncTries],
         \A s \in Syncs : Taken(s)' => Taken(s),
         paused' \subseteq Controls, since' \in [Controls -> 0..MaxCommit],
         changes' \in 0..MaxPauses, snags' \in 0..MaxSnags,
         \A control \in Controls : since'[control] <= head, PausesAreKept
  PROVE  AutomationIInv'
<1>0. AutomationTypeOK /\ CourseIsSound /\ head \in Nat
  BY AutomationAssumption DEF AutomationIInv, AutomationInv, AutomationTypeOK
<1>1. AutomationTypeOK'
  BY <1>0 DEF AutomationTypeOK, InPlay
<1>2. /\ NewestSyncIsShown' /\ PauseIsRespected' /\ BranchIsAhead' /\ OrderIsKept'
      /\ \A d \in InPlay : RequestIsSound(d)'
  <2>1. head <= head' /\ \A control \in Controls : since'[control] <= head'
    BY <1>0
  <2>2. QED
    BY <1>1, <2>1, TheRestStays
<1>3. CourseIsSound'
  BY <1>0 DEF CourseIsSound
<1>4. RequestIsSound(new)'
  BY <1>0, <1>1, RequestsStaySound
<1>5. \A d \in InPlay' : RequestIsSound(d)'
  BY <1>2, <1>4 DEF InPlay
<1>6. QED
  BY <1>1, <1>2, <1>3, <1>5 DEF AutomationIInv, AutomationInv


\* What the sweep and an environment that resumes begin with.
LEMMA LatestIsSound ==
  ASSUME AutomationIInv, env.latest # 0
  PROVE  Latest \in Requests /\ RequestIsSound(Latest)
<1>1. head \in Nat
  BY AutomationAssumption DEF AutomationIInv, AutomationInv, AutomationTypeOK
<1>2. Latest = [of |-> 0, stage |-> "commit", commit |-> 0, paused |-> FALSE]
  BY DEF Latest, Call
<1>3. Latest \in Requests
  BY <1>1, <1>2, AutomationAssumption DEF Requests, Deploying, Unended
<1>4. RequestIsSound(Latest)
  BY <1>1, <1>2 DEF ControlsRead, RequestIsSound, Executing, Deploying
<1>5. QED
  BY <1>3, <1>4

\* What an attempt begins with.
LEMMA AttemptIsSound ==
  ASSUME AutomationIInv, NEW s \in Syncs, Taken(s)
  PROVE  Call(s, "execute", 0) \in Requests /\ RequestIsSound(Call(s, "execute", 0))
<1>1. /\ head \in Nat /\ s \in 0..MaxSync /\ s # 0
      /\ sync[s].status # "none" /\ s \notin unsent
  BY AutomationAssumption
     DEF AutomationIInv, AutomationInv, AutomationTypeOK, CourseIsSound, Syncs
<1>2. Call(s, "execute", 0) = [of |-> s, stage |-> "execute", commit |-> 0, paused |-> FALSE]
  BY DEF Call
<1>3. Call(s, "execute", 0) \in Requests
  <2>1. 0 \in 0..MaxCommit /\ "execute" \in Unended \cup {"done", "thrown"}
    BY AutomationAssumption DEF Executing, Unended
  <2>2. [of |-> s, stage |-> "execute", commit |-> 0, paused |-> FALSE] \in Requests
    BY <1>1, <2>1 DEF Requests
  <2>3. QED
    BY <1>2, <2>2
<1>4. RequestIsSound(Call(s, "execute", 0))
  BY <1>1, <1>2 DEF ControlsRead, RequestIsSound, Deploying
<1>5. QED
  BY <1>3, <1>4

LEMMA BeginningKeepsIInv ==
  ASSUME AutomationIInv,
         \/ TakeSync \/ TurnGoesOn \/ SweepStarts \/ CallIsGivenUp \/ SweepIsGivenUp
         \/ \E control \in Controls : ChangeControl(control)
  PROVE  AutomationIInv'
<1>0. /\ AutomationTypeOK /\ BranchIsAhead
      /\ line \in Seq(Syncs) /\ turn \in [of : 0..MaxSync, tries : 0..SyncTries]
      /\ head \in 0..MaxCommit /\ since \in [Controls -> 0..MaxCommit] /\ paused \subseteq Controls
      /\ changes \in 0..MaxPauses /\ snags \in 0..MaxSnags
      /\ \A control \in Controls : since[control] <= head
      /\ MaxSync \in Nat /\ SyncTries \in Nat \ {0} /\ MaxCommit \in Nat /\ MaxPauses \in Nat
  BY AutomationAssumption DEF AutomationIInv, AutomationInv, AutomationTypeOK, BranchIsAhead
<1>1. ASSUME NEW stage \in {"done", "thrown"}
      PROVE  Over(stage) \in Requests /\ RequestIsSound(Over(stage))
  BY <1>0, OverIsSound
<1>2. CASE TakeSync
  <2>1. /\ line # <<>> /\ turn.of = 0 /\ turn' = [of |-> Head(line), tries |-> 1]
        /\ line' = Tail(line) /\ call' = Call(Head(line), "execute", 0)
        /\ UNCHANGED <<head, unsent, sweep, astray, sync, env, deferred, heldBack, rows>>
        /\ UNCHANGED <<current, paused, since, changes, snags>>
    BY <1>2 DEF TakeSync, dataVars, controlVars
  <2>2. /\ Head(line) \in Syncs /\ Taken(Head(line)) /\ Tail(line) \in Seq(Syncs)
        /\ \A i \in 1..Len(Tail(line)) : Tail(line)[i] = line[i + 1] /\ i + 1 \in 1..Len(line)
        /\ 1 \in 1..Len(line) /\ Head(line) = line[1]
    BY <1>0, <2>1 DEF Taken
  <2>3. PICK new \in Requests : new = call' /\ RequestIsSound(new)
    BY <2>1, <2>2, AttemptIsSound
  <2>4. \A s \in Syncs : Taken(s)' => Taken(s)
    BY <2>1, <2>2 DEF Taken
  <2>5. line' \in Seq(Syncs) /\ turn' \in [of : 0..MaxSync, tries : 0..SyncTries]
    BY <1>0, <2>1, <2>2 DEF Syncs
  <2>6. QED
    BY <1>0, <2>1, <2>3, <2>4, <2>5, RequestsBegin DEF PausesAreKept, InPlay
<1>3. CASE TurnGoesOn
  <2>1. /\ turn.of # 0
        /\ UNCHANGED <<head, unsent, line, sweep, astray, sync, env, deferred, heldBack, rows>>
        /\ UNCHANGED <<current, paused, since, changes, snags>>
    BY <1>3 DEF TurnGoesOn, dataVars, controlVars
  <2>2. \/ /\ turn.tries < SyncTries /\ turn' = [turn EXCEPT !.tries = @ + 1]
           /\ call' = Call(turn.of, "execute", 0)
        \/ turn' = [of |-> 0, tries |-> 0] /\ call' = Idle
    BY <1>3 DEF TurnGoesOn
  <2>3. turn.of \in Syncs /\ Taken(turn.of)
    BY <1>0, <2>1 DEF Syncs, Taken
  <2>4. PICK new \in Requests : new = call' /\ RequestIsSound(new)
    BY <1>1, <2>2, <2>3, AttemptIsSound DEF Idle
  <2>5. turn' \in [of : 0..MaxSync, tries : 0..SyncTries] /\ turn'.of \in {0, turn.of}
    BY <1>0, <2>2
  <2>6. \A s \in Syncs : Taken(s)' => Taken(s)
    BY <1>0, <2>1, <2>5 DEF Taken, Syncs
  <2>7. QED
    BY <1>0, <2>1, <2>4, <2>5, <2>6, RequestsBegin DEF PausesAreKept, InPlay
<1>4. CASE SweepStarts
  <2>1. /\ deferred # 0 /\ sweep' = Latest
        /\ UNCHANGED <<head, unsent, line, turn, call, astray, sync, env, deferred, heldBack>>
        /\ UNCHANGED <<rows, current, paused, since, changes, snags>>
    BY <1>4 DEF SweepStarts, courseVars, dataVars, controlVars
  <2>2. PICK new \in Requests : new = sweep' /\ RequestIsSound(new)
    BY <1>0, <2>1, LatestIsSound DEF BranchIsAhead
  <2>3. \A s \in Syncs : Taken(s)' => Taken(s)
    BY <2>1 DEF Taken
  <2>4. QED
    BY <1>0, <2>1, <2>2, <2>3, RequestsBegin DEF PausesAreKept, InPlay
<1>5. CASE CallIsGivenUp
  <2>1. /\ astray' = astray \cup {call} /\ call' = Over("thrown") /\ snags' \in 0..MaxSnags
        /\ UNCHANGED <<head, unsent, line, turn, sweep, sync, env, deferred, heldBack>>
        /\ UNCHANGED <<rows, current, paused, since, changes>>
    BY <1>0, <1>5, SnagsAreBounded DEF CallIsGivenUp, courseVars, dataVars, controlVars
  <2>2. PICK new \in Requests : new = call' /\ RequestIsSound(new)
    BY <1>1, <2>1
  <2>3. \A s \in Syncs : Taken(s)' => Taken(s)
    BY <2>1 DEF Taken
  <2>4. QED
    BY <1>0, <2>1, <2>2, <2>3, RequestsBegin DEF PausesAreKept, InPlay
<1>6. CASE SweepIsGivenUp
  <2>1. /\ astray' = astray \cup {sweep} /\ sweep' = Over("done") /\ snags' \in 0..MaxSnags
        /\ UNCHANGED <<head, unsent, line, turn, call, sync, env, deferred, heldBack>>
        /\ UNCHANGED <<rows, current, paused, since, changes>>
    BY <1>0, <1>6, SnagsAreBounded DEF SweepIsGivenUp, courseVars, dataVars, controlVars, Idle
  <2>2. PICK new \in Requests : new = sweep' /\ RequestIsSound(new)
    BY <1>1, <2>1
  <2>3. \A s \in Syncs : Taken(s)' => Taken(s)
    BY <2>1 DEF Taken
  <2>4. QED
    BY <1>0, <2>1, <2>2, <2>3, RequestsBegin DEF PausesAreKept, InPlay
<1>7. ASSUME NEW control \in Controls, ChangeControl(control)
      PROVE  AutomationIInv'
  <2>1. /\ changes' \in 0..MaxPauses
        /\ UNCHANGED <<head, unsent, line, turn, call, sweep, sync, env, deferred, heldBack>>
        /\ UNCHANGED <<rows, current, snags>>
    BY <1>0, <1>7 DEF ChangeControl, courseVars, dataVars
  <2>2. /\ paused' \subseteq Controls /\ since' \in [Controls -> 0..MaxCommit]
        /\ \A x \in Controls : since'[x] <= head
        /\ PausesAreKept
    <3>1. CASE control \in paused
      <4>1. paused' = paused \ {control} /\ since' = [since EXCEPT ![control] = 0]
        BY <1>7, <3>1 DEF ChangeControl
      <4>2. QED
        BY <1>0, <4>1 DEF PausesAreKept
    <3>2. CASE control \notin paused
      <4>1. paused' = paused \cup {control} /\ since' = [since EXCEPT ![control] = head]
        BY <1>7, <3>2 DEF ChangeControl
      <4>2. QED
        BY <1>0, <1>7, <4>1 DEF PausesAreKept
    <3>3. QED
      BY <3>1, <3>2
  <2>3. astray' = astray \/ (env.latest # 0 /\ astray' = astray \cup {Latest})
    BY <1>7 DEF ChangeControl
  <2>4. PICK new \in Requests : astray' \subseteq astray \cup {new} /\ RequestIsSound(new)
    BY <1>1, <2>3, LatestIsSound
  <2>5. \A s \in Syncs : Taken(s)' => Taken(s)
    BY <2>1 DEF Taken
  <2>6. QED
    BY <1>0, <2>1, <2>2, <2>4, <2>5, RequestsBegin DEF InPlay
<1>8. QED
  BY <1>2, <1>3, <1>4, <1>5, <1>6, <1>7


LEMMA GoingOnKeepsIInv ==
  ASSUME AutomationIInv,
         \/ CallGoesOn \/ CallBreaks \/ SweepGoesOn \/ SweepBreaks
         \/ \E c \in astray : AstrayGoesOn(c)
  PROVE  AutomationIInv'
<1>0. AutomationTypeOK /\ snags \in 0..MaxSnags
  BY DEF AutomationIInv, AutomationInv, AutomationTypeOK
<1>1. ASSUME NEW c, NEW next, RequestBreaks(c, next) PROVE snags' \in 0..MaxSnags
  BY <1>0, <1>1, SnagsAreBounded DEF RequestBreaks
<1>2. CASE CallGoesOn \/ CallBreaks
  <2>1. call \in InPlay
    BY DEF InPlay
  <2>2. /\ Acts(call, call') /\ snags' \in 0..MaxSnags
        /\ UNCHANGED <<courseVars, controlVars, current>> /\ UNCHANGED <<sweep, astray>>
    BY <1>0, <1>1, <1>2 DEF CallGoesOn, CallBreaks, Acts
  <2>3. QED
    BY <2>1, <2>2, ActsKeepsIInv
<1>3. CASE SweepGoesOn \/ SweepBreaks
  <2>1. sweep \in InPlay
    BY DEF InPlay
  <2>2. /\ Acts(sweep, sweep') /\ snags' \in 0..MaxSnags
        /\ UNCHANGED <<courseVars, controlVars, current>> /\ UNCHANGED <<call, astray>>
    BY <1>0, <1>1, <1>3 DEF SweepGoesOn, SweepBreaks, Acts
  <2>3. QED
    BY <2>1, <2>2, ActsKeepsIInv
<1>4. ASSUME NEW c \in astray, AstrayGoesOn(c)
      PROVE  AutomationIInv'
  <2>1. PICK next : /\ \/ RequestActs(c, next) /\ UNCHANGED snags
                       \/ RequestBreaks(c, next)
                    /\ astray' \subseteq astray \cup {next}
    BY <1>4 DEF AstrayGoesOn
  <2>2. /\ Acts(c, next) /\ snags' \in 0..MaxSnags /\ c \in InPlay
        /\ UNCHANGED <<courseVars, controlVars, current>> /\ UNCHANGED <<call, sweep>>
    BY <1>0, <1>1, <1>4, <2>1 DEF AstrayGoesOn, Acts, InPlay
  <2>3. QED
    BY <2>1, <2>2, ActsKeepsIInv
<1>5. QED
  BY <1>2, <1>3, <1>4

\* A deployment moves on: at most one runs, and it is not newer than the one that waits.
LEMMA DeploymentKeepsIInv ==
  ASSUME AutomationIInv, DeploymentStarts \/ DeploymentEnds \/ DeploymentFails
  PROVE  AutomationIInv'
<1>0. /\ AutomationTypeOK /\ NewestSyncIsShown /\ PauseIsRespected /\ CourseIsSound
      /\ BranchIsAhead /\ OrderIsKept /\ snags \in 0..MaxSnags
      /\ \A d \in InPlay : d \in Requests /\ RequestIsSound(d)
      /\ \A r \in rows : r \in RowRecords
  BY DEF AutomationIInv, AutomationInv, InPlay, AutomationTypeOK, RowRecords
<1>1. /\ UNCHANGED <<head, unsent, line, turn, call, sweep, astray, sync, env, deferred, heldBack>>
      /\ UNCHANGED <<paused, since, changes>> /\ snags' \in 0..MaxSnags
  <2>1. CASE DeploymentFails
    BY <1>0, <2>1, SnagsAreBounded DEF DeploymentFails, courseVars, requestVars, controlVars
  <2>2. CASE DeploymentStarts \/ DeploymentEnds
    BY <1>0, <2>2 DEF DeploymentStarts, DeploymentEnds, courseVars, requestVars, controlVars
  <2>3. QED
    BY <2>1, <2>2
<1>moved. PICK r \in rows : \E q :
         /\ rows' = (rows \ {r}) \cup {q}
         /\ \/ /\ DeploymentStarts /\ r.state = "queued" /\ q = WithState(r, "running")
               /\ \A p \in rows : p.state # "running"
            \/ /\ DeploymentEnds /\ r.state = "running" /\ q = WithState(r, "succeeded")
               /\ current' = r.commit
            \/ DeploymentFails /\ r.state = "running" /\ q = WithState(r, "failed")
  BY DEF DeploymentStarts, DeploymentEnds, DeploymentFails, Become
<1>2. PICK q :
         /\ rows' = (rows \ {r}) \cup {q}
         /\ \/ /\ DeploymentStarts /\ r.state = "queued" /\ q = WithState(r, "running")
               /\ \A p \in rows : p.state # "running"
            \/ /\ DeploymentEnds /\ r.state = "running" /\ q = WithState(r, "succeeded")
               /\ current' = r.commit
            \/ DeploymentFails /\ r.state = "running" /\ q = WithState(r, "failed")
  BY <1>moved
<1>3. /\ q \in RowRecords /\ q.commit = r.commit /\ r.commit \in Commits
      /\ q.state \in {"running", "succeeded", "failed"}
      /\ q.state = "running" => DeploymentStarts
  BY <1>0, <1>2 DEF WithState, RowRecords, Waiting, Finished
<1>4. /\ current' \in {current, r.commit} /\ (~DeploymentEnds => UNCHANGED current)
      /\ \A p \in rows' : p \in rows \/ p = q
  BY <1>2 DEF DeploymentStarts, DeploymentFails
<1>5. AutomationTypeOK'
  <2>1. rows' \subseteq RowRecords
    BY <1>0, <1>3, <1>4
  <2>2. current' \in 0..MaxCommit
    BY <1>0, <1>3, <1>4, AutomationAssumption DEF AutomationTypeOK, Commits
  <2>3. QED
    BY <1>0, <1>1, <2>1, <2>2 DEF AutomationTypeOK, RowRecords
<1>6. NewestSyncIsShown' /\ CourseIsSound'
  BY <1>0, <1>1 DEF NewestSyncIsShown, CourseIsSound, Taken
<1>7. PauseIsRespected' /\ BranchIsAhead'
  BY <1>0, <1>1, <1>3, <1>4 DEF PauseIsRespected, BranchIsAhead
<1>8. /\ \A p \in rows : p.commit \in Nat
      /\ env.commit \in Nat /\ current \in Nat /\ r.commit \in Nat
  BY <1>0, <1>5, CommitsAreNumbers
<1>9. OrderIsKept'
  <2>1. ReadInOrder' => ReadInOrder
    BY <1>1 DEF ReadInOrder, Succeeded
  <2>2. CASE DeploymentStarts
    <3>1. /\ \A p \in rows : p.state # "running"
          /\ r.state \in Waiting /\ q.state = "running"
      BY <1>0, <1>2, <2>2 DEF Waiting, WithState, RowRecords, DeploymentStarts, DeploymentEnds,
         DeploymentFails
    <3>2. /\ \A p \in rows' : p.state \in Waiting => p \in rows
          /\ \A p \in rows' : p.state = "running" => p = q
      BY <1>4, <3>1 DEF Waiting
    <3>3. QED
      BY <1>0, <1>1, <1>3, <1>4, <1>8, <2>1, <3>1, <3>2 DEF OrderIsKept
  <2>3. CASE ~DeploymentStarts
    <3>1. r.state = "running" /\ q.state \in {"succeeded", "failed"}
      BY <1>2, <1>3, <2>3
    <3>2. Subsides
      BY <1>3, <1>4, <3>1 DEF Subsides, Waiting
    <3>3. \A p \in rows' : p.state \in Waiting \cup {"running"} => p \in rows
      BY <1>4, <3>1 DEF Waiting
    <3>4. CASE UNCHANGED current
      BY <1>0, <1>1, <1>5, <1>8, <2>1, <3>2, <3>4, OrderStays
    <3>5. CASE current' = r.commit
      BY <1>0, <1>1, <1>3, <1>4, <1>8, <2>1, <3>1, <3>3, <3>5 DEF OrderIsKept
    <3>6. QED
      BY <1>4, <3>4, <3>5
  <2>4. QED
    BY <2>2, <2>3
<1>10. \A d \in InPlay : RequestIsSound(d)'
  BY <1>0, <1>1 DEF RequestIsSound
<1>11. \A d \in InPlay' : RequestIsSound(d)'
  BY <1>1, <1>10 DEF InPlay
<1>12. QED
  BY <1>5, <1>6, <1>7, <1>9, <1>11 DEF AutomationIInv, AutomationInv

LEMMA InitHasIInv == AutomationInit => AutomationIInv
<1> SUFFICES ASSUME AutomationInit PROVE AutomationIInv
  OBVIOUS
<1>1. AutomationTypeOK
  BY AutomationAssumption DEF AutomationInit, AutomationTypeOK, Idle, Over, Call, Requests
<1>2. Idle \in Requests /\ RequestIsSound(Idle)
  BY <1>1, OverIsSound DEF Idle
<1>3. \A c \in InPlay : RequestIsSound(c)
  BY <1>2 DEF AutomationInit, InPlay
<1>4. \A s \in Syncs : sync[s].status = "none" /\ ~Taken(s)
  BY DEF AutomationInit, Taken, Syncs
<1>5. NewestSyncIsShown /\ PauseIsRespected /\ CourseIsSound /\ BranchIsAhead
  BY <1>4 DEF AutomationInit, NewestSyncIsShown, PauseIsRespected, CourseIsSound, BranchIsAhead
<1>6. OrderIsKept
  BY DEF AutomationInit, OrderIsKept
<1>7. QED
  BY <1>1, <1>3, <1>5, <1>6 DEF AutomationIInv, AutomationInv

LEMMA NextKeepsIInv == AutomationIInv /\ [AutomationNext]_automationVars => AutomationIInv'
<1> SUFFICES ASSUME AutomationIInv, [AutomationNext]_automationVars PROVE AutomationIInv'
  OBVIOUS
<1>1. CASE UNCHANGED automationVars
  BY <1>1 DEF automationVars, courseVars, requestVars, dataVars, controlVars, AutomationIInv,
     AutomationInv, AutomationTypeOK, NewestSyncIsShown, PauseIsRespected, CourseIsSound, Taken,
     BranchIsAhead, OrderIsKept, ReadInOrder, Succeeded, InPlay, RequestIsSound
<1>2. CASE AutomationNext
  BY <1>2, QueueKeepsIInv, SignalKeepsIInv, BeginningKeepsIInv, GoingOnKeepsIInv,
     DeploymentKeepsIInv
     DEF AutomationNext, SourceCoordinatorSteps, SweepSteps, DeploymentSteps
<1>3. QED
  BY <1>1, <1>2

\* What AutomationInv rests on holds at every moment.
THEOREM AutomationInvariant == AutomationSpec => []AutomationIInv
<1>1. QED
  BY InitHasIInv, NextKeepsIInv, PTL DEF AutomationSpec

\* The environment shows the newest synchronisation that succeeded, and what is pushed
\* while a control is set is not deployed before it is reset (executeEnvironmentSync,
\* scheduleEligibleAutomaticDeployments).
THEOREM AutomationHolds == AutomationSpec => []AutomationInv
<1>1. AutomationIInv => AutomationInv
  BY DEF AutomationIInv
<1>2. QED
  BY <1>1, AutomationInvariant, PTL

\* An automatic deployment does not replace a newer commit by an older one, as long as the
\* synchronisations read the branch in order (requestAppDeployment).
THEOREM DeploysForward == AutomationSpec => NeverDeploysBack
<1>1. AutomationIInv /\ [AutomationNext]_automationVars
         => [ReadInOrder => current' >= current]_automationVars
  <2> SUFFICES ASSUME AutomationIInv, [AutomationNext]_automationVars, ReadInOrder
               PROVE  current' >= current
    BY DEF automationVars
  <2>1. /\ \A r \in rows : r.state = "running" => r.commit >= current
        /\ current \in Nat /\ \A r \in rows : r.commit \in Nat
    <3>1. current \in Nat /\ \A r \in rows : r.commit \in Commits
      BY AutomationAssumption DEF AutomationIInv, AutomationInv, AutomationTypeOK
    <3>2. QED
      BY <3>1, AutomationAssumption DEF AutomationIInv, OrderIsKept, Commits
  <2>2. CASE DeploymentEnds
    BY <2>1, <2>2 DEF DeploymentEnds
  <2>3. CASE UNCHANGED current
    BY <2>1, <2>3
  <2>4. ASSUME ~UNCHANGED current PROVE DeploymentEnds
    BY <2>4 DEF AutomationNext, Push, SyncNow, SignalSync, SignalSyncFails, ChangeControl,
       SourceCoordinatorSteps, TakeSync, TurnGoesOn, CallGoesOn, SweepSteps, SweepStarts,
       SweepGoesOn, DeploymentSteps, DeploymentStarts, CallBreaks, SweepBreaks, CallIsGivenUp,
       SweepIsGivenUp, DeploymentFails, AstrayGoesOn, automationVars
  <2>5. QED
    BY <2>2, <2>3, <2>4
<1>2. QED
  BY <1>1, AutomationInvariant, PTL DEF AutomationSpec, NeverDeploysBack

=============================================================================
