----------------------------- MODULE StratumPool -----------------------------
(***************************************************************************)
(* The flow of work through the pool: class.StratumPool.js drives the job  *)
(* manager from block templates it asks the daemon for, on behalf of the   *)
(* poller (class.BlockPoller.js), of the broadcast timer                   *)
(* (class.JobBroadcastTimer.js), of a submitted block and of start(), and  *)
(* class.StratumServer.js sends the job to every connected client          *)
(* (class.StratumClient.js, sendMiningJob).                                *)
(*                                                                         *)
(* Each action is one turn of the event loop.  The daemon answers a        *)
(* request with the template of the moment it looks at it; answers arrive  *)
(* in any order, late, or never.                                           *)
(***************************************************************************)
EXTENDS JobManager, FiniteSets

CONSTANTS Client,  \* connections
          Call     \* getblocktemplate requests that may be under way at once

VARIABLES
    tip,    \* daemon: the block new blocks are built on
    rpc,    \* rpc[k]: a getblocktemplate request, for whom, and its answer
    phase,  \* how far start() has come
    timer,  \* JobBroadcastTimer: a timeout is set
    isStopped, \* StratumServer: var isStopped
    fault,  \* the exception nobody caught, which ended the process
    conn,   \* conn[c]: the connection and its place in clientMap
    idle,   \* idle[c]: no share for longer than connectionTimeout
    work    \* work[c]: the jobs the miner was told and not told to drop

netVars  == <<conn, idle, work>>
poolVars == <<jobVars, tip, rpc, phase, timer, isStopped, fault, netVars>>

Block == {t.prev : t \in Template}
HeightOn(b) == (CHOOSE t \in Template : t.prev = b).height

\* "plain" is a request whose answer only updates the job manager, "refresh"
\* one whose answer is broadcast in any case, "poll" one whose answer is
\* dropped unless it is for another block.
Request == [kind : {"plain", "refresh", "poll"}, reply : Template \cup {NoJob}]
NoCall  == [kind |-> "none", reply |-> NoJob]

Live(c) == conn[c] \in {"open", "authorized"}
Running == fault = "none"

-----------------------------------------------------------------------------

PoolInit ==
    /\ JobInit
    /\ tip \in Block
    /\ rpc = [k \in Call |-> NoCall]
    /\ phase = "off"
    /\ timer = FALSE
    /\ isStopped = FALSE
    /\ fault = "none"
    /\ conn = [c \in Client |-> "off"]
    /\ idle = [c \in Client |-> FALSE]
    /\ work = [c \in Client |-> {}]

\* _getBlockTemplate: the request leaves in a free slot.
GetBlockTemplate(kind) ==
    \E k \in Call :
        /\ rpc[k] = NoCall
        /\ rpc' = [rpc EXCEPT ![k] = [kind |-> kind, reply |-> NoJob]]

\* Bound of the model: requests that may add a job to the block being mined
\* are held back while as many are under way or valid as there are ids.
IdsLeft ==
    Cardinality(ValidJobs)
      + Cardinality({k \in Call : rpc[k].kind \in {"plain", "refresh"}})
    < IdLimit - 1

-----------------------------------------------------------------------------
\* start() and stop().

\* The end of start()'s waterfall, once the daemon has answered getinfo and
\* validateaddress: job manager, first template and server, in one turn.
\* The server's constructor sets the broadcast timer.
StartServer ==
    /\ Running /\ phase = "off"
    /\ GetBlockTemplate("plain")
    /\ timer' = TRUE
    /\ phase' = "listening"
    /\ UNCHANGED <<jobVars, tip, isStopped, fault, netVars>>

\* The server's EVENT_STARTED completes start(): the poller is set.
Started ==
    /\ Running /\ phase = "listening"
    /\ phase' = "started"
    /\ UNCHANGED <<jobVars, tip, rpc, timer, isStopped, fault, netVars>>

\* StratumPool.stop through StratumServer.stop.  The net.Server is held by
\* a const of _init that hides the variable stop() closes, so that a
\* TypeError leaves stop() before any client is disconnected; it ends the
\* process unless the caller of stop() catches it.  The poller has no handle
\* in the pool (blockPollingIntervalHandle is never set) and goes on.
Stop ==
    /\ Running /\ phase = "started" /\ ~isStopped
    /\ isStopped' = TRUE
    /\ timer' = FALSE
    /\ fault' \in {"none", "stop"}
    /\ UNCHANGED <<jobVars, tip, rpc, phase, netVars>>

-----------------------------------------------------------------------------
\* Who asks for a template.

\* BlockPoller._poll, through updateBlockTemplate.
Poll ==
    /\ Running /\ phase = "started"
    /\ GetBlockTemplate("poll")
    /\ UNCHANGED <<jobVars, tip, phase, timer, isStopped, fault, netVars>>

\* JobBroadcastTimer._broadcast, through updateJob: the timer sets itself.
BroadcastTimeout ==
    /\ Running /\ timer
    /\ IdsLeft
    /\ GetBlockTemplate("refresh")
    /\ UNCHANGED <<jobVars, tip, phase, timer, isStopped, fault, netVars>>

\* submitShare, after submitblock and getblock were answered for a block.
BlockSubmitted ==
    /\ Running /\ currentJob # NoJob
    /\ IdsLeft
    /\ GetBlockTemplate("plain")
    /\ UNCHANGED <<jobVars, tip, phase, timer, isStopped, fault, netVars>>

-----------------------------------------------------------------------------
\* Sending work.

\* StratumClient.sendMiningJob to the clients in cs: an idle one is
\* disconnected instead, a socket that is destroyed already takes nothing.
SendMiningJob(cs, job, isNewBlock) ==
    /\ conn' = [c \in Client |->
                  IF c \in cs /\ Live(c) /\ idle[c] THEN "destroyed" ELSE conn[c]]
    /\ work' = [c \in Client |->
                  IF c \in cs /\ Live(c) /\ ~idle[c]
                  THEN IF isNewBlock THEN {job} ELSE work[c] \cup {job}
                  ELSE work[c]]

\* StratumServer.broadcastMiningJobs, through StratumPool.broadcastMiningJobs.
BroadcastMiningJobs(job, isNewBlock) ==
    /\ SendMiningJob(Client, job, isNewBlock)
    /\ timer' = TRUE

\* Seeded bugs: clean_jobs is not set for a new block; it is set always.
UpdateBlockTemplateUnclean(t, updateJob) ==
    /\ ProcessTemplate(t)
    /\ \/ (NewWork(t) \/ updateJob) /\ BroadcastMiningJobs(currentJob', FALSE)
       \/ ~NewWork(t) /\ ~updateJob /\ UNCHANGED <<timer, conn, work>>

UpdateBlockTemplateClean(t, updateJob) ==
    /\ ProcessTemplate(t)
    /\ \/ (NewWork(t) \/ updateJob) /\ BroadcastMiningJobs(currentJob', TRUE)
       \/ ~NewWork(t) /\ ~updateJob /\ UNCHANGED <<timer, conn, work>>

\* _updateBlockTemplate.
UpdateBlockTemplate(t, updateJob) ==
    /\ ProcessTemplate(t)
    /\ \/ NewWork(t) /\ BroadcastMiningJobs(currentJob', TRUE)
       \/ ~NewWork(t) /\ updateJob /\ BroadcastMiningJobs(currentJob', FALSE)
       \/ ~NewWork(t) /\ ~updateJob /\ UNCHANGED <<timer, conn, work>>

\* The callbacks given to _getBlockTemplate.
OnTemplate(kind, t) ==
    IF kind = "poll" /\ ~IsNewBlock(t)
    THEN UNCHANGED <<jobVars, timer, conn, work>>
    ELSE UpdateBlockTemplate(t, kind = "refresh")

\* Bound of the model: a job of the block being mined does not lose its id.
KeepsIds(t) == IsNewBlock(t) \/ validJobs[NextId] = NoJob

-----------------------------------------------------------------------------
\* The daemon and the way to it.

\* The chain moves to another block, never to a lower one.
TipMoves ==
    /\ \E b \in Block \ {tip} : HeightOn(b) >= HeightOn(tip) /\ tip' = b
    /\ UNCHANGED <<jobVars, rpc, phase, timer, isStopped, fault, netVars>>

Answer(k) ==
    /\ rpc[k] # NoCall /\ rpc[k].reply = NoJob
    /\ \E t \in Template :
          t.prev = tip /\ rpc' = [rpc EXCEPT ![k].reply = t]
    /\ UNCHANGED <<jobVars, tip, phase, timer, isStopped, fault, netVars>>

Deliver(k) ==
    /\ Running
    /\ rpc[k].reply # NoJob
    /\ KeepsIds(rpc[k].reply)
    /\ rpc' = [rpc EXCEPT ![k] = NoCall]
    /\ OnTemplate(rpc[k].kind, rpc[k].reply)
    /\ UNCHANGED <<tip, phase, isStopped, fault, idle>>

\* An error, a 401, an answer that is not JSON, or none at all: the callback
\* logs the error or is not called.
Lose(k) ==
    /\ Running
    /\ rpc[k] # NoCall
    /\ rpc' = [rpc EXCEPT ![k] = NoCall]
    /\ UNCHANGED <<jobVars, tip, phase, timer, isStopped, fault, netVars>>

-----------------------------------------------------------------------------
\* Connections.

\* StratumServer._handleNewClient; a stopped server destroys the socket.
Connect(c) ==
    /\ Running /\ phase = "started" /\ ~isStopped
    /\ conn[c] = "off"
    /\ conn' = [conn EXCEPT ![c] = "open"]
    /\ UNCHANGED <<jobVars, tip, rpc, phase, timer, isStopped, fault, idle, work>>

\* authorizeCallback: the current job is sent as if it were a new block's.
\* Before the first template there is none, and building the notification
\* from undefined throws, unless the client timed out first.
Authorize(c) ==
    /\ Running /\ Live(c)
    /\ \/ /\ currentJob = NoJob /\ ~idle[c]
          /\ fault' = "notify"
          /\ UNCHANGED <<conn, work>>
       \/ /\ currentJob # NoJob /\ ~idle[c]
          /\ conn' = [conn EXCEPT ![c] = "authorized"]
          /\ work' = [work EXCEPT ![c] = {currentJob}]
          /\ UNCHANGED fault
       \/ /\ idle[c]
          /\ conn' = [conn EXCEPT ![c] = "destroyed"]
          /\ UNCHANGED <<fault, work>>
    /\ UNCHANGED <<jobVars, tip, rpc, phase, timer, isStopped, idle>>

\* authorizeCallback with a refusal, a flooded or a malformed socket.
Disconnect(c) ==
    /\ Running /\ Live(c)
    /\ conn' = [conn EXCEPT ![c] = "destroyed"]
    /\ UNCHANGED <<jobVars, tip, rpc, phase, timer, isStopped, fault, idle, work>>

\* The socket's close event: the client leaves clientMap.
Closed(c) ==
    /\ Running /\ conn[c] # "off"
    /\ conn' = [conn EXCEPT ![c] = "off"]
    /\ idle' = [idle EXCEPT ![c] = FALSE]
    /\ work' = [work EXCEPT ![c] = {}]
    /\ UNCHANGED <<jobVars, tip, rpc, phase, timer, isStopped, fault>>

\* connectionTimeout passes without a share; a share sets lastActivityMs.
GoesIdle(c) ==
    /\ Running /\ Live(c) /\ ~idle[c]
    /\ idle' = [idle EXCEPT ![c] = TRUE]
    /\ UNCHANGED <<jobVars, tip, rpc, phase, timer, isStopped, fault, conn, work>>

Submit(c) ==
    /\ Running /\ Live(c) /\ idle[c]
    /\ idle' = [idle EXCEPT ![c] = FALSE]
    /\ UNCHANGED <<jobVars, tip, rpc, phase, timer, isStopped, fault, conn, work>>

-----------------------------------------------------------------------------

PoolNext ==
    \/ StartServer
    \/ Started
    \/ Stop
    \/ Poll
    \/ BroadcastTimeout
    \/ BlockSubmitted
    \/ TipMoves
    \/ \E k \in Call : Answer(k) \/ Deliver(k) \/ Lose(k)
    \/ \E c \in Client :
          \/ Connect(c)
          \/ Authorize(c)
          \/ Disconnect(c)
          \/ Closed(c)
          \/ GoesIdle(c)
          \/ Submit(c)

PoolSpec == PoolInit /\ [][PoolNext]_poolVars

\* The turns of the event loop take place and timeouts fire; the slots of
\* Call are the model's, so that the poller finds one free again and again
\* is enough for it to take one.  Every request comes to an end.  The daemon
\* does not fail all the polls: while there are polls for ever, some are
\* answered, and some of the answers are delivered.
AnswerPoll(k)  == rpc[k].kind = "poll" /\ Answer(k)
DeliverPoll(k) == rpc[k].kind = "poll" /\ Deliver(k)

PoolFairness ==
    /\ WF_poolVars(StartServer)
    /\ WF_poolVars(Started)
    /\ SF_poolVars(Poll)
    /\ \A k \in Call :
          /\ WF_poolVars(Deliver(k) \/ Lose(k))
          /\ SF_poolVars(AnswerPoll(k))
          /\ SF_poolVars(DeliverPoll(k))

FairPoolSpec == PoolSpec /\ PoolFairness

-----------------------------------------------------------------------------

\* Types of the state the pool adds to the job manager's.
PoolTypeOK ==
    /\ JobTypeOK
    /\ tip \in Block
    /\ rpc \in [Call -> Request \cup {NoCall}]
    /\ phase \in {"off", "listening", "started"}
    /\ timer \in BOOLEAN
    /\ isStopped \in BOOLEAN
    /\ fault \in {"none", "stop", "notify"}
    /\ conn \in [Client -> {"off", "open", "authorized", "destroyed"}]
    /\ idle \in [Client -> BOOLEAN]
    /\ work \in [Client -> SUBSET Job]

\* Every job a connected miner may be working on is one its shares can be
\* credited for: whatever order templates arrive in, emptying validJobs and
\* telling the miners to drop their jobs (clean_jobs) go together.  An
\* authorized miner has such a job.
MinersWorkIsValid ==
    \A c \in Client :
        /\ Live(c) => work[c] \subseteq ValidJobs
        /\ conn[c] = "authorized" => work[c] # {}

\* A connected miner is told to drop work (clean_jobs) only where the block
\* to build on changes, or by its own mining.authorize: the broadcast every
\* 55 seconds and the template asked for after a block never cost it work.
WorkIsDroppedOnlyForANewBlock ==
    [][\A c \in Client :
          Live(c) /\ conn'[c] \in {"open", "authorized"}
            /\ ~(work[c] \subseteq work'[c])
          => \/ currentJob'.template.prev # currentJob.template.prev
             \/ work'[c] = {currentJob} /\ UNCHANGED jobVars]_poolVars

\* Once the daemon stays on a block the pool comes to mine on it and stays,
\* unless the process ends: late answers for a sibling block, lost answers,
\* other requests and stop() do not keep it on another block.
FollowsTip ==
    \A b \in Block :
        <>[](tip = b)
          => <>[](fault # "none"
                  \/ (currentJob # NoJob /\ currentJob.template.prev = b))

\* "Stop the server." (class.StratumServer.js): nobody is sent work by a
\* server that was stopped.
StoppedServerSendsNoWork ==
    [][isStopped => \A c \in Client : work'[c] \subseteq work[c]]_poolVars

\* "The Job instance to send." (class.StratumClient.js, sendMiningJob):
\* there is one whenever a client is sent a job.
NotifyHasJob == fault # "notify"
=============================================================================
