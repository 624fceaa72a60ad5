---------------------------- MODULE StratumClient ----------------------------
(***************************************************************************)
(* One connection from init() to the removal of its client: the messages   *)
(* class.StratumClientHandler.js handles, the workers they authorize       *)
(* (class.StratumWorker.js), the socket (class.StratumClientSocket.js) and *)
(* the removal by class.StratumServer.js.                                  *)
(*                                                                         *)
(* A data event brings a chunk of messages, which are handled in one turn, *)
(* one after the other, also after one of them destroyed the socket; all   *)
(* else happens between chunks.  authorizeFn belongs to the program that   *)
(* embeds the pool: it calls back at once (the example start.js) or later. *)
(* Of the job manager only the difficulty of its current job matters here. *)
(***************************************************************************)
EXTENDS Integers

CONSTANTS Name,      \* worker names
          PortDifficulty, \* config.port.diff, 0 where it is not given
          Difficulty,     \* what enqueueNextDifficulty is called with
          JobDifficulty,  \* difficultyAdj of jobs
          MaxWorker, \* bound on the authorize requests of a connection
          MaxChunk,  \* bound on the messages of a data event
          CallsBackLater, \* whether authorizeFn may call back in a later turn
          NoWorker   \* undefined, as the value of workerMap.get

VARIABLES
    socket,       \* the net.Socket: "open", "destroyed", "closed"
    chunk,        \* messages of the data event that are not handled yet
    isSubscribed, \* vars.isSubscribed
    isAuthorized, \* vars.isAuthorized
    workerName,   \* vars.workerName, NoWorker for the initial ''
    difficulties, \* the client's difficulty, the pending one, and the target
                  \* its miner was told last
    idle,         \* vars.lastActivityMs is longer ago than the timeout
    workers,      \* the StratumWorker objects made, in order
    workerMap,    \* client.workerMap
    job,          \* difficultyAdj of pool.jobManager.currentJob, 0 without one
    crashed,      \* an exception nobody caught has ended the process
    unknown,      \* what of the last message: "unknown" if it was reported as
                  \* such, "both" if it was handled all the same
    credited      \* the worker the last message brought a share of, if any

clientVars == <<socket, chunk, isSubscribed, isAuthorized, workerName,
                difficulties, idle, workers, workerMap, job, crashed, unknown,
                credited>>
session    == <<isAuthorized, difficulties, workerMap>>
process    == <<job, crashed>>

WorkerId == 1 .. MaxWorker
Worker == [name : Name, verdict : {"none", "yes", "no"}, isRemoved : BOOLEAN]

\* vars.difficulty, pendingDifficulty (0 for null) and the difficulty of the
\* last mining.set_target.
Difficulties == [difficulty : Nat, pending : Int, target : Nat]

ASSUME ClientBounds ==
    MaxWorker \in Nat /\ MaxChunk \in Nat /\ CallsBackLater \in BOOLEAN

ASSUME NoWorkerAssumption ==
    NoWorker \notin WorkerId /\ NoWorker \notin Name /\ NoWorker \notin Worker

ASSUME DifficultyAssumption ==
    /\ PortDifficulty \in Nat
    /\ Difficulty \subseteq Int
    /\ JobDifficulty \subseteq Nat \ {0}

Made == {w \in WorkerId : workers[w] # NoWorker}

-----------------------------------------------------------------------------

\* Seeded bug: a client starts at the difficulty of its port.
ClientInitAtPort ==
    /\ socket = "open"
    /\ chunk = 0
    /\ isSubscribed = FALSE
    /\ isAuthorized = FALSE
    /\ workerName = NoWorker
    /\ difficulties =
          [difficulty |-> PortDifficulty, pending |-> 0, target |-> 0]
    /\ idle = FALSE
    /\ workers = [w \in WorkerId |-> NoWorker]
    /\ workerMap = [n \in Name |-> NoWorker]
    /\ job \in {0} \cup JobDifficulty
    /\ crashed = FALSE
    /\ unknown = "no"
    /\ credited = NoWorker

\* A client may connect before the first template is answered.
ClientInit ==
    /\ socket = "open"
    /\ chunk = 0
    /\ isSubscribed = FALSE
    /\ isAuthorized = FALSE
    /\ workerName = NoWorker
    /\ difficulties = [difficulty |-> 0, pending |-> 0, target |-> 0]
    /\ idle = FALSE
    /\ workers = [w \in WorkerId |-> NoWorker]
    /\ workerMap = [n \in Name |-> NoWorker]
    /\ job \in {0} \cup JobDifficulty
    /\ crashed = FALSE
    /\ unknown = "no"
    /\ credited = NoWorker

\* Nothing is reported as unknown; no share comes.
NothingUnknown == unknown' = "no"
NoShare        == credited' = NoWorker
NotAMessage    == NothingUnknown /\ NoShare

\* The event loop goes on, between the messages of two data events.
Turn == ~crashed /\ chunk = 0 /\ NotAMessage

\* _bosReader: the messages of a data event.
Data ==
    /\ Turn
    /\ socket = "open"
    /\ chunk' \in 1 .. MaxChunk
    /\ UNCHANGED <<socket, isSubscribed, workerName, idle, workers, session,
                   process>>

\* The next message of the chunk.
Message == ~crashed /\ chunk > 0 /\ chunk' = chunk - 1

\* A message with another method, or one whose turn has not come:
\* handleMessage returns false.
OtherMethod ==
    /\ Message
    /\ unknown' = "unknown" /\ NoShare
    /\ UNCHANGED <<socket, isSubscribed, workerName, idle, workers, session,
                   process>>

\* A message that is null, that has no params where they are needed, a worker
\* name that is no string, or a share ShareProcessor throws on.
MessageThrows ==
    /\ Message /\ NotAMessage
    /\ crashed' = TRUE
    /\ UNCHANGED <<socket, isSubscribed, workerName, idle, workers, session,
                   job>>

\* _handleSubscribe.  It returns nothing, so that handleMessage does not
\* return true and init() reports the message as unknown.
HandleSubscribe ==
    /\ Message /\ ~isSubscribed
    /\ isSubscribed' = TRUE
    /\ unknown' = "both" /\ NoShare
    /\ UNCHANGED <<socket, workerName, idle, workers, session, process>>

-----------------------------------------------------------------------------
\* Difficulties and jobs sent.

\* sendDifficulty, on the difficulties d, while the current job has the
\* difficulty current: nothing is sent for the one the client has, for one that
\* is not positive, or without a job.
SendDifficulty(d, diff, current) ==
    LET capped == IF diff <= current THEN diff ELSE current
    IN  IF diff = d.difficulty \/ diff <= 0 \/ current = 0 THEN d
        ELSE [d EXCEPT !.difficulty = capped, !.target = capped]

Destroyed == socket' = IF socket = "open" THEN "destroyed" ELSE socket

\* Seeded bug: how long ago a share came is not looked at.
SendMiningJobToAll(d, current) ==
    /\ difficulties' =
          [SendDifficulty(d, d.pending, current) EXCEPT !.pending = 0]
    /\ crashed' = (current = 0)
    /\ UNCHANGED socket

\* sendMiningJob: a client that is idle is disconnected.  To another one its
\* pending difficulty is sent, and the job, whose absence throws.
SendMiningJob(d, current) ==
    \/ /\ idle
       /\ Destroyed
       /\ difficulties' = d
       /\ UNCHANGED crashed
    \/ /\ ~idle
       /\ difficulties' =
              [SendDifficulty(d, d.pending, current) EXCEPT !.pending = 0]
       /\ crashed' = (current = 0)
       /\ UNCHANGED socket

-----------------------------------------------------------------------------
\* mining.authorize.

\* port.diff || 1
FirstDifficulty == IF PortDifficulty = 0 THEN 1 ELSE PortDifficulty

\* Seeded bug: a refused client is not disconnected.
AuthorizeCallbackStays(w, isAccepted, name) ==
    /\ isAuthorized' = isAccepted
    /\ \/ /\ isAccepted
          /\ workerMap' = [workerMap EXCEPT ![name] = w]
          /\ SendMiningJob(SendDifficulty(difficulties, FirstDifficulty, job),
                           job)
       \/ ~isAccepted /\ UNCHANGED <<socket, workerMap, difficulties, crashed>>

\* authorizeCallback for a worker; name is vars.workerName at the time.  It
\* is called for a client that is gone as for any other.
AuthorizeCallback(w, isAccepted, name) ==
    /\ isAuthorized' = isAccepted
    /\ \/ /\ isAccepted
          /\ workerMap' = [workerMap EXCEPT ![name] = w]
          /\ SendMiningJob(SendDifficulty(difficulties, FirstDifficulty, job),
                           job)
       \/ /\ ~isAccepted
          /\ Destroyed
          /\ UNCHANGED <<workerMap, difficulties, crashed>>

\* Seeded bug: markRemoved in the wrong branch.
JudgedWrongly(worker, isAccepted) ==
    [worker EXCEPT !.verdict = IF isAccepted THEN "yes" ELSE "no",
                   !.isRemoved = isAccepted]

\* The worker with the verdict on it; a refused one is marked removed.
Judged(worker, isAccepted) ==
    [worker EXCEPT !.verdict = IF isAccepted THEN "yes" ELSE "no",
                   !.isRemoved = ~isAccepted]

\* Seeded bug: the worker is put in the map before authorizeFn has called back.
HandleAuthorizeEagerly(n) ==
    \E w \in WorkerId :
        LET worker == [name |-> n, verdict |-> "none", isRemoved |-> FALSE]
        IN  /\ Message /\ isSubscribed
            /\ Made = 1 .. (w - 1)
            /\ workerName' = n
            /\ \/ \E isAccepted \in BOOLEAN :
                     /\ AuthorizeCallback(w, isAccepted, n)
                     /\ workers' = [workers EXCEPT
                                      ![w] = Judged(worker, isAccepted)]
               \/ /\ CallsBackLater
                  /\ workers' = [workers EXCEPT ![w] = worker]
                  /\ workerMap' = [workerMap EXCEPT ![n] = w]
                  /\ UNCHANGED <<socket, isAuthorized, difficulties, crashed>>
            /\ NotAMessage
            /\ UNCHANGED <<isSubscribed, idle, job>>

\* _handleAuthorize, up to the call of authorizeFn, with the callback where
\* it comes at once.
HandleAuthorize(n) ==
    \E w \in WorkerId :
        LET worker == [name |-> n, verdict |-> "none", isRemoved |-> FALSE]
        IN  /\ Message /\ isSubscribed
            /\ Made = 1 .. (w - 1)
            /\ workerName' = n
            /\ \/ \E isAccepted \in BOOLEAN :
                     /\ AuthorizeCallback(w, isAccepted, n)
                     /\ workers' = [workers EXCEPT
                                      ![w] = Judged(worker, isAccepted)]
               \/ /\ CallsBackLater
                  /\ workers' = [workers EXCEPT ![w] = worker]
                  /\ UNCHANGED <<socket, session, crashed>>
            /\ NotAMessage
            /\ UNCHANGED <<isSubscribed, idle, job>>

\* authorizeFn calls back in a later turn.
LateCallback(w, isAccepted) ==
    /\ Turn
    /\ w \in Made /\ workers[w].verdict = "none"
    /\ AuthorizeCallback(w, isAccepted, workerName)
    /\ workers' = [workers EXCEPT ![w] = Judged(@, isAccepted)]
    /\ UNCHANGED <<chunk, isSubscribed, workerName, idle, job>>

-----------------------------------------------------------------------------

\* Seeded bug: the share is credited to the name it came with.
HandleSubmitByName(n) ==
    /\ Message /\ isSubscribed /\ NothingUnknown
    /\ idle' = FALSE
    /\ credited' = IF isAuthorized THEN n ELSE NoWorker
    /\ UNCHANGED <<socket, isSubscribed, workerName, workers, session, process>>

\* _handleSubmit: answered with an error unless the client is authorized and
\* the name is one of its workers'.
HandleSubmit(n) ==
    /\ Message /\ isSubscribed /\ NothingUnknown
    /\ idle' = FALSE
    /\ credited' = IF isAuthorized THEN workerMap[n] ELSE NoWorker
    /\ UNCHANGED <<socket, isSubscribed, workerName, workers, session, process>>

\* A template is made a job of; unless it is one for the same block, the job is
\* sent in the same turn to every client in clientMap.
NewJob(difficulty) ==
    /\ Turn
    /\ job' = difficulty
    /\ \/ socket # "closed" /\ SendMiningJob(difficulties, difficulty)
       \/ UNCHANGED <<socket, difficulties, crashed>>
    /\ UNCHANGED <<chunk, isSubscribed, isAuthorized, workerName, idle, workers,
                   workerMap>>

\* The broadcast timer: the job is sent to every client in clientMap.
BroadcastJob ==
    /\ Turn
    /\ job # 0 /\ socket # "closed"
    /\ SendMiningJob(difficulties, job)
    /\ UNCHANGED <<chunk, isSubscribed, isAuthorized, workerName, idle, workers,
                   workerMap, job>>

\* The embedding program retargets the client, whatever it knows of it.
EnqueueNextDifficulty(difficulty) ==
    /\ Turn
    /\ difficulties' = [difficulties EXCEPT !.pending = difficulty]
    /\ UNCHANGED <<socket, chunk, isSubscribed, isAuthorized, workerName, idle,
                   workers, workerMap, process>>

\* connectionTimeout passes without a share.
GoesIdle ==
    /\ Turn
    /\ socket # "closed" /\ ~idle
    /\ idle' = TRUE
    /\ UNCHANGED <<socket, chunk, isSubscribed, workerName, workers, session,
                   process>>

\* The socket is flooded or what it brought is malformed.
BadData ==
    /\ Turn
    /\ socket = "open" /\ Destroyed
    /\ UNCHANGED <<chunk, isSubscribed, workerName, idle, workers, session,
                   process>>

\* The close event: _removeStratumClientBySubId marks the workers of the map.
Close ==
    /\ Turn
    /\ socket # "closed"
    /\ socket' = "closed"
    /\ workers' = [w \in WorkerId |->
                     IF \E n \in Name : workerMap[n] = w
                     THEN [workers[w] EXCEPT !.isRemoved = TRUE] ELSE workers[w]]
    /\ UNCHANGED <<chunk, isSubscribed, workerName, idle, session, process>>

HandleMessage ==
    \/ OtherMethod
    \/ MessageThrows
    \/ HandleSubscribe
    \/ \E n \in Name : HandleAuthorize(n) \/ HandleSubmit(n)

ClientNext ==
    \/ Data
    \/ HandleMessage
    \/ \E w \in WorkerId, isAccepted \in BOOLEAN : LateCallback(w, isAccepted)
    \/ \E difficulty \in JobDifficulty : NewJob(difficulty)
    \/ \E difficulty \in Difficulty : EnqueueNextDifficulty(difficulty)
    \/ BroadcastJob
    \/ GoesIdle
    \/ BadData
    \/ Close

ClientSpec == ClientInit /\ [][ClientNext]_clientVars

\* The messages of a chunk are handled to the last; the broadcast timer fires
\* again and again, between whatever chunks, and the template it asks for is
\* answered (strong: a chunk is one turn, at the end of which a timer that is
\* due fires); Node emits the close event of a socket that was destroyed.
FairClientSpec ==
    /\ ClientSpec
    /\ WF_clientVars(HandleMessage)
    /\ SF_clientVars(BroadcastJob)
    /\ WF_clientVars(socket = "destroyed" /\ Close)

-----------------------------------------------------------------------------

\* Types of the session's state.
ClientTypeOK ==
    /\ socket \in {"open", "destroyed", "closed"}
    /\ chunk \in 0 .. MaxChunk
    /\ isSubscribed \in BOOLEAN
    /\ isAuthorized \in BOOLEAN
    /\ workerName \in Name \cup {NoWorker}
    /\ difficulties \in Difficulties
    /\ idle \in BOOLEAN
    /\ workers \in [WorkerId -> Worker \cup {NoWorker}]
    /\ workerMap \in [Name -> WorkerId \cup {NoWorker}]
    /\ job \in Nat
    /\ crashed \in BOOLEAN
    /\ unknown \in {"no", "unknown", "both"}
    /\ credited \in WorkerId \cup {NoWorker}

\* Shares are credited to workers authorizeFn accepted, and to no others,
\* in whatever order and however late it answers, for a client that keeps
\* authorizing and goes away in between.
OnlyAcceptedWorkersEarn ==
    credited # NoWorker => workers[credited].verdict = "yes"

\* No share is credited to a worker that was marked removed, be it its first or
\* a later one: what the pool's owner is told of a worker is right at the time
\* of its shares.
RemovedWorkersEarnNothing ==
    credited # NoWorker => ~workers[credited].isRemoved

\* An authorized miner was told the target its shares are measured by, though
\* sendDifficulty sends nothing where the pool has no job, or the client has
\* the difficulty already.  Only one that is disconnected before there is a
\* job is authorized without: it sends nothing more when there is one.
AuthorizedMinersKnowTheirTarget ==
    /\ isAuthorized /\ ~crashed
    /\ socket = "open" \/ (chunk > 0 /\ job # 0)
    => /\ difficulties.difficulty # 0
       /\ difficulties.target = difficulties.difficulty

Refused == \E w \in Made : workers[w].verdict = "no"

\* Of a connection one of whose workers was refused, no more messages are
\* handled and no shares are credited than those that came in the same data
\* event as the one that was refused, whoever is accepted before or after.
RefusalEndsService ==
    [][Refused /\ chunk = 0 => chunk' = 0 /\ credited' = NoWorker]_clientVars

\* A client that sends no shares is gone in the end, though nothing but the
\* next job it is sent looks at how long it has been silent.  Without a job it
\* may stay.
IdleClientsGo ==
    idle /\ job # 0 ~> ~idle \/ socket = "closed" \/ crashed

\* "Get a Map containing all workers by name." (class.StratumClient.js):
\* a worker is found under its own name, so that the shares of one name are
\* not credited to another.
WorkersByName ==
    \A n \in Name : workerMap[n] # NoWorker => workers[workerMap[n]].name = n

\* "Determine if the worker instance is for a client that is no longer
\* connected." (class.StratumWorker.js, isRemoved)
RemovedWhenGone ==
    socket = "closed" =>
        \A w \in Made : workers[w].verdict = "yes" => workers[w].isRemoved

\* "True if the message contained a valid method and was handled, otherwise
\* false." (class.StratumClientHandler.js, handleMessage): what is reported
\* as an unknown method was not handled.
HandledIsNotUnknown == unknown # "both"
=============================================================================
