# Verification of node-mtp-reference-stratum

TLA+ models of the MTP reference stratum pool (`src/`, Node.js), the TLC runs
that check them on small instances, and TLAPS proofs of what matters most for
every instance. Paths below are relative to `src/lib/`.

## The system

The pool is one single-threaded Node.js process between a wallet daemon (JSON
RPC over HTTP) and miners (a binary stratum protocol over TCP). Everything
happens in turns of the event loop: a turn runs to its end without being
interrupted, and the order of turns is open. That is the grain of the models:
one action is one turn, or, in `StratumClient`, one message of a turn.

| component | state | operations | what makes it correct |
|---|---|---|---|
| job manager (`class.JobManager.js`, `class.JobCounter.js`) | current job, valid jobs by id, id counter | processTemplate | valid jobs build on one block; no move to a lower height; an id is not reused while it is valid |
| work feed (`class.StratumPool.js`, `class.BlockPoller.js`, `class.JobBroadcastTimer.js`) | requests under way, timers, isStarted | start, stop, updateJob, updateBlockTemplate, broadcast | miners work on valid jobs, keep good work, and follow the daemon's block |
| server (`class.StratumServer.js`, `class.SubscriptionCounter.js`, `class.ExtraNonceCounter.js`) | clientMap, isStopped, counters | new client, removal, broadcast, stop | a client is in the map while it is connected, under an id of its own; stop stops |
| client session (`class.StratumClient.js`, `class.StratumClientHandler.js`, `class.StratumWorker.js`) | vars, workerMap, pending difficulty | subscribe, authorize, submit, sendMiningJob, sendDifficulty, disconnect | only accepted workers are credited, each under its name; the miner knows its target |
| client socket (`class.StratumClientSocket.js`) | byte buffer | data, close, destroy | messages in order, whole, or a disconnection |
| share processor (`class.ShareProcessor.js`, `class.Job.js`) | submissions of a job | submit, registerSubmit | a share counts once, for a valid job, at a difficulty the miner was given; a block is never refused |
| block submission (`class.StratumPool.js`, submitShare) | blocks being asked about | submitblock, getblock, report | each share is reported once; a block is reported as valid only if it was accepted |
| RPC client (`class.Daemon.js`) | callback of each request | cmd, validateAddress | a callback is called at most once, and for an outcome |
| coinbase, Merkle tree, number and buffer helpers | none | serialization | bytes as the daemon expects them |

Interaction: the poller (every second), the broadcast timer (55 seconds after
the last broadcast), a submitted block and start() ask the daemon for a block
template. The callback gives the template to the job manager; if that is a new
block, or the timer asked, the server sends the current job to every client.
A miner submits shares for a job id, looked up among the valid jobs at that
moment. authorizeFn and the listeners of the pool's events belong to the
embedding program.

What is hard: answers of the daemon that overlap, come late or never; state
shared by two requests of a client under way at once (authorizeFn); callbacks
for clients that are gone; messages handled behind the one that ended the
connection; counters that wrap; a share's fate while the daemon is being asked
twice about its block. `PROJECT.json` lists the hazards by line.

## Modules

| module | models | extends |
|---|---|---|
| `WorkBook` | abstract: one tip, the jobs open on it | |
| `JobManager` | job manager and job ids; refines `WorkBook` | |
| `JobManagerProofs` | theorems of `JobManager` | `JobManager`, `TLAPS` |
| `StratumPool` | work feed, connections as far as work is concerned, stop | `JobManager` |
| `StratumPoolProofs` | theorems of `StratumPool` | `StratumPool`, `JobManagerProofs` |
| `ShareLedger` | abstract: each share judged once, refused for good or reported once | |
| `ShareProcessor` | share decision, difficulties, duplicate check, block submission; refines `ShareLedger` | `JobManager` |
| `ShareProcessorProofs` | theorems of `ShareProcessor` | `ShareProcessor`, `JobManagerProofs` |
| `StratumClient` | one connection: messages, authorization, removal | |
| `StratumClientProofs` | theorems of `StratumClient` | `StratumClient`, `TLAPS` |
| `Rpc` | abstract: a callback called once or dropped for good | |
| `Daemon` | RPC requests; refines `Rpc` | |
| `PoolStart` | start(), on the daemon's answers | `Daemon` |
| `PoolStartProofs` | theorems of `Daemon` and `PoolStart` | `PoolStart`, `TLAPS` |
| `ClientSocket` | bytes of connections to messages | |
| `StratumServer` | connections under their ids, extra nonces, removal | `ClientSocket` |
| `StratumServerProofs` | theorems of `ClientSocket` and `StratumServer` | `StratumServer`, `TLAPS` |
| `Buffers` | numbers, varints and strings as bytes, and how the daemon reads them | |
| `Coinbase` | the coinbase transaction | `Buffers` |
| `MerkleTree` | steps, withFirst, and the daemon's Merkle root | |
| `Job` | jobs of templates, headers and blocks of shares | `Coinbase`, `MerkleTree` |
| `Recursion` | recursive functions on the naturals, for any step, and induction | `TLAPS` |
| `JobProofs` | theorems of `Buffers`, `Coinbase`, `MerkleTree` and `Job` | `Job`, `TLAPS`; instances of `Recursion` |
| `MC...` | values for TLC | the module they are named after |

Operators carry the names of the functions they translate. Definitions under a
comment "Seeded bugs" are wrong variants of the definition below them; no
specification uses them. They show for each property of a passing run that a
plausible slip in that definition would be noticed.

**JobManager.** A Job object is its id and its template; validJobsObjMap is a
total function with `NoJob` for undefined. `ProcessTemplate(t)` is the whole of
processTemplate with _updateJob. The id counter wraps at `IdLimit`
(0xFFFFFFFF in the code).

**StratumPool.** Time is not modelled: the poll and the timer may fire at any
turn. A request takes a slot of `Call`; `Answer` fixes the template, `Deliver`
runs the callback, `Lose` stands for errors, for answers `Daemon` drops and for
no answer at all. `work[c]` is what the miner holds by the protocol: it drops
its jobs when clean_jobs is set. The code keeps no such variable; it is what
mining.notify has told the miner. `Stop` is what stop() does: the TypeError at
`StratumServer.js:104` leaves it half way, and either somebody catches it or
the process ends (`fault`).

**ShareProcessor.** A nonce stands for nonce, extraNonce2 and nTime, and its
value for the difficulty of the hash, which is a function of the work.
`Submit(s)` follows the order of the checks; whether a parameter is malformed,
nTime is in range and the proofs are good is open. `reports` and `blocks` record
EVENT_SHARE_SUBMITTED. `session[c]` holds the difficulty, the one before it and
the pending one of the client's StratumClient; `unheard` and `target` are the
miner's side, the targets on their way to it and the one its shares follow.
They make `TargetsAreHonoured` a statement about what the miner was told, of
which the code keeps a single step of history. Two shares of one client are
enough to have two blocks asked about at once; clients do not share
submissions, as extraNonce1 is part of their key (`OwnExtraNonce` of
`StratumServer`). A parameter of the wrong size, or a job id that is no Buffer
but has a length, is answered as malformed; one without a length throws where
the answer is put together (`leToHex` in `_shareData`), which ends the process
with the blocks that are asked about (`SubmitThrows`, `crashed`). An answer to
submitblock or getblock may be one `Daemon` drops, a 401 or no JSON
(`AnswerDropped`: the share stays "unheard"), or one it parses until the stack
overflows (`AnswerThrows`).

**StratumClient.** `chunk` counts the messages of the current data event that
are still to be handled: nothing else happens before they are, and they are
handled even if the socket was destroyed meanwhile. `CallsBackLater` says
whether authorizeFn may call back in a later turn (it may call at once in any
case, as in `start.js`). `job` is the difficulty of the pool's current job, 0
before there is one: `SendDifficulty` has the three early returns of
sendDifficulty (the difficulty is the client's own, it is not positive, there is
no job), and `SendMiningJob` disconnects an idle client before it looks at the
job, and otherwise throws without one. That, and a message its handler throws
on (`MessageThrows`: no params array, a name that is no string, a share as in
`SubmitThrows`), ends the process. `difficulties` ties the client's difficulty
and the pending one to `target`, which is what the miner was last told;
`credited` is the worker the last message brought a share of, a first or a
later one, and holds nothing else.

What a refusal ends is less than one may expect: the messages behind the
refused one in its data event are handled all the same, so that another worker
of the connection may be accepted there, and credited, after the refusal.
`RefusalEndsService` says that this is all: once the data event is handled to
its end, no message and no share follows. What `AuthorizedMinersKnowTheirTarget`
excepts is of this kind: an authorization without a job, on a client that is
idle, disconnects it and does not throw, and it is authorized without a target
until its chunk ends.

The idle check is that of sendMiningJob: a client silent for too long is found
out when it is sent a job.

**Daemon.** Each request with the closure variable that holds its callback, its
error event, and the end of its response, by kinds of response. The callback
may send further requests in the same turn (`next`).

**PoolStart.** The nested waterfalls of start() are `stage[s]`: the question a
start waits for, "listening" from `Listen` (job manager, first template request
and server, one turn) to the server's event, and "started" or "failed". An
answer is a step of `Daemon` together with what its callback does. `config`
stands for what the configuration may lack. What goes on after the first
template request is `StratumPool`'s business.

**ClientSocket**, **StratumServer.** A client sends a stream: its length, the
positions at which messages end, and where the bytes are no message any more.
`Data` is one data event: append, deserialize, and hand on or discard.
`StratumServer` gives each connection a subscription id and an extraNonce1;
`clientMap` is what the code finds by id. `made` and `serial` count connections
for the properties; the code has no such count.

**Buffers**, **Coinbase**, **MerkleTree**, **Job.** Pure functions, with what
the daemon does to the result (`ReadNumber`, `ReadCoinbase`, `MerkleRoot`)
written from its formats. Bytes are bytes; SHA-256 is a term constructor, so
that different data have different hashes. What a template may lack is a
sequence of at most one element. `Job` has the clock, as it goes into the
coinbase: seconds cut to int32 by `| 0`. `JobThrows` has what the constructor
throws on: a version `packUInt32LE` has no room for (`class.Job.js:30`; a
block's version is an int32, and a negative one has none) and what the
coinbase's script does not take. `NotifyThrows` has what sendMiningJob throws on:
it packs the same version by `packInt32LE`. What is a loop in the code is a
recursive function here: what is left of a number (`Shifted`), the levels of a
tree (`Levels`, `HashLevels`), the hash joined to one step after the other
(`Joined`), where the outputs stand (`OutputStarts`).

## Runs

| run | instance | shows |
|---|---|---|
| `job_manager` | 5 templates on 4 blocks, two of them siblings, 4 ids | valid jobs share a tip; no lower height; id reuse across the wrap; `WorkBook` is implemented |
| `pool_work` | 3 blocks, 1 miner, 2 requests, 2 ids, fairness | the miner's work is valid and not dropped without need; the pool settles on the daemon's block |
| `shares` | 2 blocks, 2 jobs, 1 client, 2 qualities, 1 difficulty and the port's, 2 targets under way, fairness | `ShareLedger` is implemented: a share is judged once and counts once; it counts on the tip, at the target the miner had; blocks are not refused; reported blocks were accepted; every block share is reported, unless the answer was dropped or the process ended |
| `client` | 2 names, 3 authorizations, chunks of 3, callbacks at once or later, a port at 2, jobs of difficulties 1 and 3 or none yet, retargets to -1 and 3, fairness | only accepted workers earn, never a removed one; targets are known; nothing is served behind the data event of a refusal; a silent client goes |
| `start` | 2 calls of start(), 3 questions each, 6 kinds of response, fairness | `Rpc` is implemented; one start serves, with the daemon's consent; when a start hangs |
| `connections` | 2 connections at a time, 6 in all, 3 ids, 4 extra nonces, 3 streams | messages whole and in order; who is taken for a flooder; own extra nonces; who suffers from the wrap of the ids |
| `job` | 28 templates, 2 jobs, 2 shares, 2020 and 2038 | coinbase, outputs, header, block and notification as their readers take them; which work is counted twice; when no job can be made |

Runs that end in a counterexample are listed below.

Bounds. In `job_manager` four ids let the counter wrap while jobs of a block are
valid, and once more. Siblings at one height and a block below are what
distinguishes the comparisons of processTemplate. Two requests are the least
that can overtake each other; the handlers look at one answer at a time, so that
a third brings no new order of a pair. Miners do not see each other (a broadcast
treats each alike), so one is enough where its work is the question. In
`StratumPool` and `ShareProcessor` an id is not taken from a valid job (guards
`KeepsIds`, `IdsLeft`, and `counter < IdLimit - 1`): in the code that takes 2^32
- 2 jobs on one block, and `JobManager` covers the wrap itself. With two ids a
block has its first job and one update. A port difficulty of 3 with network
difficulties 3 and 2 puts a client above the network after a block; with two
targets under way (`MaxUnheard`) the history of one is too short, which
`TargetsAreHonoured` excepts. Three authorizations with two names allow a
repeated name and two requests under way in either order; a chunk of three has
room for a refusal, an acceptance and a share. Jobs of 1 and 3 cap the port's
difficulty of 2 and do not, so that a client asks again for a difficulty it has,
and for one it asked for and did not get; -1 is no difficulty at all. Two starts
are one and the other; what a third adds is refused by the same guard. Six
connections (`MaxMade`) go round three ids twice and round four extra nonces
with two to spare; the code has 2^28 - 1 and 2^64 of them. Chunks of up to two
bytes and a buffer of three cut every message of the streams everywhere, and put
two messages in one chunk. The templates of `job` are one and its variations:
heights at each border of their encodings (1, 16, 17, 127, 128, ..., 8388608),
up to 8 and 252 transactions (trees with an odd level at every depth, a count
past one byte), flags that just fit and that do not, znode and commitment absent
and present, a version that is negative. `CHECK_DEADLOCK FALSE` stands where the
instance comes to its end: an exception has ended the process, a connection is
closed, requests, starts or connections are used up, jobs and shares are made.

Fairness. `FairPoolSpec`: start() goes on; the poller's timeout fires (strong,
because the model's request slots may be taken when the code would send a
further request); every request comes to an end; and a daemon that is asked for
ever answers some polls, whose answers arrive (strong: single losses are
allowed). The code gives no more than that, having no timeout of its own.
`FairShareSpec`: each request comes to an end, be it one nobody hears of; a
connection that stays open for ever without an answer is assumed away, as `cmd`
has no timeout. The chain is assumed not to move to a lower height; the job
manager ignores such a move until the height is reached again. `FairStartSpec`:
each request comes to an end, and listen() does. `FairClientSpec`: a turn goes
on to its end, the broadcast timer fires again and again and the template it
asks for is answered (strong: a chunk under way keeps it waiting), and destroyed
sockets close. That a job is sent again and again presumes a daemon that goes on
answering getblocktemplate, as `FairPoolSpec` does.

## What the code does not keep

Each of these runs ends in a counterexample (`PROJECT.json`, findings, quotes
the sentence of the source that says otherwise).

- `pool_notify`: a client authorized before the first template arrived is sent
  an undefined job; the exception ends the process.
- `pool_stop`: stop() throws half way (a shadowed variable), the clients stay
  and are sent work.
- `client_workers_by_name`: with two authorizations under way a worker is filed
  under the other's name.
- `client_removed`: a worker authorized twice under one name is not marked
  removed when its client goes.
- `client_unknown`: a handled mining.subscribe is reported as unknown method.

Further limits are stated as properties that hold, each with its exception:

- `StartEndsUnlessUnheard`: a start whose question is answered with a 401 or
  with what is not JSON neither completes nor fails, as does one without a
  daemon configured.
- `LostOnlyToANamesake`: past the wrap of the ids a
  connected client may be missing from clientMap, or have its workers marked as
  removed by the end of another.
- `CountedTwiceOnlyInASecond`: a share may be counted for two jobs made in one
  second of one template.
- `BlockSharesAreReported`: a block share whose answer is a 401 or no JSON is
  never reported, and neither are those under way when an exception ends the
  process.
- `ThrownForAReason`: from 2038 on no job can be made, and none of a template
  with a negative version; the exception ends the process.
- `RefusalEndsService`: what came with the refused authorization in one data
  event is still handled.
- `TargetsAreHonoured`: with two targets under way a good share may be refused.

## Proofs

All for every value of the constants, under the assumptions the modules name:
the height of a template is fixed by the block it builds on
(`TemplateAssumption` of `JobManager`) and its difficulty is a number
(`ShareAssumption` of `ShareProcessor`); there are at least two job ids
(`IdLimitAssumption`), at least one subscription id and one extra nonce
(`LimitAssumption`); a stream has a size, and its messages end within it
(`StreamAssumption`); a start asks each of its questions in a request of its own
(`RequestAssumption`); what stands for undefined is no job, block, worker, start
or connection (`No...Assumption`); the port's difficulty is not negative and
those of jobs are positive (`DifficultyAssumption` of `StratumClient`), while
the embedding program may enqueue any integer. What `Job` assumes is listed with
its proofs.

**JobManagerProofs.** `JobTypeOK` is inductive. `ValidJobsShareTip` is inductive
with it: an update either empties the map or has the tip of the current job.
`HeightNeverDrops` follows from the types and the height check. `FreeIdFirst`
is not inductive, as it says nothing of the order of the other ids; the
invariant is `ValidAreYoungest`, the valid ids are the k issued last: an update
ages every id by one and gives age 0 to the oldest one (`AgesShift`). The next
id is the oldest, so that if it is valid all are. `WorkBook` is implemented:
`StepIsBookStep` maps an update to `Refresh` or `Advance`, using
`ValidJobsShareTip`; a stale template is a stutter.

**StratumPoolProofs.** Every step of the pool is a step of the job manager or
leaves it alone (`PoolStepIsJobStep`), hence `PoolSpec => JobSpec` and all the
theorems above hold in the pool. `MinersWorkIsValid` becomes inductive as
`WorkInv`: with the types, with `ValidJobsShareTip` (the current job, which
authorization hands out, is valid) and with `NoWorkWhileOff` (a new connection
starts without work). Its core is `DeliverKeepsWorkValid`: for a new block the
jobs are replaced where the map is emptied; otherwise `UpdateKeepsValidJobs`,
the id taken was free, keeps the old ones valid.
`WorkIsDroppedOnlyForANewBlock` uses the same invariant in another way: a miner
loses its work only in `Deliver`, with clean_jobs set. Either there was no
current job, then no job was valid and the miner had no work to lose; or there
was one, and `CurrentJobAfter` tells its successor's block from its own.

**ShareProcessorProofs.** That a share is reported once (`ReportedOnce`, which
the ledger implies) is not inductive: a second submission of a reported share
must be known to be refused, which is `CountedOnce` (what is reported, or asked
about, is registered with its job), and a new job finds nothing registered under
its id (`FreshIdsAreUnused`). `ReportedBlocksAreAccepted` needs that a share is
at `getblock` only if the daemon has its block. `SessionsFollow` ties the three
difficulties of a client to the targets on their way: the last one sent is the
difficulty, and, with at most one under way, the miner's target is the
difficulty or the one before it. The action properties follow from this
invariant, `ShareInv`: `CountsOnTheTipOnly` with `ValidJobsShareTip` of the job
manager, `BlockIsNeverLow` from the order of the checks, `TargetsAreHonoured`
with `SessionsFollow`. `ShareLedger` is implemented: what is registered is
judged, what has a `stage` is asked about. A submission is a stutter or `Judge`,
because a registered share is no new submission (`SubmitIsLedgerStep`); an
answer of the daemon is a stutter or `Settle` (`DaemonIsLedgerStep`); and a
template is a stutter, because of `FreshIdsAreUnused` (`TemplateKeepsLedger`).
So a share refused for bad proofs is refused for good: the code registers it
before it looks at the proofs, and nothing that is sent later counts it. The
theorems hold, as the run does, while ids last (the guard `counter < IdLimit -
1`). A step of `ShareProcessor` moves the job manager by a template or not at
all (`ShareProcessorImplementsJobManager`), so that the theorems of
`JobManagerProofs` hold beside it.

**StratumClientProofs.** `OnlyAcceptedWorkersEarn` needs to know where shares
find their worker: whoever is in the map was accepted (`MapHoldsAccepted`).
`RemovedWorkersEarnNothing` is no consequence of that, as an accepted worker is
marked removed too, when the socket closes; but then no message is left to be
handled, and a refused one is in no map (`RemovedWithReason`). The worker of the
last share is thereby one that was accepted and not removed
(`CreditedWasAccepted`), and no later step changes that without forgetting it.
`AuthorizedMinersKnowTheirTarget` rests on what sendDifficulty and sendMiningJob
do to a client (`SendDifficultyTells`, `SendMiningJobTells`): an early return
leaves a client its difficulty if it has one, and one that has none gets one or
is without a job, in which case it is disconnected or the process ends. With
`NameWasSent` (whoever calls back later finds a name), `RefusalDisconnects`
(after a refusal the socket is not open) and the types this is `SessionInv`; its
core is `JudgementKeepsSessionInv`, what an answer of authorizeFn does, whenever
it comes. `RefusalEndsService` follows: a chunk begins only on an open socket,
and a share comes only with a message of a chunk.

**PoolStartProofs.** `DaemonInv` ties the variable that holds a callback to the
count of its calls: a callback that is held was not called, and a request not
sent holds none. It is proved for `DaemonSpec`, and again for `StartSpec`, where
the callback sends further requests in the same turn. With it every step of a
request is one of `Rpc` (`StepIsRpcStep`): an error or a response that is parsed
is `CallBack` where the callback is still held, one that is not parsed is `Drop`,
and whatever comes after is a stutter; only a `CallBack` sends further requests.
A start takes steps of `Daemon` only, so that it implements `Rpc` too.
`HangsForAReason` is what `StartEndsUnlessUnheard` rests on: of the requests of a
start, only the one for the question it waits for has its callback held
(`WaitsForAnAnswer`), so a start that has not ended has an answer under way,
lost its answer to a 401 or to what is no JSON, or has no daemon. Another
start's answers never change that (`OthersWait`). What the liveness property
adds is that the answer comes, which is its fairness.
`QuestionsInOrder` says
that a question is asked after the one before it got its result;
`ServerIsOfTheManager` that there is one server, made after the last answer, by
the start that made the job manager, and that a start that listens or completed
has it. The count in `OneStartServes` is then that of a set with one element
(`FiniteSetTheorems`).

**StratumServerProofs.** The buffer of an open socket begins where the last
handed-on message ended, and all that came were handed on (`BufferFollows`);
`MessagesComeWhole` and `OnlyLargeMessagesFlood` (`OverrunByLarge`: what is left
over the limit lies within one message) rest on it. `NumbersFollow` and
`CountersFollow` tie ids and extra nonces to the number of a connection, so that
two with the same are a whole round apart (`SameIdApart`): `OwnExtraNonce`.
`MapHoldsYoungest`, what `clientMap` holds is connected and the youngest of
those with its id, makes `LostOnlyToANamesake` inductive. Least and greatest
elements come from the well-foundedness of the naturals (`LeastOf`,
`GreatestOf`).

**JobProofs.** The functions of `Job` are loops, so that every one of these
proofs is an induction over data. The induction theorems of the library take an
operator as a parameter, which the provers at hand cannot instantiate. `Recursion`
goes round this: induction is stated for a set (`Induction`, from the least
counterexample) and a recursive function for a constant `Step`, of which
`RecursionExists` shows that there is one. A module instantiates `Step`
once per function (`OfLevels`, `OfJoined`, `OfFlatten`, ...) and gets that the
function satisfies its definition.

- The Merkle root. The code keeps the coinbase's place at the head of each level
  with null, the daemon has the coinbase in it. `BranchIsJoined`: joining pairs
  of a level with a branch at its head is joining the branch with the next hash
  and the rest among themselves. `StepsFollowLevels`: the hash a miner has after
  k steps, before the k-th level of the code, is the k-th level of the daemon.
  The code's levels end (`LevelsEnd`), and the daemon's has one hash just there.
  Hence `WithFirstIsMerkleRoot`, for any number of transactions.
- What is written is read. `IsAt(s, b, i)` says that the bytes s stand in b at i;
  `PartsAreAt` and `BehindIsAt` take a concatenation apart and put it together.
  `PackedIsRead`, `VarIntIsRead` and `NumberIsRead` are the round trips of
  numbers (the last for every number below 2^31, where the sign of the last
  byte counts), `OutputsAreRead` of any number of outputs, `CoinbaseIsRead` and
  `ScriptIsRead` of the transaction and its script.
- `JobInv`: a job is what the constructor makes of its template at a second at
  which it does not throw, and what is in `thrown` throws at this second. With
  the lemmas above it implies all but one of the invariants; `ThrownForAReason`
  follows from the lengths of what is in the script and, for the version, from
  `BlockAssumption`: an int32 that is not negative is a uint32.
- The work tells its job. `CountedTwiceOnlyInASecond` is read backwards: from
  equal work to equal second and template. `StepsTellTransactions`: the steps
  are as many as the levels, and as a join tells its two halves, each level
  tells the one before it, down to the transactions. That needs distinct ids: a
  list whose last one is there twice has the root of the one where it is there
  once. The header's version, previous hash and bits are told by
  `Int32IsTold` and `ReversedIsTold`; height, time, flags and extra nonces by
  `ScriptIsTold`, and the outputs by their order and by which of them begin with
  OP_RETURN. The flags end where the time begins, and that is the weak spot: of a
  time encoded in fewer bytes the rest could be flags. Hence `ClockInv`: jobs are
  made from `Early` on, where the time takes four bytes, because the second only
  grows, and what it is after it left int32 no job can be made at.

The assumptions: `TemplateAssumption` of `Job` bounds what the daemon
sends (heights below 2^31, amounts that fit `packInt64LE`, a commitment and a
number of transactions that fit `packVarInt`), and says that znode and commitment
are there at most once, as the code reads one of each; `ShareAssumption` of `Job`
says that the extra nonces fill their 16 bytes, which the submit handler checks
of the second (`class.ShareProcessor.js:168`) and the counter gives the first;
`CoinbaseAssumption`: five founders, and a signature of bytes; `JobBounds`: the
clock starts within int32. `BlockAssumption` is what makes a template one of a
valid block: the version is an int32, no transaction is in it twice, and the
commitment's script begins with OP_RETURN (BIP 141). `ThrownForAReason` cites it
for the version: a job can be made of no version past 32 bits. It and
`ClockAssumption`, that the clock starts after April of 1970 and does not go
through all of int32 while the pool runs (68 years), are cited for
`CountedTwiceOnlyInASecond`, which is false without them, if only for templates
no daemon sends and clocks no machine shows.

Each inductive invariant was checked by TLC on the run of its module before it
was proved.

Only model-checked: liveness (`FollowsTip`, `BlockSharesAreReported`,
`IdleClientsGo`, `StartEndsUnlessUnheard`), which is out of the prover's reach;
of the last one the safety half is proved, as `HangsForAReason`.

## Plan

Done: the models and runs above, and a theorem for every safety property.
Next, in this order:

1. The request slots of `StratumPool` as an `Rpc`, which needs a name for each
   request that takes one.
2. Several sessions with the work feed and the shares composed.

## Not modelled

- The packages behind the code: bos (framing), hasher-mtp (proof of work, an
  open verdict in `Submit`), bignum, base58, async (its waterfall calls the
  next function or the last, once).
- The request ids of answers.
- `config.coinbaseSignature`, which `class.StratumPool.js:45` documents and
  `start.js:16` sets: line 51 reads `args.coinbaseSignature`, so that it is
  ignored and the default of line 127 goes into the coinbase. `Signature` of
  `Coinbase` stands for what `pool.coinbaseSignature` is, whatever it should be;
  no run is about this.
- Floating point: difficulties computed from targets and targets from
  difficulties (`getTargetHex`, `packUInt256LE`); the models compare
  difficulties as integers.
- The positions of fields within a header and the bytes of the MTP proof;
  `getHashProof` and the tree's `root`, which nothing uses.
- Addresses that do not decode, and signatures that are not ASCII (their length
  is counted in characters).
- The wrap of extraNonce1 as it is: 2^64 connections are out of reach. The model
  has the comparison and the reset at a small limit; that the last value does not
  fit its 8 bytes is left out.
- The effect on the work feed of a template no Job can be made from: the process
  ends (`thrown` in `Job`).
- Logging, events for information only, `write()`, the getters.
- `start.js`, `index.js`, `package.json`: no state.
