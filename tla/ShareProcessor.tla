--------------------------- MODULE ShareProcessor ---------------------------
(***************************************************************************)
(* The way of a share: class.ShareProcessor.js decides on it, with the     *)
(* duplicate check of class.Job.js, and StratumPool.submitShare reports    *)
(* it, after the daemon has been asked twice where it solves a block.      *)
(*                                                                         *)
(* A nonce stands for the nonce, extraNonce2 and nTime a share carries.    *)
(* The difficulty of the hash they lead to is the nonce itself, a number.  *)
(* Templates have the further field difficulty, the network's.  Ids are    *)
(* not used twice here (JobManager is about that), so that an id names one *)
(* Job object and a share is named by job id, client and nonce.            *)
(***************************************************************************)
EXTENDS JobManager, Sequences

CONSTANTS Client,     \* authorized clients, each with an extraNonce1
          Nonce,      \* a set of positive numbers
          Difficulty, \* what enqueueNextDifficulty is called with
          PortDifficulty, \* config.port.diff
          MaxUnheard  \* bound on the targets on their way to a client

VARIABLES
    session,     \* session[c]: the difficulties of client c
    submissions, \* submissions[i]: submissionObjMap of job i
    answer,      \* the error in the last answer to mining.submit, "ok" if none
    stage,       \* stage[s]: what the daemon is being asked about share s, or
                 \* "unheard" where its answer was dropped
    daemonHas,   \* daemon: the shares whose blocks it has accepted
    reports,     \* reports[s]: how often s was reported with isValidShare
    blocks,      \* the shares reported with isValidBlock
    crashed      \* an exception nobody caught has ended the process

shareVars == <<jobVars, session, submissions, answer, stage, daemonHas, reports,
               blocks, crashed>>
asked   == <<stage, daemonHas>>
told    == <<reports, blocks>>

ASSUME ShareAssumption ==
    /\ Nonce \subseteq Nat \ {0}
    /\ Difficulty \subseteq Nat \ {0}
    /\ PortDifficulty \in Nat \ {0}
    /\ MaxUnheard \in Nat
    /\ \A t \in Template : t.difficulty \in Nat

\* difficulty, previousDifficulty (vars) and pendingDifficulty (0 for null) of
\* a StratumClient; unheard, the targets sent that its shares do not follow
\* yet; and target, the difficulty of the target they do follow.
Session == [difficulty : Nat, previousDifficulty : Nat,
            pendingDifficulty : Nat, unheard : Seq(Nat), target : Nat]
NewSession == [difficulty |-> 0, previousDifficulty |-> 0,
               pendingDifficulty |-> 0, unheard |-> <<>>, target |-> 0]

Share == JobId \X Client \X Nonce
JobOf(s) == s[1]
Key(s)   == <<s[2], s[3]>>
Error == {"ok", "malformed", "stale", "time", "duplicate", "proof", "low"}
Stage == {"none", "submitblock", "getblock", "unheard"}

-----------------------------------------------------------------------------

ShareInit ==
    /\ JobInit
    /\ submissions = [i \in JobId |-> {}]
    /\ session = [c \in Client |-> NewSession]
    /\ answer = "ok"
    /\ stage = [s \in Share |-> "none"]
    /\ daemonHas = {}
    /\ reports = [s \in Share |-> 0]
    /\ blocks = {}
    /\ crashed = FALSE

\* Seeded bug: the difficulty is stored before the one it replaces is kept.
SendDifficultyStored(v, diff, job) ==
    LET capped == IF diff <= job.template.difficulty THEN diff
                  ELSE job.template.difficulty
    IN  IF diff = v.difficulty THEN v
        ELSE [v EXCEPT !.previousDifficulty = capped,
                       !.difficulty = capped,
                       !.unheard = Append(@, capped)]

\* sendDifficulty, on a session v: nothing is sent for the difficulty the
\* client has; what is sent is capped by that of the current job.
SendDifficulty(v, diff, job) ==
    LET capped == IF diff <= job.template.difficulty THEN diff
                  ELSE job.template.difficulty
    IN  IF diff = v.difficulty THEN v
        ELSE [v EXCEPT !.previousDifficulty = v.difficulty,
                       !.difficulty = capped,
                       !.unheard = Append(@, capped)]

\* sendMiningJob: the pending difficulty goes with the job.
SendMiningJob(v, job) ==
    IF v.pendingDifficulty = 0 THEN v
    ELSE [SendDifficulty(v, v.pendingDifficulty, job)
             EXCEPT !.pendingDifficulty = 0]

\* Bound of the model.
FewUnheard(c) == Len(session'[c].unheard) <= MaxUnheard

\* A template arrives.  A new Job starts with an empty submissionObjMap; it
\* is sent to all clients where it is for a new block, or the broadcast timer
\* asked (updateJob).
NewTemplate(t, updateJob) ==
    /\ counter < IdLimit - 1
    /\ ProcessTemplate(t)
    /\ submissions' = IF counter' = counter THEN submissions
                      ELSE [submissions EXCEPT ![counter'] = {}]
    /\ session' = IF NewWork(t) \/ updateJob
                  THEN [c \in Client |-> SendMiningJob(session[c], currentJob')]
                  ELSE session
    /\ \A c \in Client : FewUnheard(c)
    /\ UNCHANGED <<answer, asked, told>>

\* authorizeCallback, also of a client that is authorized already.
Authorize(c) ==
    /\ currentJob # NoJob
    /\ session' = [session EXCEPT ![c] =
                     SendMiningJob(SendDifficulty(@, PortDifficulty, currentJob),
                                   currentJob)]
    /\ FewUnheard(c)
    /\ UNCHANGED <<jobVars, submissions, answer, asked, told>>

\* The embedding program retargets a client that mines.
EnqueueNextDifficulty(c, diff) ==
    /\ session[c].difficulty # 0
    /\ session' = [session EXCEPT ![c].pendingDifficulty = diff]
    /\ UNCHANGED <<jobVars, submissions, answer, asked, told>>

\* The miner has changed to the next target, and the shares it found before
\* have arrived.
Hear(c) ==
    /\ session[c].unheard # <<>>
    /\ session' = [session EXCEPT ![c].target = Head(session[c].unheard),
                                  ![c].unheard = Tail(@)]
    /\ UNCHANGED <<jobVars, submissions, answer, asked, told>>

-----------------------------------------------------------------------------
\* ShareProcessor.submit, with what pool.submitShare does in the same turn.

\* Refused before the duplicate check.
Refuse(error) ==
    /\ answer' = error
    /\ UNCHANGED <<submissions, asked, told>>

\* job.registerSubmit: true where the submission is new.
IsNewSubmission(s) == Key(s) \notin submissions[JobOf(s)]
Register(s) ==
    submissions' = [submissions EXCEPT ![JobOf(s)] = @ \cup {Key(s)}]

\* targetBn.ge(header).
SolvesBlock(s) == s[3] >= validJobs[JobOf(s)].template.difficulty

\* shareDiff against the client's difficulty, with a hundredth of tolerance,
\* then against the one before, if there was one.
MeetsDifficulty(s) ==
    LET v == session[s[2]]
    IN  \/ s[3] * 100 >= v.difficulty * 99
        \/ v.previousDifficulty # 0 /\ s[3] >= v.previousDifficulty

\* Seeded bug: the client's difficulty is looked at first.
DecideLowFirst(s) ==
    \/ /\ ~MeetsDifficulty(s)
       /\ answer' = "low"
       /\ UNCHANGED <<asked, told>>
    \/ /\ MeetsDifficulty(s) /\ SolvesBlock(s)
       /\ answer' = "ok"
       /\ stage' = [stage EXCEPT ![s] = "submitblock"]
       /\ UNCHANGED <<daemonHas, told>>
    \/ /\ MeetsDifficulty(s) /\ ~SolvesBlock(s)
       /\ answer' = "ok"
       /\ reports' = [reports EXCEPT ![s] = @ + 1]
       /\ UNCHANGED <<asked, blocks>>

\* The end of submit for a share whose proof was verified: EVENT_SHARE_SUBMITTED
\* for a share that solves no block, submitblock for one that does.
Decide(s) ==
    \/ /\ SolvesBlock(s)
       /\ answer' = "ok"
       /\ stage' = [stage EXCEPT ![s] = "submitblock"]
       /\ UNCHANGED <<daemonHas, told>>
    \/ /\ ~SolvesBlock(s) /\ MeetsDifficulty(s)
       /\ answer' = "ok"
       /\ reports' = [reports EXCEPT ![s] = @ + 1]
       /\ UNCHANGED <<asked, blocks>>
    \/ /\ ~SolvesBlock(s) /\ ~MeetsDifficulty(s)
       /\ answer' = "low"
       /\ UNCHANGED <<asked, told>>

\* _tryInvalidate, in its order, and the rest of submit.  The parameters are
\* free but for the job, the client and the nonce: one of them may have a wrong
\* type or size, nTime be out of range, the proofs be bad.  The client is
\* authorized, so that it was sent a difficulty before (see StratumClient).
Submit(s) ==
    LET job == validJobs[JobOf(s)]
    IN  /\ session[s[2]].difficulty # 0
        /\ \/ Refuse("malformed")
           \/ job = NoJob /\ Refuse("stale")
           \/ job # NoJob /\ Refuse("time")
           \/ job # NoJob /\ ~IsNewSubmission(s) /\ Refuse("duplicate")
           \/ /\ job # NoJob /\ IsNewSubmission(s)
              /\ Register(s)
              /\ \/ Decide(s)
                 \/ answer' = "proof" /\ UNCHANGED <<asked, told>>
        /\ UNCHANGED <<jobVars, session>>

\* A parameter other than the job id is nothing that has a length: the answer
\* that it is malformed would hold it in hexadecimals, and leToHex throws.
SubmitThrows(c) ==
    /\ session[c].difficulty # 0
    /\ crashed' = TRUE
    /\ UNCHANGED <<jobVars, submissions, session, answer, asked, told>>

-----------------------------------------------------------------------------
\* submitShare for a block, and the daemon.

\* Seeded bug: the verdict stays what it was before the daemon was asked.
ReportAsValid(s, isAccepted) ==
    /\ stage' = [stage EXCEPT ![s] = "none"]
    /\ reports' = [reports EXCEPT ![s] = @ + 1]
    /\ blocks' = blocks \cup {s}

\* completeCallback: the share is reported, with the verdict on the block.
Report(s, isAccepted) ==
    /\ stage' = [stage EXCEPT ![s] = "none"]
    /\ reports' = [reports EXCEPT ![s] = @ + 1]
    /\ blocks' = IF isAccepted THEN blocks \cup {s} ELSE blocks

\* The daemon accepts the block; submitblock's answer to that may yet be lost.
DaemonAccepts(s) ==
    /\ stage[s] = "submitblock" /\ s \notin daemonHas
    /\ daemonHas' = daemonHas \cup {s}
    /\ UNCHANGED <<jobVars, submissions, session, answer, stage, told>>

\* submitblock answered null: the daemon has the block, and is asked for it.
SubmitBlockDone(s) ==
    /\ stage[s] = "submitblock" /\ s \in daemonHas
    /\ stage' = [stage EXCEPT ![s] = "getblock"]
    /\ UNCHANGED <<jobVars, submissions, session, answer, daemonHas, told>>

\* Seeded bugs: the return after the error is missing, so that both callbacks
\* are called; the error is logged and not passed on.
SubmitBlockFailedGoesOn(s) ==
    /\ stage[s] = "submitblock"
    /\ reports' = [reports EXCEPT ![s] = @ + 1]
    /\ stage' = [stage EXCEPT ![s] = "getblock"]
    /\ UNCHANGED <<jobVars, submissions, session, answer, daemonHas, blocks>>

SubmitBlockFailedSilently(s) ==
    /\ stage[s] = "submitblock"
    /\ stage' = [stage EXCEPT ![s] = "none"]
    /\ UNCHANGED <<jobVars, submissions, session, answer, daemonHas, told>>

\* submitblock answered an error or a reason for rejecting the block.
SubmitBlockFailed(s) ==
    /\ stage[s] = "submitblock"
    /\ Report(s, FALSE)
    /\ UNCHANGED <<jobVars, submissions, session, answer, daemonHas>>

\* getblock answered the block, or an error.
GetBlockDone(s) ==
    /\ stage[s] = "getblock"
    /\ \/ s \in daemonHas /\ Report(s, TRUE)
       \/ Report(s, FALSE)
    /\ UNCHANGED <<jobVars, submissions, session, answer, daemonHas>>

-----------------------------------------------------------------------------

\* The answer about s is a 401 or no JSON: Daemon calls nobody back.
AnswerDropped(s) ==
    /\ stage[s] \in {"submitblock", "getblock"}
    /\ stage' = [stage EXCEPT ![s] = "unheard"]
    /\ UNCHANGED <<jobVars, submissions, session, answer, daemonHas, told>>

\* The answer about s is what Daemon parses for ever, until the stack is full.
AnswerThrows(s) ==
    /\ stage[s] \in {"submitblock", "getblock"}
    /\ crashed' = TRUE
    /\ UNCHANGED <<jobVars, submissions, session, answer, asked, told>>

\* The request about s comes to an end, while the process lives.
SubmitBlockEnds(s) ==
    /\ ~crashed /\ stage[s] = "submitblock"
    /\ \/ /\ SubmitBlockDone(s) \/ SubmitBlockFailed(s) \/ AnswerDropped(s)
          /\ UNCHANGED crashed
       \/ AnswerThrows(s)

GetBlockEnds(s) ==
    /\ ~crashed /\ stage[s] = "getblock"
    /\ \/ /\ GetBlockDone(s) \/ AnswerDropped(s)
          /\ UNCHANGED crashed
       \/ AnswerThrows(s)

-----------------------------------------------------------------------------

\* What happens without an exception, but for the ends of requests.
Work ==
    \/ \E t \in Template, updateJob \in BOOLEAN : NewTemplate(t, updateJob)
    \/ \E c \in Client :
          \/ Authorize(c)
          \/ \E diff \in Difficulty : EnqueueNextDifficulty(c, diff)
          \/ Hear(c)
    \/ \E s \in Share : Submit(s) \/ DaemonAccepts(s)

ShareNext ==
    \/ ~crashed /\ Work /\ UNCHANGED crashed
    \/ \E c \in Client : ~crashed /\ SubmitThrows(c)
    \/ \E s \in Share : SubmitBlockEnds(s) \/ GetBlockEnds(s)

ShareSpec == ShareInit /\ [][ShareNext]_shareVars

\* Each request comes to an end, be it that nobody hears of it (the connection
\* is closed at last if it is dead; cmd has no timeout of its own).
FairShareSpec ==
    /\ ShareSpec
    /\ \A s \in Share :
          WF_shareVars(SubmitBlockEnds(s)) /\ WF_shareVars(GetBlockEnds(s))

-----------------------------------------------------------------------------

\* Types of the share accounting.
ShareTypeOK ==
    /\ JobTypeOK
    /\ submissions \in [JobId -> SUBSET (Client \X Nonce)]
    /\ session \in [Client -> Session]
    /\ answer \in Error
    /\ stage \in [Share -> Stage]
    /\ daemonHas \in SUBSET Share
    /\ reports \in [Share -> Nat]
    /\ blocks \in SUBSET Share
    /\ crashed \in BOOLEAN

\* However often a share is sent, and whatever the daemon answers about its
\* block, it is reported as valid at most once for its job, and a share whose
\* block the daemon is being asked about has not been reported yet.
ReportedOnce ==
    \A s \in Share :
        /\ reports[s] <= 1
        /\ stage[s] # "none" => reports[s] = 0

\* The accounting seen as a ledger of the shares of its jobs.
Ledger == INSTANCE ShareLedger WITH
             judged <- {s \in Share : Key(s) \in submissions[JobOf(s)]},
             asked  <- {s \in Share : stage[s] # "none"}

\* A share is judged once, when it is first registered: one that was refused
\* then, be it for bad proofs, is refused for good, one that was counted or is
\* with the daemon is not counted again, and the daemon's answers, errors and
\* all, end in one report.
ImplementsLedger == Ledger!Spec

\* A share starts being counted (it is reported, or its block submitted) only
\* while its job builds on the block the pool mines on: work for a block
\* already mined, or orphaned, earns nothing.
CountsOnTheTipOnly ==
    [][\A s \in Share :
          Key(s) \notin submissions[JobOf(s)]
            /\ (reports'[s] # reports[s] \/ stage'[s] # stage[s])
          => /\ validJobs[JobOf(s)] # NoJob
             /\ validJobs[JobOf(s)].template.prev = currentJob.template.prev]_shareVars

\* A solution of a block is never thrown away as a share of low difficulty,
\* whatever difficulty the client has been given meanwhile.
BlockIsNeverLow ==
    [][\A s \in Share :
          Key(s) \in submissions'[JobOf(s)] \ submissions[JobOf(s)]
            /\ s[3] >= validJobs[JobOf(s)].template.difficulty
          => answer' # "low"]_shareVars

\* A miner is not refused a share that meets the target it works at, nor one
\* it found before it heard of the next target: while at most one target is
\* on its way to it, "low difficulty" is answered only below its own target.
\* The pool knows nothing of what the miner has heard; it keeps the difficulty
\* before the last one (previousDifficulty) for that.
TargetsAreHonoured ==
    [][\A s \in Share :
          Key(s) \in submissions'[JobOf(s)] \ submissions[JobOf(s)]
            /\ answer' = "low"
          => \/ s[3] < session[s[2]].target
             \/ session[s[2]].target = 0
             \/ Len(session[s[2]].unheard) > 1]_shareVars

\* A block is reported as valid only if the daemon did accept it.
ReportedBlocksAreAccepted == blocks \subseteq daemonHas

\* A share that solves a block, which the daemon was asked about, is reported
\* in the end, whatever the daemon answers and in whatever order the questions
\* about several blocks end, but for two cases: the answer was one Daemon drops,
\* or the process has ended.
BlockSharesAreReported ==
    \A s \in Share :
        stage[s] \in {"submitblock", "getblock"} ~>
            reports[s] = 1 \/ stage[s] = "unheard" \/ crashed
=============================================================================
