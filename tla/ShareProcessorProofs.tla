------------------------- MODULE ShareProcessorProofs -------------------------
(***************************************************************************)
(* The accounting of shares, proved for every set of clients, nonces and   *)
(* templates, any difficulties and any number of targets under way: a      *)
(* share is reported once, counts on the tip only, is refused as low only  *)
(* below what its miner was told, and never where it solves a block.       *)
(***************************************************************************)
EXTENDS ShareProcessor, JobManagerProofs

-----------------------------------------------------------------------------
\* The difficulties of a session.

\* The difficulty is the one told last, and the one before it is the previous
\* difficulty, where the miner has not heard of both yet.
Follows(v) ==
    /\ v.unheard = <<>> => v.target = v.difficulty
    /\ v.unheard # <<>> => v.unheard[Len(v.unheard)] = v.difficulty
    /\ Len(v.unheard) = 1 => v.target = v.previousDifficulty
    /\ Len(v.unheard) > 1 =>
          v.unheard[Len(v.unheard) - 1] = v.previousDifficulty

LEMMA SendDifficultyFollows ==
    ASSUME NEW v \in Session, Follows(v), NEW diff \in Nat, NEW job,
           job.template.difficulty \in Nat
    PROVE  /\ SendDifficulty(v, diff, job) \in Session
           /\ Follows(SendDifficulty(v, diff, job))
<1>1. CASE diff = v.difficulty  BY <1>1 DEF SendDifficulty
<1>2. CASE diff # v.difficulty
  <2> DEFINE capped == IF diff <= job.template.difficulty THEN diff
                       ELSE job.template.difficulty
             sent == [v EXCEPT !.previousDifficulty = v.difficulty,
                               !.difficulty = capped,
                               !.unheard = Append(v.unheard, capped)]
  <2>1. capped \in Nat  OBVIOUS
  <2>2. SendDifficulty(v, diff, job) = sent  BY <1>2 DEF SendDifficulty
  <2> HIDE DEF capped
  <2>3. /\ v.unheard \in Seq(Nat) /\ v.difficulty \in Nat
        /\ v.previousDifficulty \in Nat
    BY DEF Session
  <2>4. /\ Append(v.unheard, capped) \in Seq(Nat)
        /\ Len(Append(v.unheard, capped)) = Len(v.unheard) + 1
        /\ Append(v.unheard, capped)[Len(v.unheard) + 1] = capped
        /\ \A i \in 1 .. Len(v.unheard) :
              Append(v.unheard, capped)[i] = v.unheard[i]
    BY <2>1, <2>3
  <2>5. /\ sent.unheard = Append(v.unheard, capped)
        /\ sent.difficulty = capped
        /\ sent.previousDifficulty = v.difficulty
        /\ sent.target = v.target
        /\ sent \in Session
    BY <2>1, <2>3, <2>4 DEF Session
  <2>6. CASE v.unheard = <<>>
    BY <2>2, <2>3, <2>4, <2>5, <2>6 DEF Follows
  <2>7. CASE v.unheard # <<>>
    <3>1. Len(v.unheard) \in Nat \ {0}  BY <2>3, <2>7
    <3> HIDE DEF sent
    <3>2. QED  BY <2>2, <2>4, <2>5, <2>7, <3>1 DEF Follows
  <2>8. QED  BY <2>6, <2>7
<1>3. QED  BY <1>1, <1>2

LEMMA SendMiningJobFollows ==
    ASSUME NEW v \in Session, Follows(v), NEW job,
           job.template.difficulty \in Nat
    PROVE  /\ SendMiningJob(v, job) \in Session
           /\ Follows(SendMiningJob(v, job))
<1>1. CASE v.pendingDifficulty = 0  BY <1>1 DEF SendMiningJob
<1>2. CASE v.pendingDifficulty # 0
  <2> DEFINE sent == SendDifficulty(v, v.pendingDifficulty, job)
  <2>1. v.pendingDifficulty \in Nat  BY DEF Session
  <2>2. sent \in Session /\ Follows(sent)  BY <2>1, SendDifficultyFollows
  <2>3. SendMiningJob(v, job) = [sent EXCEPT !.pendingDifficulty = 0]
    BY <1>2 DEF SendMiningJob
  <2> HIDE DEF sent
  <2>4. QED  BY <2>2, <2>3 DEF Session, Follows
<1>3. QED  BY <1>1, <1>2

LEMMA EmptyIsNone ==
    ASSUME NEW q \in Seq(Nat)
    PROVE  /\ Len(q) \in Nat
           /\ q = <<>> <=> Len(q) = 0
OBVIOUS

\* The miner hears of a target.
Heard(v) == [v EXCEPT !.target = Head(v.unheard), !.unheard = Tail(v.unheard)]

LEMMA HearFollows ==
    ASSUME NEW v \in Session, Follows(v), v.unheard # <<>>
    PROVE  Heard(v) \in Session /\ Follows(Heard(v))
<1> DEFINE queue == v.unheard
           rest == Tail(v.unheard)
<1>1. queue \in Seq(Nat) /\ Len(queue) \in Nat \ {0}
  BY DEF Session
<1>2. /\ Head(queue) = queue[1]
      /\ Head(queue) \in Nat
      /\ rest \in Seq(Nat)
      /\ Len(rest) = Len(queue) - 1
      /\ \A i \in 1 .. Len(queue) - 1 : rest[i] = queue[i + 1]
  BY <1>1
<1>3. /\ Heard(v) \in Session
      /\ Heard(v).target = queue[1] /\ Heard(v).unheard = rest
      /\ Heard(v).difficulty = v.difficulty
      /\ Heard(v).previousDifficulty = v.previousDifficulty
  BY <1>2 DEF Session, Heard
<1>4. rest = <<>> <=> Len(rest) = 0  BY <1>2, EmptyIsNone
<1>5. /\ queue[Len(queue)] = v.difficulty
      /\ Len(queue) > 1 => queue[Len(queue) - 1] = v.previousDifficulty
  BY DEF Follows
<1> HIDE DEF queue, rest
<1>6. CASE Len(queue) = 1  BY <1>2, <1>3, <1>4, <1>5, <1>6 DEF Follows
<1>7. CASE Len(queue) > 1
  <2>1. Len(rest) \in 1 .. Len(queue) - 1  BY <1>1, <1>2, <1>7
  <2>2. rest[Len(rest)] = v.difficulty
    <3>1. rest[Len(rest)] = queue[Len(rest) + 1]  BY <1>2, <2>1
    <3>2. Len(rest) + 1 = Len(queue)  BY <1>1, <1>2
    <3>3. QED  BY <1>5, <3>1, <3>2
  <2>3. CASE Len(rest) = 1
    <3>1. queue[Len(queue) - 1] = queue[1]  BY <1>1, <1>2, <2>3
    <3>2. QED  BY <1>3, <1>4, <1>5, <1>7, <2>2, <2>3, <3>1 DEF Follows
  <2>4. CASE Len(rest) > 1
    <3>1. Len(rest) - 1 \in 1 .. Len(queue) - 1
      BY <1>1, <1>2, <2>4
    <3>2. rest[Len(rest) - 1] = queue[(Len(rest) - 1) + 1]  BY <1>2, <3>1
    <3>3. (Len(rest) - 1) + 1 = Len(queue) - 1  BY <1>1, <1>2
    <3>4. rest[Len(rest) - 1] = v.previousDifficulty
      BY <1>5, <1>7, <3>2, <3>3
    <3>5. QED  BY <1>3, <1>4, <2>1, <2>2, <2>4, <3>4 DEF Follows
  <2>5. QED  BY <2>1, <2>3, <2>4, <1>1, <1>2
<1>8. Len(queue) = 1 \/ Len(queue) > 1
  <2>1. \A n \in Nat \ {0} : n = 1 \/ n > 1  OBVIOUS
  <2>2. QED  BY <1>1, <2>1
<1>9. QED  BY <1>6, <1>7, <1>8

-----------------------------------------------------------------------------
\* Types.

\* A share is named by its job, its client and its nonce.
LEMMA ShareIsNamed ==
    ASSUME NEW s \in Share
    PROVE  /\ JobOf(s) \in JobId /\ Key(s) \in Client \X Nonce
           /\ s[2] \in Client /\ s[3] \in Nat
           /\ \A u \in Share : JobOf(u) = JobOf(s) /\ Key(u) = Key(s) => u = s
<1>1. JobOf(s) \in JobId /\ Key(s) \in Client \X Nonce /\ s[2] \in Client
  BY DEF Share, JobOf, Key
<1>2. s[3] \in Nat  BY ShareAssumption DEF Share
<1>3. ASSUME NEW u \in Share, JobOf(u) = JobOf(s), Key(u) = Key(s)
      PROVE  u = s
  <2>1. u[1] = s[1]  BY <1>3 DEF JobOf
  <2>2. u[2] = s[2] /\ u[3] = s[3]  BY <1>3 DEF Key
  <2>3. u = <<u[1], u[2], u[3]>> /\ s = <<s[1], s[2], s[3]>>  BY DEF Share
  <2>4. QED  BY <2>1, <2>2, <2>3
<1>4. QED  BY <1>1, <1>2, <1>3

\* What a share that is submitted brings about: nothing but an answer; or it
\* is registered for its job, which is valid, and then reported, sent to the
\* daemon, or refused.
LEMMA SubmitOutcomes ==
    ASSUME NEW s \in Share, Submit(s)
    PROVE  /\ UNCHANGED <<jobVars, session, daemonHas, blocks>>
           /\ \/ UNCHANGED <<submissions, stage, reports>>
              \/ /\ validJobs[JobOf(s)] # NoJob
                 /\ Key(s) \notin submissions[JobOf(s)]
                 /\ Register(s)
                 /\ answer' = "low" => ~SolvesBlock(s) /\ ~MeetsDifficulty(s)
                 /\ \/ UNCHANGED <<stage, reports>>
                    \/ /\ stage' = [stage EXCEPT ![s] = "submitblock"]
                       /\ UNCHANGED reports
                    \/ /\ reports' = [reports EXCEPT ![s] = @ + 1]
                       /\ UNCHANGED stage
           /\ answer' \in Error
BY DEF Submit, Refuse, Decide, IsNewSubmission, asked, told, Error

\* What the daemon's answers bring about for the block of a share.
DaemonStep(s) ==
    DaemonAccepts(s) \/ SubmitBlockDone(s) \/ SubmitBlockFailed(s)
        \/ GetBlockDone(s) \/ AnswerDropped(s)

LEMMA DaemonOutcomes ==
    ASSUME NEW s \in Share, DaemonStep(s)
    PROVE  /\ UNCHANGED <<jobVars, submissions, session, answer>>
           /\ stage[s] # "none"
           /\ \/ /\ daemonHas' = daemonHas \cup {s}
                 /\ UNCHANGED <<stage, reports, blocks>>
              \/ /\ \/ stage' = [stage EXCEPT ![s] = "getblock"]
                    \/ stage' = [stage EXCEPT ![s] = "unheard"]
                 /\ UNCHANGED <<daemonHas, reports, blocks>>
              \/ /\ stage' = [stage EXCEPT ![s] = "none"]
                 /\ reports' = [reports EXCEPT ![s] = @ + 1]
                 /\ \/ UNCHANGED blocks
                    \/ s \in daemonHas /\ blocks' = blocks \cup {s}
                 /\ UNCHANGED daemonHas
<1>1. CASE DaemonAccepts(s)  BY <1>1 DEF DaemonAccepts, told
<1>2. CASE SubmitBlockDone(s)  BY <1>2 DEF SubmitBlockDone, told
<1>3. CASE SubmitBlockFailed(s)  BY <1>3 DEF SubmitBlockFailed, Report
<1>4. CASE GetBlockDone(s)  BY <1>4 DEF GetBlockDone, Report
<1>5. CASE AnswerDropped(s)  BY <1>5 DEF AnswerDropped, told
<1>6. QED  BY <1>1, <1>2, <1>3, <1>4, <1>5 DEF DaemonStep

\* The process ends, and nothing else changes.
Crash ==
    /\ crashed' = TRUE
    /\ UNCHANGED <<jobVars, submissions, session, answer, asked, told>>

\* What happens to a client, apart from its shares.
ClientStep(c) ==
    \/ Authorize(c)
    \/ \E diff \in Difficulty : EnqueueNextDifficulty(c, diff)
    \/ Hear(c)

LEMMA ShareNextCases ==
    ASSUME ShareNext
    PROVE  /\ \/ \E t \in Template, updateJob \in BOOLEAN :
                    NewTemplate(t, updateJob)
              \/ \E c \in Client : ClientStep(c)
              \/ \E s \in Share : Submit(s) \/ DaemonStep(s)
              \/ Crash
           /\ crashed' \in {crashed, TRUE}
<1>1. CASE ~crashed /\ Work /\ UNCHANGED crashed
  BY <1>1 DEF Work, ClientStep, DaemonStep
<1>2. ASSUME NEW c \in Client, SubmitThrows(c)
      PROVE  Crash
  BY <1>2 DEF SubmitThrows, Crash
<1>3. ASSUME NEW s \in Share, SubmitBlockEnds(s) \/ GetBlockEnds(s)
      PROVE  (DaemonStep(s) /\ UNCHANGED crashed) \/ Crash
  BY <1>3 DEF SubmitBlockEnds, GetBlockEnds, DaemonStep, AnswerThrows, Crash
<1>4. Crash => crashed' = TRUE  BY DEF Crash
<1>5. QED  BY <1>1, <1>2, <1>3, <1>4 DEF ShareNext

LEMMA ShareStepTypes ==
    ASSUME ShareTypeOK, NEW s \in Share, Submit(s) \/ DaemonStep(s),
           crashed' \in BOOLEAN
    PROVE  ShareTypeOK'
<1> USE DEF ShareTypeOK
<1>1. UNCHANGED jobVars /\ session' = session
  BY SubmitOutcomes, DaemonOutcomes
<1>2. JobTypeOK'  BY <1>1 DEF jobVars, JobTypeOK
<1>3. answer' \in Error  BY SubmitOutcomes, DaemonOutcomes
<1>4. submissions' \in [JobId -> SUBSET (Client \X Nonce)]
  <2>1. UNCHANGED submissions \/ Register(s)
    BY SubmitOutcomes, DaemonOutcomes
  <2>2. QED  BY <2>1, ShareIsNamed DEF Register
<1>5. stage' \in [Share -> Stage]
  BY SubmitOutcomes, DaemonOutcomes DEF Stage
<1>6. reports' \in [Share -> Nat]  BY SubmitOutcomes, DaemonOutcomes
<1>7. daemonHas' \in SUBSET Share /\ blocks' \in SUBSET Share
  BY SubmitOutcomes, DaemonOutcomes
<1>8. QED  BY <1>1, <1>2, <1>3, <1>4, <1>5, <1>6, <1>7

\* A job is issued under the next number, and its submissions start empty.
LEMMA TemplateOutcomes ==
    ASSUME JobTypeOK, NEW t \in Template, NEW updateJob \in BOOLEAN,
           NewTemplate(t, updateJob)
    PROVE  /\ \/ UNCHANGED <<jobVars, submissions>>
              \/ /\ counter' = counter + 1 /\ counter + 1 \in JobId
                 /\ submissions' = [submissions EXCEPT ![counter + 1] = {}]
                 /\ \A i \in JobId \ {counter + 1} :
                       validJobs'[i] \in {NoJob, validJobs[i]}
           /\ UNCHANGED <<answer, stage, daemonHas, reports, blocks>>
<1>1. /\ counter \in Nat /\ IdLimit \in Nat /\ counter < IdLimit - 1
  BY IdLimitAssumption DEF NewTemplate, JobTypeOK
<1>2. NextId = counter + 1  BY <1>1, NextIdIsId DEF JobTypeOK
<1>3. counter + 1 \in JobId  BY <1>1 DEF JobId
<1>4. CASE UNCHANGED jobVars
  BY <1>4 DEF NewTemplate, jobVars, asked, told
<1>5. CASE UpdateJob(t, IsNewBlock(t))
  <2>1. counter' = counter + 1  BY <1>2, <1>5 DEF UpdateJob
  <2>2. counter' # counter  BY <1>1, <2>1
  <2>3. submissions' = [submissions EXCEPT ![counter + 1] = {}]
    BY <2>1, <2>2 DEF NewTemplate
  <2>4. \A i \in JobId \ {counter + 1} : validJobs'[i] \in {NoJob, validJobs[i]}
    BY <1>2, <1>5 DEF UpdateJob
  <2>5. QED  BY <1>3, <2>1, <2>3, <2>4 DEF NewTemplate, asked, told
<1>6. QED  BY <1>4, <1>5 DEF NewTemplate, ProcessTemplate

\* The network's difficulty that a difficulty sent is capped by is a number.
LEMMA JobDifficultyIsNumber ==
    ASSUME NEW job \in Job
    PROVE  job.template.difficulty \in Nat
BY ShareAssumption DEF Job

SessionsFollow == \A c \in Client : Follows(session[c])

LEMMA SessionSteps ==
    ASSUME ShareTypeOK, ValidJobsShareTip, SessionsFollow,
           \/ \E t \in Template, updateJob \in BOOLEAN : NewTemplate(t, updateJob)
           \/ \E c \in Client : ClientStep(c)
    PROVE  session' \in [Client -> Session] /\ SessionsFollow'
<1>0. /\ session \in [Client -> Session]
      /\ \A c \in Client : session[c] \in Session /\ Follows(session[c])
  BY DEF ShareTypeOK, SessionsFollow
<1>1. ASSUME NEW t \in Template, NEW updateJob \in BOOLEAN,
             NewTemplate(t, updateJob)
      PROVE  session' \in [Client -> Session] /\ SessionsFollow'
  <2>1. currentJob' \in Job
    BY <1>1, CurrentJobAfter DEF NewTemplate, ShareTypeOK
  <2>2. \A c \in Client : /\ SendMiningJob(session[c], currentJob') \in Session
                          /\ Follows(SendMiningJob(session[c], currentJob'))
    BY <1>0, <2>1, JobDifficultyIsNumber, SendMiningJobFollows
  <2>3. CASE session' = session  BY <1>0, <2>3 DEF SessionsFollow
  <2>4. CASE session' = [c \in Client |-> SendMiningJob(session[c], currentJob')]
    BY <2>2, <2>4 DEF SessionsFollow
  <2>5. QED  BY <1>1, <2>3, <2>4 DEF NewTemplate
<1>2. ASSUME NEW c \in Client, NEW v \in Session, Follows(v),
             session' = [session EXCEPT ![c] = v]
      PROVE  session' \in [Client -> Session] /\ SessionsFollow'
  BY <1>0, <1>2 DEF SessionsFollow
<1>3. ASSUME NEW c \in Client, Authorize(c)
      PROVE  session' \in [Client -> Session] /\ SessionsFollow'
  <2> DEFINE sent == SendDifficulty(session[c], PortDifficulty, currentJob)
             v    == SendMiningJob(sent, currentJob)
  <2>1. currentJob \in Job  BY <1>3 DEF Authorize, ShareTypeOK, JobTypeOK
  <2>2. currentJob.template.difficulty \in Nat
    BY <2>1, JobDifficultyIsNumber
  <2>3. sent \in Session /\ Follows(sent)
    BY <1>0, <2>2, ShareAssumption, SendDifficultyFollows
  <2>4. v \in Session /\ Follows(v)  BY <2>2, <2>3, SendMiningJobFollows
  <2>5. session' = [session EXCEPT ![c] = v]  BY <1>3 DEF Authorize
  <2> HIDE DEF v
  <2>6. QED  BY <1>2, <2>4, <2>5
<1>4. ASSUME NEW c \in Client, NEW diff \in Difficulty,
             EnqueueNextDifficulty(c, diff)
      PROVE  session' \in [Client -> Session] /\ SessionsFollow'
  <2> DEFINE v == [session[c] EXCEPT !.pendingDifficulty = diff]
  <2>1. diff \in Nat  BY ShareAssumption
  <2>2. v \in Session /\ Follows(v)
    BY <1>0, <2>1 DEF Session, Follows
  <2>3. session' = [session EXCEPT ![c] = v]
    BY <1>0, <1>4 DEF EnqueueNextDifficulty
  <2> HIDE DEF v
  <2>4. QED  BY <1>2, <2>2, <2>3
<1>5. ASSUME NEW c \in Client, Hear(c)
      PROVE  session' \in [Client -> Session] /\ SessionsFollow'
  <2> DEFINE v == Heard(session[c])
  <2>1. v \in Session /\ Follows(v)  BY <1>0, <1>5, HearFollows DEF Hear
  <2>2. session' = [session EXCEPT ![c] = v]
    BY <1>0, <1>5 DEF Hear, Heard, Session
  <2> HIDE DEF v
  <2>3. QED  BY <1>2, <2>1, <2>2
<1>6. QED  BY <1>1, <1>3, <1>4, <1>5 DEF ClientStep

-----------------------------------------------------------------------------
\* The inductive invariant.

\* An id that was not issued yet names no job and has no submissions.
FreshIdsAreUnused ==
    \A i \in JobId : i > counter => validJobs[i] = NoJob /\ submissions[i] = {}

\* A share that was not registered was not counted; one that was is counted
\* once at most, or is about to be.
CountedOnce ==
    \A s \in Share :
        \/ reports[s] = 0 /\ stage[s] = "none"
        \/ /\ Key(s) \in submissions[JobOf(s)]
           /\ \/ reports[s] = 1 /\ stage[s] = "none"
              \/ reports[s] = 0 /\ stage[s] # "none"

ShareInv ==
    /\ ShareTypeOK
    /\ ValidJobsShareTip
    /\ FreshIdsAreUnused
    /\ CountedOnce
    /\ ReportedBlocksAreAccepted
    /\ SessionsFollow

LEMMA ShareInitInv == ShareInit => ShareInv
<1> SUFFICES ASSUME ShareInit PROVE ShareInv
  OBVIOUS
<1>1. JobTypeOK  BY InitTypes DEF ShareInit
<1>2. ValidJobsShareTip
  BY DEF ShareInit, JobInit, ValidJobsShareTip, ValidJobs
<1>3. NewSession \in Session /\ Follows(NewSession)
  BY DEF NewSession, Session, Follows
<1>4. SessionsFollow  BY <1>3 DEF ShareInit, SessionsFollow
<1>5. ShareTypeOK  BY <1>1, <1>3 DEF ShareInit, ShareTypeOK, Error, Stage
<1>6. FreshIdsAreUnused /\ ReportedBlocksAreAccepted
  BY DEF ShareInit, JobInit, FreshIdsAreUnused, ReportedBlocksAreAccepted
<1>7. CountedOnce  BY DEF ShareInit, CountedOnce
<1>8. QED  BY <1>1, <1>2, <1>4, <1>5, <1>6, <1>7 DEF ShareInv

LEMMA TemplateKeepsInv ==
    ASSUME ShareInv, NEW t \in Template, NEW updateJob \in BOOLEAN,
           NewTemplate(t, updateJob), crashed' \in BOOLEAN
    PROVE  ShareInv'
<1> USE DEF ShareInv
<1>1. JobTypeOK /\ counter \in Nat  BY DEF ShareTypeOK, JobTypeOK
<1>2. ProcessTemplate(t)  BY DEF NewTemplate
<1>3. JobTypeOK' /\ ValidJobsShareTip'  BY <1>1, <1>2, StepTypes, StepSharesTip
<1>4. session' \in [Client -> Session] /\ SessionsFollow'  BY SessionSteps
<1>5. UNCHANGED <<answer, stage, daemonHas, reports, blocks>>
  BY <1>1, TemplateOutcomes
<1>6. submissions' = submissions /\ FreshIdsAreUnused'
  <2>1. CASE UNCHANGED <<jobVars, submissions>>
    BY <2>1 DEF jobVars, FreshIdsAreUnused
  <2>2. CASE /\ counter' = counter + 1 /\ counter + 1 \in JobId
             /\ submissions' = [submissions EXCEPT ![counter + 1] = {}]
             /\ \A i \in JobId \ {counter + 1} :
                   validJobs'[i] \in {NoJob, validJobs[i]}
    <3>1. submissions[counter + 1] = {}
      BY <1>1, <2>2 DEF FreshIdsAreUnused
    <3>2. submissions' = submissions
      BY <2>2, <3>1 DEF ShareTypeOK
    <3>3. ASSUME NEW i \in JobId, i > counter'
          PROVE  validJobs'[i] = NoJob /\ submissions'[i] = {}
      <4>1. i \in Nat /\ i > counter /\ i # counter + 1
        BY <1>1, <2>2, <3>3 DEF JobId
      <4>2. QED  BY <2>2, <3>2, <4>1 DEF FreshIdsAreUnused
    <3>4. QED  BY <3>2, <3>3 DEF FreshIdsAreUnused
  <2>3. QED  BY <2>1, <2>2, <1>1, TemplateOutcomes
<1>7. ShareTypeOK'  BY <1>3, <1>4, <1>5, <1>6 DEF ShareTypeOK
<1>8. CountedOnce' /\ ReportedBlocksAreAccepted'
  BY <1>5, <1>6 DEF CountedOnce, ReportedBlocksAreAccepted
<1>9. QED  BY <1>3, <1>4, <1>6, <1>7, <1>8

LEMMA ClientKeepsInv ==
    ASSUME ShareInv, NEW c \in Client,
           ClientStep(c), crashed' \in BOOLEAN
    PROVE  ShareInv'
<1> USE DEF ShareInv
<1>1. UNCHANGED <<jobVars, submissions, answer, asked, told>>
  BY DEF ClientStep, Authorize, EnqueueNextDifficulty, Hear
<1>2. session' \in [Client -> Session] /\ SessionsFollow'  BY SessionSteps
<1>3. JobTypeOK' /\ ValidJobsShareTip' /\ FreshIdsAreUnused'
  BY <1>1 DEF jobVars, ShareTypeOK, JobTypeOK, ValidJobsShareTip, ValidJobs,
              FreshIdsAreUnused
<1>4. ShareTypeOK'  BY <1>1, <1>2, <1>3 DEF asked, told, ShareTypeOK
<1>5. CountedOnce' /\ ReportedBlocksAreAccepted'
  BY <1>1 DEF asked, told, CountedOnce, ReportedBlocksAreAccepted
<1>6. QED  BY <1>2, <1>3, <1>4, <1>5

LEMMA SubmitKeepsInv ==
    ASSUME ShareInv, NEW s \in Share, Submit(s), crashed' \in BOOLEAN
    PROVE  ShareInv'
<1> USE DEF ShareInv
<1>1. UNCHANGED <<jobVars, session, daemonHas, blocks>>  BY SubmitOutcomes
<1>2. ShareTypeOK'  BY ShareStepTypes
<1>3. ValidJobsShareTip' /\ ReportedBlocksAreAccepted' /\ SessionsFollow'
  BY <1>1 DEF jobVars, ValidJobsShareTip, ValidJobs,
              ReportedBlocksAreAccepted, SessionsFollow
<1>4. CASE UNCHANGED <<submissions, stage, reports>>
  <2>1. FreshIdsAreUnused' /\ CountedOnce'
    BY <1>1, <1>4 DEF jobVars, FreshIdsAreUnused, CountedOnce
  <2>2. QED  BY <1>2, <1>3, <2>1
<1>5. CASE /\ validJobs[JobOf(s)] # NoJob
           /\ Key(s) \notin submissions[JobOf(s)]
           /\ Register(s)
           /\ \/ UNCHANGED <<stage, reports>>
              \/ /\ stage' = [stage EXCEPT ![s] = "submitblock"]
                 /\ UNCHANGED reports
              \/ /\ reports' = [reports EXCEPT ![s] = @ + 1]
                 /\ UNCHANGED stage
  <2>1. JobOf(s) \in JobId  BY ShareIsNamed
  <2>2. /\ submissions \in [JobId -> SUBSET (Client \X Nonce)]
        /\ stage \in [Share -> Stage]
        /\ reports \in [Share -> Nat]
    BY DEF ShareTypeOK
  <2>3. \A i \in JobId : submissions[i] \subseteq submissions'[i]
                         /\ (i # JobOf(s) => submissions'[i] = submissions[i])
    BY <1>5, <2>1, <2>2 DEF Register
  <2>4. Key(s) \in submissions'[JobOf(s)]  BY <1>5, <2>1, <2>2 DEF Register
  <2>5. FreshIdsAreUnused'
    <3>1. ASSUME NEW i \in JobId, i > counter'
          PROVE  validJobs'[i] = NoJob /\ submissions'[i] = {}
      <4>1. i > counter /\ validJobs' = validJobs  BY <1>1, <3>1 DEF jobVars
      <4>2. validJobs[i] = NoJob /\ submissions[i] = {}
        BY <4>1 DEF FreshIdsAreUnused
      <4>3. i # JobOf(s)  BY <4>2, <1>5
      <4>4. QED  BY <2>3, <4>1, <4>2, <4>3
    <3>2. QED  BY <3>1 DEF FreshIdsAreUnused
  <2>6. reports[s] = 0 /\ stage[s] = "none"  BY <1>5 DEF CountedOnce
  <2>7. ASSUME NEW u \in Share
        PROVE  \/ reports'[u] = 0 /\ stage'[u] = "none"
               \/ /\ Key(u) \in submissions'[JobOf(u)]
                  /\ \/ reports'[u] = 1 /\ stage'[u] = "none"
                     \/ reports'[u] = 0 /\ stage'[u] # "none"
    <3>1. CASE u = s  BY <1>5, <2>2, <2>4, <2>6, <3>1
    <3>2. CASE u # s
      <4>1. reports'[u] = reports[u] /\ stage'[u] = stage[u]
        BY <1>5, <2>2, <3>2
      <4>2. submissions[JobOf(u)] \subseteq submissions'[JobOf(u)]
        BY <2>3, ShareIsNamed
      <4>3. QED  BY <4>1, <4>2 DEF CountedOnce
    <3>3. QED  BY <3>1, <3>2
  <2>8. CountedOnce'  BY <2>7 DEF CountedOnce
  <2>9. QED  BY <1>2, <1>3, <2>5, <2>8
<1>6. QED  BY <1>4, <1>5, SubmitOutcomes

LEMMA DaemonKeepsInv ==
    ASSUME ShareInv, NEW s \in Share, DaemonStep(s), crashed' \in BOOLEAN
    PROVE  ShareInv'
<1> USE DEF ShareInv
<1>1. UNCHANGED <<jobVars, submissions, session>> /\ stage[s] # "none"
  BY DaemonOutcomes
<1>2. ShareTypeOK'  BY ShareStepTypes
<1>3. ValidJobsShareTip' /\ FreshIdsAreUnused' /\ SessionsFollow'
  BY <1>1 DEF jobVars, ValidJobsShareTip, ValidJobs, FreshIdsAreUnused,
              SessionsFollow
<1>4. ReportedBlocksAreAccepted'
  BY DaemonOutcomes DEF ReportedBlocksAreAccepted
<1>5. Key(s) \in submissions[JobOf(s)] /\ reports[s] = 0
  BY <1>1 DEF CountedOnce
<1>6. /\ stage \in [Share -> Stage]
      /\ reports \in [Share -> Nat]
  BY DEF ShareTypeOK
<1>7. /\ \A u \in Share \ {s} : reports'[u] = reports[u] /\ stage'[u] = stage[u]
      /\ \/ reports'[s] = 0 /\ stage'[s] # "none"
         \/ reports'[s] = 1 /\ stage'[s] = "none"
  BY <1>1, <1>5, <1>6, DaemonOutcomes
<1>8. CountedOnce'
  BY <1>1, <1>5, <1>7 DEF CountedOnce
<1>9. QED  BY <1>2, <1>3, <1>4, <1>8

LEMMA IdleKeepsInv == ShareInv /\ UNCHANGED shareVars => ShareInv'
BY DEF ShareInv, shareVars, jobVars, ShareTypeOK, JobTypeOK,
       ValidJobsShareTip, ValidJobs, FreshIdsAreUnused, CountedOnce,
       ReportedBlocksAreAccepted, SessionsFollow

LEMMA CrashKeepsInv == ShareInv /\ Crash => ShareInv'
BY DEF ShareInv, Crash, asked, told, jobVars, ShareTypeOK, JobTypeOK,
       ValidJobsShareTip, ValidJobs, FreshIdsAreUnused, CountedOnce,
       ReportedBlocksAreAccepted, SessionsFollow

LEMMA ShareInvAlways == ShareSpec => []ShareInv
<1>1. ShareInv /\ [ShareNext]_shareVars => ShareInv'
  <2>1. ASSUME ShareInv, ShareNext PROVE ShareInv'
    <3>1. crashed' \in BOOLEAN
      BY <2>1, ShareNextCases DEF ShareInv, ShareTypeOK
    <3>2. QED
      BY <2>1, <3>1, TemplateKeepsInv, ClientKeepsInv, SubmitKeepsInv,
         DaemonKeepsInv, CrashKeepsInv, ShareNextCases
  <2>2. QED  BY <2>1, IdleKeepsInv
<1>2. QED  BY <1>1, ShareInitInv, PTL DEF ShareSpec

-----------------------------------------------------------------------------

\* The state of the share accounting is well typed.
THEOREM ShareTypesCorrect == ShareSpec => []ShareTypeOK
BY ShareInvAlways, PTL DEF ShareInv

\* A share is reported as valid at most once, and not before the daemon has
\* answered about its block.
THEOREM ReportedOnceAlways == ShareSpec => []ReportedOnce
<1>1. ShareInv => ReportedOnce  BY DEF ShareInv, CountedOnce, ReportedOnce
<1>2. QED  BY <1>1, ShareInvAlways, PTL

\* Only blocks the daemon accepted are reported as blocks.
THEOREM ReportedBlocksAreAcceptedAlways ==
    ShareSpec => []ReportedBlocksAreAccepted
BY ShareInvAlways, PTL DEF ShareInv

\* Only a submission registers a share: the one that is registered was
\* submitted in this step, and its job is valid.
LEMMA RegisteredBySubmit ==
    ASSUME ShareInv, ShareNext, NEW s \in Share,
           Key(s) \in submissions'[JobOf(s)] \ submissions[JobOf(s)]
    PROVE  answer' = "low" => ~SolvesBlock(s) /\ ~MeetsDifficulty(s)
<1> USE DEF ShareInv
<1>1. submissions \in [JobId -> SUBSET (Client \X Nonce)] /\ JobTypeOK
  BY DEF ShareTypeOK
<1>2. JobOf(s) \in JobId  BY ShareIsNamed
<1>3. ASSUME NEW t \in Template, NEW updateJob \in BOOLEAN,
             NewTemplate(t, updateJob)
      PROVE  FALSE
  BY <1>1, <1>2, <1>3, TemplateOutcomes
<1>4. ASSUME NEW c \in Client,
             ClientStep(c)
      PROVE  FALSE
  BY <1>4 DEF ClientStep, Authorize, EnqueueNextDifficulty, Hear
<1>5. ASSUME NEW u \in Share, Submit(u)
      PROVE  answer' = "low" => ~SolvesBlock(s) /\ ~MeetsDifficulty(s)
  <2>1. /\ Register(u)
        /\ answer' = "low" => ~SolvesBlock(u) /\ ~MeetsDifficulty(u)
    BY <1>5, SubmitOutcomes
  <2>2. JobOf(u) = JobOf(s) /\ Key(u) = Key(s)
    BY <1>1, <1>2, <2>1 DEF Register
  <2>3. u = s  BY <2>2, ShareIsNamed
  <2>4. QED  BY <2>1, <2>3
<1>6. ASSUME NEW u \in Share, DaemonStep(u)
      PROVE  FALSE
  BY <1>6, DaemonOutcomes
<1>7. ~Crash  BY DEF Crash
<1>8. QED  BY <1>3, <1>4, <1>5, <1>6, <1>7, ShareNextCases

\* Work earns only while its job builds on the block the pool mines on.
THEOREM CountsOnTheTipOnlyAlways == ShareSpec => CountsOnTheTipOnly
<1>1. ASSUME ShareInv, [ShareNext]_shareVars, NEW s \in Share,
             Key(s) \notin submissions[JobOf(s)],
             reports'[s] # reports[s] \/ stage'[s] # stage[s]
      PROVE  /\ validJobs[JobOf(s)] # NoJob
             /\ validJobs[JobOf(s)].template.prev = currentJob.template.prev
  <2> USE <1>1 DEF ShareInv
  <2>1. reports[s] = 0 /\ stage[s] = "none"  BY DEF CountedOnce
  <2>2. stage \in [Share -> Stage]
        /\ reports \in [Share -> Nat] /\ JobTypeOK
    BY DEF ShareTypeOK
  <2>3. \E u \in Share : Submit(u) \/ DaemonStep(u)
    <3>1. ~(UNCHANGED shareVars)  BY DEF shareVars
    <3>2. ASSUME NEW t \in Template, NEW updateJob \in BOOLEAN,
                 NewTemplate(t, updateJob)
          PROVE  FALSE
      BY <2>2, <3>2, TemplateOutcomes
    <3>3. ASSUME NEW c \in Client,
                 ClientStep(c)
          PROVE  FALSE
      BY <3>3 DEF ClientStep, Authorize, EnqueueNextDifficulty, Hear, asked, told
    <3>4. ~Crash  BY DEF Crash, asked, told
    <3>5. QED  BY <3>1, <3>2, <3>3, <3>4, ShareNextCases
  <2>4. PICK u \in Share : Submit(u) \/ DaemonStep(u)  BY <2>3
  <2>5. u = s
    BY <2>2, <2>4, SubmitOutcomes, DaemonOutcomes
  <2>6. ~DaemonStep(s)  BY <2>1, DaemonOutcomes
  <2>7. validJobs[JobOf(s)] # NoJob
    BY <2>4, <2>5, <2>6, SubmitOutcomes
  <2>8. validJobs[JobOf(s)] \in ValidJobs
    BY <2>7, ShareIsNamed DEF ValidJobs
  <2>9. QED  BY <2>7, <2>8 DEF ValidJobsShareTip
<1>2. ShareInv /\ [ShareNext]_shareVars =>
        [\A s \in Share :
          Key(s) \notin submissions[JobOf(s)]
            /\ (reports'[s] # reports[s] \/ stage'[s] # stage[s])
          => /\ validJobs[JobOf(s)] # NoJob
             /\ validJobs[JobOf(s)].template.prev
                  = currentJob.template.prev]_shareVars
  BY <1>1
<1>3. QED  BY <1>2, ShareInvAlways, PTL DEF ShareSpec, CountsOnTheTipOnly

\* A share that solves a block is not refused as low.
THEOREM BlockIsNeverLowAlways == ShareSpec => BlockIsNeverLow
<1>1. ShareInv /\ [ShareNext]_shareVars =>
        [\A s \in Share :
          Key(s) \in submissions'[JobOf(s)] \ submissions[JobOf(s)]
            /\ s[3] >= validJobs[JobOf(s)].template.difficulty
          => answer' # "low"]_shareVars
  BY RegisteredBySubmit DEF SolvesBlock
<1>2. QED  BY <1>1, ShareInvAlways, PTL DEF ShareSpec, BlockIsNeverLow

\* A share that meets the target its miner follows is not refused as low,
\* while at most one other target is on its way to the miner.
THEOREM TargetsAreHonouredAlways == ShareSpec => TargetsAreHonoured
<1>1. ASSUME ShareInv, ShareNext, NEW s \in Share, ~MeetsDifficulty(s)
      PROVE  \/ s[3] < session[s[2]].target
             \/ session[s[2]].target = 0
             \/ Len(session[s[2]].unheard) > 1
  <2> DEFINE v == session[s[2]]
  <2>1. v \in Session /\ Follows(v) /\ s[3] \in Nat
    BY <1>1, ShareIsNamed DEF ShareInv, ShareTypeOK, SessionsFollow
  <2>2. /\ v.unheard \in Seq(Nat) /\ Len(v.unheard) \in Nat
        /\ v.difficulty \in Nat /\ v.previousDifficulty \in Nat
    BY <2>1 DEF Session
  <2>3. /\ ~(s[3] * 100 >= v.difficulty * 99)
        /\ v.previousDifficulty = 0 \/ ~(s[3] >= v.previousDifficulty)
    BY <1>1 DEF MeetsDifficulty
  <2>4. v.unheard = <<>> => v.target = v.difficulty  BY <2>1 DEF Follows
  <2>5. Len(v.unheard) = 1 => v.target = v.previousDifficulty
    BY <2>1 DEF Follows
  <2>6. v.unheard = <<>> \/ Len(v.unheard) = 1 \/ Len(v.unheard) > 1
    <3>1. \A n \in Nat : n = 0 \/ n = 1 \/ n > 1  OBVIOUS
    <3>2. v.unheard = <<>> <=> Len(v.unheard) = 0  BY <2>2, EmptyIsNone
    <3>3. QED  BY <2>2, <3>1, <3>2
  <2> HIDE DEF v
  <2>7. s[3] < v.difficulty  BY <2>1, <2>2, <2>3
  <2>8. v.previousDifficulty = 0 \/ s[3] < v.previousDifficulty
    BY <2>1, <2>2, <2>3
  <2>9. \/ s[3] < v.target \/ v.target = 0 \/ Len(v.unheard) > 1
    BY <2>4, <2>5, <2>6, <2>7, <2>8
  <2>10. QED  BY <2>9 DEF v
<1>2. ShareInv /\ [ShareNext]_shareVars =>
        [\A s \in Share :
          Key(s) \in submissions'[JobOf(s)] \ submissions[JobOf(s)]
            /\ answer' = "low"
          => \/ s[3] < session[s[2]].target
             \/ session[s[2]].target = 0
             \/ Len(session[s[2]].unheard) > 1]_shareVars
  BY <1>1, RegisteredBySubmit
<1>3. QED  BY <1>2, ShareInvAlways, PTL DEF ShareSpec, TargetsAreHonoured

-----------------------------------------------------------------------------
\* The accounting as a ledger, step by step.

\* What the ledger shows does not depend on jobs and sessions.
LEMMA SameBooksSameLedger ==
    UNCHANGED <<submissions, stage, reports>> => UNCHANGED Ledger!ledgerVars
BY DEF Ledger!ledgerVars

\* A job is made under a number that has no submissions yet.
LEMMA TemplateKeepsLedger ==
    ASSUME ShareInv, NEW t \in Template, NEW updateJob \in BOOLEAN,
           NewTemplate(t, updateJob)
    PROVE  UNCHANGED <<submissions, stage, reports>>
<1>1. JobTypeOK /\ counter \in Nat
  BY DEF ShareInv, ShareTypeOK, JobTypeOK
<1>2. UNCHANGED <<stage, reports>>  BY <1>1, TemplateOutcomes
<1>3. CASE /\ counter + 1 \in JobId
           /\ submissions' = [submissions EXCEPT ![counter + 1] = {}]
  <2>1. submissions[counter + 1] = {}
    BY <1>1, <1>3 DEF ShareInv, FreshIdsAreUnused
  <2>2. submissions' = submissions
    BY <1>3, <2>1 DEF ShareInv, ShareTypeOK
  <2>3. QED  BY <1>2, <2>2
<1>4. CASE UNCHANGED submissions  BY <1>2, <1>4
<1>5. QED  BY <1>1, <1>3, <1>4, TemplateOutcomes

\* A submission changes nothing, or judges its share.
LEMMA SubmitIsLedgerStep ==
    ASSUME ShareInv, NEW s \in Share, Submit(s)
    PROVE  Ledger!Judge(s) \/ UNCHANGED Ledger!ledgerVars
<1>1. /\ submissions \in [JobId -> SUBSET (Client \X Nonce)]
      /\ stage \in [Share -> Stage]
      /\ reports \in [Share -> Nat]
  BY DEF ShareInv, ShareTypeOK
<1>2. CASE UNCHANGED <<submissions, stage, reports>>
  BY <1>2, SameBooksSameLedger
<1>3. CASE /\ Key(s) \notin submissions[JobOf(s)]
           /\ Register(s)
           /\ \/ UNCHANGED <<stage, reports>>
              \/ /\ stage' = [stage EXCEPT ![s] = "submitblock"]
                 /\ UNCHANGED reports
              \/ /\ reports' = [reports EXCEPT ![s] = @ + 1]
                 /\ UNCHANGED stage
  <2>1. ASSUME NEW u \in Share
        PROVE  Key(u) \in submissions'[JobOf(u)] <=>
                  Key(u) \in submissions[JobOf(u)] \/ u = s
    <3>1. JobOf(s) \in JobId /\ JobOf(u) \in JobId  BY ShareIsNamed
    <3>2. CASE JobOf(u) = JobOf(s)
      <4>1. submissions'[JobOf(u)] = submissions[JobOf(u)] \cup {Key(s)}
        BY <1>1, <1>3, <3>1, <3>2 DEF Register
      <4>2. Key(u) = Key(s) <=> u = s  BY <3>2, ShareIsNamed
      <4>3. QED  BY <4>1, <4>2
    <3>3. CASE JobOf(u) # JobOf(s)
      <4>1. submissions'[JobOf(u)] = submissions[JobOf(u)]
        BY <1>1, <1>3, <3>1, <3>3 DEF Register
      <4>2. QED  BY <3>3, <4>1
    <3>4. QED  BY <3>2, <3>3
  <2> DEFINE judged == {u \in Share : Key(u) \in submissions[JobOf(u)]}
             under  == {u \in Share : stage[u] # "none"}
  <2>2. s \notin judged /\ judged' = judged \cup {s}  BY <1>3, <2>1
  <2>3. CASE UNCHANGED <<stage, reports>>
    BY <2>2, <2>3 DEF Ledger!Judge
  <2>4. CASE stage' = [stage EXCEPT ![s] = "submitblock"] /\ UNCHANGED reports
    <3>1. \A u \in Share : stage'[u] # "none" <=> stage[u] # "none" \/ u = s
      BY <1>1, <2>4
    <3>2. under' = under \cup {s}  BY <3>1
    <3>3. QED  BY <2>2, <2>4, <3>2 DEF Ledger!Judge
  <2>5. CASE reports' = [reports EXCEPT ![s] = @ + 1] /\ UNCHANGED stage
    BY <2>2, <2>5 DEF Ledger!Judge, Ledger!Report
  <2>6. QED  BY <1>3, <2>3, <2>4, <2>5
<1>4. QED  BY <1>2, <1>3, SubmitOutcomes

\* An answer of the daemon changes nothing yet, or settles the share.
LEMMA DaemonIsLedgerStep ==
    ASSUME ShareInv, NEW s \in Share, DaemonStep(s)
    PROVE  Ledger!Settle(s) \/ UNCHANGED Ledger!ledgerVars
<1>1. stage \in [Share -> Stage]
  BY DEF ShareInv, ShareTypeOK
<1>2. stage[s] # "none" /\ submissions' = submissions  BY DaemonOutcomes
<1>3. CASE UNCHANGED <<stage, reports>>  BY <1>2, <1>3, SameBooksSameLedger
<1>4. CASE /\ \/ stage' = [stage EXCEPT ![s] = "getblock"]
              \/ stage' = [stage EXCEPT ![s] = "unheard"]
           /\ UNCHANGED reports
  <2>1. \A u \in Share : stage'[u] # "none" <=> stage[u] # "none"
    BY <1>1, <1>2, <1>4
  <2>2. QED  BY <1>2, <1>4, <2>1 DEF Ledger!ledgerVars
<1>5. CASE /\ stage' = [stage EXCEPT ![s] = "none"]
           /\ reports' = [reports EXCEPT ![s] = @ + 1]
  <2> DEFINE under == {u \in Share : stage[u] # "none"}
  <2>1. \A u \in Share : stage'[u] # "none" <=> stage[u] # "none" /\ u # s
    BY <1>1, <1>5
  <2>2. s \in under /\ under' = under \ {s}  BY <1>2, <2>1
  <2>3. QED  BY <1>2, <1>5, <2>2 DEF Ledger!Settle, Ledger!Report
<1>6. QED  BY <1>3, <1>4, <1>5, DaemonOutcomes

\* Every share is judged once, for every number of jobs, clients and nonces:
\* what was refused is never counted, though it be sent again, and the answers
\* about a block end in one report.
THEOREM ShareProcessorImplementsLedger == ShareSpec => ImplementsLedger
<1>1. ShareInit => Ledger!Init
  BY ShareIsNamed DEF ShareInit, Ledger!Init
<1>2. ShareInv /\ [ShareNext]_shareVars => [Ledger!Next]_(Ledger!ledgerVars)
  <2>1. SUFFICES ASSUME ShareInv, [ShareNext]_shareVars
                 PROVE  Ledger!Next \/ UNCHANGED Ledger!ledgerVars
    OBVIOUS
  <2>2. ASSUME NEW t \in Template, NEW updateJob \in BOOLEAN,
               NewTemplate(t, updateJob)
        PROVE  UNCHANGED Ledger!ledgerVars
    BY <2>1, <2>2, TemplateKeepsLedger, SameBooksSameLedger
  <2>3. ASSUME NEW c \in Client,
               ClientStep(c)
        PROVE  UNCHANGED Ledger!ledgerVars
    <3>1. UNCHANGED <<submissions, stage, reports>>
      BY <2>3 DEF ClientStep, Authorize, EnqueueNextDifficulty, Hear, asked, told
    <3>2. QED  BY <3>1, SameBooksSameLedger
  <2>4. ASSUME NEW s \in Share, Submit(s) \/ DaemonStep(s)
        PROVE  Ledger!Next \/ UNCHANGED Ledger!ledgerVars
    BY <2>1, <2>4, SubmitIsLedgerStep, DaemonIsLedgerStep DEF Ledger!Next
  <2>5. UNCHANGED shareVars => UNCHANGED Ledger!ledgerVars
    BY SameBooksSameLedger DEF shareVars
  <2>6. Crash => UNCHANGED Ledger!ledgerVars
    BY SameBooksSameLedger DEF Crash, asked, told
  <2>7. QED  BY <2>1, <2>2, <2>3, <2>4, <2>5, <2>6, ShareNextCases
<1>3. QED
  BY <1>1, <1>2, ShareInvAlways, PTL
  DEF ShareSpec, ImplementsLedger, Ledger!Spec

\* The share accounting moves the job manager by processing templates only, so
\* that all that is proved of JobSpec holds beside it.
THEOREM ShareProcessorImplementsJobManager == ShareSpec => JobSpec
<1>1. ShareInit => JobInit  BY DEF ShareInit
<1>2. [ShareNext]_shareVars => [JobNext]_jobVars
  <2>1. SUFFICES ASSUME [ShareNext]_shareVars
                 PROVE  JobNext \/ UNCHANGED jobVars
    OBVIOUS
  <2>2. ASSUME NEW t \in Template, NEW updateJob \in BOOLEAN,
               NewTemplate(t, updateJob)
        PROVE  JobNext
    BY <2>2 DEF NewTemplate, JobNext
  <2>3. ASSUME NEW c \in Client,
               ClientStep(c)
        PROVE  UNCHANGED jobVars
    BY <2>3 DEF ClientStep, Authorize, EnqueueNextDifficulty, Hear
  <2>4. ASSUME NEW s \in Share, Submit(s) \/ DaemonStep(s)
        PROVE  UNCHANGED jobVars
    BY <2>4, SubmitOutcomes, DaemonOutcomes
  <2>5. UNCHANGED shareVars => UNCHANGED jobVars  BY DEF shareVars
  <2>6. Crash => UNCHANGED jobVars  BY DEF Crash
  <2>7. QED  BY <2>1, <2>2, <2>3, <2>4, <2>5, <2>6, ShareNextCases
<1>3. QED  BY <1>1, <1>2, PTL DEF ShareSpec, JobSpec
=============================================================================
