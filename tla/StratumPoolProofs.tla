-------------------------- MODULE StratumPoolProofs --------------------------
(***************************************************************************)
(* The work feed, proved for every set of connections, requests and        *)
(* templates: the pool changes the job manager by processing templates     *)
(* only, so that all that is proved of the job manager holds in the pool;  *)
(* and the work of every connected miner is work its shares count for.     *)
(***************************************************************************)
EXTENDS StratumPool, JobManagerProofs

-----------------------------------------------------------------------------
\* The job manager in the pool.

\* A delivered answer is processed as a template or leaves the jobs alone.
LEMMA DeliverIsJobStep ==
    ASSUME PoolTypeOK, NEW k \in Call, Deliver(k)
    PROVE  /\ rpc[k].reply \in Template
           /\ ProcessTemplate(rpc[k].reply) \/ UNCHANGED jobVars
<1>1. rpc[k] \in Request \cup {NoCall}  BY DEF PoolTypeOK
<1>2. rpc[k].reply \in Template \cup {NoJob}  BY <1>1 DEF Request, NoCall
<1>3. rpc[k].reply \in Template  BY <1>2 DEF Deliver
<1>4. QED  BY <1>3 DEF Deliver, OnTemplate, UpdateBlockTemplate

LEMMA PoolStepIsJobStep ==
    ASSUME PoolTypeOK, [PoolNext]_poolVars
    PROVE  (\E t \in Template : ProcessTemplate(t)) \/ UNCHANGED jobVars
<1>1. CASE \E k \in Call : Deliver(k)  BY <1>1, DeliverIsJobStep
<1>2. CASE ~(\E k \in Call : Deliver(k)) /\ PoolNext
  BY <1>2
  DEF PoolNext, StartServer, Started, Stop, Poll, BroadcastTimeout,
      BlockSubmitted, TipMoves, Answer, Lose, Connect, Authorize, Disconnect,
      Closed, GoesIdle, Submit
<1>3. CASE UNCHANGED poolVars  BY <1>3 DEF poolVars, jobVars
<1>4. QED  BY <1>1, <1>2, <1>3

-----------------------------------------------------------------------------
\* Types.

LEMMA PoolInitTypes == PoolInit => PoolTypeOK
BY InitTypes DEF PoolInit, PoolTypeOK

\* A request that leaves is a request.
LEMMA RequestTypes ==
    ASSUME PoolTypeOK, NEW kind \in {"plain", "refresh", "poll"},
           GetBlockTemplate(kind)
    PROVE  rpc' \in [Call -> Request \cup {NoCall}]
<1>1. [kind |-> kind, reply |-> NoJob] \in Request  BY DEF Request
<1>2. QED  BY <1>1 DEF PoolTypeOK, GetBlockTemplate

\* Work sent is typed where the job is a job.
LEMMA SendTypes ==
    ASSUME PoolTypeOK, NEW cs, NEW job \in Job, NEW isNewBlock \in BOOLEAN,
           SendMiningJob(cs, job, isNewBlock)
    PROVE  /\ conn' \in [Client -> {"off", "open", "authorized", "destroyed"}]
           /\ work' \in [Client -> SUBSET Job]
<1>1. conn' \in [Client -> {"off", "open", "authorized", "destroyed"}]
  BY DEF PoolTypeOK, SendMiningJob
<1>2. ASSUME NEW c \in Client  PROVE work'[c] \in SUBSET Job
  BY DEF PoolTypeOK, SendMiningJob
<1>3. QED  BY <1>1, <1>2 DEF SendMiningJob

LEMMA DeliverTypes ==
    ASSUME PoolTypeOK, ValidJobsShareTip, NEW k \in Call, Deliver(k)
    PROVE  PoolTypeOK'
<1> DEFINE t == rpc[k].reply
           kind == rpc[k].kind
<1>1. t \in Template  BY DeliverIsJobStep
<1>2. JobTypeOK'
  <2>1. CASE ProcessTemplate(t)  BY <1>1, <2>1, StepTypes DEF PoolTypeOK
  <2>2. CASE UNCHANGED jobVars  BY <2>2 DEF jobVars, PoolTypeOK, JobTypeOK
  <2>3. QED  BY <2>1, <2>2, DeliverIsJobStep
<1>3. rpc' \in [Call -> Request \cup {NoCall}]  BY DEF Deliver, PoolTypeOK
<1>4. /\ conn' \in [Client -> {"off", "open", "authorized", "destroyed"}]
      /\ work' \in [Client -> SUBSET Job]
      /\ timer' \in BOOLEAN
  <2>1. CASE UNCHANGED <<jobVars, timer, conn, work>>
    BY <2>1 DEF PoolTypeOK
  <2>2. CASE UpdateBlockTemplate(t, kind = "refresh")
    <3>1. currentJob' \in Job
      BY <1>1, <2>2, CurrentJobAfter DEF UpdateBlockTemplate, PoolTypeOK
    <3>2. CASE BroadcastMiningJobs(currentJob', TRUE)
      BY <3>1, <3>2, SendTypes DEF BroadcastMiningJobs
    <3>3. CASE BroadcastMiningJobs(currentJob', FALSE)
      BY <3>1, <3>3, SendTypes DEF BroadcastMiningJobs
    <3>4. CASE UNCHANGED <<timer, conn, work>>  BY <3>4 DEF PoolTypeOK
    <3>5. QED  BY <2>2, <3>2, <3>3, <3>4 DEF UpdateBlockTemplate
  <2>3. QED  BY <2>1, <2>2 DEF Deliver, OnTemplate
<1>5. QED  BY <1>2, <1>3, <1>4 DEF Deliver, PoolTypeOK

LEMMA PoolStepTypes ==
    ASSUME PoolTypeOK, ValidJobsShareTip, [PoolNext]_poolVars
    PROVE  PoolTypeOK'
<1>1. CASE \E k \in Call : Deliver(k)  BY <1>1, DeliverTypes
<1>2. CASE UNCHANGED jobVars /\ PoolNext
  <2>1. JobTypeOK'  BY <1>2 DEF jobVars, PoolTypeOK, JobTypeOK
  <2>2. CASE StartServer
    BY <2>1, <2>2, RequestTypes DEF StartServer, netVars, PoolTypeOK
  <2>3. CASE Started  BY <2>1, <2>3 DEF Started, netVars, PoolTypeOK
  <2>4. CASE Stop  BY <2>1, <2>4 DEF Stop, netVars, PoolTypeOK
  <2>5. CASE Poll  BY <2>1, <2>5, RequestTypes DEF Poll, netVars, PoolTypeOK
  <2>6. CASE BroadcastTimeout
    BY <2>1, <2>6, RequestTypes DEF BroadcastTimeout, netVars, PoolTypeOK
  <2>7. CASE BlockSubmitted
    BY <2>1, <2>7, RequestTypes DEF BlockSubmitted, netVars, PoolTypeOK
  <2>8. CASE TipMoves  BY <2>1, <2>8 DEF TipMoves, netVars, PoolTypeOK
  <2>9. ASSUME NEW k \in Call, Answer(k)  PROVE PoolTypeOK'
    <3>1. rpc[k] \in Request  BY <2>9 DEF Answer, PoolTypeOK
    <3>2. \A t \in Template : [rpc[k] EXCEPT !.reply = t] \in Request
      BY <3>1 DEF Request
    <3>3. rpc' \in [Call -> Request \cup {NoCall}]
      BY <2>9, <3>2 DEF Answer, PoolTypeOK
    <3>4. QED  BY <2>1, <2>9, <3>3 DEF Answer, netVars, PoolTypeOK
  <2>10. ASSUME NEW k \in Call, Lose(k)  PROVE PoolTypeOK'
    BY <2>1, <2>10 DEF Lose, netVars, PoolTypeOK
  <2>11. ASSUME NEW c \in Client, Connect(c)  PROVE PoolTypeOK'
    BY <2>1, <2>11 DEF Connect, PoolTypeOK
  <2>12. ASSUME NEW c \in Client, Authorize(c)  PROVE PoolTypeOK'
    <3>1. currentJob # NoJob => {currentJob} \in SUBSET Job
      BY DEF PoolTypeOK, JobTypeOK
    <3>2. QED  BY <2>1, <2>12, <3>1 DEF Authorize, PoolTypeOK
  <2>13. ASSUME NEW c \in Client, Disconnect(c)  PROVE PoolTypeOK'
    BY <2>1, <2>13 DEF Disconnect, PoolTypeOK
  <2>14. ASSUME NEW c \in Client, Closed(c)  PROVE PoolTypeOK'
    BY <2>1, <2>14 DEF Closed, PoolTypeOK
  <2>15. ASSUME NEW c \in Client, GoesIdle(c) \/ Submit(c)  PROVE PoolTypeOK'
    BY <2>1, <2>15 DEF GoesIdle, Submit, PoolTypeOK
  <2>16. QED
    BY <1>1, <1>2, <2>2, <2>3, <2>4, <2>5, <2>6, <2>7, <2>8, <2>9, <2>10,
       <2>11, <2>12, <2>13, <2>14, <2>15 DEF PoolNext
<1>3. CASE UNCHANGED poolVars
  BY <1>3 DEF poolVars, jobVars, netVars, PoolTypeOK, JobTypeOK
<1>4. CASE PoolNext /\ ~(\E k \in Call : Deliver(k))
  <2>1. UNCHANGED jobVars
    BY <1>4
    DEF PoolNext, StartServer, Started, Stop, Poll, BroadcastTimeout,
        BlockSubmitted, TipMoves, Answer, Lose, Connect, Authorize,
        Disconnect, Closed, GoesIdle, Submit
  <2>2. QED  BY <1>2, <1>4, <2>1
<1>5. QED  BY <1>1, <1>3, <1>4

-----------------------------------------------------------------------------
\* The work of the miners.

\* Who is not connected has no work: the next connection in its place starts
\* without any.
NoWorkWhileOff == \A c \in Client : conn[c] = "off" => work[c] = {}

\* The inductive invariant.
WorkInv ==
    PoolTypeOK /\ ValidJobsShareTip /\ MinersWorkIsValid /\ NoWorkWhileOff

\* Where a template leaves the block as it is, no job stops being valid: the
\* id it takes was free.
LEMMA UpdateKeepsValidJobs ==
    ASSUME JobTypeOK, NEW t \in Template, ProcessTemplate(t), ~NewWork(t),
           KeepsIds(t)
    PROVE  ValidJobs \subseteq ValidJobs'
<1>1. CASE UNCHANGED jobVars  BY <1>1 DEF jobVars, ValidJobs
<1>2. CASE ~IsStale(t) /\ UpdateJob(t, IsNewBlock(t))
  <2>1. ~IsNewBlock(t)  BY <1>2 DEF NewWork
  <2>2. validJobs[NextId] = NoJob  BY <2>1 DEF KeepsIds
  <2>3. \A i \in JobId : validJobs[i] # NoJob => validJobs'[i] = validJobs[i]
    BY <1>2, <2>1, <2>2 DEF UpdateJob
  <2>4. QED  BY <2>3 DEF ValidJobs
<1>3. QED  BY <1>1, <1>2 DEF ProcessTemplate

\* Sending a valid job keeps the miners' work valid, where what they keep of
\* their work is.
LEMMA BroadcastKeepsWorkValid ==
    ASSUME PoolTypeOK, MinersWorkIsValid, NoWorkWhileOff,
           NEW job, NEW isNewBlock \in BOOLEAN,
           job \in ValidJobs', SendMiningJob(Client, job, isNewBlock),
           isNewBlock \/ ValidJobs \subseteq ValidJobs'
    PROVE  MinersWorkIsValid' /\ NoWorkWhileOff'
<1>0. NoWorkWhileOff'
  BY DEF NoWorkWhileOff, SendMiningJob, Live
<1>1. SUFFICES ASSUME NEW c \in Client
               PROVE  /\ Live(c)' => work'[c] \subseteq ValidJobs'
                      /\ conn'[c] = "authorized" => work'[c] # {}
  BY <1>0 DEF MinersWorkIsValid
<1>2. CASE Live(c) /\ ~idle[c]
  <2>1. work'[c] = IF isNewBlock THEN {job} ELSE work[c] \cup {job}
    BY <1>2 DEF SendMiningJob
  <2>2. work[c] \subseteq ValidJobs  BY <1>2 DEF MinersWorkIsValid
  <2>3. QED  BY <2>1, <2>2
<1>3. CASE ~(Live(c) /\ ~idle[c])
  <2>1. conn'[c] \notin {"open", "authorized"}
    BY <1>3 DEF SendMiningJob, Live
  <2>2. QED  BY <2>1 DEF Live
<1>4. QED  BY <1>2, <1>3

LEMMA DeliverKeepsWorkValid ==
    ASSUME WorkInv, NEW k \in Call, Deliver(k)
    PROVE  MinersWorkIsValid' /\ NoWorkWhileOff'
<1> USE DEF WorkInv
<1> DEFINE t == rpc[k].reply
<1>1. t \in Template  BY DeliverIsJobStep
<1>2. JobTypeOK  BY DEF PoolTypeOK
<1>3. CASE UNCHANGED <<jobVars, timer, conn, work>>
  BY <1>3 DEF jobVars, MinersWorkIsValid, NoWorkWhileOff, ValidJobs, Live
<1>4. CASE UpdateBlockTemplate(t, rpc[k].kind = "refresh")
  <2>1. ProcessTemplate(t)  BY <1>4 DEF UpdateBlockTemplate
  <2>2. currentJob' \in ValidJobs'  BY <1>1, <1>2, <2>1, CurrentJobAfter
  <2>3. CASE BroadcastMiningJobs(currentJob', TRUE)
    BY <2>2, <2>3, BroadcastKeepsWorkValid DEF BroadcastMiningJobs
  <2>4. CASE ~NewWork(t)
    <3>1. KeepsIds(t)  BY DEF Deliver
    <3>2. ValidJobs \subseteq ValidJobs'
      BY <1>1, <1>2, <2>1, <2>4, <3>1, UpdateKeepsValidJobs
    <3>3. CASE BroadcastMiningJobs(currentJob', FALSE)
      BY <2>2, <3>2, <3>3, BroadcastKeepsWorkValid DEF BroadcastMiningJobs
    <3>4. CASE UNCHANGED <<timer, conn, work>>
      BY <3>2, <3>4 DEF MinersWorkIsValid, NoWorkWhileOff, Live
    <3>5. QED  BY <1>4, <2>4, <3>3, <3>4 DEF UpdateBlockTemplate
  <2>5. QED  BY <1>4, <2>3, <2>4 DEF UpdateBlockTemplate
<1>5. QED  BY <1>3, <1>4 DEF Deliver, OnTemplate

LEMMA ConnectionKeepsWorkValid ==
    ASSUME WorkInv, NEW c \in Client,
           Connect(c) \/ Authorize(c) \/ Disconnect(c) \/ Closed(c)
    PROVE  MinersWorkIsValid' /\ NoWorkWhileOff'
<1> USE DEF WorkInv
<1>1. ValidJobs' = ValidJobs
  BY DEF Connect, Authorize, Disconnect, Closed, jobVars, ValidJobs
<1>2. \A d \in Client \ {c} : conn'[d] = conn[d] /\ work'[d] = work[d]
  BY DEF Connect, Authorize, Disconnect, Closed, PoolTypeOK
<1>3. /\ conn'[c] \in {"open", "authorized"} => work'[c] \subseteq ValidJobs
      /\ conn'[c] = "authorized" => work'[c] # {}
      /\ conn'[c] = "off" => work'[c] = {}
  <2>1. CASE Connect(c)
    BY <2>1 DEF Connect, PoolTypeOK, NoWorkWhileOff
  <2>2. CASE Authorize(c)
    <3>1. currentJob # NoJob => currentJob \in ValidJobs
      BY DEF PoolTypeOK, JobTypeOK, ValidJobsShareTip, ValidJobs, Job
    <3>2. QED
      BY <2>2, <3>1 DEF Authorize, PoolTypeOK, MinersWorkIsValid, Live
  <2>3. CASE Disconnect(c)  BY <2>3 DEF Disconnect, PoolTypeOK
  <2>4. CASE Closed(c)  BY <2>4 DEF Closed, PoolTypeOK
  <2>5. QED  BY <2>1, <2>2, <2>3, <2>4
<1>4. QED
  BY <1>1, <1>2, <1>3 DEF MinersWorkIsValid, NoWorkWhileOff, Live

\* The inductive invariant is one.
LEMMA PoolStepKeepsWorkInv ==
    ASSUME WorkInv, [PoolNext]_poolVars
    PROVE  WorkInv'
<1> USE DEF WorkInv
<1>1. PoolTypeOK'  BY PoolStepTypes
<1>2. ValidJobsShareTip'
  <2>1. UNCHANGED jobVars => ValidJobsShareTip'
    BY DEF jobVars, ValidJobsShareTip, ValidJobs
  <2>2. QED  BY <2>1, PoolStepIsJobStep, StepSharesTip DEF PoolTypeOK
<1>3. MinersWorkIsValid' /\ NoWorkWhileOff'
  <2>1. CASE \E k \in Call : Deliver(k)  BY <2>1, DeliverKeepsWorkValid
  <2>2. CASE \E c \in Client :
                Connect(c) \/ Authorize(c) \/ Disconnect(c) \/ Closed(c)
    BY <2>2, ConnectionKeepsWorkValid
  <2>3. CASE UNCHANGED <<jobVars, conn, work>>
    BY <2>3 DEF jobVars, MinersWorkIsValid, NoWorkWhileOff, ValidJobs, Live
  <2>4. QED
    BY <2>1, <2>2, <2>3
    DEF PoolNext, StartServer, Started, Stop, Poll, BroadcastTimeout,
        BlockSubmitted, TipMoves, Answer, Lose, GoesIdle, Submit, netVars,
        poolVars
<1>4. QED  BY <1>1, <1>2, <1>3

LEMMA WorkInvAlways == PoolSpec => []WorkInv
<1>1. PoolInit => WorkInv
  BY PoolInitTypes
  DEF PoolInit, JobInit, WorkInv, ValidJobsShareTip, ValidJobs,
      MinersWorkIsValid, NoWorkWhileOff, Live
<1>2. QED  BY <1>1, PoolStepKeepsWorkInv, PTL DEF PoolSpec

-----------------------------------------------------------------------------
\* The pool's state is well typed.
THEOREM PoolTypesCorrect == PoolSpec => []PoolTypeOK
<1>1. WorkInv => PoolTypeOK  BY DEF WorkInv
<1>2. QED  BY <1>1, WorkInvAlways, PTL

\* Every job a connected miner may be working on is a valid one, and an
\* authorized miner has one.
THEOREM MinersWorkIsValidAlways == PoolSpec => []MinersWorkIsValid
<1>1. WorkInv => MinersWorkIsValid  BY DEF WorkInv
<1>2. QED  BY <1>1, WorkInvAlways, PTL

\* The pool moves the job manager by processing templates only: all that is
\* proved of JobSpec holds in the pool.
THEOREM PoolImplementsJobManager == PoolSpec => JobSpec
<1>1. PoolInit => JobInit  BY DEF PoolInit
<1>2. PoolTypeOK /\ [PoolNext]_poolVars => [JobNext]_jobVars
  BY PoolStepIsJobStep DEF JobNext
<1>3. QED  BY <1>1, <1>2, PoolTypesCorrect, PTL DEF PoolSpec, JobSpec

\* In the pool as well, the job ids a share may name are on one tip.
THEOREM PoolSharesTip == PoolSpec => []ValidJobsShareTip
BY PoolImplementsJobManager, ValidJobsShareTipAlways

-----------------------------------------------------------------------------
\* A delivered template drops work only where it moves the pool to another
\* block.
LEMMA DeliverDropsForANewBlock ==
    ASSUME WorkInv, NEW k \in Call, Deliver(k), NEW c \in Client, Live(c),
           ~(work[c] \subseteq work'[c])
    PROVE  currentJob'.template.prev # currentJob.template.prev
<1> USE DEF WorkInv
<1> DEFINE t == rpc[k].reply
<1>1. t \in Template /\ JobTypeOK  BY DeliverIsJobStep DEF PoolTypeOK
<1>2. UpdateBlockTemplate(t, rpc[k].kind = "refresh")
  BY DEF Deliver, OnTemplate
<1>3. NewWork(t)
  BY <1>2 DEF UpdateBlockTemplate, BroadcastMiningJobs, SendMiningJob
<1>4. currentJob # NoJob
  <2>1. work[c] \subseteq ValidJobs  BY DEF MinersWorkIsValid
  <2>2. QED  BY <2>1 DEF ValidJobsShareTip
<1>5. currentJob.template.prev # t.prev
  BY <1>3, <1>4 DEF NewWork, IsNewBlock
<1>6. UpdateJob(t, IsNewBlock(t))
  BY <1>2, <1>3 DEF UpdateBlockTemplate, ProcessTemplate, NewWork
<1>7. currentJob'.template.prev = t.prev  BY <1>6 DEF UpdateJob
<1>8. QED  BY <1>5, <1>7

\* A connected miner loses work to a new block or to its own authorization
\* only.
THEOREM WorkIsDroppedOnlyForANewBlockAlways ==
    PoolSpec => WorkIsDroppedOnlyForANewBlock
<1>1. ASSUME WorkInv, PoolNext, NEW c \in Client, Live(c),
             conn'[c] \in {"open", "authorized"},
             ~(work[c] \subseteq work'[c])
      PROVE  \/ currentJob'.template.prev # currentJob.template.prev
             \/ work'[c] = {currentJob} /\ UNCHANGED jobVars
  <2>1. CASE \E k \in Call : Deliver(k)
    BY <1>1, <2>1, DeliverDropsForANewBlock
  <2>2. ASSUME NEW d \in Client, Authorize(d)
        PROVE  work'[c] = {currentJob} /\ UNCHANGED jobVars
    BY <1>1, <2>2 DEF Authorize, WorkInv, PoolTypeOK
  <2>3. ASSUME NEW d \in Client, Closed(d)
        PROVE  FALSE
    <3>1. work' = [work EXCEPT ![d] = {}] /\ conn' = [conn EXCEPT ![d] = "off"]
      BY <2>3 DEF Closed
    <3>2. conn'[d] = "off"  BY <1>1, <3>1 DEF WorkInv, PoolTypeOK
    <3>3. QED  BY <1>1, <3>1, <3>2
  <2>4. CASE UNCHANGED work  BY <1>1, <2>4
  <2>5. QED
    BY <1>1, <2>1, <2>2, <2>3, <2>4
    DEF PoolNext, StartServer, Started, Stop, Poll, BroadcastTimeout,
        BlockSubmitted, TipMoves, Answer, Lose, Connect, Disconnect,
        GoesIdle, Submit, netVars
<1>2. WorkInv /\ [PoolNext]_poolVars =>
        [\A c \in Client :
          Live(c) /\ conn'[c] \in {"open", "authorized"}
            /\ ~(work[c] \subseteq work'[c])
          => \/ currentJob'.template.prev # currentJob.template.prev
             \/ work'[c] = {currentJob} /\ UNCHANGED jobVars]_poolVars
  BY <1>1
<1>3. QED
  BY <1>2, WorkInvAlways, PTL DEF PoolSpec, WorkIsDroppedOnlyForANewBlock
=============================================================================
