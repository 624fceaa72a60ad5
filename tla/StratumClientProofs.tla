-------------------------- MODULE StratumClientProofs --------------------------
(***************************************************************************)
(* One session, proved for every set of names, any difficulties, any       *)
(* number of authorize requests and chunks of any size: whose shares       *)
(* count, what an authorized miner was told, and what a refusal does to    *)
(* the connection.                                                         *)
(***************************************************************************)
EXTENDS StratumClient, TLAPS

\* The workers shares are looked up among were accepted.
MapHoldsAccepted ==
    \A n \in Name : workerMap[n] # NoWorker =>
        workerMap[n] \in Made /\ workers[workerMap[n]].verdict = "yes"

\* The worker that brought the last share was accepted, and was not removed.
CreditedWasAccepted ==
    credited # NoWorker =>
        /\ credited \in Made
        /\ workers[credited].verdict = "yes"
        /\ ~workers[credited].isRemoved

\* A worker is marked removed when it is refused or when the socket closes,
\* and a closed socket has no messages left to be handled.
RemovedWithReason ==
    /\ \A w \in Made : workers[w].isRemoved =>
          \/ workers[w].verdict = "no"
          \/ workers[w].verdict = "yes" /\ socket = "closed"
    /\ socket = "closed" => chunk = 0

\* Who calls back later finds a name that was sent.
NameWasSent == Made # {} => workerName \in Name

\* The target that was told last is the one shares are measured by.
TargetIsDifficulty == difficulties.target = difficulties.difficulty

\* One refused worker ends the connection, however many others are accepted.
RefusalDisconnects == Refused => socket # "open"

\* The inductive invariant.
SessionInv ==
    /\ ClientTypeOK
    /\ MapHoldsAccepted
    /\ CreditedWasAccepted
    /\ RemovedWithReason
    /\ NameWasSent
    /\ TargetIsDifficulty
    /\ AuthorizedMinersKnowTheirTarget
    /\ RefusalDisconnects

\* A message is one of its chunk.
LEMMA MessageIsCounted ==
    ASSUME ClientTypeOK, Message
    PROVE  chunk > 0 /\ chunk' \in 0 .. MaxChunk
<1>1. chunk \in 0 .. MaxChunk  BY DEF ClientTypeOK
<1>2. MaxChunk \in Nat  BY ClientBounds
<1>3. QED  BY <1>1, <1>2 DEF Message

-----------------------------------------------------------------------------
\* Difficulties.

\* What is sent is told; who has a difficulty keeps one, and who has none gets
\* one if a positive one is sent and there is a job.
LEMMA SendDifficultyTells ==
    ASSUME NEW d \in Difficulties, d.target = d.difficulty,
           NEW diff \in Int, NEW current \in Nat
    PROVE  LET sent == SendDifficulty(d, diff, current)
           IN  /\ sent \in Difficulties
               /\ sent.target = sent.difficulty
               /\ sent.pending = d.pending
               /\ d.difficulty # 0 => sent.difficulty # 0
               /\ diff > 0 /\ current # 0 => sent.difficulty # 0
<1> DEFINE capped == IF diff <= current THEN diff ELSE current
           sent   == SendDifficulty(d, diff, current)
<1>1. d.difficulty \in Nat /\ d.pending \in Int /\ d.target \in Nat
  BY DEF Difficulties
<1>2. CASE diff = d.difficulty \/ diff <= 0 \/ current = 0
  <2>1. sent = d  BY <1>2 DEF SendDifficulty
  <2>2. diff > 0 /\ current # 0 => d.difficulty # 0  BY <1>2
  <2> HIDE DEF sent
  <2>3. QED  BY <2>1, <2>2 DEF sent
<1>3. CASE ~(diff = d.difficulty \/ diff <= 0 \/ current = 0)
  <2>1. capped \in Nat /\ capped # 0  BY <1>3
  <2>2. sent = [d EXCEPT !.difficulty = capped, !.target = capped]
    BY <1>3 DEF SendDifficulty
  <2> HIDE DEF capped, sent
  <2>3. /\ sent \in Difficulties
        /\ sent.target = capped /\ sent.difficulty = capped
        /\ sent.pending = d.pending
    BY <1>1, <2>1, <2>2 DEF Difficulties
  <2>4. QED  BY <2>1, <2>3 DEF sent
<1>4. QED  BY <1>2, <1>3

\* A job that is sent takes the pending difficulty with it, leaves a socket
\* open only if it was, and ends the process only where there is none.
LEMMA SendMiningJobTells ==
    ASSUME ClientTypeOK, NEW d \in Difficulties, d.target = d.difficulty,
           NEW current \in Nat, SendMiningJob(d, current)
    PROVE  /\ difficulties' \in Difficulties
           /\ TargetIsDifficulty'
           /\ d.difficulty # 0 => difficulties'.difficulty # 0
           /\ crashed' \in BOOLEAN
           /\ socket' \in {"open", "destroyed", "closed"}
           /\ socket' = "open" => socket = "open"
           /\ socket' = "closed" <=> socket = "closed"
           /\ ~crashed' => socket' # "open" \/ current # 0
<1>1. CASE /\ Destroyed
           /\ difficulties' = d
           /\ UNCHANGED crashed
  BY <1>1 DEF Destroyed, ClientTypeOK, TargetIsDifficulty
<1>2. CASE /\ difficulties' =
                 [SendDifficulty(d, d.pending, current) EXCEPT !.pending = 0]
           /\ crashed' = (current = 0)
           /\ UNCHANGED socket
  <2> DEFINE sent == SendDifficulty(d, d.pending, current)
  <2>1. d.pending \in Int  BY DEF Difficulties
  <2>2. /\ sent \in Difficulties /\ sent.target = sent.difficulty
        /\ d.difficulty # 0 => sent.difficulty # 0
    BY <2>1, SendDifficultyTells
  <2>3. difficulties' = [sent EXCEPT !.pending = 0]  BY <1>2
  <2> HIDE DEF sent
  <2>4. /\ difficulties' \in Difficulties
        /\ difficulties'.target = sent.target
        /\ difficulties'.difficulty = sent.difficulty
    BY <2>2, <2>3 DEF Difficulties
  <2>5. crashed' \in BOOLEAN /\ (~crashed' => current # 0)  BY <1>2, Zenon
  <2>6. QED  BY <1>2, <2>2, <2>4, <2>5 DEF TargetIsDifficulty, ClientTypeOK
<1>3. QED  BY <1>1, <1>2 DEF SendMiningJob

-----------------------------------------------------------------------------
\* The steps.

\* What is not about workers that are made or judged.
LEMMA QuietStepKeepsSessionInv ==
    ASSUME SessionInv, ~crashed, ClientTypeOK',
           UNCHANGED <<isAuthorized, workerName, workers, workerMap>>,
           credited' = NoWorker,
           TargetIsDifficulty',
           difficulties.difficulty # 0 => difficulties'.difficulty # 0,
           socket' = "open" => socket = "open",
           socket' = "closed" <=> socket = "closed",
           socket' = "closed" => chunk' = 0,
           chunk' > 0 /\ job' # 0 => socket = "open" \/ (chunk > 0 /\ job # 0)
    PROVE  SessionInv'
<1> USE DEF SessionInv
<1>1. Made' = Made  BY DEF Made
<1>2. MapHoldsAccepted' /\ CreditedWasAccepted'
  BY <1>1 DEF MapHoldsAccepted, CreditedWasAccepted
<1>3. RemovedWithReason' /\ NameWasSent'
  BY <1>1 DEF RemovedWithReason, NameWasSent
<1>4. AuthorizedMinersKnowTheirTarget'
  BY DEF AuthorizedMinersKnowTheirTarget, TargetIsDifficulty
<1>5. RefusalDisconnects'
  BY <1>1 DEF RefusalDisconnects, Refused
<1>6. QED  BY <1>2, <1>3, <1>4, <1>5

\* What the callback does to the difficulties, the socket and the process.
LEMMA CallbackTells ==
    ASSUME SessionInv, NEW w \in WorkerId, NEW isAccepted \in BOOLEAN,
           NEW name \in Name, AuthorizeCallback(w, isAccepted, name)
    PROVE  /\ difficulties' \in Difficulties
           /\ TargetIsDifficulty'
           /\ crashed' \in BOOLEAN
           /\ socket' \in {"open", "destroyed", "closed"}
           /\ socket' = "open" => socket = "open" /\ isAccepted
           /\ socket' = "closed" <=> socket = "closed"
           /\ isAccepted /\ ~crashed' /\ (socket' = "open" \/ job # 0) =>
                 difficulties'.difficulty # 0
<1> USE DEF SessionInv
<1>1. CASE isAccepted
  <2> DEFINE sent == SendDifficulty(difficulties, FirstDifficulty, job)
  <2>1. FirstDifficulty \in Int /\ FirstDifficulty > 0
    BY DifficultyAssumption DEF FirstDifficulty
  <2>2. difficulties \in Difficulties /\ job \in Nat  BY DEF ClientTypeOK
  <2>3. /\ sent \in Difficulties /\ sent.target = sent.difficulty
        /\ job # 0 => sent.difficulty # 0
    BY <2>1, <2>2, SendDifficultyTells DEF TargetIsDifficulty
  <2>4. SendMiningJob(sent, job)  BY <1>1 DEF AuthorizeCallback
  <2> HIDE DEF sent
  <2>5. QED  BY <1>1, <2>2, <2>3, <2>4, SendMiningJobTells
<1>2. CASE ~isAccepted
  <2>1. Destroyed /\ UNCHANGED <<difficulties, crashed>>
    BY <1>2 DEF AuthorizeCallback
  <2>2. QED  BY <1>2, <2>1 DEF Destroyed, ClientTypeOK, TargetIsDifficulty
<1>3. QED  BY <1>1, <1>2

\* A worker that was not judged yet (and may be new) is judged.
LEMMA JudgementKeepsSessionInv ==
    ASSUME SessionInv, NEW w \in WorkerId, NEW isAccepted \in BOOLEAN,
           NEW name \in Name, NEW worker \in Worker,
           w \in Made => workers[w].verdict = "none",
           worker.verdict = "none", ~worker.isRemoved,
           AuthorizeCallback(w, isAccepted, name),
           workers' = [workers EXCEPT ![w] = Judged(worker, isAccepted)],
           UNCHANGED <<isSubscribed, idle, job>>, NotAMessage,
           workerName' \in Name, chunk' \in 0 .. MaxChunk,
           socket = "closed" => chunk' = 0
    PROVE  SessionInv'
<1> USE DEF SessionInv, NotAMessage, NothingUnknown, NoShare
<1> DEFINE judged == Judged(worker, isAccepted)
<1>1. /\ judged \in Worker
      /\ judged.verdict = IF isAccepted THEN "yes" ELSE "no"
      /\ judged.isRemoved = ~isAccepted
  BY DEF Judged, Worker
<1>2. judged # NoWorker  BY <1>1, NoWorkerAssumption
<1> HIDE DEF judged
<1>3. /\ workers'[w] = judged
      /\ \A v \in WorkerId \ {w} : workers'[v] = workers[v]
  BY DEF ClientTypeOK, judged
<1>4. Made' = Made \cup {w}  BY <1>2, <1>3 DEF Made
<1>5. workerMap' = IF isAccepted THEN [workerMap EXCEPT ![name] = w]
                   ELSE workerMap
  BY DEF AuthorizeCallback, ClientTypeOK
<1>6. ClientTypeOK'
  <2>1. workers' \in [WorkerId -> Worker \cup {NoWorker}]
    BY <1>1 DEF ClientTypeOK, judged
  <2>2. workerMap' \in [Name -> WorkerId \cup {NoWorker}]
    BY <1>5 DEF ClientTypeOK
  <2>3. isAuthorized' \in BOOLEAN  BY DEF AuthorizeCallback
  <2>4. QED  BY <2>1, <2>2, <2>3, CallbackTells DEF ClientTypeOK
<1>7. MapHoldsAccepted'
  <2>1. SUFFICES ASSUME NEW n \in Name, workerMap'[n] # NoWorker
                 PROVE  /\ workerMap'[n] \in Made'
                        /\ workers'[workerMap'[n]].verdict = "yes"
    BY DEF MapHoldsAccepted
  <2>2. CASE isAccepted /\ n = name
    BY <2>2, <1>1, <1>3, <1>4, <1>5 DEF ClientTypeOK
  <2>3. CASE ~(isAccepted /\ n = name)
    <3>1. workerMap'[n] = workerMap[n]  BY <2>3, <1>5 DEF ClientTypeOK
    <3>2. workerMap[n] \in Made /\ workers[workerMap[n]].verdict = "yes"
      BY <2>1, <3>1 DEF MapHoldsAccepted
    <3>3. workerMap[n] # w  BY <3>2
    <3>4. QED  BY <1>3, <1>4, <3>1, <3>2, <3>3 DEF Made
  <2>4. QED  BY <2>2, <2>3
<1>8. CreditedWasAccepted'  BY DEF CreditedWasAccepted
<1>9. RemovedWithReason' /\ NameWasSent'
  BY <1>1, <1>3, <1>4, CallbackTells DEF RemovedWithReason, NameWasSent, Made
<1>10. TargetIsDifficulty' /\ AuthorizedMinersKnowTheirTarget'
  <2>1. isAuthorized' = isAccepted  BY DEF AuthorizeCallback
  <2>2. QED
    BY <2>1, CallbackTells
    DEF AuthorizedMinersKnowTheirTarget, TargetIsDifficulty
<1>11. RefusalDisconnects'
  BY <1>1, <1>3, <1>4, CallbackTells DEF RefusalDisconnects, Refused, Made
<1>12. QED  BY <1>6, <1>7, <1>8, <1>9, <1>10, <1>11

LEMMA AuthorizeKeepsSessionInv ==
    ASSUME SessionInv, NEW n \in Name, HandleAuthorize(n)
    PROVE  SessionInv'
<1> DEFINE worker == [name |-> n, verdict |-> "none", isRemoved |-> FALSE]
<1>1. PICK w \in WorkerId :
        /\ Message
        /\ Made = 1 .. (w - 1)
        /\ workerName' = n
        /\ \/ \E isAccepted \in BOOLEAN :
                 /\ AuthorizeCallback(w, isAccepted, n)
                 /\ workers' = [workers EXCEPT ![w] = Judged(worker, isAccepted)]
           \/ /\ workers' = [workers EXCEPT ![w] = worker]
              /\ UNCHANGED <<socket, session, crashed>>
        /\ NotAMessage
        /\ UNCHANGED <<isSubscribed, idle, job>>
  BY DEF HandleAuthorize
<1>2. worker \in Worker  BY DEF Worker
<1>3. w \notin Made  BY <1>1 DEF WorkerId
<1>4. chunk' \in 0 .. MaxChunk /\ chunk > 0
  BY <1>1, MessageIsCounted DEF SessionInv
<1>5. socket # "closed"  BY <1>4 DEF SessionInv, RemovedWithReason
<1>6. CASE \E isAccepted \in BOOLEAN :
              /\ AuthorizeCallback(w, isAccepted, n)
              /\ workers' = [workers EXCEPT ![w] = Judged(worker, isAccepted)]
  <2>1. PICK isAccepted \in BOOLEAN :
            /\ AuthorizeCallback(w, isAccepted, n)
            /\ workers' = [workers EXCEPT ![w] = Judged(worker, isAccepted)]
    BY <1>6
  <2>2. worker.verdict = "none" /\ ~worker.isRemoved  OBVIOUS
  <2> HIDE DEF worker
  <2>3. QED
    BY <1>1, <1>2, <1>3, <1>4, <1>5, <2>1, <2>2, JudgementKeepsSessionInv
<1>7. CASE /\ workers' = [workers EXCEPT ![w] = worker]
           /\ UNCHANGED <<socket, session, crashed>>
  <2> USE DEF SessionInv, session, NotAMessage, NothingUnknown, NoShare
  <2>1. /\ workers'[w] = worker
        /\ \A v \in WorkerId \ {w} : workers'[v] = workers[v]
    BY <1>7 DEF ClientTypeOK
  <2>2. worker # NoWorker  BY <1>2, NoWorkerAssumption
  <2>3. Made' = Made \cup {w}  BY <2>1, <2>2 DEF Made
  <2>4. ClientTypeOK'  BY <1>1, <1>2, <1>4, <1>7 DEF ClientTypeOK
  <2>5. MapHoldsAccepted'
    BY <1>3, <1>7, <2>1, <2>3 DEF MapHoldsAccepted, Made
  <2>6. CreditedWasAccepted'  BY <1>1 DEF CreditedWasAccepted
  <2>7. RemovedWithReason' /\ NameWasSent'
    BY <1>1, <1>5, <1>7, <2>1, <2>3 DEF RemovedWithReason, NameWasSent, Made
  <2>8. TargetIsDifficulty' /\ AuthorizedMinersKnowTheirTarget'
    BY <1>1, <1>4, <1>7 DEF AuthorizedMinersKnowTheirTarget, TargetIsDifficulty
  <2>9. RefusalDisconnects'
    BY <1>7, <2>1, <2>3 DEF RefusalDisconnects, Refused, Made
  <2>10. QED  BY <2>4, <2>5, <2>6, <2>7, <2>8, <2>9
<1>8. QED  BY <1>1, <1>6, <1>7

LEMMA SubmitKeepsSessionInv ==
    ASSUME SessionInv, NEW n \in Name, HandleSubmit(n)
    PROVE  SessionInv'
<1> USE DEF SessionInv, HandleSubmit, NothingUnknown, session, process
<1>1. chunk > 0 /\ chunk' \in 0 .. MaxChunk  BY MessageIsCounted
<1>2. socket # "closed"  BY <1>1 DEF RemovedWithReason
<1>3. Made' = Made  BY DEF Made
<1>4. ClientTypeOK'  BY <1>1 DEF ClientTypeOK
<1>5. MapHoldsAccepted'  BY <1>3 DEF MapHoldsAccepted
<1>6. CreditedWasAccepted'
  <2>1. SUFFICES ASSUME credited' # NoWorker
                 PROVE  /\ credited' \in Made
                        /\ workers[credited'].verdict = "yes"
                        /\ ~workers[credited'].isRemoved
    BY <1>3 DEF CreditedWasAccepted
  <2>2. credited' \in Made /\ workers[credited'].verdict = "yes"
    BY <2>1 DEF MapHoldsAccepted
  <2>3. QED  BY <1>2, <2>2 DEF RemovedWithReason
<1>7. RemovedWithReason' /\ NameWasSent'
  BY <1>2, <1>3 DEF RemovedWithReason, NameWasSent
<1>8. TargetIsDifficulty' /\ AuthorizedMinersKnowTheirTarget'
  BY <1>1 DEF AuthorizedMinersKnowTheirTarget, TargetIsDifficulty, Message
<1>9. RefusalDisconnects'  BY <1>3 DEF RefusalDisconnects, Refused
<1>10. QED  BY <1>4, <1>5, <1>6, <1>7, <1>8, <1>9

LEMMA CloseKeepsSessionInv ==
    ASSUME SessionInv, Close
    PROVE  SessionInv'
<1> USE DEF SessionInv, Close, Turn, NotAMessage, NothingUnknown, NoShare,
            session, process
<1> DEFINE InMap(w) == \E n \in Name : workerMap[n] = w
<1>1. \A w \in WorkerId : InMap(w) => w \in Made /\ workers[w].verdict = "yes"
  BY NoWorkerAssumption DEF MapHoldsAccepted
<1>2. \A w \in WorkerId :
         /\ InMap(w) => workers'[w] = [workers[w] EXCEPT !.isRemoved = TRUE]
         /\ ~InMap(w) => workers'[w] = workers[w]
  OBVIOUS
<1>3. ASSUME NEW w \in WorkerId
      PROVE  /\ workers'[w] \in Worker \cup {NoWorker}
             /\ workers'[w] # NoWorker <=> workers[w] # NoWorker
             /\ w \in Made => workers'[w].verdict = workers[w].verdict
  <2>1. CASE InMap(w)
    <3>1. w \in Made  BY <1>1, <2>1
    <3>2. workers[w] \in Worker  BY <3>1 DEF Made, ClientTypeOK
    <3>3. /\ [workers[w] EXCEPT !.isRemoved = TRUE] \in Worker
          /\ [workers[w] EXCEPT !.isRemoved = TRUE].verdict = workers[w].verdict
      BY <3>2 DEF Worker
    <3>4. QED  BY <1>2, <2>1, <3>2, <3>3, NoWorkerAssumption
  <2>2. CASE ~InMap(w)  BY <1>2, <2>2 DEF ClientTypeOK
  <2>3. QED  BY <2>1, <2>2
<1>4. Made' = Made  BY <1>3 DEF Made
<1>5. ClientTypeOK'
  <2>1. workers' \in [WorkerId -> Worker \cup {NoWorker}]  BY <1>3
  <2>2. QED  BY <2>1 DEF ClientTypeOK
<1> HIDE DEF InMap
<1>6. MapHoldsAccepted'  BY <1>3, <1>4 DEF MapHoldsAccepted, Made
<1>7. CreditedWasAccepted'  BY DEF CreditedWasAccepted
<1>8. RemovedWithReason' /\ NameWasSent'
  <2>1. ASSUME NEW w \in Made, workers'[w].isRemoved
        PROVE  workers'[w].verdict \in {"no", "yes"}
    <3>1. CASE InMap(w)  BY <1>1, <1>3, <3>1 DEF Made
    <3>2. CASE ~InMap(w)
      BY <1>2, <2>1, <3>2 DEF RemovedWithReason, Made
    <3>3. QED  BY <3>1, <3>2
  <2>2. QED  BY <1>4, <2>1 DEF RemovedWithReason, NameWasSent
<1>9. /\ TargetIsDifficulty' /\ RefusalDisconnects'
      /\ AuthorizedMinersKnowTheirTarget'
  BY DEF TargetIsDifficulty, AuthorizedMinersKnowTheirTarget, RefusalDisconnects
<1>10. QED  BY <1>5, <1>6, <1>7, <1>8, <1>9

\* A job is sent, or made and not sent.
LEMMA JobKeepsSessionInv ==
    ASSUME SessionInv, Turn, chunk' = chunk,
           NEW current \in Nat,
           \/ socket # "closed" /\ SendMiningJob(difficulties, current)
           \/ UNCHANGED <<socket, difficulties, crashed>>,
           job' \in Nat,
           UNCHANGED <<isSubscribed, isAuthorized, workerName, idle, workers,
                       workerMap>>
    PROVE  SessionInv'
<1> USE DEF SessionInv, Turn, NotAMessage, NothingUnknown, NoShare
<1>1. difficulties \in Difficulties /\ difficulties.target = difficulties.difficulty
  BY DEF ClientTypeOK, TargetIsDifficulty
<1>2. /\ difficulties' \in Difficulties
      /\ TargetIsDifficulty'
      /\ difficulties.difficulty # 0 => difficulties'.difficulty # 0
      /\ crashed' \in BOOLEAN
      /\ socket' \in {"open", "destroyed", "closed"}
      /\ socket' = "open" => socket = "open"
      /\ socket' = "closed" <=> socket = "closed"
  BY <1>1, SendMiningJobTells DEF ClientTypeOK, TargetIsDifficulty
<1>3. ClientTypeOK'  BY <1>2 DEF ClientTypeOK
<1>4. QED  BY <1>2, <1>3, QuietStepKeepsSessionInv

\* The inductive invariant is one.
LEMMA ClientStepKeepsSessionInv ==
    ASSUME SessionInv, [ClientNext]_clientVars
    PROVE  SessionInv'
<1> USE DEF SessionInv, Turn, NotAMessage, NothingUnknown, NoShare, session,
            process
<1>1. CASE Data
  <2>1. chunk' \in 0 .. MaxChunk  BY <1>1, ClientBounds DEF Data
  <2>2. ClientTypeOK'  BY <1>1, <2>1 DEF Data, ClientTypeOK
  <2>3. TargetIsDifficulty'  BY <1>1 DEF Data, TargetIsDifficulty
  <2>4. QED  BY <1>1, <2>2, <2>3, QuietStepKeepsSessionInv DEF Data
<1>2. CASE OtherMethod \/ MessageThrows \/ HandleSubscribe
  <2> USE DEF OtherMethod, MessageThrows, HandleSubscribe
  <2>1. chunk > 0 /\ chunk' \in 0 .. MaxChunk /\ ~crashed
    BY <1>2, MessageIsCounted DEF Message
  <2>2. /\ UNCHANGED <<socket, workerName, idle, workers, isAuthorized,
                       difficulties, workerMap, job>>
        /\ credited' = NoWorker
        /\ isSubscribed' \in {isSubscribed, TRUE}
        /\ crashed' \in {crashed, TRUE}
        /\ unknown' \in {"no", "unknown", "both"}
    BY <1>2
  <2>3. ClientTypeOK'  BY <2>1, <2>2 DEF ClientTypeOK
  <2>4. socket # "closed"  BY <2>1 DEF RemovedWithReason
  <2>5. TargetIsDifficulty'  BY <2>2 DEF TargetIsDifficulty
  <2>6. QED  BY <2>1, <2>2, <2>3, <2>4, <2>5, QuietStepKeepsSessionInv
<1>3. ASSUME NEW n \in Name, HandleAuthorize(n)  PROVE SessionInv'
  BY <1>3, AuthorizeKeepsSessionInv
<1>4. ASSUME NEW n \in Name, HandleSubmit(n)  PROVE SessionInv'
  BY <1>4, SubmitKeepsSessionInv
<1>5. ASSUME NEW w \in WorkerId, NEW isAccepted \in BOOLEAN,
             LateCallback(w, isAccepted)
      PROVE  SessionInv'
  <2>1. /\ chunk = 0 /\ chunk' = 0
        /\ w \in Made /\ workers[w].verdict = "none"
        /\ AuthorizeCallback(w, isAccepted, workerName)
        /\ workers' = [workers EXCEPT ![w] = Judged(workers[w], isAccepted)]
        /\ UNCHANGED <<isSubscribed, workerName, idle, job>>
        /\ NotAMessage
    BY <1>5 DEF LateCallback
  <2>2. workers[w] \in Worker  BY <2>1 DEF Made, ClientTypeOK
  <2>3. ~workers[w].isRemoved  BY <2>1 DEF RemovedWithReason
  <2>4. workerName \in Name  BY <2>1 DEF NameWasSent
  <2>5. chunk' \in 0 .. MaxChunk  BY <2>1, ClientBounds
  <2>6. QED
    BY <2>1, <2>2, <2>3, <2>4, <2>5, JudgementKeepsSessionInv
<1>6. ASSUME NEW difficulty \in JobDifficulty, NewJob(difficulty)
      PROVE  SessionInv'
  <2>1. difficulty \in Nat  BY DifficultyAssumption
  <2>2. QED  BY <1>6, <2>1, JobKeepsSessionInv DEF NewJob
<1>7. CASE BroadcastJob
  <2>1. job \in Nat  BY DEF ClientTypeOK
  <2>2. QED  BY <1>7, <2>1, JobKeepsSessionInv DEF BroadcastJob
<1>8. ASSUME NEW difficulty \in Difficulty, EnqueueNextDifficulty(difficulty)
      PROVE  SessionInv'
  <2>1. /\ ~crashed /\ credited' = NoWorker /\ unknown' = "no"
        /\ difficulties' = [difficulties EXCEPT !.pending = difficulty]
        /\ UNCHANGED <<socket, chunk, isSubscribed, isAuthorized, workerName,
                       idle, workers, workerMap, job, crashed>>
    BY <1>8 DEF EnqueueNextDifficulty
  <2>2. difficulty \in Int  BY DifficultyAssumption
  <2>3. /\ difficulties' \in Difficulties
        /\ difficulties'.difficulty = difficulties.difficulty
        /\ difficulties'.target = difficulties.target
    BY <2>1, <2>2 DEF ClientTypeOK, Difficulties
  <2>4. ClientTypeOK' /\ TargetIsDifficulty'
    BY <2>1, <2>3 DEF ClientTypeOK, TargetIsDifficulty
  <2>5. socket' = "closed" => chunk' = 0  BY <2>1 DEF RemovedWithReason
  <2>6. QED  BY <2>1, <2>3, <2>4, <2>5, QuietStepKeepsSessionInv
<1>9. CASE GoesIdle \/ BadData
  <2>1. /\ UNCHANGED <<chunk, isSubscribed, isAuthorized, difficulties,
                       workerName, workers, workerMap, job, crashed>>
        /\ ~crashed /\ credited' = NoWorker /\ unknown' = "no"
        /\ idle' \in BOOLEAN
        /\ socket # "closed" /\ socket' \in {socket, "destroyed"}
    BY <1>9 DEF GoesIdle, BadData, Destroyed, ClientTypeOK
  <2>2. ClientTypeOK' /\ TargetIsDifficulty'
    BY <2>1 DEF ClientTypeOK, TargetIsDifficulty
  <2>3. QED  BY <2>1, <2>2, QuietStepKeepsSessionInv
<1>10. CASE Close  BY <1>10, CloseKeepsSessionInv
<1>11. CASE UNCHANGED clientVars
  BY <1>11
  DEF clientVars, ClientTypeOK, Made, MapHoldsAccepted, CreditedWasAccepted,
      RemovedWithReason, NameWasSent, TargetIsDifficulty,
      AuthorizedMinersKnowTheirTarget, RefusalDisconnects, Refused
<1>12. QED
  BY <1>1, <1>2, <1>3, <1>4, <1>5, <1>6, <1>7, <1>8, <1>9, <1>10, <1>11
  DEF ClientNext, HandleMessage

LEMMA SessionInvAlways == ClientSpec => []SessionInv
<1>1. ClientInit => SessionInv
  <2> SUFFICES ASSUME ClientInit  PROVE SessionInv
    OBVIOUS
  <2> USE DEF ClientInit
  <2>1. ClientTypeOK
    <3>1. 0 \in 0 .. MaxChunk  BY ClientBounds
    <3>2. job \in Nat  BY DifficultyAssumption
    <3>3. difficulties \in Difficulties  BY DEF Difficulties
    <3>4. QED  BY <3>1, <3>2, <3>3 DEF ClientTypeOK
  <2>2. Made = {}  BY DEF Made
  <2>3. QED
    BY <2>1, <2>2
    DEF SessionInv, MapHoldsAccepted, CreditedWasAccepted, RemovedWithReason,
        NameWasSent, TargetIsDifficulty, AuthorizedMinersKnowTheirTarget,
        RefusalDisconnects, Refused
<1>2. QED  BY <1>1, ClientStepKeepsSessionInv, PTL DEF ClientSpec

-----------------------------------------------------------------------------
\* The session's state is well typed.
THEOREM ClientTypesCorrect == ClientSpec => []ClientTypeOK
<1>1. SessionInv => ClientTypeOK  BY DEF SessionInv
<1>2. QED  BY <1>1, SessionInvAlways, PTL

\* Whoever earns was accepted, for any number of names and of requests under
\* way.
THEOREM OnlyAcceptedWorkersEarnAlways == ClientSpec => []OnlyAcceptedWorkersEarn
<1>1. SessionInv => OnlyAcceptedWorkersEarn
  BY DEF SessionInv, CreditedWasAccepted, OnlyAcceptedWorkersEarn
<1>2. QED  BY <1>1, SessionInvAlways, PTL

\* No share, be it a worker's first or a later one, is credited to a worker
\* that is marked removed: a share is a message, and none is left when the
\* socket closes.
THEOREM RemovedWorkersEarnNothingAlways ==
    ClientSpec => []RemovedWorkersEarnNothing
<1>1. SessionInv => RemovedWorkersEarnNothing
  BY DEF SessionInv, CreditedWasAccepted, RemovedWorkersEarnNothing
<1>2. QED  BY <1>1, SessionInvAlways, PTL

\* Nobody who is authorized goes on being served without a target, for all
\* difficulties of ports, jobs and retargets: where sendDifficulty sends nothing
\* for want of a job, the client is disconnected or the process ends.
THEOREM AuthorizedMinersKnowTheirTargetAlways ==
    ClientSpec => []AuthorizedMinersKnowTheirTarget
<1>1. SessionInv => AuthorizedMinersKnowTheirTarget  BY DEF SessionInv
<1>2. QED  BY <1>1, SessionInvAlways, PTL

\* A refusal ends the service of the connection with the data event it came
\* in, however many workers are accepted.
THEOREM RefusalEndsServiceAlways == ClientSpec => RefusalEndsService
<1>1. ASSUME SessionInv, [ClientNext]_clientVars, Refused, chunk = 0,
             ~UNCHANGED clientVars
      PROVE  chunk' = 0 /\ credited' = NoWorker
  <2>1. ~Data  BY <1>1 DEF SessionInv, RefusalDisconnects, Data
  <2>2. ~Message  BY <1>1 DEF Message
  <2>3. ~HandleMessage
    BY <2>2
    DEF HandleMessage, OtherMethod, MessageThrows, HandleSubscribe,
        HandleAuthorize, HandleSubmit
  <2>4. QED
    BY <1>1, <2>1, <2>3
    DEF ClientNext, LateCallback, NewJob, EnqueueNextDifficulty, BroadcastJob,
        GoesIdle, BadData, Close, Turn, NotAMessage, NoShare
<1>2. SessionInv /\ [ClientNext]_clientVars =>
        [Refused /\ chunk = 0 => chunk' = 0 /\ credited' = NoWorker]_clientVars
  BY <1>1
<1>3. QED  BY <1>2, SessionInvAlways, PTL DEF ClientSpec, RefusalEndsService
=============================================================================
