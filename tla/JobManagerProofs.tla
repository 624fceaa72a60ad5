-------------------------- MODULE JobManagerProofs --------------------------
(***************************************************************************)
(* What module JobManager promises, proved for every set of templates and  *)
(* every id limit: the types, the shared tip, the monotone height, the     *)
(* order in which ids are reused, and the implementation of WorkBook.      *)
(***************************************************************************)
EXTENDS JobManager, TLAPS

\* The counter stays within the ids: the wrap comes before the limit.
LEMMA NextIdIsId ==
    ASSUME counter \in 0 .. (IdLimit - 1)
    PROVE  /\ NextId \in JobId
           /\ counter + 1 = IdLimit => NextId = 1
           /\ counter + 1 # IdLimit => NextId = counter + 1
<1>1. CASE counter + 1 = IdLimit
  <2>1. (counter + 1) % IdLimit = 0  BY <1>1, IdLimitAssumption
  <2>2. QED  BY <2>1, <1>1, IdLimitAssumption DEF NextId, JobId
<1>2. CASE counter + 1 # IdLimit
  <2>1. counter + 1 \in 1 .. (IdLimit - 1)  BY <1>2, IdLimitAssumption
  <2>2. (counter + 1) % IdLimit = counter + 1  BY <2>1, IdLimitAssumption
  <2>3. QED  BY <2>1, <2>2, <1>2, IdLimitAssumption DEF NextId, JobId
<1>3. QED  BY <1>1, <1>2

\* A template yields a job, which is not the value undefined.
LEMMA NewJobIsJob ==
    ASSUME counter \in 0 .. (IdLimit - 1), NEW t \in Template
    PROVE  /\ [id |-> NextId, template |-> t] \in Job
           /\ [id |-> NextId, template |-> t] # NoJob
<1>1. [id |-> NextId, template |-> t] \in Job  BY NextIdIsId DEF Job
<1>2. QED  BY <1>1, NoJobAssumption

-----------------------------------------------------------------------------
LEMMA InitTypes == JobInit => JobTypeOK
BY IdLimitAssumption DEF JobInit, JobTypeOK

LEMMA StepTypes ==
    ASSUME JobTypeOK, NEW t \in Template, ProcessTemplate(t)
    PROVE  JobTypeOK'
<1>1. CASE UNCHANGED jobVars  BY <1>1 DEF jobVars, JobTypeOK
<1>2. CASE UpdateJob(t, IsNewBlock(t))
  <2>1. NextId \in JobId  BY NextIdIsId DEF JobTypeOK
  <2>2. [id |-> NextId, template |-> t] \in Job  BY NewJobIsJob DEF JobTypeOK
  <2>3. counter' \in 0 .. (IdLimit - 1)
    BY <1>2, <2>1, IdLimitAssumption DEF UpdateJob, JobId
  <2>4. /\ currentJob' \in Job \cup {NoJob}
        /\ validJobs' \in [JobId -> Job \cup {NoJob}]
    BY <1>2, <2>1, <2>2 DEF UpdateJob, JobTypeOK
  <2>5. ASSUME NEW i \in JobId, validJobs'[i] # NoJob
        PROVE  validJobs'[i].id = i
    BY <1>2, <2>1, <2>5 DEF UpdateJob, JobTypeOK
  <2>6. QED  BY <2>3, <2>4, <2>5 DEF JobTypeOK
<1>3. QED  BY <1>1, <1>2 DEF ProcessTemplate

\* The job manager's state is well typed, whatever templates arrive.
THEOREM JobTypesCorrect == JobSpec => []JobTypeOK
<1>1. JobTypeOK /\ [JobNext]_jobVars => JobTypeOK'
  <2>1. JobTypeOK /\ UNCHANGED jobVars => JobTypeOK'
    BY DEF jobVars, JobTypeOK
  <2>2. QED  BY <2>1, StepTypes DEF JobNext
<1>2. QED  BY <1>1, InitTypes, PTL DEF JobSpec

-----------------------------------------------------------------------------
LEMMA StepSharesTip ==
    ASSUME JobTypeOK, ValidJobsShareTip, NEW t \in Template, ProcessTemplate(t)
    PROVE  ValidJobsShareTip'
<1>1. CASE UNCHANGED jobVars
  BY <1>1 DEF jobVars, ValidJobsShareTip, ValidJobs
<1>2. CASE UpdateJob(t, IsNewBlock(t))
  <2>1. NextId \in JobId  BY NextIdIsId DEF JobTypeOK
  <2>2. currentJob' # NoJob
    BY <1>2, NewJobIsJob DEF UpdateJob, JobTypeOK
  <2>3. /\ validJobs'[currentJob'.id] = currentJob'
        /\ counter' = currentJob'.id
    BY <1>2, <2>1 DEF UpdateJob
  <2>4. ASSUME NEW i \in JobId, validJobs'[i] # NoJob
        PROVE  validJobs'[i].template.prev = currentJob'.template.prev
    <3>1. CASE i = NextId  BY <3>1, <1>2, <2>1 DEF UpdateJob
    <3>2. CASE i # NextId
      <4>1. ~IsNewBlock(t) /\ validJobs[i] # NoJob
            /\ validJobs'[i] = validJobs[i]
        BY <3>2, <1>2, <2>4 DEF UpdateJob
      <4>2. validJobs[i].template.prev = currentJob.template.prev
        BY <4>1 DEF ValidJobsShareTip, ValidJobs, IsNewBlock
      <4>3. currentJob.template.prev = t.prev  BY <4>1 DEF IsNewBlock
      <4>4. QED  BY <4>1, <4>2, <4>3, <1>2 DEF UpdateJob
    <3>3. QED  BY <3>1, <3>2
  <2>5. QED  BY <2>2, <2>3, <2>4 DEF ValidJobsShareTip, ValidJobs
<1>3. QED  BY <1>1, <1>2 DEF ProcessTemplate

\* After a template is processed there is a job, which is valid.
LEMMA CurrentJobAfter ==
    ASSUME JobTypeOK, ValidJobsShareTip, NEW t \in Template, ProcessTemplate(t)
    PROVE  /\ currentJob' \in Job
           /\ currentJob' # NoJob
           /\ currentJob' \in ValidJobs'
<1>1. JobTypeOK' /\ ValidJobsShareTip'  BY StepTypes, StepSharesTip
<1>2. currentJob' # NoJob
  <2>1. CASE IsStale(t) /\ UNCHANGED jobVars  BY <2>1 DEF IsStale, jobVars
  <2>2. CASE UpdateJob(t, IsNewBlock(t))
    BY <2>2, NewJobIsJob DEF UpdateJob, JobTypeOK
  <2>3. QED  BY <2>1, <2>2 DEF ProcessTemplate
<1>3. currentJob' \in Job  BY <1>1, <1>2 DEF JobTypeOK
<1>4. currentJob'.id \in JobId  BY <1>3 DEF Job
<1>5. validJobs'[currentJob'.id] = currentJob'
  BY <1>1, <1>2 DEF ValidJobsShareTip
<1>6. QED  BY <1>2, <1>3, <1>4, <1>5 DEF ValidJobs

\* The jobs a share may name all build on the block the pool mines on.
THEOREM ValidJobsShareTipAlways == JobSpec => []ValidJobsShareTip
<1>1. JobInit => ValidJobsShareTip
  BY DEF JobInit, ValidJobsShareTip, ValidJobs
<1>2. JobTypeOK /\ ValidJobsShareTip /\ [JobNext]_jobVars => ValidJobsShareTip'
  <2>1. ValidJobsShareTip /\ UNCHANGED jobVars => ValidJobsShareTip'
    BY DEF jobVars, ValidJobsShareTip, ValidJobs
  <2>2. QED  BY <2>1, StepSharesTip DEF JobNext
<1>3. QED  BY <1>1, <1>2, JobTypesCorrect, PTL DEF JobSpec

-----------------------------------------------------------------------------
LEMMA StepKeepsHeight ==
    ASSUME JobTypeOK, currentJob # NoJob, NEW t \in Template, ProcessTemplate(t)
    PROVE  /\ currentJob' # NoJob
           /\ currentJob'.template.height >= currentJob.template.height
<1>1. currentJob \in Job  BY DEF JobTypeOK
<1>2. currentJob.template \in Template  BY <1>1 DEF Job
<1>3. currentJob.template.height \in Nat /\ t.height \in Nat
  BY <1>2, TemplateAssumption
<1>4. CASE UNCHANGED jobVars  BY <1>4, <1>3 DEF jobVars
<1>5. CASE ~IsStale(t) /\ UpdateJob(t, IsNewBlock(t))
  <2>1. currentJob' # NoJob
    BY <1>5, NewJobIsJob DEF UpdateJob, JobTypeOK
  <2>2. currentJob'.template.height = t.height  BY <1>5 DEF UpdateJob
  <2>3. t.height >= currentJob.template.height
    <3>1. CASE currentJob.template.prev = t.prev
      BY <3>1, <1>2, <1>3, TemplateAssumption
    <3>2. CASE currentJob.template.prev # t.prev
      BY <3>2, <1>5, <1>3 DEF IsStale
    <3>3. QED  BY <3>1, <3>2
  <2>4. QED  BY <2>1, <2>2, <2>3
<1>6. QED  BY <1>4, <1>5 DEF ProcessTemplate

\* No template, late or not, takes the pool back to a lower height.
THEOREM HeightNeverDropsAlways == JobSpec => HeightNeverDrops
<1>1. JobTypeOK /\ [JobNext]_jobVars =>
        [currentJob # NoJob =>
           /\ currentJob' # NoJob
           /\ currentJob'.template.height >= currentJob.template.height]_jobVars
  BY StepKeepsHeight DEF JobNext
<1>2. QED  BY <1>1, JobTypesCorrect, PTL DEF JobSpec, HeightNeverDrops

-----------------------------------------------------------------------------
\* The id issued next is the oldest one; issued, it is the youngest, and
\* every other id is one older.
LEMMA NextIdIsOldest ==
    ASSUME counter \in 0 .. (IdLimit - 1)
    PROVE  Age(NextId) = IdLimit - 2
BY NextIdIsId, IdLimitAssumption DEF Age, JobId

LEMMA AgesShift ==
    ASSUME counter \in 0 .. (IdLimit - 1), NEW n \in JobId, n = NextId,
           counter' = n, NEW i \in JobId
    PROVE  /\ i = n => Age(i)' = 0
           /\ i # n => Age(i)' = Age(i) + 1 /\ Age(i) < IdLimit - 2
           /\ Age(i) \in 0 .. (IdLimit - 2)
BY NextIdIsId, IdLimitAssumption DEF Age, JobId

LEMMA InitYoungest == JobInit => ValidAreYoungest
<1>1. ASSUME JobInit
      PROVE  \A i \in JobId : validJobs[i] # NoJob <=> Age(i) < 0
  BY <1>1, IdLimitAssumption DEF JobInit, Age, JobId
<1>2. 0 \in 0 .. (IdLimit - 1)  BY IdLimitAssumption
<1>3. QED  BY <1>1, <1>2 DEF ValidAreYoungest

LEMMA StepYoungest ==
    ASSUME JobTypeOK, ValidAreYoungest, NEW t \in Template, ProcessTemplate(t)
    PROVE  ValidAreYoungest'
<1>1. CASE UNCHANGED jobVars
  BY <1>1 DEF jobVars, ValidAreYoungest, Age
<1>2. CASE UpdateJob(t, IsNewBlock(t))
  <2> DEFINE n == NextId
             job == [id |-> n, template |-> t]
  <2>1. counter \in 0 .. (IdLimit - 1)  BY DEF JobTypeOK
  <2>2. n \in JobId  BY <2>1, NextIdIsId
  <2>3. job # NoJob  BY <2>1, NewJobIsJob
  <2>4. counter' = n  BY <1>2 DEF UpdateJob
  <2>5. \A i \in JobId : validJobs'[i] = IF i = n THEN job
                                         ELSE IF IsNewBlock(t) THEN NoJob
                                         ELSE validJobs[i]
    BY <1>2 DEF UpdateJob
  <2>6. PICK k \in 0 .. (IdLimit - 1) :
          \A i \in JobId : validJobs[i] # NoJob <=> Age(i) < k
    BY DEF ValidAreYoungest
  <2> DEFINE m == IF IsNewBlock(t) THEN 1
                  ELSE IF k = IdLimit - 1 THEN k ELSE k + 1
  <2>7. m \in 0 .. (IdLimit - 1)  BY IdLimitAssumption
  <2> HIDE DEF n, job
  <2>8. ASSUME NEW i \in JobId
        PROVE  validJobs'[i] # NoJob <=> Age(i)' < m
    <3>1. CASE i = n
      <4>1. Age(i)' = 0  BY <3>1, <2>1, <2>2, <2>4, AgesShift DEF n
      <4>2. 0 < m  BY <2>6, IdLimitAssumption
      <4>3. QED  BY <3>1, <4>1, <4>2, <2>3, <2>5
    <3>2. CASE i # n
      <4>1. Age(i)' = Age(i) + 1 /\ Age(i) \in 0 .. (IdLimit - 2)
            /\ Age(i) < IdLimit - 2
        BY <3>2, <2>1, <2>2, <2>4, AgesShift DEF n
      <4>2. CASE IsNewBlock(t)
        BY <4>1, <4>2, <3>2, <2>5, IdLimitAssumption
      <4>3. CASE ~IsNewBlock(t)
        <5>1. validJobs'[i] = validJobs[i]  BY <4>3, <3>2, <2>5
        <5>2. validJobs[i] # NoJob <=> Age(i) < k  BY <2>6
        <5>3. Age(i) < k <=> Age(i) + 1 < m
          BY <4>1, <4>3, <2>6, IdLimitAssumption
        <5>4. QED  BY <5>1, <5>2, <5>3, <4>1
      <4>4. QED  BY <4>2, <4>3
    <3>3. QED  BY <3>1, <3>2
  <2> HIDE DEF m
  <2>9. QED  BY <2>7, <2>8 DEF ValidAreYoungest
<1>3. QED  BY <1>1, <1>2 DEF ProcessTemplate

\* The valid jobs are the most recent ones, in the order of their ids.
THEOREM ValidAreYoungestAlways == JobSpec => []ValidAreYoungest
<1>1. JobTypeOK /\ ValidAreYoungest /\ [JobNext]_jobVars => ValidAreYoungest'
  <2>1. ValidAreYoungest /\ UNCHANGED jobVars => ValidAreYoungest'
    BY DEF jobVars, ValidAreYoungest, Age
  <2>2. QED  BY <2>1, StepYoungest DEF JobNext
<1>2. QED  BY <1>1, InitYoungest, JobTypesCorrect, PTL DEF JobSpec

\* No job loses its id to another one while an id is free.
THEOREM FreeIdFirstAlways == JobSpec => []FreeIdFirst
<1>1. JobTypeOK /\ ValidAreYoungest => FreeIdFirst
  <2>1. SUFFICES ASSUME JobTypeOK, ValidAreYoungest,
                        validJobs[NextId] # NoJob, NEW i \in JobId
                 PROVE  validJobs[i] # NoJob
    BY DEF FreeIdFirst
  <2>2. PICK k \in 0 .. (IdLimit - 1) :
          \A j \in JobId : validJobs[j] # NoJob <=> Age(j) < k
    BY <2>1 DEF ValidAreYoungest
  <2>3. counter \in 0 .. (IdLimit - 1)  BY <2>1 DEF JobTypeOK
  <2>4. IdLimit - 2 < k
    BY <2>1, <2>2, <2>3, NextIdIsId, NextIdIsOldest
  <2>5. Age(i) <= IdLimit - 2
    BY <2>3, IdLimitAssumption DEF Age, JobId
  <2>6. Age(i) < k
    BY <2>2, <2>3, <2>4, <2>5, IdLimitAssumption DEF Age, JobId
  <2>7. QED  BY <2>2, <2>6
<1>2. QED  BY <1>1, JobTypesCorrect, ValidAreYoungestAlways, PTL

-----------------------------------------------------------------------------
BookTip == IF currentJob = NoJob THEN NoJob ELSE currentJob.template.prev
BookEntry(j) == [id |-> j.id, tip |-> j.template.prev]
BookOpen == {BookEntry(j) : j \in ValidJobs}
BookHeight == [b \in {t.prev : t \in Template} |->
                 (CHOOSE t \in Template : t.prev = b).height]

\* The height filed under a block is that of every template built on it.
LEMMA BookHeightIs ==
    ASSUME NEW t \in Template
    PROVE  BookHeight[t.prev] = t.height
<1>1. t.prev \in {u.prev : u \in Template}  OBVIOUS
<1>2. \E u \in Template : u.prev = t.prev  OBVIOUS
<1>3. (CHOOSE u \in Template : u.prev = t.prev).height = t.height
  BY <1>2, TemplateAssumption
<1>4. QED  BY <1>1, <1>3 DEF BookHeight

\* The open work after a job is filed: the entries kept, and the new one.
LEMMA BookOpenAfter ==
    ASSUME JobTypeOK, NEW t \in Template, NEW isNew \in BOOLEAN,
           UpdateJob(t, isNew)
    PROVE  BookOpen' = (IF isNew THEN {} ELSE {e \in BookOpen : e.id # NextId})
                       \cup {[id |-> NextId, tip |-> t.prev]}
<1> DEFINE n == NextId
           job == [id |-> n, template |-> t]
<1>1. n \in JobId /\ job # NoJob  BY NextIdIsId, NewJobIsJob DEF JobTypeOK
<1>2. \A i \in JobId : validJobs'[i] = IF i = n THEN job
                                       ELSE IF isNew THEN NoJob
                                       ELSE validJobs[i]
  BY DEF UpdateJob
<1>3. BookEntry(job) = [id |-> n, tip |-> t.prev]  BY DEF BookEntry
<1>4. \A i \in JobId : validJobs[i] # NoJob => validJobs[i].id = i
  BY DEF JobTypeOK
<1> HIDE DEF n, job
<1>5. ValidJobs' = (IF isNew THEN {} ELSE {j \in ValidJobs : j.id # n}) \cup {job}
  BY <1>1, <1>2, <1>4 DEF ValidJobs
<1>6. BookOpen' = {BookEntry(j) : j \in ValidJobs'}  BY DEF BookOpen, BookEntry
<1>7. \A j : BookEntry(j).id = j.id  BY DEF BookEntry
<1>8. {BookEntry(j) : j \in {k \in ValidJobs : k.id # n}}
        = {e \in BookOpen : e.id # n}
  BY <1>7 DEF BookOpen
<1>9. QED  BY <1>3, <1>5, <1>6, <1>8 DEF n

\* Every step of the job manager is a step of the work book, or none.
LEMMA StepIsBookStep ==
    ASSUME JobTypeOK, ValidJobsShareTip, NEW t \in Template, ProcessTemplate(t)
    PROVE  Book!Next \/ UNCHANGED Book!bookVars
<1>1. CASE UNCHANGED jobVars
  BY <1>1 DEF jobVars, Book!bookVars, ValidJobs
<1>2. CASE ~IsStale(t) /\ UpdateJob(t, IsNewBlock(t))
  <2>1. NextId \in JobId  BY NextIdIsId DEF JobTypeOK
  <2>2. IsNewBlock(t) \in BOOLEAN  BY DEF IsNewBlock
  <2>3. BookOpen' = (IF IsNewBlock(t) THEN {}
                     ELSE {e \in BookOpen : e.id # NextId})
                    \cup {[id |-> NextId, tip |-> t.prev]}
    BY <1>2, <2>2, BookOpenAfter
  <2>4. currentJob' # NoJob  BY <1>2, NewJobIsJob DEF UpdateJob, JobTypeOK
  <2>5. BookTip' = t.prev  BY <1>2, <2>4 DEF BookTip, UpdateJob
  <2>6. CASE ~IsNewBlock(t)
    <3>1. currentJob # NoJob /\ BookTip = t.prev
      BY <2>6 DEF IsNewBlock, BookTip
    <3>2. BookTip # NoJob  BY <3>1, NoJobAssumption
    <3>3. QED
      BY <2>1, <2>3, <2>5, <2>6, <3>1, <3>2
      DEF Book!Next, Book!Refresh, BookTip, BookOpen, BookEntry
  <2>7. CASE IsNewBlock(t)
    <3>1. BookTip # t.prev
      BY <2>7, NoJobAssumption DEF IsNewBlock, BookTip
    <3>2. BookTip # NoJob => BookHeight[t.prev] >= BookHeight[BookTip]
      <4>1. SUFFICES ASSUME currentJob # NoJob
                     PROVE  BookHeight[t.prev] >= BookHeight[BookTip]
        BY DEF BookTip
      <4>2. currentJob.template \in Template  BY <4>1 DEF JobTypeOK, Job
      <4>3. BookHeight[BookTip] = currentJob.template.height
        BY <4>1, <4>2, BookHeightIs DEF BookTip
      <4>4. t.height >= currentJob.template.height
        BY <1>2, <2>7, <4>1, <4>2, TemplateAssumption DEF IsStale, IsNewBlock
      <4>5. QED  BY <4>3, <4>4, BookHeightIs
    <3>3. t.prev \in {u.prev : u \in Template}  OBVIOUS
    <3>4. QED
      BY <2>1, <2>3, <2>5, <2>7, <3>1, <3>2, <3>3
      DEF Book!Next, Book!Advance, BookTip, BookOpen, BookEntry, BookHeight
  <2>8. QED  BY <2>6, <2>7
<1>3. QED  BY <1>1, <1>2 DEF ProcessTemplate

\* The job manager implements the work book.
THEOREM JobManagerImplementsWorkBook == JobSpec => ImplementsWorkBook
<1>1. JobInit => Book!Init
  BY DEF JobInit, Book!Init, ValidJobs
<1>2. JobTypeOK /\ ValidJobsShareTip /\ [JobNext]_jobVars
        => [Book!Next]_(Book!bookVars)
  <2>1. UNCHANGED jobVars => UNCHANGED Book!bookVars
    BY DEF jobVars, Book!bookVars, ValidJobs
  <2>2. QED  BY <2>1, StepIsBookStep DEF JobNext
<1>3. QED
  BY <1>1, <1>2, JobTypesCorrect, ValidJobsShareTipAlways, PTL
  DEF JobSpec, ImplementsWorkBook, Book!Spec
=============================================================================
