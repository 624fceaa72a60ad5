----------------------------- MODULE JobManager -----------------------------
(***************************************************************************)
(* class.JobManager.js with class.JobCounter.js: the job being mined, the  *)
(* jobs a share may still name, and the ids they are given.                *)
(*                                                                         *)
(* A block template is a record with the fields prev (previousblockhash)   *)
(* and height; modules that need more of it (curtime, difficulty) add      *)
(* fields.  A Job object is its id together with its template.  The object *)
(* validJobsObjMap is a total function whose value is NoJob (undefined) at *)
(* the ids it does not hold.                                               *)
(***************************************************************************)
EXTENDS Naturals

CONSTANTS Template,  \* what the daemon may answer to getblocktemplate
          IdLimit,   \* 0xFFFFFFFF in the code: the counter never issues it
          NoJob      \* the value undefined of currentJob and of validJobs[id]

VARIABLES counter,    \* JobCounter: the id issued last, 0 before the first
          currentJob, \* JobManager: var currentJob
          validJobs   \* JobManager: var validJobsObjMap

jobVars == <<counter, currentJob, validJobs>>

JobId == 1 .. (IdLimit - 1)
Job   == [id : JobId, template : Template]

\* The height of a block is fixed by the block it builds on.
ASSUME TemplateAssumption ==
    /\ \A t \in Template : t.height \in Nat
    /\ \A t, u \in Template : t.prev = u.prev => t.height = u.height

ASSUME IdLimitAssumption == IdLimit \in Nat /\ IdLimit >= 2

ASSUME NoJobAssumption ==
    /\ NoJob \notin Job
    /\ \A t \in Template : NoJob # t.prev

-----------------------------------------------------------------------------

JobInit ==
    /\ counter = 0
    /\ currentJob = NoJob
    /\ validJobs = [i \in JobId |-> NoJob]

\* Seeded bugs: the counter without its wrap, and with one that comes too
\* early.
NextIdUnwrapped == counter + 1
NextIdWrapsEarly ==
    IF (counter + 1) % (IdLimit - 1) = 0 THEN 1 ELSE counter + 1

\* JobCounter.next: increments, and starts over at 1 where the increment
\* reaches a multiple of the limit.
NextId == IF (counter + 1) % IdLimit = 0 THEN 1 ELSE counter + 1

\* The jobs a share may name.
ValidJobs == {validJobs[i] : i \in JobId} \ {NoJob}

\* The template is for another block than the one being mined.
IsNewBlock(t) == currentJob # NoJob => currentJob.template.prev # t.prev

\* Seeded bugs: no check of the height, and one that refuses siblings.
IsStaleNever(t) == FALSE
IsStaleSibling(t) ==
    /\ currentJob # NoJob
    /\ currentJob.template.prev # t.prev
    /\ t.height <= currentJob.template.height

\* processTemplate returns early: another branch, but a lower one.
IsStale(t) ==
    /\ currentJob # NoJob
    /\ currentJob.template.prev # t.prev
    /\ t.height < currentJob.template.height

\* Seeded bugs: validJobsObjMap is not emptied for a new block; the job is
\* given the id of the one before.
UpdateJobKeepingJobs(t, isNew) ==
    LET job == [id |-> NextId, template |-> t]
    IN  /\ counter' = NextId
        /\ currentJob' = job
        /\ validJobs' = [validJobs EXCEPT ![NextId] = job]

UpdateJobOldId(t, isNew) ==
    LET job == [id |-> counter, template |-> t]
    IN  /\ counter' = NextId
        /\ currentJob' = job
        /\ validJobs' = [i \in JobId |-> IF i = NextId THEN job
                                         ELSE IF isNew THEN NoJob
                                         ELSE validJobs[i]]

\* _updateJob.

UpdateJob(t, isNew) ==
    LET job == [id |-> NextId, template |-> t]
    IN  /\ counter' = NextId
        /\ currentJob' = job
        /\ validJobs' = [i \in JobId |-> IF i = NextId THEN job
                                         ELSE IF isNew THEN NoJob
                                         ELSE validJobs[i]]

\* processTemplate.  It returns true exactly when NewWork(t) holds.
ProcessTemplate(t) ==
    \/ /\ IsStale(t)
       /\ UNCHANGED jobVars
    \/ /\ ~IsStale(t)
       /\ UpdateJob(t, IsNewBlock(t))

NewWork(t) == IsNewBlock(t) /\ ~IsStale(t)

JobNext == \E t \in Template : ProcessTemplate(t)

JobSpec == JobInit /\ [][JobNext]_jobVars

-----------------------------------------------------------------------------

\* Types of the job manager's state; a job is filed under its own id.
JobTypeOK ==
    /\ counter \in 0 .. (IdLimit - 1)
    /\ currentJob \in Job \cup {NoJob}
    /\ validJobs \in [JobId -> Job \cup {NoJob}]
    /\ \A i \in JobId : validJobs[i] # NoJob => validJobs[i].id = i

\* Every job a share may name builds on the block the current job builds on,
\* and the current job is one of them: a share for an orphaned or an already
\* mined block can never be looked up (validJobs is emptied when, and only
\* when, the previous block hash changes).
ValidJobsShareTip ==
    /\ currentJob = NoJob => ValidJobs = {}
    /\ currentJob # NoJob =>
          /\ validJobs[currentJob.id] = currentJob
          /\ counter = currentJob.id
          /\ \A j \in ValidJobs : j.template.prev = currentJob.template.prev

\* A template, however late its answer arrives, never moves the pool to a
\* lower height than the one it mines (processTemplate's height check).
HeightNeverDrops ==
    [][currentJob # NoJob =>
          /\ currentJob' # NoJob
          /\ currentJob'.template.height >= currentJob.template.height]_jobVars

\* An id is taken over from a job that a share may still name only when every
\* id names such a job: the counter comes back to an id only after it has
\* been once around, through the wrap that skips 0 and the limit.
FreeIdFirst ==
    validJobs[NextId] # NoJob => \A i \in JobId : validJobs[i] # NoJob

\* How many ids were issued after id i was issued last, i itself being among
\* the IdLimit - 1 most recent ones.
Age(i) == IF i <= counter THEN counter - i ELSE counter + (IdLimit - 1) - i

\* The inductive form of FreeIdFirst: the valid jobs are the k youngest.
ValidAreYoungest ==
    \E k \in 0 .. (IdLimit - 1) :
        \A i \in JobId : validJobs[i] # NoJob <=> Age(i) < k

-----------------------------------------------------------------------------
\* The job manager seen as a work book: templates reduced to the block they
\* build on, the map of jobs to the set of its values.
Book == INSTANCE WorkBook WITH
            Tip      <- {t.prev : t \in Template},
            HeightOn <- [b \in {t.prev : t \in Template} |->
                            (CHOOSE t \in Template : t.prev = b).height],
            Id       <- JobId,
            NoTip    <- NoJob,
            tip      <- IF currentJob = NoJob THEN NoJob
                        ELSE currentJob.template.prev,
            open     <- {[id |-> j.id, tip |-> j.template.prev] : j \in ValidJobs}

\* The job manager implements the work book: processing a template refreshes
\* the work on the same tip, moves it to another tip that is no lower and
\* closes all other jobs, or leaves it as it is.
ImplementsWorkBook == Book!Spec
=============================================================================
