------------------------------ MODULE PoolStart ------------------------------
(***************************************************************************)
(* StratumPool.start: three requests to the daemon, one after the other    *)
(* (Daemon), then the job manager, the request for the first template      *)
(* (StratumPool) and the server in one turn, and the server's "listening"  *)
(* event.  start() refuses to run when the pool is started, which is noted *)
(* at the end only: it may be called again while it runs, and after it     *)
(* failed.                                                                 *)
(***************************************************************************)
EXTENDS Daemon, FiniteSets

CONSTANTS Start,  \* calls of start()
          NoStart \* undefined, as the value of jobManager

VARIABLES
    config,     \* what is wrong with the configuration, "good" if nothing is
    stage,      \* stage[s]: the question start s waits for, or how it ended
    isStarted,  \* var isStarted
    manager,    \* var jobManager, as the start that made it
    listening,  \* the starts whose servers hold the port
    portInUse   \* listen() failed; nobody handles the error, the process ends

madeVars      == <<isStarted, manager, listening, portInUse>>
poolStartVars == <<daemonVars, config, stage, madeVars>>

\* The requests of a start, in order.
Question == {"ready", "address", "info"}
After    == [ready |-> "address", address |-> "info"]

ASSUME RequestAssumption == Request = Start \X Question
ASSUME NoStartAssumption == NoStart \notin Start

Running == ~crashed /\ ~portInUse

-----------------------------------------------------------------------------

StartInit ==
    /\ DaemonInit
    /\ config \in {"good", "no daemon", "bad address"}
    /\ stage = [s \in Start |-> "none"]
    /\ isStarted = FALSE
    /\ manager = NoStart
    /\ listening = {}
    /\ portInUse = FALSE

\* start(), which throws if the pool is started, and _startDaemon, which
\* neither asks nor goes on if no daemon is configured.
StartPool(s) ==
    /\ Running /\ ~isStarted
    /\ stage[s] = "none"
    /\ stage' = [stage EXCEPT ![s] = "ready"]
    /\ \/ config # "no daemon" /\ Cmd(<<s, "ready">>)
       \/ config = "no daemon" /\ UNCHANGED daemonVars
    /\ UNCHANGED <<config, madeVars>>

\* Seeded bugs: the server is filed under the job manager of before; the port
\* is shared with whoever holds it.
ListenAsBefore(s) ==
    /\ stage' = [stage EXCEPT ![s] = "listening"]
    /\ manager' = s
    /\ \/ listening = {} /\ listening' = {manager} /\ UNCHANGED portInUse
       \/ portInUse' = TRUE /\ UNCHANGED listening
    /\ UNCHANGED isStarted

ListenShared(s) ==
    /\ stage' = [stage EXCEPT ![s] = "listening"]
    /\ manager' = s
    /\ listening' = listening \cup {s}
    /\ UNCHANGED <<isStarted, portInUse>>

\* _startJobManager, _startFirstJob, _startStratumServer: the port may be
\* held by another program, or by the server of another start.
Listen(s) ==
    /\ stage' = [stage EXCEPT ![s] = "listening"]
    /\ manager' = s
    /\ \/ listening = {} /\ listening' = {s} /\ UNCHANGED portInUse
       \/ portInUse' = TRUE /\ UNCHANGED listening
    /\ UNCHANGED isStarted

\* Seeded bug: an error answered is logged, and the start goes on.
FailsByCharactersOnly(question, isOk) ==
    \/ question = "address"
    \/ question = "ready" /\ config = "bad address"

\* An error, characters no address has, or an address the daemon finds
\* invalid.
Fails(question, isOk) ==
    \/ ~isOk
    \/ question = "address"
    \/ question = "ready" /\ config = "bad address"

Succeeds(question, isOk) ==
    \/ question = "address" /\ isOk
    \/ ~Fails(question, isOk)

\* The callbacks of the waterfalls, with the request they send: a start asks
\* its next question, makes its server, or logs the error and ends.
OnAnswer(s, question, isOk, next) ==
    \/ /\ Succeeds(question, isOk) /\ question # "info"
       /\ next = {<<s, After[question]>>}
       /\ stage' = [stage EXCEPT ![s] = After[question]]
       /\ UNCHANGED madeVars
    \/ Succeeds(question, isOk) /\ question = "info" /\ next = {} /\ Listen(s)
    \/ /\ Fails(question, isOk) /\ next = {}
       /\ stage' = [stage EXCEPT ![s] = "failed"]
       /\ UNCHANGED madeVars

\* What the end of a request brings about, if its callback is called.
Callback(r, isOk, next) ==
    \/ calls' # calls /\ OnAnswer(r[1], r[2], isOk, next)
    \/ calls' = calls /\ next = {} /\ UNCHANGED <<stage, madeVars>>

\* A response is read.
Answered(r, answer, next) ==
    /\ ~portInUse
    /\ ResponseEnd(r, answer, next)
    /\ Callback(r, answer = "result", next)
    /\ UNCHANGED config

\* A request fails.
Errored(r) ==
    /\ ~portInUse
    /\ RequestError(r)
    /\ Callback(r, FALSE, {})
    /\ UNCHANGED config

\* The server's EVENT_STARTED ends the waterfall.
Started(s) ==
    /\ Running
    /\ stage[s] = "listening"
    /\ stage' = [stage EXCEPT ![s] = "started"]
    /\ isStarted' = TRUE
    /\ UNCHANGED <<daemonVars, config, manager, listening, portInUse>>

RequestEnds(r) ==
    \/ Errored(r)
    \/ \E answer \in Response,
          next \in {{}} \cup {{<<r[1], question>>} : question \in Question} :
              Answered(r, answer, next)

StartNext ==
    \/ \E s \in Start : StartPool(s) \/ Started(s)
    \/ \E r \in Request : RequestEnds(r)

StartSpec == StartInit /\ [][StartNext]_poolStartVars

\* Each request comes to an end, by an error or a response (the connection
\* is closed at last if it is dead; cmd has no timeout of its own), and the
\* server's listen() does.
FairStartSpec ==
    /\ StartSpec
    /\ \A r \in Request : WF_poolStartVars(callback[r] /\ RequestEnds(r))
    /\ \A s \in Start : WF_poolStartVars(Started(s))

-----------------------------------------------------------------------------

\* Types of the starts' state.
StartTypeOK ==
    /\ DaemonTypeOK
    /\ config \in {"good", "no daemon", "bad address"}
    /\ stage \in [Start -> Question \cup
                           {"none", "listening", "started", "failed"}]
    /\ isStarted \in BOOLEAN
    /\ manager \in Start \cup {NoStart}
    /\ listening \in SUBSET Start
    /\ portInUse \in BOOLEAN

\* Of several calls of start() that run at once one may complete, and while
\* the process lives the server that holds the port belongs to the same start
\* as the job manager of the pool: the others end in the failure to listen.
OneStartServes ==
    /\ Cardinality({s \in Start : stage[s] = "started"}) <= 1
    /\ Running => \A s \in listening : manager = s

\* Miners are let in only after the daemon gave a result to every question
\* of the start, with an address that is well formed.
ServesOnlyWithTheDaemon ==
    \A s \in listening :
        /\ config = "good"
        /\ \A question \in Question : response[<<s, question>>] = "result"

\* The response to a question of a start, and its callback, were dropped.
Unheard(r) ==
    wire[r] = "ended" /\ calls[r] = 0 /\ ~Parsed(response[r])

\* A start completes or fails, unless no daemon is configured or one of its
\* questions is answered with a 401 or with what is not JSON: then it does
\* neither, and nobody is told.
StartEndsUnlessUnheard ==
    \A s \in Start :
        stage[s] # "none" ~>
            \/ stage[s] \in {"started", "failed"}
            \/ ~Running
            \/ config = "no daemon"
            \/ \E question \in Question : Unheard(<<s, question>>)
=============================================================================
