------------------------------- MODULE Daemon -------------------------------
(***************************************************************************)
(* class.Daemon.js: RPC requests to the wallet daemon, from cmd() to the   *)
(* callback.  Node may report an error of a request before, instead of or  *)
(* after its response, or nothing at all, as no timeout is set.            *)
(***************************************************************************)
EXTENDS Naturals

CONSTANT Request  \* the calls of cmd(); each is one HTTP request

VARIABLES
    wire,     \* wire[r]: "new", "sent", "ended" (a whole response was read)
    callback, \* callback[r]: the variable of _sendRequest still holds it
    response, \* response[r]: what the response was, "none" before it ended
    failed,   \* failed[r]: the request's error event came
    calls,    \* calls[r]: how often the callback was called
    crashed   \* an exception nobody caught ended the process

daemonVars == <<wire, callback, response, failed, calls, crashed>>

\* "result" and "error" are JSON, with a result and with an error of the RPC
\* itself; "-nan" is not JSON for a number -nan before a comma, "-nan}" for one
\* elsewhere.
Response == {"401", "result", "error", "garbage", "-nan", "-nan}"}

-----------------------------------------------------------------------------

DaemonInit ==
    /\ wire = [r \in Request |-> "new"]
    /\ callback = [r \in Request |-> FALSE]
    /\ response = [r \in Request |-> "none"]
    /\ failed = [r \in Request |-> FALSE]
    /\ calls = [r \in Request |-> 0]
    /\ crashed = FALSE

\* cmd, _sendRequest.
Cmd(r) ==
    /\ ~crashed /\ wire[r] = "new"
    /\ wire' = [wire EXCEPT ![r] = "sent"]
    /\ callback' = [callback EXCEPT ![r] = TRUE]
    /\ UNCHANGED <<response, failed, calls, crashed>>

CallBack(r) ==
    calls' = IF callback[r] THEN [calls EXCEPT ![r] = @ + 1] ELSE calls

\* Seeded bugs: the callback is kept after the error was passed to it; it is
\* dropped before.
RequestErrorKeeps(r) ==
    /\ ~crashed /\ wire[r] # "new" /\ ~failed[r]
    /\ failed' = [failed EXCEPT ![r] = TRUE]
    /\ CallBack(r)
    /\ UNCHANGED <<wire, callback, response, crashed>>

RequestErrorDrops(r) ==
    /\ ~crashed /\ wire[r] # "new" /\ ~failed[r]
    /\ failed' = [failed EXCEPT ![r] = TRUE]
    /\ callback' = [callback EXCEPT ![r] = FALSE]
    /\ UNCHANGED <<wire, response, calls, crashed>>

\* The error event of the request.
RequestError(r) ==
    /\ ~crashed /\ wire[r] # "new" /\ ~failed[r]
    /\ failed' = [failed EXCEPT ![r] = TRUE]
    /\ CallBack(r)
    /\ callback' = [callback EXCEPT ![r] = FALSE]
    /\ UNCHANGED <<wire, response, crashed>>

\* _tryParseJson.  A response that is not JSON and holds ":-nan" is parsed
\* again with ":-nan," replaced by ":0": the comma is lost, so that it still
\* is no JSON; where another ":-nan" is left the parsing recurs without end,
\* until the stack overflows.
Parsed(answer)      == answer \in {"result", "error"}
ParseThrows(answer) == answer = "-nan}"

\* Response r has been read; the requests in next leave in the same turn.
EndAndSend(r, next) ==
    /\ wire' = [q \in Request |-> IF q \in next THEN "sent"
                                  ELSE IF q = r THEN "ended" ELSE wire[q]]
    /\ callback' = [q \in Request |-> IF q \in next THEN TRUE
                                      ELSE IF q = r THEN FALSE ELSE callback[q]]

\* What the callback may do: call cmd() again, if it is called at all.
MaySend(r, answer, next) ==
    /\ next \subseteq {q \in Request : wire[q] = "new"}
    /\ next # {} => Parsed(answer) /\ callback[r]

\* The end event of the response, _parseResponse: a 401 and what cannot be
\* parsed are logged, and the callback is dropped.
ResponseEnd(r, answer, next) ==
    /\ ~crashed /\ wire[r] = "sent"
    /\ MaySend(r, answer, next)
    /\ response' = [response EXCEPT ![r] = answer]
    /\ \/ Parsed(answer) /\ CallBack(r)
       \/ ~Parsed(answer) /\ UNCHANGED calls
    /\ EndAndSend(r, next)
    /\ crashed' = ParseThrows(answer)
    /\ UNCHANGED failed

DaemonNext ==
    \E r \in Request :
        \/ Cmd(r)
        \/ RequestError(r)
        \/ \E answer \in Response, next \in SUBSET Request :
              ResponseEnd(r, answer, next)

DaemonSpec == DaemonInit /\ [][DaemonNext]_daemonVars

-----------------------------------------------------------------------------

\* Types of the requests' state.
DaemonTypeOK ==
    /\ wire \in [Request -> {"new", "sent", "ended"}]
    /\ callback \in [Request -> BOOLEAN]
    /\ response \in [Request -> Response \cup {"none"}]
    /\ failed \in [Request -> BOOLEAN]
    /\ calls \in [Request -> Nat]
    /\ crashed \in BOOLEAN

\* The callbacks of StratumPool are those of an async.waterfall or start a
\* template's processing: each is called at most once, whichever of the
\* error and the response comes first and whatever the response is.
CalledAtMostOnce == \A r \in Request : calls[r] <= 1

\* The client seen as an Rpc: what counts of a request is whether it left, and
\* whether the variable of _sendRequest still holds its callback.
Asked == INSTANCE Rpc WITH
            unsent  <- {r \in Request : wire[r] = "new"},
            waiting <- {r \in Request : callback[r]}

\* Whichever of the error and the response comes first, and whatever the
\* response is, a callback is called once or dropped for good: one that was
\* called or dropped is never called again, and one that was dropped sends
\* nothing.  So are the waterfalls of a start, and the processing of templates,
\* gone through once.
ImplementsRpc == Asked!Spec
=============================================================================
