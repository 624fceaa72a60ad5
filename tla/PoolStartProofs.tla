--------------------------- MODULE PoolStartProofs ---------------------------
(***************************************************************************)
(* The requests to the daemon and the starts of the pool, proved for any   *)
(* number of requests and of calls of start(): no callback is called       *)
(* twice, one start serves, and it serves after the daemon answered all    *)
(* three of its questions.                                                 *)
(***************************************************************************)
EXTENDS PoolStart, FiniteSetTheorems, TLAPS

-----------------------------------------------------------------------------
\* The requests.

\* A callback that is held has not been called; a request that has not left
\* has none; and a response stays as it is.
DaemonInv ==
    /\ DaemonTypeOK
    /\ \A r \in Request :
          /\ calls[r] <= 1
          /\ callback[r] => calls[r] = 0
          /\ wire[r] = "new" => ~callback[r] /\ calls[r] = 0
          /\ response[r] # "none" => wire[r] = "ended"

LEMMA DaemonInitInv == DaemonInit => DaemonInv
<1> SUFFICES ASSUME DaemonInit PROVE DaemonInv
  OBVIOUS
<1>1. DaemonTypeOK  BY DEF DaemonInit, DaemonTypeOK
<1>2. \A r \in Request : /\ calls[r] = 0 /\ callback[r] = FALSE
                         /\ response[r] = "none"
  BY DEF DaemonInit
<1>3. QED  BY <1>1, <1>2 DEF DaemonInv

LEMMA CmdKeepsInv ==
    ASSUME DaemonInv, NEW r \in Request, Cmd(r)
    PROVE  DaemonInv'
BY DEF DaemonInv, DaemonTypeOK, Cmd

\* A callback is called where it is held, and is not held afterwards.
LEMMA CallBackOnce ==
    ASSUME DaemonInv, NEW r \in Request, CallBack(r) \/ UNCHANGED calls
    PROVE  /\ calls' \in [Request -> Nat]
           /\ calls'[r] <= 1
           /\ \A q \in Request \ {r} : calls'[q] = calls[q]
           /\ ~callback[r] => calls' = calls
BY DEF DaemonInv, DaemonTypeOK, CallBack

LEMMA RequestErrorKeepsInv ==
    ASSUME DaemonInv, NEW r \in Request, RequestError(r)
    PROVE  DaemonInv'
<1>1. /\ calls' \in [Request -> Nat]
      /\ calls'[r] <= 1
      /\ \A q \in Request \ {r} : calls'[q] = calls[q]
  BY CallBackOnce DEF RequestError
<1>2. DaemonTypeOK'
  BY <1>1 DEF DaemonInv, DaemonTypeOK, RequestError
<1>3. ASSUME NEW q \in Request
      PROVE  /\ calls'[q] <= 1
             /\ callback'[q] => calls'[q] = 0
             /\ wire'[q] = "new" => ~callback'[q] /\ calls'[q] = 0
             /\ response'[q] # "none" => wire'[q] = "ended"
  BY <1>1 DEF DaemonInv, DaemonTypeOK, RequestError
<1>4. QED  BY <1>2, <1>3 DEF DaemonInv

\* What the end of a response does to the requests.
Ended(r, answer, next) ==
    /\ wire[r] = "sent" /\ r \notin next
    /\ \A q \in next : wire[q] = "new"
    /\ \A q \in Request :
          /\ wire'[q] = IF q \in next THEN "sent"
                        ELSE IF q = r THEN "ended" ELSE wire[q]
          /\ callback'[q] = IF q \in next THEN TRUE
                            ELSE IF q = r THEN FALSE ELSE callback[q]
          /\ response'[q] = IF q = r THEN answer ELSE response[q]

LEMMA ResponseOutcomes ==
    ASSUME DaemonInv, NEW r \in Request, NEW answer \in Response,
           NEW next \in SUBSET Request, ResponseEnd(r, answer, next)
    PROVE  DaemonTypeOK' /\ Ended(r, answer, next)
<1>1. calls' \in [Request -> Nat]  BY CallBackOnce DEF ResponseEnd
<1>2. /\ wire[r] = "sent" /\ ~crashed
      /\ next \subseteq {q \in Request : wire[q] = "new"}
      /\ response' = [response EXCEPT ![r] = answer]
      /\ wire' = [q \in Request |-> IF q \in next THEN "sent"
                                    ELSE IF q = r THEN "ended" ELSE wire[q]]
      /\ callback' = [q \in Request |->
                        IF q \in next THEN TRUE
                        ELSE IF q = r THEN FALSE ELSE callback[q]]
      /\ crashed' = (answer = "-nan}")
      /\ UNCHANGED failed
  BY DEF ResponseEnd, MaySend, EndAndSend, ParseThrows
<1>3. /\ wire \in [Request -> {"new", "sent", "ended"}]
      /\ callback \in [Request -> BOOLEAN]
      /\ response \in [Request -> Response \cup {"none"}]
      /\ failed \in [Request -> BOOLEAN]
  BY DEF DaemonInv, DaemonTypeOK
<1>4. wire' \in [Request -> {"new", "sent", "ended"}]  BY <1>2, <1>3
<1>5. callback' \in [Request -> BOOLEAN]  BY <1>2, <1>3
<1>6. response' \in [Request -> Response \cup {"none"}]  BY <1>2, <1>3
<1>7. crashed' \in BOOLEAN /\ failed' \in [Request -> BOOLEAN]
  BY <1>2, <1>3
<1>8. DaemonTypeOK'  BY <1>1, <1>4, <1>5, <1>6, <1>7 DEF DaemonTypeOK
<1>9. Ended(r, answer, next)  BY <1>2, <1>3 DEF Ended
<1>10. QED  BY <1>8, <1>9

LEMMA ResponseKeepsInv ==
    ASSUME DaemonInv, NEW r \in Request, NEW answer \in Response,
           NEW next \in SUBSET Request, ResponseEnd(r, answer, next)
    PROVE  DaemonInv'
<1>0. DaemonTypeOK' /\ Ended(r, answer, next)  BY ResponseOutcomes
<1>1. /\ calls'[r] <= 1
      /\ \A q \in Request \ {r} : calls'[q] = calls[q]
  BY CallBackOnce DEF ResponseEnd
<1>2. ASSUME NEW q \in Request
      PROVE  /\ calls'[q] <= 1
             /\ callback'[q] => calls'[q] = 0
             /\ wire'[q] = "new" => ~callback'[q] /\ calls'[q] = 0
             /\ response'[q] # "none" => wire'[q] = "ended"
  <2>0. /\ r \notin next
        /\ q \in next => wire[q] = "new"
        /\ wire'[q] = IF q \in next THEN "sent"
                      ELSE IF q = r THEN "ended" ELSE wire[q]
        /\ callback'[q] = IF q \in next THEN TRUE
                          ELSE IF q = r THEN FALSE ELSE callback[q]
        /\ response'[q] = IF q = r THEN answer ELSE response[q]
    BY <1>0 DEF Ended
  <2>1. CASE q = r  BY <1>1, <2>0, <2>1
  <2>2. CASE q # r
    <3>1. calls'[q] = calls[q] /\ response'[q] = response[q]
      BY <1>1, <2>0, <2>2
    <3>2. CASE q \in next
      <4>1. wire[q] = "new" /\ wire'[q] = "sent" /\ callback'[q] = TRUE
        BY <2>0, <3>2
      <4>2. QED  BY <3>1, <4>1 DEF DaemonInv
    <3>3. CASE q \notin next
      <4>1. wire'[q] = wire[q] /\ callback'[q] = callback[q]
        BY <2>0, <2>2, <3>3
      <4>2. QED  BY <3>1, <4>1 DEF DaemonInv
    <3>4. QED  BY <3>2, <3>3
  <2>3. QED  BY <2>1, <2>2
<1>3. QED  BY <1>0, <1>2 DEF DaemonInv

LEMMA DaemonIdleKeepsInv == DaemonInv /\ UNCHANGED daemonVars => DaemonInv'
BY DEF DaemonInv, DaemonTypeOK, daemonVars

\* Whoever sends requests, and whatever becomes of them, no callback is called
\* twice.
THEOREM DaemonCallsAtMostOnce == DaemonSpec => []CalledAtMostOnce
<1>1. DaemonInv /\ [DaemonNext]_daemonVars => DaemonInv'
  BY CmdKeepsInv, RequestErrorKeepsInv, ResponseKeepsInv, DaemonIdleKeepsInv
  DEF DaemonNext
<1>2. DaemonInv => CalledAtMostOnce  BY DEF DaemonInv, CalledAtMostOnce
<1>3. QED  BY <1>1, <1>2, DaemonInitInv, PTL DEF DaemonSpec

\* The requests as an Rpc, step by step.

LEMMA CmdIsSend ==
    ASSUME DaemonInv, NEW r \in Request, Cmd(r)
    PROVE  Asked!Send(r)
<1>1. /\ wire \in [Request -> {"new", "sent", "ended"}]
      /\ callback \in [Request -> BOOLEAN]
  BY DEF DaemonInv, DaemonTypeOK
<1>2. /\ wire[r] = "new" /\ wire' = [wire EXCEPT ![r] = "sent"]
      /\ callback' = [callback EXCEPT ![r] = TRUE] /\ calls' = calls
  BY DEF Cmd
<1>3. \A q \in Request : /\ wire'[q] = "new" <=> wire[q] = "new" /\ q # r
                         /\ callback'[q] <=> callback[q] \/ q = r
  BY <1>1, <1>2
<1>4. QED  BY <1>2, <1>3 DEF Asked!Send

\* An error is the call, where the callback was held until then.
LEMMA RequestErrorIsRpcStep ==
    ASSUME DaemonInv, NEW r \in Request, RequestError(r)
    PROVE  Asked!CallBack(r, {}) \/ UNCHANGED Asked!rpcVars
<1>1. /\ callback \in [Request -> BOOLEAN]
      /\ callback' = [callback EXCEPT ![r] = FALSE]
      /\ calls' = IF callback[r] THEN [calls EXCEPT ![r] = @ + 1] ELSE calls
      /\ wire' = wire
  BY DEF DaemonInv, DaemonTypeOK, RequestError, CallBack
<1>2. \A q \in Request : callback'[q] <=> callback[q] /\ q # r  BY <1>1
<1>3. CASE callback[r]  BY <1>1, <1>2, <1>3 DEF Asked!CallBack
<1>4. CASE ~callback[r]
  <2>1. \A q \in Request : callback'[q] <=> callback[q]  BY <1>2, <1>4
  <2>2. QED  BY <1>1, <1>4, <2>1 DEF Asked!rpcVars
<1>5. QED  BY <1>3, <1>4

\* A response is the call, or the end of a callback that is dropped.
LEMMA ResponseIsRpcStep ==
    ASSUME DaemonInv, NEW r \in Request, NEW answer \in Response,
           NEW next \in SUBSET Request, ResponseEnd(r, answer, next)
    PROVE  \/ Asked!CallBack(r, next) \/ Asked!Drop(r)
           \/ UNCHANGED Asked!rpcVars
<1>1. /\ wire[r] = "sent" /\ r \notin next
      /\ \A q \in next : wire[q] = "new"
      /\ \A q \in Request :
            /\ wire'[q] = "new" <=> wire[q] = "new" /\ q \notin next
            /\ callback'[q] <=> q \in next \/ (callback[q] /\ q # r)
  <2>1. Ended(r, answer, next) /\ callback \in [Request -> BOOLEAN]
    BY ResponseOutcomes DEF DaemonInv, DaemonTypeOK
  <2>2. wire[r] = "sent" /\ r \notin next /\ \A q \in next : wire[q] = "new"
    BY <2>1 DEF Ended
  <2>3. ASSUME NEW q \in Request
        PROVE  /\ wire'[q] = "new" <=> wire[q] = "new" /\ q \notin next
               /\ callback'[q] <=> q \in next \/ (callback[q] /\ q # r)
    <3>1. /\ wire'[q] = IF q \in next THEN "sent"
                        ELSE IF q = r THEN "ended" ELSE wire[q]
          /\ callback'[q] = IF q \in next THEN TRUE
                            ELSE IF q = r THEN FALSE ELSE callback[q]
      BY <2>1 DEF Ended
    <3>2. QED  BY <2>2, <3>1
  <2>4. QED  BY <2>2, <2>3
<1>2. /\ next # {} => Parsed(answer) /\ callback[r]
      /\ \/ Parsed(answer) /\ CallBack(r)
         \/ ~Parsed(answer) /\ calls' = calls
  BY DEF ResponseEnd, MaySend
<1>3. CASE callback[r] /\ Parsed(answer)
  <2>1. calls' = [calls EXCEPT ![r] = @ + 1]  BY <1>2, <1>3 DEF CallBack
  <2>2. QED  BY <1>1, <1>3, <2>1 DEF Asked!CallBack
<1>4. CASE callback[r] /\ ~Parsed(answer)
  <2>1. next = {} /\ calls' = calls  BY <1>2, <1>4
  <2>2. QED  BY <1>1, <1>4, <2>1 DEF Asked!Drop
<1>5. CASE ~callback[r]
  <2>1. next = {} /\ calls' = calls  BY <1>2, <1>5 DEF CallBack
  <2>2. \A q \in Request : /\ wire'[q] = "new" <=> wire[q] = "new"
                           /\ callback'[q] <=> callback[q]
    BY <1>1, <1>5, <2>1
  <2>3. QED  BY <2>1, <2>2 DEF Asked!rpcVars
<1>6. QED  BY <1>3, <1>4, <1>5

LEMMA DaemonInitIsRpcInit == DaemonInit => Asked!Init
BY DEF DaemonInit, Asked!Init

LEMMA StepIsRpcStep ==
    ASSUME DaemonInv, [DaemonNext]_daemonVars
    PROVE  [Asked!Next]_(Asked!rpcVars)
<1>1. ASSUME NEW r \in Request, Cmd(r) PROVE Asked!Next
  BY <1>1, CmdIsSend DEF Asked!Next
<1>2. ASSUME NEW r \in Request, RequestError(r)
      PROVE  Asked!Next \/ UNCHANGED Asked!rpcVars
  BY <1>2, RequestErrorIsRpcStep DEF Asked!Next
<1>3. ASSUME NEW r \in Request, NEW answer \in Response,
             NEW next \in SUBSET Request, ResponseEnd(r, answer, next)
      PROVE  Asked!Next \/ UNCHANGED Asked!rpcVars
  BY <1>3, ResponseIsRpcStep DEF Asked!Next
<1>4. UNCHANGED daemonVars => UNCHANGED Asked!rpcVars
  BY DEF daemonVars, Asked!rpcVars
<1>5. QED  BY <1>1, <1>2, <1>3, <1>4 DEF DaemonNext

\* However the errors and responses of the requests come, each callback is
\* called once or dropped for good, and a dropped one sends nothing.
THEOREM DaemonImplementsRpc == DaemonSpec => ImplementsRpc
<1>1. DaemonInv /\ [DaemonNext]_daemonVars => DaemonInv'
  BY CmdKeepsInv, RequestErrorKeepsInv, ResponseKeepsInv, DaemonIdleKeepsInv
  DEF DaemonNext
<1>2. DaemonInv /\ [DaemonNext]_daemonVars => [Asked!Next]_(Asked!rpcVars)
  BY StepIsRpcStep
<1>3. QED
  BY <1>1, <1>2, DaemonInitInv, DaemonInitIsRpcInit, PTL
  DEF DaemonSpec, ImplementsRpc, Asked!Spec

-----------------------------------------------------------------------------
\* The starts.

\* A start asks a question after the one before was answered with a result,
\* and what is wrong with the configuration shows in the answers.
QuestionsInOrder ==
    \A s \in Start :
        /\ wire[<<s, "ready">>] # "new" => config # "no daemon"
        /\ wire[<<s, "address">>] # "new" =>
              config = "good" /\ response[<<s, "ready">>] = "result"
        /\ wire[<<s, "info">>] # "new" =>
              /\ wire[<<s, "address">>] # "new"
              /\ response[<<s, "address">>] = "result"

\* A server was made after the last answer; it is the only one, and where the
\* process lives the start that made the job manager made it.
ServerIsOfTheManager ==
    /\ \A s \in listening :
          wire[<<s, "info">>] # "new" /\ response[<<s, "info">>] = "result"
    /\ \A s, u \in listening : s = u
    /\ Running => \A s \in listening : manager = s
    /\ \A s \in Start :
          /\ Running /\ stage[s] = "listening" => s \in listening
          /\ stage[s] = "started" => s \in listening

StartInv ==
    /\ StartTypeOK
    /\ DaemonInv
    /\ QuestionsInOrder
    /\ ServerIsOfTheManager

LEMMA RequestNames ==
    ASSUME NEW r \in Request
    PROVE  /\ r[1] \in Start /\ r[2] \in Question /\ r = <<r[1], r[2]>>
           /\ \A question \in Question : <<r[1], question>> \in Request
BY RequestAssumption

LEMMA StartInitInv == StartInit => StartInv
<1> SUFFICES ASSUME StartInit PROVE StartInv
  OBVIOUS
<1>1. DaemonInv  BY DaemonInitInv DEF StartInit
<1>2. StartTypeOK
  BY <1>1 DEF StartInit, StartTypeOK, DaemonInv
<1>3. \A s \in Start, question \in Question : wire[<<s, question>>] = "new"
  BY RequestAssumption DEF StartInit, DaemonInit
<1>4. QuestionsInOrder  BY <1>3 DEF QuestionsInOrder, Question
<1>5. ServerIsOfTheManager  BY DEF StartInit, ServerIsOfTheManager
<1>6. QED  BY <1>1, <1>2, <1>4, <1>5 DEF StartInv

LEMMA StartPoolKeepsInv ==
    ASSUME StartInv, NEW s \in Start, StartPool(s)
    PROVE  StartInv'
<1> DEFINE r == <<s, "ready">>
<1>1. r \in Request  BY RequestAssumption DEF Question
<1>2. DaemonInv'
  BY <1>1, CmdKeepsInv, DaemonIdleKeepsInv DEF StartPool, StartInv
<1>3. StartTypeOK'
  BY <1>2 DEF StartPool, StartInv, StartTypeOK, DaemonInv, madeVars, Question
<1>4. /\ response' = response /\ config' = config /\ crashed' = crashed
      /\ \A q \in Request \ {r} : wire'[q] = wire[q]
      /\ wire'[r] # wire[r] => config # "no daemon"
  BY <1>1 DEF StartPool, StartInv, DaemonInv, DaemonTypeOK, Cmd, daemonVars
<1> HIDE DEF r
<1>5. \A u \in Start : /\ <<u, "address">> \in Request \ {r}
                       /\ <<u, "info">> \in Request \ {r}
                       /\ <<u, "ready">> \in Request
  BY RequestAssumption DEF Question, r
<1>6. QuestionsInOrder'
  <2>1. ASSUME NEW u \in Start, wire'[<<u, "ready">>] # "new"
        PROVE  config # "no daemon"
    BY <1>4, <1>5, <2>1 DEF StartInv, QuestionsInOrder
  <2>2. QED  BY <1>4, <1>5, <2>1 DEF StartInv, QuestionsInOrder
<1>7. ServerIsOfTheManager'
  <2>1. UNCHANGED <<listening, manager, portInUse, crashed>>
        /\ Running
    BY <1>4 DEF StartPool, madeVars
  <2>2. \A u \in Start : stage'[u] = stage[u] \/ stage'[u] = "ready"
    BY DEF StartPool, StartInv, StartTypeOK
  <2>3. listening \subseteq Start  BY DEF StartInv, StartTypeOK
  <2>4. QED
    BY <1>4, <1>5, <2>1, <2>2, <2>3 DEF StartInv, ServerIsOfTheManager, Running
<1>8. QED  BY <1>2, <1>3, <1>6, <1>7 DEF StartInv

LEMMA StartedKeepsInv ==
    ASSUME StartInv, NEW s \in Start, Started(s)
    PROVE  StartInv'
<1> USE DEF StartInv
<1>1. UNCHANGED <<daemonVars, config, manager, listening, portInUse>>
      /\ stage' = [stage EXCEPT ![s] = "started"] /\ isStarted' = TRUE
      /\ Running /\ stage[s] = "listening"
  BY DEF Started
<1>2. DaemonInv'  BY <1>1, DaemonIdleKeepsInv
<1>3. StartTypeOK'  BY <1>1, <1>2 DEF StartTypeOK, DaemonInv
<1>4. QuestionsInOrder'  BY <1>1 DEF QuestionsInOrder, daemonVars
<1>5. s \in listening  BY <1>1 DEF ServerIsOfTheManager
<1>6. ServerIsOfTheManager'
  BY <1>1, <1>5 DEF ServerIsOfTheManager, StartTypeOK, Running, daemonVars
<1>7. QED  BY <1>2, <1>3, <1>4, <1>6

\* What an answer does to a start, for all that the daemon and the callback
\* may do with it: the requests that leave are the next question of the start
\* that was answered with a result; or its server is made, after the last one.
Goes(s, question, isOk, next) ==
    \/ /\ next = {} \/ next = {<<s, After[question]>>}
       /\ next # {} => isOk /\ question # "info"
       /\ next # {} /\ question = "ready" => config # "bad address"
       /\ \E value \in Question \cup {"failed", stage[s]} :
             stage' = [stage EXCEPT ![s] = value]
       /\ UNCHANGED madeVars
    \/ isOk /\ question = "info" /\ next = {} /\ Listen(s)

LEMMA CallbackOutcomes ==
    ASSUME StartTypeOK, NEW r \in Request, NEW isOk \in BOOLEAN, NEW next,
           Callback(r, isOk, next)
    PROVE  Goes(r[1], r[2], isOk, next)
<1>1. r[1] \in Start /\ r[2] \in Question  BY RequestNames
<1>2. CASE /\ Succeeds(r[2], isOk) /\ r[2] # "info"
           /\ next = {<<r[1], After[r[2]]>>}
           /\ stage' = [stage EXCEPT ![r[1]] = After[r[2]]]
           /\ UNCHANGED madeVars
  <2>1. isOk /\ (r[2] = "ready" => config # "bad address")
    BY <1>2 DEF Succeeds, Fails
  <2>2. After[r[2]] \in Question  BY <1>1, <1>2 DEF After, Question
  <2>3. QED  BY <1>2, <2>1, <2>2 DEF Goes
<1>3. CASE Succeeds(r[2], isOk) /\ r[2] = "info" /\ next = {} /\ Listen(r[1])
  BY <1>3 DEF Succeeds, Fails, Goes
<1>4. CASE /\ next = {} /\ stage' = [stage EXCEPT ![r[1]] = "failed"]
           /\ UNCHANGED madeVars
  BY <1>4 DEF Goes
<1>5. CASE next = {} /\ UNCHANGED <<stage, madeVars>>
  <2>1. stage' = [stage EXCEPT ![r[1]] = stage[r[1]]]
    BY <1>1, <1>5 DEF StartTypeOK
  <2>2. QED  BY <1>5, <2>1 DEF Goes
<1>6. QED  BY <1>2, <1>3, <1>4, <1>5 DEF Callback, OnAnswer

LEMMA GoesKeepsTypes ==
    ASSUME StartTypeOK, NEW s \in Start, NEW question \in Question,
           NEW isOk \in BOOLEAN, NEW next, Goes(s, question, isOk, next),
           DaemonTypeOK', UNCHANGED config
    PROVE  StartTypeOK'
<1> USE DEF StartTypeOK
<1>1. /\ stage' \in [Start -> Question \cup {"none", "listening", "started", "failed"}]
      /\ isStarted' \in BOOLEAN
      /\ manager' \in Start \cup {NoStart}
      /\ listening' \in SUBSET Start
      /\ portInUse' \in BOOLEAN
  BY DEF Goes, madeVars, Listen
<1>2. QED  BY <1>1

\* A server is made after the last answer, where none was made before, or the
\* process ends.
LEMMA GoesKeepsServer ==
    ASSUME StartInv, NEW s \in Start, NEW question \in Question,
           NEW isOk \in BOOLEAN, NEW next, Goes(s, question, isOk, next),
           crashed => crashed',
           \A q \in Request :
              /\ response[q] = "result" => response'[q] = "result"
              /\ wire[q] # "new" => wire'[q] # "new",
           isOk => /\ response'[<<s, question>>] = "result"
                   /\ wire'[<<s, question>>] # "new"
    PROVE  ServerIsOfTheManager'
<1> USE DEF StartInv
<1>1. /\ stage \in [Start -> Question \cup {"none", "listening", "started", "failed"}]
      /\ listening \in SUBSET Start
      /\ portInUse \in BOOLEAN
  BY DEF StartTypeOK
<1>2. \A u \in listening : /\ wire'[<<u, "info">>] # "new"
                           /\ response'[<<u, "info">>] = "result"
  <2>1. ASSUME NEW u \in listening
        PROVE  <<u, "info">> \in Request
    BY <1>1, RequestAssumption DEF Question
  <2>2. QED  BY <2>1 DEF ServerIsOfTheManager
<1>3. CASE /\ \E value \in Question \cup {"failed", stage[s]} :
                 stage' = [stage EXCEPT ![s] = value]
           /\ UNCHANGED madeVars
  <2>1. \A u \in Start : stage'[u] \in {"listening", "started"} =>
                              stage'[u] = stage[u]
    BY <1>1, <1>3 DEF Question
  <2>2. UNCHANGED <<listening, manager>> /\ (Running' => Running)
    BY <1>3 DEF madeVars, Running
  <2>3. QED  BY <1>1, <1>2, <2>1, <2>2 DEF ServerIsOfTheManager
<1>4. CASE isOk /\ question = "info" /\ Listen(s)
  <2>1. \A u \in Start \ {s} : stage'[u] = stage[u]
    BY <1>1, <1>4 DEF Listen
  <2>2. stage'[s] = "listening" /\ manager' = s  BY <1>1, <1>4 DEF Listen
  <2>3. CASE portInUse' = TRUE /\ UNCHANGED listening
    BY <1>1, <1>2, <2>1, <2>2, <2>3 DEF ServerIsOfTheManager, Running
  <2>4. CASE listening = {} /\ listening' = {s} /\ UNCHANGED portInUse
    <3>1. \A u \in Start : stage'[u] # "started"
      BY <1>1, <2>1, <2>2, <2>4 DEF ServerIsOfTheManager
    <3>2. \A u \in Start \ {s} : Running' => stage'[u] # "listening"
      BY <1>1, <2>1, <2>4 DEF ServerIsOfTheManager, Running
    <3>3. QED
      BY <1>4, <2>2, <2>4, <3>1, <3>2 DEF ServerIsOfTheManager
  <2>5. QED  BY <1>4, <2>3, <2>4 DEF Listen
<1>5. QED  BY <1>3, <1>4 DEF Goes

LEMMA ErroredKeepsInv ==
    ASSUME StartInv, NEW r \in Request, Errored(r)
    PROVE  StartInv'
<1> USE DEF StartInv
<1>1. /\ RequestError(r) /\ Callback(r, FALSE, {}) /\ UNCHANGED config
      /\ UNCHANGED <<wire, response, crashed>>
  BY DEF Errored, RequestError
<1>2. DaemonInv'  BY <1>1, RequestErrorKeepsInv
<1>3. r[1] \in Start /\ r[2] \in Question  BY RequestNames
<1>4. Goes(r[1], r[2], FALSE, {})  BY <1>1, CallbackOutcomes
<1>5. StartTypeOK'  BY <1>1, <1>2, <1>3, <1>4, GoesKeepsTypes DEF DaemonInv
<1>6. QuestionsInOrder'  BY <1>1 DEF QuestionsInOrder
<1>7. ServerIsOfTheManager'  BY <1>1, <1>3, <1>4, GoesKeepsServer
<1>8. QED  BY <1>2, <1>5, <1>6, <1>7

LEMMA AnsweredKeepsInv ==
    ASSUME StartInv, NEW r \in Request, NEW answer \in Response,
           NEW next \in {{}} \cup {{<<r[1], question>>} : question \in Question},
           Answered(r, answer, next)
    PROVE  StartInv'
<1> USE DEF StartInv
<1> DEFINE s == r[1]
           asks == r[2]
           isOk == answer = "result"
<1>1. s \in Start /\ asks \in Question /\ r = <<s, asks>>  BY RequestNames
<1>2. next \in SUBSET Request  BY RequestNames
<1>3. ResponseEnd(r, answer, next) /\ UNCHANGED config  BY DEF Answered
<1>4. DaemonInv' /\ Ended(r, answer, next)
  BY <1>2, <1>3, ResponseKeepsInv, ResponseOutcomes
<1>5. Goes(s, asks, isOk, next)
  BY CallbackOutcomes DEF Answered
<1>6. \A q \in Request :
         /\ response[q] = "result" => response'[q] = "result"
         /\ wire[q] # "new" => wire'[q] # "new"
         /\ wire'[q] # "new" => wire[q] # "new" \/ q \in next
  BY <1>4 DEF Ended, DaemonInv
<1>7. wire[r] = "sent" /\ wire'[r] # "new" /\ response'[r] = answer
  BY <1>4 DEF Ended
<1>8. ~crashed  BY <1>3 DEF ResponseEnd
<1> HIDE DEF s, asks, isOk
<1>9. StartTypeOK'  BY <1>1, <1>3, <1>4, <1>5, GoesKeepsTypes DEF DaemonInv, isOk
<1>10. ServerIsOfTheManager'
  BY <1>1, <1>5, <1>6, <1>7, <1>8, GoesKeepsServer DEF isOk
<1>11. QuestionsInOrder'
  <2>1. CASE next = {}
    <3>1. \A u \in Start, q \in Question : <<u, q>> \in Request
      BY RequestAssumption
    <3>2. \A u \in Start : /\ <<u, "ready">> \in Request
                           /\ <<u, "address">> \in Request
                           /\ <<u, "info">> \in Request
      BY <3>1 DEF Question
    <3>3. QED  BY <1>3, <1>6, <2>1, <3>2 DEF QuestionsInOrder
  <2>2. CASE /\ next = {<<s, After[asks]>>} /\ isOk /\ asks # "info"
             /\ asks = "ready" => config # "bad address"
    <3>1. \A u \in Start : /\ <<u, "ready">> \in Request
                           /\ <<u, "address">> \in Request
                           /\ <<u, "info">> \in Request
      BY RequestAssumption DEF Question
    <3>2. response'[<<s, asks>>] = "result" /\ wire'[<<s, asks>>] # "new"
          /\ wire[<<s, asks>>] # "new"
      BY <1>1, <1>7, <2>2 DEF isOk
    <3>3. config \in {"good", "no daemon", "bad address"}  BY DEF StartTypeOK
    <3>4. CASE asks = "ready"
      <4>1. next = {<<s, "address">>}  BY <2>2, <3>4 DEF After
      <4>2. config = "good"
        BY <1>1, <2>2, <3>2, <3>3, <3>4 DEF QuestionsInOrder
      <4>3. \A u \in Start : wire'[<<u, "address">>] # "new" =>
               config = "good" /\ response'[<<u, "ready">>] = "result"
        <5>1. ASSUME NEW u \in Start, wire'[<<u, "address">>] # "new"
              PROVE  response'[<<u, "ready">>] = "result"
          <6>1. CASE u = s  BY <6>1, <3>2, <3>4
          <6>2. CASE u # s
            <7>1. <<u, "address">> \notin next  BY <4>1, <6>2
            <7>2. QED  BY <5>1, <7>1, <3>1, <1>6 DEF QuestionsInOrder
          <6>3. QED  BY <6>1, <6>2
        <5>2. QED  BY <4>2, <5>1
      <4>4. \A u \in Start : /\ <<u, "ready">> \notin next
                             /\ <<u, "info">> \notin next
        BY <4>1
      <4>5. QED  BY <1>3, <1>6, <3>1, <4>3, <4>4 DEF QuestionsInOrder
    <3>5. CASE asks = "address"
      <4>1. next = {<<s, "info">>}  BY <2>2, <3>5 DEF After
      <4>2. ASSUME NEW u \in Start, wire'[<<u, "info">>] # "new"
            PROVE  /\ wire'[<<u, "address">>] # "new"
                   /\ response'[<<u, "address">>] = "result"
        <5>1. CASE u = s  BY <5>1, <3>2, <3>5
        <5>2. CASE u # s
          <6>1. <<u, "info">> \notin next  BY <4>1, <5>2
          <6>2. QED  BY <4>2, <6>1, <3>1, <1>6 DEF QuestionsInOrder
        <5>3. QED  BY <5>1, <5>2
      <4>3. \A u \in Start : /\ <<u, "ready">> \notin next
                             /\ <<u, "address">> \notin next
        BY <4>1
      <4>4. QED  BY <1>3, <1>6, <3>1, <4>2, <4>3 DEF QuestionsInOrder
    <3>6. QED  BY <1>1, <2>2, <3>4, <3>5 DEF Question
  <2>3. QED  BY <1>5, <2>1, <2>2 DEF Goes
<1>12. QED  BY <1>4, <1>9, <1>10, <1>11

LEMMA StartIdleKeepsInv == StartInv /\ UNCHANGED poolStartVars => StartInv'
<1> SUFFICES ASSUME StartInv, UNCHANGED poolStartVars PROVE StartInv'
  OBVIOUS
<1>1. DaemonInv'  BY DaemonIdleKeepsInv DEF StartInv, poolStartVars
<1>2. QED
  BY <1>1 DEF StartInv, poolStartVars, madeVars, daemonVars, StartTypeOK,
              DaemonInv, QuestionsInOrder, ServerIsOfTheManager, Running

LEMMA StartInvAlways == StartSpec => []StartInv
<1>1. StartInv /\ [StartNext]_poolStartVars => StartInv'
  BY StartPoolKeepsInv, StartedKeepsInv, ErroredKeepsInv, AnsweredKeepsInv,
     StartIdleKeepsInv
  DEF StartNext, RequestEnds
<1>2. QED  BY <1>1, StartInitInv, PTL DEF StartSpec

-----------------------------------------------------------------------------

\* The starts' state is well typed.
THEOREM StartTypesCorrect == StartSpec => []StartTypeOK
BY StartInvAlways, PTL DEF StartInv

\* In the pool's own use of the daemon no callback is called twice either.
THEOREM StartCallsAtMostOnce == StartSpec => []CalledAtMostOnce
<1>1. StartInv => CalledAtMostOnce
  BY DEF StartInv, DaemonInv, CalledAtMostOnce
<1>2. QED  BY <1>1, StartInvAlways, PTL

\* A start uses the daemon as an Rpc: all that it does to requests is to send
\* them, and to send the next one in the turn of an answer.
THEOREM StartImplementsRpc == StartSpec => ImplementsRpc
<1>1. StartInv /\ [StartNext]_poolStartVars => [DaemonNext]_daemonVars
  <2>1. SUFFICES ASSUME StartInv, [StartNext]_poolStartVars
                 PROVE  DaemonNext \/ UNCHANGED daemonVars
    OBVIOUS
  <2>2. ASSUME NEW s \in Start, StartPool(s)
        PROVE  DaemonNext \/ UNCHANGED daemonVars
    <3>1. <<s, "ready">> \in Request  BY RequestAssumption DEF Question
    <3>2. QED  BY <2>2, <3>1 DEF StartPool, DaemonNext
  <2>3. ASSUME NEW s \in Start, Started(s) PROVE UNCHANGED daemonVars
    BY <2>3 DEF Started
  <2>4. ASSUME NEW r \in Request, Errored(r) PROVE DaemonNext
    BY <2>4 DEF Errored, DaemonNext
  <2>5. ASSUME NEW r \in Request, NEW answer \in Response,
               NEW next \in {{}} \cup {{<<r[1], question>>} : question \in Question},
               Answered(r, answer, next)
        PROVE  DaemonNext
    <3>1. next \in SUBSET Request  BY RequestNames
    <3>2. QED  BY <2>5, <3>1 DEF Answered, DaemonNext
  <2>6. UNCHANGED poolStartVars => UNCHANGED daemonVars  BY DEF poolStartVars
  <2>7. QED
    BY <2>1, <2>2, <2>3, <2>4, <2>5, <2>6 DEF StartNext, RequestEnds
<1>2. StartInv => DaemonInv  BY DEF StartInv
<1>3. DaemonInv /\ [DaemonNext]_daemonVars => [Asked!Next]_(Asked!rpcVars)
  BY StepIsRpcStep
<1>4. StartInit => Asked!Init  BY DaemonInitIsRpcInit DEF StartInit
<1>5. QED
  BY <1>1, <1>2, <1>3, <1>4, StartInvAlways, PTL
  DEF StartSpec, ImplementsRpc, Asked!Spec

\* However many starts run at once, one completes at most, and it is the one
\* whose job manager the pool has.
THEOREM OneStartServesAlways == StartSpec => []OneStartServes
<1>1. ASSUME StartInv
      PROVE  OneStartServes
  <2> DEFINE done == {s \in Start : stage[s] = "started"}
  <2>1. \A s, u \in done : s = u
    BY <1>1 DEF StartInv, ServerIsOfTheManager
  <2>2. done = {} \/ \E s \in done : done = {s}  BY <2>1
  <2>3. Cardinality({}) = 0 /\ \A s : Cardinality({s}) = 1
    BY FS_EmptySet, FS_Singleton
  <2>4. Cardinality(done) <= 1  BY <2>2, <2>3
  <2>5. QED  BY <1>1, <2>4 DEF StartInv, ServerIsOfTheManager, OneStartServes
<1>2. QED  BY <1>1, StartInvAlways, PTL

\* Miners are let in only after the daemon gave a result to each question.
THEOREM ServesOnlyWithTheDaemonAlways == StartSpec => []ServesOnlyWithTheDaemon
<1>1. ASSUME StartInv, NEW s \in listening
      PROVE  /\ config = "good"
             /\ \A question \in Question : response[<<s, question>>] = "result"
  <2>1. s \in Start  BY <1>1 DEF StartInv, StartTypeOK
  <2>2. wire[<<s, "info">>] # "new" /\ response[<<s, "info">>] = "result"
    BY <1>1 DEF StartInv, ServerIsOfTheManager
  <2>3. /\ wire[<<s, "address">>] # "new"
        /\ response[<<s, "address">>] = "result"
    BY <1>1, <2>1, <2>2 DEF StartInv, QuestionsInOrder
  <2>4. config = "good" /\ response[<<s, "ready">>] = "result"
    BY <1>1, <2>1, <2>3 DEF StartInv, QuestionsInOrder
  <2>5. QED  BY <2>2, <2>3, <2>4 DEF Question
<1>2. StartInv => ServesOnlyWithTheDaemon
  BY <1>1 DEF ServesOnlyWithTheDaemon
<1>3. QED  BY <1>2, StartInvAlways, PTL

-----------------------------------------------------------------------------
\* Starts that hang: what is behind StartEndsUnlessUnheard, as an invariant.

\* Only the question a start waits for has its callback held; and if it is not
\* held, the response was dropped, or there is no daemon to ask.
WaitsForAnAnswer(s) ==
    /\ \A question \in Question :
          callback[<<s, question>>] => stage[s] = question
    /\ stage[s] \in Question =>
          \/ callback[<<s, stage[s]>>]
          \/ Unheard(<<s, stage[s]>>)
          \/ config = "no daemon"

\* A start that neither completes nor fails waits for an answer that may yet
\* come, or for one that was dropped, or no daemon is configured.
HangsForAReason == \A s \in Start : WaitsForAnAnswer(s)

LEMMA UntouchedWaits ==
    ASSUME NEW s \in Start, WaitsForAnAnswer(s), stage'[s] = stage[s],
           config' = config,
           \A question \in Question :
              /\ callback'[<<s, question>>] = callback[<<s, question>>]
              /\ Unheard(<<s, question>>) => Unheard(<<s, question>>)'
    PROVE  WaitsForAnAnswer(s)'
BY DEF WaitsForAnAnswer

\* A start that is no step's own keeps waiting.
LEMMA OthersWait ==
    ASSUME StartInv, HangsForAReason, NEW s \in Start, UNCHANGED config,
           \A u \in Start \ {s} : stage'[u] = stage[u],
           \A r \in Request : r[1] # s =>
              /\ wire'[r] = wire[r] /\ callback'[r] = callback[r]
              /\ response'[r] = response[r] /\ calls'[r] = calls[r]
    PROVE  \A u \in Start \ {s} : WaitsForAnAnswer(u)'
<1> SUFFICES ASSUME NEW u \in Start, u # s PROVE WaitsForAnAnswer(u)'
  OBVIOUS
<1>1. ASSUME NEW question \in Question
      PROVE  /\ callback'[<<u, question>>] = callback[<<u, question>>]
             /\ Unheard(<<u, question>>) => Unheard(<<u, question>>)'
  <2>1. <<u, question>> \in Request /\ <<u, question>>[1] # s
    BY RequestAssumption
  <2>2. QED  BY <2>1 DEF Unheard
<1>2. WaitsForAnAnswer(u) /\ stage'[u] = stage[u]  BY DEF HangsForAReason
<1>3. QED  BY <1>1, <1>2, UntouchedWaits

LEMMA StartPoolKeepsHangs ==
    ASSUME StartInv, HangsForAReason, NEW s \in Start, StartPool(s)
    PROVE  HangsForAReason'
<1> DEFINE r == <<s, "ready">>
<1>1. /\ r \in Request /\ r[1] = s
      /\ \A question \in Question : <<s, question>> \in Request
  BY RequestAssumption DEF Question
<1>2. /\ wire \in [Request -> {"new", "sent", "ended"}]
      /\ callback \in [Request -> BOOLEAN]
      /\ stage \in [Start -> Question \cup
                             {"none", "listening", "started", "failed"}]
  BY DEF StartInv, StartTypeOK, DaemonTypeOK
<1>3. /\ stage[s] = "none" /\ stage' = [stage EXCEPT ![s] = "ready"]
      /\ UNCHANGED <<config, response, calls>>
      /\ \/ /\ wire' = [wire EXCEPT ![r] = "sent"]
            /\ callback' = [callback EXCEPT ![r] = TRUE]
         \/ config = "no daemon" /\ UNCHANGED <<wire, callback>>
  BY DEF StartPool, Cmd, daemonVars
<1>4. \A question \in Question : ~callback[<<s, question>>]
  BY <1>3 DEF HangsForAReason, WaitsForAnAnswer, Question
<1> HIDE DEF r
<1>5. \A u \in Start \ {s} : WaitsForAnAnswer(u)'
  <2>1. \A q \in Request : q[1] # s => q # r  BY <1>1
  <2>2. \A q \in Request : q # r => /\ wire'[q] = wire[q]
                                   /\ callback'[q] = callback[q]
    BY <1>1, <1>2, <1>3
  <2>3. \A u \in Start \ {s} : stage'[u] = stage[u]  BY <1>2, <1>3
  <2>4. UNCHANGED <<config, response, calls>>  BY <1>3
  <2>5. QED  BY <2>1, <2>2, <2>3, <2>4, OthersWait
<1>6. stage'[s] = "ready"  BY <1>2, <1>3
<1>7. CASE callback' = [callback EXCEPT ![r] = TRUE]
  <2>1. callback'[<<s, "ready">>]  BY <1>1, <1>2, <1>7 DEF r
  <2>2. ASSUME NEW question \in Question, question # "ready"
        PROVE  ~callback'[<<s, question>>]
    <3>1. <<s, question>> # r  BY <2>2 DEF r
    <3>2. callback'[<<s, question>>] = callback[<<s, question>>]
      BY <1>1, <1>2, <1>7, <3>1
    <3>3. QED  BY <1>4, <3>2
  <2>3. WaitsForAnAnswer(s)'  BY <1>6, <2>1, <2>2 DEF WaitsForAnAnswer
  <2>4. QED  BY <1>5, <2>3 DEF HangsForAReason
<1>8. CASE config = "no daemon" /\ UNCHANGED <<wire, callback>>
  <2>1. WaitsForAnAnswer(s)'  BY <1>3, <1>4, <1>8 DEF WaitsForAnAnswer
  <2>2. QED  BY <1>5, <2>1 DEF HangsForAReason
<1>9. QED  BY <1>3, <1>7, <1>8

LEMMA StartedKeepsHangs ==
    ASSUME StartInv, HangsForAReason, NEW s \in Start, Started(s)
    PROVE  HangsForAReason'
<1>1. /\ stage \in [Start -> Question \cup
                             {"none", "listening", "started", "failed"}]
  BY DEF StartInv, StartTypeOK
<1>2. /\ stage[s] = "listening" /\ stage' = [stage EXCEPT ![s] = "started"]
      /\ UNCHANGED <<config, wire, callback, response, calls>>
  BY DEF Started, daemonVars
<1>3. stage'[s] = "started" /\ \A u \in Start \ {s} : stage'[u] = stage[u]
  BY <1>1, <1>2
<1>4. \A question \in Question : ~callback'[<<s, question>>]
  BY <1>2 DEF HangsForAReason, WaitsForAnAnswer, Question
<1>5. WaitsForAnAnswer(s)'  BY <1>3, <1>4 DEF WaitsForAnAnswer, Question
<1>6. \A u \in Start \ {s} : WaitsForAnAnswer(u)'  BY <1>2, <1>3, OthersWait
<1>7. QED  BY <1>5, <1>6 DEF HangsForAReason

\* A callback that is called takes its start to the next question, whose
\* request has left, or out of the questions.
LEMMA CallMovesStart ==
    ASSUME StartInv, HangsForAReason, NEW r \in Request, NEW isOk \in BOOLEAN,
           NEW next, OnAnswer(r[1], r[2], isOk, next), UNCHANGED config,
           callback[r],
           \A q \in Request :
              /\ callback'[q] = IF q \in next THEN TRUE
                                ELSE IF q = r THEN FALSE ELSE callback[q]
              /\ q \notin next /\ q # r =>
                    /\ wire'[q] = wire[q] /\ response'[q] = response[q]
                    /\ calls'[q] = calls[q]
    PROVE  HangsForAReason'
<1> DEFINE s == r[1]
           asks == r[2]
<1>1. /\ s \in Start /\ asks \in Question /\ r = <<s, asks>>
      /\ \A question \in Question : <<s, question>> \in Request
  BY RequestNames
<1>2. stage \in [Start -> Question \cup
                          {"none", "listening", "started", "failed"}]
  BY DEF StartInv, StartTypeOK
<1>3. stage[s] = asks
  BY <1>1 DEF HangsForAReason, WaitsForAnAnswer
<1>4. \A question \in Question \ {asks} : ~callback[<<s, question>>]
  BY <1>1, <1>3 DEF HangsForAReason, WaitsForAnAnswer
<1>5. OnAnswer(s, asks, isOk, next)  OBVIOUS
<1> HIDE DEF s, asks
<1>6. \A q \in next : q[1] = s  BY <1>5 DEF OnAnswer
<1>7. \A u \in Start \ {s} : stage'[u] = stage[u]
  BY <1>1, <1>2, <1>5 DEF OnAnswer, Listen
<1>8. \A u \in Start \ {s} : WaitsForAnAnswer(u)'
  <2>1. \A q \in Request : q[1] # s =>
           /\ wire'[q] = wire[q] /\ callback'[q] = callback[q]
           /\ response'[q] = response[q] /\ calls'[q] = calls[q]
    <3>1. r[1] = s  BY DEF s
    <3>2. \A q \in Request : q[1] # s => q \notin next /\ q # r
      BY <1>6, <3>1
    <3>3. QED  BY <3>2
  <2>2. QED  BY <1>1, <1>7, <2>1, OthersWait
<1>9. CASE next = {}
  <2>1. stage'[s] \in {"listening", "failed"}
    BY <1>1, <1>2, <1>5, <1>9 DEF OnAnswer, Listen
  <2>2. ASSUME NEW question \in Question
        PROVE  ~callback'[<<s, question>>]
    <3>1. CASE question = asks
      <4>1. callback'[<<s, question>>] = FALSE  BY <1>1, <1>9, <3>1
      <4>2. QED  BY <4>1
    <3>2. CASE question # asks
      <4>1. <<s, question>> # r  BY <1>1, <3>2
      <4>2. callback'[<<s, question>>] = callback[<<s, question>>]
        BY <1>1, <1>9, <4>1
      <4>3. QED  BY <1>4, <3>2, <4>2
    <3>3. QED  BY <3>1, <3>2
  <2>3. WaitsForAnAnswer(s)'
    BY <2>1, <2>2 DEF WaitsForAnAnswer, Question
  <2>4. QED  BY <1>8, <2>3 DEF HangsForAReason
<1>10. CASE /\ next = {<<s, After[asks]>>} /\ asks # "info"
            /\ stage' = [stage EXCEPT ![s] = After[asks]]
  <2>1. After[asks] \in Question /\ After[asks] # asks
    BY <1>1, <1>10 DEF After, Question
  <2>2. stage'[s] = After[asks]  BY <1>1, <1>2, <1>10
  <2>3. callback'[<<s, After[asks]>>]
    <3>1. callback'[<<s, After[asks]>>] = TRUE  BY <1>1, <1>10, <2>1
    <3>2. QED  BY <3>1
  <2>4. ASSUME NEW question \in Question, question # After[asks]
        PROVE  ~callback'[<<s, question>>]
    <3>1. <<s, question>> \notin next  BY <1>10, <2>4
    <3>2. CASE question = asks
      <4>1. callback'[<<s, question>>] = FALSE  BY <1>1, <3>1, <3>2
      <4>2. QED  BY <4>1
    <3>3. CASE question # asks
      <4>1. <<s, question>> # r  BY <1>1, <3>3
      <4>2. callback'[<<s, question>>] = callback[<<s, question>>]
        BY <1>1, <3>1, <4>1
      <4>3. QED  BY <1>4, <3>3, <4>2
    <3>4. QED  BY <3>2, <3>3
  <2>5. WaitsForAnAnswer(s)'
    BY <2>2, <2>3, <2>4 DEF WaitsForAnAnswer
  <2>6. QED  BY <1>8, <2>5 DEF HangsForAReason
<1>11. QED  BY <1>5, <1>9, <1>10 DEF OnAnswer

\* A callback that is not held is not called, and nothing else changes.
LEMMA UncalledKeepsHangs ==
    ASSUME StartInv, HangsForAReason, UNCHANGED <<stage, config, calls>>,
           NEW r \in Request, ~callback[r], wire[r] = "sent" \/ wire' = wire,
           \A q \in Request :
              /\ callback'[q] = callback[q]
              /\ q # r => wire'[q] = wire[q]
              /\ response'[q] = response[q] \/ (q = r /\ wire[r] = "sent")
    PROVE  HangsForAReason'
<1>1. ASSUME NEW s \in Start PROVE WaitsForAnAnswer(s)'
  <2>1. ASSUME NEW question \in Question
        PROVE  /\ callback'[<<s, question>>] = callback[<<s, question>>]
               /\ Unheard(<<s, question>>) => Unheard(<<s, question>>)'
    <3>1. <<s, question>> \in Request  BY RequestAssumption
    <3>2. ASSUME Unheard(<<s, question>>)
          PROVE  /\ wire'[<<s, question>>] = wire[<<s, question>>]
                 /\ response'[<<s, question>>] = response[<<s, question>>]
      <4>1. wire[<<s, question>>] = "ended"  BY <3>2 DEF Unheard
      <4>2. CASE <<s, question>> = r
        <5>1. wire[r] # "sent"  BY <4>1, <4>2
        <5>2. QED  BY <3>1, <4>2, <5>1
      <4>3. CASE <<s, question>> # r  BY <3>1, <4>3
      <4>4. QED  BY <4>2, <4>3
    <3>3. QED  BY <3>1, <3>2 DEF Unheard
  <2>2. QED  BY <2>1, UntouchedWaits DEF HangsForAReason
<1>2. QED  BY <1>1 DEF HangsForAReason

LEMMA ErroredKeepsHangs ==
    ASSUME StartInv, HangsForAReason, NEW r \in Request, Errored(r)
    PROVE  HangsForAReason'
<1>1. /\ callback \in [Request -> BOOLEAN] /\ calls \in [Request -> Nat]
  BY DEF StartInv, StartTypeOK, DaemonTypeOK
<1>2. /\ UNCHANGED <<config, wire, response>>
      /\ callback' = [callback EXCEPT ![r] = FALSE]
      /\ calls' = IF callback[r] THEN [calls EXCEPT ![r] = @ + 1] ELSE calls
      /\ Callback(r, FALSE, {})
  BY DEF Errored, RequestError, CallBack
<1>3. CASE callback[r]
  <2>1. calls'[r] # calls[r] /\ \A q \in Request \ {r} : calls'[q] = calls[q]
    BY <1>1, <1>2, <1>3
  <2> DEFINE none == {}
  <2>2. OnAnswer(r[1], r[2], FALSE, none)  BY <1>2, <2>1 DEF Callback
  <2>3. ASSUME NEW q \in Request
        PROVE  /\ callback'[q] = IF q \in none THEN TRUE
                                 ELSE IF q = r THEN FALSE ELSE callback[q]
               /\ q \notin none /\ q # r =>
                     /\ wire'[q] = wire[q] /\ response'[q] = response[q]
                     /\ calls'[q] = calls[q]
    <3>1. callback'[q] = IF q = r THEN FALSE ELSE callback[q]
      BY <1>1, <1>2
    <3>2. q # r => calls'[q] = calls[q]  BY <2>1
    <3>3. QED  BY <1>2, <3>1, <3>2
  <2>4. FALSE \in BOOLEAN /\ UNCHANGED config  BY <1>2
  <2> HIDE DEF none
  <2>5. QED  BY <1>3, <2>2, <2>3, <2>4, CallMovesStart
<1>4. CASE ~callback[r]
  <2>1. UNCHANGED <<stage, calls>>  BY <1>2, <1>4 DEF Callback
  <2>2. \A q \in Request : callback'[q] = callback[q]  BY <1>1, <1>2, <1>4
  <2>3. QED  BY <1>2, <1>4, <2>1, <2>2, UncalledKeepsHangs
<1>5. QED  BY <1>3, <1>4

LEMMA AnsweredKeepsHangs ==
    ASSUME StartInv, HangsForAReason, NEW r \in Request, NEW answer \in Response,
           NEW next \in SUBSET Request, Answered(r, answer, next)
    PROVE  HangsForAReason'
<1>1. /\ callback \in [Request -> BOOLEAN] /\ calls \in [Request -> Nat]
      /\ DaemonInv
  BY DEF StartInv, StartTypeOK, DaemonTypeOK
<1>2. /\ wire[r] = "sent" /\ UNCHANGED config
      /\ next # {} => callback[r]
      /\ Callback(r, answer = "result", next)
      /\ \/ Parsed(answer) /\ CallBack(r)
         \/ ~Parsed(answer) /\ UNCHANGED calls /\ next = {}
  BY DEF Answered, ResponseEnd, MaySend
<1>3. \A q \in Request :
         /\ wire'[q] = IF q \in next THEN "sent"
                       ELSE IF q = r THEN "ended" ELSE wire[q]
         /\ callback'[q] = IF q \in next THEN TRUE
                           ELSE IF q = r THEN FALSE ELSE callback[q]
         /\ response'[q] = IF q = r THEN answer ELSE response[q]
  <2>1. ResponseEnd(r, answer, next)  BY DEF Answered
  <2>2. Ended(r, answer, next)  BY <1>1, <2>1, ResponseOutcomes
  <2>3. QED  BY <2>2 DEF Ended
<1>4. CASE callback[r] /\ Parsed(answer)
  <2>1. calls' = [calls EXCEPT ![r] = @ + 1]  BY <1>2, <1>4 DEF CallBack
  <2>2. calls'[r] # calls[r] /\ \A q \in Request \ {r} : calls'[q] = calls[q]
    BY <1>1, <2>1
  <2>3. OnAnswer(r[1], r[2], answer = "result", next)
    BY <1>2, <2>2 DEF Callback
  <2>4. \A q \in Request :
           /\ callback'[q] = IF q \in next THEN TRUE
                             ELSE IF q = r THEN FALSE ELSE callback[q]
           /\ q \notin next /\ q # r =>
                 /\ wire'[q] = wire[q] /\ response'[q] = response[q]
                 /\ calls'[q] = calls[q]
    BY <1>3, <2>2
  <2>5. (answer = "result") \in BOOLEAN /\ UNCHANGED config  BY <1>2
  <2>6. QED  BY <1>4, <2>3, <2>4, <2>5, CallMovesStart
<1>5. CASE callback[r] /\ ~Parsed(answer)
  <2> DEFINE s == r[1]
             asks == r[2]
  <2>1. /\ s \in Start /\ asks \in Question /\ r = <<s, asks>>
        /\ \A question \in Question : <<s, question>> \in Request
    BY RequestNames
  <2>2. next = {} /\ UNCHANGED <<calls, stage>>  BY <1>2, <1>5 DEF Callback
  <2>3. stage[s] = asks
    BY <1>5, <2>1 DEF HangsForAReason, WaitsForAnAnswer
  <2>4. Unheard(r)'
    <3>1. wire'[r] = "ended" /\ response'[r] = answer  BY <1>3, <2>2
    <3>2. calls'[r] = 0  BY <1>1, <1>5, <2>2 DEF DaemonInv
    <3>3. QED  BY <1>5, <3>1, <3>2 DEF Unheard, Parsed
  <2>5. r[1] = s  OBVIOUS
  <2> HIDE DEF s, asks
  <2>6. \A u \in Start \ {s} : WaitsForAnAnswer(u)'
    <3>1. \A q \in Request : q[1] # s => q # r  BY <2>5
    <3>2. \A q \in Request : q[1] # s =>
             /\ wire'[q] = wire[q] /\ callback'[q] = callback[q]
             /\ response'[q] = response[q] /\ calls'[q] = calls[q]
      BY <1>3, <2>2, <3>1
    <3>3. QED  BY <1>2, <2>1, <2>2, <3>2, OthersWait
  <2>7. ASSUME NEW question \in Question
        PROVE  ~callback'[<<s, question>>]
    <3>1. CASE question = asks
      <4>1. callback'[<<s, question>>] = FALSE  BY <1>3, <2>1, <2>2, <3>1
      <4>2. QED  BY <4>1
    <3>2. CASE question # asks
      <4>1. <<s, question>> # r  BY <2>1, <3>2
      <4>2. callback'[<<s, question>>] = callback[<<s, question>>]
        BY <1>3, <2>1, <2>2, <4>1
      <4>3. ~callback[<<s, question>>]
        BY <2>1, <2>3, <3>2 DEF HangsForAReason, WaitsForAnAnswer
      <4>4. QED  BY <4>2, <4>3
    <3>3. QED  BY <3>1, <3>2
  <2>8. WaitsForAnAnswer(s)'
    BY <2>1, <2>2, <2>3, <2>4, <2>7 DEF WaitsForAnAnswer
  <2>9. QED  BY <2>6, <2>8 DEF HangsForAReason
<1>6. CASE ~callback[r]
  <2>1. next = {} /\ UNCHANGED calls  BY <1>2, <1>6 DEF CallBack
  <2>2. UNCHANGED stage  BY <1>2, <2>1 DEF Callback
  <2>3. \A q \in Request :
           /\ callback'[q] = callback[q]
           /\ q # r => wire'[q] = wire[q]
           /\ response'[q] = response[q] \/ (q = r /\ wire[r] = "sent")
    <3>1. callback[r] = FALSE  BY <1>1, <1>6
    <3>2. QED  BY <1>2, <1>3, <2>1, <3>1
  <2>4. QED  BY <1>2, <1>6, <2>1, <2>2, <2>3, UncalledKeepsHangs
<1>7. QED  BY <1>4, <1>5, <1>6

\* A start that hangs is one whose question was answered with a 401 or with
\* what is not JSON, or that has no daemon to ask; every other one that has
\* not come to its end waits for a request whose callback is held.
THEOREM HangsForAReasonAlways == StartSpec => []HangsForAReason
<1>1. StartInit => HangsForAReason
  <2>1. SUFFICES ASSUME StartInit, NEW s \in Start
                 PROVE  WaitsForAnAnswer(s)
    BY DEF HangsForAReason
  <2>2. stage[s] = "none"  BY <2>1 DEF StartInit
  <2>3. \A question \in Question : callback[<<s, question>>] = FALSE
    BY <2>1, RequestAssumption DEF StartInit, DaemonInit
  <2>4. QED  BY <2>2, <2>3 DEF WaitsForAnAnswer, Question
<1>2. StartInv /\ HangsForAReason /\ [StartNext]_poolStartVars
        => HangsForAReason'
  <2>1. SUFFICES ASSUME StartInv, HangsForAReason, [StartNext]_poolStartVars
                 PROVE  HangsForAReason'
    OBVIOUS
  <2>2. CASE StartNext
    <3>1. \A r \in Request, question \in Question : <<r[1], question>> \in Request
      BY RequestNames
    <3>2. \A r \in Request :
             {{}} \cup {{<<r[1], question>>} : question \in Question}
               \subseteq SUBSET Request
      BY <3>1
    <3>3. QED
      BY <2>1, <2>2, <3>2, StartPoolKeepsHangs, StartedKeepsHangs,
         ErroredKeepsHangs, AnsweredKeepsHangs
      DEF StartNext, RequestEnds
  <2>3. CASE UNCHANGED poolStartVars
    BY <2>1, <2>3
    DEF poolStartVars, daemonVars, HangsForAReason, WaitsForAnAnswer, Unheard
  <2>4. QED  BY <2>1, <2>2, <2>3
<1>3. QED  BY <1>1, <1>2, StartInvAlways, PTL DEF StartSpec
=============================================================================
