---------------------------- MODULE StratumServer ----------------------------
(***************************************************************************)
(* class.StratumServer.js: which connections it knows.  A connection is    *)
(* filed under the id SubscriptionCounter gave it and found by that id     *)
(* when it is closed; the id wraps.                                        *)
(***************************************************************************)
EXTENDS ClientSocket

CONSTANTS SubLimit,   \* 0xFFFFFFF, where the ids wrap
          NonceLimit, \* 0xFFFFFFFFFFFFFFFF as a double, where extraNonce1 does
          MaxMade,    \* bound on the connections made
          NoConn      \* undefined, as the value of clientMap.get

VARIABLES
    count,       \* SubscriptionCounter
    counter,     \* ExtraNonceCounter, counterBn
    made,        \* connections made so far; the code keeps no such count
    serial,      \* serial[c]: the value of made when c was
    subId,       \* subId[c]: its subscription id
    extraNonce1, \* extraNonce1[c]
    clientMap,   \* clientMap[id], NoConn if there is none
    removed,     \* clients whose workers were marked removed
    isStopped

idVars     == <<count, counter, made, serial, subId, extraNonce1>>
serverVars == <<socketVars, idVars, clientMap, removed, isStopped>>

SubId == 0 .. SubLimit - 1

ASSUME LimitAssumption ==
    SubLimit \in Nat \ {0} /\ NonceLimit \in Nat \ {0} /\ MaxMade \in Nat
ASSUME NoConnAssumption == NoConn \notin Conn

-----------------------------------------------------------------------------

ServerInit ==
    /\ SocketInit
    /\ count = 0
    /\ counter = 0
    /\ made = 0
    /\ serial = [c \in Conn |-> 0]
    /\ subId = [c \in Conn |-> 0]
    /\ extraNonce1 = [c \in Conn |-> 0]
    /\ clientMap = [id \in SubId |-> NoConn]
    /\ removed = {}
    /\ isStopped = FALSE

\* Seeded bugs: the id wraps one too early; never.
NextIdEarly(n) == IF n + 1 >= SubLimit - 1 THEN 0 ELSE n + 1

NextIdUnwrapped(n) == n + 1

\* SubscriptionCounter.next.
NextId(n) == IF n + 1 >= SubLimit THEN 0 ELSE n + 1

\* Seeded bug: the comparison with the limit is one off.
NextNonceEarly(n) == (IF n + 1 >= NonceLimit THEN 0 ELSE n) + 1

\* ExtraNonceCounter.next.
NextNonce(n) == (IF n >= NonceLimit THEN 0 ELSE n) + 1

\* _handleNewClient: a stopped server takes no client.
Connect(c, s) ==
    /\ ~isStopped /\ made < MaxMade
    /\ sock[c] \in {"none", "closed"}
    /\ Accept(c, s)
    /\ count' = NextId(count)
    /\ counter' = NextNonce(counter)
    /\ made' = made + 1
    /\ serial' = [serial EXCEPT ![c] = made']
    /\ subId' = [subId EXCEPT ![c] = count']
    /\ extraNonce1' = [extraNonce1 EXCEPT ![c] = counter']
    /\ clientMap' = [clientMap EXCEPT ![count'] = c]
    /\ removed' = removed \ {c}
    /\ UNCHANGED isStopped

\* The bytes of a client arrive.
Receive(c, chunk) ==
    /\ Data(c, chunk)
    /\ UNCHANGED <<idVars, clientMap, removed, isStopped>>

\* The client is disconnected by its session: refused, or found idle.
Disconnect(c) ==
    /\ sock[c] = "open"
    /\ sock' = [sock EXCEPT ![c] = "destroyed"]
    /\ UNCHANGED <<stream, received, start, handled, flooded, idVars,
                   clientMap, removed, isStopped>>

\* _removeStratumClientBySubId.
Remove(id) ==
    /\ removed' = removed \cup ({clientMap[id]} \ {NoConn})
    /\ clientMap' = [clientMap EXCEPT ![id] = NoConn]

\* The close event: the other end closed, or the socket was destroyed.
Close(c) ==
    /\ sock[c] \in {"open", "destroyed"}
    /\ sock' = [sock EXCEPT ![c] = "closed"]
    /\ Remove(subId[c])
    /\ UNCHANGED <<stream, received, start, handled, flooded, idVars, isStopped>>

\* stop(): server.close throws, the clients stay.
Stop ==
    /\ ~isStopped
    /\ isStopped' = TRUE
    /\ UNCHANGED <<socketVars, idVars, clientMap, removed>>

ServerNext ==
    \/ Stop
    \/ \E c \in Conn :
          \/ Disconnect(c)
          \/ Close(c)
          \/ \E s \in Stream : Connect(c, s)
          \/ \E chunk \in 1 .. MaxChunk : Receive(c, chunk)

ServerSpec == ServerInit /\ [][ServerNext]_serverVars

-----------------------------------------------------------------------------

\* Types of the server's state.
ServerTypeOK ==
    /\ SocketTypeOK
    /\ count \in SubId
    /\ counter \in 0 .. NonceLimit
    /\ made \in 0 .. MaxMade
    /\ serial \in [Conn -> 0 .. MaxMade]
    /\ subId \in [Conn -> SubId]
    /\ extraNonce1 \in [Conn -> 0 .. NonceLimit]
    /\ clientMap \in [SubId -> Conn \cup {NoConn}]
    /\ removed \in SUBSET Conn
    /\ isStopped \in BOOLEAN

Connected == {c \in Conn : sock[c] \in {"open", "destroyed"}}

\* The miners at work at one time search different blocks: two clients share
\* their extraNonce1 only if one outlives the whole range of the other's.
OwnExtraNonce ==
    \A c, d \in Connected :
        c # d /\ extraNonce1[c] = extraNonce1[d]
            => \/ serial[c] >= serial[d] + NonceLimit
               \/ serial[d] >= serial[c] + NonceLimit

\* Only a namesake does a client harm.  One that is not found in clientMap
\* while it is connected, so that no work is sent to it and its silence is not
\* noticed, has shared its id with another, that came after it or was there
\* before and has gone; one whose workers are taken for removed while it is
\* connected had a client with its id before it.
LostOnlyToANamesake ==
    \A c \in Connected :
        /\ clientMap[subId[c]] # c =>
              made >= serial[c] + SubLimit \/ serial[c] > SubLimit
        /\ c \in removed => serial[c] > SubLimit
=============================================================================
